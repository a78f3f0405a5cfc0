------------------------------ MODULE BytePipe ------------------------------
(***************************************************************************)
(* A scullpipe device as its users see it: a first-in first-out stream of  *)
(* bytes.  Bytes are numbered in the order of the writes, modulo NBytes.   *)
(* Opening the device, or closing it for the last time, may throw away     *)
(* what has not been read.                                                 *)
(***************************************************************************)
EXTENDS Naturals, Sequences

CONSTANTS
  NBytes,   (* How many byte values tell one byte from the next.           *)
  MaxCount  (* The largest count of a read or write.                       *)

VARIABLES
  contents, (* Bytes written and neither read nor discarded, oldest first. *)
  next,     (* The next byte to be written.                                *)
  out       (* What the last read returned.                                *)

vars == <<contents, next, out>>

Init ==
  /\ contents = <<>>
  /\ next = 0
  /\ out = <<>>

Bytes(from, n) == [i \in 1..n |-> (from + i - 1) % NBytes]

Write(n) ==
  /\ contents' = contents \o Bytes(next, n)
  /\ next' = (next + n) % NBytes
  /\ UNCHANGED out

Read(n) ==
  /\ n <= Len(contents)
  /\ out' = SubSeq(contents, 1, n)
  /\ contents' = SubSeq(contents, n + 1, Len(contents))
  /\ UNCHANGED next

Discard ==
  /\ contents' = <<>>
  /\ UNCHANGED <<next, out>>

Next ==
  \/ \E n \in 0..MaxCount : Write(n) \/ Read(n)
  \/ Discard

Spec == Init /\ [][Next]_vars
=============================================================================
