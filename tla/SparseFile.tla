----------------------------- MODULE SparseFile -----------------------------
(***************************************************************************)
(* A scull device as its users see it: a file in which writes may leave    *)
(* holes.  What is read from a hole, or from where a write failed, is      *)
(* Unknown.  A read or write may always do less than it was asked to.      *)
(***************************************************************************)
EXTENDS Naturals

CONSTANTS
  NBytes,    (* Byte values are 0..NBytes-1.                               *)
  MaxCount,  (* The largest count of a read or write.                      *)
  Positions, (* 0..(the largest size - 1).                                 *)
  Unknown

VARIABLES
  contents,  (* [Positions -> byte values or Unknown].                     *)
  size,
  out        (* What the last read returned, as a function of positions.   *)

vars == <<contents, size, out>>

Nothing == [x \in {} |-> Unknown]

Init ==
  /\ contents = [x \in Positions |-> Unknown]
  /\ size = 0
  /\ out = Nothing

(* New bytes at n positions, and nowhere else.                             *)
Put(from, n) ==
  \E bytes \in [from..(from + n - 1) -> 0..(NBytes - 1)] :
    contents' = [x \in Positions |-> IF x \in DOMAIN bytes THEN bytes[x] ELSE contents[x]]

Write(from, n) ==
  /\ Put(from, n)
  /\ size' = IF from + n > size THEN from + n ELSE size
  /\ UNCHANGED out

(* The bytes of a write that fails may have been stored all the same.      *)
WriteFault(from, n) ==
  /\ Put(from, n)
  /\ UNCHANGED <<size, out>>

Read(from, n) ==
  /\ from + n <= size
  /\ out' = [x \in from..(from + n - 1) |-> contents[x]]
  /\ UNCHANGED <<contents, size>>

(* The end of the file, a hole, or the start of another call.              *)
ReadNothing ==
  /\ out' = Nothing
  /\ UNCHANGED <<contents, size>>

Truncate ==
  /\ contents' = [x \in Positions |-> Unknown]
  /\ size' = 0
  /\ UNCHANGED out

Next ==
  \/ \E from \in Positions, n \in 0..MaxCount :
       Write(from, n) \/ WriteFault(from, n) \/ Read(from, n)
  \/ ReadNothing
  \/ Truncate

Spec == Init /\ [][Next]_vars
=============================================================================
