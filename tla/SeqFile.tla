------------------------------ MODULE SeqFile -------------------------------
(***************************************************************************)
(* seq_file.c: a file of the numbers from 0, one to a line, that the       *)
(* kernel's seq_read takes from the four callbacks of the module.  A line  *)
(* has two characters, so that a read may stop in the middle of one; a     *)
(* character is the number of its line.  A program reads the file to its   *)
(* end, with any sizes.                                                    *)
(***************************************************************************)
EXTENDS Integers, Sequences

CONSTANTS MaxMax,   \* Largest value of the parameter max.
          Sizes     \* Sizes of reads.

VARIABLES
  max,       \* -1 when the module is not loaded.
  seq,       \* Where seq_read is; "closed", "eof", and "idle" between reads.
  index,     \* m->index of the file.
  spos,      \* What v points to; Null.
  want,      \* The size of the read.
  line,      \* The characters that seq_read has kept.
  out,       \* What the program has read.
  changed    \* max was written, or kmalloc failed, since the file was opened.

vars == <<max, seq, index, spos, want, line, out, changed>>

Null == -1

Init == /\ max = -1 /\ seq = "closed" /\ index = 0 /\ spos = Null /\ want = 0
        /\ line = <<>> /\ out = <<>> /\ changed = FALSE

Insmod(m) == /\ max = -1 /\ max' = m
             /\ UNCHANGED <<seq, index, spos, want, line, out, changed>>

(* The parameter may be written; an open file keeps the module loaded.     *)
SetMax(m) == /\ max \notin {-1, m} /\ max' = m /\ changed' = (seq # "closed")
             /\ UNCHANGED <<seq, index, spos, want, line, out>>
Rmmod == /\ max # -1 /\ seq = "closed" /\ max' = -1
         /\ UNCHANGED <<seq, index, spos, want, line, out, changed>>

Open == /\ max # -1 /\ seq = "closed" /\ seq' = "idle"
        /\ index' = 0 /\ line' = <<>> /\ out' = <<>> /\ changed' = FALSE
        /\ UNCHANGED <<max, spos, want>>
Release == /\ seq \in {"idle", "eof"} /\ seq' = "closed"
           /\ index' = 0 /\ line' = <<>> /\ out' = <<>> /\ changed' = FALSE
           /\ UNCHANGED <<max, spos, want>>

-----------------------------------------------------------------------------
(* seq_read, of the kernel: what a read left over is given first.          *)
Give(n) == /\ out' = out \o SubSeq(line, 1, n)
           /\ line' = SubSeq(line, n + 1, Len(line))
Least(a, b) == IF a < b THEN a ELSE b

Read(size) ==
  /\ seq = "idle"
  /\ IF Len(line) >= size
     THEN Give(size) /\ UNCHANGED <<seq, want>>
     ELSE /\ Give(Len(line))
          /\ seq' = "start" /\ want' = size - Len(line)
  /\ UNCHANGED <<max, index, spos, changed>>

(* Mutant: the line before the last is taken for the last.                 *)
StopsShort(pos) == pos + 1 >= max
Ends(pos)       == pos >= max

(* start.  At the end the memory just allocated is forgotten.              *)
Start ==
  /\ seq = "start"
  /\ \/ /\ ~Ends(index)
        /\ spos' = index /\ seq' = "show" /\ UNCHANGED changed
     \/ /\ Ends(index)
        /\ spos' = Null /\ seq' = "stop" /\ UNCHANGED changed
     \/ spos' = Null /\ seq' = "stop" /\ changed' = TRUE       \* kmalloc fails.
  /\ UNCHANGED <<max, index, want, line, out>>

Show == /\ seq = "show" /\ seq' = "next"
        /\ line' = line \o <<spos, spos>>
        /\ UNCHANGED <<max, index, spos, want, out, changed>>

(* next, which seq_read calls after each line, and moves on itself when    *)
(* next does not.  Mutant: the position given back is the old one.         *)
PostIncrement == spos' = spos + 1 /\ index' = spos
PreIncrement  == spos' = spos + 1 /\ index' = spos + 1

Advance ==
  /\ seq = "next"
  /\ IF index >= max
     THEN spos' = Null /\ index' = index + 1 /\ seq' = "stop"
     ELSE PreIncrement /\ seq' = IF Len(line) >= want THEN "stop" ELSE "show"
  /\ UNCHANGED <<max, want, line, out, changed>>

(* stop, and the copy to the program; a read of nothing is the end.        *)
Stop ==
  /\ seq = "stop" /\ spos' = Null /\ want' = 0
  /\ Give(Least(want, Len(line)))
  /\ seq' = IF line = <<>> THEN "eof" ELSE "idle"
  /\ UNCHANGED <<max, index, changed>>

Next == \/ \E m \in 0 .. MaxMax : Insmod(m) \/ SetMax(m)
        \/ Rmmod \/ Open \/ Release
        \/ \E size \in Sizes : Read(size)
        \/ Start \/ Show \/ Advance \/ Stop

Spec == Init /\ [][Next]_vars

-----------------------------------------------------------------------------
(* Every line is read once and in order, however the reads cut the file.   *)
InOrder == \A i \in 1 .. Len(out) : out[i] = (i - 1) \div 2

(* The lines below max are there when the end of the file is.              *)
AllBelowMax == seq = "eof" /\ ~changed => Len(out) >= 2 * max

(***************************************************************************)
(* The inductive invariant: what the program has and what seq_read keeps   *)
(* for it are the characters from the first, of as many lines as were      *)
(* shown; and seq_read stops without a line only at max.                   *)
(***************************************************************************)
TypeOK ==
  /\ max \in Int /\ index \in Nat /\ spos \in Int /\ want \in Nat
  /\ seq \in {"closed", "idle", "start", "show", "next", "stop", "eof"}
  /\ line \in Seq(Int) /\ out \in Seq(Int)
  /\ changed \in BOOLEAN

LinesShown == CASE seq = "next" -> spos + 1
                [] OTHER        -> index

Characters ==
  /\ InOrder
  /\ \A i \in 1 .. Len(line) : line[i] = (Len(out) + i - 1) \div 2
  /\ Len(out) + Len(line) = 2 * LinesShown

WhereItStands ==
  /\ max = Null => seq = "closed"
  /\ seq \in {"show", "next"} => spos = index
  /\ seq \in {"start", "closed", "eof"} => line = <<>>
  /\ seq = "next" => line # <<>>
  /\ seq = "closed" => out = <<>>
  /\ seq \in {"stop", "eof"} /\ line = <<>> /\ ~changed => index >= max

IInv == TypeOK /\ Characters /\ WhereItStands
=============================================================================
