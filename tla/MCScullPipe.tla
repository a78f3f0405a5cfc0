---------------------------- MODULE MCScullPipe -----------------------------
(***************************************************************************)
(* Small instances of ScullPipe for TLC.  The safety properties are        *)
(* checked in two parts: three processes that read and write 2 bytes at a  *)
(* time, all bytes alike, and two that read and write 1 or 2 bytes that    *)
(* are told apart.                                                         *)
(***************************************************************************)
EXTENDS ScullPipe, TLC

CONSTANTS p1, p2, p3

ASSUME PartAssumption == {p1, p2} \subseteq Procs

Three == INSTANCE ScullPipe WITH Counts <- {2}, NBytes <- 1

VARIABLE part

PartInit == Init /\ part \in {"three", "two"}
PartNext ==
  /\ UNCHANGED part
  /\ \/ part = "three" /\ Three!Next
     \/ part = "two" /\ \E p \in {p1, p2} : Kernel(p) \/ User(p)
PartSpec == PartInit /\ [][PartNext]_<<vars, part>>

(* Processes are interchangeable in the safety properties; the third is    *)
(* set apart.                                                              *)
Symmetry == Permutations({p1, p2})

(* ImplementsBytePipe in the part where bytes are told apart: whatever     *)
(* wraps, and however reads and writes interleave, the device is the       *)
(* first-in first-out stream of bytes that BytePipe promises.              *)
TwoImplementBytePipe ==
  Stream!Init /\ [][part = "two" => Stream!Next]_(Stream!vars)
=============================================================================
