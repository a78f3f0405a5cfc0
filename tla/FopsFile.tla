------------------------------ MODULE FopsFile ------------------------------
(***************************************************************************)
(* kernel_modules/fops.c: a file over a static buffer of 4 bytes, and the  *)
(* programs of rootfs_overlay/lkmc/fops.sh on it: cat, which reads until   *)
(* it gets nothing, and printf or dd, which write until all is written or  *)
(* an error comes.  Bytes are not told apart.                              *)
(***************************************************************************)
EXTENDS Integers, FiniteSetsExt

CONSTANTS Users,      \* Each with a file of its own.
          BUFLEN,
          MaxLen      \* The longest read or write.

Seeks == -1 .. BUFLEN + 1     \* Offsets for lseek.
ENOSPC == -28
EFAULT == -14
EINVAL == -22
None   == -100

VARIABLES
  f_pos,      \* The position of each open file, or None.
  program,    \* "cat", "printf", "lost" after a seek past the end, or "none".
  left,       \* What a writer has still to write.
  ret,        \* What its last call returned.
  copied      \* The bytes of data that the last call touched.

fopsvars == <<f_pos, program, left, ret, copied>>

Init == /\ f_pos = [u \in Users |-> None] /\ program = [u \in Users |-> "none"]
        /\ left = [u \in Users |-> 0] /\ ret = [u \in Users |-> None] /\ copied = {}

Start(u, p, n) ==
  /\ program[u] = "none"
  /\ program' = [program EXCEPT ![u] = p]
  /\ f_pos' = [f_pos EXCEPT ![u] = 0] /\ left' = [left EXCEPT ![u] = n]
  /\ ret' = [ret EXCEPT ![u] = None] /\ UNCHANGED copied

End(u) == /\ program' = [program EXCEPT ![u] = "none"]
          /\ f_pos' = [f_pos EXCEPT ![u] = None]
          /\ left' = [left EXCEPT ![u] = 0] /\ ret' = [ret EXCEPT ![u] = None]

(* llseek: SEEK_SET, SEEK_CUR or SEEK_END, before the first read or write. *)
NewPos(u, off, whence) == CASE whence = "SET" -> off
                            [] whence = "CUR" -> f_pos[u] + off
                            [] whence = "END" -> BUFLEN + off

Seek(u, off, whence) ==
  /\ program[u] # "none" /\ ret[u] = None
  /\ LET newpos == NewPos(u, off, whence)
     IN IF newpos < 0 THEN UNCHANGED <<f_pos, program>>
        ELSE /\ newpos <= 2 * BUFLEN
             /\ f_pos' = [f_pos EXCEPT ![u] = newpos]
             /\ program' = IF program[u] # "cat" /\ newpos >= BUFLEN
                           THEN [program EXCEPT ![u] = "lost"] ELSE program
  /\ UNCHANGED <<left, ret, copied>>

(* A call that returns r, after a copy of r bytes when r > 0.              *)
Return(u, r) == /\ ret' = [ret EXCEPT ![u] = r]
                /\ f_pos' = IF r > 0 THEN [f_pos EXCEPT ![u] = @ + r] ELSE f_pos
                /\ copied' = IF r > 0 THEN f_pos[u] .. f_pos[u] + r - 1 ELSE copied

(* Mutant: the length is compared with the whole buffer.                   *)
WholeBuffer(u, len) == len
Available(u, len) == Min({len, BUFLEN - f_pos[u]})

Read(u, len) ==
  /\ program[u] = "cat" /\ ret[u] \notin {0, EFAULT}
  /\ IF BUFLEN <= f_pos[u] THEN Return(u, 0)
     ELSE \E r \in {Available(u, len), EFAULT} : Return(u, r)
  /\ UNCHANGED <<program, left>>

(* Mutant: what fits is written.                                           *)
WhatFits(u, len) == {Min({len, BUFLEN - f_pos[u]})}
TooLong(u, len)  == IF BUFLEN - f_pos[u] < len THEN {ENOSPC} ELSE {len, EFAULT}

Write(u) ==
  /\ program[u] \in {"printf", "lost"} /\ left[u] > 0
  /\ ret[u] \notin {ENOSPC, EFAULT}
  /\ IF BUFLEN <= f_pos[u] THEN Return(u, 0)
     ELSE \E r \in TooLong(u, left[u]) : Return(u, r)
  /\ left' = [left EXCEPT ![u] = IF ret'[u] > 0 THEN @ - ret'[u] ELSE @]
  /\ UNCHANGED program

(* release, once a program is done or has seen an error.                   *)
Close(u) ==
  /\ \/ program[u] = "cat" /\ ret[u] \in {0, EFAULT}
     \/ program[u] \in {"printf", "lost"} /\ (left[u] = 0 \/ ret[u] \in {ENOSPC, EFAULT})
  /\ End(u) /\ UNCHANGED copied

Kill(u) == program[u] # "none" /\ End(u) /\ UNCHANGED copied

Program(u) == (\E len \in 1 .. MaxLen : Read(u, len)) \/ Write(u) \/ Close(u)

Next == \E u \in Users :
  \/ Start(u, "cat", 0) \/ \E n \in 1 .. MaxLen : Start(u, "printf", n)
  \/ \E off \in Seeks, whence \in {"SET", "CUR", "END"} : Seek(u, off, whence)
  \/ Program(u) \/ Kill(u)

(* A program that runs makes its calls.                                    *)
Fairness == \A u \in Users : WF_fopsvars(Program(u))
Spec == Init /\ [][Next]_fopsvars /\ Fairness

-----------------------------------------------------------------------------
(* No call copies to or from anything but the buffer, at any position a    *)
(* file can be brought to.                                                 *)
InsideBuffer == copied \subseteq 0 .. BUFLEN - 1

(* The inductive invariant: an open file has a position, wherever lseek    *)
(* and the calls have brought it.                                          *)
TypeOK ==
  /\ program \in [Users -> {"none", "cat", "printf", "lost"}]
  /\ f_pos \in [Users -> Int] /\ left \in [Users -> Nat] /\ ret \in [Users -> Int]

OpenHasPosition == \A u \in Users : program[u] # "none" => f_pos[u] >= 0

IInv == TypeOK /\ OpenHasPosition /\ InsideBuffer

(* cat ends, and so does a writer that starts inside the buffer and writes *)
(* until all is written: "Otherwise, Bash > just keeps trying to write to  *)
(* it infinitely."                                                         *)
ProgramsEnd == \A u \in Users :
  program[u] \in {"cat", "printf"} ~> program[u] \in {"none", "lost"}
=============================================================================
