------------------------------ MODULE Memfile -------------------------------
(***************************************************************************)
(* memfile.c: a file kept in an array that grows, under a semaphore that   *)
(* read and write take and open does not.  contents is what a file of the  *)
(* same calls would hold (a ghost); disturbed says that the code has parted *)
(* from it: an open with O_TRUNC came in the middle of a write, a write    *)
(* grew the file and failed to copy, or an allocation failed.              *)
(***************************************************************************)
EXTENDS Integers, Sequences, FiniteSetsExt

CONSTANTS Callers,   \* Processes, each with a file of its own.
          MaxEnd,    \* No call goes beyond this position.
          Lens       \* Lengths of reads and writes.

Byte == {0, 1, 2}    \* Zero, what the first caller writes, what others write.
Nobody == "nobody"

VARIABLES
  buf, used, size,   \* data.buf (Len(buf) = size), data.used and data._size.
  null,              \* data.buf is NULL.
  sem,               \* Who holds the semaphore: readers, or one writer.
  call,              \* Where each caller is.
  pos, len,          \* Its f_pos and the length of its call.
  contents, disturbed

vars == <<buf, used, size, null, sem, call, pos, len, contents, disturbed>>
dvars == <<buf, used, size, null>>

Init ==
  /\ buf = <<0>> /\ used = 0 /\ size = 1 /\ null = FALSE
  /\ sem = [readers |-> {}, writer |-> Nobody]
  /\ call = [c \in Callers |-> "closed"]
  /\ pos = [c \in Callers |-> 0] /\ len = [c \in Callers |-> 0]
  /\ contents = <<>> /\ disturbed = FALSE

Goto(c, where) == call' = [call EXCEPT ![c] = where]
Mark(c) == IF c = CHOOSE d \in Callers : TRUE THEN 1 ELSE 2

(* O_TRUNC and O_APPEND look at data.used without the semaphore.           *)
Open(c, flag) ==
  /\ call[c] = "closed" /\ Goto(c, "open")
  /\ IF flag = "O_TRUNC"
     THEN /\ used' = 0 /\ contents' = <<>>
          /\ disturbed' = (disturbed \/ sem.writer # Nobody)
     ELSE UNCHANGED <<used, contents, disturbed>>
  /\ pos' = [pos EXCEPT ![c] = IF flag = "O_APPEND" THEN used ELSE 0]
  /\ UNCHANGED <<buf, size, null, sem, len>>

Release(c) == /\ call[c] = "open" /\ Goto(c, "closed")
              /\ pos' = [pos EXCEPT ![c] = 0] /\ len' = [len EXCEPT ![c] = 0]
              /\ UNCHANGED <<dvars, sem, contents, disturbed>>

(* llseek: SEEK_SET and SEEK_CUR move anywhere, SEEK_END from data.used.   *)
Seek(c, to) == /\ call[c] = "open" /\ to \in 0 .. MaxEnd /\ to # pos[c]
               /\ pos' = [pos EXCEPT ![c] = to]
               /\ UNCHANGED <<dvars, sem, call, len, contents, disturbed>>
SeekEnd(c, off) == used + off >= 0 /\ Seek(c, used + off)

(* read                                                                    *)
DownRead(c, l) ==
  /\ call[c] = "open" /\ sem.writer = Nobody
  /\ sem' = [sem EXCEPT !.readers = @ \cup {c}]
  /\ len' = [len EXCEPT ![c] = l] /\ Goto(c, "read")
  /\ UNCHANGED <<dvars, pos, contents, disturbed>>

(* data.used is read twice; if it shrank in between, used - off wraps.     *)
Min2(a, b) == IF a < b THEN a ELSE b
Readable(c) == IF used <= pos[c] THEN 0 ELSE Min2(len[c], used - pos[c])
TwiceRead(c) == IF used < pos[c] THEN len[c] ELSE Min2(len[c], used - pos[c])

ReadDone(c, ret) ==
  /\ pos' = [pos EXCEPT ![c] = Min2(MaxEnd, @ + ret)]
  /\ sem' = [sem EXCEPT !.readers = @ \ {c}]
  /\ Goto(c, "open") /\ UNCHANGED <<dvars, len, contents, disturbed>>

ReadTest(c) ==
  /\ call[c] = "read"
  /\ \/ ReadDone(c, IF null THEN 0 ELSE Readable(c))     \* Or -EFAULT:
     \/ ReadDone(c, 0)
     \/ /\ used > pos[c] /\ ~null /\ Goto(c, "readtail")
        /\ UNCHANGED <<dvars, sem, pos, len, contents, disturbed>>

ReadTail(c) == call[c] = "readtail" /\ ReadDone(c, TwiceRead(c))

(* write, and dyn_arr_reserve within                                       *)
DownWrite(c, l) ==
  /\ call[c] = "open" /\ sem.writer = Nobody /\ sem.readers = {}
  /\ pos[c] + l <= MaxEnd
  /\ sem' = [sem EXCEPT !.writer = c]
  /\ len' = [len EXCEPT ![c] = l] /\ Goto(c, "reserve")
  /\ UNCHANGED <<dvars, pos, contents, disturbed>>

NewUsed(c) == pos[c] + len[c]
WriteDone(c) == /\ sem' = [sem EXCEPT !.writer = Nobody] /\ Goto(c, "open")

(* Mutant: the position is compared and not the end of the write.          *)
FitsAt(c) == pos[c] <= size
Fits(c)   == NewUsed(c) <= size

Reserve(c) ==
  /\ call[c] = "reserve" /\ ~(Fits(c) /\ null)
  /\ \/ Fits(c) /\ UNCHANGED dvars /\ Goto(c, "gap") /\ UNCHANGED <<sem, disturbed>>
     \/ /\ ~Fits(c)
        /\ size' = 2 * NewUsed(c) /\ null' = FALSE
        /\ buf' = [i \in 1 .. size' |-> IF i <= Len(buf) /\ ~null THEN buf[i] ELSE 0]
        /\ Goto(c, "gap") /\ UNCHANGED <<used, sem, disturbed>>
     \/ /\ ~Fits(c)                       \* kvrealloc fails: -ENOSPC.
        /\ null' = TRUE /\ disturbed' = TRUE /\ WriteDone(c)
        /\ UNCHANGED <<buf, used, size>>
  /\ UNCHANGED <<pos, len, contents>>

(* Mutant: the hole before the new data is not cleared.                    *)
NoMemset(c) == buf
Memset(c) == [i \in 1 .. Len(buf) |-> IF i > used /\ i <= pos[c] THEN 0 ELSE buf[i]]

Gap(c) == /\ call[c] = "gap" /\ Goto(c, "grow")
          /\ buf' = Memset(c)
          /\ UNCHANGED <<used, size, null, sem, pos, len, contents, disturbed>>

Grow(c) == /\ call[c] = "grow" /\ Goto(c, "copy")
           /\ used' = Max({used, NewUsed(c)})
           /\ UNCHANGED <<buf, size, null, sem, pos, len, contents, disturbed>>

(* The file that the calls describe: a hole reads as zeros.                *)
Written(c) == [i \in 1 .. Max({Len(contents), NewUsed(c)}) |->
                 IF i > pos[c] /\ i <= NewUsed(c) THEN Mark(c)
                 ELSE IF i <= Len(contents) THEN contents[i] ELSE 0]

Copy(c) ==
  /\ call[c] = "copy"
  /\ \/ /\ buf' = [i \in 1 .. Len(buf) |->
                     IF i > pos[c] /\ i <= NewUsed(c) THEN Mark(c) ELSE buf[i]]
        /\ pos' = [pos EXCEPT ![c] = NewUsed(c)]
        /\ contents' = Written(c) /\ UNCHANGED disturbed
     \/ disturbed' = TRUE /\ UNCHANGED <<buf, pos, contents>>     \* -EFAULT
  /\ WriteDone(c) /\ UNCHANGED <<used, size, null, len>>

(* A write to NULL: the kernel oopses and is started again, as does rmmod. *)
Reload ==
  /\ \/ \E c \in Callers : call[c] = "reserve" /\ Fits(c) /\ null
     \/ \A c \in Callers : call[c] = "closed"
  /\ buf' = <<0>> /\ used' = 0 /\ size' = 1 /\ null' = FALSE
  /\ sem' = [readers |-> {}, writer |-> Nobody]
  /\ call' = [c \in Callers |-> "closed"]
  /\ pos' = [c \in Callers |-> 0] /\ len' = [c \in Callers |-> 0]
  /\ contents' = <<>> /\ disturbed' = FALSE

File(c) ==
  \/ \E flag \in {"", "O_TRUNC", "O_APPEND"} : Open(c, flag)
  \/ Release(c) \/ \E to \in 0 .. MaxEnd : Seek(c, to)
  \/ \E off \in {-1, 0} : SeekEnd(c, off)
  \/ \E l \in Lens : DownRead(c, l) \/ DownWrite(c, l)
  \/ ReadTest(c) \/ ReadTail(c)
  \/ Reserve(c) \/ Gap(c) \/ Grow(c) \/ Copy(c)

Next == Reload \/ \E c \in Callers : File(c)

Spec == Init /\ [][Next]_vars

-----------------------------------------------------------------------------
TypeOK ==
  /\ buf \in Seq(Byte) /\ used \in Nat /\ size \in Nat /\ null \in BOOLEAN
  /\ sem.readers \subseteq Callers /\ sem.writer \in Callers \cup {Nobody}
  /\ pos \in [Callers -> 0 .. MaxEnd]

(* The array is as large as the part of it in use, also with O_TRUNC       *)
(* between any two steps of a write.                                       *)
UsedFits == used <= size /\ Len(buf) = size

(* Between writes the file holds what was written to it: data where it was *)
(* put, zeros in the holes, nothing from before a truncation.              *)
HoldsContents ==
  ~disturbed /\ sem.writer = Nobody => SubSeq(buf, 1, used) = contents

(***************************************************************************)
(* The inductive invariant: a writer has the semaphore from its reserve to *)
(* its copy, and the array has room for it once reserved; and, while       *)
(* nothing has disturbed it, the array has the contents, and zeros up to   *)
(* the position of a write that is past its memset.                        *)
(***************************************************************************)
CallsTyped ==
  /\ call \in [Callers -> {"closed", "open", "read", "readtail", "reserve", "gap", "grow", "copy"}]
  /\ len \in [Callers -> Nat] /\ used <= MaxEnd
  /\ disturbed \in BOOLEAN /\ contents \in Seq(Byte)
  /\ sem = [readers |-> sem.readers, writer |-> sem.writer]
  /\ null => disturbed

WriterHoldsSem ==
  \A c \in Callers :
    /\ call[c] \in {"reserve", "gap", "grow", "copy"} <=> sem.writer = c
    /\ call[c] \in {"reserve", "gap", "grow", "copy"} => NewUsed(c) <= MaxEnd
    /\ call[c] \in {"gap", "grow", "copy"} => NewUsed(c) <= size

Holds ==
  ~disturbed =>
    /\ Len(contents) <= used
    /\ \A i \in 1 .. Len(contents) : buf[i] = contents[i]
    /\ sem.writer = Nobody => used = Len(contents)
    /\ \A c \in Callers :
         /\ call[c] \in {"reserve", "gap", "grow"} => used = Len(contents)
         /\ call[c] \in {"grow", "copy"} =>
              \A i \in Len(contents) + 1 .. pos[c] : buf[i] = 0
         /\ call[c] = "copy" => used = Max({Len(contents), NewUsed(c)})

IInv == TypeOK /\ CallsTyped /\ UsedFits /\ WriterHoldsSem /\ Holds
=============================================================================
