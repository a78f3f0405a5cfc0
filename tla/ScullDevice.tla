---------------------------- MODULE ScullDevice -----------------------------
(***************************************************************************)
(* kernel_modules/scull.c, the bare scull device: a list of quantum sets,  *)
(* each an array of dev->qset pointers to areas of dev->quantum bytes.     *)
(*                                                                         *)
(* The section of each operation under dev->lock is one step, so the mutex *)
(* needs no variable.  scull_read and scull_write look at dev->quantum and *)
(* dev->qset before they take it: that is a step of its own, Call.  An     *)
(* access outside what was allocated, or a division by 0, ends in "wild":  *)
(* what comes after it is not defined by the program and not modelled.     *)
(***************************************************************************)
EXTENDS Integers, Sequences

CONSTANTS
  Threads,    (* Tasks that call the device.                               *)
  Files,      (* Open files, each used by one thread at a time.            *)
  None,       (* No file.                                                  *)
  SCULL_QUANTUM, SCULL_QSET, (* The defaults of the parameters.            *)
  Quanta,     (* Values that scull_quantum takes: at load and by ioctl.    *)
  Qsets,      (* Values that scull_qset takes.                             *)
  Offsets,    (* Offsets given to llseek.                                  *)
  Counts,     (* Byte counts of the calls to read() and write().           *)
  MaxPos,     (* Callers seek and write no further than this.              *)
  NBytes,     (* Byte values are 0..NBytes-1.                              *)
  Unknown     (* The value of a byte that kmalloc returned.                *)

ASSUME NoneAssumption == None \notin Files
ASSUME ParametersAssumption == 
  /\ Quanta \subseteq Nat /\ Qsets \subseteq Nat
  /\ SCULL_QUANTUM \in Quanta /\ SCULL_QSET \in Qsets
ASSUME OffsetsAssumption == Offsets \subseteq Int /\ MaxPos \in Nat
ASSUME CountsAssumption ==
  Counts \subseteq Nat /\ \E n \in Counts : \A m \in Counts : m <= n
ASSUME BytesAssumption == NBytes \in Nat \ {0} /\ Unknown \notin 0..(NBytes - 1)

VARIABLES
  scull_quantum, scull_qset, (* The module parameters.                     *)
  quantum, qset,             (* Those of the device since the last trim.   *)
  size,                      (* Amount of data stored.                     *)
  data,       (* The list: per item a sequence of quanta, per quantum a    *)
              (* sequence of bytes.  NULL in either place is <<>>.         *)
  f_pos,      (* Per file: the position, or -1 when it is not open.        *)
  pc,         (* Per thread: "user", "lock" or "wild".                     *)
  file, op, count, q, s, (* Per thread: its call, and the quantum and qset *)
                         (* that the call found.                           *)
  out,        (* History: what the last read returned, by position.        *)
  stale       (* History: a trim changed quantum or qset during a call.    *)

parameters == <<scull_quantum, scull_qset>>
device     == <<quantum, qset, size, data>>
calls      == <<pc, file, op, count, q, s>>
vars == <<parameters, device, f_pos, calls, out, stale>>

MaxOf(S) == CHOOSE n \in S : \A m \in S : m <= n
MinOf(S) == CHOOSE n \in S : \A m \in S : n <= m
Nothing == [x \in {} |-> Unknown]

Init ==
  /\ scull_quantum \in Quanta /\ scull_qset \in Qsets
  /\ quantum = scull_quantum /\ qset = scull_qset
  /\ size = 0
  /\ data = <<>>
  /\ f_pos = [f \in Files |-> -1]
  /\ pc = [t \in Threads |-> "user"]
  /\ file = [t \in Threads |-> None]
  /\ op = [t \in Threads |-> "read"]
  /\ count = [t \in Threads |-> 0]
  /\ q = [t \in Threads |-> 0]
  /\ s = [t \in Threads |-> 0]
  /\ out = Nothing
  /\ stale = FALSE

(* Nothing is modelled after a wild access.                                *)
Defined == \A t \in Threads : pc[t] # "wild"

(* The files that a thread may use next: no other is in a call on them.    *)
Opened ==
  {f \in Files : Defined /\ f_pos[f] >= 0 /\ \A t \in Threads : file[t] # f}

-----------------------------------------------------------------------------
(* open, release, llseek and ioctl.                                        *)

Open(f) ==
  /\ Defined /\ f_pos[f] = -1
  /\ f_pos' = [f_pos EXCEPT ![f] = 0]
  /\ UNCHANGED <<parameters, device, calls, out, stale>>

(* scull_trim walks the arrays of the list with the qset of the device.    *)
TrimWild == \E i \in DOMAIN data : data[i] # <<>> /\ Len(data[i]) < qset

Trim ==
  /\ data' = <<>>
  /\ size' = 0
  /\ quantum' = scull_quantum
  /\ qset' = scull_qset

OpenTruncate(t, f) ==
  /\ Defined /\ pc[t] = "user"
  /\ f_pos[f] = -1
  /\ f_pos' = [f_pos EXCEPT ![f] = 0]
  /\ IF TrimWild THEN pc' = [pc EXCEPT ![t] = "wild"] /\ UNCHANGED device
                 ELSE Trim /\ UNCHANGED pc
  /\ stale' = (stale \/ \E u \in Threads :
                 pc[u] = "lock" /\ <<q[u], s[u]>> # <<quantum', qset'>>)
  /\ UNCHANGED <<parameters, file, op, count, q, s, out>>

(* scull_release has nothing to do.                                        *)
Release(f) ==
  /\ f \in Opened
  /\ f_pos' = [f_pos EXCEPT ![f] = -1]
  /\ UNCHANGED <<parameters, device, calls, out, stale>>

(* scull_llseek; dev->size is read without the mutex.                      *)
NewPos(f, off, whence) ==
  CASE whence = "SEEK_SET" -> off
    [] whence = "SEEK_CUR" -> f_pos[f] + off
    [] whence = "SEEK_END" -> size + off

AnyPos(newpos) == TRUE
ValidPos(newpos) == newpos >= 0

Seek(f, off, whence) ==
  /\ f \in Opened
  /\ ValidPos(NewPos(f, off, whence)) /\ NewPos(f, off, whence) <= MaxPos
  /\ f_pos' = [f_pos EXCEPT ![f] = NewPos(f, off, whence)]
  /\ UNCHANGED <<parameters, device, calls, out, stale>>

(* SCULL_IOCSQUANTUM, IOCTQUANTUM, IOCXQUANTUM and IOCHQUANTUM; the same   *)
(* for qset; SCULL_IOCRESET.  They set the parameters, not the device.     *)
SetQuantum(n) ==
  /\ Opened # {}
  /\ scull_quantum' = n
  /\ UNCHANGED <<scull_qset, device, f_pos, calls, out, stale>>

SetQset(n) ==
  /\ Opened # {}
  /\ scull_qset' = n
  /\ UNCHANGED <<scull_quantum, device, f_pos, calls, out, stale>>

Reset ==
  /\ Opened # {}
  /\ scull_quantum' = SCULL_QUANTUM
  /\ scull_qset' = SCULL_QSET
  /\ UNCHANGED <<device, f_pos, calls, out, stale>>

-----------------------------------------------------------------------------
(* read and write                                                          *)

QuantumParameter == scull_quantum
QuantumOfDevice == quantum

(* Up to mutex_lock_interruptible: the locals quantum and qset are set.    *)
Call(t, f, o, n) ==
  /\ pc[t] = "user" /\ f \in Opened
  /\ o = "write" => f_pos[f] <= MaxPos
  /\ pc' = [pc EXCEPT ![t] = "lock"]
  /\ file' = [file EXCEPT ![t] = f]
  /\ op' = [op EXCEPT ![t] = o]
  /\ count' = [count EXCEPT ![t] = n]
  /\ q' = [q EXCEPT ![t] = QuantumOfDevice]
  /\ s' = [s EXCEPT ![t] = qset]
  /\ out' = Nothing
  /\ UNCHANGED <<parameters, device, f_pos, stale>>

(* The end of a call of t; its locals are gone.                            *)
Return(t) ==
  /\ pc' = [pc EXCEPT ![t] = "user"]
  /\ file' = [file EXCEPT ![t] = None]
  /\ op' = [op EXCEPT ![t] = "read"]
  /\ count' = [count EXCEPT ![t] = 0]
  /\ q' = [q EXCEPT ![t] = 0]
  /\ s' = [s EXCEPT ![t] = 0]

GoWild(t) ==
  /\ pc' = [pc EXCEPT ![t] = "wild"]
  /\ UNCHANGED <<parameters, device, f_pos, file, op, count, q, s, out, stale>>

Locked(t, o) == Defined /\ pc[t] = "lock" /\ op[t] = o
Pos(t) == f_pos[file[t]]

(* Where a position is: list item, index in its array, offset in the area. *)
PlaceByQset(x, qu, se) ==
  [item  |-> (x \div (qu * se)) + 1,
   s_pos |-> ((x % (qu * se)) \div se) + 1,
   q_pos |-> ((x % (qu * se)) % se) + 1]
Place(x, qu, se) ==
  [item  |-> (x \div (qu * se)) + 1,
   s_pos |-> ((x % (qu * se)) \div qu) + 1,
   q_pos |-> ((x % (qu * se)) % qu) + 1]

At(t) == Place(Pos(t), q[t], s[t])

(* scull_follow adds items to the list until there are n.                  *)
Follow(n) == data \o [i \in 1..(IF n > Len(data) THEN n - Len(data) ELSE 0) |-> <<>>]

(* Up to the end of this quantum.                                          *)
ToEndOfQuantum(t, n) == MinOf({n, q[t] - At(t).q_pos + 1})

(* What a call with a list l at its disposal would do outside of it.       *)
Outside(l, pl, n) ==
  l[pl.item] # <<>> /\
    \/ pl.s_pos > Len(l[pl.item])
    \/ /\ l[pl.item][pl.s_pos] # <<>> /\ n > 0
       /\ pl.q_pos + n - 1 > Len(l[pl.item][pl.s_pos])

DivisionByZero(t) == q[t] * s[t] = 0

ReadSize(t) == ToEndOfQuantum(t, MinOf({count[t], size - Pos(t)}))

(* The end of the file: nothing is read.                                   *)
ReadEnd(t) ==
  /\ Locked(t, "read") /\ Pos(t) >= size
  /\ Return(t)
  /\ UNCHANGED <<parameters, device, f_pos, out, stale>>

(* A hole is not filled, although scull_follow may add items on the way.   *)
ReadHole(t) ==
  /\ Locked(t, "read") /\ Pos(t) < size /\ ~DivisionByZero(t)
  /\ data' = Follow(At(t).item)
  /\ LET dptr == data'[At(t).item] IN
       \/ dptr = <<>>
       \/ At(t).s_pos \in DOMAIN dptr /\ dptr[At(t).s_pos] = <<>>
  /\ Return(t)
  /\ UNCHANGED <<parameters, quantum, qset, size, f_pos, out, stale>>

(* kmalloc fails in scull_follow.                                          *)
ReadNoMemory(t) ==
  /\ Locked(t, "read") /\ Pos(t) < size /\ ~DivisionByZero(t)
  /\ \E n \in Len(data)..(At(t).item - 1) : data' = Follow(n)
  /\ Return(t)
  /\ UNCHANGED <<parameters, quantum, qset, size, f_pos, out, stale>>

ReadData(t) ==
  /\ Locked(t, "read") /\ Pos(t) < size /\ ~DivisionByZero(t)
  /\ At(t).item \in DOMAIN data
  /\ ~Outside(data, At(t), ReadSize(t))
  /\ At(t).s_pos \in DOMAIN data[At(t).item]
  /\ LET area == data[At(t).item][At(t).s_pos]
         n == ReadSize(t)
     IN  /\ area # <<>>
         /\ out' = [x \in Pos(t)..(Pos(t) + n - 1) |-> area[At(t).q_pos + x - Pos(t)]]
         /\ f_pos' = [f_pos EXCEPT ![file[t]] = @ + n]
  /\ Return(t)
  /\ UNCHANGED <<parameters, device, stale>>

ReadWild(t) ==
  /\ Locked(t, "read") /\ Pos(t) < size
  /\ DivisionByZero(t) \/ Outside(Follow(At(t).item), At(t), ReadSize(t))
  /\ GoWild(t)

(* The list in the three stages of scull_write: followed, with the array   *)
(* of the item, with the area.                                             *)
Followed(t) == Follow(At(t).item)

WithArray(t) ==
  LET l == Followed(t) IN
  IF l[At(t).item] # <<>> THEN l
  ELSE [l EXCEPT ![At(t).item] = [i \in 1..s[t] |-> <<>>]]

WithArea(t) ==
  LET l == WithArray(t) IN
  IF l[At(t).item][At(t).s_pos] # <<>> THEN l
  ELSE [l EXCEPT ![At(t).item][At(t).s_pos] = [i \in 1..q[t] |-> Unknown]]

WriteSize(t) == ToEndOfQuantum(t, count[t])

WriteFits(t) ==
  /\ Locked(t, "write") /\ ~DivisionByZero(t)
  /\ ~Outside(WithArray(t), At(t), WriteSize(t))

(* The bytes of a write, which differ from one position to the next.       *)
Stored(t, n, b) ==
  [WithArea(t) EXCEPT ![At(t).item][At(t).s_pos] =
     [i \in DOMAIN @ |->
        IF i \in At(t).q_pos..(At(t).q_pos + n - 1)
        THEN (b + i - At(t).q_pos + Pos(t)) % NBytes ELSE @[i]]]

(* The size is where the last write ended, if that is further.             *)
SizeOfLastWrite(end) == end
NewSize(end) == MaxOf({size, end})

WriteData(t) ==
  /\ WriteFits(t)
  /\ \E b \in 0..(NBytes - 1) : data' = Stored(t, WriteSize(t), b)
  /\ f_pos' = [f_pos EXCEPT ![file[t]] = @ + WriteSize(t)]
  /\ size' = NewSize(Pos(t) + WriteSize(t))
  /\ Return(t)
  /\ UNCHANGED <<parameters, quantum, qset, out, stale>>

(* copy_from_user fails, perhaps after some bytes.                         *)
WriteFault(t) ==
  /\ WriteFits(t) /\ WriteSize(t) > 0
  /\ \E n \in 0..(WriteSize(t) - 1), b \in 0..(NBytes - 1) : data' = Stored(t, n, b)
  /\ Return(t)
  /\ UNCHANGED <<parameters, quantum, qset, size, f_pos, out, stale>>

(* One of the calls of kmalloc fails; what the others gave stays.          *)
WriteNoMemory(t) ==
  /\ WriteFits(t)
  /\ \/ \E n \in Len(data)..(At(t).item - 1) : data' = Follow(n)
     \/ data' = Followed(t) /\ data' # WithArray(t)
     \/ data' = WithArray(t) /\ data' # WithArea(t)
  /\ Return(t)
  /\ UNCHANGED <<parameters, quantum, qset, size, f_pos, out, stale>>

WriteWild(t) ==
  /\ Locked(t, "write")
  /\ DivisionByZero(t) \/ Outside(WithArray(t), At(t), WriteSize(t))
  /\ GoWild(t)

(* A signal while waiting for the mutex: -ERESTARTSYS.                     *)
Interrupt(t) ==
  /\ Defined /\ pc[t] = "lock"
  /\ Return(t)
  /\ UNCHANGED <<parameters, device, f_pos, out, stale>>

-----------------------------------------------------------------------------
Next ==
  \/ \E f \in Files :
       \/ Open(f) \/ Release(f)
       \/ \E off \in Offsets, w \in {"SEEK_SET", "SEEK_CUR", "SEEK_END"} : Seek(f, off, w)
  \/ \E n \in Quanta : SetQuantum(n)
  \/ \E n \in Qsets : SetQset(n)
  \/ Reset
  \/ \E t \in Threads :
       \/ \E f \in Files :
            \/ OpenTruncate(t, f)
            \/ \E o \in {"read", "write"}, n \in Counts : Call(t, f, o, n)
       \/ ReadEnd(t) \/ ReadHole(t) \/ ReadNoMemory(t) \/ ReadData(t) \/ ReadWild(t)
       \/ WriteData(t) \/ WriteFault(t) \/ WriteNoMemory(t) \/ WriteWild(t)
       \/ Interrupt(t)

Spec == Init /\ [][Next]_vars

-----------------------------------------------------------------------------
(* What should be true of it.                                              *)

Bytes == 0..(NBytes - 1) \cup {Unknown}
Limit == MaxPos + MaxOf(Counts)

(* The shape of the list, and the values that everything else may take.    *)
TypeOK ==
  /\ {scull_quantum, quantum} \subseteq Quanta /\ {scull_qset, qset} \subseteq Qsets
  /\ size \in 0..Limit
  /\ data \in Seq(Seq(Seq(Bytes)))
  /\ f_pos \in [Files -> -1..Limit]
  /\ pc \in [Threads -> {"user", "lock", "wild"}]
  /\ file \in [Threads -> Files \cup {None}]
  /\ op \in [Threads -> {"read", "write"}]
  /\ count \in [Threads -> Counts \cup {0}]
  /\ q \in [Threads -> Quanta \cup {0}] /\ s \in [Threads -> Qsets \cup {0}]

(***************************************************************************)
(* Every array and every area is of the size that the device says, through *)
(* any sequence of ioctls, seeks, failed allocations and truncations: this *)
(* is what scull_trim relies on to free all that was allocated.  Here as   *)
(* in what follows, it takes a truncation that changes the quantum between *)
(* the start of a call and its section under the mutex to break it.        *)
(***************************************************************************)
SizedByDevice ==
  ~stale =>
    \A i \in DOMAIN data :
      data[i] # <<>> =>
        /\ Len(data[i]) = qset
        /\ \A j \in DOMAIN data[i] : Len(data[i][j]) \in {0, quantum}

(***************************************************************************)
(* The list reaches as far as the size: the call of scull_follow in        *)
(* scull_read never allocates, it does not "fill holes".                   *)
(***************************************************************************)
SizeIsBacked == ~stale => Len(data) * quantum * qset >= size

(* No call leaves the areas that were allocated.                           *)
StaysInside == ~stale => \A t \in Threads : pc[t] # "wild"

(* Whatever ioctl, truncation or failure comes in between: every array and *)
(* area of a scull device has the size that the device says, every byte    *)
(* below its size that was written is in one, and a call stays inside.     *)
AreasMatchDevice == SizedByDevice /\ SizeIsBacked /\ StaysInside

(***************************************************************************)
(* The inductive invariant, for quanta and arrays that are not empty: a    *)
(* call is on an open file of its own, and what it found of the device is  *)
(* true when it has the mutex.                                             *)
(***************************************************************************)
CallsAreOnOpenFiles ==
  \A t \in Threads :
    /\ pc[t] = "user" => file[t] = None
    /\ pc[t] = "lock" =>
         /\ file[t] \in Files /\ f_pos[file[t]] >= 0
         /\ op[t] = "write" => f_pos[file[t]] <= MaxPos
         /\ q[t] \in Quanta /\ s[t] \in Qsets
         /\ \A u \in Threads \ {t} : file[u] # file[t]

CallsSeeDevice ==
  ~stale => \A t \in Threads : pc[t] = "lock" => q[t] = quantum /\ s[t] = qset

IInv == TypeOK /\ CallsAreOnOpenFiles /\ CallsSeeDevice /\ AreasMatchDevice

(***************************************************************************)
(* "read only up to the end of this quantum", "write only up to the end of *)
(* this quantum", without the exception.                                   *)
(***************************************************************************)
EndOfQuantum == \A t \in Threads : pc[t] # "wild"

(***************************************************************************)
(* The list of arrays is a sparse file, SparseFile: what is read from a    *)
(* position is what was last written there, whatever the quantum, the      *)
(* position of the other file, and the failures in between.                *)
(***************************************************************************)
ByteAt(x) ==
  LET pl == Place(x, quantum, qset) IN
  IF /\ pl.item \in DOMAIN data
     /\ data[pl.item] # <<>>
     /\ data[pl.item][pl.s_pos] # <<>>
  THEN data[pl.item][pl.s_pos][pl.q_pos] ELSE Unknown

File == INSTANCE SparseFile WITH
  MaxCount <- MaxOf(Counts),
  Positions <- 0..(Limit - 1),
  contents <- [x \in 0..(Limit - 1) |-> ByteAt(x)]

ImplementsSparseFile ==
  File!Init /\ [][stale' \/ File!Next \/ UNCHANGED File!vars]_vars
=============================================================================
