-------------------------- MODULE ScullPipeProofs ---------------------------
(***************************************************************************)
(* Proofs about scullpipe, for any number of processes, any sizes of the   *)
(* buffer and any counts: the buffer lives while the device is open, the   *)
(* pointers stay in it, and no wake up is lost.                            *)
(***************************************************************************)
EXTENDS MCScullPipe, FiniteSetTheorems, SequenceTheorems, TLAPS

USE ProcsAssumption, SizesAssumption, FilesAssumption, CountsAssumption, NBytesAssumption
USE DEF ProcsAssumption, SizesAssumption, FilesAssumption, CountsAssumption,
        NBytesAssumption

-----------------------------------------------------------------------------
(* Least and greatest numbers.                                             *)

LEMMA MinOfTwo ==
  ASSUME NEW a \in Nat, NEW b \in Nat
  PROVE  MinOf({a, b}) \in Nat /\ MinOf({a, b}) <= a /\ MinOf({a, b}) <= b
  <1>1. \E n \in {a, b} : \A m \in {a, b} : n <= m
    <2>1. CASE a <= b
      BY <2>1
    <2>2. CASE b <= a
      BY <2>2
    <2> QED
      BY <2>1, <2>2
  <1> QED
    BY <1>1 DEF MinOf

LEMMA MinOfThree ==
  ASSUME NEW a \in Nat, NEW b \in Nat, NEW c \in Nat
  PROVE  MinOf({a, b, c}) \in Nat /\ MinOf({a, b, c}) <= c
  <1>1. \E n \in {a, b, c} : \A m \in {a, b, c} : n <= m
    <2>1. CASE a <= b /\ a <= c
      BY <2>1
    <2>2. CASE b <= a /\ b <= c
      BY <2>2
    <2>3. CASE c <= a /\ c <= b
      BY <2>3
    <2> QED
      BY <2>1, <2>2, <2>3
  <1> QED
    BY <1>1 DEF MinOf

LEMMA MaxOfTwo ==
  ASSUME NEW n \in Int
  PROVE  MaxOf({0, n}) = IF n > 0 THEN n ELSE 0
  <1>1. \E m \in {0, n} : \A k \in {0, n} : k <= m
    <2>1. CASE n > 0
      BY <2>1
    <2>2. CASE n <= 0
      BY <2>2
    <2> QED
      BY <2>1, <2>2
  <1> QED
    BY <1>1 DEF MaxOf

LEMMA LastByte ==
  ASSUME NEW b \in Nat
  PROVE  MaxOf({0, b - 1}) \in Nat /\ MaxOf({0, b - 1}) = IF b > 0 THEN b - 1 ELSE 0
  <1>1. b - 1 \in Int
    OBVIOUS
  <1>2. MaxOf({0, b - 1}) = IF b - 1 > 0 THEN b - 1 ELSE 0
    BY <1>1, MaxOfTwo
  <1> QED
    BY <1>2

LEMMA CountsAreNumbers == \A n \in Counts \cup {0} : n \in Nat
  OBVIOUS

LEMMA LargestCount == MaxOf(Counts) \in Nat
  BY DEF MaxOf

LEMMA Modulo ==
  ASSUME NEW x \in Int, NEW b \in Nat \ {0}
  PROVE  /\ x % b \in 0 .. b - 1
         /\ x \in 0 .. b - 1 => x % b = x
         /\ x \in b .. 2 * b - 1 => x % b = x - b
         /\ x = 2 * b => x % b = 0
  OBVIOUS

-----------------------------------------------------------------------------
(* Free space, and how much a call moves.                                  *)

(* The free space is exact when both pointers are wrapped.                 *)
LEMMA FreeSpace ==
  ASSUME TypeOK
  PROVE  /\ spacefree \in Int
         /\ rp < buffersize /\ wp < buffersize =>
              spacefree = IF rp > wp THEN rp - wp - 1 ELSE rp + buffersize - wp - 1
  <1> USE DEF TypeOK
  <1>1. rp \in Int /\ wp \in Int /\ buffersize \in Nat
    OBVIOUS
  <1>2. CASE rp = wp
    BY <1>1, <1>2 DEF spacefree
  <1>3. CASE rp # wp
    <2>1. buffersize \in Nat \ {0} /\ rp + buffersize - wp \in Int
      BY <1>3
    <2>2. spacefree = ((rp + buffersize - wp) % buffersize) - 1
      BY <1>3 DEF spacefree
    <2> HIDE DEF TypeOK
    <2>3. (rp + buffersize - wp) % buffersize \in Int
      BY <2>1, Modulo
    <2>4. ASSUME rp < buffersize, wp < buffersize, rp > wp
          PROVE  (rp + buffersize - wp) % buffersize = rp - wp
      <3>1. rp + buffersize - wp \in buffersize .. 2 * buffersize - 1
        BY <1>1, <2>4, TypeOK DEF TypeOK
      <3>2. (rp + buffersize - wp) % buffersize = (rp + buffersize - wp) - buffersize
        BY <2>1, <3>1, Modulo
      <3> QED
        BY <1>1, <3>2
    <2>5. ASSUME rp < buffersize, wp < buffersize, ~(rp > wp)
          PROVE  (rp + buffersize - wp) % buffersize = rp + buffersize - wp
      <3>1. rp + buffersize - wp \in 0 .. buffersize - 1
        BY <1>1, <1>3, <2>5, TypeOK DEF TypeOK
      <3> QED
        BY <2>1, <3>1, Modulo
    <2> QED
      BY <1>1, <2>2, <2>3, <2>4, <2>5
  <1> QED
    BY <1>2, <1>3

(* While the mutex is free, both pointers are wrapped ...                  *)
LEMMA Inside ==
  ASSUME TypeOK, PointersWrapped, lock = None
  PROVE  /\ rp \in Nat /\ wp \in Nat /\ buffersize \in Nat
         /\ \/ rp < buffersize /\ wp < buffersize
            \/ rp = 0 /\ wp = 0 /\ buffersize = 0
  <1>1. rp \in Nat /\ wp \in Nat /\ buffersize \in Nat /\ buffersize - 1 \in Int
    BY DEF TypeOK
  <1>2. MaxOf({0, buffersize - 1}) = IF buffersize - 1 > 0 THEN buffersize - 1 ELSE 0
    BY <1>1, MaxOfTwo
  <1>3. rp <= MaxOf({0, buffersize - 1}) /\ wp <= MaxOf({0, buffersize - 1})
    BY DEF PointersWrapped
  <1> QED
    BY <1>1, <1>2, <1>3

(* ... and a call moves bytes inside the buffer.                           *)
LEMMA ReadFits ==
  ASSUME TypeOK, PointersWrapped, lock = None, Ready("r"), NEW n \in Nat
  PROVE  ReadSize(n) \in Nat /\ rp + ReadSize(n) <= buffersize
  <1> DEFINE room == IF wp > rp THEN wp - rp ELSE buffersize - rp
  <1>1. room \in Nat /\ rp + room <= buffersize
    BY Inside
  <1>2. ReadSize(n) = MinOf({n, room})
    BY DEF ReadSize
  <1> HIDE DEF room
  <1>3. ReadSize(n) \in Nat /\ ReadSize(n) <= room
    BY <1>1, <1>2, MinOfTwo
  <1> QED
    BY <1>1, <1>3, Inside

LEMMA WriteFits ==
  ASSUME TypeOK, PointersWrapped, lock = None, NEW n \in Nat
  PROVE  WriteSize(n) \in Nat /\ wp + WriteSize(n) <= buffersize
  <1> DEFINE free == size_t(spacefree)
             room == IF wp >= rp THEN buffersize - wp ELSE rp - wp - 1
  <1>1. room \in Nat /\ wp + room <= buffersize
    BY Inside
  <1>2. free \in Nat
    BY FreeSpace, LargestCount DEF size_t
  <1>3. WriteSize(n) = MinOf({n, free, room})
    BY DEF WriteSize
  <1> HIDE DEF free, room
  <1>4. WriteSize(n) \in Nat /\ WriteSize(n) <= room
    BY <1>1, <1>2, <1>3, MinOfThree
  <1> QED
    BY <1>1, <1>4, Inside

-----------------------------------------------------------------------------
(* Types.                                                                  *)

LEMMA InitTypes == Init => TypeOK
  <1> SUFFICES ASSUME Init PROVE TypeOK
    OBVIOUS
  <1>1. mem \in [Address -> 0 .. NBytes - 1] /\ next \in 0 .. NBytes - 1
    BY DEF Init
  <1>2. Cardinality(Procs) \in Nat
    BY FS_CardinalityType
  <1>3. nonblock \in [Procs -> BOOLEAN] /\ jumped \in BOOLEAN
    BY Zenon DEF Init
  <1>4. /\ scull_p_buffer \in Sizes /\ buffersize \in Sizes \cup {0}
        /\ rp \in 0 .. buffersize /\ wp \in 0 .. buffersize
    BY DEF Init, Sizes
  <1>5. queue \in [{"r", "w"} -> SUBSET Procs]
    BY DEF Init
  <1>6. /\ mode \in [Procs -> {"none", "r", "w", "rw"}]
        /\ pc \in [Procs -> {"user", "lock", "wrap", "wake", "wait", "test", "sleep",
                            "poll", "select"}]
        /\ side \in [Procs -> {"r", "w"}] /\ count \in [Procs -> Counts \cup {0}]
    BY DEF Init
  <1> QED
    BY <1>1, <1>2, <1>3, <1>4, <1>5, <1>6 DEF Init, TypeOK

(* How adding and taking away one changes the size of a set.               *)
LEMMA SizeOfSubset ==
  ASSUME NEW S \in SUBSET Procs
  PROVE  Cardinality(S) \in 0 .. Cardinality(Procs)
  <1>1. Cardinality(Procs) \in Nat /\ Cardinality(S) \in Nat
    BY FS_Subset, FS_CardinalityType
  <1>2. Cardinality(S) <= Cardinality(Procs)
    BY FS_Subset
  <1> QED
    BY <1>1, <1>2

LEMMA AddOne ==
  ASSUME NEW S, IsFiniteSet(S), NEW x, x \notin S, NEW b \in BOOLEAN
  PROVE  Cardinality(IF b THEN S \cup {x} ELSE S) = Cardinality(S) + One(b)
  <1>1. Cardinality(S) \in Nat
    BY FS_CardinalityType
  <1>2. CASE b
    BY <1>2, FS_AddElement DEF One
  <1>3. CASE ~b
    BY <1>1, <1>3 DEF One
  <1> QED
    BY <1>2, <1>3

LEMMA TakeOne ==
  ASSUME NEW S, IsFiniteSet(S), NEW x
  PROVE  Cardinality(S \ {x}) = Cardinality(S) - One(x \in S)
  <1>1. Cardinality(S) \in Nat
    BY FS_CardinalityType
  <1>2. CASE x \in S
    BY <1>2, FS_RemoveElement DEF One
  <1>3. CASE x \notin S
    <2>1. S \ {x} = S
      BY <1>3
    <2>2. One(x \in S) = 0
      BY <1>3 DEF One
    <2>3. Cardinality(S \ {x}) = Cardinality(S)
      BY ONLY <2>1, Zenon
    <2> QED
      BY <1>1, <2>2, <2>3
  <1> QED
    BY <1>2, <1>3

(* Opening and closing changes the number of readers and writers by one.   *)
LEMMA OpeningsStep ==
  ASSUME TypeOK, CountsOpenings, NEW p \in Procs,
         \/ \E m \in Modes, nb \in Nonblock : Open(p, m, nb)
         \/ Release(p)
         \/ UNCHANGED openings
  PROVE  CountsOpenings'
  <1> USE DEF TypeOK, CountsOpenings
  <1>1. IsFiniteSet(Readers) /\ IsFiniteSet(Writers)
    BY FS_Subset DEF Readers, Writers
  <1>2. ASSUME NEW m \in Modes, NEW nb \in Nonblock, Open(p, m, nb)
        PROVE  CountsOpenings'
    <2>1. p \notin Readers /\ p \notin Writers
      BY <1>2 DEF Open, Readers, Writers, Readable, Writable
    <2>2. Readers' = (IF Readable(m) THEN Readers \cup {p} ELSE Readers)
      BY <1>2, <2>1 DEF Open, Readers
    <2>3. Writers' = (IF Writable(m) THEN Writers \cup {p} ELSE Writers)
      BY <1>2, <2>1 DEF Open, Writers
    <2>4. nreaders' = Cardinality(Readers')
      <3>1. Readable(m) \in BOOLEAN
        BY DEF Readable
      <3>2. Cardinality(Readers') = Cardinality(Readers) + One(Readable(m))
        BY <1>1, <2>1, <2>2, <3>1, AddOne
      <3> QED
        BY <1>2, <3>2 DEF Open
    <2>5. nwriters' = Cardinality(Writers')
      <3>1. Writable(m) \in BOOLEAN
        BY DEF Writable
      <3>2. Cardinality(Writers') = Cardinality(Writers) + One(Writable(m))
        BY <1>1, <2>1, <2>3, <3>1, AddOne
      <3> QED
        BY <1>2, <3>2 DEF Open
    <2> QED
      BY <2>4, <2>5
  <1>3. ASSUME Release(p) PROVE CountsOpenings'
    <2>1. Readers' = Readers \ {p} /\ Writers' = Writers \ {p}
      BY <1>3 DEF Release, Readers, Writers, Readable, Writable
    <2>2. Readable(mode[p]) <=> p \in Readers
      BY DEF Readers
    <2>3. Writable(mode[p]) <=> p \in Writers
      BY DEF Writers
    <2>4. nreaders' = Cardinality(Readers')
      <3>1. Cardinality(Readers') = Cardinality(Readers) - One(p \in Readers)
        BY <1>1, <2>1, TakeOne
      <3>2. One(Readable(mode[p])) = One(p \in Readers)
        BY <2>2 DEF One
      <3> QED
        BY <1>3, <3>1, <3>2 DEF Release
    <2>5. nwriters' = Cardinality(Writers')
      <3>1. Cardinality(Writers') = Cardinality(Writers) - One(p \in Writers)
        BY <1>1, <2>1, TakeOne
      <3>2. One(Writable(mode[p])) = One(p \in Writers)
        BY <2>3 DEF One
      <3> QED
        BY <1>3, <3>1, <3>2 DEF Release
    <2> QED
      BY <2>4, <2>5
  <1>4. ASSUME UNCHANGED openings PROVE CountsOpenings'
    BY <1>4 DEF openings, Readers, Writers
  <1> QED
    BY <1>2, <1>3, <1>4

(* The places of a system call, as they are assigned to pc.                *)
LEMMA GotoTypes ==
  ASSUME TypeOK, NEW p \in Procs, NEW from,
         NEW to \in {"user", "lock", "wrap", "wake", "wait", "test", "sleep", "poll", "select"},
         Goto(p, from, to)
  PROVE  /\ pc' \in [Procs -> {"user", "lock", "wrap", "wake", "wait", "test", "sleep",
                              "poll", "select"}]
         /\ side' \in [Procs -> {"r", "w"}]
         /\ count' \in [Procs -> Counts \cup {0}]
  BY DEF Goto, TypeOK

LEMMA QueueTypes ==
  ASSUME TypeOK, NEW p \in Procs
  PROVE  /\ [s \in {"r", "w"} |-> queue[s] \cup {p}] \in [{"r", "w"} -> SUBSET Procs]
         /\ [s \in {"r", "w"} |-> queue[s] \ {p}] \in [{"r", "w"} -> SUBSET Procs]
         /\ \A s \in {"r", "w"} :
              /\ [queue EXCEPT ![s] = @ \cup {p}] \in [{"r", "w"} -> SUBSET Procs]
              /\ [queue EXCEPT ![s] = @ \ {p}] \in [{"r", "w"} -> SUBSET Procs]
              /\ [queue EXCEPT ![s] = {}] \in [{"r", "w"} -> SUBSET Procs]
  BY DEF TypeOK

LEMMA KernelTypes ==
  ASSUME TypeOK, PointersWrapped, NEW p \in Procs, Kernel(p)
  PROVE  TypeOK'
  <1> USE DEF pointers, openings, calls, history
  <1>1. CASE NotReady(p)
    BY <1>1, GotoTypes DEF NotReady, TypeOK
  <1>2. CASE ReadData(p)
    <2> DEFINE n == ReadSize(count[p])
    <2>1. n \in Nat /\ rp + n <= buffersize
      BY <1>2, ReadFits DEF ReadData, TypeOK
    <2>2. rp' \in 0 .. buffersize /\ UNCHANGED buffersize
      BY <1>2, <2>1 DEF ReadData, TypeOK
    <2> QED
      BY <1>2, <2>2, GotoTypes DEF ReadData, TypeOK
  <1>3. CASE WriteData(p)
    <2> DEFINE n == WriteSize(count[p])
    <2>1. n \in Nat /\ wp + n <= buffersize
      BY <1>3, WriteFits DEF WriteData, TypeOK
    <2>2. wp' \in 0 .. buffersize /\ UNCHANGED buffersize
      BY <1>3, <2>1 DEF WriteData, TypeOK
    <2>3. next' \in 0 .. NBytes - 1
      <3>1. next' = (next + n) % NBytes /\ next + n \in Int
        BY <1>3, <2>1 DEF WriteData, TypeOK
      <3> HIDE DEF n
      <3> QED
        BY <3>1, Modulo
    <2>4. mem' \in [Address -> 0 .. NBytes - 1]
      <3>1. mem' = [a \in Address |->
                     IF a \in wp .. (wp + n - 1) THEN (next + a - wp) % NBytes ELSE mem[a]]
        BY <1>3 DEF WriteData
      <3>2. ASSUME NEW a \in wp .. (wp + n - 1) PROVE (next + a - wp) % NBytes \in 0 .. NBytes - 1
        <4>1. next + a - wp \in Int
          BY <2>1 DEF TypeOK
        <4> QED
          BY <4>1, Modulo
      <3> HIDE DEF n
      <3>3. \A a \in Address : mem[a] \in 0 .. NBytes - 1
        BY DEF TypeOK
      <3> QED
        BY <3>1, <3>2, <3>3
    <2> QED
      BY <1>3, <2>2, <2>3, <2>4, GotoTypes DEF WriteData, TypeOK
  <1>4. CASE Wrap(p)
    <2>1. rp' \in 0 .. buffersize /\ wp' \in 0 .. buffersize
      BY <1>4 DEF Wrap, Wrapped, TypeOK
    <2> QED
      BY <1>4, <2>1, GotoTypes DEF Wrap, TypeOK
  <1>5. CASE Wake(p)
    <2>1. queue' \in [{"r", "w"} -> SUBSET Procs]
      BY <1>5, QueueTypes DEF Wake, Woken, Other
    <2> QED
      BY <1>5, <2>1, GotoTypes DEF Wake, TypeOK
  <1>6. CASE Prepare(p)
    <2>1. queue' \in [{"r", "w"} -> SUBSET Procs]
      BY <1>6, QueueTypes DEF Prepare, TypeOK
    <2> QED
      BY <1>6, <2>1, GotoTypes DEF Prepare, TypeOK
  <1>7. CASE Test(p)
    <2>1. queue' \in [{"r", "w"} -> SUBSET Procs]
      BY <1>7, QueueTypes DEF Test, TypeOK
    <2> QED
      BY <1>7, <2>1, GotoTypes DEF Test, TypeOK
  <1>8. CASE WakeUp(p)
    BY <1>8, GotoTypes DEF WakeUp, TypeOK
  <1>9. CASE Poll(p)
    <2>1. queue' \in [{"r", "w"} -> SUBSET Procs]
      BY <1>9, QueueTypes DEF Poll, TypeOK
    <2> QED
      BY <1>9, <2>1, GotoTypes DEF Poll, TypeOK
  <1>10. CASE Selected(p)
    <2>1. queue' \in [{"r", "w"} -> SUBSET Procs]
      BY <1>10, QueueTypes DEF Selected
    <2> QED
      BY <1>10, <2>1, GotoTypes DEF Selected, TypeOK
  <1> QED
    BY <1>1, <1>2, <1>3, <1>4, <1>5, <1>6, <1>7, <1>8, <1>9, <1>10 DEF Kernel

LEMMA UserTypes ==
  ASSUME TypeOK, CountsOpenings', NEW p \in Procs, User(p)
  PROVE  TypeOK'
  <1> USE DEF pointers, openings, calls, history
  <1>1. ASSUME NEW m \in Modes, NEW nb \in Nonblock, Open(p, m, nb) PROVE TypeOK'
    <2>1. nreaders' \in 0 .. Cardinality(Procs) /\ nwriters' \in 0 .. Cardinality(Procs)
      <3>1. Readers' \in SUBSET Procs /\ Writers' \in SUBSET Procs
        BY DEF Readers, Writers
      <3> QED
        BY <3>1, SizeOfSubset DEF CountsOpenings
    <2>2. buffersize' \in Sizes \cup {0} /\ rp' \in 0 .. buffersize' /\ wp' \in 0 .. buffersize'
      BY <1>1 DEF Open, TypeOK
    <2>3. jumped' \in BOOLEAN
      BY <1>1 DEF Open, TypeOK
    <2>4. nonblock' \in [Procs -> BOOLEAN]
      BY <1>1 DEF Open, TypeOK
    <2>5. mode' \in [Procs -> {"none", "r", "w", "rw"}]
      BY <1>1 DEF Open, TypeOK
    <2> QED
      BY <1>1, <2>1, <2>2, <2>3, <2>4, <2>5 DEF Open, TypeOK
  <1>2. CASE Release(p)
    <2>1. nreaders' \in 0 .. Cardinality(Procs) /\ nwriters' \in 0 .. Cardinality(Procs)
      <3>1. Readers' \in SUBSET Procs /\ Writers' \in SUBSET Procs
        BY DEF Readers, Writers
      <3> QED
        BY <3>1, SizeOfSubset DEF CountsOpenings
    <2> QED
      BY <1>2, <2>1 DEF Release, TypeOK
  <1>3. ASSUME NEW on \in BOOLEAN, Fasync(p, on) PROVE TypeOK'
    BY <1>3 DEF Fasync, TypeOK
  <1>4. ASSUME NEW n \in IoctlSizes, IoctlSize(p, n) PROVE TypeOK'
    BY <1>4 DEF IoctlSize, TypeOK, Sizes
  <1>5. ASSUME NEW s \in {"r", "w"}, NEW n \in Counts, Call(p, s, n) PROVE TypeOK'
    BY <1>5 DEF Call, TypeOK
  <1>6. ASSUME NEW s \in {"r", "w"}, Select(p, s) PROVE TypeOK'
    BY <1>6 DEF Select, TypeOK
  <1>7. CASE Fault(p)
    BY <1>7, GotoTypes DEF Fault, TypeOK
  <1>8. CASE Interrupt(p)
    <2>1. queue' \in [{"r", "w"} -> SUBSET Procs]
      BY <1>8, QueueTypes DEF Interrupt
    <2> QED
      BY <1>8, <2>1, GotoTypes DEF Interrupt, TypeOK
  <1> QED
    BY <1>1, <1>2, <1>3, <1>4, <1>5, <1>6, <1>7, <1>8 DEF User

-----------------------------------------------------------------------------
(* The buffer lives while the device is open.                              *)

LEMMA OpeningsKept ==
  ASSUME TypeOK, CountsOpenings, NEW p \in Procs, Kernel(p) \/ User(p)
  PROVE  CountsOpenings'
  <1>1. \/ \E m \in Modes, nb \in Nonblock : Open(p, m, nb)
        \/ Release(p)
        \/ UNCHANGED openings
    BY DEF Kernel, NotReady, ReadData, WriteData, Wrap, Wake, Prepare, Test, WakeUp, Poll,
           Selected, User, Fasync, IoctlSize, Call, Select, Fault, Interrupt
  <1> QED
    BY <1>1, OpeningsStep

(* Only a process with an open file makes a call, and only one that is not *)
(* in a call closes its file.                                              *)
LEMMA CallsKept ==
  ASSUME TypeOK, CallsAreOnOpenFiles, NEW p \in Procs, Kernel(p) \/ User(p)
  PROVE  CallsAreOnOpenFiles'
  <1> USE DEF CallsAreOnOpenFiles, InCall, openings, calls
  <1>1. ASSUME UNCHANGED mode, pc[p] # "user", \A x \in Procs \ {p} : pc'[x] = pc[x]
        PROVE  CallsAreOnOpenFiles'
    BY <1>1
  <1>2. ASSUME UNCHANGED mode, pc[p] = "user", mode[p] # "none",
               \A x \in Procs \ {p} : pc'[x] = pc[x]
        PROVE  CallsAreOnOpenFiles'
    BY <1>2
  <1>3. ASSUME Kernel(p) PROVE CallsAreOnOpenFiles'
    BY <1>1, <1>3 DEF Kernel, NotReady, ReadData, WriteData, Wrap, Wake, Prepare, Test,
                      WakeUp, Poll, Selected, Goto, TypeOK
  <1>4. ASSUME NEW m \in Modes, NEW nb \in Nonblock, Open(p, m, nb)
        PROVE  CallsAreOnOpenFiles'
    BY <1>4 DEF Open, TypeOK
  <1>5. CASE Release(p)
    BY <1>5 DEF Release, TypeOK
  <1>6. ASSUME NEW on \in BOOLEAN, Fasync(p, on) PROVE CallsAreOnOpenFiles'
    BY <1>6 DEF Fasync
  <1>7. ASSUME NEW n \in IoctlSizes, IoctlSize(p, n) PROVE CallsAreOnOpenFiles'
    BY <1>7 DEF IoctlSize
  <1>8. ASSUME NEW s \in {"r", "w"}, NEW n \in Counts, Call(p, s, n)
        PROVE  CallsAreOnOpenFiles'
    BY <1>2, <1>8 DEF Call, Readable, Writable, TypeOK
  <1>9. ASSUME NEW s \in {"r", "w"}, Select(p, s) PROVE CallsAreOnOpenFiles'
    BY <1>2, <1>9 DEF Select, Readable, Writable, TypeOK
  <1>10. CASE Fault(p)
    BY <1>1, <1>10 DEF Fault, Goto, TypeOK
  <1>11. CASE Interrupt(p)
    BY <1>1, <1>11 DEF Interrupt, Goto, TypeOK
  <1> QED
    BY <1>3, <1>4, <1>5, <1>6, <1>7, <1>8, <1>9, <1>10, <1>11 DEF User

LEMMA LastOutCounts ==
  ASSUME NEW a \in Nat, NEW b \in Nat
  PROVE  LastOut(a, b) <=> a = 0 /\ b = 0
  BY DEF LastOut

LEMMA BufferKept ==
  ASSUME TypeOK, TypeOK', CountsOpenings', CallsAreOnOpenFiles', BufferLivesWhileOpen,
         NEW p \in Procs, Kernel(p) \/ User(p)
  PROVE  BufferLivesWhileOpen'
  <1>1. ASSUME alloc' # NULL <=> \E x \in Procs : mode'[x] # "none",
               \A x \in async_queue' : mode'[x] # "none"
        PROVE  BufferLivesWhileOpen'
    BY <1>1 DEF BufferLivesWhileOpen, CallsAreOnOpenFiles
  <1>2. ASSUME UNCHANGED <<alloc, mode, async_queue>> PROVE BufferLivesWhileOpen'
    BY <1>1, <1>2 DEF BufferLivesWhileOpen
  <1>3. ASSUME NEW m \in Modes, NEW nb \in Nonblock, Open(p, m, nb)
        PROVE  BufferLivesWhileOpen'
    <2>1. mode'[p] # "none" /\ \A x \in Procs \ {p} : mode'[x] = mode[x]
      BY <1>3 DEF Open, TypeOK
    <2>2. alloc' # NULL
      BY <1>3 DEF Open, TypeOK, NULL
    <2> QED
      BY <1>1, <1>3, <2>1, <2>2 DEF Open, BufferLivesWhileOpen, TypeOK
  <1>4. CASE Release(p)
    <2>1. Readers' \in SUBSET Procs /\ Writers' \in SUBSET Procs
      BY DEF Readers, Writers
    <2>2. (nreaders' = 0 <=> Readers' = {}) /\ (nwriters' = 0 <=> Writers' = {})
      BY <2>1, FS_Subset, FS_EmptySet DEF CountsOpenings
    <2>3. LastOut(nreaders', nwriters') <=> Readers' = {} /\ Writers' = {}
      <3>1. nreaders' \in Nat /\ nwriters' \in Nat
        BY DEF TypeOK
      <3>2. LastOut(nreaders', nwriters') <=> nreaders' = 0 /\ nwriters' = 0
        BY <3>1, LastOutCounts
      <3> QED
        BY ONLY <2>2, <3>2, Zenon
    <2>4. LastOut(nreaders', nwriters') <=> \A x \in Procs : mode'[x] = "none"
      BY <2>3 DEF Readers, Writers, Readable, Writable, TypeOK
    <2>5. alloc' # NULL <=> \E x \in Procs : mode'[x] # "none"
      <3>1. mode[p] # "none" /\ alloc # NULL
        BY <1>4 DEF Release, BufferLivesWhileOpen
      <3> QED
        BY <1>4, <2>4, <3>1 DEF Release
    <2>6. \A x \in async_queue' : mode'[x] # "none"
      BY <1>4 DEF Release, BufferLivesWhileOpen, TypeOK
    <2> QED
      BY <1>1, <2>5, <2>6
  <1>5. ASSUME NEW on \in BOOLEAN, Fasync(p, on) PROVE BufferLivesWhileOpen'
    BY <1>1, <1>5 DEF Fasync, openings, BufferLivesWhileOpen
  <1>6. CASE Kernel(p)
    BY <1>2, <1>6 DEF Kernel, NotReady, ReadData, WriteData, Wrap, Wake, Prepare, Test,
                      WakeUp, Poll, Selected, openings
  <1>7. \/ \E n \in IoctlSizes : IoctlSize(p, n)
        \/ \E s \in {"r", "w"}, n \in Counts : Call(p, s, n)
        \/ \E s \in {"r", "w"} : Select(p, s)
        \/ Fault(p) \/ Interrupt(p)
        => BufferLivesWhileOpen'
    BY <1>2 DEF IoctlSize, Call, Select, Fault, Interrupt, openings
  <1> QED
    BY <1>3, <1>4, <1>5, <1>6, <1>7 DEF User

-----------------------------------------------------------------------------
(* The pointers.                                                           *)

LEMMA PointersKept ==
  ASSUME TypeOK, TypeOK', PointersWrapped, OnePointerAdvances, NEW p \in Procs,
         Kernel(p) \/ User(p)
  PROVE  PointersWrapped' /\ OnePointerAdvances'
  <1> DEFINE wrapped == 0 .. MaxOf({0, buffersize - 1})
  <1> USE DEF PointersWrapped, OnePointerAdvances, calls, pointers
  <1>1. ASSUME UNCHANGED <<pointers, lock>>, pc[p] # "wrap", pc'[p] # "wrap",
               \A x \in Procs \ {p} : pc'[x] = pc[x] /\ side'[x] = side[x]
        PROVE  PointersWrapped' /\ OnePointerAdvances'
    BY <1>1
  <1>2. CASE ReadData(p)
    <2>1. \A x \in Procs : pc[x] # "wrap"
      BY <1>2 DEF ReadData
    <2>2. lock' = p /\ pc' = [pc EXCEPT ![p] = "wrap"] /\ side'[p] = "r"
      BY <1>2 DEF ReadData, Goto, TypeOK
    <2>3. wp' \in wrapped /\ UNCHANGED buffersize
      BY <1>2 DEF ReadData
    <2>4. \A x \in Procs : lock' = x <=> pc'[x] = "wrap"
      BY <2>1, <2>2 DEF TypeOK
    <2>5. \A x \in Procs : pc'[x] = "wrap" => x = p
      BY <2>1, <2>2 DEF TypeOK
    <2>6. PointersWrapped'
      BY <2>2, <2>4
    <2>7. OnePointerAdvances'
      BY <2>2, <2>3, <2>5
    <2> QED
      BY <2>6, <2>7
  <1>3. CASE WriteData(p)
    <2>1. \A x \in Procs : pc[x] # "wrap"
      BY <1>3 DEF WriteData
    <2>2. lock' = p /\ pc' = [pc EXCEPT ![p] = "wrap"] /\ side'[p] = "w"
      BY <1>3 DEF WriteData, Goto, TypeOK
    <2>3. rp' \in wrapped /\ UNCHANGED buffersize
      BY <1>3 DEF WriteData
    <2>4. \A x \in Procs : lock' = x <=> pc'[x] = "wrap"
      BY <2>1, <2>2 DEF TypeOK
    <2>5. \A x \in Procs : pc'[x] = "wrap" => x = p
      BY <2>1, <2>2 DEF TypeOK
    <2>6. PointersWrapped'
      BY <2>2, <2>4
    <2>7. OnePointerAdvances'
      BY <2>2, <2>3, <2>5
    <2> QED
      BY <2>6, <2>7
  <1>4. CASE Wrap(p)
    <2>1. lock = p /\ lock' = None /\ pc' = [pc EXCEPT ![p] = "wake"]
      BY <1>4 DEF Wrap, Goto
    <2>2. \A x \in Procs : pc'[x] # "wrap"
      BY <2>1 DEF TypeOK
    <2>3. rp' \in wrapped /\ wp' \in wrapped
      <3>1. /\ buffersize \in Nat
            /\ MaxOf({0, buffersize - 1}) \in Nat
            /\ MaxOf({0, buffersize - 1}) = IF buffersize > 0 THEN buffersize - 1 ELSE 0
        <4>1. buffersize \in Nat
          BY DEF TypeOK
        <4> QED
          BY <4>1, LastByte
      <3>2. \A x \in 0 .. buffersize : Wrapped(x) \in wrapped
        BY <3>1 DEF Wrapped
      <3>3. (IF side[p] = "r" THEN wp ELSE rp) \in wrapped
        BY <1>4 DEF Wrap, Goto
      <3> HIDE DEF wrapped
      <3> QED
        BY <1>4, <3>2, <3>3 DEF Wrap, TypeOK
    <2> QED
      BY <1>4, <2>1, <2>2, <2>3 DEF Wrap
  <1>5. ASSUME NEW m \in Modes, NEW nb \in Nonblock, Open(p, m, nb)
        PROVE  PointersWrapped' /\ OnePointerAdvances'
    <2>1. \A x \in Procs : pc'[x] # "wrap"
      BY <1>5 DEF Open
    <2>2. 0 \in 0 .. MaxOf({0, buffersize' - 1})
      <3>1. buffersize' \in Nat
        BY DEF TypeOK
      <3>2. MaxOf({0, buffersize' - 1}) \in Nat
        BY <3>1, LastByte
      <3> QED
        BY <3>2
    <2> QED
      BY <1>5, <2>1, <2>2 DEF Open
  <1>6. CASE NotReady(p) \/ Wake(p) \/ Prepare(p) \/ Test(p) \/ WakeUp(p) \/ Poll(p)
             \/ Selected(p) \/ Fault(p) \/ Interrupt(p)
    <2>1. UNCHANGED <<pointers, lock>>
      BY <1>6 DEF NotReady, Wake, Prepare, Test, WakeUp, Poll, Selected, Fault, Interrupt
    <2>2. /\ pc[p] # "wrap" /\ pc'[p] # "wrap"
          /\ \A x \in Procs \ {p} : pc'[x] = pc[x] /\ side'[x] = side[x]
      BY <1>6 DEF NotReady, Wake, Prepare, Test, WakeUp, Poll, Selected, Fault, Interrupt,
                  Goto, TypeOK
    <2> QED
      BY <1>1, <2>1, <2>2
  <1>7. CASE \/ Release(p)
             \/ \E on \in BOOLEAN : Fasync(p, on)
             \/ \E n \in IoctlSizes : IoctlSize(p, n)
             \/ \E s \in {"r", "w"}, n \in Counts : Call(p, s, n)
             \/ \E s \in {"r", "w"} : Select(p, s)
    <2>1. UNCHANGED <<pointers, lock>>
      BY <1>7 DEF Release, Fasync, IoctlSize, Call, Select
    <2>2. CASE UNCHANGED <<pc, side>>
      BY <2>1, <2>2
    <2>3. CASE \/ \E s \in {"r", "w"}, n \in Counts : Call(p, s, n)
               \/ \E s \in {"r", "w"} : Select(p, s)
      <3>1. /\ pc[p] # "wrap" /\ pc'[p] # "wrap"
            /\ \A x \in Procs \ {p} : pc'[x] = pc[x] /\ side'[x] = side[x]
        BY <2>3 DEF Call, Select, TypeOK
      <3> QED
        BY <1>1, <2>1, <3>1
    <2> QED
      BY <1>7, <2>2, <2>3 DEF Release, Fasync, IoctlSize
  <1> QED
    BY <1>2, <1>3, <1>4, <1>5, <1>6, <1>7 DEF Kernel, User

-----------------------------------------------------------------------------
(* No wake up is lost.                                                     *)

(* The wrapping of a pointer makes nothing ready that was not: the free    *)
(* space of the pointer past the last byte is that of the first byte.      *)
LEMMA WrapKeepsReady ==
  ASSUME TypeOK, OnePointerAdvances, NEW p \in Procs, Wrap(p), Ready(side[p])'
  PROVE  Ready(side[p])
  <1>1. /\ rp \in Nat /\ wp \in Nat /\ buffersize \in Nat
        /\ rp <= buffersize /\ wp <= buffersize
    BY DEF TypeOK
  <1> DEFINE other == IF side[p] = "r" THEN wp ELSE rp
  <1>2. other < buffersize \/ (other = 0 /\ buffersize = 0)
    <2>1. /\ MaxOf({0, buffersize - 1}) \in Nat
          /\ MaxOf({0, buffersize - 1}) = IF buffersize > 0 THEN buffersize - 1 ELSE 0
      BY <1>1, LastByte
    <2>2. other \in 0 .. MaxOf({0, buffersize - 1})
      BY DEF OnePointerAdvances, Wrap, Goto
    <2> HIDE DEF other
    <2>3. CASE buffersize > 0
      BY <1>1, <2>1, <2>2, <2>3
    <2>4. CASE buffersize = 0
      BY <1>1, <2>1, <2>2, <2>4
    <2> QED
      BY <1>1, <2>3, <2>4
  <1>3. side'[p] = side[p] /\ side[p] \in {"r", "w"} /\ UNCHANGED buffersize
    BY DEF Wrap, Goto, TypeOK
  <1>4. CASE side[p] = "r"
    <2>1. rp' = Wrapped(rp) /\ UNCHANGED wp /\ rp' # wp
      BY <1>3, <1>4 DEF Wrap, Ready
    <2> QED
      BY <1>1, <1>2, <1>4, <2>1 DEF Ready, Wrapped
  <1>5. CASE side[p] = "w"
    <2>1. wp' = Wrapped(wp) /\ UNCHANGED rp /\ spacefree' # 0
      BY <1>3, <1>5 DEF Wrap, Ready
    <2>2. CASE wp # buffersize \/ buffersize = 0
      <3>1. wp' = wp
        BY <1>1, <2>1, <2>2 DEF Wrapped
      <3> QED
        BY <1>3, <1>5, <2>1, <3>1 DEF Ready, spacefree
    <2>3. CASE wp = buffersize /\ buffersize # 0
      <3>1. rp < buffersize /\ wp' = 0 /\ rp # wp /\ buffersize \in Nat \ {0}
        BY <1>1, <1>2, <1>5, <2>1, <2>3 DEF Wrapped
      <3>2. (rp + buffersize - wp) = rp /\ rp \in 0 .. buffersize - 1
        BY <1>1, <2>3, <3>1
      <3>3. spacefree = rp - 1
        <4>1. spacefree = ((rp + buffersize - wp) % buffersize) - 1
          BY <3>1 DEF spacefree
        <4>2. rp % buffersize = rp
          <5>1. rp \in Int /\ buffersize \in Nat \ {0} /\ rp \in 0 .. buffersize - 1
            BY <1>1, <3>1, <3>2
          <5> QED
            BY ONLY <5>1, Modulo
        <4> QED
          BY <3>2, <4>1, <4>2
      <3>4. CASE rp = 0
        BY <1>5, <3>3, <3>4 DEF Ready
      <3>5. CASE rp # 0
        <4>1. spacefree' = ((rp + buffersize - 0) % buffersize) - 1
          BY <1>3, <2>1, <3>1, <3>5 DEF spacefree
        <4>2. rp + buffersize - 0 \in buffersize .. 2 * buffersize - 1
          BY <1>1, <3>2
        <4>3. (rp + buffersize - 0) % buffersize = (rp + buffersize - 0) - buffersize
          <5>1. rp + buffersize - 0 \in Int
            BY <1>1
          <5> QED
            BY <3>1, <4>2, <5>1, Modulo
        <4> QED
          BY <1>1, <1>5, <2>1, <3>3, <4>1, <4>3 DEF Ready
      <3> QED
        BY <3>4, <3>5
    <2> QED
      BY <2>2, <2>3
  <1> QED
    BY <1>3, <1>4, <1>5

(* A step that leaves the pointers alone loses no wake up, unless p goes   *)
(* to sleep on what is there or does not make the wake up it owes.         *)
LEMMA QuietStep ==
  ASSUME TypeOK, NoLostWakeup, NEW p \in Procs,
         UNCHANGED <<pointers, jumped>>,
         \A x \in Procs \ {p} :
           /\ pc'[x] = pc[x] /\ side'[x] = side[x]
           /\ \A s \in {"r", "w"} : x \in queue'[s] => x \in queue[s],
         pc[p] \notin {"wrap", "wake"},
         Asleep(p)' => ~Ready(side[p])'
  PROVE  NoLostWakeup'
  <1> SUFFICES ASSUME NEW x \in Procs \ {p}, Asleep(x)', Ready(side[x])'
               PROVE  \/ \E q \in Procs : /\ pc'[q] \in {"wrap", "wake"}
                                          /\ side'[q] = Other(side'[x])
                      \/ side'[x] = "w" /\ jumped'
    BY DEF NoLostWakeup
  <1>1. side'[x] = side[x] /\ side[x] \in {"r", "w"}
    BY DEF TypeOK
  <1>2. Asleep(x)
    BY <1>1 DEF Asleep
  <1>3. Ready(side[x])
    BY <1>1 DEF Ready, spacefree, pointers
  <1>4. CASE side[x] = "w" /\ jumped
    BY <1>1, <1>4
  <1>5. CASE \E q \in Procs : pc[q] \in {"wrap", "wake"} /\ side[q] = Other(side[x])
    BY <1>1, <1>5
  <1> QED
    BY <1>2, <1>3, <1>4, <1>5 DEF NoLostWakeup

LEMMA QuietKernelSteps ==
  ASSUME TypeOK, NoLostWakeup, NEW p \in Procs,
         \/ NotReady(p) \/ Prepare(p) \/ Test(p) \/ WakeUp(p) \/ Poll(p) \/ Selected(p)
         \/ Fault(p) \/ Interrupt(p)
  PROVE  NoLostWakeup'
  <1> USE DEF pointers, history
  <1>1. UNCHANGED <<pointers, jumped>>
    BY DEF NotReady, Prepare, Test, WakeUp, Poll, Selected, Fault, Interrupt
  <1>2. \A x \in Procs \ {p} : pc'[x] = pc[x] /\ side'[x] = side[x]
    BY DEF NotReady, Prepare, Test, WakeUp, Poll, Selected, Fault, Interrupt, Goto, TypeOK
  <1>3. \A x \in Procs \ {p}, s \in {"r", "w"} : x \in queue'[s] => x \in queue[s]
    BY DEF NotReady, Prepare, Test, WakeUp, Poll, Selected, Fault, Interrupt, TypeOK
  <1>4. pc[p] \notin {"wrap", "wake"}
    BY DEF NotReady, Prepare, Test, WakeUp, Poll, Selected, Fault, Interrupt, Goto
  <1>5. Asleep(p)' => ~Ready(side[p])'
    <2>1. \A s \in {"r", "w"} : Ready(s)' <=> Ready(s)
      BY <1>1 DEF Ready, spacefree
    <2>2. side[p] \in {"r", "w"} /\ (pc'[p] # "user" => side'[p] = side[p])
      BY DEF NotReady, Prepare, Test, WakeUp, Poll, Selected, Fault, Interrupt, Goto, TypeOK
    <2>3. pc'[p] \in {"sleep", "select"} => ~Ready(side[p])
      BY DEF NotReady, Prepare, Test, WakeUp, Poll, Selected, Fault, Interrupt, Goto, TypeOK
    <2>4. Asleep(p)' => pc'[p] \in {"sleep", "select"}
      BY DEF Asleep
    <2> QED
      BY <2>1, <2>2, <2>3, <2>4
  <1> QED
    BY <1>1, <1>2, <1>3, <1>4, <1>5, QuietStep

LEMMA QuietUserSteps ==
  ASSUME TypeOK, NoLostWakeup, NEW p \in Procs,
         \/ Release(p)
         \/ \E on \in BOOLEAN : Fasync(p, on)
         \/ \E n \in IoctlSizes : IoctlSize(p, n)
         \/ \E s \in {"r", "w"}, n \in Counts : Call(p, s, n)
         \/ \E s \in {"r", "w"} : Select(p, s)
  PROVE  NoLostWakeup'
  <1> USE DEF pointers, calls, history
  <1>1. UNCHANGED <<pointers, jumped, queue>>
    BY DEF Release, Fasync, IoctlSize, Call, Select
  <1>2. \A x \in Procs \ {p} : pc'[x] = pc[x] /\ side'[x] = side[x]
    BY DEF Release, Fasync, IoctlSize, Call, Select, TypeOK
  <1>3. pc[p] = "user" /\ pc'[p] \in {"user", "lock", "poll"}
    BY DEF Release, Fasync, IoctlSize, Call, Select, TypeOK
  <1>4. Asleep(p)' => ~Ready(side[p])'
    BY <1>3 DEF Asleep
  <1> QED
    BY <1>1, <1>2, <1>3, <1>4, QuietStep

LEMMA WakeupsKept ==
  ASSUME TypeOK, TypeOK', CallsAreOnOpenFiles, BufferLivesWhileOpen, PointersWrapped,
         OnePointerAdvances, NoLostWakeup, NEW p \in Procs, Kernel(p) \/ User(p)
  PROVE  NoLostWakeup'
  <1> DEFINE Owed(x) == \E q \in Procs : pc[q] \in {"wrap", "wake"} /\ side[q] = Other(side[x])
  <1>0. ASSUME \A x \in Procs : Asleep(x)' /\ Ready(side[x])' =>
                                  Owed(x)' \/ (side'[x] = "w" /\ jumped')
        PROVE  NoLostWakeup'
    BY <1>0 DEF NoLostWakeup
  <1>1. \A x \in Procs : Asleep(x) /\ Ready(side[x]) => Owed(x) \/ (side[x] = "w" /\ jumped)
    BY DEF NoLostWakeup
  <1>2. \A s \in {"r", "w"} : Other(s) # s /\ Other(s) \in {"r", "w"} /\ Other(Other(s)) = s
    BY DEF Other
  <1>3. ASSUME NEW s \in {"r", "w"}, side[p] = s, pc[p] = "lock", Ready(s),
               pc' = [pc EXCEPT ![p] = "wrap"], UNCHANGED <<side, queue, jumped>>
        PROVE  NoLostWakeup'
    <2> SUFFICES ASSUME NEW x \in Procs, Asleep(x)', Ready(side[x])'
                 PROVE  Owed(x)' \/ (side'[x] = "w" /\ jumped')
      BY <1>0
    <2>1. x # p /\ Asleep(x) /\ side[x] \in {"r", "w"}
      BY <1>3 DEF Asleep, TypeOK
    <2>2. pc'[p] = "wrap" /\ side'[p] = s
      BY <1>3 DEF TypeOK
    <2>3. CASE side[x] = Other(s)
      BY <1>2, <1>3, <2>2, <2>3
    <2>4. CASE side[x] = s
      <3>1. Owed(x) \/ (side[x] = "w" /\ jumped)
        BY <1>1, <1>3, <2>1, <2>4
      <3>2. ASSUME NEW q \in Procs, pc[q] \in {"wrap", "wake"}, side[q] = Other(side[x])
            PROVE  Owed(x)'
        <4>1. q # p
          BY <1>3, <3>2
        <4> QED
          BY <1>3, <3>2, <4>1 DEF TypeOK
      <3> QED
        BY <1>3, <3>1, <3>2
    <2> QED
      BY <2>1, <2>3, <2>4 DEF Other
  <1>4. CASE ReadData(p)
    BY <1>3, <1>4 DEF ReadData, Goto, TypeOK
  <1>5. CASE WriteData(p)
    BY <1>3, <1>5 DEF WriteData, Goto, TypeOK
  <1>6. CASE Wrap(p)
    <2> SUFFICES ASSUME NEW x \in Procs, Asleep(x)', Ready(side[x])'
                 PROVE  Owed(x)' \/ (side'[x] = "w" /\ jumped')
      BY <1>0
    <2>1. pc[p] = "wrap" /\ pc' = [pc EXCEPT ![p] = "wake"] /\ UNCHANGED <<side, queue, jumped>>
      BY <1>6 DEF Wrap, Goto, TypeOK, history
    <2>2. x # p /\ Asleep(x) /\ side[x] \in {"r", "w"} /\ side[p] \in {"r", "w"}
      BY <2>1 DEF Asleep, TypeOK
    <2>3. CASE side[x] = Other(side[p])
      BY <1>2, <2>1, <2>2, <2>3 DEF TypeOK
    <2>4. CASE side[x] = side[p]
      <3>1. Ready(side[p])'
        BY <2>1, <2>4
      <3>2. Owed(x) \/ (side[x] = "w" /\ jumped)
        BY <1>1, <1>6, <2>2, <2>4, <3>1, WrapKeepsReady
      <3>3. ASSUME NEW q \in Procs, pc[q] \in {"wrap", "wake"}, side[q] = Other(side[x])
            PROVE  Owed(x)'
        <4>1. q # p
          BY <1>2, <2>2, <2>4, <3>3
        <4> QED
          BY <2>1, <3>3, <4>1 DEF TypeOK
      <3> QED
        BY <2>1, <3>2, <3>3
    <2> QED
      BY <2>2, <2>3, <2>4 DEF Other
  <1>7. CASE Wake(p)
    <2> SUFFICES ASSUME NEW x \in Procs, Asleep(x)', Ready(side[x])'
                 PROVE  Owed(x)' \/ (side'[x] = "w" /\ jumped')
      BY <1>0
    <2>1. /\ pc[p] = "wake" /\ pc' = [pc EXCEPT ![p] = "user"]
          /\ \A y \in Procs \ {p} : side'[y] = side[y]
          /\ UNCHANGED <<pointers, jumped>>
      BY <1>7 DEF Wake, Goto, TypeOK, history
    <2>2. queue' = [queue EXCEPT ![Other(side[p])] = {}]
      BY <1>7 DEF Wake, Woken
    <2>3. x # p /\ side'[x] = side[x] /\ side[x] \in {"r", "w"} /\ side[p] \in {"r", "w"}
      BY <2>1 DEF Asleep, TypeOK
    <2>4. x \in queue'[side[x]]
      BY <2>3 DEF Asleep
    <2>5. side[x] = side[p]
      BY <1>2, <2>2, <2>3, <2>4 DEF Other, TypeOK
    <2>6. Asleep(x)
      BY <2>1, <2>2, <2>3, <2>5 DEF Asleep, Other, TypeOK
    <2>7. Ready(side[x])
      BY <2>1, <2>3 DEF Ready, spacefree, pointers
    <2>8. Owed(x) \/ (side[x] = "w" /\ jumped)
      BY <1>1, <2>6, <2>7
    <2>9. ASSUME NEW q \in Procs, pc[q] \in {"wrap", "wake"}, side[q] = Other(side[x])
          PROVE  Owed(x)'
      <3>1. q # p
        BY <1>2, <2>3, <2>5, <2>9
      <3> QED
        BY <2>1, <2>3, <2>9, <3>1 DEF TypeOK
    <2> QED
      BY <2>1, <2>3, <2>8, <2>9
  <1>8. ASSUME NEW m \in Modes, NEW nb \in Nonblock, Open(p, m, nb)
        PROVE  NoLostWakeup'
    <2> SUFFICES ASSUME NEW x \in Procs, Asleep(x)', Ready(side[x])'
                 PROVE  Owed(x)' \/ (side'[x] = "w" /\ jumped')
      BY <1>0
    <2>1. UNCHANGED <<pc, side, queue>> /\ rp' = wp'
      BY <1>8 DEF Open, calls
    <2>2. Asleep(x) /\ side[x] = "w"
      BY <2>1 DEF Asleep, Ready, TypeOK
    <2>3. alloc # NULL
      BY <2>2 DEF Asleep, InCall, BufferLivesWhileOpen
    <2>4. CASE spacefree' # spacefree
      BY <1>8, <2>1, <2>2, <2>3, <2>4 DEF Open
    <2>5. CASE spacefree' = spacefree
      <3>1. Ready(side[x])
        BY <2>1, <2>2, <2>5 DEF Ready
      <3>2. Owed(x) \/ jumped
        BY <1>1, <2>2, <3>1
      <3>3. jumped => jumped'
        BY <1>8 DEF Open
      <3> QED
        BY <2>1, <2>2, <3>2, <3>3
    <2> QED
      BY <2>4, <2>5
  <1> QED
    BY <1>4, <1>5, <1>6, <1>7, <1>8, QuietKernelSteps, QuietUserSteps DEF Kernel, User

-----------------------------------------------------------------------------
(* The invariant, and what follows.                                        *)

LEMMA InitInvariant == Init => IInv
  <1> SUFFICES ASSUME Init PROVE IInv
    OBVIOUS
  <1>1. TypeOK
    BY InitTypes
  <1>2. CountsOpenings
    <2>1. Readers = {} /\ Writers = {}
      BY DEF Init, Readers, Writers, Readable, Writable
    <2> QED
      BY <2>1, FS_EmptySet DEF Init, CountsOpenings
  <1>3. CallsAreOnOpenFiles /\ BufferLivesWhileOpen
    BY DEF Init, CallsAreOnOpenFiles, BufferLivesWhileOpen, InCall
  <1>4. PointersWrapped
    <2>1. MaxOf({0, buffersize - 1}) \in Nat
      BY LastByte DEF Init
    <2> QED
      BY <2>1 DEF Init, PointersWrapped
  <1>5. OnePointerAdvances /\ NoLostWakeup
    BY DEF Init, OnePointerAdvances, NoLostWakeup, Asleep
  <1> QED
    BY <1>1, <1>2, <1>3, <1>4, <1>5 DEF IInv

LEMMA StepInvariant == IInv /\ [Next]_vars => IInv'
  <1> SUFFICES ASSUME IInv, [Next]_vars PROVE IInv'
    OBVIOUS
  <1>1. ASSUME NEW p \in Procs, Kernel(p) \/ User(p) PROVE IInv'
    <2>1. CountsOpenings'
      BY <1>1, OpeningsKept DEF IInv
    <2>2. TypeOK'
      BY <1>1, <2>1, KernelTypes, UserTypes DEF IInv
    <2>3. CallsAreOnOpenFiles'
      BY <1>1, CallsKept DEF IInv
    <2>4. BufferLivesWhileOpen'
      BY <1>1, <2>1, <2>2, <2>3, BufferKept DEF IInv
    <2>5. PointersWrapped' /\ OnePointerAdvances'
      BY <1>1, <2>2, PointersKept DEF IInv
    <2>6. NoLostWakeup'
      BY <1>1, <2>2, WakeupsKept DEF IInv
    <2> QED
      BY <2>1, <2>2, <2>3, <2>4, <2>5, <2>6 DEF IInv
  <1>2. ASSUME UNCHANGED vars PROVE IInv'
    <2> USE <1>2 DEF IInv, vars, pointers, openings, calls, history
    <2>1. TypeOK' /\ CountsOpenings' /\ CallsAreOnOpenFiles'
      BY DEF TypeOK, CountsOpenings, Readers, Writers, CallsAreOnOpenFiles, InCall
    <2>2. BufferLivesWhileOpen' /\ PointersWrapped' /\ OnePointerAdvances'
      BY DEF BufferLivesWhileOpen, InCall, PointersWrapped, OnePointerAdvances
    <2>3. NoLostWakeup'
      BY DEF NoLostWakeup, Asleep, Ready, spacefree
    <2> QED
      BY <2>1, <2>2, <2>3
  <1> QED
    BY <1>1, <1>2 DEF Next

LEMMA Invariant == Spec => []IInv
  BY InitInvariant, StepInvariant, PTL DEF Spec

(* The fields of struct scull_pipe and the places of its callers have      *)
(* their types, both pointers never leaving buffer .. end                  *)
(* (scull.c:1283-1292).                                                    *)
THEOREM TypeCorrect == Spec => []TypeOK
  <1>1. IInv => TypeOK
    BY DEF IInv
  <1> QED
    BY <1>1, Invariant, PTL

(* The buffer is allocated exactly while a file is open, so that no read,  *)
(* write or poll finds it freed (scull_p_open, scull_p_release).           *)
THEOREM BufferIsThere == Spec => []BufferLivesWhileOpen
  <1>1. IInv => BufferLivesWhileOpen
    BY DEF IInv
  <1> QED
    BY <1>1, Invariant, PTL

(* While the mutex is free both pointers are on a byte of the buffer, and  *)
(* whose pointer is past the end holds the mutex (scull_p_read,            *)
(* scull_p_write).                                                         *)
THEOREM PointersAreWrapped == Spec => []PointersWrapped
  <1>1. IInv => PointersWrapped
    BY DEF IInv
  <1> QED
    BY <1>1, Invariant, PTL

(* Whoever sleeps while what it waits for is there is about to be woken,   *)
(* although the conditions are tested without the mutex (scull_p_read,     *)
(* scull_getwritespace, scull_p_poll).                                     *)
THEOREM WakeupsArrive == Spec => []NoLostWakeup
  <1>1. IInv => NoLostWakeup
    BY DEF IInv
  <1> QED
    BY <1>1, Invariant, PTL

(* A reader and a writer do not both sleep with nobody left to wake them:  *)
(* a buffer is not empty and full at once.                                 *)
THEOREM NoMutualWait == Spec => []NotBothAsleep
  <1>1. ASSUME IInv PROVE NotBothAsleep
    <2> SUFFICES ASSUME buffersize > 1, ~jumped, NEW p \in Procs, NEW q \in Procs,
                        Asleep(p), side[p] = "r", Asleep(q), side[q] = "w",
                        \A x \in Procs \ {p, q} : pc[x] \in {"user", "sleep", "select"}
                 PROVE  FALSE
      BY DEF NotBothAsleep
    <2>1. \A x \in Procs : pc[x] \notin {"wrap", "wake"}
      BY DEF Asleep
    <2>2. ~Ready("r") /\ ~Ready("w")
      BY <1>1, <2>1 DEF IInv, NoLostWakeup
    <2>3. rp = wp /\ spacefree = 0
      BY <2>2 DEF Ready
    <2>4. buffersize \in Nat
      BY <1>1 DEF IInv, TypeOK
    <2> QED
      BY <2>3, <2>4 DEF spacefree
  <1> QED
    BY <1>1, Invariant, PTL

-----------------------------------------------------------------------------
(* A stream of bytes.                                                      *)

LEMMA Addresses ==
  ASSUME TypeOK, NEW a \in 0 .. buffersize - 1
  PROVE  a \in Address
  <1>1. \A n \in Sizes : n <= MaxOf(Sizes) /\ MaxOf(Sizes) \in Nat
    BY DEF MaxOf
  <1>2. buffersize \in Sizes
    BY DEF TypeOK
  <1>3. buffersize <= MaxOf(Sizes) /\ MaxOf(Sizes) \in Nat /\ buffersize \in Nat
    BY <1>1, <1>2
  <1> QED
    BY <1>3 DEF Address

(* What is held, while both pointers are on a byte of the buffer.          *)
LEMMA HeldBetween ==
  ASSUME NEW b \in Nat \ {0}, NEW r \in 0 .. b - 1, NEW w \in 0 .. b - 1
  PROVE  (w - r + b) % b = IF w >= r THEN w - r ELSE w - r + b
  <1>1. w - r + b \in Int
    OBVIOUS
  <1>2. CASE w >= r
    <2>1. w - r + b \in b .. 2 * b - 1
      BY <1>2
    <2>2. (w - r + b) % b = (w - r + b) - b
      BY <1>1, <2>1, Modulo
    <2> QED
      BY <1>2, <2>2
  <1>3. CASE ~(w >= r)
    <2>1. w - r + b \in 0 .. b - 1
      BY <1>3
    <2>2. (w - r + b) % b = w - r + b
      BY <1>1, <2>1, Modulo
    <2> QED
      BY <1>3, <2>2
  <1> QED
    BY <1>2, <1>3

LEMMA NothingHeld ==
  ASSUME NEW b \in Nat
  PROVE  b # 0 => (0 - 0 + b) % b = 0
  <1> SUFFICES ASSUME b # 0 PROVE (0 - 0 + b) % b = 0
    OBVIOUS
  <1>1. (0 - 0 + b) % b = IF 0 >= 0 THEN 0 - 0 ELSE 0 - 0 + b
    BY HeldBetween
  <1> QED
    BY <1>1

(* A read of n bytes at r moves r over the n oldest bytes.                 *)
LEMMA ReadArithmetic ==
  ASSUME NEW b \in Nat \ {0}, NEW r \in 0 .. b - 1, NEW w \in 0 .. b - 1, r # w,
         NEW n \in Nat, n <= IF w > r THEN w - r ELSE b - r,
         NEW h, h = IF w >= r THEN w - r ELSE w - r + b,
         NEW r2, r2 = IF r + n = b THEN 0 ELSE r + n
  PROVE  /\ r2 \in 0 .. b - 1 /\ n <= h /\ h \in Nat
         /\ (w - r2 + b) % b = h - n
         /\ \A i \in 1 .. n : (r + i - 1) % b = r + i - 1
         /\ \A i \in 1 .. h - n : (r2 + i - 1) % b = (r + (i + n) - 1) % b
  <1>1. r2 \in 0 .. b - 1 /\ n <= h /\ h \in Nat /\ h < b
    OBVIOUS
  <1>2. (w - r2 + b) % b = h - n
    <2>1. (w - r2 + b) % b = IF w >= r2 THEN w - r2 ELSE w - r2 + b
      BY <1>1, HeldBetween
    <2> QED
      BY <1>1, <2>1
  <1>3. ASSUME NEW i \in 1 .. n PROVE (r + i - 1) % b = r + i - 1
    <2>1. r + i - 1 \in Int /\ r + i - 1 \in 0 .. b - 1
      OBVIOUS
    <2> QED
      BY <2>1, Modulo
  <1>4. ASSUME NEW i \in 1 .. h - n PROVE (r2 + i - 1) % b = (r + (i + n) - 1) % b
    <2>1. CASE r + n # b
      <3>1. r2 + i - 1 = r + (i + n) - 1
        BY <2>1
      <3> QED
        BY <3>1
    <2>2. CASE r + n = b
      <3>1. r2 + i - 1 = i - 1 /\ r + (i + n) - 1 = b + (i - 1) /\ i - 1 \in 0 .. b - 1
        BY <1>1, <2>2
      <3>2. (i - 1) % b = i - 1
        <4>1. i - 1 \in Int /\ i - 1 \in 0 .. b - 1
          BY <3>1
        <4> QED
          BY ONLY <4>1, Modulo
      <3>3. b + (i - 1) \in Int /\ b + (i - 1) \in b .. 2 * b - 1
        BY <3>1
      <3>4. (b + (i - 1)) % b = (b + (i - 1)) - b
        BY <3>3, Modulo
      <3> QED
        BY <3>1, <3>2, <3>4
    <2> QED
      BY <2>1, <2>2
  <1> QED
    BY <1>1, <1>2, <1>3, <1>4

(* A write of n bytes at w puts them after the h that are held, and over   *)
(* none of these.                                                          *)
LEMMA WriteArithmetic ==
  ASSUME NEW b \in Nat \ {0}, NEW r \in 0 .. b - 1, NEW w \in 0 .. b - 1,
         NEW n \in Nat, n <= IF w >= r THEN b - w ELSE r - w - 1,
         NEW h \in Nat, h = IF w >= r THEN w - r ELSE w - r + b, n + h < b,
         NEW w2 \in 0 .. b - 1, w2 = IF w + n = b THEN 0 ELSE w + n
  PROVE  /\ (w2 - r + b) % b = h + n
         /\ \A i \in 1 .. h : /\ (r + i - 1) % b \in 0 .. b - 1
                              /\ (r + i - 1) % b \notin w .. (w + n - 1)
         /\ \A i \in 1 .. n : (r + (h + i) - 1) % b = w + i - 1
  <1>1. (w2 - r + b) % b = h + n
    <2>1. (w2 - r + b) % b = IF w2 >= r THEN w2 - r ELSE w2 - r + b
      BY HeldBetween
    <2> QED
      BY <2>1
  <1>2. ASSUME NEW k \in 0 .. b - 1
        PROVE  (r + k) % b = IF r + k < b THEN r + k ELSE r + k - b
    <2>1. CASE r + k < b
      <3>1. r + k \in Int /\ r + k \in 0 .. b - 1
        BY <2>1
      <3> QED
        BY <2>1, <3>1, Modulo
    <2>2. CASE ~(r + k < b)
      <3>1. r + k \in Int /\ r + k \in b .. 2 * b - 1
        BY <2>2
      <3>2. (r + k) % b = (r + k) - b
        BY <3>1, Modulo
      <3> QED
        BY <2>2, <3>2
    <2> QED
      BY <2>1, <2>2
  <1>3. ASSUME NEW i \in 1 .. h
        PROVE  /\ (r + i - 1) % b \in 0 .. b - 1
               /\ (r + i - 1) % b \notin w .. (w + n - 1)
    <2>1. i - 1 \in 0 .. b - 1 /\ r + (i - 1) = r + i - 1
      OBVIOUS
    <2>2. (r + i - 1) % b = IF r + (i - 1) < b THEN r + (i - 1) ELSE r + (i - 1) - b
      BY <1>2, <2>1
    <2> QED
      BY <2>1, <2>2
  <1>4. ASSUME NEW i \in 1 .. n PROVE (r + (h + i) - 1) % b = w + i - 1
    <2>1. h + i - 1 \in 0 .. b - 1 /\ r + (h + i - 1) = r + (h + i) - 1
      OBVIOUS
    <2>2. (r + (h + i) - 1) % b =
            IF r + (h + i - 1) < b THEN r + (h + i - 1) ELSE r + (h + i - 1) - b
      BY <1>2, <2>1
    <2> QED
      BY <2>1, <2>2
  <1> QED
    BY <1>1, <1>3, <1>4

LEMMA RestOf ==
  ASSUME NEW S, NEW s \in Seq(S), NEW t \in Seq(S), NEW n \in 0 .. Len(s),
         Len(t) = Len(s) - n, \A i \in 1 .. Len(t) : t[i] = s[i + n]
  PROVE  t = SubSeq(s, n + 1, Len(s))
  <1> DEFINE u == SubSeq(s, n + 1, Len(s))
  <1>1. n + 1 \in Int /\ Len(s) \in Int /\ \A i \in n + 1 .. Len(s) : s[i] \in S
    OBVIOUS
  <1>2. /\ u \in Seq(S) /\ Len(u) = (IF n + 1 <= Len(s) THEN Len(s) - (n + 1) + 1 ELSE 0)
        /\ \A i \in 1 .. Len(s) - (n + 1) + 1 : u[i] = s[(n + 1) + i - 1]
    BY <1>1, SubSeqProperties
  <1> HIDE DEF u
  <1>3. Len(u) = Len(t)
    BY <1>2
  <1>4. \A i \in 1 .. Len(t) : t[i] = u[i]
    BY <1>2
  <1>5. t = u
    BY <1>2, <1>3, <1>4, SeqEqual
  <1> QED
    BY <1>5 DEF u

LEMMA FirstOf ==
  ASSUME NEW S, NEW s \in Seq(S), NEW t \in Seq(S), NEW n \in 0 .. Len(s),
         Len(t) = n, \A i \in 1 .. n : t[i] = s[i]
  PROVE  t = SubSeq(s, 1, n)
  <1> DEFINE u == SubSeq(s, 1, n)
  <1>1. 1 \in Int /\ n \in Int /\ \A i \in 1 .. n : s[i] \in S
    OBVIOUS
  <1>2. /\ u \in Seq(S) /\ Len(u) = (IF 1 <= n THEN n - 1 + 1 ELSE 0)
        /\ \A i \in 1 .. n - 1 + 1 : u[i] = s[1 + i - 1]
    BY <1>1, SubSeqProperties
  <1> HIDE DEF u
  <1>3. Len(u) = n
    BY <1>2
  <1>4. \A i \in 1 .. n : t[i] = u[i]
    BY <1>2
  <1>5. t = u
    BY <1>2, <1>3, <1>4, SeqEqual
  <1> QED
    BY <1>5 DEF u

LEMMA Joined ==
  ASSUME NEW S, NEW s \in Seq(S), NEW t \in Seq(S), NEW u \in Seq(S),
         Len(t) = Len(s) + Len(u),
         \A i \in 1 .. Len(s) : t[i] = s[i],
         \A i \in 1 .. Len(u) : t[Len(s) + i] = u[i]
  PROVE  t = s \o u
  <1>1. /\ s \o u \in Seq(S) /\ Len(s \o u) = Len(s) + Len(u)
        /\ \A i \in 1 .. Len(s) + Len(u) :
             (s \o u)[i] = IF i <= Len(s) THEN s[i] ELSE u[i - Len(s)]
    BY ConcatProperties
  <1>2. ASSUME NEW i \in 1 .. Len(t) PROVE t[i] = (s \o u)[i]
    <2>1. CASE i <= Len(s)
      BY <1>1, <2>1
    <2>2. CASE ~(i <= Len(s))
      <3>1. i - Len(s) \in 1 .. Len(u) /\ Len(s) + (i - Len(s)) = i
        BY <2>2
      <3>2. t[i] = u[i - Len(s)]
        BY <3>1
      <3> QED
        BY <1>1, <2>2, <3>2
    <2> QED
      BY <2>1, <2>2
  <1> QED
    BY <1>1, <1>2, SeqEqual

(* The bytes held from r on.                                               *)
Bytes == 0 .. NBytes - 1

LEMMA HeldBytes ==
  ASSUME NEW m \in [Address -> Bytes], NEW b \in Nat \ {0}, 0 .. b - 1 \subseteq Address,
         NEW r \in 0 .. b - 1, NEW h \in Nat
  PROVE  /\ [i \in 1 .. h |-> m[(r + i - 1) % b]] \in Seq(Bytes)
         /\ Len([i \in 1 .. h |-> m[(r + i - 1) % b]]) = h
  <1>1. ASSUME NEW i \in 1 .. h PROVE m[(r + i - 1) % b] \in Bytes
    <2>1. r + i - 1 \in Int
      OBVIOUS
    <2>2. (r + i - 1) % b \in 0 .. b - 1
      BY <2>1, Modulo
    <2> QED
      BY <2>2
  <1> QED
    BY <1>1

(* What the calls that move bytes do, in numbers.                          *)
LEMMA ReadImplements ==
  ASSUME TypeOK, TypeOK', BufferLivesWhileOpen, PointersWrapped, NEW p \in Procs, ReadData(p)
  PROVE  Stream!Next
  <1> DEFINE n == ReadSize(count[p])
             room == IF wp > rp THEN wp - rp ELSE buffersize - rp
  <1>1. count[p] \in Nat /\ n \in Nat /\ n <= room /\ n <= count[p]
    <2>1. count[p] \in Nat /\ room \in Nat
      <3>1. count[p] \in Nat
        <4>1. count[p] \in Counts \cup {0}
          BY DEF TypeOK
        <4> QED
          BY ONLY <4>1, CountsAreNumbers, Zenon
      <3>2. room \in Nat
        BY Inside DEF ReadData, Ready
      <3> QED
        BY <3>1, <3>2
    <2>2. n = MinOf({count[p], room})
      BY DEF ReadSize
    <2> HIDE DEF n, room
    <2> QED
      BY <2>1, <2>2, MinOfTwo
  <1>2. n \in 0 .. MaxOf(Counts)
    <2>1. \A k \in Counts : k <= MaxOf(Counts)
      BY DEF MaxOf
    <2>2. count[p] \in Counts \cup {0}
      BY DEF TypeOK
    <2>3. count[p] <= MaxOf(Counts)
      <3>1. CASE count[p] \in Counts
        BY <2>1, <3>1
      <3>2. CASE count[p] = 0
        BY <3>2, LargestCount
      <3> QED
        BY <2>2, <3>1, <3>2
    <2> HIDE DEF n, room
    <2> QED
      BY <1>1, <2>3, LargestCount
  <1>3. /\ buffersize \in Nat \ {0} /\ rp \in 0 .. buffersize - 1
        /\ wp \in 0 .. buffersize - 1 /\ rp # wp
    BY Inside DEF ReadData, Ready
  <1>4. /\ rp' = rp + n /\ out' = [i \in 1 .. n |-> mem[rp + i - 1]]
        /\ UNCHANGED <<alloc, buffersize, wp, mem, next>>
    BY DEF ReadData
  <1>5. alloc # NULL
    BY DEF ReadData, Goto, BufferLivesWhileOpen, InCall
  <1> DEFINE h == IF wp >= rp THEN wp - rp ELSE wp - rp + buffersize
             r2 == IF rp + n = buffersize THEN 0 ELSE rp + n
  <1> HIDE DEF n
  <1>6. Wrapped(rp) = rp /\ Wrapped(wp) = wp /\ Wrapped(wp)' = wp /\ Wrapped(rp)' = r2
    BY <1>3, <1>4 DEF Wrapped
  <1>7. Held = h
    BY <1>3, <1>6, HeldBetween DEF Held
  <1>8. /\ h = IF wp >= rp THEN wp - rp ELSE wp - rp + buffersize
        /\ r2 = IF rp + n = buffersize THEN 0 ELSE rp + n
        /\ n \in Nat /\ n <= IF wp > rp THEN wp - rp ELSE buffersize - rp
    BY <1>1
  <1> HIDE DEF h, r2, room
  <1>9. /\ r2 \in 0 .. buffersize - 1 /\ n <= h /\ h \in Nat
        /\ (wp - r2 + buffersize) % buffersize = h - n
        /\ \A i \in 1 .. n : (rp + i - 1) % buffersize = rp + i - 1
        /\ \A i \in 1 .. h - n :
             (r2 + i - 1) % buffersize = (rp + (i + n) - 1) % buffersize
    BY ONLY <1>3, <1>8, ReadArithmetic
  <1>10. Held' = h - n
    BY <1>3, <1>4, <1>6, <1>9 DEF Held
  <1>11. Contents = [i \in 1 .. h |-> mem[(rp + i - 1) % buffersize]]
    BY <1>5, <1>6, <1>7 DEF Contents
  <1>12. Contents' = [i \in 1 .. h - n |-> mem[(r2 + i - 1) % buffersize]]
    BY <1>4, <1>5, <1>6, <1>10 DEF Contents
  <1>13. mem \in [Address -> Bytes] /\ 0 .. buffersize - 1 \subseteq Address /\ h - n \in Nat
    BY <1>1, <1>9, Addresses DEF TypeOK, Bytes
  <1>14. Contents \in Seq(Bytes) /\ Len(Contents) = h
    <2> DEFINE s == [i \in 1 .. h |-> mem[(rp + i - 1) % buffersize]]
    <2>1. s \in Seq(Bytes) /\ Len(s) = h
      BY ONLY <1>3, <1>9, <1>13, HeldBytes
    <2> HIDE DEF s
    <2>2. Contents = s
      BY <1>11 DEF s
    <2> QED
      BY <2>1, <2>2
  <1>15. Contents' \in Seq(Bytes) /\ Len(Contents') = h - n
    BY ONLY <1>3, <1>9, <1>12, <1>13, HeldBytes
  <1>16. out' = SubSeq(Contents, 1, n)
    <2>1. \A i \in 1 .. n : out'[i] = Contents[i]
      BY <1>1, <1>4, <1>9, <1>11
    <2>2. \A i \in 1 .. n : Contents[i] \in Bytes
      BY <1>1, <1>9, <1>14
    <2>3. out' \in Seq(Bytes) /\ Len(out') = n
      BY <1>1, <1>4, <2>1, <2>2
    <2> QED
      BY <1>1, <1>9, <1>14, <2>1, <2>3, FirstOf
  <1>17. Contents' = SubSeq(Contents, n + 1, Len(Contents))
    <2>1. ASSUME NEW i \in 1 .. h - n PROVE Contents'[i] = Contents[i + n]
      <3>1. i + n \in 1 .. h
        BY <1>1, <1>9
      <3>2. Contents[i + n] = mem[(rp + (i + n) - 1) % buffersize]
        BY <1>11, <3>1
      <3>3. Contents'[i] = mem[(r2 + i - 1) % buffersize]
        BY <1>12
      <3> QED
        BY <1>9, <3>2, <3>3
    <2>2. /\ n \in 0 .. Len(Contents) /\ Len(Contents') = Len(Contents) - n
          /\ \A i \in 1 .. Len(Contents') : Contents'[i] = Contents[i + n]
      BY <1>1, <1>9, <1>14, <1>15, <2>1
    <2> QED
      BY ONLY <1>14, <1>15, <2>2, RestOf
  <1> QED
    BY <1>2, <1>4, <1>9, <1>14, <1>16, <1>17 DEF Stream!Next, Stream!Read

LEMMA WriteImplements ==
  ASSUME TypeOK, TypeOK', BufferLivesWhileOpen, PointersWrapped, NEW p \in Procs, WriteData(p)
  PROVE  Stream!Next
  <1> DEFINE n == WriteSize(count[p])
             free == size_t(spacefree)
             room == IF wp >= rp THEN buffersize - wp ELSE rp - wp - 1
  <1>1. /\ count[p] \in Nat /\ count[p] <= MaxOf(Counts) /\ n \in Nat
        /\ n <= count[p] /\ n <= free /\ n <= room
    <2>1. count[p] \in Counts \cup {0}
      BY DEF TypeOK
    <2>2. count[p] \in Nat
      BY ONLY <2>1, CountsAreNumbers, Zenon
    <2>3. count[p] <= MaxOf(Counts)
      <3>1. CASE count[p] \in Counts
        BY <3>1 DEF MaxOf
      <3>2. CASE count[p] = 0
        BY <3>2, LargestCount
      <3> QED
        BY <2>1, <3>1, <3>2
    <2>4. room \in Nat
      BY Inside DEF WriteData
    <2>5. free \in Nat
      BY FreeSpace, LargestCount DEF size_t
    <2>6. n = MinOf({count[p], free, room})
      BY DEF WriteSize
    <2> HIDE DEF n, free, room
    <2> QED
      BY <2>2, <2>3, <2>4, <2>5, <2>6, MinOfThree
  <1>2. n \in 0 .. MaxOf(Counts)
    <2> HIDE DEF n, free, room
    <2> QED
      BY <1>1, LargestCount
  <1>3. /\ rp \in Nat /\ wp \in Nat /\ buffersize \in Nat
        /\ \/ buffersize # 0 /\ rp < buffersize /\ wp < buffersize
           \/ rp = 0 /\ wp = 0 /\ buffersize = 0
    BY Inside DEF WriteData
  <1>4. /\ wp' = wp + n /\ next' = (next + n) % NBytes
        /\ mem' = [a \in Address |->
                     IF a \in wp .. (wp + n - 1) THEN (next + a - wp) % NBytes ELSE mem[a]]
        /\ UNCHANGED <<alloc, buffersize, rp, out>> /\ spacefree # 0
    BY DEF WriteData, Ready
  <1>5. alloc # NULL
    BY DEF WriteData, Goto, BufferLivesWhileOpen, InCall
  <1>6. next \in Bytes
    BY DEF TypeOK, Bytes
  <1> DEFINE new == [i \in 1 .. n |-> (next + i - 1) % NBytes]
  <1>7. new \in Seq(Bytes) /\ Len(new) = n
    <2>1. ASSUME NEW i \in 1 .. n PROVE (next + i - 1) % NBytes \in Bytes
      <3>1. next + i - 1 \in Int
        BY <1>6 DEF Bytes
      <3> QED
        BY <3>1, Modulo DEF Bytes
    <2> HIDE DEF n
    <2> QED
      BY <1>1, <2>1
  <1>8. Stream!Bytes(next, n) = new
    BY DEF Stream!Bytes
  <1>9. CASE buffersize = 0
    <2>1. n = 0 /\ new = <<>>
      BY <1>1, <1>3, <1>9
    <2>2. Held = 0 /\ Held' = 0
      BY <1>4, <1>9 DEF Held
    <2>3. Contents = <<>> /\ Contents' = <<>>
      BY <1>4, <1>5, <2>2 DEF Contents
    <2> HIDE DEF n, new
    <2>4. Contents' = Contents \o Stream!Bytes(next, n)
      BY <1>8, <2>1, <2>3
    <2> QED
      BY <1>2, <1>4, <2>4 DEF Stream!Next, Stream!Write
  <1>10. CASE buffersize # 0
    <2> DEFINE h == IF wp >= rp THEN wp - rp ELSE wp - rp + buffersize
               w2 == IF wp + n = buffersize THEN 0 ELSE wp + n
    <2>1. /\ buffersize \in Nat \ {0} /\ rp \in 0 .. buffersize - 1
          /\ wp \in 0 .. buffersize - 1
      BY <1>3, <1>10
    <2>2. n + h < buffersize
      <3>1. spacefree \in Int /\ spacefree = IF rp > wp THEN rp - wp - 1
                                             ELSE rp + buffersize - wp - 1
        BY <1>3, <1>10, FreeSpace
      <3>2. spacefree = buffersize - 1 - h /\ spacefree >= 0
        BY <2>1, <3>1
      <3>3. free = spacefree
        BY <3>2 DEF size_t
      <3> HIDE DEF n, h, free
      <3>4. h \in Int
        BY <2>1 DEF h
      <3> QED
        BY <1>1, <2>1, <3>2, <3>3, <3>4
    <2>3. /\ h = IF wp >= rp THEN wp - rp ELSE wp - rp + buffersize
          /\ w2 = IF wp + n = buffersize THEN 0 ELSE wp + n
          /\ n \in Nat /\ n <= IF wp >= rp THEN buffersize - wp ELSE rp - wp - 1
          /\ h \in Nat /\ w2 \in 0 .. buffersize - 1
      BY <1>1, <2>1
    <2> HIDE DEF n, free, room
    <2>4. Wrapped(rp) = rp /\ Wrapped(wp) = wp /\ Wrapped(rp)' = rp /\ Wrapped(wp)' = w2
      BY <1>4, <2>1 DEF Wrapped
    <2>5. Held = h
      BY <2>1, <2>4, HeldBetween DEF Held
    <2> HIDE DEF h, w2, new
    <2>6. /\ (w2 - rp + buffersize) % buffersize = h + n
          /\ \A i \in 1 .. h : /\ (rp + i - 1) % buffersize \in 0 .. buffersize - 1
                               /\ (rp + i - 1) % buffersize \notin wp .. (wp + n - 1)
          /\ \A i \in 1 .. n : (rp + (h + i) - 1) % buffersize = wp + i - 1
      BY ONLY <2>1, <2>2, <2>3, WriteArithmetic, SMTT(60)
    <2>7. Held' = h + n /\ h + n \in Nat
      BY <1>4, <2>3, <2>4, <2>6 DEF Held
    <2>8. /\ mem \in [Address -> Bytes] /\ mem' \in [Address -> Bytes]
          /\ 0 .. buffersize - 1 \subseteq Address
      BY <1>4, Addresses DEF TypeOK, Bytes
    <2> DEFINE s == [i \in 1 .. h |-> mem[(rp + i - 1) % buffersize]]
               t == [i \in 1 .. h + n |-> mem'[(rp + i - 1) % buffersize]]
    <2>9. s \in Seq(Bytes) /\ Len(s) = h
      <3>1. /\ mem \in [Address -> Bytes] /\ 0 .. buffersize - 1 \subseteq Address
            /\ h \in Nat
        BY <2>3, <2>8
      <3> QED
        BY ONLY <2>1, <3>1, HeldBytes
    <2>10. t \in Seq(Bytes) /\ Len(t) = h + n
      BY ONLY <2>1, <2>7, <2>8, HeldBytes
    <2>11. ASSUME NEW i \in 1 .. h PROVE t[i] = s[i]
      <3>1. i \in 1 .. h + n
        BY <2>3, <2>6
      <3>2. (rp + i - 1) % buffersize \in Address
            /\ (rp + i - 1) % buffersize \notin wp .. (wp + n - 1)
        BY <2>6, <2>8
      <3>3. mem'[(rp + i - 1) % buffersize] = mem[(rp + i - 1) % buffersize]
        BY <1>4, <3>2
      <3> QED
        BY <3>1, <3>3
    <2>12. ASSUME NEW i \in 1 .. n PROVE t[h + i] = new[i]
      <3>1. h + i \in 1 .. h + n /\ (rp + (h + i) - 1) % buffersize = wp + i - 1
        BY <2>3, <2>6
      <3>2. wp + i - 1 \in wp .. (wp + n - 1) /\ wp + i - 1 \in 0 .. buffersize - 1
        BY <2>1, <2>2, <2>3
      <3>3. mem'[wp + i - 1] = (next + (wp + i - 1) - wp) % NBytes
        BY <1>4, <2>8, <3>2
      <3>4. next + (wp + i - 1) - wp = next + i - 1
        BY <1>6, <2>1 DEF Bytes
      <3>5. t[h + i] = mem'[(rp + (h + i) - 1) % buffersize]
        BY <3>1
      <3> QED
        BY <3>1, <3>3, <3>4, <3>5 DEF new
    <2>13. Contents = s
      BY <1>5, <2>4, <2>5 DEF Contents
    <2>14. Contents' = t
      BY <1>4, <1>5, <2>4, <2>7 DEF Contents
    <2> HIDE DEF s, t
    <2>15. t = s \o new
      <3>1. /\ Len(t) = Len(s) + Len(new)
            /\ \A i \in 1 .. Len(s) : t[i] = s[i]
            /\ \A i \in 1 .. Len(new) : t[Len(s) + i] = new[i]
        BY <1>7, <2>9, <2>10, <2>11, <2>12
      <3> QED
        BY ONLY <1>7, <2>9, <2>10, <3>1, Joined
    <2> QED
      BY <1>2, <1>4, <1>8, <2>13, <2>14, <2>15 DEF Stream!Next, Stream!Write
  <1> QED
    BY <1>9, <1>10

(* To wrap a pointer moves nothing.                                        *)
LEMMA WrapImplements ==
  ASSUME TypeOK, NEW p \in Procs, Wrap(p)
  PROVE  UNCHANGED Stream!vars
  <1>1. Wrapped(Wrapped(rp)) = Wrapped(rp) /\ Wrapped(Wrapped(wp)) = Wrapped(wp)
    BY DEF Wrapped
  <1>2. UNCHANGED <<alloc, buffersize, mem, next, out>>
    BY DEF Wrap, history
  <1>3. Wrapped(rp)' = Wrapped(rp) /\ Wrapped(wp)' = Wrapped(wp)
    BY <1>1, <1>2 DEF Wrap, Wrapped
  <1>4. Held' = Held
    BY <1>2, <1>3 DEF Held
  <1> QED
    BY <1>2, <1>3, <1>4 DEF Contents, Stream!vars

(* Opening, and closing for the last time, discards.                       *)
LEMMA OpenImplements ==
  ASSUME TypeOK, TypeOK', NEW p \in Procs, NEW m \in Modes, NEW nb \in Nonblock, Open(p, m, nb)
  PROVE  Stream!Next
  <1>1. rp' = 0 /\ wp' = 0 /\ UNCHANGED <<next, out>> /\ buffersize' \in Nat
    BY DEF Open, TypeOK
  <1>2. Wrapped(rp)' = 0 /\ Wrapped(wp)' = 0
    BY <1>1 DEF Wrapped
  <1>3. Held' = 0
    BY <1>1, <1>2, NothingHeld DEF Held
  <1>4. Contents' = <<>>
    BY <1>3 DEF Contents
  <1> QED
    BY <1>1, <1>4 DEF Stream!Next, Stream!Discard

LEMMA ReleaseImplements ==
  ASSUME NEW p \in Procs, Release(p)
  PROVE  [Stream!Next]_(Stream!vars)
  <1>1. UNCHANGED <<pointers, mem, next, out>> /\ alloc' \in {alloc, NULL}
    BY DEF Release, history
  <1>2. Held' = Held /\ Wrapped(rp)' = Wrapped(rp)
    BY <1>1 DEF Held, Wrapped, pointers
  <1>3. CASE alloc' = alloc
    BY <1>1, <1>2, <1>3 DEF Contents, Stream!vars, pointers
  <1>4. CASE alloc' = NULL
    BY <1>1, <1>4 DEF Contents, Stream!Next, Stream!Discard
  <1> QED
    BY <1>1, <1>3, <1>4

LEMMA OtherImplements ==
  ASSUME UNCHANGED <<alloc, pointers, mem, next, out>>
  PROVE  UNCHANGED Stream!vars
  BY DEF Contents, Held, Wrapped, Stream!vars, pointers

(* A step of scullpipe is a step of BytePipe, or none.                      *)
LEMMA StepImplements == IInv /\ IInv' /\ [Next]_vars => [Stream!Next]_(Stream!vars)
  <1> SUFFICES ASSUME IInv, IInv', [Next]_vars PROVE [Stream!Next]_(Stream!vars)
    OBVIOUS
  <1>1. TypeOK /\ TypeOK' /\ BufferLivesWhileOpen /\ PointersWrapped
    BY DEF IInv
  <1>2. ASSUME NEW p \in Procs, Kernel(p) PROVE [Stream!Next]_(Stream!vars)
    <2>1. CASE ReadData(p)
      BY <1>1, <2>1, ReadImplements
    <2>2. CASE WriteData(p)
      BY <1>1, <2>2, WriteImplements
    <2>3. CASE Wrap(p)
      BY <1>1, <2>3, WrapImplements
    <2>4. CASE NotReady(p) \/ Wake(p) \/ Prepare(p) \/ Test(p) \/ WakeUp(p) \/ Poll(p)
               \/ Selected(p)
      <3>1. UNCHANGED <<alloc, pointers, mem, next, out>>
        BY <2>4 DEF NotReady, Wake, Prepare, Test, WakeUp, Poll, Selected, history
      <3> QED
        BY <3>1, OtherImplements
    <2> QED
      BY <1>2, <2>1, <2>2, <2>3, <2>4 DEF Kernel
  <1>3. ASSUME NEW p \in Procs, User(p) PROVE [Stream!Next]_(Stream!vars)
    <2>1. CASE \E m \in Modes, nb \in Nonblock : Open(p, m, nb)
      BY <1>1, <2>1, OpenImplements
    <2>2. CASE Release(p)
      BY <2>2, ReleaseImplements
    <2>3. CASE \/ \E on \in BOOLEAN : Fasync(p, on)
               \/ \E n \in IoctlSizes : IoctlSize(p, n)
               \/ \E s \in {"r", "w"}, n \in Counts : Call(p, s, n)
               \/ \E s \in {"r", "w"} : Select(p, s)
               \/ Fault(p) \/ Interrupt(p)
      <3>1. UNCHANGED <<alloc, pointers, mem, next, out>>
        BY <2>3 DEF Fasync, IoctlSize, Call, Select, Fault, Interrupt, history
      <3> QED
        BY <3>1, OtherImplements
    <2> QED
      BY <1>3, <2>1, <2>2, <2>3 DEF User
  <1>4. CASE UNCHANGED vars
    <2>1. UNCHANGED <<alloc, pointers, mem, next, out>>
      BY <1>4 DEF vars, history
    <2> QED
      BY <2>1, OtherImplements
  <1> QED
    BY <1>2, <1>3, <1>4 DEF Next

LEMMA StartImplements == Init => Stream!Init
  BY DEF Init, Stream!Init, Contents

(* The ring of scullpipe, its sleeping and waking and its calls that fail  *)
(* half way are a first-in first-out stream of bytes, for any size of the  *)
(* buffer and any number of readers and writers (scull.c:1362-1508).       *)
THEOREM Refinement == Spec => ImplementsBytePipe
  BY StartImplements, StepImplements, Invariant, PTL DEF Spec, ImplementsBytePipe, Stream!Spec

(* The part where the bytes are told apart: two of the processes use the   *)
(* device, and the others are as they were.                                *)
LEMMA PartInvariant == PartSpec => [](part = "two" => IInv)
  <1>1. PartInit => (part = "two" => IInv)
    BY InitInvariant DEF PartInit
  <1>2. (part = "two" => IInv) /\ [PartNext]_<<vars, part>> => (part = "two" => IInv)'
    <2> SUFFICES ASSUME part = "two" => IInv, [PartNext]_<<vars, part>>, part' = "two"
                 PROVE  IInv'
      OBVIOUS
    <2>1. part = "two" /\ [Next]_vars
      BY PartAssumption DEF PartAssumption, PartNext, Next
    <2> QED
      BY <2>1, StepInvariant
  <1> QED
    BY <1>1, <1>2, PTL DEF PartSpec

(* The same of the instance that is checked, in the part where the bytes   *)
(* are told apart: what two processes write to and read from scullpipe is  *)
(* a first-in first-out stream (scull.c:1362-1508), whichever two they are *)
(* of any number, and for any size of the buffer.                          *)
THEOREM TwoRefine == PartSpec => TwoImplementBytePipe
  <1>1. PartInit => Stream!Init
    BY StartImplements DEF PartInit
  <1>2. /\ part = "two" => IInv
        /\ (part = "two" => IInv)'
        /\ [PartNext]_<<vars, part>>
        => [part = "two" => Stream!Next]_(Stream!vars)
    <2> SUFFICES ASSUME part = "two" => IInv, (part = "two" => IInv)',
                        [PartNext]_<<vars, part>>, part = "two"
                 PROVE  [Stream!Next]_(Stream!vars)
      OBVIOUS
    <2>1. part' = "two" /\ [Next]_vars
      BY PartAssumption DEF PartAssumption, PartNext, Next
    <2> QED
      BY <2>1, StepImplements
  <1> QED
    BY <1>1, <1>2, PartInvariant, PTL DEF PartSpec, TwoImplementBytePipe
=============================================================================
