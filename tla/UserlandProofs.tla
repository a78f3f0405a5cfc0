--------------------------- MODULE UserlandProofs ---------------------------
(***************************************************************************)
(* That what MCUserland checks on small instances holds for all: of the    *)
(* counters for any threads and iterations, of fork.c, of the program that *)
(* embeds Python for any arguments, attributes and values of attributes,   *)
(* of the timer for any interrupts, and of the drawing program for any     *)
(* card.  Each part has an inductive invariant, IInv of its module: it     *)
(* holds at the start (X Init), each step of the part keeps it (X Step),   *)
(* and the properties follow from it (X Safe).  A behaviour of             *)
(* ProgramsSpec is one of each part (ProgramsParts), so what is proved of  *)
(* a part holds of the whole.                                              *)
(***************************************************************************)
EXTENDS MCUserland, SequenceTheorems, FiniteSetTheorems, WellFoundedInduction, TLAPS

USE ArgumentsAssumption DEF ArgumentsAssumption

-----------------------------------------------------------------------------
(* The atomic counters.                                                    *)

(* There are finitely many increments.                                     *)
LEMMA AtomicFinite ==
  \A S \in SUBSET (Threads \X (0 .. niters)) : IsFiniteSet(S) /\ Cardinality(S) \in Nat
  <1>1. IsFiniteSet(Threads) /\ IsFiniteSet(0 .. niters)
    BY FS_Interval DEF Threads
  <1>2. IsFiniteSet(Threads \X (0 .. niters))
    BY <1>1, FS_Product
  <1> QED
    BY <1>2, FS_Subset, FS_CardinalityType

(* There are n numbers below n.                                            *)
LEMMA NumbersBelow ==
  ASSUME NEW m \in Nat
  PROVE  IsFiniteSet(0 .. m - 1) /\ Cardinality(0 .. m - 1) = m
  <1>1. 0 \in Int /\ m - 1 \in Int
    OBVIOUS
  <1>2. /\ IsFiniteSet(0 .. m - 1)
        /\ Cardinality(0 .. m - 1) = IF 0 > m - 1 THEN 0 ELSE (m - 1) - 0 + 1
    BY ONLY <1>1, FS_Interval
  <1> QED
    BY <1>2

LEMMA AtomicInit == Init => IInv
  <1> SUFFICES ASSUME Init PROVE IInv
    OBVIOUS
  <1>1. 0 \in Threads /\ 0 \in 0 .. niters
    BY DEF Threads
  <1>2. TypeOK
    <2>1. main \in {"create", "join"} \X Threads
      BY <1>1 DEF Init
    <2> QED
      BY <1>1, <2>1 DEF Init, TypeOK
  <1>3. Progress
    <2>1. \A t \in Threads : t >= 0
      BY DEF Threads
    <2> QED
      BY <2>1 DEF Init, Progress, Started, WaitedFor, Threads
  <1>4. Exclusion
    BY DEF Init, Exclusion
  <1>5. \A t \in Threads : Stored(t) = 0
    BY DEF Init, Stored
  <1>6. Counted
    <2>1. Added = {}
      BY <1>5 DEF Added
    <2>2. Cardinality(Added) = 0
      BY <2>1, FS_EmptySet
    <2> QED
      BY <2>2 DEF Init, Counted
  <1>7. TwoSurvive
    BY <1>1, <1>5 DEF Init, TwoSurvive
  <1> QED
    BY <1>2, <1>3, <1>4, <1>6, <1>7 DEF IInv

-----------------------------------------------------------------------------
(* Types, the phases of main and of the threads, and who excludes whom.    *)

LEMMA AtomicMain ==
  ASSUME TypeOK, Create \/ Join
  PROVE  /\ main[2] \in Threads /\ main'[2] \in Threads \cup {0}
         /\ main' \in ({"create", "join"} \X Threads) \cup {<<"assert", 0>>}
  <1>1. main[2] \in Threads /\ main[2] \in Int
    BY DEF TypeOK, Create, Join, Threads
  <1>2. 0 \in Threads /\ (main[2] + 1 # nthreads => main[2] + 1 \in Threads)
    BY <1>1 DEF Threads
  <1>3. main' \in {<<"join", 0>>, <<"assert", 0>>} \/
        (main[2] + 1 # nthreads /\ main' \in {<<"create", main[2] + 1>>, <<"join", main[2] + 1>>})
    BY DEF Create, Join
  <1> QED
    BY <1>1, <1>2, <1>3

LEMMA AtomicTypes == TypeOK /\ Progress /\ Next => TypeOK'
  <1> SUFFICES ASSUME TypeOK, Progress, Next PROVE TypeOK'
    OBVIOUS
  <1> USE DEF TypeOK
  <1>1. CASE Create
    <2>1. main[2] \in Threads /\ main' \in ({"create", "join"} \X Threads) \cup {<<"assert", 0>>}
      BY <1>1, AtomicMain
    <2> QED
      BY <1>1, <2>1 DEF Create
  <1>2. CASE Join
    <2>1. main' \in ({"create", "join"} \X Threads) \cup {<<"assert", 0>>}
      BY <1>2, AtomicMain
    <2> QED
      BY <1>2, <2>1 DEF Join
  <1>3. ASSUME NEW t \in Threads, Work(t) PROVE TypeOK'
    <2>1. CASE Loop(t)
      BY <2>1 DEF Loop, Goto
    <2>2. CASE Lock(t)
      BY <2>2 DEF Lock, Goto
    <2>3. CASE AtomicInc(t)
      BY <2>3 DEF AtomicInc, Goto
    <2>4. CASE Load(t)
      BY <2>4 DEF Load, Goto
    <2>5. CASE Store(t)
      BY <2>5 DEF Store, Goto
    <2>6. CASE Again(t)
      BY <2>6 DEF Again, Goto
    <2>7. CASE Unlock(t)
      <3>1. iter[t] + 1 \in 0 .. niters
        BY <2>7 DEF Unlock, Progress
      <3> QED
        BY <2>7, <3>1 DEF Unlock, Goto
    <2> QED
      BY <1>3, <2>1, <2>2, <2>3, <2>4, <2>5, <2>6, <2>7 DEF Work
  <1> QED
    BY <1>1, <1>2, <1>3 DEF Next

LEMMA AtomicProgress == TypeOK /\ Progress /\ Next => Progress'
  <1> SUFFICES ASSUME TypeOK, Progress, Next, NEW u \in Threads
               PROVE  /\ (thread'[u] = "none" <=> ~Started(u)')
                      /\ (thread'[u] = "none" => iter'[u] = 0)
                      /\ (thread'[u] \in {"lock", "load", "store", "unlock"} => iter'[u] < niters)
                      /\ (thread'[u] = "gone" => iter'[u] = niters)
                      /\ (WaitedFor(u)' => thread'[u] = "gone")
    BY DEF Progress
  <1> USE DEF TypeOK
  <1>1. u \in Int /\ u >= 0 /\ u < nthreads
    BY DEF Threads
  <1>2. CASE Create
    <2>1. main[2] \in Threads /\ main[2] \in Int
      BY <1>2, AtomicMain DEF Threads
    <2>2. Started(u)' <=> u < main[2] + 1
      BY <1>1, <1>2, <2>1 DEF Create, Started
    <2>3. WaitedFor(u)' => main' = <<"join", 0>> /\ u < 0
      BY <1>1, <1>2, <2>1 DEF Create, WaitedFor
    <2>4. ~WaitedFor(u)'
      BY <1>1, <2>3
    <2>5. Started(u) <=> u < main[2]
      BY <1>2 DEF Create, Started
    <2> QED
      BY <1>1, <1>2, <2>1, <2>2, <2>4, <2>5 DEF Create, Progress
  <1>3. CASE Join
    <2>1. main[2] \in Threads /\ main[2] \in Int
      BY <1>3, AtomicMain DEF Threads
    <2>2. Started(u)' /\ Started(u)
      BY <1>3 DEF Join, Started
    <2>3. WaitedFor(u)' => WaitedFor(u) \/ u = main[2]
      BY <1>1, <1>3, <2>1 DEF Join, WaitedFor
    <2> QED
      BY <1>3, <2>2, <2>3 DEF Join, Joined, Progress
  <1>4. ASSUME NEW t \in Threads, Work(t)
        PROVE  /\ (thread'[u] = "none" <=> ~Started(u)')
               /\ (thread'[u] = "none" => iter'[u] = 0)
               /\ (thread'[u] \in {"lock", "load", "store", "unlock"} => iter'[u] < niters)
               /\ (thread'[u] = "gone" => iter'[u] = niters)
               /\ (WaitedFor(u)' => thread'[u] = "gone")
    <2>1. main' = main /\ Started(u)' = Started(u) /\ WaitedFor(u)' = WaitedFor(u)
      BY <1>4 DEF Work, Loop, Lock, AtomicInc, Load, Store, Again, Unlock, Started, WaitedFor
    <2>2. thread[t] \notin {"none", "gone"}
      BY <1>4 DEF Work, Loop, Lock, AtomicInc, Load, Store, Again, Unlock
    <2>3. u # t => thread'[u] = thread[u] /\ iter'[u] = iter[u]
      BY <1>4 DEF Work, Loop, Lock, AtomicInc, Load, Store, Again, Unlock, Goto
    <2>4. /\ thread'[t] \in {"lock", "load", "store", "unlock"} => iter'[t] < niters
          /\ thread'[t] = "gone" => iter'[t] = niters
          /\ thread'[t] # "none"
      <3>1. CASE Loop(t)
        BY <3>1 DEF Loop, Goto
      <3>2. CASE Unlock(t)
        BY <3>2 DEF Unlock, Goto
      <3> QED
        BY <1>4, <3>1, <3>2 DEF Work, Lock, AtomicInc, Load, Store, Again, Goto, Progress
    <2> QED
      BY <2>1, <2>2, <2>3, <2>4 DEF Progress
  <1> QED
    BY <1>2, <1>3, <1>4 DEF Next

LEMMA AtomicExclusion == TypeOK /\ Exclusion /\ Next => Exclusion'
  <1> SUFFICES ASSUME TypeOK, Exclusion, Next PROVE Exclusion'
    OBVIOUS
  <1> USE DEF TypeOK
  <1>1. Locks' = Locks /\ OneStep' = OneStep
    BY DEF Next, Create, Join, Work, Loop, Lock, AtomicInc, Load, Store, Again, Unlock,
           Locks, OneStep
  <1>2. CASE Create
    BY <1>1, <1>2, AtomicMain DEF Create, Exclusion
  <1>3. CASE Join
    BY <1>1, <1>3 DEF Join, Exclusion
  <1>4. ASSUME NEW t \in Threads, Work(t) PROVE Exclusion'
    <2>1. CASE Loop(t) \/ AtomicInc(t) \/ Store(t) \/ Again(t)
      BY <1>1, <2>1 DEF Loop, AtomicInc, Store, Again, Goto, Exclusion
    <2>2. CASE Lock(t)
      <3>1. Nobody \notin Threads
        BY DEF Nobody, Threads
      <3> QED
        BY <1>1, <2>2, <3>1 DEF Lock, Goto, Exclusion
    <2>3. CASE Load(t)
      BY <1>1, <2>3 DEF Load, Goto, Exclusion
    <2>4. CASE Unlock(t)
      BY <1>1, <2>4 DEF Unlock, Goto, Exclusion
    <2> QED
      BY <1>4, <2>1, <2>2, <2>3, <2>4 DEF Work
  <1> QED
    BY <1>2, <1>3, <1>4 DEF Next

-----------------------------------------------------------------------------
(* The increments that were made.                                          *)

LEMMA AtomicStored ==
  ASSUME TypeOK, NEW t \in Threads
  PROVE  Stored(t) \in Nat
  BY DEF TypeOK, Stored

LEMMA AtomicSame ==
  ASSUME \A t \in Threads : Stored(t)' = Stored(t)
  PROVE  Added' = Added
  BY DEF Added

(* A store puts one more element in Added.                                 *)
LEMMA AtomicOneMore ==
  ASSUME TypeOK, NEW t \in Threads, Stored(t) <= niters,
         Stored(t)' = Stored(t) + 1, \A u \in Threads \ {t} : Stored(u)' = Stored(u)
  PROVE  Cardinality(Added') = Cardinality(Added) + 1
  <1> DEFINE a == <<t, Stored(t)>>
  <1>0. Stored(t) \in Nat
    BY AtomicStored
  <1>1. a \in Threads \X (0 .. niters) /\ a \notin Added
    BY <1>0 DEF Added
  <1>2. Added' = Added \cup {a}
    <2>1. ASSUME NEW b \in Threads \X (0 .. niters)
          PROVE  b \in Added' <=> b \in Added \/ b = a
      <3>1. b \in Added' <=> b[2] < Stored(b[1])'
        BY DEF Added
      <3>2. b \in Added <=> b[2] < Stored(b[1])
        BY DEF Added
      <3>3. CASE b[1] = t
        <4>1. Stored(b[1])' = Stored(t) + 1 /\ Stored(b[1]) = Stored(t)
          BY <3>3
        <4>2. b[2] < Stored(t) + 1 <=> b[2] < Stored(t) \/ b[2] = Stored(t)
          BY <1>0
        <4> QED
          BY <3>1, <3>2, <3>3, <4>1, <4>2
      <3>4. CASE b[1] # t
        BY <3>1, <3>2, <3>4
      <3> QED
        BY <3>3, <3>4
    <2> QED
      BY <1>1, <2>1 DEF Added
  <1>3. IsFiniteSet(Added)
    BY AtomicFinite DEF Added
  <1> QED
    BY <1>1, <1>2, <1>3, FS_AddElement

(* Which steps store, and what.                                            *)
LEMMA AtomicQuiet ==
  ASSUME TypeOK, Progress,
         \/ Create \/ Join
         \/ \E t \in Threads : Loop(t) \/ Lock(t) \/ Load(t) \/ Again(t) \/ Unlock(t)
  PROVE  /\ \A u \in Threads : Stored(u)' = Stored(u)
         /\ UNCHANGED <<lang, method, global>>
  <1> USE DEF TypeOK
  <1>1. CASE Create
    <2>1. main[2] \in Threads
      BY <1>1, AtomicMain
    <2>2. thread[main[2]] = "none"
      <3>1. ~Started(main[2])
        BY <1>1, <2>1 DEF Create, Started, Threads
      <3> QED
        BY <2>1, <3>1 DEF Progress
    <2>3. thread' = [thread EXCEPT ![main[2]] = "loop"] /\ UNCHANGED <<lang, method, global, iter>>
      BY <1>1 DEF Create
    <2> QED
      BY <2>1, <2>2, <2>3 DEF Stored
  <1>2. CASE Join
    BY <1>2 DEF Join, Stored
  <1>3. ASSUME NEW t \in Threads, Loop(t) \/ Lock(t) \/ Load(t) \/ Again(t)
        PROVE  /\ \A u \in Threads : Stored(u)' = Stored(u)
               /\ UNCHANGED <<lang, method, global>>
    BY <1>3 DEF Loop, Lock, Load, Again, Goto, Stored
  <1>4. ASSUME NEW t \in Threads, Unlock(t)
        PROVE  /\ \A u \in Threads : Stored(u)' = Stored(u)
               /\ UNCHANGED <<lang, method, global>>
    BY <1>4 DEF Unlock, Goto, Stored
  <1> QED
    BY <1>1, <1>2, <1>3, <1>4

LEMMA AtomicStores ==
  ASSUME TypeOK, Progress, NEW t \in Threads, AtomicInc(t) \/ Store(t)
  PROVE  /\ Stored(t) \in Nat /\ Stored(t) < niters
         /\ Stored(t)' = Stored(t) + 1 /\ thread'[t] = "unlock"
         /\ \A u \in Threads \ {t} : /\ Stored(u)' = Stored(u)
                                     /\ thread'[u] = thread[u]
         /\ UNCHANGED <<lang, method, scratch64>>
  BY DEF TypeOK, Progress, AtomicInc, Store, Goto, Stored

(* Who is about to store in a build that is exact has the last value.      *)
LEMMA AtomicFresh ==
  ASSUME TypeOK, Progress, Exclusion, Counted, Exact, NEW t \in Threads, Store(t),
         NEW u \in Threads \ {t}, thread[u] = "store"
  PROVE  ~MayStore(u)'
  <1> USE DEF TypeOK
  <1>1. nthreads # 1
    BY DEF Threads
  <1>2. CASE method = "MUTEX"
    <2>1. mutex = t /\ mutex = u
      BY <1>1, <1>2 DEF Exact, Exclusion, Store
    <2> QED
      BY <2>1
  <1>3. CASE method = "LDAXR_STLXR"
    BY <1>3 DEF Store, MayStore
  <1>4. CASE method \in Atomic
    BY <1>4 DEF Exclusion, OneStep
  <1> QED
    BY <1>1, <1>2, <1>3, <1>4 DEF Exact, Methods, Fails, Atomic

LEMMA AtomicCounted ==
  ASSUME TypeOK, TypeOK', Progress, Exclusion, Counted, Next
  PROVE  Counted'
  <1> USE DEF TypeOK
  <1>0. Cardinality(Added) \in Nat
    BY AtomicFinite DEF Added
  <1>1. CASE Create \/ Join
    <2>1. Added' = Added /\ UNCHANGED <<lang, method, global>>
      BY <1>1, AtomicQuiet, AtomicSame
    <2>2. ASSUME NEW u \in Threads, thread'[u] = "store"
          PROVE  thread[u] = "store" /\ scratch64'[u] = scratch64[u] /\ MayStore(u)' = MayStore(u)
      BY <1>1, <2>2, AtomicMain DEF Create, Join, MayStore
    <2> QED
      BY <2>1, <2>2 DEF Counted, Exact, Locks
  <1>2. ASSUME NEW t \in Threads, Loop(t) \/ Lock(t) \/ Again(t) \/ Unlock(t) PROVE Counted'
    <2>1. Added' = Added /\ UNCHANGED <<lang, method, global>>
      BY <1>2, AtomicQuiet, AtomicSame
    <2>2. ASSUME NEW u \in Threads, thread'[u] = "store"
          PROVE  /\ thread[u] = "store" /\ scratch64'[u] = scratch64[u]
                 /\ MayStore(u)' => MayStore(u)
      BY <1>2, <2>2 DEF Loop, Lock, Again, Unlock, Goto, MayStore
    <2> QED
      BY <2>1, <2>2 DEF Counted, Exact, Locks
  <1>3. ASSUME NEW t \in Threads, Load(t) PROVE Counted'
    <2>1. Added' = Added /\ UNCHANGED <<lang, method, global>>
      BY <1>3, AtomicQuiet, AtomicSame
    <2>2. scratch64'[t] = global
      BY <1>3 DEF Load
    <2>3. ASSUME NEW u \in Threads \ {t}, thread'[u] = "store"
          PROVE  /\ thread[u] = "store" /\ scratch64'[u] = scratch64[u]
                 /\ MayStore(u)' => MayStore(u)
      BY <1>3, <2>3 DEF Load, Goto, MayStore
    <2> QED
      BY <2>1, <2>2, <2>3 DEF Counted, Exact, Locks
  <1>4. ASSUME NEW t \in Threads, AtomicInc(t) PROVE Counted'
    <2>1. Cardinality(Added') = Cardinality(Added) + 1
      BY <1>4, AtomicStores, AtomicOneMore
    <2>2. global' = global + 1 /\ OneStep /\ UNCHANGED <<lang, method>>
      BY <1>4 DEF AtomicInc
    <2>3. \A u \in Threads : thread'[u] # "store"
      BY <1>4, <2>2, AtomicStores DEF Exclusion
    <2> QED
      BY <1>0, <2>1, <2>2, <2>3 DEF Counted, Exact, Locks
  <1>5. ASSUME NEW t \in Threads, Store(t) PROVE Counted'
    <2>1. Cardinality(Added') = Cardinality(Added) + 1
      BY <1>5, AtomicStores, AtomicOneMore
    <2>2. /\ thread[t] = "store" /\ MayStore(t) /\ global' = scratch64[t] + 1
          /\ UNCHANGED <<lang, method, scratch64>>
      BY <1>5 DEF Store
    <2>3. /\ thread'[t] = "unlock"
          /\ \A u \in Threads \ {t} : thread'[u] = thread[u]
      BY <1>5, AtomicStores
    <2>4. Exact' = Exact
      BY <2>2 DEF Exact, Locks
    <2>5. global' <= Cardinality(Added') /\ (Exact => global' = Cardinality(Added'))
      BY <1>0, <2>1, <2>2 DEF Counted
    <2>6. ASSUME NEW u \in Threads, thread'[u] = "store"
          PROVE  scratch64'[u] <= Cardinality(Added')
      BY <1>0, <2>1, <2>2, <2>3, <2>6 DEF Counted
    <2>7. ASSUME Exact, NEW u \in Threads, thread'[u] = "store" PROVE ~MayStore(u)'
      BY <1>5, <2>3, <2>7, AtomicFresh
    <2> QED
      BY <2>4, <2>5, <2>6, <2>7 DEF Counted
  <1> QED
    BY <1>1, <1>2, <1>3, <1>4, <1>5 DEF Next, Work

LEMMA AtomicTwo ==
  ASSUME TypeOK, TypeOK', Progress, TwoSurvive, Next
  PROVE  TwoSurvive'
  <1> USE DEF TypeOK
  <1>1. CASE Create \/ Join
    <2>1. (\A u \in Threads : Stored(u)' = Stored(u)) /\ UNCHANGED global
      BY <1>1, AtomicQuiet
    <2>2. ASSUME NEW u \in Threads, thread'[u] = "store"
          PROVE  thread[u] = "store" /\ scratch64'[u] = scratch64[u]
      BY <1>1, <2>2, AtomicMain DEF Create, Join
    <2> QED
      BY <2>1, <2>2 DEF TwoSurvive
  <1>2. ASSUME NEW t \in Threads, Loop(t) \/ Lock(t) \/ Load(t) \/ Again(t) \/ Unlock(t)
        PROVE  TwoSurvive'
    <2>1. (\A u \in Threads : Stored(u)' = Stored(u)) /\ UNCHANGED global
      BY <1>2, AtomicQuiet
    <2>2. ASSUME NEW u \in Threads, thread'[u] = "store"
          PROVE  \/ thread[u] = "store" /\ scratch64'[u] = scratch64[u]
                 \/ scratch64'[u] = global
      BY <1>2, <2>2 DEF Loop, Lock, Load, Again, Unlock, Goto
    <2> QED
      BY <2>1, <2>2 DEF TwoSurvive
  <1>3. ASSUME NEW t \in Threads, AtomicInc(t) \/ Store(t) PROVE TwoSurvive'
    <2>1. /\ Stored(t) \in Nat /\ Stored(t)' = Stored(t) + 1 /\ thread'[t] = "unlock"
          /\ \A u \in Threads \ {t} : Stored(u)' = Stored(u) /\ thread'[u] = thread[u]
          /\ UNCHANGED scratch64
      BY <1>3, AtomicStores
    <2>2. global' \in Nat /\ global' >= 1 /\ (Stored(t) >= 1 => global' >= 2)
      BY <1>3, <2>1 DEF AtomicInc, Store, TwoSurvive
    <2>3. global' >= 2 \/ Stored(t)' <= 1
      BY <2>1, <2>2
    <2>4. ASSUME NEW u \in Threads, thread'[u] = "store", Stored(u)' >= 1
          PROVE  scratch64'[u] >= 1
      BY <2>1, <2>4 DEF TwoSurvive
    <2> QED
      BY <2>2, <2>3, <2>4 DEF TwoSurvive
  <1> QED
    BY <1>1, <1>2, <1>3 DEF Next, Work

LEMMA AtomicStep == IInv /\ [Next]_atomicvars => IInv'
  <1>1. CASE Next
    BY <1>1, AtomicTypes, AtomicProgress, AtomicExclusion, AtomicCounted, AtomicTwo DEF IInv
  <1>2. CASE UNCHANGED atomicvars
    <2>1. \A t \in Threads : Stored(t)' = Stored(t)
      BY <1>2 DEF atomicvars, Stored
    <2>2. Added' = Added
      BY <2>1, AtomicSame
    <2> QED
      BY <1>2, <2>1, <2>2
         DEF atomicvars, IInv, TypeOK, Progress, Started, WaitedFor, Exclusion, Locks, OneStep,
             Counted, Exact, MayStore, TwoSurvive
  <1> QED
    BY <1>1, <1>2

(* At the assert every thread has done all its rounds.                     *)
LEMMA AtomicSafe == IInv => GlobalAtEnd
  <1> SUFFICES ASSUME IInv, main[1] = "assert"
               PROVE  IF method \notin Fails /\ (method = "MUTEX" => Locks) THEN global = Expect
                      ELSE /\ global <= Expect
                           /\ global >= (IF nthreads = 1 \/ niters < 2 THEN niters ELSE 2)
    BY DEF GlobalAtEnd
  <1> USE DEF IInv, TypeOK
  <1>1. \A t \in Threads : Stored(t) = niters
    BY DEF Progress, WaitedFor, Stored
  <1>2. Added = (0 .. nthreads - 1) \X (0 .. niters - 1)
    BY <1>1 DEF Added, Threads
  <1>3. /\ IsFiniteSet(0 .. nthreads - 1) /\ Cardinality(0 .. nthreads - 1) = nthreads
        /\ IsFiniteSet(0 .. niters - 1) /\ Cardinality(0 .. niters - 1) = niters
    BY NumbersBelow
  <1>4. Cardinality(Added) = Expect
    BY ONLY <1>2, <1>3, FS_Product DEF Expect
  <1>5. Exact => global = Expect
    BY <1>4 DEF Counted
  <1>6. nthreads = 1 => Expect = niters
    BY DEF Expect
  <1>7. global >= (IF nthreads = 1 \/ niters < 2 THEN niters ELSE 2)
    <2>1. CASE nthreads = 1
      BY <1>5, <1>6, <2>1 DEF Exact
    <2>2. CASE nthreads # 1 /\ niters >= 2
      BY <1>1, <2>2 DEF TwoSurvive
    <2>3. CASE nthreads # 1 /\ niters = 1
      <3>1. 0 \in Threads
        BY DEF Threads
      <3> QED
        BY <1>1, <2>3, <3>1 DEF TwoSurvive
    <2>4. CASE nthreads # 1 /\ niters = 0
      BY <2>4
    <2> QED
      BY <2>1, <2>2, <2>3, <2>4
  <1> QED
    BY <1>4, <1>5, <1>7 DEF Exact, Counted

-----------------------------------------------------------------------------
(* fork: every line is in one place.                                       *)

LEMMA AppendedLine ==
  ASSUME NEW s \in Seq(Forks!Lines), NEW line \in Forks!Lines
  PROVE  /\ Append(s, line) \in Seq(Forks!Lines)
         /\ DOMAIN Append(s, line) = 1 .. Len(s) + 1 /\ DOMAIN s = 1 .. Len(s)
         /\ \A k \in DOMAIN s : Append(s, line)[k] = s[k]
         /\ Append(s, line)[Len(s) + 1] = line
  BY AppendProperties, LenProperties

(* What is printed stays in the one place where it is put.                 *)
LEMMA ForkPrint ==
  ASSUME Forks!IInv, NEW p \in Forks!Procs, NEW msg \in Forks!Messages,
         Forks!print_pid(p, msg), UNCHANGED tty,
         <<p, msg>> \notin Forks!Said, <<p, msg>> \in Forks!Said',
         Forks!Said \subseteq Forks!Said',
         p = "child" => <<"parent", "after_wait">> \notin Forks!Said
  PROVE  /\ stdout' \in [Forks!Procs -> Seq(Forks!Lines)] /\ output' \in Seq(Forks!Lines)
         /\ Forks!Printed' /\ Forks!OnePlace' /\ Forks!NothingTwice' /\ Forks!ChildIsFirst'
  <1> DEFINE line == <<p, msg>>
  <1> USE DEF Forks!IInv
  <1>0. /\ line \in Forks!Lines /\ output \in Seq(Forks!Lines)
        /\ stdout \in [Forks!Procs -> Seq(Forks!Lines)]
    BY DEF Forks!TypeOK, Forks!Lines
  <1>1. /\ \A q \in Forks!Procs : \A k \in DOMAIN stdout[q] : stdout[q][k] # line
        /\ \A k \in DOMAIN output : output[k] # line
    BY DEF Forks!Printed
  <1>2. CASE tty
    <2>1. output' = Append(output, line) /\ stdout' = stdout
      BY <1>2 DEF Forks!print_pid
    <2>2. /\ output' \in Seq(Forks!Lines) /\ DOMAIN output' = 1 .. Len(output) + 1
          /\ DOMAIN output = 1 .. Len(output) /\ Len(output) \in Nat
          /\ \A k \in DOMAIN output : output'[k] = output[k]
          /\ output'[Len(output) + 1] = line
      BY <1>0, <2>1, AppendedLine, LenProperties
    <2>3. ASSUME NEW k \in DOMAIN output'
          PROVE  \/ k \in DOMAIN output /\ output'[k] = output[k]
                 \/ k = Len(output) + 1 /\ output'[k] = line
      BY <2>2
    <2>4. Forks!NothingTwice'
      BY <1>1, <2>3 DEF Forks!NothingTwice, Forks!IsInjective
    <2>5. Forks!OnePlace'
      BY <1>1, <2>1, <2>3 DEF Forks!OnePlace
    <2>6. Forks!Printed'
      <3>1. ASSUME NEW q \in Forks!Procs, NEW k \in DOMAIN stdout'[q]
            PROVE  stdout'[q][k][1] = q /\ stdout'[q][k] \in Forks!Said'
        <4>1. stdout[q][k] \in Forks!Lines
          BY <1>0, <2>1, ElementOfSeq, LenProperties
        <4> QED
          BY <2>1, <3>1, <4>1 DEF Forks!Printed, Forks!Lines
      <3>2. ASSUME NEW k \in DOMAIN output' PROVE output'[k] \in Forks!Said'
        <4>1. CASE k \in DOMAIN output
          <5>1. output[k] \in Forks!Lines
            BY <1>0, <4>1, ElementOfSeq, LenProperties
          <5> QED
            BY <2>2, <4>1, <5>1 DEF Forks!Printed, Forks!Lines
        <4>2. CASE output'[k] = line
          BY <4>2
        <4> QED
          BY <2>3, <4>1, <4>2
      <3> QED
        BY <3>1, <3>2 DEF Forks!Printed
    <2>7. Forks!ChildIsFirst'
      <3> SUFFICES ASSUME NEW j \in DOMAIN output', NEW k \in DOMAIN output',
                          output'[j] = <<"parent", "after_wait">>, output'[k][1] = "child"
                   PROVE  k < j
        BY DEF Forks!ChildIsFirst
      <3>1. CASE k \in DOMAIN output /\ j \in DOMAIN output
        BY <2>2, <3>1 DEF Forks!ChildIsFirst
      <3>2. CASE k \in DOMAIN output /\ j = Len(output) + 1
        BY <2>2, <3>2
      <3>3. CASE k = Len(output) + 1
        <4>1. p = "child"
          BY <2>2, <3>3
        <4>2. j \in DOMAIN output /\ output[j] = <<"parent", "after_wait">>
          BY <2>3, <4>1
        <4> QED
          BY <4>1, <4>2 DEF Forks!Printed
      <3> QED
        BY <2>3, <3>1, <3>2, <3>3
    <2> QED
      BY <1>0, <2>1, <2>2, <2>4, <2>5, <2>6, <2>7
  <1>3. CASE ~tty
    <2>1. output' = output /\ stdout' = [stdout EXCEPT ![p] = Append(stdout[p], line)]
      BY <1>3 DEF Forks!print_pid
    <2>2. /\ stdout[p] \in Seq(Forks!Lines) /\ Len(stdout[p]) \in Nat
          /\ DOMAIN stdout[p] = 1 .. Len(stdout[p])
      BY <1>0, LenProperties
    <2>3. /\ stdout'[p] \in Seq(Forks!Lines) /\ DOMAIN stdout'[p] = 1 .. Len(stdout[p]) + 1
          /\ \A k \in DOMAIN stdout[p] : stdout'[p][k] = stdout[p][k]
          /\ stdout'[p][Len(stdout[p]) + 1] = line
          /\ \A q \in Forks!Procs \ {p} : stdout'[q] = stdout[q]
      <3>1. stdout'[p] = Append(stdout[p], line)
        BY <1>0, <2>1
      <3> QED
        BY <1>0, <2>1, <2>2, <3>1, AppendedLine
    <2>4. stdout' \in [Forks!Procs -> Seq(Forks!Lines)]
      BY <1>0, <2>1, <2>3
    <2>5. ASSUME NEW q \in Forks!Procs, NEW k \in DOMAIN stdout'[q]
          PROVE  \/ k \in DOMAIN stdout[q] /\ stdout'[q][k] = stdout[q][k]
                 \/ q = p /\ k = Len(stdout[p]) + 1 /\ stdout'[q][k] = line
      <3>1. CASE q = p
        <4>1. k \in 1 .. Len(stdout[p]) + 1
          BY <2>3, <2>5, <3>1
        <4>2. k \in 1 .. Len(stdout[p]) \/ k = Len(stdout[p]) + 1
          BY <2>2, <4>1
        <4> QED
          BY <2>2, <2>3, <3>1, <4>2
      <3> QED
        BY <2>3, <2>5, <3>1
    <2>6. Forks!NothingTwice' /\ Forks!ChildIsFirst'
      BY <2>1 DEF Forks!NothingTwice, Forks!IsInjective, Forks!ChildIsFirst
    <2>7. Forks!OnePlace'
      <3>1. \A q \in Forks!Procs : Forks!IsInjective(stdout'[q])
        BY <1>1, <2>5 DEF Forks!OnePlace, Forks!IsInjective
      <3>2. \A q \in Forks!Procs : \A k \in DOMAIN stdout'[q], m \in DOMAIN output :
              stdout'[q][k] # output[m]
        BY <1>1, <2>5 DEF Forks!OnePlace
      <3> QED
        BY <2>1, <3>1, <3>2 DEF Forks!OnePlace
    <2>8. Forks!Printed'
      <3>1. ASSUME NEW q \in Forks!Procs, NEW k \in DOMAIN stdout'[q]
            PROVE  stdout'[q][k][1] = q /\ stdout'[q][k] \in Forks!Said'
        <4>1. CASE k \in DOMAIN stdout[q] /\ stdout'[q][k] = stdout[q][k]
          <5>1. stdout[q][k] \in Forks!Lines
            BY <1>0, <4>1, ElementOfSeq, LenProperties
          <5> QED
            BY <4>1, <5>1 DEF Forks!Printed, Forks!Lines
        <4>2. CASE q = p /\ stdout'[q][k] = line
          BY <4>2
        <4> QED
          BY <2>5, <4>1, <4>2
      <3>2. ASSUME NEW k \in DOMAIN output PROVE output[k] \in Forks!Said'
        <4>1. output[k] \in Forks!Lines
          BY <1>0, <3>2, ElementOfSeq, LenProperties
        <4> QED
          BY <3>2, <4>1 DEF Forks!Printed, Forks!Lines
      <3> QED
        BY <2>1, <3>1, <3>2 DEF Forks!Printed
    <2> QED
      BY <1>0, <2>1, <2>4, <2>6, <2>7, <2>8
  <1> QED
    BY <1>2, <1>3

(* A buffer that is flushed moves to the end of the output.                *)
LEMMA ForkFlushed ==
  ASSUME Forks!IInv, NEW p \in Forks!Procs, Forks!Flushed(p),
         Forks!Said \subseteq Forks!Said',
         p = "child" => <<"parent", "after_wait">> \notin Forks!Said
  PROVE  /\ stdout' \in [Forks!Procs -> Seq(Forks!Lines)] /\ output' \in Seq(Forks!Lines)
         /\ stdout'[p] = <<>>
         /\ Forks!Printed' /\ Forks!OnePlace' /\ Forks!NothingTwice' /\ Forks!ChildIsFirst'
  <1> USE DEF Forks!IInv
  <1>0. stdout \in [Forks!Procs -> Seq(Forks!Lines)] /\ output \in Seq(Forks!Lines)
    BY DEF Forks!TypeOK, Forks!Lines
  <1>1. output' = output \o stdout[p] /\ stdout' = [stdout EXCEPT ![p] = <<>>]
    BY DEF Forks!Flushed
  <1>2. /\ stdout[p] \in Seq(Forks!Lines) /\ Len(stdout[p]) \in Nat /\ Len(output) \in Nat
        /\ DOMAIN stdout[p] = 1 .. Len(stdout[p]) /\ DOMAIN output = 1 .. Len(output)
    BY <1>0, LenProperties
  <1>3. /\ output' \in Seq(Forks!Lines) /\ DOMAIN output' = 1 .. Len(output) + Len(stdout[p])
        /\ \A k \in 1 .. Len(output) + Len(stdout[p]) :
             output'[k] = IF k <= Len(output) THEN output[k] ELSE stdout[p][k - Len(output)]
    BY <1>0, <1>1, <1>2, ConcatProperties, LenProperties
  <1>4. ASSUME NEW k \in DOMAIN output'
        PROVE  \/ k \in DOMAIN output /\ output'[k] = output[k]
               \/ /\ k > Len(output) /\ k - Len(output) \in DOMAIN stdout[p]
                  /\ output'[k] = stdout[p][k - Len(output)]
    <2>1. k \in 1 .. Len(output) + Len(stdout[p])
      BY <1>3, <1>4
    <2>2. output'[k] = IF k <= Len(output) THEN output[k] ELSE stdout[p][k - Len(output)]
      BY <1>3, <2>1
    <2> QED
      BY <1>2, <2>1, <2>2
  <1>5. /\ stdout' \in [Forks!Procs -> Seq(Forks!Lines)] /\ stdout'[p] = <<>>
        /\ \A q \in Forks!Procs \ {p} : stdout'[q] = stdout[q]
    <2>1. <<>> \in Seq(Forks!Lines)
      BY EmptySeq
    <2> QED
      BY <1>0, <1>1, <2>1
  <1>6. ASSUME NEW q \in Forks!Procs, NEW k \in DOMAIN stdout'[q]
        PROVE  q # p /\ k \in DOMAIN stdout[q] /\ stdout'[q][k] = stdout[q][k]
    <2>1. DOMAIN stdout'[p] = {}
      BY <1>5
    <2> QED
      BY <1>5, <1>6, <2>1
  <1>7. Forks!NothingTwice'
    <2> SUFFICES ASSUME NEW j \in DOMAIN output', NEW k \in DOMAIN output', output'[j] = output'[k]
                 PROVE  j = k
      BY DEF Forks!NothingTwice, Forks!IsInjective
    <2>1. j \in Nat /\ k \in Nat
      BY <1>2, <1>3
    <2>2. CASE j \in DOMAIN output /\ output'[j] = output[j]
      <3>1. k \in DOMAIN output /\ output'[k] = output[k]
        BY <1>4, <2>2 DEF Forks!OnePlace
      <3> QED
        BY <2>2, <3>1 DEF Forks!NothingTwice, Forks!IsInjective
    <2>3. CASE /\ j - Len(output) \in DOMAIN stdout[p]
               /\ output'[j] = stdout[p][j - Len(output)]
      <3>1. /\ k - Len(output) \in DOMAIN stdout[p]
            /\ output'[k] = stdout[p][k - Len(output)]
        BY <1>4, <2>3 DEF Forks!OnePlace
      <3>2. j - Len(output) = k - Len(output)
        BY <2>3, <3>1 DEF Forks!OnePlace, Forks!IsInjective
      <3> QED
        BY <1>2, <2>1, <3>2
    <2> QED
      BY <1>4, <2>2, <2>3
  <1>8. Forks!OnePlace'
    <2>1. \A q \in Forks!Procs : Forks!IsInjective(stdout'[q])
      BY <1>6 DEF Forks!OnePlace, Forks!IsInjective
    <2>2. ASSUME NEW q \in Forks!Procs, NEW k \in DOMAIN stdout'[q], NEW m \in DOMAIN output'
          PROVE  stdout'[q][k] # output'[m]
      <3>1. stdout'[q][k] = stdout[q][k] /\ k \in DOMAIN stdout[q] /\ q # p
        BY <1>6, <2>2
      <3>2. stdout[q][k][1] = q
        BY <3>1 DEF Forks!Printed
      <3>3. ASSUME NEW j \in DOMAIN stdout[p] PROVE stdout[p][j][1] = p
        BY DEF Forks!Printed
      <3> QED
        BY <1>4, <3>1, <3>2, <3>3 DEF Forks!OnePlace
    <2> QED
      BY <2>1, <2>2 DEF Forks!OnePlace
  <1>9. Forks!Printed'
    <2>1. ASSUME NEW q \in Forks!Procs, NEW k \in DOMAIN stdout[q]
          PROVE  stdout[q][k][1] = q /\ stdout[q][k] \in Forks!Said'
      <3>1. stdout[q][k] \in Forks!Lines
        BY <1>0, <2>1, ElementOfSeq, LenProperties
      <3> QED
        BY <3>1 DEF Forks!Printed, Forks!Lines
    <2>2. ASSUME NEW k \in DOMAIN output PROVE output[k] \in Forks!Said'
      <3>1. output[k] \in Forks!Lines
        BY <1>0, <2>2, ElementOfSeq, LenProperties
      <3> QED
        BY <2>2, <3>1 DEF Forks!Printed, Forks!Lines
    <2>3. ASSUME NEW k \in DOMAIN output' PROVE output'[k] \in Forks!Said'
      BY <1>4, <2>1, <2>2
    <2> QED
      BY <1>6, <2>1, <2>3 DEF Forks!Printed
  <1>10. Forks!ChildIsFirst'
    <2> SUFFICES ASSUME NEW j \in DOMAIN output', NEW k \in DOMAIN output',
                        output'[j] = <<"parent", "after_wait">>, output'[k][1] = "child"
                 PROVE  k < j
      BY DEF Forks!ChildIsFirst
    <2>1. ASSUME NEW l \in DOMAIN stdout[p] PROVE stdout[p][l][1] = p
      BY DEF Forks!Printed
    <2>2. j \in Nat /\ k \in Nat
      BY <1>2, <1>3
    <2>3. CASE k \in DOMAIN output /\ j \in DOMAIN output
      BY <1>2, <1>3, <1>4, <2>3 DEF Forks!ChildIsFirst
    <2>4. CASE k \in DOMAIN output /\ j > Len(output)
      BY <1>2, <2>2, <2>4
    <2>5. CASE k - Len(output) \in DOMAIN stdout[p] /\ output'[k] = stdout[p][k - Len(output)]
      <3>1. p = "child"
        BY <2>1, <2>5
      <3>2. j \in DOMAIN output /\ output[j] = <<"parent", "after_wait">>
        BY <1>4, <2>1, <3>1
      <3> QED
        BY <3>1, <3>2 DEF Forks!Printed
    <2> QED
      BY <1>4, <2>3, <2>4, <2>5
  <1> QED
    BY <1>3, <1>5, <1>7, <1>8, <1>9, <1>10

LEMMA ForkInit == Forks!Init => Forks!IInv
  <1> SUFFICES ASSUME Forks!Init PROVE Forks!IInv
    OBVIOUS
  <1>1. <<>> \in Seq(Forks!Lines)
    BY EmptySeq
  <1>2. Forks!TypeOK
    BY <1>1 DEF Forks!Init, Forks!TypeOK, Forks!Procs
  <1>3. Forks!InOrder
    BY DEF Forks!Init, Forks!InOrder, Forks!Procs
  <1>4. \A p \in Forks!Procs : DOMAIN stdout[p] = {}
    BY DEF Forks!Init
  <1>5. DOMAIN output = {}
    BY DEF Forks!Init
  <1> QED
    BY <1>2, <1>3, <1>4, <1>5
       DEF Forks!IInv, Forks!Printed, Forks!OnePlace, Forks!IsInjective, Forks!NothingTwice,
           Forks!ChildIsFirst

(* Every step goes forward: what was said stays said, and the line that is *)
(* printed is the one that was not said yet.                               *)
LEMMA ForkSaid ==
  ASSUME Forks!TypeOK, Forks!InOrder, Forks!Next
  PROVE  Forks!Said \subseteq Forks!Said'
  <1>1. ASSUME NEW q \in Forks!Procs, NEW msg \in Forks!Messages, Forks!HasSaid(q, msg)
        PROVE  Forks!HasSaid(q, msg)'
    <2> USE <1>1 DEF Forks!HasSaid, Forks!TypeOK, Forks!InOrder, Forks!Goto, Forks!Procs
    <2>1. CASE Forks!BeforeFork
      BY <2>1 DEF Forks!BeforeFork
    <2>2. CASE Forks!FlushOutput
      BY <2>2 DEF Forks!FlushOutput
    <2>3. CASE Forks!Fork
      BY <2>3 DEF Forks!Fork
    <2>4. CASE Forks!ForkFails
      BY <2>4 DEF Forks!ForkFails
    <2>5. CASE Forks!Inside
      BY <2>5 DEF Forks!Inside
    <2>6. CASE Forks!Exit
      BY <2>6 DEF Forks!Exit
    <2>7. CASE Forks!After
      BY <2>7 DEF Forks!After
    <2>8. CASE Forks!Wait
      BY <2>8 DEF Forks!Wait
    <2>9. CASE Forks!Return
      BY <2>9 DEF Forks!Return
    <2>10. ASSUME NEW p \in Forks!Procs, Forks!AfterFork(p) PROVE Forks!HasSaid(q, msg)'
      BY <2>10 DEF Forks!AfterFork
    <2> QED
      BY <2>1, <2>2, <2>3, <2>4, <2>5, <2>6, <2>7, <2>8, <2>9, <2>10 DEF Forks!Next, Forks!Run
  <1> QED
    BY <1>1 DEF Forks!Said, Forks!Lines

LEMMA ForkTypes ==
  ASSUME Forks!TypeOK, Forks!InOrder, Forks!Next,
         stdout' \in [Forks!Procs -> Seq(Forks!Lines)], output' \in Seq(Forks!Lines),
         pc["parent"] = "flush" => stdout'["parent"] = <<>>,
         Forks!Fork => stdout'["parent"] = stdout["parent"]
  PROVE  Forks!TypeOK' /\ Forks!InOrder'
  <1> USE DEF Forks!TypeOK, Forks!InOrder, Forks!Goto, Forks!Procs
  <1>1. CASE Forks!BeforeFork
    BY <1>1 DEF Forks!BeforeFork
  <1>2. CASE Forks!FlushOutput
    BY <1>2 DEF Forks!FlushOutput
  <1>3. CASE Forks!Fork
    BY <1>3 DEF Forks!Fork
  <1>4. CASE Forks!ForkFails
    BY <1>4 DEF Forks!ForkFails
  <1>5. CASE Forks!Inside
    BY <1>5 DEF Forks!Inside
  <1>6. CASE Forks!Exit
    BY <1>6 DEF Forks!Exit
  <1>7. CASE Forks!After
    BY <1>7 DEF Forks!After
  <1>8. CASE Forks!Wait
    BY <1>8 DEF Forks!Wait, Forks!Waited
  <1>9. CASE Forks!Return
    BY <1>9 DEF Forks!Return
  <1>10. ASSUME NEW p \in Forks!Procs, Forks!AfterFork(p) PROVE Forks!TypeOK' /\ Forks!InOrder'
    BY <1>10 DEF Forks!AfterFork
  <1> QED
    BY <1>1, <1>2, <1>3, <1>4, <1>5, <1>6, <1>7, <1>8, <1>9, <1>10 DEF Forks!Next, Forks!Run

LEMMA ForkPrints ==
  ASSUME Forks!IInv, Forks!Next, NEW p \in Forks!Procs, NEW msg \in Forks!Messages,
         Forks!print_pid(p, msg), UNCHANGED tty, pc["parent"] # "flush", ~Forks!Fork,
         ~Forks!HasSaid(p, msg), Forks!HasSaid(p, msg)',
         p = "child" => ~Forks!HasSaid("parent", "after_wait")
  PROVE  Forks!IInv'
  <1>1. /\ <<p, msg>> \notin Forks!Said /\ <<p, msg>> \in Forks!Said'
        /\ (p = "child" => <<"parent", "after_wait">> \notin Forks!Said)
    BY DEF Forks!Said, Forks!Lines
  <1>2. Forks!TypeOK /\ Forks!InOrder
    BY DEF Forks!IInv
  <1>3. Forks!Said \subseteq Forks!Said'
    BY <1>2, ForkSaid
  <1>4. /\ stdout' \in [Forks!Procs -> Seq(Forks!Lines)] /\ output' \in Seq(Forks!Lines)
        /\ Forks!Printed' /\ Forks!OnePlace' /\ Forks!NothingTwice' /\ Forks!ChildIsFirst'
    BY <1>1, <1>3, ForkPrint
  <1> QED
    BY <1>2, <1>4, ForkTypes DEF Forks!IInv

LEMMA ForkFlushes ==
  ASSUME Forks!IInv, Forks!Next, NEW p \in Forks!Procs, Forks!Flushed(p), ~Forks!Fork,
         pc["parent"] = "flush" => p = "parent",
         p = "child" => ~Forks!HasSaid("parent", "after_wait")
  PROVE  Forks!IInv'
  <1>1. p = "child" => <<"parent", "after_wait">> \notin Forks!Said
    BY DEF Forks!Said, Forks!Lines
  <1>2. Forks!TypeOK /\ Forks!InOrder
    BY DEF Forks!IInv
  <1>3. Forks!Said \subseteq Forks!Said'
    BY <1>2, ForkSaid
  <1>4. /\ stdout' \in [Forks!Procs -> Seq(Forks!Lines)] /\ output' \in Seq(Forks!Lines)
        /\ stdout'[p] = <<>>
        /\ Forks!Printed' /\ Forks!OnePlace' /\ Forks!NothingTwice' /\ Forks!ChildIsFirst'
    BY <1>1, <1>3, ForkFlushed
  <1> QED
    BY <1>2, <1>4, ForkTypes DEF Forks!IInv

LEMMA ForkStep == Forks!IInv /\ [Forks!Next]_Forks!forkvars => Forks!IInv'
  <1> SUFFICES ASSUME Forks!IInv, Forks!Next PROVE Forks!IInv'
    <2>1. CASE UNCHANGED Forks!forkvars
      BY <2>1 DEF Forks!forkvars, Forks!IInv, Forks!TypeOK, Forks!InOrder, Forks!Printed,
                  Forks!OnePlace, Forks!NothingTwice, Forks!ChildIsFirst, Forks!Said, Forks!HasSaid
    <2> QED
      BY <2>1
  <1>0. /\ Forks!TypeOK /\ Forks!InOrder /\ Forks!Said \subseteq Forks!Said'
        /\ \A p \in {"parent", "child"} : p \in Forks!Procs
        /\ \A m \in {"before_fork", "after_fork", "inside", "after", "after_wait"} :
             m \in Forks!Messages
    BY ForkSaid DEF Forks!IInv, Forks!Procs, Forks!Messages
  <1> USE <1>0 DEF Forks!TypeOK, Forks!InOrder
  <1>1. CASE Forks!BeforeFork
    <2>1. /\ Forks!print_pid("parent", "before_fork") /\ UNCHANGED tty
          /\ pc["parent"] # "flush" /\ ~Forks!Fork
      BY <1>1 DEF Forks!BeforeFork, Forks!Fork, Forks!InOrder
    <2>2. ~Forks!HasSaid("parent", "before_fork") /\ Forks!HasSaid("parent", "before_fork")'
      BY <1>1 DEF Forks!BeforeFork, Forks!HasSaid, Forks!Goto
    <2> QED
      BY <1>0, <2>1, <2>2, ForkPrints
  <1>2. CASE Forks!FlushOutput
    <2>1. Forks!Flushed("parent") /\ ~Forks!Fork /\ (pc["parent"] = "flush" => "parent" = "parent")
      BY <1>2 DEF Forks!FlushOutput, Forks!Flush, Forks!Fork, Forks!InOrder
    <2> QED
      BY <1>0, <2>1, ForkFlushes
  <1>3. CASE Forks!Fork
    <2>1. /\ output' = output /\ stdout["parent"] = <<>>
          /\ stdout' = [stdout EXCEPT !["child"] = <<>>]
      BY <1>3 DEF Forks!Fork
    <2>2. <<>> \in Seq(Forks!Lines)
      BY EmptySeq
    <2>3. stdout' \in [Forks!Procs -> Seq(Forks!Lines)] /\ output' \in Seq(Forks!Lines)
      BY <2>1, <2>2
    <2>4. DOMAIN stdout'["parent"] = {} /\ DOMAIN stdout'["child"] = {}
      BY <2>1 DEF Forks!Procs
    <2>5. \A p \in Forks!Procs : DOMAIN stdout'[p] = {}
      BY <2>4 DEF Forks!Procs
    <2>6. Forks!Printed' /\ Forks!OnePlace' /\ Forks!NothingTwice' /\ Forks!ChildIsFirst'
      BY <2>1, <2>5 DEF Forks!IInv, Forks!Printed, Forks!OnePlace, Forks!NothingTwice,
                        Forks!ChildIsFirst, Forks!IsInjective
    <2>7. pc["parent"] = "fork" /\ stdout'["parent"] = stdout["parent"]
      BY <1>3, <2>1 DEF Forks!Fork, Forks!Procs
    <2> QED
      BY <2>3, <2>6, <2>7, ForkTypes DEF Forks!IInv
  <1>4. CASE Forks!ForkFails
    <2>1. UNCHANGED <<stdout, output>> /\ pc["parent"] = "fork"
      BY <1>4 DEF Forks!ForkFails
    <2>2. Forks!Printed' /\ Forks!OnePlace' /\ Forks!NothingTwice' /\ Forks!ChildIsFirst'
      BY <2>1 DEF Forks!IInv, Forks!Printed, Forks!OnePlace, Forks!NothingTwice,
                  Forks!ChildIsFirst
    <2> QED
      BY <2>1, <2>2, ForkTypes DEF Forks!IInv
  <1>5. CASE Forks!Inside
    <2>1. /\ Forks!print_pid("child", "inside") /\ UNCHANGED tty
          /\ pc["parent"] # "flush" /\ ~Forks!Fork
      BY <1>5 DEF Forks!Inside, Forks!Fork, Forks!InOrder
    <2>2. ~Forks!HasSaid("child", "inside") /\ Forks!HasSaid("child", "inside")'
      BY <1>5 DEF Forks!Inside, Forks!HasSaid, Forks!Goto
    <2>3. ~Forks!HasSaid("parent", "after_wait")
      BY <1>5 DEF Forks!Inside, Forks!HasSaid
    <2> QED
      BY <1>0, <2>1, <2>2, <2>3, ForkPrints
  <1>6. CASE Forks!Exit
    <2>1. Forks!Flushed("child") /\ ~Forks!Fork /\ (pc["parent"] = "flush" => "child" = "parent")
      BY <1>6 DEF Forks!Exit, Forks!Flush, Forks!Fork, Forks!InOrder
    <2>2. ~Forks!HasSaid("parent", "after_wait")
      BY <1>6 DEF Forks!Exit, Forks!HasSaid
    <2> QED
      BY <1>0, <2>1, <2>2, ForkFlushes
  <1>7. CASE Forks!After
    <2>1. /\ Forks!print_pid("parent", "after") /\ UNCHANGED tty
          /\ pc["parent"] # "flush" /\ ~Forks!Fork
      BY <1>7 DEF Forks!After, Forks!Fork, Forks!InOrder
    <2>2. ~Forks!HasSaid("parent", "after") /\ Forks!HasSaid("parent", "after")'
      BY <1>7 DEF Forks!After, Forks!HasSaid, Forks!Goto
    <2> QED
      BY <1>0, <2>1, <2>2, ForkPrints
  <1>8. CASE Forks!Wait
    <2>1. /\ Forks!print_pid("parent", "after_wait") /\ UNCHANGED tty
          /\ pc["parent"] # "flush" /\ ~Forks!Fork
      BY <1>8 DEF Forks!Wait, Forks!Fork, Forks!InOrder
    <2>2. ~Forks!HasSaid("parent", "after_wait") /\ Forks!HasSaid("parent", "after_wait")'
      BY <1>8 DEF Forks!Wait, Forks!HasSaid, Forks!Goto
    <2> QED
      BY <1>0, <2>1, <2>2, ForkPrints
  <1>9. CASE Forks!Return
    <2>1. Forks!Flushed("parent") /\ ~Forks!Fork /\ (pc["parent"] = "flush" => "parent" = "parent")
      BY <1>9 DEF Forks!Return, Forks!Flush, Forks!Fork, Forks!InOrder
    <2> QED
      BY <1>0, <2>1, ForkFlushes
  <1>10. ASSUME NEW p \in Forks!Procs, Forks!AfterFork(p) PROVE Forks!IInv'
    <2>1. /\ Forks!print_pid(p, "after_fork") /\ UNCHANGED tty
          /\ pc["parent"] # "flush" /\ ~Forks!Fork
      BY <1>10 DEF Forks!AfterFork, Forks!Fork, Forks!Procs
    <2>2. ~Forks!HasSaid(p, "after_fork") /\ Forks!HasSaid(p, "after_fork")'
      BY <1>10 DEF Forks!AfterFork, Forks!HasSaid, Forks!Goto
    <2>3. p = "child" => ~Forks!HasSaid("parent", "after_wait")
      BY <1>10 DEF Forks!AfterFork, Forks!HasSaid
    <2> QED
      BY <2>1, <2>2, <2>3, ForkPrints
  <1> QED
    BY <1>1, <1>2, <1>3, <1>4, <1>5, <1>6, <1>7, <1>8, <1>9, <1>10 DEF Forks!Next, Forks!Run

-----------------------------------------------------------------------------
(* pure_cpp.cpp: one C++ object to a Python object.                        *)

LEMMA CppFields ==
  /\ Cpp!ToSet(Cpp!Fields(Cpp!Base)) = {"number", "first", "last"}
  /\ Cpp!ToSet(Cpp!Fields(Cpp!Derived)) =
       {"number2", "number", "first", "last", "first2", "last2"}
  /\ Cpp!Base # Cpp!Derived /\ Cpp!Base # "none" /\ Cpp!Derived # "none"
  BY DEF Cpp!ToSet, Cpp!Fields, Cpp!Base, Cpp!Derived

(* The member that a setter means is one that the object has.              *)
LEMMA CppMember ==
  ASSUME NEW k \in {Cpp!Base, Cpp!Derived}, NEW f \in Cpp!ToSet(Cpp!Fields(k))
  PROVE  Cpp!SetBy(f) \in Cpp!ToSet(Cpp!Fields(k)) /\ f # ""
  <1>1. CASE k = Cpp!Base
    BY <1>1, CppFields DEF Cpp!SetBy, Cpp!BaseOf
  <1>2. CASE k = Cpp!Derived
    <2>1. /\ f \in {"number2", "number", "first", "last", "first2", "last2"}
          /\ Cpp!ToSet(Cpp!Fields(k)) =
               {"number2", "number", "first", "last", "first2", "last2"}
      BY <1>2, CppFields
    <2>2. Cpp!SetBy(f) \in {"number", "first", "last"}
      BY <2>1 DEF Cpp!SetBy, Cpp!BaseOf
    <2> QED
      BY <2>1, <2>2
  <1> QED
    BY <1>1, <1>2

(* A heap of one object stays one.                                         *)
LEMMA CppOnlyOne ==
  ASSUME heap = <<heap[1]>>, NEW y, heap' = [heap EXCEPT ![1] = y]
  PROVE  heap' = <<heap'[1]>> /\ heap'[1] = y
  <1>1. DOMAIN heap = {1}
    <2>1. DOMAIN <<heap[1]>> = {1}
      OBVIOUS
    <2> QED
      BY <2>1
  <1>2. heap' = <<y>>
    BY <1>1
  <1> QED
    BY <1>2

LEMMA CppInit == Cpp!Init => Cpp!IInv
  BY CppFields DEF Cpp!Init, Cpp!IInv, Cpp!Whole, Cpp!LastIsKept

LEMMA CppStep == Cpp!IInv /\ [Cpp!Next]_Cpp!cppvars => Cpp!IInv'
  <1> SUFFICES ASSUME Cpp!IInv, Cpp!Next PROVE Cpp!IInv'
    <2>1. CASE UNCHANGED Cpp!cppvars
      BY <2>1 DEF Cpp!cppvars, Cpp!IInv, Cpp!Whole, Cpp!LastIsKept
    <2> QED
      BY <2>1
  <1> USE CppFields DEF Cpp!IInv
  <1>1. ASSUME NEW k \in {Cpp!Base, Cpp!Derived}, Cpp!New(k) PROVE Cpp!IInv'
    <2>1. PICK o \in Cpp!Construct(k), b \in Cpp!Construct(Cpp!Base) :
            CASE k = Cpp!Base -> heap' = <<b>> /\ base_ptr' = 1 /\ ptr' = Cpp!Null
              [] k # Cpp!Base /\ Cpp!WhenNull(k) -> heap' = <<o, b>> /\ base_ptr' = 2 /\ ptr' = 1
              [] OTHER -> heap' = <<o>> /\ base_ptr' = 1 /\ ptr' = 1
      BY <1>1 DEF Cpp!New
    <2>2. /\ DOMAIN o = Cpp!ToSet(Cpp!Fields(k))
          /\ DOMAIN b = Cpp!ToSet(Cpp!Fields(Cpp!Base))
      BY DEF Cpp!Construct
    <2>3. \/ k = Cpp!Base /\ heap' = <<b>> /\ base_ptr' = 1
          \/ k = Cpp!Derived /\ heap' = <<o>> /\ base_ptr' = 1 /\ ptr' = 1
      BY <2>1 DEF Cpp!WhenNull
    <2>4. cls' = k /\ last' = Cpp!Nothing
      BY <1>1 DEF Cpp!New
    <2>5. /\ heap' = <<heap'[1]>> /\ base_ptr' = 1 /\ (k = Cpp!Derived => ptr' = 1)
          /\ DOMAIN heap'[1] = Cpp!ToSet(Cpp!Fields(k))
      <3>1. CASE k = Cpp!Base
        BY <2>2, <2>3, <3>1
      <3>2. CASE k = Cpp!Derived
        BY <2>2, <2>3, <3>2
      <3> QED
        BY <3>1, <3>2
    <2>6. Cpp!Whole'
      BY <2>4, <2>5 DEF Cpp!Whole
    <2> QED
      BY <2>4, <2>6 DEF Cpp!LastIsKept
  <1>2. CASE Cpp!Dealloc
    <2>1. heap' = <<>> /\ base_ptr' = Cpp!Null /\ cls' = "none" /\ last' = Cpp!Nothing
      BY <1>2, SubSeqEmpty DEF Cpp!Dealloc, Cpp!Whole
    <2> QED
      BY <2>1 DEF Cpp!Whole, Cpp!LastIsKept
  <1>3. CASE Cpp!Crash
    BY <1>3 DEF Cpp!Crash, Cpp!Whole, Cpp!LastIsKept
  <1>4. ASSUME NEW args, NEW kw, Cpp!RunInit(args, kw) PROVE Cpp!IInv'
    <2>1. /\ cls # "none" /\ last' = Cpp!Nothing /\ UNCHANGED <<cls, base_ptr, ptr>>
          /\ heap = <<heap[1]>> /\ base_ptr = 1
      BY <1>4 DEF Cpp!RunInit, Cpp!Whole
    <2> DEFINE new == [f \in DOMAIN heap[1] |->
                         IF f \in Cpp!Stored(args, kw) THEN args[f] ELSE heap[1][f]]
    <2>2. heap' = [heap EXCEPT ![1] = new]
      BY <1>4, <2>1 DEF Cpp!RunInit
    <2>3. DOMAIN new = DOMAIN heap[1]
      OBVIOUS
    <2> HIDE DEF new
    <2>4. heap' = <<heap'[1]>> /\ heap'[1] = new
      BY <2>1, <2>2, CppOnlyOne
    <2> QED
      BY <2>1, <2>3, <2>4 DEF Cpp!Whole, Cpp!LastIsKept
  <1>5. ASSUME NEW f, NEW d, Cpp!Set(f, d) PROVE Cpp!IInv'
    <2>1. /\ cls \in {Cpp!Base, Cpp!Derived} /\ f \in Cpp!ToSet(Cpp!Fields(cls))
          /\ last' = <<f, d>> /\ UNCHANGED <<cls, base_ptr, ptr>>
          /\ heap = <<heap[1]>> /\ base_ptr = 1 /\ DOMAIN heap[1] = Cpp!ToSet(Cpp!Fields(cls))
      BY <1>5 DEF Cpp!Set, Cpp!Whole
    <2>2. Cpp!SetBy(f) \in DOMAIN heap[1]
      BY <2>1, CppMember
    <2> DEFINE new == [heap[1] EXCEPT ![Cpp!SetBy(f)] = d]
    <2>3. heap' = [heap EXCEPT ![1] = new]
      BY <1>5, <2>1 DEF Cpp!Set
    <2>4. DOMAIN new = DOMAIN heap[1] /\ new[Cpp!SetBy(f)] = d
      BY <2>2
    <2> HIDE DEF new
    <2>5. heap' = <<heap'[1]>> /\ heap'[1] = new
      BY <2>1, <2>3, CppOnlyOne
    <2>6. Cpp!Whole'
      BY <2>1, <2>4, <2>5 DEF Cpp!Whole
    <2>7. Cpp!LastIsKept'
      BY <2>1, <2>4, <2>5 DEF Cpp!LastIsKept
    <2> QED
      BY <2>6, <2>7
  <1> QED
    BY <1>1, <1>2, <1>3, <1>4, <1>5 DEF Cpp!Next

LEMMA CppSafe == Cpp!IInv => OneObjectReadsBack
  <1> SUFFICES ASSUME Cpp!IInv PROVE OneObjectReadsBack
    OBVIOUS
  <1>1. Len(heap) = (IF cls = "none" THEN 0 ELSE 1)
    <2>1. Len(<<>>) = 0 /\ Len(<<heap[1]>>) = 1
      OBVIOUS
    <2> QED
      BY <2>1 DEF Cpp!IInv, Cpp!Whole
  <1>2. cls = Cpp!Derived => base_ptr = ptr
    BY CppFields DEF Cpp!IInv, Cpp!Whole
  <1>3. Cpp!ReadsBack
    BY DEF Cpp!IInv, Cpp!LastIsKept, Cpp!ReadsBack, Cpp!GotBy, Cpp!SetBy
  <1> QED
    BY <1>1, <1>2, <1>3 DEF OneObjectReadsBack, Cpp!OneObject

-----------------------------------------------------------------------------
(* pure.c: what main holds.                                                *)

LEMMA EmbedInit == Embed!Init => Embed!IInv
  BY ProgramsAssumption
     DEF Embed!Init, Embed!IInv, Embed!TypeOK, Embed!Holds, Embed!NoOverRelease,
         Embed!AllGivenBack, Embed!Static, Embed!Objects

(* What the init of the module may leave: itself and its types, or less,   *)
(* and nothing where it has freed itself.                                  *)
LEMMA EmbedNative ==
  ASSUME NEW made \in Embed!InitFunc(Embed!Static)
  PROVE  /\ made.ok => made.refs = Embed!Takes(Embed!Static, {"m", "base", "derived"})
         /\ made.refs["m"] = 0 => made.refs = Embed!Static
         /\ made.refs \in [Embed!Objects -> Int]
         /\ \A o \in Embed!Objects : made.refs[o] >= Embed!Static[o]
         /\ \A o \in {"module", "func", "args", "value"} : made.refs[o] = 0
  <1> DEFINE S       == Embed!Static
             created == Embed!Takes(S, {"m"})
             one     == Embed!Takes(created, {"base"})
             both    == Embed!Takes(one, {"derived"})
             first   == Embed!AddFailed(one, "base", {})
             second  == Embed!AddFailed(both, "derived", {"base"})
  <1>1. \/ made.ok /\ made.refs = both
        \/ ~made.ok /\ made.refs \in {S, created, first, one, second}
    BY DEF Embed!InitFunc
  <1> USE DEF Embed!Static, Embed!Objects
  <1>2. both = Embed!Takes(S, {"m", "base", "derived"})
    BY DEF Embed!Takes
  <1>3. first = S
    BY DEF Embed!AddFailed, Embed!AddFails, Embed!FreeModule, Embed!Takes, Embed!Gives
  <1>4. second = S
    BY DEF Embed!AddFailed, Embed!AddFails, Embed!FreeModule, Embed!Takes, Embed!Gives
  <1>5. created["m"] = 1 /\ one["m"] = 1 /\ both["m"] = 1
    BY DEF Embed!Takes
  <1>6. \A f \in {S, created, one, both} :
          /\ f \in [Embed!Objects -> Int]
          /\ \A o \in Embed!Objects : f[o] >= S[o]
          /\ \A o \in {"module", "func", "args", "value"} : f[o] = 0
    BY DEF Embed!Takes
  <1>7. made.refs \in {S, created, one, both}
    BY <1>1, <1>3, <1>4
  <1> HIDE DEF S, created, one, both, first, second
  <1> QED
    BY <1>1, <1>2, <1>3, <1>4, <1>5, <1>6, <1>7 DEF S

LEMMA EmbedStep == Embed!IInv /\ [Embed!Next]_Embed!embedvars => Embed!IInv'
  <1> SUFFICES ASSUME Embed!IInv, Embed!Next PROVE Embed!IInv'
    <2>1. CASE UNCHANGED Embed!embedvars
      BY <2>1 DEF Embed!embedvars, Embed!IInv, Embed!TypeOK, Embed!Holds, Embed!NoOverRelease,
                  Embed!AllGivenBack
    <2> QED
      BY <2>1
  <1> USE ProgramsAssumption
      DEF Embed!IInv, Embed!TypeOK, Embed!Holds, Embed!NoOverRelease, Embed!AllGivenBack,
          Embed!Imported, Embed!Static, Embed!Objects, Embed!Takes, Embed!Gives, Embed!Exit
  <1>1. CASE Embed!Import
    <2>1. PICK made \in Embed!InitFunc(refs) :
            \/ /\ made.ok /\ at' = "function" /\ UNCHANGED exitcode
               /\ refs' = Embed!Takes(made.refs, {"module"})
            \/ refs' = made.refs /\ Embed!Exit(1)
      BY <1>1 DEF Embed!Import
    <2>2. refs = Embed!Static /\ UNCHANGED argsleft /\ at = "import"
      BY <1>1 DEF Embed!Import
    <2>3. /\ made.ok => made.refs = Embed!Takes(Embed!Static, {"m", "base", "derived"})
          /\ made.refs["m"] = 0 => made.refs = Embed!Static
          /\ made.refs \in [Embed!Objects -> Int]
          /\ \A o \in Embed!Objects : made.refs[o] >= Embed!Static[o]
          /\ \A o \in {"module", "func", "args", "value"} : made.refs[o] = 0
      BY ONLY <2>1, <2>2, EmbedNative
    <2>4. CASE made.ok /\ at' = "function" /\ UNCHANGED exitcode
               /\ refs' = Embed!Takes(made.refs, {"module"})
      <3>1. refs' = Embed!Takes(Embed!Takes(Embed!Static, {"m", "base", "derived"}), {"module"})
        BY ONLY <2>3, <2>4
      <3>2. refs' = Embed!Imported
        BY ONLY <3>1 DEF Embed!Imported, Embed!Takes, Embed!Objects, Embed!Static
      <3>3. /\ refs' \in [Embed!Objects -> Int]
            /\ \A o \in Embed!Objects : refs'[o] >= Embed!Static[o]
        BY ONLY <3>2 DEF Embed!Imported, Embed!Takes, Embed!Objects, Embed!Static
      <3>4. /\ at' = "function" /\ argsleft' = argsleft /\ exitcode' = exitcode
            /\ argsleft \in 0 .. MaxArgs /\ exitcode \in {-1, 0, 1, 120}
        BY <2>2, <2>4
      <3> QED
        BY ONLY <3>2, <3>3, <3>4
        DEF Embed!IInv, Embed!TypeOK, Embed!Holds, Embed!NoOverRelease, Embed!AllGivenBack
    <2>5. CASE refs' = made.refs /\ Embed!Exit(1)
      <3>1. Embed!TypeOK'
        BY <2>2, <2>3, <2>5
      <3>2. Embed!NoOverRelease' /\ Embed!AllGivenBack' /\ Embed!Holds'
        BY <2>2, <2>3, <2>5
      <3> QED
        BY <3>1, <3>2
    <2> QED
      BY <2>1, <2>4, <2>5
  <1>2. CASE Embed!Function
    BY <1>2 DEF Embed!Function
  <1>3. CASE Embed!Convert
    BY <1>3 DEF Embed!Convert
  <1>4. CASE Embed!Call
    BY <1>4 DEF Embed!Call
  <1>5. CASE Embed!PrintResult
    BY <1>5 DEF Embed!PrintResult
  <1>6. CASE Embed!Finish
    BY <1>6 DEF Embed!Finish, Embed!XDecRef
  <1> QED
    BY <1>1, <1>2, <1>3, <1>4, <1>5, <1>6 DEF Embed!Next

-----------------------------------------------------------------------------
(* The timer and the interrupt controller.                                 *)

LEMMA GicNumbers ==
  /\ INT_MAX \in Nat /\ TIMER_IRQ \in Nat /\ TIMER_IRQ \in Gic!Irqs /\ Gic!Irqs \subseteq Nat
  /\ PPI0 \in Nat /\ PPI0 % 16 = 0 /\ SPI0 \in Nat /\ SPI0 % 4 = 0
  BY ProgramsAssumption DEF ProgramsAssumption, Gic!Irqs

(* Each interrupt has its field in one of the registers, and no two have   *)
(* the same.                                                               *)
LEMMA GicField ==
  ASSUME NEW j \in Gic!Irqs, NEW k \in Gic!Irqs
  PROVE  /\ j \div 4 \in 0 .. Gic!NrRegs(4) - 1 /\ j % 4 \in 0 .. 3
         /\ j \div 16 \in 0 .. Gic!NrRegs(16) - 1 /\ j % 16 \in 0 .. 15
         /\ j \div 32 < Gic!NrRegs(32)
         /\ j \div 4 = k \div 4 /\ j % 4 = k % 4 => j = k
         /\ j \div 16 = k \div 16 /\ j % 16 = k % 16 => j = k
  <1>1. j \in Nat /\ k \in Nat /\ j < INT_MAX /\ INT_MAX \in Nat
    BY GicNumbers DEF Gic!Irqs
  <1>2. j \div 4 \in 0 .. Gic!NrRegs(4) - 1 /\ j % 4 \in 0 .. 3
    BY <1>1 DEF Gic!NrRegs
  <1>3. j \div 16 \in 0 .. Gic!NrRegs(16) - 1 /\ j % 16 \in 0 .. 15
    BY <1>1 DEF Gic!NrRegs
  <1>4. j \div 32 < Gic!NrRegs(32)
    BY <1>1 DEF Gic!NrRegs
  <1>5. j \div 4 = k \div 4 /\ j % 4 = k % 4 => j = k
    BY <1>1
  <1>6. j \div 16 = k \div 16 /\ j % 16 = k % 16 => j = k
    BY <1>1
  <1> QED
    BY <1>2, <1>3, <1>4, <1>5, <1>6

(* What init_gicd writes to a file of registers, and gicd_config to a      *)
(* field.                                                                  *)
LEMMA GicFill4 ==
  ASSUME NEW file \in [0 .. Gic!NrRegs(4) - 1 -> [0 .. 3 -> Nat]], NEW v \in Nat,
         NEW first \in Nat, first % 4 = 0
  PROVE  LET new == Gic!Fill(file, 4, first, v) IN
         /\ new \in [0 .. Gic!NrRegs(4) - 1 -> [0 .. 3 -> Nat]]
         /\ \A j \in Gic!Irqs : j >= first => new[j \div 4][j % 4] = v
  <1> DEFINE new == Gic!Fill(file, 4, first, v)
             D   == 0 .. Gic!NrRegs(4) - 1
  <1>1. new = [a \in D |-> IF a >= first \div 4 /\ a < Gic!NrRegs(4)
                           THEN [k \in 0 .. 3 |-> v] ELSE file[a]]
    BY DEF Gic!Fill
  <1>2. new \in [D -> [0 .. 3 -> Nat]]
    BY <1>1
  <1>3. ASSUME NEW j \in Gic!Irqs, j >= first
        PROVE  new[j \div 4][j % 4] = v
    <2>1. j \div 4 \in D /\ j % 4 \in 0 .. 3
      BY GicField
    <2>2. j \div 4 >= first \div 4
      BY <1>3, GicNumbers
    <2>3. j \div 4 < Gic!NrRegs(4)
      BY <2>1, GicNumbers DEF Gic!NrRegs
    <2> HIDE DEF D
    <2> QED
      BY <1>1, <2>1, <2>2, <2>3
  <1> QED
    BY <1>2, <1>3

LEMMA GicFill16 ==
  ASSUME NEW file \in [0 .. Gic!NrRegs(16) - 1 -> [0 .. 15 -> Nat]], NEW v \in Nat,
         NEW first \in Nat, first % 16 = 0
  PROVE  LET new == Gic!Fill(file, 16, first, v) IN
         /\ new \in [0 .. Gic!NrRegs(16) - 1 -> [0 .. 15 -> Nat]]
         /\ \A j \in Gic!Irqs : j >= first => new[j \div 16][j % 16] = v
  <1> DEFINE new == Gic!Fill(file, 16, first, v)
             D   == 0 .. Gic!NrRegs(16) - 1
  <1>1. new = [a \in D |-> IF a >= first \div 16 /\ a < Gic!NrRegs(16)
                           THEN [k \in 0 .. 15 |-> v] ELSE file[a]]
    BY DEF Gic!Fill
  <1>2. new \in [D -> [0 .. 15 -> Nat]]
    BY <1>1
  <1>3. ASSUME NEW j \in Gic!Irqs, j >= first
        PROVE  new[j \div 16][j % 16] = v
    <2>1. j \div 16 \in D /\ j % 16 \in 0 .. 15
      BY GicField
    <2>2. j \div 16 >= first \div 16
      BY <1>3, GicNumbers
    <2>3. j \div 16 < Gic!NrRegs(16)
      BY <2>1, GicNumbers DEF Gic!NrRegs
    <2> HIDE DEF D
    <2> QED
      BY <1>1, <2>1, <2>2, <2>3
  <1> QED
    BY <1>2, <1>3

LEMMA GicSet4 ==
  ASSUME NEW file \in [0 .. Gic!NrRegs(4) - 1 -> [0 .. 3 -> Nat]], NEW v \in Nat,
         NEW k \in Gic!Irqs
  PROVE  LET new == Gic!SetField(file, 4, k, v) IN
         /\ new \in [0 .. Gic!NrRegs(4) - 1 -> [0 .. 3 -> Nat]]
         /\ \A j \in Gic!Irqs :
              new[j \div 4][j % 4] = IF j = k THEN v ELSE file[j \div 4][j % 4]
  <1> DEFINE D == 0 .. Gic!NrRegs(4) - 1
             F == 0 .. 3
  <1>1. \A j \in Gic!Irqs : j \div 4 \in D /\ j % 4 \in F
    BY GicField
  <1>2. \A j \in Gic!Irqs : j \div 4 = k \div 4 /\ j % 4 = k % 4 => j = k
    BY GicField
  <1> HIDE DEF D, F
  <1>3. Gic!SetField(file, 4, k, v) = [file EXCEPT ![k \div 4][k % 4] = v]
    BY DEF Gic!SetField
  <1>4. file \in [D -> [F -> Nat]]
    BY DEF D, F
  <1>5. [file EXCEPT ![k \div 4][k % 4] = v] \in [D -> [F -> Nat]]
    BY <1>1, <1>4
  <1>6. \A j \in Gic!Irqs :
          [file EXCEPT ![k \div 4][k % 4] = v][j \div 4][j % 4]
            = IF j = k THEN v ELSE file[j \div 4][j % 4]
    BY <1>1, <1>2, <1>4
  <1> QED
    BY <1>3, <1>5, <1>6 DEF D, F

LEMMA GicSet16 ==
  ASSUME NEW file \in [0 .. Gic!NrRegs(16) - 1 -> [0 .. 15 -> Nat]], NEW v \in Nat,
         NEW k \in Gic!Irqs
  PROVE  LET new == Gic!SetField(file, 16, k, v) IN
         /\ new \in [0 .. Gic!NrRegs(16) - 1 -> [0 .. 15 -> Nat]]
         /\ \A j \in Gic!Irqs :
              new[j \div 16][j % 16] = IF j = k THEN v ELSE file[j \div 16][j % 16]
  <1> DEFINE D == 0 .. Gic!NrRegs(16) - 1
             F == 0 .. 15
  <1>1. \A j \in Gic!Irqs : j \div 16 \in D /\ j % 16 \in F
    BY GicField
  <1>2. \A j \in Gic!Irqs : j \div 16 = k \div 16 /\ j % 16 = k % 16 => j = k
    BY GicField
  <1> HIDE DEF D, F
  <1>3. Gic!SetField(file, 16, k, v) = [file EXCEPT ![k \div 16][k % 16] = v]
    BY DEF Gic!SetField
  <1>4. file \in [D -> [F -> Nat]]
    BY DEF D, F
  <1>5. [file EXCEPT ![k \div 16][k % 16] = v] \in [D -> [F -> Nat]]
    BY <1>1, <1>4
  <1>6. \A j \in Gic!Irqs :
          [file EXCEPT ![k \div 16][k % 16] = v][j \div 16][j % 16]
            = IF j = k THEN v ELSE file[j \div 16][j % 16]
    BY <1>1, <1>2, <1>4
  <1> QED
    BY <1>3, <1>5, <1>6 DEF D, F

LEMMA GicInit == Gic!Init => Gic!IInv
  <1> SUFFICES ASSUME Gic!Init PROVE Gic!IInv
    OBVIOUS
  <1> USE DEF Gic!Init, Gic!SettingUp, Gic!Handler
  <1>1. /\ IPRIORITYR \in [0 .. Gic!NrRegs(4) - 1 -> [0 .. 3 -> Nat]]
        /\ ITARGETSR \in [0 .. Gic!NrRegs(4) - 1 -> [0 .. 3 -> Nat]]
    BY DEF Gic!File
  <1>2. ICFGR \in [0 .. Gic!NrRegs(16) - 1 -> [0 .. 15 -> Nat]]
    BY DEF Gic!File, Gic!Edge
  <1>3. cntv \in BOOLEAN /\ expired \in BOOLEAN /\ fresh \in BOOLEAN
    BY Zenon
  <1>4. Gic!TypeOK
    BY <1>1, <1>2, <1>3 DEF Gic!TypeOK
  <1>5. Gic!NothingStandsOut /\ Gic!TimerStandsOut /\ Gic!FoundTimer
    BY DEF Gic!NothingStandsOut, Gic!TimerStandsOut, Gic!FoundTimer
  <1>6. Gic!Periods
    BY DEF Gic!Periods
  <1> QED
    BY <1>4, <1>5, <1>6 DEF Gic!IInv

(* init_gicd clears the bits of all interrupts and fills the registers.    *)
LEMMA GicInitGicd ==
  ASSUME Gic!IInv, Gic!InitGicd
  PROVE  Gic!IInv'
  <1> USE DEF Gic!IInv, Gic!InitGicd, Gic!SettingUp, Gic!Handler
  <1>1. Gic!Covered = Gic!Irqs
    BY GicField DEF Gic!Covered
  <1>2. enabled' = {} /\ pending' = {}
    BY <1>1 DEF Gic!TypeOK
  <1>3. /\ IPRIORITYR' \in [0 .. Gic!NrRegs(4) - 1 -> [0 .. 3 -> Nat]]
        /\ \A j \in Gic!Irqs : IPRIORITYR'[j \div 4][j % 4] = Gic!Lowest
    <2>1. \A j \in Gic!Irqs : j >= 0
      BY GicNumbers
    <2>2. 0 \in Nat /\ 0 % 4 = 0 /\ Gic!Lowest \in Nat
      BY DEF Gic!Lowest
    <2>3. /\ IPRIORITYR \in [0 .. Gic!NrRegs(4) - 1 -> [0 .. 3 -> Nat]]
          /\ IPRIORITYR' = Gic!Fill(IPRIORITYR, 4, 0, Gic!Lowest)
      BY DEF Gic!TypeOK
    <2>9. /\ Gic!Fill(IPRIORITYR, 4, 0, Gic!Lowest) \in [0 .. Gic!NrRegs(4) - 1 -> [0 .. 3 -> Nat]]
          /\ \A j \in Gic!Irqs :
               j >= 0 => Gic!Fill(IPRIORITYR, 4, 0, Gic!Lowest)[j \div 4][j % 4] = Gic!Lowest
      BY ONLY <2>2, <2>3, GicFill4, Zenon
    <2> QED
      BY ONLY <2>1, <2>3, <2>9
  <1>4. /\ ITARGETSR' \in [0 .. Gic!NrRegs(4) - 1 -> [0 .. 3 -> Nat]]
        /\ \A j \in Gic!Irqs : j >= SPI0 => ITARGETSR'[j \div 4][j % 4] = 1
    <2>1. /\ ITARGETSR \in [0 .. Gic!NrRegs(4) - 1 -> [0 .. 3 -> Nat]]
          /\ ITARGETSR' = Gic!Fill(ITARGETSR, 4, SPI0, 1)
      BY DEF Gic!TypeOK
    <2>2. SPI0 \in Nat /\ SPI0 % 4 = 0 /\ 1 \in Nat
      BY GicNumbers
    <2>9. /\ Gic!Fill(ITARGETSR, 4, SPI0, 1) \in [0 .. Gic!NrRegs(4) - 1 -> [0 .. 3 -> Nat]]
          /\ \A j \in Gic!Irqs :
               j >= SPI0 => Gic!Fill(ITARGETSR, 4, SPI0, 1)[j \div 4][j % 4] = 1
      BY ONLY <2>1, <2>2, GicFill4, Zenon
    <2> QED
      BY ONLY <2>1, <2>9
  <1>5. /\ ICFGR' \in [0 .. Gic!NrRegs(16) - 1 -> [0 .. 15 -> Nat]]
        /\ \A j \in Gic!Irqs : j >= PPI0 => ICFGR'[j \div 16][j % 16] = Gic!Level
    <2>1. /\ ICFGR \in [0 .. Gic!NrRegs(16) - 1 -> [0 .. 15 -> Nat]]
          /\ ICFGR' = Gic!Fill(ICFGR, 16, PPI0, Gic!Level)
      BY DEF Gic!TypeOK
    <2>2. PPI0 \in Nat /\ PPI0 % 16 = 0 /\ Gic!Level \in Nat
      BY GicNumbers DEF Gic!Level
    <2>9. /\ Gic!Fill(ICFGR, 16, PPI0, Gic!Level) \in [0 .. Gic!NrRegs(16) - 1 -> [0 .. 15 -> Nat]]
          /\ \A j \in Gic!Irqs :
               j >= PPI0 => Gic!Fill(ICFGR, 16, PPI0, Gic!Level)[j \div 16][j % 16] = Gic!Level
      BY ONLY <2>1, <2>2, GicFill16, Zenon
    <2> QED
      BY ONLY <2>1, <2>9
  <1>6. Gic!TypeOK'
    <2>1. cntv' \in BOOLEAN /\ expired' \in BOOLEAN /\ fresh' \in BOOLEAN
      BY Zenon DEF Gic!TypeOK
    <2> QED
      BY <1>2, <1>3, <1>4, <1>5, <2>1 DEF Gic!TypeOK
  <1>7. Gic!NothingStandsOut'
    BY <1>2, <1>3, <1>4, <1>5 DEF Gic!NothingStandsOut
  <1>8. Gic!TimerStandsOut' /\ Gic!FoundTimer' /\ Gic!Periods'
    BY DEF Gic!TimerStandsOut, Gic!FoundTimer, Gic!Periods
  <1> QED
    BY <1>6, <1>7, <1>8

(* gicd_config writes the fields of the timer and no other.                *)
LEMMA GicConfigure ==
  ASSUME Gic!IInv, Gic!Configure
  PROVE  Gic!IInv'
  <1> USE DEF Gic!IInv, Gic!Configure, Gic!SettingUp, Gic!Handler
  <1>1. TIMER_IRQ \in Gic!Irqs
    BY GicNumbers
  <1>2. enabled' = {TIMER_IRQ} /\ pending' = {}
    BY DEF Gic!NothingStandsOut
  <1>3. /\ IPRIORITYR' \in [0 .. Gic!NrRegs(4) - 1 -> [0 .. 3 -> Nat]]
        /\ \A j \in Gic!Irqs :
             IPRIORITYR'[j \div 4][j % 4] = IF j = TIMER_IRQ THEN 0 ELSE Gic!Lowest
    <2>1. /\ IPRIORITYR \in [0 .. Gic!NrRegs(4) - 1 -> [0 .. 3 -> Nat]]
          /\ IPRIORITYR' = Gic!SetField(IPRIORITYR, 4, TIMER_IRQ, 0) /\ 0 \in Nat
          /\ \A j \in Gic!Irqs : IPRIORITYR[j \div 4][j % 4] = Gic!Lowest
      BY DEF Gic!TypeOK, Gic!NothingStandsOut
    <2>9. /\ Gic!SetField(IPRIORITYR, 4, TIMER_IRQ, 0) \in [0 .. Gic!NrRegs(4) - 1 -> [0 .. 3 -> Nat]]
          /\ \A j \in Gic!Irqs :
               Gic!SetField(IPRIORITYR, 4, TIMER_IRQ, 0)[j \div 4][j % 4]
                 = IF j = TIMER_IRQ THEN 0 ELSE IPRIORITYR[j \div 4][j % 4]
      BY ONLY <1>1, <2>1, GicSet4, ZenonT(60)
    <2> QED
      BY ONLY <2>1, <2>9
  <1>4. /\ ITARGETSR' \in [0 .. Gic!NrRegs(4) - 1 -> [0 .. 3 -> Nat]]
        /\ \A j \in Gic!Irqs : j >= SPI0 => ITARGETSR'[j \div 4][j % 4] = 1
    <2>1. /\ ITARGETSR \in [0 .. Gic!NrRegs(4) - 1 -> [0 .. 3 -> Nat]]
          /\ ITARGETSR' = Gic!SetField(ITARGETSR, 4, TIMER_IRQ, 1) /\ 1 \in Nat
          /\ \A j \in Gic!Irqs : j >= SPI0 => ITARGETSR[j \div 4][j % 4] = 1
      BY DEF Gic!TypeOK, Gic!NothingStandsOut
    <2>9. /\ Gic!SetField(ITARGETSR, 4, TIMER_IRQ, 1) \in [0 .. Gic!NrRegs(4) - 1 -> [0 .. 3 -> Nat]]
          /\ \A j \in Gic!Irqs :
               Gic!SetField(ITARGETSR, 4, TIMER_IRQ, 1)[j \div 4][j % 4]
                 = IF j = TIMER_IRQ THEN 1 ELSE ITARGETSR[j \div 4][j % 4]
      BY ONLY <1>1, <2>1, GicSet4, ZenonT(60)
    <2> QED
      BY ONLY <2>1, <2>9
  <1>5. /\ ICFGR' \in [0 .. Gic!NrRegs(16) - 1 -> [0 .. 15 -> Nat]]
        /\ \A j \in Gic!Irqs :
             j >= PPI0 => ((ICFGR'[j \div 16][j % 16] = Gic!Edge) <=> (j = TIMER_IRQ))
    <2>1. /\ ICFGR \in [0 .. Gic!NrRegs(16) - 1 -> [0 .. 15 -> Nat]]
          /\ ICFGR' = Gic!SetField(ICFGR, 16, TIMER_IRQ, Gic!Edge)
          /\ \A j \in Gic!Irqs : j >= PPI0 => ICFGR[j \div 16][j % 16] = Gic!Level
      BY DEF Gic!TypeOK, Gic!NothingStandsOut
    <2>2. Gic!Edge \in Nat /\ Gic!Edge # Gic!Level
      BY DEF Gic!Edge, Gic!Level
    <2>9. /\ Gic!SetField(ICFGR, 16, TIMER_IRQ, Gic!Edge) \in [0 .. Gic!NrRegs(16) - 1 -> [0 .. 15 -> Nat]]
          /\ \A j \in Gic!Irqs :
               Gic!SetField(ICFGR, 16, TIMER_IRQ, Gic!Edge)[j \div 16][j % 16]
                 = IF j = TIMER_IRQ THEN Gic!Edge ELSE ICFGR[j \div 16][j % 16]
      BY ONLY <1>1, <2>1, <2>2, GicSet16, ZenonT(60)
    <2> QED
      BY ONLY <2>2, <2>1, <2>9
  <1>6. Gic!TypeOK'
    <2>1. cntv' \in BOOLEAN /\ expired' \in BOOLEAN /\ fresh' \in BOOLEAN
      BY Zenon DEF Gic!TypeOK
    <2> QED
      BY <1>1, <1>2, <1>3, <1>4, <1>5, <2>1 DEF Gic!TypeOK
  <1>7. Gic!TimerStandsOut'
    BY <1>2, <1>3, <1>4, <1>5 DEF Gic!TimerStandsOut
  <1>8. Gic!NothingStandsOut' /\ Gic!FoundTimer'
    BY DEF Gic!NothingStandsOut, Gic!FoundTimer
  <1>9. Gic!Periods'
    BY <1>2 DEF Gic!Periods
  <1> QED
    BY <1>6, <1>7, <1>8, <1>9

(* Once the registers are set up no step writes them; the only interrupt   *)
(* is that of the timer, and it is pending only while the timer is expired.*)
LEMMA GicRuns ==
  ASSUME Gic!IInv, Gic!Main \/ Gic!Trap \/ Gic!Disable \/ Gic!Timer \/ Gic!Return \/ Gic!Tick
  PROVE  Gic!IInv'
  <1> USE DEF Gic!SettingUp, Gic!Handler
  <1> DEFINE B == cntv' \in BOOLEAN /\ expired' \in BOOLEAN /\ fresh' \in BOOLEAN
             S == enabled' \subseteq {TIMER_IRQ} /\ pending' \subseteq {TIMER_IRQ}
             C == cpu' \in Gic!Handler \cup {"start", "wfi"}
  <1>1. /\ cpu \in Gic!Handler \cup {"start", "wfi"}
        /\ UNCHANGED <<IPRIORITYR, ITARGETSR, ICFGR>>
    BY DEF Gic!IInv, Gic!TypeOK, Gic!Main, Gic!Trap, Gic!Disable, Gic!Timer, Gic!NextPeriod,
       Gic!Return, Gic!Tick, Gic!regs
  <1>2. /\ enabled \subseteq {TIMER_IRQ} /\ pending \subseteq {TIMER_IRQ}
        /\ Gic!FoundTimer /\ Gic!Periods
    BY <1>1 DEF Gic!IInv, Gic!TimerStandsOut
  <1>3. cntv \in BOOLEAN /\ expired \in BOOLEAN /\ fresh \in BOOLEAN
    BY DEF Gic!IInv, Gic!TypeOK
  <1> SUFFICES B /\ S /\ C /\ Gic!FoundTimer' /\ Gic!Periods'
    <2>1. ASSUME B /\ S /\ C /\ Gic!FoundTimer' /\ Gic!Periods'
          PROVE  Gic!TypeOK'
      BY <1>1, <2>1, GicNumbers DEF Gic!IInv, Gic!TypeOK
    <2>2. ASSUME S /\ C
          PROVE  Gic!TimerStandsOut' /\ Gic!NothingStandsOut'
      BY <1>1, <2>2 DEF Gic!IInv, Gic!TimerStandsOut, Gic!NothingStandsOut
    <2> QED
      BY <2>1, <2>2 DEF Gic!IInv
  <1>4. CASE Gic!Main
    <2>1. B
      BY <1>3, <1>4, Zenon DEF Gic!Main
    <2>2. S /\ C /\ Gic!FoundTimer'
      BY <1>2, <1>4 DEF Gic!Main, Gic!Latch, Gic!FoundTimer
    <2>3. Gic!Periods'
      BY <1>2, <1>4 DEF Gic!Main, Gic!Latch, Gic!Line, Gic!Periods
    <2> QED
      BY <2>1, <2>2, <2>3
  <1>5. CASE Gic!Trap
    <2>1. B
      BY <1>3, <1>5, Zenon DEF Gic!Trap
    <2>2. pending = {TIMER_IRQ} /\ TIMER_IRQ <= TIMER_IRQ
      BY <1>2, <1>5, GicNumbers DEF Gic!Trap
    <2>3. irq' = TIMER_IRQ
      BY <1>5, <2>2 DEF Gic!Trap
    <2>4. S /\ C /\ Gic!FoundTimer'
      BY <1>2, <1>5, <2>3 DEF Gic!Trap, Gic!FoundTimer
    <2>5. Gic!Periods'
      BY <1>2, <1>5, <2>2 DEF Gic!Trap, Gic!Periods
    <2> QED
      BY <2>1, <2>4, <2>5
  <1>6. CASE Gic!Disable
    <2>1. B
      BY <1>3, <1>6, Zenon DEF Gic!Disable
    <2>2. S /\ C /\ Gic!FoundTimer' /\ pending' = {}
      BY <1>2, <1>6 DEF Gic!Disable, Gic!FoundTimer
    <2>3. Gic!Periods'
      BY <1>2, <1>6, <2>2 DEF Gic!Disable, Gic!Periods
    <2> QED
      BY <2>1, <2>2, <2>3
  <1>7. CASE Gic!Timer
    <2>1. B
      BY <1>3, <1>7, Zenon DEF Gic!Timer, Gic!NextPeriod, Gic!DisableCntv, Gic!WriteCval,
         Gic!EnableCntv
    <2>2. S /\ C /\ Gic!FoundTimer'
      BY <1>2, <1>7 DEF Gic!Timer, Gic!NextPeriod, Gic!DisableCntv, Gic!WriteCval,
         Gic!EnableCntv, Gic!Latch, Gic!FoundTimer
    <2> SUFFICES Gic!Periods'
      BY <2>1, <2>2
    <2>3. CASE cpu = "timer"
      BY <1>2, <1>7, <2>3 DEF Gic!Timer, Gic!NextPeriod, Gic!DisableCntv, Gic!Periods
    <2>4. CASE cpu = "cval"
      <3>1. fresh = FALSE
        BY <1>2, <2>4 DEF Gic!Periods
      <3> QED
        BY <1>2, <1>7, <2>4, <3>1 DEF Gic!Timer, Gic!NextPeriod, Gic!WriteCval, Gic!Periods
    <2>5. CASE cpu = "enable"
      BY <1>2, <1>7, <2>5 DEF Gic!Timer, Gic!NextPeriod, Gic!EnableCntv, Gic!Latch, Gic!Line,
         Gic!Periods
    <2> QED
      BY <1>7, <2>3, <2>4, <2>5 DEF Gic!Timer, Gic!NextPeriod
  <1>8. CASE Gic!Return
    <2>1. B
      BY <1>3, <1>8, Zenon DEF Gic!Return
    <2>2. S /\ C /\ Gic!FoundTimer'
      BY <1>2, <1>8 DEF Gic!Return, Gic!EnableInt, Gic!FoundTimer
    <2>3. Gic!Periods'
      BY <1>2, <1>8 DEF Gic!Return, Gic!Periods
    <2> QED
      BY <2>1, <2>2, <2>3
  <1>9. CASE Gic!Tick
    <2>1. B
      BY <1>3, <1>9, Zenon DEF Gic!Tick
    <2>2. S /\ C /\ Gic!FoundTimer'
      BY <1>1, <1>2, <1>9 DEF Gic!Tick, Gic!Latch, Gic!FoundTimer
    <2>3. Gic!Periods'
      BY <1>2, <1>9 DEF Gic!Tick, Gic!Latch, Gic!Periods
    <2> QED
      BY <2>1, <2>2, <2>3
  <1> QED
    BY <1>4, <1>5, <1>6, <1>7, <1>8, <1>9

LEMMA GicStep == Gic!IInv /\ [Gic!Next]_Gic!gicvars => Gic!IInv'
  <1>1. ASSUME Gic!IInv, Gic!InitGicc
        PROVE  Gic!IInv'
    <2> USE <1>1 DEF Gic!IInv, Gic!InitGicc, Gic!regs, Gic!SettingUp, Gic!Handler
    <2>1. Gic!TypeOK'
      BY DEF Gic!TypeOK
    <2>2. Gic!NothingStandsOut' /\ Gic!TimerStandsOut' /\ Gic!FoundTimer'
      BY DEF Gic!NothingStandsOut, Gic!TimerStandsOut, Gic!FoundTimer
    <2>3. Gic!Periods'
      BY DEF Gic!Periods
    <2> QED
      BY <2>1, <2>2, <2>3
  <1>2. ASSUME Gic!IInv, UNCHANGED Gic!gicvars
        PROVE  Gic!IInv'
    <2> USE <1>2 DEF Gic!IInv, Gic!gicvars
    <2>1. Gic!TypeOK'
      BY DEF Gic!TypeOK
    <2>2. Gic!NothingStandsOut' /\ Gic!TimerStandsOut' /\ Gic!FoundTimer'
      BY DEF Gic!NothingStandsOut, Gic!TimerStandsOut, Gic!FoundTimer
    <2>3. Gic!Periods'
      BY DEF Gic!Periods
    <2> QED
      BY <2>1, <2>2, <2>3
  <1> QED
    BY <1>1, <1>2, GicInitGicd, GicConfigure, GicRuns DEF Gic!Next, Gic!Cpu

(* An interrupt that is taken is that of a timer that is expired and has   *)
(* not been heard of.                                                      *)
LEMMA GicOneTrap ==
  ASSUME Gic!IInv, Gic!Next, cpu = "wfi", cpu' = "found"
  PROVE  fresh
  <1>1. Gic!Trap
    BY DEF Gic!Next, Gic!Cpu, Gic!InitGicd, Gic!InitGicc, Gic!Configure, Gic!Main, Gic!Disable,
       Gic!Timer, Gic!NextPeriod, Gic!Return, Gic!Tick
  <1>2. expired /\ fresh = expired
    BY <1>1 DEF Gic!IInv, Gic!Periods, Gic!Trap, Gic!SettingUp
  <1> QED
    BY <1>2

-----------------------------------------------------------------------------
(* The drawing program.                                                    *)

(* A set of numbers has a least one.                                       *)
LEMMA DrmLeast ==
  ASSUME NEW S \in SUBSET Nat, S # {}
  PROVE  Drm!Min(S) \in S
  <1>1. \E x \in S : \A y \in S : <<y, x>> \notin OpToRel(<, Nat)
    BY WFMin, NatLessThanWellFounded, Zenon
  <1>2. PICK x \in S : \A y \in S : ~ (y < x)
    BY <1>1, Zenon DEF OpToRel
  <1>3. \A y \in S : x =< y
    BY <1>2
  <1> QED
    BY <1>3 DEF Drm!Min

(* A list with one more in front, without its first, or with one that has  *)
(* saved its CRTC.                                                         *)
LEMMA DrmPrepend ==
  ASSUME NEW S, NEW s \in Seq(S), NEW e \in S
  PROVE  /\ <<e>> \o s \in Seq(S) /\ Len(<<e>> \o s) = Len(s) + 1
         /\ (<<e>> \o s)[1] = e
         /\ \A k \in 2 .. Len(s) + 1 : (<<e>> \o s)[k] = s[k - 1]
  OBVIOUS

LEMMA DrmTail ==
  ASSUME NEW S, NEW s \in Seq(S), s # <<>>
  PROVE  /\ Tail(s) \in Seq(S) /\ Len(Tail(s)) = Len(s) - 1
         /\ Head(s) = s[1] /\ 1 \in DOMAIN s /\ DOMAIN s = 1 .. Len(s)
         /\ DOMAIN Tail(s) = 1 .. Len(s) - 1
         /\ \A k \in 1 .. Len(s) - 1 : Tail(s)[k] = s[k + 1]
  OBVIOUS

LEMMA DrmSave ==
  ASSUME NEW s \in Seq(Drm!Devs), NEW n \in 1 .. Len(s), NEW v \in Drm!Screens
  PROVE  LET t == [s EXCEPT ![n].saved_crtc = v] IN
         /\ t \in Seq(Drm!Devs) /\ Len(t) = Len(s) /\ DOMAIN t = DOMAIN s
         /\ \A k \in DOMAIN s : /\ t[k].conn = s[k].conn /\ t[k].crtc = s[k].crtc
                                /\ t[k].saved_crtc = IF k = n THEN v ELSE s[k].saved_crtc
  <1> DEFINE t == [s EXCEPT ![n].saved_crtc = v]
  <1>1. DOMAIN s = 1 .. Len(s) /\ \A k \in 1 .. Len(s) : s[k] \in Drm!Devs
    OBVIOUS
  <1>2. \A k \in 1 .. Len(s) : t[k] = IF k = n THEN [s[n] EXCEPT !.saved_crtc = v] ELSE s[k]
    BY <1>1
  <1>3. [s[n] EXCEPT !.saved_crtc = v] \in Drm!Devs
    BY <1>1 DEF Drm!Devs
  <1>4. DOMAIN t = 1 .. Len(s) /\ Len(s) \in Nat
    BY <1>1
  <1>5. \A k \in 1 .. Len(s) : t[k] \in Drm!Devs
    BY <1>1, <1>2, <1>3
  <1>6. t = [k \in 1 .. Len(s) |-> t[k]]
    BY <1>4
  <1>7. t \in Seq(Drm!Devs) /\ Len(t) = Len(s)
    BY <1>4, <1>5, <1>6
  <1>8. \A k \in DOMAIN s :
          /\ t[k].conn = s[k].conn /\ t[k].crtc = s[k].crtc
          /\ t[k].saved_crtc = IF k = n THEN v ELSE s[k].saved_crtc
    BY <1>1, <1>2 DEF Drm!Devs
  <1> QED
    BY <1>1, <1>4, <1>7, <1>8

(* What is in the list.                                                    *)
LEMMA DrmItems ==
  ASSUME Drm!TypeOK
  PROVE  /\ DOMAIN modeset_list = 1 .. Len(modeset_list) /\ Len(modeset_list) \in Nat
         /\ \A k \in DOMAIN modeset_list :
              LET d == modeset_list[k] IN
              /\ d \in Drm!Devs /\ d.conn \in connectors /\ d.crtc \in crtcs
              /\ d.conn \in Nat \ {0} /\ d.saved_crtc \in Drm!Screens
  <1>1. DOMAIN modeset_list = 1 .. Len(modeset_list) /\ Len(modeset_list) \in Nat
    BY DEF Drm!TypeOK
  <1>2. \A k \in DOMAIN modeset_list : modeset_list[k] \in Drm!Devs
    BY DEF Drm!TypeOK
  <1> QED
    BY <1>1, <1>2, ProgramsAssumption DEF ProgramsAssumption, Drm!Devs

LEMMA DrmInit == Drm!Init => Drm!IInv
  <1> SUFFICES ASSUME Drm!Init PROVE Drm!IInv
    OBVIOUS
  <1> USE DEF Drm!Init
  <1>1. modeset_list \in Seq(Drm!Devs) /\ DOMAIN modeset_list = {}
    BY EmptySeq
  <1>2. 0 \in 0 .. Colors - 1
    BY ProgramsAssumption DEF ProgramsAssumption
  <1>5. failed \in BOOLEAN /\ up \in BOOLEAN
    BY Zenon
  <1>6. i \in Nat /\ drawn \in Nat \ {0} /\ r \in 0 .. Colors - 1
    BY <1>2
  <1>7. drawing = "off" /\ ~Drm!Creates
    BY DEF Drm!Creates
  <1>8. fbs \subseteq connectors /\ dumbs \subseteq connectors
    OBVIOUS
  <1>9. Drm!TypeOK
    BY <1>1, <1>5, <1>6, <1>7, <1>8, Zenon DEF Drm!TypeOK
  <1>3. Drm!InOrder /\ Drm!OneConnectorPerCrtc /\ Drm!CrtcIsFree /\ Drm!Holdings
    BY <1>1 DEF Drm!InOrder, Drm!OneConnectorPerCrtc, Drm!CrtcIsFree, Drm!Holdings, Drm!Listed
  <1>4. Drm!Wired /\ Drm!OwnCrtcs /\ Drm!Shown /\ Drm!Ended
    BY DEF Drm!Wired, Drm!OwnCrtcs, Drm!Shown, Drm!Ended
  <1> QED
    BY <1>3, <1>4, <1>9 DEF Drm!IInv

(* modeset_find_crtc finds a CRTC that nothing in the list has.            *)
LEMMA DrmFirst ==
  ASSUME Drm!TypeOK, drawing = "connector", i \in connectors, Drm!Candidates(i) # {}
  PROVE  Drm!First(i) \in crtcs \ Drm!InUse
  <1> DEFINE C == Drm!Candidates(i)
             E == {p[1] : p \in C}
             e == Drm!Min(E)
             T == {p[2] : p \in {q \in C : q[1] = e}}
  <1>1. conn[i].encs \in encoders
    BY DEF Drm!TypeOK
  <1>2. conn[i].encs \in Seq(SUBSET crtcs)
    BY <1>1, ProgramsAssumption DEF ProgramsAssumption
  <1>3. C \subseteq Nat \X crtcs /\ \A p \in C : p[2] \in crtcs \ Drm!InUse
    BY <1>2 DEF Drm!Candidates
  <1>4. E \in SUBSET Nat /\ E # {}
    BY <1>3
  <1>5. e \in E
    BY <1>4, DrmLeast
  <1>6. T \in SUBSET (crtcs \ Drm!InUse) /\ T # {}
    BY <1>3, <1>5
  <1>7. Drm!Min(T) \in T
    BY <1>6, DrmLeast, ProgramsAssumption DEF ProgramsAssumption
  <1> QED
    BY <1>6, <1>7 DEF Drm!First

(* A color stays a color, and changes by less than Mod.                    *)
LEMMA DrmColor ==
  ASSUME r \in 0 .. Colors - 1, up \in BOOLEAN, NEW step \in 0 .. Mod - 1, Drm!NextColor(step)
  PROVE  r' \in 0 .. Colors - 1 /\ r' - r \in -(Mod - 1) .. (Mod - 1)
  <1>1. Colors \in Nat \ {0} /\ Mod \in 1 .. Colors
    BY ProgramsAssumption DEF ProgramsAssumption
  <1>2. r \in Int /\ 0 =< r /\ r < Colors /\ step \in Int /\ 0 =< step /\ step < Mod /\ Mod =< Colors
    BY <1>1
  <1>3. CASE up
    <2>1. (r + step) % Colors = IF r + step < Colors THEN r + step ELSE r + step - Colors
      BY <1>1, <1>2
    <2>2. r' = IF (r + step) % Colors < r THEN r ELSE (r + step) % Colors
      BY <1>3 DEF Drm!NextColor, Drm!Turns
    <2> QED
      BY <1>1, <1>2, <2>1, <2>2
  <1>4. CASE ~up
    <2>1. (r + (-step)) % Colors = IF step =< r THEN r - step ELSE r - step + Colors
      BY <1>1, <1>2
    <2>2. r' = IF (r + (-step)) % Colors > r THEN r ELSE (r + (-step)) % Colors
      BY <1>4 DEF Drm!NextColor, Drm!Turns
    <2> QED
      BY <1>1, <1>2, <2>1, <2>2
  <1> QED
    BY <1>3, <1>4

LEMMA DrmColors ==
  ASSUME Drm!TypeOK, Drm!Next
  PROVE  r' \in 0 .. Colors - 1 /\ up' \in BOOLEAN
  <1>1. r \in 0 .. Colors - 1 /\ up \in BOOLEAN
    BY DEF Drm!TypeOK
  <1>2. 0 \in 0 .. Colors - 1 /\ 0 .. Colors - 2 \subseteq 0 .. Colors - 1
    BY ProgramsAssumption DEF ProgramsAssumption
  <1>3. CASE Drm!Draw
    <2>1. PICK step \in 0 .. Mod - 1 : Drm!NextColor(step)
      BY <1>3 DEF Drm!Draw
    <2>2. up' \in BOOLEAN
      BY <1>1, <2>1, Zenon DEF Drm!NextColor
    <2> QED
      BY <1>1, <2>1, <2>2, DrmColor
  <1>4. CASE Drm!StartDrawing
    <2>1. up' \in BOOLEAN
      BY <1>4, Zenon DEF Drm!StartDrawing
    <2> QED
      BY <1>2, <1>4, <2>1 DEF Drm!StartDrawing
  <1>5. CASE Drm!StopDrawing
    <2>1. up' \in BOOLEAN
      BY <1>5, Zenon DEF Drm!StopDrawing
    <2> QED
      BY <1>2, <1>5, <2>1 DEF Drm!StopDrawing
  <1>6. CASE UNCHANGED <<r, up>>
    BY <1>1, <1>6
  <1>7. Drm!Next => Drm!Draw \/ Drm!StartDrawing \/ Drm!StopDrawing \/ UNCHANGED <<r, up>>
    BY DEF Drm!Next, Drm!Run, Drm!Skip, Drm!FindCrtc, Drm!CreateFb, Drm!Prepared, Drm!SetCrtc,
           Drm!Cleanup, Drm!Close
  <1> QED
    BY <1>3, <1>4, <1>5, <1>6, <1>7

(* The steps that set up no connector and touch no screen.                 *)
Quiet == \/ Drm!Skip \/ Drm!Prepared \/ Drm!StartDrawing \/ Drm!Draw \/ Drm!StopDrawing
         \/ Drm!Close

LEMMA DrmQuiet ==
  ASSUME Drm!IInv, Quiet
  PROVE  Drm!IInv'
  <1> USE DEF Drm!IInv
  <1>1. /\ UNCHANGED <<conn, before, screen, modeset_list, fbs, dumbs, maps, failed>>
        /\ drawing \in {"connector", "setcrtc", "draw", "cleanup"}
        /\ drawing' \in {"connector", "setcrtc", "draw", "cleanup", "closed"}
    BY DEF Quiet, Drm!Skip, Drm!Prepared, Drm!StartDrawing, Drm!Draw, Drm!StopDrawing,
           Drm!Close, Drm!hw, Drm!held, Drm!NextConnector
  <1>2. i' \in Nat /\ i' >= i /\ drawn' \in Nat \ {0}
    BY DEF Drm!TypeOK, Quiet, Drm!Skip, Drm!Prepared, Drm!StartDrawing, Drm!Draw,
           Drm!StopDrawing, Drm!Close, Drm!NextConnector
  <1>3. ~Drm!Creates /\ ~Drm!Creates'
    BY <1>1 DEF Drm!Creates
  <1>4. Drm!TypeOK'
    <2>1. r' \in 0 .. Colors - 1 /\ up' \in BOOLEAN
      BY DrmColors DEF Quiet, Drm!Next
    <2>2. /\ modeset_list' \in Seq(Drm!Devs)
          /\ conn' \in [connectors -> [current : crtcs \cup {Drm!None}, encs : encoders]]
          /\ before' \in [crtcs -> Drm!Screens] /\ screen' \in [crtcs -> Drm!Screens]
          /\ fbs' \subseteq connectors /\ dumbs' \subseteq connectors
          /\ failed' \in BOOLEAN
      BY <1>1, Zenon DEF Drm!TypeOK
    <2> QED
      BY <1>1, <1>2, <1>3, <2>1, <2>2, Zenon DEF Drm!TypeOK
  <1>5. Drm!Wired'
    BY <1>1 DEF Drm!Wired
  <1>6. Drm!InOrder'
    <2>1. i \in Nat /\ \A k \in DOMAIN modeset_list : modeset_list[k].conn \in Nat
      BY DrmItems DEF Drm!TypeOK
    <2> QED
      BY <1>1, <1>2, <2>1 DEF Drm!InOrder
  <1>7. Drm!OneConnectorPerCrtc' /\ Drm!CrtcIsFree'
    BY <1>1, <1>3 DEF Drm!OneConnectorPerCrtc, Drm!CrtcIsFree
  <1>8. Drm!Holdings'
    BY <1>1 DEF Drm!Holdings, Drm!Listed
  <1>9. Drm!OwnCrtcs'
    BY <1>1, <1>3 DEF Drm!OwnCrtcs, Drm!AllLit
  <1>10. Drm!Driven' = Drm!Driven
    <2>1. DOMAIN modeset_list = 1 .. Len(modeset_list) /\ Len(modeset_list) \in Nat /\ drawn \in Nat
      BY DEF Drm!TypeOK
    <2>2. CASE Drm!Prepared
      BY <2>1, <2>2 DEF Drm!Prepared, Drm!Driven
    <2>3. CASE Drm!StartDrawing
      BY <2>1, <2>3 DEF Drm!StartDrawing, Drm!Driven
    <2>4. CASE Drm!Skip \/ Drm!Draw \/ Drm!StopDrawing \/ Drm!Close
      BY <1>1, <2>4 DEF Drm!Skip, Drm!NextConnector, Drm!Draw, Drm!StopDrawing, Drm!Close, Drm!Driven
    <2> QED
      BY <2>2, <2>3, <2>4 DEF Quiet
  <1>11. Drm!Shown'
    BY <1>1, <1>10 DEF Drm!Shown, Drm!AllLit
  <1>12. Drm!Ended'
    BY <1>1 DEF Quiet, Drm!Skip, Drm!Prepared, Drm!StartDrawing, Drm!Draw, Drm!StopDrawing,
                Drm!Close, Drm!NextConnector, Drm!Ended
  <1> QED
    BY <1>4, <1>5, <1>6, <1>7, <1>8, <1>9, <1>11, <1>12

(* The card has shown nothing of the program's yet.                        *)
LEMMA DrmRun ==
  ASSUME Drm!IInv, Drm!Run
  PROVE  Drm!IInv'
  <1> USE DEF Drm!IInv
  <1>1. /\ drawing = "off" /\ drawing' = "connector" /\ screen' = before'
        /\ UNCHANGED <<i, dev, modeset_list, drawn, fbs, dumbs, maps, failed, r, up>>
    BY DEF Drm!Run, Drm!held
  <1>2. modeset_list' = <<>> /\ DOMAIN modeset_list' = {} /\ ~Drm!Creates'
    BY <1>1 DEF Drm!InOrder, Drm!Creates
  <1>3. conn' \in [connectors -> [current : crtcs \cup {Drm!None}, encs : encoders]]
    BY DEF Drm!Run
  <1>4. \A c, d \in connectors :
          c # d /\ conn'[c].current # Drm!None => conn'[c].current # conn'[d].current
    BY DEF Drm!Run
  <1> DEFINE lit(t) == \E c \in connectors : conn'[c].current = t
             on(t)  == CHOOSE c \in connectors : conn'[c].current = t
  <1>5. before' = [t \in crtcs |-> IF lit(t) THEN [fb |-> Drm!Console, conn |-> on(t)]
                                   ELSE Drm!Off]
    BY DEF Drm!Run
  <1>6. \A t : lit(t) => on(t) \in connectors /\ conn'[on(t)].current = t
    OBVIOUS
  <1>7. \A c \in connectors : conn'[c].current \in crtcs \cup {Drm!None}
    BY <1>3
  <1>8. \A c \in connectors : conn'[c].current # Drm!None => on(conn'[c].current) = c
    BY <1>4, <1>6
  <1> HIDE DEF lit, on
  <1>9. \A t \in crtcs : before'[t] \in Drm!Screens
    BY <1>5, <1>6 DEF Drm!Screens, Drm!Off
  <1>10. Drm!TypeOK'
    <2>1. before' \in [crtcs -> Drm!Screens]
      BY <1>5, <1>9
    <2>2. modeset_list' \in Seq(Drm!Devs) /\ failed' \in BOOLEAN /\ up' \in BOOLEAN
          /\ r' \in 0 .. Colors - 1 /\ i' \in Nat /\ drawn' \in Nat \ {0}
          /\ fbs' \subseteq connectors /\ dumbs' \subseteq connectors
      BY <1>1, Zenon DEF Drm!TypeOK
    <2> QED
      BY <1>1, <1>2, <1>3, <2>1, <2>2, Zenon DEF Drm!TypeOK
  <1>11. Drm!Wired'
    <2>1. \A c \in connectors :
            conn'[c].current # Drm!None => before'[conn'[c].current] = [fb |-> Drm!Console, conn |-> c]
      BY <1>5, <1>7, <1>8 DEF lit
    <2>2. \A t \in crtcs : /\ before'[t].fb \in {Drm!None, Drm!Console}
                           /\ before'[t].conn # Drm!None => conn'[before'[t].conn].current = t
      BY <1>5, <1>6 DEF Drm!Off
    <2> QED
      BY <1>4, <2>1, <2>2 DEF Drm!Wired
  <1>12. Drm!InOrder' /\ Drm!OneConnectorPerCrtc' /\ Drm!CrtcIsFree' /\ Drm!Ended'
    BY <1>1, <1>2 DEF Drm!InOrder, Drm!OneConnectorPerCrtc, Drm!CrtcIsFree, Drm!Ended
  <1>13. Drm!Holdings'
    BY <1>1 DEF Drm!Holdings, Drm!Listed
  <1>14. Drm!OwnCrtcs' /\ Drm!Shown'
    BY <1>1, <1>2 DEF Drm!OwnCrtcs, Drm!Shown, Drm!Driven
  <1> QED
    BY <1>10, <1>11, <1>12, <1>13, <1>14

(* A free CRTC is found; a connector that was lit finds its own free, as   *)
(* those in the list have theirs.                                          *)
LEMMA DrmFindCrtc ==
  ASSUME Drm!IInv, Drm!FindCrtc
  PROVE  Drm!IInv'
  <1> USE DEF Drm!IInv
  <1>1. /\ drawing = "connector" /\ i \in connectors /\ drawing' = "dumb"
        /\ UNCHANGED <<conn, before, screen, i, modeset_list, drawn, fbs, dumbs, maps, failed, r, up>>
    BY DEF Drm!FindCrtc, Drm!hw, Drm!held
  <1>2. conn[i].current \in crtcs \cup {Drm!None}
    BY <1>1 DEF Drm!TypeOK
  <1>3. PICK t \in crtcs \ Drm!InUse :
          /\ dev' = [Drm!NoDev EXCEPT !.conn = i, !.crtc = t]
          /\ conn[i].current \notin {Drm!None} \cup Drm!InUse => t = conn[i].current
    <2>1. CASE conn[i].current \notin {Drm!None} \cup Drm!InUse
      BY <1>2, <2>1 DEF Drm!FindCrtc
    <2>2. CASE conn[i].current \in {Drm!None} \cup Drm!InUse
      BY <1>1, <2>2, DrmFirst DEF Drm!FindCrtc
    <2> QED
      BY <2>1, <2>2
  <1>4. dev'.conn = i /\ dev'.crtc = t /\ dev' \in Drm!Devs
    BY <1>1, <1>3 DEF Drm!NoDev, Drm!Devs, Drm!Screens, Drm!Off
  <1>5. Drm!TypeOK'
    <2>1. modeset_list' \in Seq(Drm!Devs) /\ failed' \in BOOLEAN /\ up' \in BOOLEAN
          /\ r' \in 0 .. Colors - 1 /\ i' \in Nat /\ drawn' \in Nat \ {0}
          /\ fbs' \subseteq connectors /\ dumbs' \subseteq connectors
          /\ conn' \in [connectors -> [current : crtcs \cup {Drm!None}, encs : encoders]]
          /\ before' \in [crtcs -> Drm!Screens] /\ screen' \in [crtcs -> Drm!Screens]
      BY <1>1, Zenon DEF Drm!TypeOK
    <2> QED
      BY <1>1, <1>4, <2>1, Zenon DEF Drm!TypeOK
  <1>6. Drm!Wired' /\ Drm!InOrder' /\ Drm!OneConnectorPerCrtc' /\ Drm!Ended'
    BY <1>1 DEF Drm!Wired, Drm!InOrder, Drm!OneConnectorPerCrtc, Drm!Ended
  <1>7. Drm!CrtcIsFree'
    BY <1>1, <1>3, <1>4 DEF Drm!CrtcIsFree, Drm!InUse
  <1>8. Drm!Holdings'
    BY <1>1 DEF Drm!Holdings, Drm!Listed
  <1>9. Drm!OwnCrtcs'
    <2>1. ASSUME Drm!AllLit
          PROVE  conn[i].current \notin {Drm!None} \cup Drm!InUse
      <3>1. conn[i].current # Drm!None
        BY <1>1, <2>1 DEF Drm!AllLit
      <3>2. ASSUME NEW k \in DOMAIN modeset_list
            PROVE  modeset_list[k].crtc # conn[i].current
        <4>1. modeset_list[k].conn \in connectors /\ modeset_list[k].conn < i
              /\ modeset_list[k].conn \in Nat
          BY <3>2, DrmItems DEF Drm!InOrder
        <4>2. modeset_list[k].conn # i
          BY <4>1
        <4>3. modeset_list[k].crtc = conn[modeset_list[k].conn].current
          BY <1>1, <2>1, <3>2 DEF Drm!OwnCrtcs
        <4> QED
          BY <1>1, <3>1, <4>1, <4>2, <4>3 DEF Drm!Wired
      <3> QED
        BY <3>1, <3>2 DEF Drm!InUse
    <2>2. Drm!AllLit' = Drm!AllLit
      BY <1>1 DEF Drm!AllLit
    <2> QED
      BY <1>1, <1>3, <1>4, <2>1, <2>2 DEF Drm!OwnCrtcs
  <1>10. Drm!Shown'
    BY <1>1 DEF Drm!Shown, Drm!Driven, Drm!AllLit
  <1> QED
    BY <1>5, <1>6, <1>7, <1>8, <1>9, <1>10

(* A framebuffer is made and mapped, step by step; a step that fails gives *)
(* up what the earlier ones made, and the next connector comes.            *)
LEMMA DrmCreateFb ==
  ASSUME Drm!IInv, Drm!CreateFb
  PROVE  Drm!IInv'
  <1> USE DEF Drm!IInv
  <1>1. /\ Drm!Creates /\ drawing' \in {"addfb", "map", "connector"}
        /\ UNCHANGED <<conn, before, screen, drawn, failed, r, up>>
    BY DEF Drm!CreateFb, Drm!Creates, Drm!hw, Drm!NextConnector
  <1>2. i \in connectors /\ i \in Nat /\ dev \in Drm!Devs /\ dev.conn = i
    BY <1>1 DEF Drm!TypeOK
  <1>3. \A k \in DOMAIN modeset_list :
          modeset_list[k].conn \in connectors /\ modeset_list[k].conn \in Nat
          /\ modeset_list[k].conn < i /\ modeset_list[k].conn # i
    <2>1. \A k \in DOMAIN modeset_list :
            modeset_list[k].conn \in connectors /\ modeset_list[k].conn \in Nat
            /\ modeset_list[k].conn < i
      BY DrmItems DEF Drm!InOrder
    <2> QED
      BY <1>2, <2>1
  <1>4. i \notin Drm!Listed /\ Drm!Listed \subseteq connectors
    BY <1>3 DEF Drm!Listed
  <1>5. UNCHANGED <<Drm!Wired, Drm!AllLit>> /\ Drm!Driven = {} /\ Drm!Driven' = {}
    BY <1>1 DEF Drm!Wired, Drm!AllLit, Drm!Driven, Drm!Creates
  <1>6. Drm!Wired' /\ Drm!Shown' /\ Drm!Ended'
    <2>1. Drm!Shown'
      BY <1>1, <1>5 DEF Drm!Shown, Drm!Creates
    <2> QED
      BY <1>1, <1>5, <2>1 DEF Drm!Ended
  <1>7. ASSUME fbs' \subseteq connectors, dumbs' \subseteq connectors,
               modeset_list' \in Seq(Drm!Devs), i' \in Nat,
               Drm!Creates' => UNCHANGED <<i, dev>>
        PROVE  Drm!TypeOK'
    <2>1. failed' \in BOOLEAN /\ up' \in BOOLEAN
          /\ r' \in 0 .. Colors - 1 /\ drawn' \in Nat \ {0}
          /\ conn' \in [connectors -> [current : crtcs \cup {Drm!None}, encs : encoders]]
          /\ before' \in [crtcs -> Drm!Screens] /\ screen' \in [crtcs -> Drm!Screens]
      BY <1>1, Zenon DEF Drm!TypeOK, Drm!Creates
    <2>2. Drm!Creates' => i' \in connectors /\ dev' \in Drm!Devs /\ dev'.conn = i'
      BY <1>2, <1>7
    <2> QED
      BY <1>1, <1>7, <2>1, <2>2, Zenon DEF Drm!TypeOK
  <1>8. CASE UNCHANGED <<i, dev, modeset_list>> /\ drawing' \in {"addfb", "map"}
    <2>1. Drm!Holdings'
      <3>1. CASE drawing = "dumb"
        BY <1>8, <3>1 DEF Drm!CreateFb, Drm!Holdings, Drm!Listed, Drm!NextConnector
      <3>2. CASE drawing = "addfb"
        BY <1>8, <3>2 DEF Drm!CreateFb, Drm!Holdings, Drm!Listed, Drm!NextConnector
      <3>3. CASE drawing = "map"
        BY <1>8, <3>3 DEF Drm!CreateFb, Drm!NextConnector
      <3> QED
        BY <1>1, <3>1, <3>2, <3>3 DEF Drm!Creates
    <2>2. Drm!TypeOK'
      BY <1>2, <1>4, <1>7, <1>8, <2>1 DEF Drm!TypeOK, Drm!Holdings, Drm!Listed
    <2>3. /\ Drm!InOrder' /\ Drm!OneConnectorPerCrtc' /\ Drm!CrtcIsFree' /\ Drm!OwnCrtcs'
      BY <1>1, <1>8 DEF Drm!InOrder, Drm!OneConnectorPerCrtc, Drm!CrtcIsFree, Drm!OwnCrtcs,
         Drm!AllLit, Drm!Creates
    <2> QED
      BY <1>6, <2>1, <2>2, <2>3
  <1>9. CASE UNCHANGED modeset_list /\ Drm!NextConnector
    <2>1. drawing' = "connector" /\ ~Drm!Creates' /\ i' = i + 1
      BY <1>9 DEF Drm!NextConnector, Drm!Creates
    <2>2. Drm!Holdings'
      <3>1. CASE drawing = "dumb"
        BY <1>9, <2>1, <3>1 DEF Drm!CreateFb, Drm!Holdings, Drm!Listed
      <3>2. CASE drawing = "addfb"
        BY <1>4, <1>9, <2>1, <3>2 DEF Drm!CreateFb, Drm!Holdings, Drm!Listed
      <3>3. CASE drawing = "map"
        <4>1. modeset_list # <<dev>> \o modeset_list
          BY <1>2, DrmPrepend DEF Drm!TypeOK
        <4> QED
          BY <1>4, <1>9, <2>1, <3>3, <4>1 DEF Drm!CreateFb, Drm!ErrFb, Drm!Holdings, Drm!Listed
      <3> QED
        BY <1>1, <3>1, <3>2, <3>3 DEF Drm!Creates
    <2>3. Drm!TypeOK'
      BY <1>2, <1>4, <1>7, <1>9, <2>1, <2>2 DEF Drm!TypeOK, Drm!Holdings, Drm!Listed
    <2>4. Drm!InOrder'
      BY <1>1, <1>2, <1>3, <1>9, <2>1 DEF Drm!InOrder, Drm!Creates
    <2>5. Drm!OneConnectorPerCrtc' /\ Drm!CrtcIsFree' /\ Drm!OwnCrtcs'
      BY <1>1, <1>9, <2>1 DEF Drm!OneConnectorPerCrtc, Drm!CrtcIsFree, Drm!OwnCrtcs, Drm!AllLit,
         Drm!Creates
    <2> QED
      BY <1>6, <2>2, <2>3, <2>4, <2>5
  <1>10. CASE drawing = "map" /\ Drm!NextConnector /\ modeset_list' = <<dev>> \o modeset_list
              /\ maps' = maps \cup {i} /\ UNCHANGED <<fbs, dumbs>>
    <2>1. drawing' = "connector" /\ ~Drm!Creates' /\ i' = i + 1
      BY <1>10 DEF Drm!NextConnector, Drm!Creates
    <2> DEFINE n == Len(modeset_list)
    <2>2. /\ modeset_list' \in Seq(Drm!Devs) /\ DOMAIN modeset_list' = 1 .. n + 1
          /\ n \in Nat /\ DOMAIN modeset_list = 1 .. n
          /\ modeset_list'[1] = dev
          /\ \A k \in 2 .. n + 1 : modeset_list'[k] = modeset_list[k - 1] /\ k - 1 \in 1 .. n
          /\ \A k \in 1 .. n : k + 1 \in 2 .. n + 1 /\ modeset_list'[k + 1] = modeset_list[k]
      BY <1>2, <1>10, DrmPrepend, DrmItems DEF Drm!TypeOK
    <2>3. Drm!Listed' = Drm!Listed \cup {i}
      <3>1. \A k \in 2 .. n + 1 : modeset_list'[k].conn \in Drm!Listed
        BY <2>2 DEF Drm!Listed
      <3>2. \A k \in 1 .. n + 1 : k = 1 \/ k \in 2 .. n + 1
        BY <2>2
      <3>3. Drm!Listed' \subseteq Drm!Listed \cup {i}
        <4>1. \A k \in DOMAIN modeset_list' : modeset_list'[k].conn \in Drm!Listed \cup {i}
          BY <1>2, <2>2, <3>1, <3>2
        <4> QED
          BY ONLY <4>1 DEF Drm!Listed
      <3>4. Drm!Listed \subseteq Drm!Listed'
        <4>1. \A k \in 1 .. n : k + 1 \in DOMAIN modeset_list'
          BY <2>2
        <4> QED
          BY <2>2, <4>1 DEF Drm!Listed
      <3>5. i \in Drm!Listed'
        <4>1. 1 \in DOMAIN modeset_list'
          BY <2>2
        <4> QED
          BY <1>2, <2>2, <4>1 DEF Drm!Listed
      <3> QED
        BY <3>3, <3>4, <3>5
    <2>4. Drm!Holdings'
      BY <1>10, <2>1, <2>3 DEF Drm!Holdings
    <2>5. Drm!TypeOK'
      BY <1>2, <1>4, <1>7, <1>10, <2>1, <2>2 DEF Drm!TypeOK
    <2>6. Drm!InOrder'
      <3>1. \A k \in DOMAIN modeset_list' : modeset_list'[k].conn < i + 1
        <4>1. \A m \in 1 .. n : modeset_list[m].conn < i + 1
          BY <1>2, <1>3, <2>2
        <4>2. \A k \in 1 .. n + 1 : k = 1 \/ k \in 2 .. n + 1
          BY <2>2
        <4>3. dev.conn < i + 1
          BY <1>2
        <4> QED
          BY <2>2, <4>1, <4>2, <4>3
      <3>2. \A k \in 2 .. n + 1 : modeset_list'[k].conn # modeset_list'[1].conn
        BY <1>2, <1>3, <2>2
      <3>3. \A j, k \in 2 .. n + 1 : j # k => modeset_list'[j].conn # modeset_list'[k].conn
        <4>1. \A j, k \in 1 .. n : j # k => modeset_list[j].conn # modeset_list[k].conn
          BY <2>2 DEF Drm!InOrder
        <4>2. ASSUME NEW j \in 2 .. n + 1, NEW k \in 2 .. n + 1, j # k
              PROVE  j - 1 # k - 1
          BY <2>2, <4>2
        <4> QED
          BY <2>2, <4>1, <4>2
      <3>4. \A k \in 1 .. n + 1 : k = 1 \/ k \in 2 .. n + 1
        BY <2>2
      <3>5. \A j, k \in DOMAIN modeset_list' : j # k => modeset_list'[j].conn # modeset_list'[k].conn
        BY <2>2, <3>2, <3>3, <3>4
      <3> QED
        BY <2>1, <3>1, <3>5 DEF Drm!InOrder
    <2>7. Drm!OneConnectorPerCrtc'
      <3>1. \A k \in 2 .. n + 1 : modeset_list'[k].crtc # modeset_list'[1].crtc
        BY <1>1, <2>2 DEF Drm!CrtcIsFree
      <3>2. \A j, k \in 2 .. n + 1 : j # k => modeset_list'[j].crtc # modeset_list'[k].crtc
        <4>1. \A j, k \in 1 .. n : j # k => modeset_list[j].crtc # modeset_list[k].crtc
          BY <2>2 DEF Drm!OneConnectorPerCrtc
        <4>2. ASSUME NEW j \in 2 .. n + 1, NEW k \in 2 .. n + 1, j # k
              PROVE  j - 1 # k - 1
          BY <2>2, <4>2
        <4> QED
          BY <2>2, <4>1, <4>2
      <3>3. \A k \in 1 .. n + 1 : k = 1 \/ k \in 2 .. n + 1
        BY <2>2
      <3> QED
        BY <2>2, <3>1, <3>2, <3>3 DEF Drm!OneConnectorPerCrtc
    <2>8. Drm!CrtcIsFree'
      BY <2>1 DEF Drm!CrtcIsFree
    <2>9. Drm!OwnCrtcs'
      <3>1. Drm!AllLit' = Drm!AllLit
        BY <1>5
      <3>2. ASSUME Drm!AllLit, NEW k \in 1 .. n + 1
            PROVE  modeset_list'[k].crtc = conn[modeset_list'[k].conn].current
        <4>1. CASE k = 1
          BY <1>1, <1>2, <2>2, <3>2, <4>1 DEF Drm!OwnCrtcs, Drm!Creates
        <4>2. CASE k \in 2 .. n + 1
          BY <1>1, <2>2, <3>2, <4>2 DEF Drm!OwnCrtcs, Drm!Creates
        <4> QED
          BY <2>2, <4>1, <4>2
      <3> QED
        BY <1>1, <2>1, <2>2, <3>1, <3>2 DEF Drm!OwnCrtcs
    <2> QED
      BY <1>6, <2>4, <2>5, <2>6, <2>7, <2>8, <2>9
  <1>11. \/ UNCHANGED <<i, dev, modeset_list>> /\ drawing' \in {"addfb", "map"}
         \/ UNCHANGED modeset_list /\ Drm!NextConnector
         \/ /\ drawing = "map" /\ Drm!NextConnector /\ modeset_list' = <<dev>> \o modeset_list
            /\ maps' = maps \cup {i} /\ UNCHANGED <<fbs, dumbs>>
    BY DEF Drm!CreateFb
  <1> QED
    BY <1>8, <1>9, <1>10, <1>11

(* Where all is as it was or as the program wants it, no other CRTC than   *)
(* its own shows a connector of the list.                                  *)
LEMMA DrmAlone ==
  ASSUME Drm!IInv, drawing \in {"setcrtc", "cleanup"}, Drm!AllLit, ~failed,
         NEW k \in DOMAIN modeset_list, NEW u \in crtcs, u # modeset_list[k].crtc
  PROVE  screen[u].conn # modeset_list[k].conn /\ screen[u].fb # modeset_list[k].conn
  <1> USE DEF Drm!IInv
  <1>1. /\ modeset_list[k].conn \in connectors /\ modeset_list[k].conn \in Nat \ {0}
        /\ modeset_list[k].conn # Drm!None /\ modeset_list[k].conn # Drm!Console
    <2>1. modeset_list[k].conn \in connectors /\ modeset_list[k].conn \in Nat \ {0}
      BY DrmItems
    <2> QED
      BY <2>1 DEF Drm!None, Drm!Console
  <1>2. CASE \E j \in Drm!Driven : modeset_list[j].crtc = u
    <2>1. PICK j \in Drm!Driven : modeset_list[j].crtc = u
      BY <1>2
    <2>2. j \in DOMAIN modeset_list /\ j # k
      BY <2>1 DEF Drm!Driven
    <2>3. screen[u] = [fb |-> modeset_list[j].conn, conn |-> modeset_list[j].conn]
      BY <2>1 DEF Drm!Shown
    <2> QED
      BY <2>2, <2>3 DEF Drm!InOrder
  <1>3. CASE \A j \in Drm!Driven : modeset_list[j].crtc # u
    <2>1. screen[u] = before[u]
      BY <1>3 DEF Drm!Shown
    <2>2. modeset_list[k].crtc = conn[modeset_list[k].conn].current
      BY DEF Drm!OwnCrtcs
    <2>3. before[u].fb \in {Drm!None, Drm!Console}
      BY DEF Drm!Wired
    <2>4. before[u].conn # modeset_list[k].conn
      BY <1>1, <2>2 DEF Drm!Wired
    <2> QED
      BY <1>1, <2>1, <2>3, <2>4
  <1> QED
    BY <1>2, <1>3

(* A CRTC is saved and set.                                                *)
LEMMA DrmSetCrtc ==
  ASSUME Drm!IInv, Drm!SetCrtc
  PROVE  Drm!IInv'
  <1> USE DEF Drm!IInv
  <1> DEFINE n == drawn
             d == modeset_list[drawn]
  <1>1. /\ drawing = "setcrtc" /\ drawing' = "setcrtc" /\ drawn' = drawn + 1
        /\ UNCHANGED <<conn, before, i, dev, fbs, dumbs, maps, r, up>>
        /\ \/ screen' = Drm!Set(d.crtc, d.conn, d.conn) /\ failed' = failed
           \/ failed' = TRUE /\ screen' = screen
        /\ modeset_list' = [modeset_list EXCEPT ![n].saved_crtc = screen[d.crtc]]
    BY DEF Drm!SetCrtc, Drm!Saved, Drm!hw, Drm!held
  <1>2. n \in 1 .. Len(modeset_list) /\ n \in DOMAIN modeset_list
    <2>1. drawn \in Nat \ {0} /\ drawn <= Len(modeset_list)
      BY DEF Drm!TypeOK, Drm!SetCrtc
    <2> QED
      BY <2>1, DrmItems
  <1>3. d.conn \in connectors /\ d.crtc \in crtcs /\ screen \in [crtcs -> Drm!Screens]
        /\ screen[d.crtc] \in Drm!Screens
    BY <1>1, <1>2, DrmItems DEF Drm!TypeOK
  <1>4. /\ modeset_list' \in Seq(Drm!Devs) /\ DOMAIN modeset_list' = DOMAIN modeset_list
        /\ \A k \in DOMAIN modeset_list :
             /\ modeset_list'[k].conn = modeset_list[k].conn
             /\ modeset_list'[k].crtc = modeset_list[k].crtc
             /\ modeset_list'[k].saved_crtc = IF k = n THEN screen[d.crtc]
                                              ELSE modeset_list[k].saved_crtc
    BY <1>1, <1>2, <1>3, DrmSave DEF Drm!TypeOK
  <1>5. screen' \in [crtcs -> Drm!Screens]
    <2>1. [fb |-> d.conn, conn |-> d.conn] \in Drm!Screens /\ Drm!Off \in Drm!Screens
      BY <1>3 DEF Drm!Screens, Drm!Off
    <2>2. CASE screen' = Drm!Set(d.crtc, d.conn, d.conn)
      BY <1>3, <2>1, <2>2 DEF Drm!Set
    <2> QED
      BY <1>1, <1>3, <2>2
  <1>6. Drm!TypeOK'
    <2>1. failed' \in BOOLEAN
      BY <1>1, Zenon DEF Drm!TypeOK
    <2>2. up' \in BOOLEAN /\ r' \in 0 .. Colors - 1 /\ i' \in Nat
          /\ fbs' \subseteq connectors /\ dumbs' \subseteq connectors
          /\ conn' \in [connectors -> [current : crtcs \cup {Drm!None}, encs : encoders]]
          /\ before' \in [crtcs -> Drm!Screens]
      BY <1>1, Zenon DEF Drm!TypeOK
    <2>3. drawn' \in Nat \ {0}
      BY <1>1 DEF Drm!TypeOK
    <2>4. ~Drm!Creates'
      BY <1>1 DEF Drm!Creates
    <2> QED
      BY <1>1, <1>4, <1>5, <2>1, <2>2, <2>3, <2>4, Zenon DEF Drm!TypeOK
  <1>7. Drm!Wired' /\ Drm!CrtcIsFree' /\ Drm!Ended'
    BY <1>1 DEF Drm!Wired, Drm!CrtcIsFree, Drm!Creates, Drm!Ended
  <1>8. Drm!InOrder'
    BY <1>1, <1>4 DEF Drm!InOrder
  <1>9. Drm!OneConnectorPerCrtc'
    BY <1>4 DEF Drm!OneConnectorPerCrtc
  <1>10. Drm!Holdings'
    <2>1. Drm!Listed' = Drm!Listed
      BY <1>4 DEF Drm!Listed
    <2> QED
      BY <1>1, <2>1 DEF Drm!Holdings
  <1>11. Drm!OwnCrtcs'
    BY <1>1, <1>4 DEF Drm!OwnCrtcs, Drm!AllLit, Drm!Creates
  <1>12. Drm!Shown'
    <2> SUFFICES ASSUME Drm!AllLit, ~failed'
                 PROVE  Drm!Shown'
      BY <1>1 DEF Drm!Shown, Drm!AllLit
    <2>1. ~failed /\ screen' = Drm!Set(d.crtc, d.conn, d.conn)
      BY <1>1
    <2>2. screen'[d.crtc] = [fb |-> d.conn, conn |-> d.conn]
      BY <1>3, <2>1 DEF Drm!Set
    <2>3. \A u \in crtcs : u # d.crtc => screen'[u] = screen[u]
      BY <1>1, <1>2, <2>1, DrmAlone DEF Drm!Set
    <2>4. Drm!Driven' = Drm!Driven \cup {n} /\ n \notin Drm!Driven
      <3>1. \A k \in DOMAIN modeset_list : k < n + 1 <=> k < n \/ k = n
        BY <1>2, DrmItems
      <3> QED
        BY <1>1, <1>2, <1>4, <3>1 DEF Drm!Driven
    <2>5. \A k \in Drm!Driven :
            /\ k \in DOMAIN modeset_list /\ k # n
            /\ modeset_list[k].crtc \in crtcs /\ modeset_list[k].crtc # d.crtc
      BY <1>2, <2>4, DrmItems DEF Drm!Driven, Drm!OneConnectorPerCrtc
    <2>6. screen[d.crtc] = before[d.crtc]
      BY <1>1, <1>3, <2>1, <2>5 DEF Drm!Shown
    <2>7. ASSUME NEW k \in Drm!Driven'
          PROVE  /\ screen'[modeset_list'[k].crtc] = [fb |-> modeset_list'[k].conn,
                                                      conn |-> modeset_list'[k].conn]
                 /\ modeset_list'[k].saved_crtc = before[modeset_list'[k].crtc]
      <3>1. CASE k = n
        BY <1>2, <1>4, <2>2, <2>6, <3>1
      <3>2. CASE k \in Drm!Driven
        BY <1>1, <1>4, <2>1, <2>3, <2>5, <3>2 DEF Drm!Shown
      <3> QED
        BY <2>4, <2>7, <3>1, <3>2
    <2>8. ASSUME NEW t \in crtcs, \A k \in Drm!Driven' : modeset_list'[k].crtc # t
          PROVE  screen'[t] = before[t]
      <3>1. t # d.crtc
        BY <1>2, <1>4, <2>4, <2>8
      <3>2. \A k \in Drm!Driven : modeset_list[k].crtc # t
        BY <1>4, <2>4, <2>5, <2>8
      <3> QED
        BY <1>1, <2>1, <2>3, <3>1, <3>2 DEF Drm!Shown
    <2> QED
      BY <1>1, <2>7, <2>8 DEF Drm!Shown
  <1> QED
    BY <1>6, <1>7, <1>8, <1>9, <1>10, <1>11, <1>12

(* The head of the list is put back as it was saved and leaves the list.   *)
LEMMA DrmCleanup ==
  ASSUME Drm!IInv, Drm!Cleanup
  PROVE  Drm!IInv'
  <1> USE DEF Drm!IInv
  <1> DEFINE n == Len(modeset_list)
             d == modeset_list[1]
  <1>1. /\ drawing = "cleanup" /\ drawing' = "cleanup" /\ modeset_list # <<>>
        /\ UNCHANGED <<conn, before, i, dev, drawn, failed, r, up>>
        /\ modeset_list' = Tail(modeset_list)
    BY DEF Drm!Cleanup, Drm!hw
  <1>2. /\ modeset_list' \in Seq(Drm!Devs) /\ DOMAIN modeset_list' = 1 .. n - 1
        /\ Head(modeset_list) = d /\ 1 \in DOMAIN modeset_list
        /\ n \in Nat /\ DOMAIN modeset_list = 1 .. n
        /\ \A k \in 1 .. n - 1 : modeset_list'[k] = modeset_list[k + 1] /\ k + 1 \in 2 .. n
    BY <1>1, DrmTail, DrmItems DEF Drm!TypeOK
  <1>3. /\ d.conn \in connectors /\ d.crtc \in crtcs /\ d.saved_crtc \in Drm!Screens
        /\ d.conn \in Nat \ {0} /\ screen \in [crtcs -> Drm!Screens]
    BY <1>1, <1>2, DrmItems DEF Drm!TypeOK
  <1>4. /\ screen' = [t \in crtcs |-> IF Drm!Restored(d)[t].fb = d.conn THEN Drm!Off
                                      ELSE Drm!Restored(d)[t]]
        /\ maps' = maps \ {d.conn} /\ fbs' = fbs \ {d.conn} /\ dumbs' = dumbs \ {d.conn}
    BY <1>2 DEF Drm!Cleanup
  <1>5. \A k \in 2 .. n : k \in DOMAIN modeset_list /\ k # 1 /\ k - 1 \in 1 .. n - 1
                          /\ modeset_list'[k - 1] = modeset_list[k]
    <2>1. ASSUME NEW k \in 2 .. n
          PROVE  k \in DOMAIN modeset_list /\ k # 1 /\ k - 1 \in 1 .. n - 1 /\ (k - 1) + 1 = k
      BY <1>2
    <2> QED
      BY <1>2, <2>1
  <1>6. \A k \in DOMAIN modeset_list : k = 1 \/ k \in 2 .. n
    BY <1>2
  <1>7. screen' \in [crtcs -> Drm!Screens]
    <2>1. Drm!Off \in Drm!Screens
      BY DEF Drm!Screens, Drm!Off
    <2>2. [fb |-> d.saved_crtc.fb, conn |-> d.conn] \in Drm!Screens
      BY <1>3 DEF Drm!Screens
    <2>3. Drm!Restored(d) \in [crtcs -> Drm!Screens]
      BY <1>3, <2>1, <2>2 DEF Drm!Restored, Drm!Set
    <2> QED
      BY <1>4, <2>1, <2>3
  <1>8. Drm!TypeOK'
    <2>1. failed' \in BOOLEAN /\ up' \in BOOLEAN /\ r' \in 0 .. Colors - 1 /\ i' \in Nat
          /\ drawn' \in Nat \ {0}
          /\ conn' \in [connectors -> [current : crtcs \cup {Drm!None}, encs : encoders]]
          /\ before' \in [crtcs -> Drm!Screens]
      BY <1>1, Zenon DEF Drm!TypeOK
    <2>2. fbs' \subseteq connectors /\ dumbs' \subseteq connectors
      BY <1>4 DEF Drm!TypeOK
    <2>3. ~Drm!Creates'
      BY <1>1 DEF Drm!Creates
    <2> QED
      BY <1>1, <1>2, <1>7, <2>1, <2>2, <2>3, Zenon DEF Drm!TypeOK
  <1>9. Drm!Wired' /\ Drm!CrtcIsFree' /\ Drm!Ended'
    BY <1>1 DEF Drm!Wired, Drm!CrtcIsFree, Drm!Creates, Drm!Ended
  <1>10. \A j, k \in 1 .. n - 1 : j # k => j + 1 # k + 1
    BY <1>2
  <1>11. Drm!InOrder'
    <2>1. \A k \in 1 .. n - 1 : modeset_list'[k].conn < i
      BY <1>2, <1>5 DEF Drm!InOrder
    <2>2. \A j, k \in 1 .. n - 1 : j # k => modeset_list'[j].conn # modeset_list'[k].conn
      BY <1>2, <1>5, <1>10 DEF Drm!InOrder
    <2> QED
      BY <1>1, <1>2, <2>1, <2>2 DEF Drm!InOrder
  <1>12. Drm!OneConnectorPerCrtc'
    <2>1. \A k \in 1 .. n - 1 : modeset_list'[k] = modeset_list[k + 1]
                                /\ k + 1 \in DOMAIN modeset_list
      BY <1>2, <1>5
    <2>2. \A j, k \in DOMAIN modeset_list :
            j # k => modeset_list[j].crtc # modeset_list[k].crtc
      BY DEF Drm!OneConnectorPerCrtc
    <2>3. ASSUME NEW j \in 1 .. n - 1, NEW k \in 1 .. n - 1, j # k
          PROVE  modeset_list'[j].crtc # modeset_list'[k].crtc
      <3>1. modeset_list[j + 1].crtc # modeset_list[k + 1].crtc
        BY ONLY <1>10, <2>1, <2>2, <2>3
      <3> QED
        BY ONLY <2>1, <2>3, <3>1
    <2> QED
      BY ONLY <1>2, <2>3 DEF Drm!OneConnectorPerCrtc
  <1>13. Drm!Holdings'
    <2>1. Drm!Listed' = Drm!Listed \ {d.conn}
      <3>1. \A k \in DOMAIN modeset_list' :
              modeset_list'[k].conn \in Drm!Listed /\ modeset_list'[k].conn # d.conn
        <4>1. \A m \in 2 .. n : modeset_list[m].conn \in Drm!Listed /\ modeset_list[m].conn # d.conn
          BY <1>2, <1>5 DEF Drm!Listed, Drm!InOrder
        <4> QED
          BY <1>2, <4>1
      <3>2. Drm!Listed' \subseteq Drm!Listed /\ d.conn \notin Drm!Listed'
        BY <3>1 DEF Drm!Listed
      <3>3. Drm!Listed \ {d.conn} \subseteq Drm!Listed'
        <4>1. \A m \in 2 .. n : modeset_list[m].conn \in Drm!Listed'
          <5>1. \A m \in 2 .. n : /\ m - 1 \in DOMAIN modeset_list'
                                  /\ modeset_list'[m - 1].conn = modeset_list[m].conn
            BY <1>2, <1>5
          <5> QED
            BY ONLY <5>1 DEF Drm!Listed
        <4> QED
          BY ONLY <1>6, <4>1 DEF Drm!Listed
      <3> QED
        BY <3>2, <3>3
    <2> QED
      BY <1>1, <1>4, <2>1 DEF Drm!Holdings
  <1>14. Drm!OwnCrtcs'
    BY <1>1, <1>2, <1>5 DEF Drm!OwnCrtcs, Drm!AllLit, Drm!Creates
  <1>15. Drm!Shown'
    <2> SUFFICES ASSUME Drm!AllLit, ~failed
                 PROVE  Drm!Shown'
      BY <1>1 DEF Drm!Shown, Drm!AllLit
    <2>1. Drm!Driven = DOMAIN modeset_list /\ Drm!Driven' = 1 .. n - 1
      BY <1>1, <1>2 DEF Drm!Driven
    <2>2. before[d.crtc] = [fb |-> Drm!Console, conn |-> d.conn]
      <3>1. d.crtc = conn[d.conn].current
        BY <1>1, <1>2 DEF Drm!OwnCrtcs
      <3>2. conn[d.conn].current # Drm!None
        BY <1>3 DEF Drm!AllLit
      <3> QED
        BY <1>1, <1>3, <3>1, <3>2 DEF Drm!Wired
    <2>3. d.saved_crtc = before[d.crtc]
      BY <1>1, <1>2, <2>1 DEF Drm!Shown
    <2>4. Drm!Console # Drm!None /\ Drm!Console # d.conn
      BY <1>3 DEF Drm!Console, Drm!None
    <2>5. Drm!Restored(d) = Drm!Set(d.crtc, Drm!Console, d.conn)
      BY <2>2, <2>3, <2>4 DEF Drm!Restored
    <2>6. screen'[d.crtc] = before[d.crtc]
      <3>1. Drm!Restored(d)[d.crtc] = [fb |-> Drm!Console, conn |-> d.conn]
        BY <1>3, <2>5 DEF Drm!Set
      <3> QED
        BY <1>3, <1>4, <2>2, <2>4, <3>1
    <2>7. ASSUME NEW u \in crtcs, u # d.crtc
          PROVE  screen'[u] = screen[u]
      <3>1. screen[u].conn # d.conn /\ screen[u].fb # d.conn
        BY <1>1, <1>2, <2>7, DrmAlone
      <3>2. Drm!Restored(d)[u] = screen[u]
        BY <2>5, <2>7, <3>1 DEF Drm!Set
      <3> QED
        BY <1>4, <2>7, <3>1, <3>2
    <2>8. \A k \in 2 .. n : modeset_list[k].crtc \in crtcs /\ modeset_list[k].crtc # d.crtc
      BY <1>2, <1>5, DrmItems DEF Drm!OneConnectorPerCrtc
    <2>9. ASSUME NEW k \in Drm!Driven'
          PROVE  /\ screen'[modeset_list'[k].crtc] = [fb |-> modeset_list'[k].conn,
                                                      conn |-> modeset_list'[k].conn]
                 /\ modeset_list'[k].saved_crtc = before[modeset_list'[k].crtc]
      <3>1. modeset_list'[k] = modeset_list[k + 1] /\ k + 1 \in 2 .. n
            /\ k + 1 \in Drm!Driven
        BY <1>2, <1>5, <2>1, <2>9
      <3> DEFINE e == modeset_list[k + 1]
      <3>2. screen[e.crtc] = [fb |-> e.conn, conn |-> e.conn] /\ e.saved_crtc = before[e.crtc]
        BY <1>1, <3>1 DEF Drm!Shown
      <3>3. screen'[e.crtc] = screen[e.crtc]
        BY <2>7, <2>8, <3>1
      <3> QED
        BY <3>1, <3>2, <3>3
    <2>10. ASSUME NEW t \in crtcs, \A k \in Drm!Driven' : modeset_list'[k].crtc # t
           PROVE  screen'[t] = before[t]
      <3>1. CASE t = d.crtc
        BY <2>6, <3>1
      <3>2. CASE t # d.crtc
        <4>1. \A k \in Drm!Driven : modeset_list[k].crtc # t
          BY <1>5, <1>6, <2>1, <2>10, <3>2
        <4> QED
          BY <1>1, <2>7, <3>2, <4>1 DEF Drm!Shown
      <3> QED
        BY <3>1, <3>2
    <2> QED
      BY <1>1, <2>9, <2>10 DEF Drm!Shown
  <1> QED
    BY <1>8, <1>9, <1>11, <1>12, <1>13, <1>14, <1>15

LEMMA DrmStep == Drm!IInv /\ [Drm!Next]_Drm!vars => Drm!IInv'
  <1>1. ASSUME Drm!IInv, UNCHANGED Drm!vars PROVE Drm!IInv'
    <2> USE <1>1 DEF Drm!IInv, Drm!vars, Drm!hw, Drm!held
    <2>1. UNCHANGED Drm!Creates /\ UNCHANGED Drm!Driven /\ UNCHANGED Drm!AllLit
          /\ UNCHANGED Drm!Listed
      BY DEF Drm!Creates, Drm!Driven, Drm!AllLit, Drm!Listed
    <2>2. Drm!TypeOK'
      BY <2>1 DEF Drm!TypeOK
    <2>3. Drm!Wired' /\ Drm!InOrder'
      BY DEF Drm!Wired, Drm!InOrder
    <2>4. Drm!OneConnectorPerCrtc' /\ Drm!CrtcIsFree' /\ Drm!Holdings'
      BY <2>1 DEF Drm!OneConnectorPerCrtc, Drm!CrtcIsFree, Drm!Holdings
    <2>5. Drm!OwnCrtcs' /\ Drm!Shown' /\ Drm!Ended'
      BY <2>1 DEF Drm!OwnCrtcs, Drm!Shown, Drm!Ended
    <2> QED
      BY <2>2, <2>3, <2>4, <2>5
  <1> QED
    BY <1>1, DrmRun, DrmFindCrtc, DrmCreateFb, DrmSetCrtc, DrmCleanup, DrmQuiet
    DEF Drm!Next, Quiet

LEMMA DrmSafe ==
  Drm!IInv => Drm!OneConnectorPerCrtc /\ Drm!HoldsWhatIsListed /\ Drm!ScreensRestored
  <1> SUFFICES ASSUME Drm!IInv
               PROVE  Drm!HoldsWhatIsListed /\ Drm!ScreensRestored
    BY DEF Drm!IInv
  <1> USE DEF Drm!IInv
  <1>1. Drm!HoldsWhatIsListed
    BY DEF Drm!Holdings, Drm!Listed, Drm!HoldsWhatIsListed
  <1>2. ASSUME drawing = "closed", ~failed, Drm!AllLit
        PROVE  screen = before
    <2>1. Drm!Driven = {}
      BY <1>2 DEF Drm!Ended, Drm!Driven
    <2>2. \A t \in crtcs : screen[t] = before[t]
      BY <1>2, <2>1 DEF Drm!Shown
    <2>3. screen \in [crtcs -> Drm!Screens] /\ before \in [crtcs -> Drm!Screens]
      BY <1>2 DEF Drm!TypeOK
    <2> QED
      BY <2>2, <2>3
  <1> QED
    BY <1>1, <1>2 DEF Drm!ScreensRestored, Drm!AllLit

(* While the program draws each step but Draw leaves the color alone.      *)
LEMMA DrmSmooth ==
  ASSUME Drm!IInv, [Drm!Next]_Drm!vars
  PROVE  [drawing = "draw" /\ drawing' = "draw" => r' - r \in -(Mod - 1) .. (Mod - 1)]_Drm!vars
  <1> SUFFICES ASSUME Drm!Next, drawing = "draw", drawing' = "draw"
               PROVE  r' - r \in -(Mod - 1) .. (Mod - 1)
    OBVIOUS
  <1>1. Drm!Draw
    BY DEF Drm!Next, Drm!Run, Drm!Skip, Drm!FindCrtc, Drm!CreateFb, Drm!Prepared, Drm!SetCrtc,
       Drm!StartDrawing, Drm!StopDrawing, Drm!Cleanup, Drm!Close
  <1>2. r \in 0 .. Colors - 1 /\ up \in BOOLEAN
    BY DEF Drm!IInv, Drm!TypeOK
  <1> QED
    BY <1>1, <1>2, DrmColor DEF Drm!Draw

-----------------------------------------------------------------------------
(* pure.c.  Where the elements of a sequence are after some were put in    *)
(* front of it, and when the first is gone.                                *)
LEMMA NativeConcat ==
  ASSUME NEW S, NEW s \in Seq(S), NEW t \in Seq(S)
  PROVE  /\ s \o t \in Seq(S)
         /\ \A n \in DOMAIN s : n \in DOMAIN (s \o t) /\ (s \o t)[n] = s[n]
         /\ \A n \in DOMAIN t : n + Len(s) \in DOMAIN (s \o t) /\ (s \o t)[n + Len(s)] = t[n]
         /\ \A n \in DOMAIN (s \o t) :
              \/ n \in DOMAIN s /\ (s \o t)[n] = s[n]
              \/ n - Len(s) \in DOMAIN t /\ (s \o t)[n] = t[n - Len(s)]
  <1>1. /\ s \o t \in Seq(S) /\ Len(s \o t) = Len(s) + Len(t)
        /\ \A k \in 1 .. Len(s) + Len(t) :
             (s \o t)[k] = IF k <= Len(s) THEN s[k] ELSE t[k - Len(s)]
    BY ConcatProperties
  <1>2. /\ Len(s) \in Nat /\ Len(t) \in Nat /\ DOMAIN s = 1 .. Len(s)
        /\ DOMAIN t = 1 .. Len(t) /\ DOMAIN (s \o t) = 1 .. Len(s) + Len(t)
    BY <1>1
  <1>3. \A n \in DOMAIN s : n \in DOMAIN (s \o t) /\ (s \o t)[n] = s[n]
    BY <1>1, <1>2
  <1>4. \A n \in DOMAIN t : n + Len(s) \in DOMAIN (s \o t) /\ (s \o t)[n + Len(s)] = t[n]
    <2> TAKE n \in DOMAIN t
    <2>1. n + Len(s) \in 1 .. Len(s) + Len(t) /\ ~(n + Len(s) <= Len(s))
      BY <1>2
    <2>2. n + Len(s) - Len(s) = n
      BY <1>2
    <2> QED
      BY <1>1, <1>2, <2>1, <2>2
  <1>5. \A n \in DOMAIN (s \o t) :
          \/ n \in DOMAIN s /\ (s \o t)[n] = s[n]
          \/ n - Len(s) \in DOMAIN t /\ (s \o t)[n] = t[n - Len(s)]
    BY <1>1, <1>2
  <1> QED
    BY <1>1, <1>3, <1>4, <1>5

LEMMA NativePair ==
  ASSUME NEW x, NEW y
  PROVE  <<x>> \o <<y>> = <<x, y>>
  <1> DEFINE s == <<x>> \o <<y>>
  <1>1. /\ <<x>> \in Seq({x, y}) /\ <<y>> \in Seq({x, y}) /\ <<x, y>> \in Seq({x, y})
        /\ Len(<<x>>) = 1 /\ Len(<<y>>) = 1 /\ Len(<<x, y>>) = 2
    OBVIOUS
  <1>2. /\ s \in Seq({x, y}) /\ Len(s) = 2
        /\ \A k \in 1 .. 2 : s[k] = IF k <= 1 THEN <<x>>[k] ELSE <<y>>[k - 1]
    BY <1>1, ConcatProperties
  <1> HIDE DEF s
  <1>3. s[1] = x /\ s[2] = y
    BY <1>2
  <1>4. s = <<x, y>>
    BY <1>1, <1>2, <1>3
  <1> QED
    BY <1>4 DEF s

LEMMA NativeTail ==
  ASSUME NEW S, NEW s \in Seq(S), s # <<>>
  PROVE  /\ Tail(s) \in Seq(S) /\ 1 \in DOMAIN s /\ s[1] \in S
         /\ \A n \in DOMAIN Tail(s) : n + 1 \in DOMAIN s /\ Tail(s)[n] = s[n + 1]
         /\ \A n \in DOMAIN s : n # 1 => n - 1 \in DOMAIN Tail(s) /\ Tail(s)[n - 1] = s[n]
  <1>1. /\ Tail(s) \in Seq(S) /\ Len(Tail(s)) = Len(s) - 1
        /\ \A k \in 1 .. Len(Tail(s)) : Tail(s)[k] = s[k + 1]
    BY HeadTailProperties
  <1>2. /\ Len(s) \in Nat /\ Len(s) # 0 /\ DOMAIN s = 1 .. Len(s)
        /\ DOMAIN Tail(s) = 1 .. Len(s) - 1
    BY <1>1
  <1>3. 1 \in DOMAIN s /\ s[1] \in S
    BY <1>2
  <1>4. \A n \in DOMAIN Tail(s) : n + 1 \in DOMAIN s /\ Tail(s)[n] = s[n + 1]
    BY <1>1, <1>2
  <1>5. \A n \in DOMAIN s : n # 1 => n - 1 \in DOMAIN Tail(s) /\ Tail(s)[n - 1] = s[n]
    <2> SUFFICES ASSUME NEW n \in DOMAIN s, n # 1
                 PROVE  n - 1 \in DOMAIN Tail(s) /\ Tail(s)[n - 1] = s[n]
      OBVIOUS
    <2>1. n - 1 \in 1 .. Len(s) - 1 /\ n - 1 + 1 = n
      BY <1>2
    <2> QED
      BY <1>1, <1>2, <2>1
  <1> QED
    BY <1>1, <1>3, <1>4, <1>5

(* How many references to a value a list of things to do holds.            *)
LEMMA NativeOwedFinite ==
  ASSUME NEW S, NEW s \in Seq(S), NEW v
  PROVE  IsFiniteSet(Native!OwedIn(s, v)) /\ Cardinality(Native!OwedIn(s, v)) \in Nat
  <1>1. IsFiniteSet(1 .. Len(s)) /\ DOMAIN s = 1 .. Len(s)
    BY FS_Interval
  <1>2. Native!OwedIn(s, v) \in SUBSET (1 .. Len(s))
    BY <1>1 DEF Native!OwedIn
  <1>3. IsFiniteSet(Native!OwedIn(s, v))
    BY <1>1, <1>2, FS_Subset
  <1> QED
    BY <1>3, FS_CardinalityType

LEMMA NativeOwedConcat ==
  ASSUME NEW S, NEW s \in Seq(S), NEW t \in Seq(S), NEW v
  PROVE  Cardinality(Native!OwedIn(s \o t, v)) =
           Cardinality(Native!OwedIn(s, v)) + Cardinality(Native!OwedIn(t, v))
  <1> DEFINE A == Native!OwedIn(s, v)
             B == Native!OwedIn(t, v)
             C == {n \in DOMAIN (s \o t) : n - Len(s) \in B}
             f == [n \in B |-> n + Len(s)]
  <1>1. /\ \A n \in DOMAIN s : n \in DOMAIN (s \o t) /\ (s \o t)[n] = s[n]
        /\ \A n \in DOMAIN t : n + Len(s) \in DOMAIN (s \o t) /\ (s \o t)[n + Len(s)] = t[n]
        /\ \A n \in DOMAIN (s \o t) :
             \/ n \in DOMAIN s /\ (s \o t)[n] = s[n]
             \/ n - Len(s) \in DOMAIN t /\ (s \o t)[n] = t[n - Len(s)]
    BY NativeConcat
  <1>2. /\ Len(s) \in Nat /\ DOMAIN s = 1 .. Len(s) /\ DOMAIN t = 1 .. Len(t) /\ Len(t) \in Nat
        /\ s \o t \in Seq(S) /\ DOMAIN (s \o t) \subseteq Nat
    <2>1. s \o t \in Seq(S)
      BY NativeConcat
    <2> QED
      BY <2>1
  <1>3. \A n \in B : n \in Nat /\ n \in DOMAIN t /\ n >= 1 /\ n + Len(s) - Len(s) = n
    BY <1>2 DEF Native!OwedIn
  <1>4. Native!OwedIn(s \o t, v) = A \cup C
    <2>1. ASSUME NEW n \in Native!OwedIn(s \o t, v) PROVE n \in A \cup C
      <3>1. n \in DOMAIN (s \o t) /\ Native!Owes((s \o t)[n], v)
        BY <2>1 DEF Native!OwedIn
      <3>2. CASE n \in DOMAIN s /\ (s \o t)[n] = s[n]
        BY <3>1, <3>2 DEF Native!OwedIn
      <3>3. CASE n - Len(s) \in DOMAIN t /\ (s \o t)[n] = t[n - Len(s)]
        BY <3>1, <3>3 DEF Native!OwedIn
      <3> QED
        BY <1>1, <3>1, <3>2, <3>3
    <2>2. ASSUME NEW n \in A PROVE n \in Native!OwedIn(s \o t, v)
      BY <1>1 DEF Native!OwedIn
    <2>3. ASSUME NEW n \in C PROVE n \in Native!OwedIn(s \o t, v)
      <3>1. n \in Nat /\ n - Len(s) \in DOMAIN t /\ Native!Owes(t[n - Len(s)], v)
        BY <1>2 DEF Native!OwedIn
      <3>2. n - Len(s) + Len(s) = n
        BY <1>2, <3>1
      <3>3. (s \o t)[n] = t[n - Len(s)]
        BY <1>1, <3>1, <3>2
      <3> QED
        BY <3>1, <3>3 DEF Native!OwedIn
    <2> QED
      BY <2>1, <2>2, <2>3
  <1>5. A \cap C = {}
    <2> SUFFICES ASSUME NEW n \in A, n \in C PROVE FALSE
      OBVIOUS
    <2>1. n \in 1 .. Len(s) /\ n - Len(s) >= 1
      BY <1>2, <1>3 DEF Native!OwedIn
    <2> QED
      BY <1>2, <2>1
  <1>6. f \in Bijection(B, C)
    <2>1. \A n \in B : f[n] = n + Len(s) /\ f[n] \in C
      <3> TAKE n \in B
      <3>1. n + Len(s) \in DOMAIN (s \o t)
        BY <1>1, <1>3
      <3> QED
        BY <1>3, <3>1
    <2>2. \A m, n \in B : f[m] = f[n] => m = n
      <3> SUFFICES ASSUME NEW m \in B, NEW n \in B, m + Len(s) = n + Len(s) PROVE m = n
        OBVIOUS
      <3> QED
        BY <1>2, <1>3
    <2>3. \A c \in C : \E n \in B : f[n] = c
      <3> TAKE c \in C
      <3>1. c \in Nat /\ c - Len(s) \in B
        BY <1>2
      <3>2. c - Len(s) + Len(s) = c
        BY <1>2, <3>1
      <3> WITNESS c - Len(s) \in B
      <3> QED
        BY <3>1, <3>2
    <2> QED
      BY <2>1, <2>2, <2>3, Zenon DEF Bijection, Injection, Surjection, IsInjective
  <1>7. /\ IsFiniteSet(A) /\ Cardinality(A) \in Nat /\ IsFiniteSet(B) /\ Cardinality(B) \in Nat
    BY NativeOwedFinite
  <1>8. IsFiniteSet(C) /\ Cardinality(C) = Cardinality(B)
    <2>1. ExistsBijection(B, C)
      BY <1>6 DEF ExistsBijection
    <2> QED
      BY <1>7, <2>1, FS_Bijection
  <1> HIDE DEF A, B, C, f
  <1>9. Cardinality(A \cup C) = Cardinality(A) + Cardinality(C) - Cardinality(A \cap C)
    BY <1>7, <1>8, FS_Union
  <1>10. Cardinality({}) = 0
    BY FS_EmptySet
  <1>11. Cardinality(A \cup C) = Cardinality(A) + Cardinality(B)
    <2>1. Cardinality(A \cap C) = 0
      BY ONLY <1>5, <1>10
    <2> QED
      BY ONLY <2>1, <1>7, <1>8, <1>9
  <1>12. Cardinality(Native!OwedIn(s \o t, v)) = Cardinality(A \cup C)
    BY ONLY <1>4
  <1>13. Cardinality(Native!OwedIn(s \o t, v)) = Cardinality(A) + Cardinality(B)
    BY ONLY <1>11, <1>12
  <1> QED
    BY ONLY <1>13, Zenon DEF A, B

LEMMA NativeOwedOne ==
  ASSUME NEW x, NEW v
  PROVE  /\ Cardinality(Native!OwedIn(<<>>, v)) = 0
         /\ Cardinality(Native!OwedIn(<<x>>, v)) = IF Native!Owes(x, v) THEN 1 ELSE 0
  <1>1. Native!OwedIn(<<>>, v) = {}
    BY DEF Native!OwedIn
  <1>2. Native!OwedIn(<<x>>, v) = IF Native!Owes(x, v) THEN {1} ELSE {}
    <2>1. DOMAIN <<x>> = {1} /\ <<x>>[1] = x
      OBVIOUS
    <2> QED
      BY <2>1 DEF Native!OwedIn
  <1> QED
    BY <1>1, <1>2, FS_EmptySet, FS_Singleton

LEMMA NativeOwedTail ==
  ASSUME NEW S, NEW s \in Seq(S), s # <<>>, NEW v
  PROVE  Cardinality(Native!OwedIn(s, v)) =
           (IF Native!Owes(s[1], v) THEN 1 ELSE 0) + Cardinality(Native!OwedIn(Tail(s), v))
  <1>1. Tail(s) \in Seq(S) /\ <<s[1]>> \in Seq(S)
    BY NativeTail
  <1>2. s = <<s[1]>> \o Tail(s)
    <2>1. s[1] = Head(s)
      OBVIOUS
    <2>2. Len(s) = Len(Tail(s)) + 1 /\ \A k \in 1 .. Len(Tail(s)) : Tail(s)[k] = s[k + 1]
      BY HeadTailProperties
    <2>3. Len(<<s[1]>> \o Tail(s)) = Len(s)
      BY <1>1, <2>2
    <2>4. \A k \in 1 .. Len(s) : s[k] = (<<s[1]>> \o Tail(s))[k]
      BY <1>1, <2>2
    <2>5. <<s[1]>> \o Tail(s) \in Seq(S)
      BY <1>1
    <2> QED
      BY <2>3, <2>4, <2>5
  <1>3. Cardinality(Native!OwedIn(<<s[1]>> \o Tail(s), v)) =
          Cardinality(Native!OwedIn(<<s[1]>>, v)) + Cardinality(Native!OwedIn(Tail(s), v))
    BY <1>1, NativeOwedConcat, Zenon
  <1> QED
    BY ONLY <1>2, <1>3, NativeOwedOne, Zenon

-----------------------------------------------------------------------------
(* What there is to do, after code was put in front of what is left.       *)
LEMMA NativeFields ==
  /\ Native!ToSet(BaseFields) \subseteq Native!AllFields
  /\ Native!ToSet(OwnFields) \subseteq Native!AllFields
  /\ Native!AllFields = Native!ToSet(BaseFields) \cup Native!ToSet(OwnFields)
  /\ \A k : Native!ToSet(Native!Fields(k)) \subseteq Native!AllFields
  /\ \A k : Native!Fields(k) \in Seq(Native!AllFields)
  /\ Native!ToSet(Native!Fields(Native!Base)) = Native!ToSet(BaseFields)
  /\ Native!ToSet(Native!Fields(Native!Derived)) = Native!AllFields
  <1>1. BaseFields \in Seq(Native!AllFields) /\ OwnFields \in Seq(Native!AllFields)
    BY ProgramsAssumption DEF Native!Parameters
  <1>2. Native!Fields(Native!Derived) = BaseFields \o OwnFields
        /\ Native!Fields(Native!Base) = BaseFields
    BY DEF Native!Fields, Native!Base, Native!Derived
  <1>3. BaseFields \o OwnFields \in Seq(Native!AllFields)
    BY <1>1, NativeConcat
  <1>4. Native!AllFields = Native!ToSet(BaseFields \o OwnFields)
    BY <1>2 DEF Native!AllFields
  <1> DEFINE both == BaseFields \o OwnFields
  <1>8. /\ \A n \in DOMAIN BaseFields : n \in DOMAIN both /\ both[n] = BaseFields[n]
        /\ \A n \in DOMAIN OwnFields : n + Len(BaseFields) \in DOMAIN both
                                       /\ both[n + Len(BaseFields)] = OwnFields[n]
        /\ \A n \in DOMAIN both :
             \/ n \in DOMAIN BaseFields /\ both[n] = BaseFields[n]
             \/ /\ n - Len(BaseFields) \in DOMAIN OwnFields
                /\ both[n] = OwnFields[n - Len(BaseFields)]
    <2>1. \A S : \A s, t \in Seq(S) :
            /\ \A n \in DOMAIN s : n \in DOMAIN (s \o t) /\ (s \o t)[n] = s[n]
            /\ \A n \in DOMAIN t : n + Len(s) \in DOMAIN (s \o t) /\ (s \o t)[n + Len(s)] = t[n]
            /\ \A n \in DOMAIN (s \o t) :
                 \/ n \in DOMAIN s /\ (s \o t)[n] = s[n]
                 \/ n - Len(s) \in DOMAIN t /\ (s \o t)[n] = t[n - Len(s)]
      BY NativeConcat
    <2> QED
      BY <1>1, <2>1, Zenon
  <1> HIDE DEF both
  <1>5. \A x \in Native!ToSet(BaseFields) \cup Native!ToSet(OwnFields) :
          x \in Native!ToSet(both)
    BY ONLY <1>8 DEF Native!ToSet
  <1>6. \A x \in Native!ToSet(both) :
          x \in Native!ToSet(BaseFields) \cup Native!ToSet(OwnFields)
    BY ONLY <1>8 DEF Native!ToSet
  <1>7. \A k : Native!Fields(k) = BaseFields \/ Native!Fields(k) = BaseFields \o OwnFields
    BY DEF Native!Fields
  <1> QED
    BY <1>1, <1>2, <1>3, <1>4, <1>5, <1>6, <1>7 DEF both

NativeShape == Native!TypeOK /\ Native!CallsReturn /\ Native!FreedOnce

LEMMA NativeCode ==
  ASSUME NativeShape, kind' = kind, NEW code \in Seq(Native!Ops), NEW rest,
         todo' = code \o rest,
         rest = todo \/ (todo # <<>> /\ rest = Tail(todo)),
         \A n \in DOMAIN code : code[n][1] \in {"assign", "store"} =>
           \/ \E m \in DOMAIN code : n < m /\ code[m][1] = "return"
           \/ rest = Tail(todo) /\ todo # <<>> /\ todo[1][1] = "assign",
         \A n \in DOMAIN code : code[n][1] = "store" => n = 1,
         \A n \in DOMAIN code : code[n][1] = "return" => self = "live",
         self' = self \/ \A n \in DOMAIN todo : todo[n][1] # "return",
         \A n \in DOMAIN code : code[n][1] = "return" => self' = self,
         rest = todo /\ code # <<>> => ~Native!At("store")
  PROVE  todo' \in Seq(Native!Ops)' /\ Native!CallsReturn'
  <1>1. rest \in Seq(Native!Ops)
    <2>1. todo \in Seq(Native!Ops)
      BY DEF NativeShape, Native!TypeOK
    <2>2. todo # <<>> => Tail(todo) \in Seq(Native!Ops)
      BY <2>1, HeadTailProperties
    <2> QED
      BY <2>1, <2>2
  <1>2. Native!Ops' = Native!Ops
    BY DEF Native!Ops
  <1>3. /\ todo' \in Seq(Native!Ops)
        /\ \A n \in DOMAIN code : n \in DOMAIN todo' /\ todo'[n] = code[n]
        /\ \A n \in DOMAIN rest : n + Len(code) \in DOMAIN todo' /\ todo'[n + Len(code)] = rest[n]
        /\ \A n \in DOMAIN todo' :
             \/ n \in DOMAIN code /\ todo'[n] = code[n]
             \/ n - Len(code) \in DOMAIN rest /\ todo'[n] = rest[n - Len(code)]
    BY <1>1, NativeConcat
  <1>4. Len(code) \in Nat /\ DOMAIN code = 1 .. Len(code) /\ DOMAIN rest \subseteq Nat \ {0}
        /\ DOMAIN todo \subseteq Nat \ {0} /\ DOMAIN todo' \subseteq Nat \ {0}
    BY <1>1, <1>3 DEF NativeShape, Native!TypeOK
  <1>5. \A n \in DOMAIN rest : rest[n][1] \in {"assign", "store"} =>
          \E m \in DOMAIN rest : n < m /\ rest[m][1] = "return"
    <2>1. CASE rest = todo
      BY <2>1 DEF NativeShape, Native!CallsReturn
    <2>2. CASE todo # <<>> /\ rest = Tail(todo)
      <3>1. /\ \A n \in DOMAIN rest : n + 1 \in DOMAIN todo /\ rest[n] = todo[n + 1]
            /\ \A n \in DOMAIN todo : n # 1 => n - 1 \in DOMAIN rest /\ rest[n - 1] = todo[n]
        BY <2>2, NativeTail DEF NativeShape, Native!TypeOK
      <3> SUFFICES ASSUME NEW n \in DOMAIN rest, rest[n][1] \in {"assign", "store"}
                   PROVE  \E m \in DOMAIN rest : n < m /\ rest[m][1] = "return"
        OBVIOUS
      <3>2. PICK m \in DOMAIN todo : n + 1 < m /\ todo[m][1] = "return"
        BY <3>1 DEF NativeShape, Native!CallsReturn
      <3>3. m # 1 /\ n < m - 1
        BY <1>4, <3>2
      <3> QED
        BY <3>1, <3>2, <3>3
    <2> QED
      BY <2>1, <2>2
  <1>6. \A n \in DOMAIN rest : rest[n][1] = "return" => self' = "live"
    <2>1. CASE rest = todo
      BY <2>1 DEF NativeShape, Native!CallsReturn
    <2>2. CASE todo # <<>> /\ rest = Tail(todo)
      <3>1. \A n \in DOMAIN rest : n + 1 \in DOMAIN todo /\ rest[n] = todo[n + 1]
        BY <2>2, NativeTail DEF NativeShape, Native!TypeOK
      <3> QED
        BY <3>1 DEF NativeShape, Native!CallsReturn
    <2> QED
      BY <2>1, <2>2
  <1>7. \A n \in DOMAIN rest : rest[n][1] = "store" => code = <<>> /\ n = 1
    <2>1. CASE rest = todo
      <3>1. \A n \in DOMAIN rest : rest[n][1] = "store" => n = 1
        BY <2>1 DEF NativeShape, Native!CallsReturn
      <3> QED
        BY <2>1, <3>1 DEF Native!At
    <2>2. CASE todo # <<>> /\ rest = Tail(todo)
      <3>1. \A n \in DOMAIN rest : n + 1 \in DOMAIN todo /\ rest[n] = todo[n + 1]
        BY <2>2, NativeTail DEF NativeShape, Native!TypeOK
      <3> SUFFICES ASSUME NEW n \in DOMAIN rest, rest[n][1] = "store" PROVE FALSE
        OBVIOUS
      <3>2. n + 1 = 1
        BY <3>1 DEF NativeShape, Native!CallsReturn
      <3> QED
        BY <1>4, <3>2
    <2> QED
      BY <2>1, <2>2
  <1>8. rest = Tail(todo) /\ todo # <<>> /\ todo[1][1] = "assign" =>
          \E m \in DOMAIN rest : rest[m][1] = "return"
    <2> SUFFICES ASSUME rest = Tail(todo), todo # <<>>, todo[1][1] = "assign"
                 PROVE  \E m \in DOMAIN rest : rest[m][1] = "return"
      OBVIOUS
    <2>1. /\ \A n \in DOMAIN todo : n # 1 => n - 1 \in DOMAIN rest /\ rest[n - 1] = todo[n]
          /\ 1 \in DOMAIN todo
      BY NativeTail DEF NativeShape, Native!TypeOK
    <2>2. PICK m \in DOMAIN todo : 1 < m /\ todo[m][1] = "return"
      BY <2>1 DEF NativeShape, Native!CallsReturn
    <2> QED
      BY <2>1, <2>2
  <1>9. \A n \in DOMAIN todo' : todo'[n][1] \in {"assign", "store"} =>
          \E m \in DOMAIN todo' : n < m /\ todo'[m][1] = "return"
    <2> SUFFICES ASSUME NEW n \in DOMAIN todo', todo'[n][1] \in {"assign", "store"}
                 PROVE  \E m \in DOMAIN todo' : n < m /\ todo'[m][1] = "return"
      OBVIOUS
    <2>1. CASE n \in DOMAIN code /\ todo'[n] = code[n]
      <3>1. CASE \E m \in DOMAIN code : n < m /\ code[m][1] = "return"
        BY <1>3, <3>1
      <3>2. CASE \E m \in DOMAIN rest : rest[m][1] = "return"
        <4>1. PICK m \in DOMAIN rest : rest[m][1] = "return"
          BY <3>2
        <4>2. n < m + Len(code)
          BY <1>4, <2>1
        <4> QED
          BY <1>3, <4>1, <4>2
      <3> QED
        BY <1>8, <2>1, <3>1, <3>2
    <2>2. CASE n - Len(code) \in DOMAIN rest /\ todo'[n] = rest[n - Len(code)]
      <3>1. PICK m \in DOMAIN rest : n - Len(code) < m /\ rest[m][1] = "return"
        BY <1>5, <2>2
      <3>2. n < m + Len(code)
        BY <1>4, <3>1
      <3> QED
        BY <1>3, <3>1, <3>2
    <2> QED
      BY <1>3, <2>1, <2>2
  <1>10. \A n \in DOMAIN todo' : todo'[n][1] = "return" => self' = "live"
    BY <1>3, <1>6
  <1>11. \A n \in DOMAIN todo' : todo'[n][1] = "store" => n = 1
    <2> SUFFICES ASSUME NEW n \in DOMAIN todo', todo'[n][1] = "store" PROVE n = 1
      OBVIOUS
    <2>1. CASE n - Len(code) \in DOMAIN rest /\ todo'[n] = rest[n - Len(code)]
      <3>1. code = <<>> /\ n - Len(code) = 1
        BY <1>7, <2>1
      <3> QED
        BY <1>4, <3>1
    <2> QED
      BY <1>3, <2>1
  <1> QED
    BY <1>2, <1>3, <1>9, <1>10, <1>11 DEF Native!CallsReturn

LEMMA NativeFreed ==
  ASSUME NativeShape, NEW code \in Seq(Native!Ops), NEW rest, todo' = code \o rest,
         rest = todo \/ (todo # <<>> /\ rest = Tail(todo)),
         \/ /\ \A n \in DOMAIN code : code[n][1] # "free"
            /\ self' = "dying" <=> self = "dying"
            /\ rest = todo \/ todo[1][1] # "free"
         \/ /\ self # "dying" /\ self' = "dying" /\ rest = todo
            /\ \E n \in DOMAIN code : code[n][1] = "free"
            /\ \A m, n \in DOMAIN code : code[m][1] = "free" /\ code[n][1] = "free" => m = n
         \/ /\ todo # <<>> /\ todo[1][1] = "free" /\ code = <<>> /\ rest = Tail(todo)
            /\ self' # "dying"
  PROVE  Native!FreedOnce'
  <1>1. todo \in Seq(Native!Ops) /\ rest \in Seq(Native!Ops)
    <2>1. todo \in Seq(Native!Ops)
      BY DEF NativeShape, Native!TypeOK
    <2>2. todo # <<>> => Tail(todo) \in Seq(Native!Ops)
      BY <2>1, HeadTailProperties
    <2> QED
      BY <2>1, <2>2
  <1>2. /\ \A n \in DOMAIN code : n \in DOMAIN todo' /\ todo'[n] = code[n]
        /\ \A n \in DOMAIN rest : n + Len(code) \in DOMAIN todo' /\ todo'[n + Len(code)] = rest[n]
        /\ \A n \in DOMAIN todo' :
             \/ n \in DOMAIN code /\ todo'[n] = code[n]
             \/ n - Len(code) \in DOMAIN rest /\ todo'[n] = rest[n - Len(code)]
    BY ONLY <1>1, code \in Seq(Native!Ops), todo' = code \o rest, NativeConcat
  <1>3. /\ Len(code) \in Nat /\ DOMAIN rest \subseteq Nat /\ DOMAIN todo \subseteq Nat
        /\ DOMAIN todo' \subseteq Nat /\ DOMAIN code \subseteq Nat
    <2>1. todo' \in Seq(Native!Ops)
      BY <1>1, NativeConcat
    <2> QED
      BY <1>1, <2>1
  <1>4. todo # <<>> =>
          /\ \A n \in DOMAIN Tail(todo) : n + 1 \in DOMAIN todo /\ Tail(todo)[n] = todo[n + 1]
          /\ \A n \in DOMAIN todo : n # 1 => n - 1 \in DOMAIN Tail(todo)
                                            /\ Tail(todo)[n - 1] = todo[n]
          /\ 1 \in DOMAIN todo
    BY <1>1, NativeTail
  <1>5. /\ self = "dying" <=> \E n \in DOMAIN todo : todo[n][1] = "free"
        /\ \A m, n \in DOMAIN todo : todo[m][1] = "free" /\ todo[n][1] = "free" => m = n
    BY DEF NativeShape, Native!FreedOnce
  (* What is left has the free that there was, unless this was it.         *)
  <1>6. \A m, n \in DOMAIN rest : rest[m][1] = "free" /\ rest[n][1] = "free" => m = n
    <2>1. CASE rest = todo
      BY <1>5, <2>1
    <2>2. CASE todo # <<>> /\ rest = Tail(todo)
      <3> SUFFICES ASSUME NEW m \in DOMAIN rest, NEW n \in DOMAIN rest,
                          rest[m][1] = "free", rest[n][1] = "free"
                   PROVE  m = n
        OBVIOUS
      <3>1. m + 1 = n + 1
        BY <1>4, <1>5, <2>2
      <3> QED
        BY <1>3, <3>1
    <2> QED
      BY <2>1, <2>2
  <1>7. (\E n \in DOMAIN rest : rest[n][1] = "free") <=>
          self = "dying" /\ ~(rest # todo /\ todo[1][1] = "free")
    <2>1. CASE rest = todo
      BY <1>5, <2>1
    <2>2. CASE todo # <<>> /\ rest = Tail(todo) /\ rest # todo
      <3>1. ASSUME NEW n \in DOMAIN rest, rest[n][1] = "free"
            PROVE  self = "dying" /\ todo[1][1] # "free"
        <4>1. n + 1 \in DOMAIN todo /\ todo[n + 1][1] = "free"
          BY <1>4, <2>2, <3>1
        <4>2. n + 1 # 1
          <5>1. n \in Nat /\ n # 0
            BY <1>1
          <5> QED
            BY <5>1
        <4> QED
          BY <1>4, <1>5, <2>2, <4>1, <4>2
      <3>2. ASSUME self = "dying", todo[1][1] # "free"
            PROVE  \E n \in DOMAIN rest : rest[n][1] = "free"
        <4>1. PICK n \in DOMAIN todo : todo[n][1] = "free"
          BY <1>5, <3>2
        <4>2. n # 1
          BY <3>2, <4>1
        <4> QED
          BY <1>4, <2>2, <4>1, <4>2
      <3> QED
        BY <2>2, <3>1, <3>2
    <2> QED
      BY <2>1, <2>2
  <1>8. rest = Tail(todo) /\ todo # <<>> => rest # todo
    BY <1>1, HeadTailProperties
  <1>9. (self' = "dying") <=> \E n \in DOMAIN todo' : todo'[n][1] = "free"
    <2>1. (\E n \in DOMAIN todo' : todo'[n][1] = "free") <=>
            \/ \E n \in DOMAIN code : code[n][1] = "free"
            \/ \E n \in DOMAIN rest : rest[n][1] = "free"
      <3>1. ASSUME NEW n \in DOMAIN todo', todo'[n][1] = "free"
            PROVE  \/ \E x \in DOMAIN code : code[x][1] = "free"
                   \/ \E x \in DOMAIN rest : rest[x][1] = "free"
        BY <1>2, <3>1
      <3>2. ASSUME NEW n \in DOMAIN code, code[n][1] = "free"
            PROVE  \E x \in DOMAIN todo' : todo'[x][1] = "free"
        BY <1>2, <3>2
      <3>3. ASSUME NEW n \in DOMAIN rest, rest[n][1] = "free"
            PROVE  \E x \in DOMAIN todo' : todo'[x][1] = "free"
        <4>1. n + Len(code) \in DOMAIN todo' /\ todo'[n + Len(code)] = rest[n]
          BY <1>2
        <4> WITNESS n + Len(code) \in DOMAIN todo'
        <4> QED
          BY <3>3, <4>1
      <3> QED
        BY ONLY <3>1, <3>2, <3>3
    <2>2. code = <<>> => ~\E n \in DOMAIN code : code[n][1] = "free"
      OBVIOUS
    <2> QED
      BY <1>7, <1>8, <2>1, <2>2
  <1>10. ASSUME NEW m \in DOMAIN todo', NEW n \in DOMAIN todo',
                todo'[m][1] = "free", todo'[n][1] = "free"
         PROVE  m = n
    <2>1. CASE m \in DOMAIN code /\ n \in DOMAIN code
               /\ todo'[m] = code[m] /\ todo'[n] = code[n]
      BY <1>10, <2>1
    <2>2. CASE m - Len(code) \in DOMAIN rest /\ n - Len(code) \in DOMAIN rest
               /\ todo'[m] = rest[m - Len(code)] /\ todo'[n] = rest[n - Len(code)]
      <3>1. m - Len(code) = n - Len(code)
        BY <1>6, <1>10, <2>2
      <3> QED
        BY <1>3, <3>1
    <2>3. ~((\E x \in DOMAIN code : code[x][1] = "free") /\ \E x \in DOMAIN rest : rest[x][1] = "free")
      BY <1>7
    <2> QED
      BY <1>2, <1>10, <2>1, <2>2, <2>3
  <1> QED
    BY <1>9, <1>10 DEF Native!FreedOnce

(* A call of C code: a setter, __init__, the collector.                    *)
LEMMA NativeCall ==
  ASSUME NativeShape, kind' = kind, self = "live", self' = self, ~Native!At("store"),
         NEW code \in Seq(Native!Ops),
         \A n \in DOMAIN code : code[n][1] \in {"assign", "decref"},
         Native!Call(code)
  PROVE  todo' \in Seq(Native!Ops)' /\ Native!CallsReturn' /\ Native!FreedOnce'
  <1> DEFINE back == << <<"return">> >>
             all  == code \o back
  <1>1. back \in Seq(Native!Ops) /\ DOMAIN back = {1} /\ back[1] = <<"return">>
    <2>1. <<"return">> \in Native!Ops
      BY DEF Native!Ops
    <2> QED
      BY <2>1
  <1>2. todo' = all \o todo
    BY DEF Native!Call
  <1> HIDE DEF back
  <1>3. /\ all \in Seq(Native!Ops)
        /\ \A n \in DOMAIN code : n \in DOMAIN all /\ all[n] = code[n]
        /\ \A n \in DOMAIN back : n + Len(code) \in DOMAIN all /\ all[n + Len(code)] = back[n]
        /\ \A n \in DOMAIN all :
             \/ n \in DOMAIN code /\ all[n] = code[n]
             \/ n - Len(code) \in DOMAIN back /\ all[n] = back[n - Len(code)]
    BY <1>1, NativeConcat
  <1> HIDE DEF all
  <1>4. 1 + Len(code) \in DOMAIN all /\ all[1 + Len(code)][1] = "return"
    BY <1>1, <1>3
  <1>5. \A n \in DOMAIN all :
          \/ n \in DOMAIN code /\ all[n][1] \in {"assign", "decref"}
          \/ all[n][1] = "return"
    BY <1>1, <1>3
  <1>6. \A n \in DOMAIN code : n < 1 + Len(code)
    OBVIOUS
  <1>7. \A n \in DOMAIN all : all[n][1] \in {"assign", "store"} =>
          \E m \in DOMAIN all : n < m /\ all[m][1] = "return"
    BY <1>4, <1>5, <1>6
  <1>8. /\ \A n \in DOMAIN all : all[n][1] # "free" /\ all[n][1] # "store"
        /\ self # "dying"
    BY <1>5
  <1>9. todo' \in Seq(Native!Ops)' /\ Native!CallsReturn'
    <2>1. \A n \in DOMAIN all : all[n][1] \in {"assign", "store"} =>
            \/ \E m \in DOMAIN all : n < m /\ all[m][1] = "return"
            \/ todo = Tail(todo) /\ todo # <<>> /\ todo[1][1] = "assign"
      BY <1>7
    <2>2. \A n \in DOMAIN all : all[n][1] = "store" => n = 1
      BY <1>8
    <2> QED
      BY <1>2, <1>3, <2>1, <2>2, NativeCode
  <1>10. Native!FreedOnce'
    BY <1>2, <1>3, <1>8, NativeFreed
  <1> QED
    BY <1>9, <1>10

(* A first thing to do that is done, and leaves nothing or one to do.      *)
LEMMA NativeDone ==
  ASSUME NativeShape, kind' = kind, todo # <<>>, NEW code \in Seq(Native!Ops),
         todo' = code \o Tail(todo),
         \A n \in DOMAIN code : \/ code[n][1] \in {"decref", "del"}
                                \/ todo[1][1] = "assign" /\ code[n][1] = "store" /\ n = 1,
         \/ self' = self /\ todo[1][1] # "free"
         \/ code = <<>> /\ todo[1][1] = "free" /\ self' = "freed"
  PROVE  todo' \in Seq(Native!Ops)' /\ Native!CallsReturn' /\ Native!FreedOnce'
  <1>1. \A n \in DOMAIN code : code[n][1] # "free" /\ code[n][1] # "return"
    OBVIOUS
  <1>2. 1 \in DOMAIN todo
    BY NativeTail DEF NativeShape, Native!TypeOK
  <1>3. todo[1][1] = "free" => \A n \in DOMAIN todo : todo[n][1] # "return"
    BY <1>2 DEF NativeShape, Native!FreedOnce, Native!CallsReturn
  <1>4. todo' \in Seq(Native!Ops)' /\ Native!CallsReturn'
    <2>1. \A n \in DOMAIN code : code[n][1] \in {"assign", "store"} => todo[1][1] = "assign"
      OBVIOUS
    <2>2. \A n \in DOMAIN code : code[n][1] = "store" => n = 1
      OBVIOUS
    <2>3. Tail(todo) # todo
      BY HeadTailProperties DEF NativeShape, Native!TypeOK
    <2> QED
      BY <1>1, <1>3, <2>1, <2>2, <2>3, NativeCode
  <1>5. Native!FreedOnce'
    BY <1>1, NativeFreed
  <1> QED
    BY <1>4, <1>5

LEMMA NativePopped ==
  ASSUME NativeShape, kind' = kind, todo # <<>>, todo' = Tail(todo),
         \/ self' = self /\ todo[1][1] # "free"
         \/ todo[1][1] = "free" /\ self' = "freed"
  PROVE  todo' \in Seq(Native!Ops)' /\ Native!CallsReturn' /\ Native!FreedOnce'
  <1> DEFINE code == <<>>
  <1>1. Tail(todo) \in Seq(Native!Ops)
    BY HeadTailProperties DEF NativeShape, Native!TypeOK
  <1>2. code \in Seq(Native!Ops) /\ DOMAIN code = {} /\ code = <<>>
    OBVIOUS
  <1>3. todo' = code \o Tail(todo)
    BY <1>1, ConcatEmptySeq
  <1> HIDE DEF code
  <1>4. \A n \in DOMAIN code : \/ code[n][1] \in {"decref", "del"}
                               \/ todo[1][1] = "assign" /\ code[n][1] = "store" /\ n = 1
    BY <1>2
  <1> QED
    BY <1>2, <1>3, <1>4, NativeDone

-----------------------------------------------------------------------------
(* What tp_dealloc and tp_clear release, each attribute once.              *)
LEMMA NativeOnce ==
  /\ \A m, n \in DOMAIN BaseFields : BaseFields[m] = BaseFields[n] => m = n
  /\ \A m, n \in DOMAIN OwnFields : OwnFields[m] = OwnFields[n] => m = n
  /\ \A m \in DOMAIN OwnFields, n \in DOMAIN BaseFields : OwnFields[m] # BaseFields[n]
  <1> DEFINE both == BaseFields \o OwnFields
  <1>1. BaseFields \in Seq(Native!AllFields) /\ OwnFields \in Seq(Native!AllFields)
    BY ProgramsAssumption DEF Native!Parameters
  <1>2. both = Native!Fields(Native!Derived)
    BY DEF Native!Fields, Native!Base, Native!Derived
  <1>3. \A m, n \in DOMAIN both : both[m] = both[n] => m = n
    BY <1>2, ProgramsAssumption DEF Native!Parameters
  <1>4. /\ \A n \in DOMAIN BaseFields : n \in DOMAIN both /\ both[n] = BaseFields[n]
        /\ \A n \in DOMAIN OwnFields : n + Len(BaseFields) \in DOMAIN both
                                       /\ both[n + Len(BaseFields)] = OwnFields[n]
    BY ONLY <1>1, NativeConcat
  <1> HIDE DEF both
  <1>5. Len(BaseFields) \in Nat /\ DOMAIN BaseFields = 1 .. Len(BaseFields)
        /\ DOMAIN OwnFields = 1 .. Len(OwnFields)
    BY <1>1
  <1>6. \A m, n \in DOMAIN BaseFields : BaseFields[m] = BaseFields[n] => m = n
    BY ONLY <1>3, <1>4
  <1>7. ASSUME NEW m \in DOMAIN OwnFields, NEW n \in DOMAIN OwnFields, OwnFields[m] = OwnFields[n]
        PROVE  m = n
    <2>1. m + Len(BaseFields) = n + Len(BaseFields)
      BY ONLY <1>3, <1>4, <1>7
    <2> QED
      BY <1>5, <2>1
  <1>8. ASSUME NEW m \in DOMAIN OwnFields, NEW n \in DOMAIN BaseFields, OwnFields[m] = BaseFields[n]
        PROVE  FALSE
    <2>1. m + Len(BaseFields) = n
      BY ONLY <1>3, <1>4, <1>8
    <2> QED
      BY <1>5, <2>1
  <1> QED
    BY <1>6, <1>7, <1>8

LEMMA NativeReleased ==
  ASSUME NEW k \in {Native!Base, Native!Derived}
  PROVE  /\ Native!OwnThenBase(k) \in Seq(Native!AllFields)
         /\ \A m, n \in DOMAIN Native!OwnThenBase(k) :
              Native!OwnThenBase(k)[m] = Native!OwnThenBase(k)[n] => m = n
         /\ Native!ToSet(Native!OwnThenBase(k)) = Native!ToSet(Native!Fields(k))
  <1>1. BaseFields \in Seq(Native!AllFields) /\ OwnFields \in Seq(Native!AllFields)
    BY ProgramsAssumption DEF Native!Parameters
  <1>2. CASE k = Native!Base
    <2>1. Native!OwnThenBase(k) = BaseFields /\ Native!Fields(k) = BaseFields
      BY <1>2 DEF Native!OwnThenBase, Native!Fields
    <2> QED
      BY <1>1, <2>1, NativeOnce
  <1>3. CASE k = Native!Derived
    <2> DEFINE both == OwnFields \o BaseFields
    <2>1. Native!OwnThenBase(k) = both
      BY <1>3 DEF Native!OwnThenBase, Native!Base, Native!Derived
    <2>2. /\ both \in Seq(Native!AllFields)
          /\ \A n \in DOMAIN OwnFields : n \in DOMAIN both /\ both[n] = OwnFields[n]
          /\ \A n \in DOMAIN BaseFields : n + Len(OwnFields) \in DOMAIN both
                                         /\ both[n + Len(OwnFields)] = BaseFields[n]
          /\ \A n \in DOMAIN both :
               \/ n \in DOMAIN OwnFields /\ both[n] = OwnFields[n]
               \/ n - Len(OwnFields) \in DOMAIN BaseFields /\ both[n] = BaseFields[n - Len(OwnFields)]
      BY ONLY <1>1, NativeConcat
    <2>3. Len(OwnFields) \in Nat /\ DOMAIN both \subseteq Nat
      BY <1>1, <2>2
    <2> HIDE DEF both
    <2>4. ASSUME NEW m \in DOMAIN both, NEW n \in DOMAIN both, both[m] = both[n]
          PROVE  m = n
      <3>1. CASE /\ m \in DOMAIN OwnFields /\ n \in DOMAIN OwnFields
                 /\ both[m] = OwnFields[m] /\ both[n] = OwnFields[n]
        BY <2>4, <3>1, NativeOnce
      <3>2. CASE /\ m \in DOMAIN OwnFields /\ n - Len(OwnFields) \in DOMAIN BaseFields
                 /\ both[m] = OwnFields[m] /\ both[n] = BaseFields[n - Len(OwnFields)]
        BY <2>4, <3>2, NativeOnce
      <3>4. CASE /\ n \in DOMAIN OwnFields /\ m - Len(OwnFields) \in DOMAIN BaseFields
                 /\ both[n] = OwnFields[n] /\ both[m] = BaseFields[m - Len(OwnFields)]
        BY <2>4, <3>4, NativeOnce
      <3>3. CASE /\ m - Len(OwnFields) \in DOMAIN BaseFields /\ n - Len(OwnFields) \in DOMAIN BaseFields
                 /\ both[m] = BaseFields[m - Len(OwnFields)]
                 /\ both[n] = BaseFields[n - Len(OwnFields)]
        <4>1. m - Len(OwnFields) = n - Len(OwnFields)
          BY <2>4, <3>3, NativeOnce
        <4> QED
          BY <2>3, <4>1
      <3> QED
        BY <2>2, <3>1, <3>2, <3>3, <3>4
    <2>5. \A x : x \in Native!ToSet(both) <=> x \in Native!ToSet(BaseFields) \cup Native!ToSet(OwnFields)
      <3>1. ASSUME NEW x \in Native!ToSet(both)
            PROVE  x \in Native!ToSet(BaseFields) \cup Native!ToSet(OwnFields)
        BY <2>2 DEF Native!ToSet
      <3>2. ASSUME NEW x \in Native!ToSet(BaseFields) \cup Native!ToSet(OwnFields)
            PROVE  x \in Native!ToSet(both)
        BY <2>2 DEF Native!ToSet
      <3> QED
        BY <3>1, <3>2
    <2>6. Native!ToSet(both) = Native!ToSet(Native!Fields(k))
      BY <1>3, <2>5, NativeFields
    <2> QED
      BY <2>1, <2>2, <2>4, <2>6
  <1> QED
    BY <1>2, <1>3

LEMMA NativeDecrefs ==
  ASSUME Native!TypeOK, NEW fs \in Seq(Native!AllFields)
  PROVE  /\ Native!Decrefs(fs) \in Seq(Native!Ops)
         /\ \A n \in DOMAIN Native!Decrefs(fs) : Native!Decrefs(fs)[n][1] = "decref"
         /\ (\A m, n \in DOMAIN fs : fs[m] = fs[n] => m = n) =>
              \A v \in Values :
                /\ IsFiniteSet({f \in Native!ToSet(fs) : attr[f] = v})
                /\ Cardinality(Native!OwedIn(Native!Decrefs(fs), v)) =
                     Cardinality({f \in Native!ToSet(fs) : attr[f] = v})
  <1>1. /\ DOMAIN Native!Decrefs(fs) = 1 .. Len(fs) /\ Len(fs) \in Nat
        /\ \A n \in 1 .. Len(fs) : Native!Decrefs(fs)[n] = <<"decref", attr[fs[n]]>>
    BY DEF Native!Decrefs
  <1>2. \A n \in 1 .. Len(fs) : Native!Decrefs(fs)[n] \in Native!Ops
    <2>1. \A x \in Values \cup {Native!Empty, Native!Null} : <<"decref", x>> \in Native!Ops
      BY DEF Native!Ops
    <2>2. \A n \in 1 .. Len(fs) : attr[fs[n]] \in Values \cup {Native!Empty, Native!Null}
      BY DEF Native!TypeOK
    <2> QED
      BY <1>1, <2>1, <2>2
  <1>3. Native!Decrefs(fs) \in Seq(Native!Ops)
    BY <1>1, <1>2 DEF Native!Decrefs
  <1>4. ASSUME \A m, n \in DOMAIN fs : fs[m] = fs[n] => m = n, NEW v \in Values
        PROVE  /\ IsFiniteSet({f \in Native!ToSet(fs) : attr[f] = v})
               /\ Cardinality(Native!OwedIn(Native!Decrefs(fs), v)) =
                    Cardinality({f \in Native!ToSet(fs) : attr[f] = v})
    <2> DEFINE A == Native!OwedIn(Native!Decrefs(fs), v)
               B == {f \in Native!ToSet(fs) : attr[f] = v}
               g == [n \in A |-> fs[n]]
    <2>1. \A n \in 1 .. Len(fs) : n \in A <=> attr[fs[n]] = v
      BY <1>1 DEF Native!OwedIn, Native!Owes
    <2>2. A \subseteq 1 .. Len(fs)
      BY <1>1 DEF Native!OwedIn
    <2> HIDE DEF A
    <2>3. DOMAIN fs = 1 .. Len(fs)
      OBVIOUS
    <2>4. \A n \in A : g[n] \in B
      BY <2>1, <2>2, <2>3 DEF Native!ToSet
    <2>5. \A m, n \in A : g[m] = g[n] => m = n
      BY <1>4, <2>2, <2>3
    <2>6. \A f \in B : \E n \in A : g[n] = f
      BY <2>1, <2>3 DEF Native!ToSet
    <2>7. g \in Bijection(A, B)
      BY <2>4, <2>5, <2>6, Zenon DEF Bijection, Injection, Surjection, IsInjective
    <2>8. IsFiniteSet(A)
      BY <1>3, NativeOwedFinite DEF A
    <2>9. ExistsBijection(A, B)
      BY <2>7 DEF ExistsBijection
    <2>10. IsFiniteSet(B) /\ Cardinality(B) = Cardinality(A)
      BY ONLY <2>8, <2>9, FS_Bijection
    <2> QED
      BY <2>10 DEF A
  <1> QED
    BY <1>1, <1>3, <1>4

LEMMA NativeOps ==
  ASSUME NEW op \in Native!Ops
  PROVE  /\ op[1] \in {"assign", "store", "decref", "del", "return", "free"}
         /\ op[1] = "assign" =>
              /\ op[2] \in Native!ToSet(Native!Fields(kind)) /\ op[3] \in Values \cup {Native!Null}
              /\ op = <<"assign", op[2], op[3]>>
         /\ op[1] = "store" =>
              /\ op[2] \in Native!ToSet(Native!Fields(kind)) /\ op[3] \in Values
              /\ op = <<"store", op[2], op[3]>>
         /\ op[1] = "decref" =>
              /\ op[2] \in Values \cup {Native!Empty, Native!Null} /\ op = <<"decref", op[2]>>
         /\ op[1] = "del" => op[2] \in Values /\ op = <<"del", op[2]>>
  <1>1. ASSUME NEW f \in Native!ToSet(Native!Fields(kind)), NEW v \in Values \cup {Native!Null},
               op = <<"assign", f, v>>
        PROVE  op[1] = "assign" /\ op[2] = f /\ op[3] = v
    BY <1>1
  <1>2. ASSUME NEW f \in Native!ToSet(Native!Fields(kind)), NEW v \in Values,
               op = <<"store", f, v>>
        PROVE  op[1] = "store" /\ op[2] = f /\ op[3] = v
    BY <1>2
  <1>3. ASSUME NEW v \in Values \cup {Native!Empty, Native!Null}, op = <<"decref", v>>
        PROVE  op[1] = "decref" /\ op[2] = v
    BY <1>3
  <1>4. ASSUME NEW v \in Values, op = <<"del", v>>
        PROVE  op[1] = "del" /\ op[2] = v
    BY <1>4
  <1>5. CASE op = <<"return">> \/ op = <<"free">>
    BY <1>5
  <1>6. \/ \E f \in Native!ToSet(Native!Fields(kind)), v \in Values \cup {Native!Null} :
             op = <<"assign", f, v>>
        \/ \E f \in Native!ToSet(Native!Fields(kind)), v \in Values : op = <<"store", f, v>>
        \/ \E v \in Values \cup {Native!Empty, Native!Null} : op = <<"decref", v>>
        \/ \E v \in Values : op = <<"del", v>>
        \/ op = <<"return">> \/ op = <<"free">>
    BY DEF Native!Ops
  <1> QED
    BY <1>1, <1>2, <1>3, <1>4, <1>5, <1>6

(* The thing to do first, and where the program runs.                      *)
LEMMA NativeFirst ==
  ASSUME NativeShape, NEW op, Native!At(op)
  PROVE  /\ todo # <<>> /\ 1 \in DOMAIN todo /\ todo[1] \in Native!Ops /\ todo[1][1] = op
         /\ todo \in Seq(Native!Ops) /\ Tail(todo) \in Seq(Native!Ops)
  <1>1. todo # <<>> /\ todo[1][1] = op /\ todo \in Seq(Native!Ops)
    BY DEF NativeShape, Native!TypeOK, Native!At
  <1>2. Tail(todo) \in Seq(Native!Ops)
    BY <1>1, HeadTailProperties
  <1>3. 1 \in DOMAIN todo /\ todo[1] \in Native!Ops
    BY <1>1, NativeTail
  <1> QED
    BY <1>1, <1>2, <1>3

LEMMA NativePython == Native!Python => ~Native!At("store")
  BY DEF Native!Python, Native!At

(* The sets that are counted are finite.                                   *)
LEMMA NativeFinite ==
  /\ IsFiniteSet(Native!AllFields)
  /\ \A S : S \subseteq Native!AllFields => IsFiniteSet(S) /\ Cardinality(S) \in Nat
  /\ \A v, S : Cardinality({v} \cap S) = IF v \in S THEN 1 ELSE 0
  <1> DEFINE fs == Native!Fields(Native!Derived)
  <1>1. fs \in Seq(Native!AllFields) /\ Native!AllFields = Native!ToSet(fs)
    BY NativeFields
  <1>2. DOMAIN fs = 1 .. Len(fs) /\ IsFiniteSet(1 .. Len(fs))
    BY <1>1, FS_Interval
  <1>3. fs \in Surjection(1 .. Len(fs), Native!AllFields)
    <2>1. fs \in [1 .. Len(fs) -> Native!AllFields]
      BY <1>1
    <2>2. \A x \in Native!AllFields : \E n \in 1 .. Len(fs) : fs[n] = x
      BY <1>1, <1>2 DEF Native!ToSet
    <2> QED
      BY ONLY <2>1, <2>2, Zenon DEF Surjection
  <1>4. IsFiniteSet(Native!AllFields)
    BY ONLY <1>2, <1>3, FS_Surjection
  <1>5. \A S : S \subseteq Native!AllFields => IsFiniteSet(S) /\ Cardinality(S) \in Nat
    <2> SUFFICES ASSUME NEW S, S \subseteq Native!AllFields
                 PROVE  IsFiniteSet(S) /\ Cardinality(S) \in Nat
      OBVIOUS
    <2>1. IsFiniteSet(S)
      BY <1>4, FS_Subset
    <2> QED
      BY <2>1, FS_CardinalityType
  <1>6. \A v, S : Cardinality({v} \cap S) = IF v \in S THEN 1 ELSE 0
    <2> TAKE v, S
    <2>1. CASE v \in S
      <3>1. {v} \cap S = {v}
        BY <2>1
      <3> QED
        BY <2>1, <3>1, FS_Singleton
    <2>2. CASE v \notin S
      <3>1. {v} \cap S = {}
        BY <2>2
      <3> QED
        BY <2>2, <3>1, FS_EmptySet
    <2> QED
      BY <2>1, <2>2
  <1> QED
    BY <1>4, <1>5, <1>6

LEMMA NativeCardinality ==
  /\ \A S : Native!Cardinality(S) = Cardinality(S)
  /\ \A S : Native!IsFiniteSet(S) <=> IsFiniteSet(S)
  <1>1. \A S : Native!Cardinality(S) = Cardinality(S)
    BY DEF Native!Cardinality, Cardinality
  <1>2. \A S : Native!IsFiniteSet(S) <=> IsFiniteSet(S)
    BY DEF Native!IsFiniteSet, IsFiniteSet
  <1> QED
    BY <1>1, <1>2

(* How Counted reads at a value.                                           *)
LEMMA NativeCount ==
  ASSUME NativeShape, NEW v \in Values
  PROVE  /\ Native!Holding(v) \subseteq Native!AllFields
         /\ Cardinality(Native!Holding(v)) \in Nat
         /\ Cardinality(Native!OwedIn(todo, v)) \in Nat
         /\ Native!Counted =>
              refcnt[v] = (IF v \in referred THEN 1 ELSE 0) + Cardinality(Native!Holding(v))
                            + Cardinality(Native!OwedIn(todo, v))
  <1>1. Native!Holding(v) \subseteq Native!AllFields
    BY DEF Native!Holding
  <1>2. Cardinality(Native!Holding(v)) \in Nat
    BY <1>1, NativeFinite
  <1>3. Cardinality(Native!OwedIn(todo, v)) \in Nat
    <2>1. todo \in Seq(Native!Ops)
      BY DEF NativeShape, Native!TypeOK
    <2> QED
      BY <2>1, NativeOwedFinite
  <1>4. Native!Counted =>
          refcnt[v] = Cardinality({v} \cap referred) + Cardinality(Native!Holding(v))
                        + Cardinality(Native!OwedIn(todo, v))
    BY NativeCardinality, Zenon DEF Native!Counted
  <1>5. Cardinality({v} \cap referred) = IF v \in referred THEN 1 ELSE 0
    BY NativeFinite, Zenon
  <1>6. Native!Counted =>
          refcnt[v] = (IF v \in referred THEN 1 ELSE 0) + Cardinality(Native!Holding(v))
                        + Cardinality(Native!OwedIn(todo, v))
    BY ONLY <1>4, <1>5
  <1> QED
    BY <1>1, <1>2, <1>3, <1>6

LEMMA NativeReleasable ==
  ASSUME NativeShape, Native!Counted, Native!At("decref"), todo[1][2] \in Values
  PROVE  refcnt[todo[1][2]] - 1 \in Nat
  <1> DEFINE v == todo[1][2]
  <1>1. todo # <<>> /\ todo \in Seq(Native!Ops) /\ todo[1] = <<"decref", v>>
    BY NativeFirst, NativeOps
  <1>2. Cardinality(Native!OwedIn(todo, v)) = 1 + Cardinality(Native!OwedIn(Tail(todo), v))
    BY <1>1, NativeOwedTail DEF Native!Owes
  <1>3. Cardinality(Native!OwedIn(Tail(todo), v)) \in Nat
    <2>1. Tail(todo) \in Seq(Native!Ops)
      BY NativeFirst
    <2> QED
      BY <2>1, NativeOwedFinite
  <1>4. /\ refcnt[v] = (IF v \in referred THEN 1 ELSE 0) + Cardinality(Native!Holding(v))
                          + Cardinality(Native!OwedIn(todo, v))
        /\ Cardinality(Native!Holding(v)) \in Nat
    BY NativeCount
  <1> QED
    BY ONLY <1>2, <1>3, <1>4

(* Who refers to the object when nobody does.                              *)
LEMMA NativeNobody ==
  ASSUME NativeShape, Native!SelfCount = 0
  PROVE  /\ owners = {} /\ Native!Self \notin referred
         /\ \A n \in DOMAIN todo : todo[n][1] # "return"
  <1> DEFINE P == {n \in DOMAIN todo : todo[n][1] = "return"}
  <1>1. /\ IsFiniteSet(owners) /\ todo \in Seq(Native!Ops)
    BY NativeCardinality DEF NativeShape, Native!TypeOK
  <1>2. IsFiniteSet(P)
    <2>1. IsFiniteSet(1 .. Len(todo)) /\ P \subseteq 1 .. Len(todo)
      BY <1>1, FS_Interval
    <2> QED
      BY <2>1, FS_Subset
  <1>3. Cardinality(owners) \in Nat /\ Cardinality(P) \in Nat
    BY <1>1, <1>2, FS_CardinalityType
  <1>4. Cardinality({Native!Self} \cap referred) = IF Native!Self \in referred THEN 1 ELSE 0
    BY NativeFinite, Zenon
  <1>5. Native!SelfCount = Cardinality(owners) + Cardinality({Native!Self} \cap referred) + Cardinality(P)
    BY NativeCardinality DEF Native!SelfCount, Native!Quantify
  <1> HIDE DEF P
  <1>6. Cardinality(owners) = 0 /\ Native!Self \notin referred /\ Cardinality(P) = 0
    BY ONLY <1>3, <1>4, <1>5, Native!SelfCount = 0
  <1>7. owners = {} /\ P = {}
    BY <1>1, <1>2, <1>6, FS_EmptySet
  <1> QED
    BY <1>6, <1>7 DEF P

LEMMA NativeDealloc ==
  ASSUME NativeShape, Native!Dealloc
  PROVE  NativeShape'
  <1> DEFINE drop == Native!Decrefs(Native!OwnThenBase(kind))
             last_one == << <<"free">> >>
             code == drop \o last_one
  <1>1. /\ self = "live" /\ self' = "dying" /\ todo' = code \o todo
        /\ UNCHANGED <<kind, attr, refcnt, referred, owners, swept>>
        /\ kind \in {Native!Base, Native!Derived} /\ Native!TypeOK
    BY DEF Native!Dealloc, NativeShape, Native!TypeOK
  <1>2. \A n \in DOMAIN todo : todo[n][1] # "return" /\ todo[n][1] # "store"
    <2>1. \A n \in DOMAIN todo : todo[n][1] # "return"
      BY NativeNobody DEF Native!Dealloc
    <2> QED
      BY <2>1 DEF NativeShape, Native!CallsReturn
  <1>3. drop \in Seq(Native!Ops) /\ \A n \in DOMAIN drop : drop[n][1] = "decref"
    BY <1>1, NativeReleased, NativeDecrefs
  <1>4. last_one \in Seq(Native!Ops) /\ DOMAIN last_one = {1} /\ last_one[1][1] = "free"
    <2>1. <<"free">> \in Native!Ops
      BY DEF Native!Ops
    <2> QED
      BY <2>1
  <1> HIDE DEF drop, last_one
  <1>5. /\ code \in Seq(Native!Ops)
        /\ \A n \in DOMAIN last_one : n + Len(drop) \in DOMAIN code /\ code[n + Len(drop)] = last_one[n]
        /\ \A n \in DOMAIN code :
             \/ n \in DOMAIN drop /\ code[n] = drop[n]
             \/ n - Len(drop) \in DOMAIN last_one /\ code[n] = last_one[n - Len(drop)]
    BY ONLY <1>3, <1>4, NativeConcat
  <1>6. Len(drop) \in Nat /\ DOMAIN code \subseteq Nat
    BY <1>3, <1>5
  <1> HIDE DEF code
  <1>7. \A n \in DOMAIN code : \/ code[n][1] = "decref"
                               \/ code[n][1] = "free" /\ n = 1 + Len(drop)
    <2> SUFFICES ASSUME NEW n \in DOMAIN code
                 PROVE  \/ code[n][1] = "decref"
                        \/ code[n][1] = "free" /\ n = 1 + Len(drop)
      OBVIOUS
    <2>1. CASE n \in DOMAIN drop /\ code[n] = drop[n]
      BY <1>3, <2>1
    <2>2. CASE n - Len(drop) \in DOMAIN last_one /\ code[n] = last_one[n - Len(drop)]
      <3>1. n - Len(drop) = 1
        BY <1>4, <2>2
      <3>2. n = 1 + Len(drop)
        BY <1>6, <3>1
      <3> QED
        BY <1>4, <2>2, <3>1, <3>2
    <2> QED
      BY <1>5, <2>1, <2>2
  <1>8. \E n \in DOMAIN code : code[n][1] = "free"
    <2>1. 1 + Len(drop) \in DOMAIN code /\ code[1 + Len(drop)][1] = "free"
      BY <1>4, <1>5
    <2> QED
      BY <2>1
  <1>9. ~Native!At("store")
    <2>1. todo # <<>> => 1 \in DOMAIN todo
      BY NativeTail DEF NativeShape, Native!TypeOK
    <2> QED
      BY <1>2, <2>1 DEF Native!At
  <1>10. todo' \in Seq(Native!Ops)' /\ Native!CallsReturn'
    <2>1. \A n \in DOMAIN code : code[n][1] \notin {"assign", "store", "return"}
      BY <1>7
    <2> QED
      BY <1>1, <1>2, <1>5, <1>9, <2>1, NativeCode
  <1>11. Native!FreedOnce'
    <2>1. \A m, n \in DOMAIN code : code[m][1] = "free" /\ code[n][1] = "free" => m = n
      BY <1>7
    <2> QED
      BY <1>1, <1>5, <1>8, <2>1, NativeFreed
  <1>12. Native!TypeOK'
    BY <1>1, <1>10 DEF Native!TypeOK
  <1> QED
    BY <1>10, <1>11, <1>12 DEF NativeShape

LEMMA NativeArguments ==
  ASSUME NEW args \in [Native!AllFields -> (Values \cap referred) \cup {Native!Null}]
  PROVE  LET fs == Native!Fields(kind)
             code == [n \in DOMAIN fs |-> <<"assign", fs[n], args[fs[n]]>>]
         IN  /\ code \in Seq(Native!Ops)
             /\ \A n \in DOMAIN code : code[n][1] = "assign"
  <1> DEFINE fs == Native!Fields(kind)
             code == [n \in DOMAIN fs |-> <<"assign", fs[n], args[fs[n]]>>]
  <1>1. fs \in Seq(Native!AllFields)
    BY NativeFields
  <1>2. \A n \in DOMAIN fs : fs[n] \in Native!ToSet(fs) /\ args[fs[n]] \in Values \cup {Native!Null}
    BY <1>1 DEF Native!ToSet
  <1>3. \A n \in DOMAIN fs : code[n] \in Native!Ops
    BY <1>2 DEF Native!Ops
  <1>4. DOMAIN fs = 1 .. Len(fs) /\ Len(fs) \in Nat
    BY <1>1
  <1> QED
    BY <1>3, <1>4

LEMMA NativeStructure ==
  ASSUME NativeShape, Native!Counted, Native!Next
  PROVE  NativeShape'
  <1>1. Native!TypeOK /\ Native!CallsReturn /\ Native!FreedOnce
    BY DEF NativeShape
  <1>2. todo \in Seq(Native!Ops)
    BY <1>1 DEF Native!TypeOK
  (* What only touches the values and the object.                          *)
  <1>3. UNCHANGED <<todo, kind, self>> =>
          todo' \in Seq(Native!Ops)' /\ Native!CallsReturn' /\ Native!FreedOnce'
    <2> SUFFICES ASSUME UNCHANGED <<todo, kind, self>>
                 PROVE  todo' \in Seq(Native!Ops)' /\ Native!CallsReturn' /\ Native!FreedOnce'
      OBVIOUS
    <2>1. Native!Ops' = Native!Ops
      BY DEF Native!Ops
    <2>2. Native!CallsReturn'
      BY <1>1 DEF Native!CallsReturn
    <2>3. Native!FreedOnce'
      BY <1>1 DEF Native!FreedOnce
    <2> QED
      BY <1>2, <2>1, <2>2, <2>3
  <1>4. ASSUME NEW v \in Values, Native!Make(v), swept' = FALSE
        PROVE  NativeShape'
    <2>1. todo' \in Seq(Native!Ops)' /\ Native!CallsReturn' /\ Native!FreedOnce'
      BY <1>3, <1>4 DEF Native!Make
    <2>2. Native!TypeOK'
      BY <1>1, <1>4, <2>1 DEF Native!Make, Native!TypeOK
    <2> QED
      BY <2>1, <2>2 DEF NativeShape
  <1>5. ASSUME NEW v \in Values, Native!Drop(v), swept' = FALSE
        PROVE  NativeShape'
    <2> DEFINE code == Native!Decref(v)
    <2>1. /\ code \in Seq(Native!Ops)
          /\ \A n \in DOMAIN code : code[n][1] = "decref"
      <3>1. <<"decref", v>> \in Native!Ops
        BY DEF Native!Ops
      <3> QED
        BY <3>1 DEF Native!Decref
    <2> HIDE DEF code
    <2>2. /\ todo' = code \o todo /\ UNCHANGED <<self, kind, attr, refcnt, owners>>
          /\ referred' \subseteq referred /\ ~Native!At("store")
      BY <1>5, NativePython DEF Native!Drop, code
    <2>3. todo' \in Seq(Native!Ops)' /\ Native!CallsReturn'
      <3>1. \A n \in DOMAIN code :
              code[n][1] \notin {"assign", "store"} /\ code[n][1] # "return"
        BY <2>1
      <3> QED
        BY <2>1, <2>2, <3>1, NativeCode
    <2>4. Native!FreedOnce'
      <3>1. \A n \in DOMAIN code : code[n][1] # "free"
        BY <2>1
      <3> QED
        BY <2>1, <2>2, <3>1, NativeFreed
    <2>5. Native!TypeOK'
      BY <1>1, <1>5, <2>2, <2>3 DEF Native!TypeOK
    <2> QED
      BY <2>3, <2>4, <2>5 DEF NativeShape
  <1>6. ASSUME NEW v \in Values, Native!Attach(v), swept' = FALSE
        PROVE  NativeShape'
    <2>1. todo' \in Seq(Native!Ops)' /\ Native!CallsReturn' /\ Native!FreedOnce'
      BY <1>3, <1>6 DEF Native!Attach
    <2>2. IsFiniteSet(owners')
      BY <1>1, <1>6, FS_AddElement, NativeCardinality DEF Native!Attach, Native!TypeOK
    <2>3. Native!TypeOK'
      BY <1>1, <1>6, <2>1, <2>2, NativeCardinality DEF Native!Attach, Native!TypeOK
    <2> QED
      BY <2>1, <2>3 DEF NativeShape
  <1>7. ASSUME NEW k \in {Native!Base, Native!Derived}, Native!New(k), swept' = FALSE
        PROVE  NativeShape'
    <2>1. todo = <<>> /\ todo' = <<>> /\ self \in {"none", "freed"} /\ self' \in {"live", "freed"}
      BY <1>7 DEF Native!New
    <2>2. Native!CallsReturn' /\ Native!FreedOnce' /\ todo' \in Seq(Native!Ops)'
      <3>1. DOMAIN <<>> = {}
        OBVIOUS
      <3> QED
        BY <2>1, <3>1 DEF Native!CallsReturn, Native!FreedOnce
    <2>3. Native!TypeOK'
      BY <1>1, <1>7, <2>1, <2>2 DEF Native!New, Native!TypeOK
    <2> QED
      BY <2>2, <2>3 DEF NativeShape
  <1>8. ASSUME NEW f \in Native!AllFields, Native!Get(f), swept' = FALSE
        PROVE  NativeShape'
    <2>1. todo' \in Seq(Native!Ops)' /\ Native!CallsReturn' /\ Native!FreedOnce'
      BY <1>3, <1>8 DEF Native!Get
    <2>2. attr[f] \in Values /\ refcnt \in [Values -> Nat] /\ referred \subseteq Values \cup {Native!Self}
      BY <1>1, <1>8 DEF Native!Get, Native!TypeOK
    <2>3. /\ refcnt' = [refcnt EXCEPT ![attr[f]] = @ + 1] /\ referred' = referred \cup {attr[f]}
          /\ UNCHANGED <<self, kind, attr, owners>>
      BY <1>8 DEF Native!Get
    <2>4. refcnt' \in [Values -> Nat] /\ referred' \subseteq Values \cup {Native!Self}
      BY <2>2, <2>3
    <2>5. Native!TypeOK'
      BY <1>1, <1>8, <2>1, <2>3, <2>4 DEF Native!TypeOK
    <2> QED
      BY <2>1, <2>5 DEF NativeShape
  <1>9. ASSUME NEW f \in Native!AllFields, NEW v \in Values, Native!Setter(f, v), swept' = FALSE
        PROVE  NativeShape'
    <2> DEFINE code == << <<"assign", f, v>> >>
    <2>1. f \in Native!ToSet(Native!Fields(kind)) /\ self = "live" /\ ~Native!At("store")
          /\ UNCHANGED <<self, kind, attr, refcnt, referred, owners>> /\ Native!Call(code)
      BY <1>9, NativePython DEF Native!Setter, Native!Uses
    <2>2. /\ code \in Seq(Native!Ops)
          /\ \A n \in DOMAIN code : code[n][1] = "assign"
      <3>1. <<"assign", f, v>> \in Native!Ops
        BY <2>1 DEF Native!Ops
      <3> QED
        BY <3>1
    <2> HIDE DEF code
    <2>3. todo' \in Seq(Native!Ops)' /\ Native!CallsReturn' /\ Native!FreedOnce'
      BY <2>1, <2>2, NativeCall
    <2>4. Native!TypeOK'
      BY <1>1, <1>9, <2>1, <2>3 DEF Native!TypeOK
    <2> QED
      BY <2>3, <2>4 DEF NativeShape
  <1>10. ASSUME NEW args \in [Native!AllFields -> (Values \cap referred) \cup {Native!Null}],
                NEW kw, Native!RunInit(args, kw), swept' = FALSE
         PROVE  NativeShape'
    <2> DEFINE fs == Native!Fields(kind)
               code == [n \in DOMAIN fs |-> <<"assign", fs[n], args[fs[n]]>>]
    <2>1. /\ self = "live" /\ ~Native!At("store")
          /\ UNCHANGED <<self, kind, attr, refcnt, referred, owners>>
          /\ Native!Call(code) \/ UNCHANGED todo
      BY <1>10, NativePython DEF Native!RunInit, Native!Uses
    <2>2. /\ code \in Seq(Native!Ops)
          /\ \A n \in DOMAIN code : code[n][1] = "assign"
      BY NativeArguments
    <2> HIDE DEF code
    <2>3. todo' \in Seq(Native!Ops)' /\ Native!CallsReturn' /\ Native!FreedOnce'
      <3>1. CASE UNCHANGED todo
        BY <1>3, <2>1, <3>1
      <3>2. CASE Native!Call(code)
        BY <2>1, <2>2, <3>2, NativeCall
      <3> QED
        BY <2>1, <3>1, <3>2
    <2>4. Native!TypeOK'
      BY <1>1, <1>10, <2>1, <2>3 DEF Native!TypeOK
    <2> QED
      BY <2>3, <2>4 DEF NativeShape
  <1>11. ASSUME Native!DropSelf, swept' = FALSE
         PROVE  NativeShape'
    <2>1. todo' \in Seq(Native!Ops)' /\ Native!CallsReturn' /\ Native!FreedOnce'
      BY <1>3, <1>11 DEF Native!DropSelf
    <2>2. Native!TypeOK'
      BY <1>1, <1>11, <2>1 DEF Native!DropSelf, Native!TypeOK
    <2> QED
      BY <2>1, <2>2 DEF NativeShape
  <1>12. CASE Native!Assign
    <2>1. /\ todo # <<>> /\ todo[1][1] = "assign" /\ todo[1][2] \in Native!ToSet(Native!Fields(kind))
          /\ todo[1][3] \in Values \cup {Native!Null}
          /\ UNCHANGED <<self, kind, attr, referred, owners, swept>>
      BY <1>12, NativeFirst, NativeOps DEF Native!Assign
    <2>2. CASE todo[1][3] = Native!Null
      <3>1. todo' = Tail(todo) /\ UNCHANGED refcnt
        BY <1>12, <2>2 DEF Native!Assign
      <3>2. todo' \in Seq(Native!Ops)' /\ Native!CallsReturn' /\ Native!FreedOnce'
        BY <2>1, <3>1, NativePopped
      <3>3. Native!TypeOK'
        BY <1>1, <2>1, <3>1, <3>2 DEF Native!TypeOK
      <3> QED
        BY <3>2, <3>3 DEF NativeShape
    <2>3. CASE todo[1][3] # Native!Null
      <3> DEFINE f == todo[1][2]
                 v == todo[1][3]
                 code == Native!StoreFirst(f, v)
      <3>1. v \in Values /\ attr[f] \in Values \cup {Native!Empty, Native!Null}
        BY <1>1, <2>1, <2>3, NativeFields DEF Native!TypeOK
      <3>2. code = << <<"store", f, v>>, <<"decref", attr[f]>> >>
        BY NativePair DEF Native!StoreFirst, Native!Decref
      <3>3. <<"store", f, v>> \in Native!Ops /\ <<"decref", attr[f]>> \in Native!Ops
        BY <2>1, <3>1 DEF Native!Ops
      <3>4. /\ code \in Seq(Native!Ops)
            /\ \A n \in DOMAIN code : \/ code[n][1] = "decref"
                                      \/ code[n][1] = "store" /\ n = 1
        BY <3>2, <3>3
      <3>5. todo' = code \o Tail(todo) /\ refcnt' = [refcnt EXCEPT ![v] = @ + 1]
        BY <1>12, <2>3 DEF Native!Assign, Native!Increased
      <3> HIDE DEF code
      <3>6. todo' \in Seq(Native!Ops)' /\ Native!CallsReturn' /\ Native!FreedOnce'
        BY <2>1, <3>4, <3>5, NativeDone
      <3>7. refcnt' \in [Values -> Nat]
        BY <1>1, <3>1, <3>5 DEF Native!TypeOK
      <3>8. Native!TypeOK'
        BY <1>1, <2>1, <3>6, <3>7 DEF Native!TypeOK
      <3> QED
        BY <3>6, <3>8 DEF NativeShape
    <2> QED
      BY <2>2, <2>3
  <1>14. CASE Native!Store
    <2>1. /\ todo # <<>> /\ todo[1][1] = "store" /\ todo[1][2] \in Native!AllFields
          /\ todo[1][3] \in Values
          /\ UNCHANGED <<self, kind, refcnt, referred, owners, swept>>
          /\ todo' = Tail(todo) /\ attr' = [attr EXCEPT ![todo[1][2]] = todo[1][3]]
      BY <1>14, NativeFirst, NativeOps, NativeFields DEF Native!Store
    <2>2. todo' \in Seq(Native!Ops)' /\ Native!CallsReturn' /\ Native!FreedOnce'
      BY <2>1, NativePopped
    <2>3. attr' \in [Native!AllFields -> Values \cup {Native!Empty, Native!Null}]
      BY <1>1, <2>1 DEF Native!TypeOK
    <2>4. Native!TypeOK'
      BY <1>1, <2>1, <2>2, <2>3 DEF Native!TypeOK
    <2> QED
      BY <2>2, <2>4 DEF NativeShape
  <1>15. CASE Native!Return
    <2>1. /\ todo # <<>> /\ todo[1][1] = "return" /\ todo' = Tail(todo)
          /\ UNCHANGED <<self, kind, attr, refcnt, referred, owners, swept>>
      BY <1>15, NativeFirst DEF Native!Return
    <2>2. todo' \in Seq(Native!Ops)' /\ Native!CallsReturn' /\ Native!FreedOnce'
      BY <2>1, NativePopped
    <2>3. Native!TypeOK'
      BY <1>1, <2>1, <2>2 DEF Native!TypeOK
    <2> QED
      BY <2>2, <2>3 DEF NativeShape
  <1>16. CASE Native!Release
    <2> DEFINE v == todo[1][2]
    <2>1. /\ todo # <<>> /\ todo[1][1] = "decref"
          /\ UNCHANGED <<self, kind, attr, referred, owners, swept>>
      BY <1>16, NativeFirst DEF Native!Release
    <2>2. CASE v \notin Values
      <3>1. todo' = Tail(todo) /\ UNCHANGED refcnt
        BY <1>16, <2>2 DEF Native!Release
      <3>2. todo' \in Seq(Native!Ops)' /\ Native!CallsReturn' /\ Native!FreedOnce'
        BY <2>1, <3>1, NativePopped
      <3>3. Native!TypeOK'
        BY <1>1, <2>1, <3>1, <3>2 DEF Native!TypeOK
      <3> QED
        BY <3>2, <3>3 DEF NativeShape
    <2>3. CASE v \in Values
      <3> DEFINE code == IF refcnt[v] = 1 THEN << <<"del", v>> >> ELSE <<>>
      <3>1. todo' = code \o Tail(todo) /\ refcnt' = [refcnt EXCEPT ![v] = @ - 1]
        BY <1>16, <2>3 DEF Native!Release
      <3>2. code \in Seq(Native!Ops) /\ \A n \in DOMAIN code : code[n][1] = "del"
        <4>1. <<"del", v>> \in Native!Ops
          BY <2>3 DEF Native!Ops
        <4> QED
          BY <4>1
      <3> HIDE DEF code
      <3>3. todo' \in Seq(Native!Ops)' /\ Native!CallsReturn' /\ Native!FreedOnce'
        BY <2>1, <3>1, <3>2, NativeDone
      <3>4. refcnt[v] - 1 \in Nat
        BY <1>16, <2>3, NativeReleasable DEF Native!Release
      <3>5. refcnt' \in [Values -> Nat]
        BY <1>1, <2>3, <3>1, <3>4 DEF Native!TypeOK
      <3>6. Native!TypeOK'
        BY <1>1, <2>1, <3>3, <3>5 DEF Native!TypeOK
      <3> QED
        BY <3>3, <3>6 DEF NativeShape
    <2> QED
      BY <2>2, <2>3
  <1>17. CASE Native!Deleted
    <2>1. /\ todo # <<>> /\ todo[1][1] = "del" /\ todo' = Tail(todo)
          /\ owners' = owners \ {todo[1][2]}
          /\ UNCHANGED <<self, kind, attr, refcnt, referred, swept>>
      BY <1>17, NativeFirst DEF Native!Deleted
    <2>2. todo' \in Seq(Native!Ops)' /\ Native!CallsReturn' /\ Native!FreedOnce'
      BY <2>1, NativePopped
    <2>3. Native!IsFiniteSet(owners')
      BY <1>1, <2>1, FS_RemoveElement, NativeCardinality DEF Native!TypeOK
    <2>4. Native!TypeOK'
      BY <1>1, <2>1, <2>2, <2>3 DEF Native!TypeOK
    <2> QED
      BY <2>2, <2>4 DEF NativeShape
  <1>18. CASE Native!Free
    <2>1. /\ todo # <<>> /\ todo[1][1] = "free" /\ todo' = Tail(todo) /\ self' = "freed"
          /\ attr' = [f \in Native!AllFields |-> Native!Null]
          /\ UNCHANGED <<kind, refcnt, referred, owners, swept>>
      BY <1>18, NativeFirst DEF Native!Free
    <2>2. todo' \in Seq(Native!Ops)' /\ Native!CallsReturn' /\ Native!FreedOnce'
      BY <2>1, NativePopped
    <2>3. Native!TypeOK'
      BY <1>1, <2>1, <2>2 DEF Native!TypeOK
    <2> QED
      BY <2>2, <2>3 DEF NativeShape
  <1>19. CASE Native!Collect
    <2> DEFINE code == Native!Decrefs(Native!Visits(kind))
    <2>1. /\ self = "live" /\ ~Native!At("store")
          /\ UNCHANGED <<self, kind, refcnt, referred, owners>> /\ swept' = TRUE
          /\ \/ /\ Native!Call(code)
                /\ attr' = [f \in Native!AllFields |->
                              IF f \in Native!ToSet(Native!Visits(kind)) THEN Native!Null ELSE attr[f]]
             \/ UNCHANGED <<todo, attr>>
      BY <1>19, NativePython DEF Native!Collect
    <2>2. Native!Visits(kind) \in Seq(Native!AllFields)
      BY ProgramsAssumption DEF Native!Visits, Native!Parameters
    <2>3. code \in Seq(Native!Ops) /\ \A n \in DOMAIN code : code[n][1] = "decref"
      BY <1>1, <2>2, NativeDecrefs
    <2> HIDE DEF code
    <2>4. todo' \in Seq(Native!Ops)' /\ Native!CallsReturn' /\ Native!FreedOnce'
      <3>1. CASE UNCHANGED todo
        BY <1>3, <2>1, <3>1
      <3>2. CASE Native!Call(code)
        BY <2>1, <2>3, <3>2, NativeCall
      <3> QED
        BY <2>1, <3>1, <3>2
    <2>5. attr' \in [Native!AllFields -> Values \cup {Native!Empty, Native!Null}]
      BY <1>1, <2>1 DEF Native!TypeOK
    <2>6. Native!TypeOK'
      BY <1>1, <2>1, <2>4, <2>5 DEF Native!TypeOK
    <2> QED
      BY <2>4, <2>6 DEF NativeShape
  <1>20. CASE Native!Dealloc
    BY <1>20, NativeDealloc
  <1> QED
    BY <1>4, <1>5, <1>6, <1>7, <1>8, <1>9, <1>10, <1>11, <1>12, <1>14, <1>15, <1>16, <1>17,
       <1>18, <1>19, <1>20, Native!Next DEF Native!Next, Native!Program

-----------------------------------------------------------------------------
(* No store is next, if there was none and none was put in front.          *)
LEMMA NativeNoStore ==
  ASSUME NativeShape, NEW code \in Seq(Native!Ops), NEW rest, todo' = code \o rest,
         \/ rest = todo /\ ~Native!At("store")
         \/ todo # <<>> /\ rest = Tail(todo),
         \A n \in DOMAIN code : code[n][1] # "store"
  PROVE  ~Native!At("store")'
  <1>1. todo \in Seq(Native!Ops) /\ rest \in Seq(Native!Ops)
    <2>1. todo \in Seq(Native!Ops)
      BY DEF NativeShape, Native!TypeOK
    <2>2. todo # <<>> => Tail(todo) \in Seq(Native!Ops)
      BY <2>1, HeadTailProperties
    <2> QED
      BY <2>1, <2>2
  <1>2. \A n \in DOMAIN todo : todo[n][1] = "store" => n = 1
    BY DEF NativeShape, Native!CallsReturn
  <1>3. \A n \in DOMAIN rest : rest[n][1] # "store"
    <2>1. CASE rest = todo /\ ~Native!At("store")
      <3>1. DOMAIN todo # {} => todo # <<>>
        OBVIOUS
      <3> QED
        BY <1>2, <2>1, <3>1 DEF Native!At
    <2>2. CASE todo # <<>> /\ rest = Tail(todo)
      <3> SUFFICES ASSUME NEW n \in DOMAIN rest, rest[n][1] = "store" PROVE FALSE
        OBVIOUS
      <3>1. n + 1 \in DOMAIN todo /\ todo[n + 1][1] = "store"
        BY <1>1, <2>2, NativeTail
      <3>2. n + 1 = 1 /\ n \in Nat /\ n # 0
        BY <1>1, <1>2, <3>1
      <3> QED
        BY <3>2
    <2> QED
      BY <2>1, <2>2
  <1>4. /\ todo' \in Seq(Native!Ops)
        /\ \A n \in DOMAIN todo' :
             \/ n \in DOMAIN code /\ todo'[n] = code[n]
             \/ n - Len(code) \in DOMAIN rest /\ todo'[n] = rest[n - Len(code)]
    BY ONLY <1>1, code \in Seq(Native!Ops), todo' = code \o rest, NativeConcat
  <1>5. \A n \in DOMAIN todo' : todo'[n][1] # "store"
    BY <1>3, <1>4
  <1>6. todo' # <<>> => 1 \in DOMAIN todo'
    BY <1>4
  <1> QED
    BY <1>5, <1>6 DEF Native!At

LEMMA NativePopsStore ==
  ASSUME NativeShape, todo # <<>>, todo' = Tail(todo)
  PROVE  ~Native!At("store")'
  <1> DEFINE code == <<>>
  <1>1. Tail(todo) \in Seq(Native!Ops)
    BY HeadTailProperties DEF NativeShape, Native!TypeOK
  <1>2. code \in Seq(Native!Ops) /\ \A n \in DOMAIN code : code[n][1] # "store"
    OBVIOUS
  <1>3. todo' = code \o Tail(todo)
    BY <1>1, ConcatEmptySeq
  <1> HIDE DEF code
  <1> QED
    BY <1>2, <1>3, NativeNoStore

LEMMA NativeOwedNone ==
  ASSUME NEW s \in Seq(Native!Ops), \A n \in DOMAIN s : s[n][1] \notin {"decref", "store"}, NEW v
  PROVE  Cardinality(Native!OwedIn(s, v)) = 0
  <1>1. ASSUME NEW n \in DOMAIN s, Native!Owes(s[n], v) PROVE FALSE
    BY <1>1 DEF Native!Owes
  <1>2. Native!OwedIn(s, v) = {}
    BY <1>1 DEF Native!OwedIn
  <1> QED
    BY <1>2, FS_EmptySet

(* The count of a value in the next state.                                 *)
LEMMA NativeCounted ==
  ASSUME \A v \in Values :
           refcnt'[v] = (IF v \in referred' THEN 1 ELSE 0) + Cardinality(Native!Holding(v)')
                          + Cardinality(Native!OwedIn(todo', v))
  PROVE  Native!Counted'
  <1>1. \A v : Cardinality({v} \cap referred') = IF v \in referred' THEN 1 ELSE 0
    BY NativeFinite, Zenon
  <1>2. \A v \in Values :
          refcnt'[v] = Cardinality({v} \cap referred') + Cardinality(Native!Holding(v)')
                          + Cardinality(Native!OwedIn(todo', v))
    BY <1>1
  <1> QED
    BY <1>2, NativeCardinality, Zenon DEF Native!Counted

(* Who refers to it, and what is held, do not change where C code is not   *)
(* called and takes nothing.                                               *)
LEMMA NativeSameHolding ==
  ASSUME NativeShape, UNCHANGED <<attr, self>>, ~Native!At("store"), ~Native!At("store")', NEW v
  PROVE  Native!Holding(v)' = Native!Holding(v)
  BY DEF Native!Holding

LEMMA NativeCountedProgram ==
  ASSUME NativeShape, Native!Counted, Native!NothingElseHeld, Native!Program
  PROVE  Native!Counted'
  <1>1. /\ Native!TypeOK /\ todo \in Seq(Native!Ops) /\ ~Native!At("store")
        /\ Values \cap {Native!Empty, Native!Null, Native!Self} = {}
    BY NativePython, ProgramsAssumption
       DEF NativeShape, Native!TypeOK, Native!Program, Native!Make, Native!Drop, Native!Attach,
           Native!New, Native!Get, Native!Setter, Native!RunInit, Native!DropSelf, Native!Uses,
           Native!Parameters
  <1>2. \A v \in Values :
          /\ refcnt[v] = (IF v \in referred THEN 1 ELSE 0) + Cardinality(Native!Holding(v))
                           + Cardinality(Native!OwedIn(todo, v))
          /\ Cardinality(Native!Holding(v)) \in Nat
          /\ Cardinality(Native!OwedIn(todo, v)) \in Nat
    BY NativeCount
  <1>3. UNCHANGED <<attr, self, todo>> => \A v : Native!Holding(v)' = Native!Holding(v)
    BY <1>1 DEF Native!Holding, Native!At
  <1>4. ASSUME NEW v \in Values, Native!Make(v) PROVE Native!Counted'
    <2>1. /\ refcnt[v] = 0 /\ refcnt' = [refcnt EXCEPT ![v] = 1] /\ referred' = referred \cup {v}
          /\ UNCHANGED <<self, attr, todo>>
      BY <1>4 DEF Native!Make
    <2>2. v \notin referred /\ Cardinality(Native!Holding(v)) = 0
          /\ Cardinality(Native!OwedIn(todo, v)) = 0
      BY <1>2, <2>1
    <2>3. refcnt \in [Values -> Nat]
      BY <1>1 DEF Native!TypeOK
    <2>4. \A w \in Values :
            refcnt'[w] = (IF w \in referred' THEN 1 ELSE 0) + Cardinality(Native!Holding(w))
                           + Cardinality(Native!OwedIn(todo, w))
      BY <1>2, <2>1, <2>2, <2>3
    <2> QED
      BY <1>3, <2>1, <2>4, NativeCounted
  <1>5. ASSUME NEW v \in Values, Native!Drop(v) PROVE Native!Counted'
    <2> DEFINE code == Native!Decref(v)
    <2>1. /\ v \in referred /\ referred' = referred \ {v} /\ todo' = code \o todo
          /\ UNCHANGED <<self, attr, refcnt>> /\ code = << <<"decref", v>> >>
      BY <1>5 DEF Native!Drop, Native!Decref
    <2>2. <<"decref", v>> \in Native!Ops
      BY DEF Native!Ops
    <2>3. code \in Seq(Native!Ops) /\ \A n \in DOMAIN code : code[n][1] # "store"
      BY <2>1, <2>2
    <2> HIDE DEF code
    <2>4. ~Native!At("store")'
      BY <1>1, <2>1, <2>3, NativeNoStore
    <2>5. \A w \in Values : Native!Holding(w)' = Native!Holding(w)
      BY <1>1, <2>1, <2>4, NativeSameHolding
    <2>6. \A w \in Values : Cardinality(Native!OwedIn(todo', w)) =
            (IF w = v THEN 1 ELSE 0) + Cardinality(Native!OwedIn(todo, w))
      <3> TAKE w \in Values
      <3>1. Cardinality(Native!OwedIn(todo', w)) =
              Cardinality(Native!OwedIn(code, w)) + Cardinality(Native!OwedIn(todo, w))
        BY ONLY <1>1, <2>1, <2>3, NativeOwedConcat
      <3>2. Native!Owes(<<"decref", v>>, w) <=> w = v
        BY DEF Native!Owes
      <3>3. Cardinality(Native!OwedIn(code, w)) = IF w = v THEN 1 ELSE 0
        BY <2>1, <3>2, NativeOwedOne
      <3> QED
        BY <3>1, <3>3
    <2>7. \A w \in Values :
            refcnt'[w] = (IF w \in referred' THEN 1 ELSE 0) + Cardinality(Native!Holding(w))
                           + Cardinality(Native!OwedIn(todo', w))
      <3> TAKE w \in Values
      <3>1. /\ refcnt[w] = (IF w \in referred THEN 1 ELSE 0) + Cardinality(Native!Holding(w))
                              + Cardinality(Native!OwedIn(todo, w))
            /\ Cardinality(Native!Holding(w)) \in Nat /\ Cardinality(Native!OwedIn(todo, w)) \in Nat
        BY <1>2
      <3>2. Cardinality(Native!OwedIn(todo', w)) =
              (IF w = v THEN 1 ELSE 0) + Cardinality(Native!OwedIn(todo, w))
        BY <2>6
      <3>3. refcnt'[w] = refcnt[w]
        BY <2>1
      <3>4. CASE w = v
        <4>1. w \in referred /\ w \notin referred'
          BY <2>1, <3>4
        <4> QED
          BY ONLY <3>1, <3>2, <3>3, <3>4, <4>1
      <3>5. CASE w # v
        <4>1. w \in referred' <=> w \in referred
          BY <2>1, <3>5
        <4> QED
          BY ONLY <3>1, <3>2, <3>3, <3>5, <4>1
      <3> QED
        BY <3>4, <3>5
    <2> QED
      BY <2>5, <2>7, NativeCounted
  <1>6. ASSUME NEW v \in Values, Native!Attach(v) PROVE Native!Counted'
    <2>1. UNCHANGED <<self, attr, refcnt, referred, todo>>
      BY <1>6 DEF Native!Attach
    <2> QED
      BY <1>2, <1>3, <2>1, NativeCounted
  <1>7. ASSUME NEW k \in {Native!Base, Native!Derived}, Native!New(k) PROVE Native!Counted'
    <2>1. /\ todo = <<>> /\ UNCHANGED <<refcnt, todo>> /\ self \in {"none", "freed"}
          /\ \/ referred' = referred \cup {Native!Self} /\ \A f \in Native!AllFields : attr'[f] \in {Native!Empty, Native!Null}
             \/ UNCHANGED <<referred, attr>>
      BY <1>7 DEF Native!New
    <2>2. \A f \in Native!AllFields : attr[f] = Native!Null
      BY <2>1 DEF Native!NothingElseHeld
    <2>3. \A f \in Native!AllFields : attr[f] \notin Values /\ attr'[f] \notin Values
      BY <1>1, <2>1, <2>2
    <2>4. \A v \in Values : Native!Holding(v) = {} /\ Native!Holding(v)' = {}
      BY <2>3 DEF Native!Holding
    <2>5. \A v \in Values : v \in referred' <=> v \in referred
      BY <1>1, <2>1
    <2> QED
      BY <1>2, <2>1, <2>4, <2>5, NativeCounted
  <1>8. ASSUME NEW f \in Native!AllFields, Native!Get(f) PROVE Native!Counted'
    <2>1. /\ attr[f] \in Values \ referred /\ refcnt' = [refcnt EXCEPT ![attr[f]] = @ + 1]
          /\ referred' = referred \cup {attr[f]} /\ UNCHANGED <<self, attr, todo>>
      BY <1>8 DEF Native!Get
    <2>2. refcnt \in [Values -> Nat]
      BY <1>1 DEF Native!TypeOK
    <2>3. \A w \in Values :
            refcnt'[w] = (IF w \in referred' THEN 1 ELSE 0) + Cardinality(Native!Holding(w))
                           + Cardinality(Native!OwedIn(todo, w))
      BY <1>2, <2>1, <2>2
    <2> QED
      BY <1>3, <2>1, <2>3, NativeCounted
  <1>9. ASSUME Native!DropSelf PROVE Native!Counted'
    <2>1. UNCHANGED <<self, attr, refcnt, todo>> /\ referred' = referred \ {Native!Self}
      BY <1>9 DEF Native!DropSelf
    <2>2. \A v \in Values : v \in referred' <=> v \in referred
      BY <1>1, <2>1
    <2> QED
      BY <1>2, <1>3, <2>1, <2>2, NativeCounted
  (* A call with arguments takes references when it stores them.           *)
  <1>10. ASSUME NEW code \in Seq(Native!Ops), \A n \in DOMAIN code : code[n][1] = "assign",
                Native!Call(code), UNCHANGED <<self, attr, refcnt, referred>>
         PROVE  Native!Counted'
    <2> DEFINE back == << <<"return">> >>
               all == code \o back
    <2>1. back \in Seq(Native!Ops) /\ DOMAIN back = {1} /\ back[1][1] = "return"
      <3>1. <<"return">> \in Native!Ops
        BY DEF Native!Ops
      <3> QED
        BY <3>1
    <2>2. todo' = all \o todo
      BY <1>10 DEF Native!Call
    <2> HIDE DEF back
    <2>3. /\ all \in Seq(Native!Ops)
          /\ \A n \in DOMAIN all :
               \/ n \in DOMAIN code /\ all[n] = code[n]
               \/ n - Len(code) \in DOMAIN back /\ all[n] = back[n - Len(code)]
      BY <2>1, NativeConcat
    <2> HIDE DEF all
    <2>4. \A n \in DOMAIN all : all[n][1] \in {"assign", "return"}
      BY <1>10, <2>1, <2>3
    <2>5. \A v \in Values : Native!Holding(v)' = Native!Holding(v)
      <3>1. ~Native!At("store")'
        BY <1>1, <2>2, <2>3, <2>4, NativeNoStore
      <3> QED
        BY <1>1, <1>10, <3>1, NativeSameHolding
    <2>6. \A v \in Values : Cardinality(Native!OwedIn(todo', v)) = Cardinality(Native!OwedIn(todo, v))
      <3> TAKE v \in Values
      <3>1. Cardinality(Native!OwedIn(all, v)) = 0
        BY <2>3, <2>4, NativeOwedNone
      <3>2. Cardinality(Native!OwedIn(all \o todo, v)) =
              Cardinality(Native!OwedIn(all, v)) + Cardinality(Native!OwedIn(todo, v))
        BY ONLY <1>1, <2>3, NativeOwedConcat
      <3> QED
        BY <1>2, <2>2, <3>1, <3>2
    <2> QED
      BY <1>2, <1>10, <2>5, <2>6, NativeCounted
  <1>11. ASSUME NEW f \in Native!AllFields, NEW v \in Values, Native!Setter(f, v)
         PROVE  Native!Counted'
    <2>1. <<"assign", f, v>> \in Native!Ops
      BY <1>11 DEF Native!Setter, Native!Ops
    <2>2. << <<"assign", f, v>> >> \in Seq(Native!Ops)
          /\ \A n \in DOMAIN << <<"assign", f, v>> >> : << <<"assign", f, v>> >>[n][1] = "assign"
      BY <2>1
    <2> QED
      BY <1>10, <1>11, <2>2 DEF Native!Setter
  <1>12. ASSUME NEW args \in [Native!AllFields -> (Values \cap referred) \cup {Native!Null}],
                NEW kw, Native!RunInit(args, kw)
         PROVE  Native!Counted'
    <2> DEFINE fs == Native!Fields(kind)
               code == [n \in DOMAIN fs |-> <<"assign", fs[n], args[fs[n]]>>]
    <2>1. /\ UNCHANGED <<self, attr, refcnt, referred>> /\ (Native!Call(code) \/ UNCHANGED todo)
      BY <1>12 DEF Native!RunInit
    <2>2. /\ code \in Seq(Native!Ops)
          /\ \A n \in DOMAIN code : code[n][1] = "assign"
      BY NativeArguments
    <2> HIDE DEF code
    <2>3. CASE UNCHANGED todo
      BY <1>2, <1>3, <2>1, <2>3, NativeCounted
    <2>4. CASE Native!Call(code)
      BY <1>10, <2>1, <2>2, <2>4
    <2> QED
      BY <2>1, <2>3, <2>4
  <1> QED
    BY <1>4, <1>5, <1>6, <1>7, <1>8, <1>9, <1>11, <1>12 DEF Native!Program

LEMMA NativeCountedC ==
  ASSUME NativeShape, Native!Counted, Native!NothingElseHeld,
         Native!Assign \/ Native!Store \/ Native!Return \/ Native!Release \/ Native!Deleted \/ Native!Free
  PROVE  Native!Counted'
  <1>1. /\ Native!TypeOK /\ todo \in Seq(Native!Ops) /\ todo # <<>> /\ 1 \in DOMAIN todo
        /\ todo[1] \in Native!Ops /\ Tail(todo) \in Seq(Native!Ops)
        /\ Values \cap {Native!Empty, Native!Null, Native!Self} = {}
    BY NativeFirst, ProgramsAssumption
       DEF NativeShape, Native!TypeOK, Native!Assign, Native!Store, Native!Return, Native!Release,
           Native!Deleted, Native!Free, Native!Parameters
  <1>2. \A v \in Values :
          /\ refcnt[v] = (IF v \in referred THEN 1 ELSE 0) + Cardinality(Native!Holding(v))
                           + Cardinality(Native!OwedIn(todo, v))
          /\ Cardinality(Native!Holding(v)) \in Nat
          /\ Cardinality(Native!OwedIn(Tail(todo), v)) \in Nat
    BY <1>1, NativeCount, NativeOwedFinite
  <1>3. \A v \in Values :
          Cardinality(Native!OwedIn(todo, v)) =
            (IF Native!Owes(todo[1], v) THEN 1 ELSE 0) + Cardinality(Native!OwedIn(Tail(todo), v))
    BY <1>1, NativeOwedTail
  (* What is done owed nothing.                                            *)
  <1>4. /\ \/ todo[1][1] \notin {"decref", "store"}
           \/ todo[1] = <<"decref", todo[1][2]>> /\ todo[1][2] \notin Values
        /\ todo' = Tail(todo) /\ UNCHANGED <<self, attr, refcnt, referred>>
        => Native!Counted'
    <2> SUFFICES ASSUME \/ todo[1][1] \notin {"decref", "store"}
                        \/ todo[1] = <<"decref", todo[1][2]>> /\ todo[1][2] \notin Values,
                        todo' = Tail(todo), UNCHANGED <<self, attr, refcnt, referred>>
                 PROVE  Native!Counted'
      OBVIOUS
    <2>1. \A v \in Values : ~Native!Owes(todo[1], v)
      BY DEF Native!Owes
    <2>2. ~Native!At("store")
      BY DEF Native!At
    <2>3. ~Native!At("store")'
      BY <1>1, NativePopsStore
    <2>4. \A v \in Values : Native!Holding(v)' = Native!Holding(v)
      BY <2>2, <2>3, NativeSameHolding
    <2> QED
      BY <1>2, <1>3, <2>1, <2>4, NativeCounted
  <1>5. CASE Native!Return
    BY <1>4, <1>5 DEF Native!Return, Native!At
  <1>6. CASE Native!Deleted
    BY <1>4, <1>6 DEF Native!Deleted, Native!At
  <1>7. CASE Native!Free
    <2>1. todo[1][1] = "free" /\ todo' = Tail(todo) /\ self = "dying"
          /\ attr' = [f \in Native!AllFields |-> Native!Null] /\ UNCHANGED <<refcnt, referred>>
      BY <1>1, <1>7 DEF Native!Free, Native!At, NativeShape, Native!FreedOnce
    <2>2. \A v \in Values : Native!Holding(v) = {} /\ Native!Holding(v)' = {}
      BY <1>1, <2>1 DEF Native!Holding
    <2>3. \A v \in Values : ~Native!Owes(todo[1], v)
      BY <2>1 DEF Native!Owes
    <2>4. \A v \in Values :
            refcnt'[v] = (IF v \in referred' THEN 1 ELSE 0) + Cardinality(Native!Holding(v)')
                           + Cardinality(Native!OwedIn(todo', v))
      <3> TAKE v \in Values
      <3>1. refcnt[v] = (IF v \in referred THEN 1 ELSE 0) + Cardinality(Native!Holding(v))
                          + Cardinality(Native!OwedIn(todo, v))
            /\ Cardinality(Native!OwedIn(Tail(todo), v)) \in Nat
            /\ Cardinality(Native!OwedIn(todo, v)) = 0 + Cardinality(Native!OwedIn(Tail(todo), v))
        BY <1>2, <1>3, <2>3
      <3>2. Cardinality(Native!Holding(v)) = Cardinality(Native!Holding(v)')
        BY <2>2
      <3>3. refcnt'[v] = refcnt[v] /\ referred' = referred /\ todo' = Tail(todo)
        BY <2>1
      <3> QED
        BY ONLY <3>1, <3>2, <3>3
    <2> QED
      BY <2>4, NativeCounted
  <1>8. CASE Native!Release
    <2> DEFINE v == todo[1][2]
    <2>1. todo[1] = <<"decref", v>> /\ UNCHANGED <<self, attr, referred>>
      BY <1>1, <1>8, NativeOps DEF Native!Release, Native!At
    <2>2. CASE v \notin Values
      BY <1>4, <1>8, <2>1, <2>2 DEF Native!Release
    <2>3. CASE v \in Values
      <3> DEFINE code == IF refcnt[v] = 1 THEN << <<"del", v>> >> ELSE <<>>
      <3>1. todo' = code \o Tail(todo) /\ refcnt' = [refcnt EXCEPT ![v] = @ - 1]
        BY <1>8, <2>3 DEF Native!Release
      <3>2. code \in Seq(Native!Ops) /\ \A n \in DOMAIN code : code[n][1] = "del"
        <4>1. <<"del", v>> \in Native!Ops
          BY <2>3 DEF Native!Ops
        <4> QED
          BY <4>1
      <3> HIDE DEF code
      <3>3. ~Native!At("store") /\ ~Native!At("store")'
        <4>1. \A n \in DOMAIN code : code[n][1] # "store"
          BY <3>2
        <4>2. ~Native!At("store")'
          BY <1>1, <3>1, <3>2, <4>1, NativeNoStore
        <4> QED
          BY <2>1, <4>2 DEF Native!At
      <3>4. \A w \in Values : Native!Holding(w)' = Native!Holding(w)
        BY <2>1, <3>3, NativeSameHolding
      <3>5. \A w \in Values :
              Cardinality(Native!OwedIn(todo', w)) = Cardinality(Native!OwedIn(Tail(todo), w))
        <4> TAKE w \in Values
        <4>1. \A n \in DOMAIN code : code[n][1] \notin {"decref", "store"}
          BY <3>2
        <4>2. Cardinality(Native!OwedIn(code, w)) = 0
          BY <3>2, <4>1, NativeOwedNone
        <4>3. Cardinality(Native!OwedIn(code \o Tail(todo), w)) =
                Cardinality(Native!OwedIn(code, w)) + Cardinality(Native!OwedIn(Tail(todo), w))
          BY ONLY <1>1, <3>2, NativeOwedConcat
        <4> QED
          BY <1>2, <3>1, <4>2, <4>3
      <3>6. \A w \in Values : Native!Owes(todo[1], w) <=> w = v
        BY <2>1 DEF Native!Owes
      <3>7. \A w \in Values : refcnt'[w] = IF w = v THEN refcnt[w] - 1 ELSE refcnt[w]
        BY <1>1, <3>1 DEF Native!TypeOK
      <3>8. \A w \in Values :
              refcnt'[w] = (IF w \in referred' THEN 1 ELSE 0) + Cardinality(Native!Holding(w)')
                             + Cardinality(Native!OwedIn(todo', w))
        <4> TAKE w \in Values
        <4>1. refcnt[w] = (IF w \in referred THEN 1 ELSE 0) + Cardinality(Native!Holding(w))
                            + (IF w = v THEN 1 ELSE 0) + Cardinality(Native!OwedIn(Tail(todo), w))
              /\ Cardinality(Native!Holding(w)) \in Nat
              /\ Cardinality(Native!OwedIn(Tail(todo), w)) \in Nat
          BY <1>2, <1>3, <3>6
        <4>2. /\ refcnt'[w] = (IF w = v THEN refcnt[w] - 1 ELSE refcnt[w])
              /\ Cardinality(Native!Holding(w)') = Cardinality(Native!Holding(w))
              /\ Cardinality(Native!OwedIn(todo', w)) = Cardinality(Native!OwedIn(Tail(todo), w))
              /\ referred' = referred
          BY <2>1, <3>4, <3>5, <3>7
        <4> QED
          BY ONLY <4>1, <4>2
      <3> QED
        BY <3>8, NativeCounted
    <2> QED
      BY <2>2, <2>3
  <1>9. CASE Native!Assign
    <2> DEFINE f == todo[1][2]
               v == todo[1][3]
    <2>1. /\ todo[1] = <<"assign", f, v>> /\ UNCHANGED <<self, attr, referred>>
          /\ f \in Native!AllFields /\ v \in Values \cup {Native!Null}
      BY <1>1, <1>9, NativeOps, NativeFields DEF Native!Assign, Native!At
    <2>2. CASE v = Native!Null
      <3>1. todo' = Tail(todo) /\ UNCHANGED refcnt
        BY <1>9, <2>2 DEF Native!Assign
      <3>2. todo[1][1] \notin {"decref", "store"}
        BY <2>1
      <3> QED
        BY <1>4, <2>1, <3>1, <3>2
    <2>3. CASE v # Native!Null
      <3> DEFINE code == Native!StoreFirst(f, v)
                 old  == attr[f]
      <3>1. v \in Values /\ old \in Values \cup {Native!Empty, Native!Null}
        BY <1>1, <2>1, <2>3 DEF Native!TypeOK
      <3>2. code = << <<"store", f, v>> >> \o << <<"decref", old>> >>
        BY DEF Native!StoreFirst, Native!Decref
      <3>3. <<"store", f, v>> \in Native!Ops /\ <<"decref", old>> \in Native!Ops
        <4>1. f \in Native!ToSet(Native!Fields(kind))
          BY <1>1, <2>1, NativeOps
        <4> QED
          BY <3>1, <4>1 DEF Native!Ops
      <3>4. /\ << <<"store", f, v>> >> \in Seq(Native!Ops) /\ << <<"decref", old>> >> \in Seq(Native!Ops)
        BY <3>3
      <3>5. code \in Seq(Native!Ops) /\ 1 \in DOMAIN code /\ code[1] = <<"store", f, v>>
        <4>1. code = << <<"store", f, v>>, <<"decref", old>> >>
          BY <3>2, NativePair
        <4> QED
          BY <3>3, <4>1
      <3>6. todo' = code \o Tail(todo) /\ refcnt' = [refcnt EXCEPT ![v] = @ + 1]
        BY <1>9, <2>3 DEF Native!Assign, Native!Increased
      <3>7. self = "live"
        BY <1>1, <2>1 DEF NativeShape, Native!CallsReturn
      <3>8. \A w \in Values :
              /\ Native!Owes(<<"store", f, v>>, w) <=> w = v
              /\ Native!Owes(<<"decref", old>>, w) <=> w = old
              /\ ~Native!Owes(todo[1], w)
        BY <2>1 DEF Native!Owes
      <3>9. \A w \in Values :
              Cardinality(Native!OwedIn(todo', w)) =
                (IF w = v THEN 1 ELSE 0) + (IF w = old THEN 1 ELSE 0)
                  + Cardinality(Native!OwedIn(Tail(todo), w))
        <4> TAKE w \in Values
        <4>1. Cardinality(Native!OwedIn(code \o Tail(todo), w)) =
                Cardinality(Native!OwedIn(code, w)) + Cardinality(Native!OwedIn(Tail(todo), w))
          BY ONLY <1>1, <3>5, NativeOwedConcat
        <4>2. Cardinality(Native!OwedIn(<< <<"store", f, v>> >> \o << <<"decref", old>> >>, w)) =
                Cardinality(Native!OwedIn(<< <<"store", f, v>> >>, w))
                  + Cardinality(Native!OwedIn(<< <<"decref", old>> >>, w))
          BY ONLY <3>4, NativeOwedConcat
        <4>3. Cardinality(Native!OwedIn(<< <<"store", f, v>> >>, w)) = IF w = v THEN 1 ELSE 0
          BY <3>8, NativeOwedOne
        <4>4. Cardinality(Native!OwedIn(<< <<"decref", old>> >>, w)) = IF w = old THEN 1 ELSE 0
          BY <3>8, NativeOwedOne
        <4>5. Cardinality(Native!OwedIn(code, w)) =
                (IF w = v THEN 1 ELSE 0) + (IF w = old THEN 1 ELSE 0)
          BY ONLY <3>2, <4>2, <4>3, <4>4
        <4> HIDE DEF code, old, f, v
        <4>6. Cardinality(Native!OwedIn(Tail(todo), w)) \in Nat
          BY <1>2
        <4> QED
          BY ONLY <3>6, <4>1, <4>5, <4>6
      <3>10. Native!At("store")' /\ todo'[1] = <<"store", f, v>>
        <4>1. 1 \in DOMAIN todo' /\ todo'[1] = code[1]
          BY ONLY <1>1, <3>5, <3>6, NativeConcat
        <4>2. todo' # <<>>
          BY <4>1
        <4> QED
          BY <3>5, <4>1, <4>2 DEF Native!At
      <3>11. \A w \in Values :
               Cardinality(Native!Holding(w)) =
                 Cardinality(Native!Holding(w)') + (IF w = old THEN 1 ELSE 0)
        <4> TAKE w \in Values
        <4>1. Native!Holding(w)' = Native!Holding(w) \ {f}
          BY <2>1, <3>7, <3>10 DEF Native!Holding, Native!At
        <4>2. f \in Native!Holding(w) <=> w = old
          BY <2>1, <3>7 DEF Native!Holding, Native!At
        <4>3. IsFiniteSet(Native!Holding(w)) /\ Cardinality(Native!Holding(w)) \in Nat
          BY NativeFinite, NativeCount
        <4>4. Cardinality(Native!Holding(w) \ {f}) =
                IF f \in Native!Holding(w) THEN Cardinality(Native!Holding(w)) - 1
                                          ELSE Cardinality(Native!Holding(w))
          BY <4>3, FS_RemoveElement
        <4> QED
          BY ONLY <4>1, <4>2, <4>3, <4>4
      <3>12. \A w \in Values : refcnt'[w] = IF w = v THEN refcnt[w] + 1 ELSE refcnt[w]
        BY <1>1, <3>6 DEF Native!TypeOK
      <3>13. \A w \in Values :
              refcnt'[w] = (IF w \in referred' THEN 1 ELSE 0) + Cardinality(Native!Holding(w)')
                             + Cardinality(Native!OwedIn(todo', w))
        <4> TAKE w \in Values
        <4>1. refcnt[w] = (IF w \in referred THEN 1 ELSE 0) + Cardinality(Native!Holding(w))
                            + (0 + Cardinality(Native!OwedIn(Tail(todo), w)))
              /\ Cardinality(Native!OwedIn(Tail(todo), w)) \in Nat
          BY <1>2, <1>3, <3>8
        <4>2. Cardinality(Native!Holding(w)') \in Nat
          <5>1. Native!Holding(w)' \subseteq Native!AllFields
            BY DEF Native!Holding
          <5> QED
            BY <5>1, NativeFinite
        <4>3. refcnt'[w] = (IF w = v THEN refcnt[w] + 1 ELSE refcnt[w]) /\ referred' = referred
          BY <2>1, <3>12
        <4> HIDE DEF f, v, old
        <4> QED
          BY <3>9, <3>11, <4>1, <4>2, <4>3
      <3> QED
        BY <3>13, NativeCounted
    <2> QED
      BY <2>2, <2>3
  <1>10. CASE Native!Store
    <2> DEFINE f == todo[1][2]
               v == todo[1][3]
    <2>1. /\ todo[1] = <<"store", f, v>> /\ UNCHANGED <<self, refcnt, referred>>
          /\ f \in Native!AllFields /\ v \in Values /\ todo' = Tail(todo)
          /\ attr' = [attr EXCEPT ![f] = v] /\ Native!At("store")
      BY <1>1, <1>10, NativeOps, NativeFields DEF Native!Store, Native!At
    <2>2. self = "live"
      BY <1>1, <2>1 DEF NativeShape, Native!CallsReturn
    <2>3. ~Native!At("store")'
      BY <1>1, <2>1, NativePopsStore
    <2>4. \A w \in Values : Native!Owes(todo[1], w) <=> w = v
      BY <2>1 DEF Native!Owes
    <2>5. \A w \in Values :
            Cardinality(Native!Holding(w)') = Cardinality(Native!Holding(w)) + IF w = v THEN 1 ELSE 0
      <3> TAKE w \in Values
      <3>1. f \notin Native!Holding(w)
        BY <2>1 DEF Native!Holding
      <3>2. Native!Holding(w)' = IF w = v THEN Native!Holding(w) \cup {f} ELSE Native!Holding(w)
        <4>1. attr \in [Native!AllFields -> Values \cup {Native!Empty, Native!Null}]
          BY <1>1 DEF Native!TypeOK
        <4>2. \A g \in Native!AllFields : attr'[g] = IF g = f THEN v ELSE attr[g]
          BY <2>1, <4>1
        <4>3. Native!Holding(w) = {g \in Native!AllFields : attr[g] = w /\ g # f}
          BY <2>1, <2>2 DEF Native!Holding
        <4>4. Native!Holding(w)' = {g \in Native!AllFields : attr'[g] = w}
          BY <2>1, <2>2, <2>3 DEF Native!Holding
        <4> QED
          BY <2>1, <4>2, <4>3, <4>4
      <3>3. IsFiniteSet(Native!Holding(w)) /\ Cardinality(Native!Holding(w)) \in Nat
        BY NativeFinite, NativeCount
      <3>4. Cardinality(Native!Holding(w) \cup {f}) = Cardinality(Native!Holding(w)) + 1
        BY <3>1, <3>3, FS_AddElement
      <3> QED
        BY ONLY <3>2, <3>3, <3>4
    <2>6. \A w \in Values :
            refcnt'[w] = (IF w \in referred' THEN 1 ELSE 0) + Cardinality(Native!Holding(w)')
                           + Cardinality(Native!OwedIn(todo', w))
      <3> TAKE w \in Values
      <3>1. refcnt[w] = (IF w \in referred THEN 1 ELSE 0) + Cardinality(Native!Holding(w))
                          + ((IF w = v THEN 1 ELSE 0) + Cardinality(Native!OwedIn(Tail(todo), w)))
            /\ Cardinality(Native!OwedIn(Tail(todo), w)) \in Nat
            /\ Cardinality(Native!Holding(w)) \in Nat
        BY <1>2, <1>3, <2>4
      <3>2. refcnt'[w] = refcnt[w] /\ referred' = referred /\ todo' = Tail(todo)
        BY <2>1
      <3>3. Cardinality(Native!Holding(w)') = Cardinality(Native!Holding(w)) + IF w = v THEN 1 ELSE 0
        BY <2>5
      <3> HIDE DEF f, v
      <3> QED
        BY ONLY <3>1, <3>2, <3>3
    <2> QED
      BY <2>6, NativeCounted
  <1> QED
    BY <1>5, <1>6, <1>7, <1>8, <1>9, <1>10

LEMMA NativeCountedDealloc ==
  ASSUME NativeShape, NativeShape', Native!Counted, Native!NothingElseHeld, Native!Dealloc
  PROVE  Native!Counted'
  <1> DEFINE drop == Native!Decrefs(Native!OwnThenBase(kind))
             last_one == << <<"free">> >>
             held(v) == {f \in Native!ToSet(Native!OwnThenBase(kind)) : attr[f] = v}
  <1>1. /\ self = "live" /\ self' = "dying" /\ todo' = (drop \o last_one) \o todo
        /\ UNCHANGED <<kind, attr, refcnt, referred>> /\ todo \in Seq(Native!Ops)
        /\ kind \in {Native!Base, Native!Derived} /\ Native!TypeOK
        /\ Values \cap {Native!Empty, Native!Null, Native!Self} = {}
    BY ProgramsAssumption DEF Native!Dealloc, NativeShape, Native!TypeOK, Native!Parameters
  <1>2. drop \in Seq(Native!Ops) /\ last_one \in Seq(Native!Ops)
    <2>1. <<"free">> \in Native!Ops
      BY DEF Native!Ops
    <2> QED
      BY <1>1, <2>1, NativeReleased, NativeDecrefs
  <1>3. drop \o last_one \in Seq(Native!Ops)
    BY <1>2, NativeConcat
  <1>4. ~Native!At("store")
    <2>1. \A n \in DOMAIN todo : todo[n][1] # "return"
      BY NativeNobody DEF Native!Dealloc
    <2>2. todo # <<>> => 1 \in DOMAIN todo
      BY <1>1, NativeTail
    <2> QED
      BY <2>1, <2>2 DEF NativeShape, Native!CallsReturn, Native!At
  <1>5. \A v \in Values : Native!Holding(v) = held(v) /\ Native!Holding(v)' = {}
    <2> TAKE v \in Values
    <2>1. Native!Holding(v) = {f \in Native!AllFields : attr[f] = v}
      BY <1>1, <1>4 DEF Native!Holding
    <2>2. \A f \in Native!AllFields : attr[f] = v => f \in Native!ToSet(Native!Fields(kind))
      BY <1>1 DEF Native!NothingElseHeld
    <2>3. Native!ToSet(Native!OwnThenBase(kind)) = Native!ToSet(Native!Fields(kind))
          /\ Native!ToSet(Native!Fields(kind)) \subseteq Native!AllFields
      BY <1>1, NativeReleased, NativeFields
    <2>4. Native!Holding(v)' = {}
      BY <1>1 DEF Native!Holding
    <2> QED
      BY <2>1, <2>2, <2>3, <2>4
  <1>6. \A v \in Values :
          Cardinality(Native!OwedIn(todo', v)) =
            Cardinality(held(v)) + Cardinality(Native!OwedIn(todo, v))
    <2> TAKE v \in Values
    <2>1. Cardinality(Native!OwedIn((drop \o last_one) \o todo, v)) =
            Cardinality(Native!OwedIn(drop \o last_one, v)) + Cardinality(Native!OwedIn(todo, v))
      BY ONLY <1>1, <1>3, NativeOwedConcat
    <2>2. Cardinality(Native!OwedIn(drop \o last_one, v)) =
            Cardinality(Native!OwedIn(drop, v)) + Cardinality(Native!OwedIn(last_one, v))
      BY ONLY <1>2, NativeOwedConcat
    <2>3. Cardinality(Native!OwedIn(last_one, v)) = 0
      <3>1. ~Native!Owes(<<"free">>, v)
        <4>1. <<"free">>[1] = "free" /\ <<"decref", v>>[1] = "decref"
          OBVIOUS
        <4> QED
          BY <4>1 DEF Native!Owes
      <3> QED
        BY <3>1, NativeOwedOne
    <2>4. Cardinality(Native!OwedIn(drop, v)) = Cardinality(held(v))
      BY <1>1, NativeReleased, NativeDecrefs
    <2>5. Cardinality(Native!OwedIn(drop, v)) \in Nat
      BY <1>2, NativeOwedFinite
    <2> HIDE DEF drop, last_one, held
    <2> QED
      BY ONLY <1>1, <2>1, <2>2, <2>3, <2>4, <2>5
  <1>7. \A v \in Values :
          refcnt'[v] = (IF v \in referred' THEN 1 ELSE 0) + Cardinality(Native!Holding(v)')
                         + Cardinality(Native!OwedIn(todo', v))
    <2> TAKE v \in Values
    <2>1. /\ refcnt[v] = (IF v \in referred THEN 1 ELSE 0) + Cardinality(Native!Holding(v))
                            + Cardinality(Native!OwedIn(todo, v))
          /\ Cardinality(Native!Holding(v)) \in Nat
          /\ Cardinality(Native!OwedIn(todo, v)) \in Nat
      BY NativeCount
    <2>2. Cardinality(Native!Holding(v)') = 0
      BY <1>5, FS_EmptySet
    <2>3. Cardinality(Native!OwedIn(todo', v)) =
            Cardinality(Native!Holding(v)) + Cardinality(Native!OwedIn(todo, v))
      BY <1>5, <1>6
    <2>4. refcnt' = refcnt /\ referred' = referred
      BY <1>1
    <2> QED
      BY ONLY <2>1, <2>2, <2>3, <2>4
  <1> QED
    BY <1>7, NativeCounted

LEMMA NativeCountedCollect ==
  ASSUME NativeShape, Native!Counted, Native!NothingElseHeld, Native!Collect
  PROVE  Native!Counted'
  <1> DEFINE seen == Native!Visits(kind)
             drop == Native!Decrefs(seen)
             back == << <<"return">> >>
             held(v) == {f \in Native!ToSet(seen) : attr[f] = v}
  <1>1. /\ self = "live" /\ todo = <<>> /\ UNCHANGED <<self, kind, refcnt, referred>>
        /\ \/ /\ todo' = (drop \o back) \o todo
              /\ attr' = [f \in Native!AllFields |->
                            IF f \in Native!ToSet(seen) THEN Native!Null ELSE attr[f]]
           \/ UNCHANGED <<todo, attr>>
        /\ Native!TypeOK /\ todo \in Seq(Native!Ops)
        /\ Values \cap {Native!Empty, Native!Null, Native!Self} = {}
    BY ProgramsAssumption DEF Native!Collect, Native!Call, NativeShape, Native!TypeOK, Native!Parameters
  <1>2. \A v \in Values :
          /\ refcnt[v] = (IF v \in referred THEN 1 ELSE 0) + Cardinality(Native!Holding(v))
                           + Cardinality(Native!OwedIn(todo, v))
          /\ Cardinality(Native!Holding(v)) \in Nat
          /\ Cardinality(Native!OwedIn(todo, v)) \in Nat
    BY NativeCount
  <1>3. CASE UNCHANGED <<todo, attr>>
    <2>1. \A v \in Values : Native!Holding(v)' = Native!Holding(v)
      BY <1>1, <1>3 DEF Native!Holding, Native!At
    <2> QED
      BY <1>1, <1>2, <1>3, <2>1, NativeCounted
  <1>4. CASE /\ todo' = (drop \o back) \o todo
             /\ attr' = [f \in Native!AllFields |->
                           IF f \in Native!ToSet(seen) THEN Native!Null ELSE attr[f]]
    <2>1. /\ seen \in Seq(Native!AllFields) /\ Native!ToSet(seen) \subseteq Native!AllFields
          /\ \A m, n \in DOMAIN seen : seen[m] = seen[n] => m = n
      BY ProgramsAssumption, NativeOnce, NativeFields DEF Native!Visits, Native!Parameters
    <2>2. /\ drop \in Seq(Native!Ops) /\ \A n \in DOMAIN drop : drop[n][1] = "decref"
          /\ \A v \in Values : /\ IsFiniteSet(held(v))
                              /\ Cardinality(Native!OwedIn(drop, v)) = Cardinality(held(v))
      BY <1>1, <2>1, NativeDecrefs
    <2>3. back \in Seq(Native!Ops) /\ DOMAIN back = {1} /\ back[1] = <<"return">>
      <3>1. <<"return">> \in Native!Ops
        BY DEF Native!Ops
      <3> QED
        BY <3>1
    <2> HIDE DEF drop, back
    <2>4. /\ drop \o back \in Seq(Native!Ops)
          /\ \A n \in DOMAIN (drop \o back) :
               \/ n \in DOMAIN drop /\ (drop \o back)[n] = drop[n]
               \/ n - Len(drop) \in DOMAIN back /\ (drop \o back)[n] = back[n - Len(drop)]
      BY <2>2, <2>3, NativeConcat
    <2>5. ~Native!At("store") /\ ~Native!At("store")'
      <3>1. ~Native!At("store")
        BY <1>1 DEF Native!At
      <3>2. \A n \in DOMAIN (drop \o back) : (drop \o back)[n][1] # "store"
        BY <2>2, <2>3, <2>4
      <3> QED
        BY <1>1, <1>4, <2>4, <3>1, <3>2, NativeNoStore
    <2>6. \A v \in Values :
            Cardinality(Native!OwedIn(todo', v)) =
              Cardinality(held(v)) + Cardinality(Native!OwedIn(todo, v))
      <3> TAKE v \in Values
      <3>1. Cardinality(Native!OwedIn((drop \o back) \o todo, v)) =
              Cardinality(Native!OwedIn(drop \o back, v)) + Cardinality(Native!OwedIn(todo, v))
        BY ONLY <1>1, <2>4, NativeOwedConcat
      <3>2. Cardinality(Native!OwedIn(drop \o back, v)) =
              Cardinality(Native!OwedIn(drop, v)) + Cardinality(Native!OwedIn(back, v))
        BY ONLY <2>2, <2>3, NativeOwedConcat
      <3>3. Cardinality(Native!OwedIn(back, v)) = 0
        <4>1. \A n \in DOMAIN back : back[n][1] \notin {"decref", "store"}
          BY <2>3
        <4> QED
          BY <2>3, <4>1, NativeOwedNone
      <3>4. Cardinality(Native!OwedIn(drop, v)) = Cardinality(held(v))
            /\ Cardinality(Native!OwedIn(drop, v)) \in Nat
        BY <2>2, NativeOwedFinite
      <3> HIDE DEF held
      <3> QED
        BY ONLY <1>4, <3>1, <3>2, <3>3, <3>4
    <2>7. \A v \in Values :
            Cardinality(Native!Holding(v)) = Cardinality(Native!Holding(v)') + Cardinality(held(v))
            /\ Cardinality(Native!Holding(v)') \in Nat /\ Cardinality(held(v)) \in Nat
      <3> TAKE v \in Values
      <3>1. Native!Holding(v) = {f \in Native!AllFields : attr[f] = v}
        BY <1>1, <2>5 DEF Native!Holding
      <3>2. Native!Holding(v)' = {f \in Native!AllFields : attr'[f] = v}
        BY <1>1, <2>5 DEF Native!Holding
      <3>3. \A f \in Native!AllFields : attr'[f] = v <=> attr[f] = v /\ f \notin Native!ToSet(seen)
        BY <1>1, <1>4
      <3>4. Native!Holding(v) = Native!Holding(v)' \cup held(v) /\ Native!Holding(v)' \cap held(v) = {}
        BY <2>1, <3>1, <3>2, <3>3
      <3>5. Native!Holding(v)' \subseteq Native!AllFields /\ held(v) \subseteq Native!AllFields
        BY <2>1, <3>2
      <3> HIDE DEF held
      <3>6. IsFiniteSet(Native!Holding(v)') /\ Cardinality(Native!Holding(v)') \in Nat
            /\ IsFiniteSet(held(v)) /\ Cardinality(held(v)) \in Nat
        BY <3>5, NativeFinite
      <3>7. Cardinality(Native!Holding(v)' \cup held(v)) =
              Cardinality(Native!Holding(v)') + Cardinality(held(v))
                - Cardinality(Native!Holding(v)' \cap held(v))
        BY ONLY <3>6, FS_Union
      <3>8. Cardinality(Native!Holding(v)' \cap held(v)) = 0
        BY <3>4, FS_EmptySet
      <3> QED
        BY ONLY <3>4, <3>6, <3>7, <3>8
    <2>8. \A v \in Values :
            refcnt'[v] = (IF v \in referred' THEN 1 ELSE 0) + Cardinality(Native!Holding(v)')
                           + Cardinality(Native!OwedIn(todo', v))
      <3> TAKE v \in Values
      <3>1. refcnt' = refcnt /\ referred' = referred
        BY <1>1
      <3> HIDE DEF held
      <3> QED
        BY ONLY <1>2, <2>6, <2>7, <3>1
    <2> QED
      BY <2>8, NativeCounted
  <1> QED
    BY <1>1, <1>3, <1>4

LEMMA NativeHeldBy ==
  ASSUME NativeShape, Native!NothingElseHeld, Native!Next
  PROVE  Native!NothingElseHeld'
  <1>1. UNCHANGED <<self, kind, attr>> => Native!NothingElseHeld'
    BY DEF Native!NothingElseHeld
  <1>2. ASSUME NEW k \in {Native!Base, Native!Derived}, Native!New(k) PROVE Native!NothingElseHeld'
    <2>1. CASE self' = "live"
      BY <1>2, <2>1 DEF Native!NothingElseHeld, Native!New
    <2>2. CASE self' # "live"
      BY <1>2, <2>2 DEF Native!NothingElseHeld, Native!New
    <2> QED
      BY <2>1, <2>2
  <1>3. CASE Native!Program
    BY <1>1, <1>2, <1>3 DEF Native!Program, Native!Make, Native!Drop, Native!Attach,
           Native!Get, Native!Setter, Native!RunInit, Native!DropSelf
  <1>4. CASE Native!Store
    <2>1. /\ todo[1][2] \in Native!ToSet(Native!Fields(kind)) /\ todo # <<>> /\ 1 \in DOMAIN todo
          /\ todo[1][1] = "store"
      BY <1>4, NativeFirst, NativeOps DEF Native!Store
    <2>2. self = "live"
      BY <2>1 DEF NativeShape, Native!CallsReturn
    <2>3. /\ UNCHANGED <<self, kind>> /\ attr' = [attr EXCEPT ![todo[1][2]] = todo[1][3]]
          /\ attr \in [Native!AllFields -> Values \cup {Native!Empty, Native!Null}]
      BY <1>4 DEF Native!Store, NativeShape, Native!TypeOK
    <2> QED
      BY <2>1, <2>2, <2>3 DEF Native!NothingElseHeld
  <1>5. CASE Native!Assign \/ Native!Return \/ Native!Release \/ Native!Deleted
    BY <1>1, <1>5 DEF Native!Assign, Native!Return, Native!Release, Native!Deleted
  <1>6. CASE Native!Dealloc
    BY <1>6 DEF Native!Dealloc, Native!NothingElseHeld
  <1>7. CASE Native!Free
    BY <1>7 DEF Native!Free, Native!NothingElseHeld
  <1>8. CASE Native!Collect
    <2>1. /\ UNCHANGED <<self, kind>>
          /\ \A f \in Native!AllFields : attr'[f] \in {Native!Null, attr[f]}
      BY <1>8 DEF Native!Collect
    <2> QED
      BY <2>1 DEF Native!NothingElseHeld
  <1> QED
    BY <1>3, <1>4, <1>5, <1>6, <1>7, <1>8 DEF Native!Next

(* An owner that exists goes on existing, and one that is deleted is still *)
(* to be deleted, unless it is what the step releases or deletes.          *)
LEMMA NativeOwnersKept ==
  ASSUME NativeShape, Native!OwnersThere, NEW code \in Seq(Native!Ops), NEW rest,
         todo' = code \o rest, rest = todo \/ (todo # <<>> /\ rest = Tail(todo)),
         owners' \subseteq owners,
         \A v \in owners' : rest = todo \/ todo[1] # <<"del", v>>,
         \A v \in owners' : \/ refcnt'[v] = refcnt[v] \/ refcnt'[v] > 0
                            \/ \E n \in DOMAIN code : code[n] = <<"del", v>>
  PROVE  Native!OwnersThere'
  <1>1. todo \in Seq(Native!Ops) /\ rest \in Seq(Native!Ops)
    <2>1. todo \in Seq(Native!Ops)
      BY DEF NativeShape, Native!TypeOK
    <2>2. todo # <<>> => Tail(todo) \in Seq(Native!Ops)
      BY <2>1, HeadTailProperties
    <2> QED
      BY <2>1, <2>2
  <1>2. /\ \A n \in DOMAIN code : n \in DOMAIN todo' /\ todo'[n] = code[n]
        /\ \A n \in DOMAIN rest : n + Len(code) \in DOMAIN todo' /\ todo'[n + Len(code)] = rest[n]
    BY <1>1, NativeConcat
  <1>3. ASSUME NEW v \in owners', \E n \in DOMAIN todo : todo[n] = <<"del", v>>
        PROVE  \E n \in DOMAIN rest : rest[n] = <<"del", v>>
    <2>1. PICK n \in DOMAIN todo : todo[n] = <<"del", v>>
      BY <1>3
    <2>2. CASE rest = todo
      BY <2>1, <2>2
    <2>3. CASE todo # <<>> /\ rest = Tail(todo) /\ todo[1] # <<"del", v>>
      <3>1. n # 1
        BY <2>1, <2>3
      <3>2. n - 1 \in DOMAIN rest /\ rest[n - 1] = todo[n]
        BY <1>1, <2>1, <2>3, <3>1, NativeTail
      <3> QED
        BY <2>1, <3>2
    <2> QED
      BY <2>2, <2>3
  <1>4. ASSUME NEW v \in owners'
        PROVE  refcnt'[v] > 0 \/ <<"del", v>> \in Native!ToSet(todo')
    <2>1. CASE \E n \in DOMAIN code : code[n] = <<"del", v>>
      BY <1>2, <2>1 DEF Native!ToSet
    <2>2. CASE refcnt'[v] > 0
      BY <2>2
    <2>3. CASE refcnt'[v] = refcnt[v]
      <3>1. CASE refcnt[v] > 0
        BY <2>3, <3>1
      <3>2. CASE <<"del", v>> \in Native!ToSet(todo)
        <4>1. \E n \in DOMAIN todo : todo[n] = <<"del", v>>
          BY <3>2 DEF Native!ToSet
        <4>2. PICK n \in DOMAIN rest : rest[n] = <<"del", v>>
          BY <1>3, <4>1
        <4>3. n + Len(code) \in DOMAIN todo' /\ todo'[n + Len(code)] = <<"del", v>>
          BY <1>2, <4>2
        <4>4. \E m \in DOMAIN todo' : todo'[m] = <<"del", v>>
          BY ONLY <4>3
        <4> QED
          BY ONLY <4>4 DEF Native!ToSet
      <3> QED
        BY <3>1, <3>2 DEF Native!OwnersThere
    <2>4. \/ refcnt'[v] = refcnt[v] \/ refcnt'[v] > 0
          \/ \E n \in DOMAIN code : code[n] = <<"del", v>>
      BY ONLY <1>4, \A x \in owners' :
                      \/ refcnt'[x] = refcnt[x] \/ refcnt'[x] > 0
                      \/ \E n \in DOMAIN code : code[n] = <<"del", x>>
    <2> QED
      BY <2>1, <2>2, <2>3, <2>4
  <1> QED
    BY <1>4 DEF Native!OwnersThere

(* The same where a step only pushes, or only pops.                        *)
LEMMA NativeOwnersPush ==
  ASSUME NativeShape, Native!OwnersThere, NEW code \in Seq(Native!Ops), todo' = code \o todo,
         UNCHANGED <<refcnt, owners>>
  PROVE  Native!OwnersThere'
  BY NativeOwnersKept

LEMMA NativeOwnersPop ==
  ASSUME NativeShape, Native!OwnersThere, todo # <<>>, todo' = Tail(todo),
         UNCHANGED refcnt, owners' \subseteq owners,
         \A v \in owners' : todo[1] # <<"del", v>>
  PROVE  Native!OwnersThere'
  <1> DEFINE code == <<>>
  <1>1. Tail(todo) \in Seq(Native!Ops)
    BY HeadTailProperties DEF NativeShape, Native!TypeOK
  <1>2. code \in Seq(Native!Ops)
    OBVIOUS
  <1>3. todo' = code \o Tail(todo)
    BY <1>1, ConcatEmptySeq
  <1> HIDE DEF code
  <1> QED
    BY <1>2, <1>3, NativeOwnersKept

(* What a call pushes.                                                     *)
LEMMA NativeCallPushes ==
  ASSUME NEW code \in Seq(Native!Ops), Native!Call(code)
  PROVE  /\ code \o << <<"return">> >> \in Seq(Native!Ops)
         /\ todo' = (code \o << <<"return">> >>) \o todo
  <1>1. <<"return">> \in Native!Ops
    BY DEF Native!Ops
  <1>2. << <<"return">> >> \in Seq(Native!Ops)
    BY <1>1
  <1>3. code \o << <<"return">> >> \in Seq(Native!Ops)
    BY <1>2, NativeConcat
  <1> QED
    BY <1>3 DEF Native!Call

LEMMA NativeOwners ==
  ASSUME NativeShape, Native!Counted, Native!OwnersThere, Native!Next
  PROVE  Native!OwnersThere'
  <1>1. /\ Native!TypeOK /\ todo \in Seq(Native!Ops) /\ refcnt \in [Values -> Nat]
        /\ owners \subseteq Values
    BY DEF NativeShape, Native!TypeOK
  <1>2. UNCHANGED <<owners, todo>> /\ (\A v \in owners : refcnt'[v] = refcnt[v] \/ refcnt'[v] > 0)
          => Native!OwnersThere'
    BY DEF Native!OwnersThere
  <1>3. ASSUME NEW v \in Values, Native!Make(v) PROVE Native!OwnersThere'
    BY <1>1, <1>2, <1>3 DEF Native!Make
  <1>4. ASSUME NEW v \in Values, Native!Drop(v) PROVE Native!OwnersThere'
    <2>1. <<"decref", v>> \in Native!Ops
      BY DEF Native!Ops
    <2>2. Native!Decref(v) \in Seq(Native!Ops)
      BY <2>1 DEF Native!Decref
    <2> QED
      BY <1>4, <2>2, NativeOwnersPush DEF Native!Drop
  <1>5. ASSUME NEW v \in Values, Native!Attach(v) PROVE Native!OwnersThere'
    <2>1. v \in referred /\ owners' = owners \cup {v} /\ UNCHANGED <<refcnt, todo>>
      BY <1>5 DEF Native!Attach
    <2>2. /\ refcnt[v] = 1 + Cardinality(Native!Holding(v)) + Cardinality(Native!OwedIn(todo, v))
          /\ Cardinality(Native!Holding(v)) \in Nat
          /\ Cardinality(Native!OwedIn(todo, v)) \in Nat
      BY <2>1, NativeCount
    <2>3. refcnt[v] > 0
      BY ONLY <2>2
    <2> QED
      BY <2>1, <2>3 DEF Native!OwnersThere
  <1>6. ASSUME NEW k, Native!New(k) PROVE Native!OwnersThere'
    BY <1>2, <1>6 DEF Native!New
  <1>7. ASSUME NEW f, Native!Get(f) PROVE Native!OwnersThere'
    <2>1. /\ UNCHANGED <<owners, todo>> /\ attr[f] \in Values
          /\ refcnt' = [refcnt EXCEPT ![attr[f]] = @ + 1]
      BY <1>7 DEF Native!Get
    <2>2. \A v \in owners : refcnt'[v] = refcnt[v] \/ refcnt'[v] > 0
      BY <1>1, <2>1
    <2> QED
      BY <1>2, <2>1, <2>2
  <1>8. ASSUME NEW f, NEW v \in Values, Native!Setter(f, v) PROVE Native!OwnersThere'
    <2> DEFINE code == << <<"assign", f, v>> >>
    <2>1. f \in Native!ToSet(Native!Fields(kind)) /\ Native!Call(code) /\ UNCHANGED <<refcnt, owners>>
      BY <1>8 DEF Native!Setter
    <2>2. code \in Seq(Native!Ops)
      <3>1. <<"assign", f, v>> \in Native!Ops
        BY <2>1 DEF Native!Ops
      <3> QED
        BY <3>1
    <2> HIDE DEF code
    <2> QED
      BY <2>1, <2>2, NativeCallPushes, NativeOwnersPush
  <1>9. ASSUME NEW args \in [Native!AllFields -> (Values \cap referred) \cup {Native!Null}],
               NEW kw, Native!RunInit(args, kw)
        PROVE  Native!OwnersThere'
    <2> DEFINE fs == Native!Fields(kind)
               code == [n \in DOMAIN fs |-> <<"assign", fs[n], args[fs[n]]>>]
    <2>1. UNCHANGED <<refcnt, owners>> /\ (Native!Call(code) \/ UNCHANGED todo)
      BY <1>9 DEF Native!RunInit
    <2>2. code \in Seq(Native!Ops)
      BY NativeArguments
    <2> HIDE DEF code
    <2>3. CASE Native!Call(code)
      BY <2>1, <2>2, <2>3, NativeCallPushes, NativeOwnersPush
    <2>4. CASE UNCHANGED todo
      BY <1>2, <2>1, <2>4
    <2> QED
      BY <2>1, <2>3, <2>4
  <1>10. CASE Native!DropSelf
    BY <1>2, <1>10 DEF Native!DropSelf
  <1>11. CASE Native!Program
    BY <1>3, <1>4, <1>5, <1>6, <1>7, <1>8, <1>9, <1>10, <1>11 DEF Native!Program
  <1>12. CASE Native!Assign
    <2>1. Native!At("assign") /\ UNCHANGED owners
      BY <1>12 DEF Native!Assign
    <2>2. /\ todo # <<>> /\ todo[1] \in Native!Ops /\ todo[1][1] = "assign"
          /\ Tail(todo) \in Seq(Native!Ops)
      BY <2>1, NativeFirst
    <2>3. \A v : todo[1] # <<"del", v>>
      BY <2>2
    <2>4. CASE todo[1][3] = Native!Null
      BY <1>12, <2>1, <2>2, <2>3, <2>4, NativeOwnersPop DEF Native!Assign
    <2>5. CASE todo[1][3] # Native!Null
      <3> DEFINE code == Native!StoreFirst(todo[1][2], todo[1][3])
      <3>1. todo' = code \o Tail(todo) /\ refcnt' = [refcnt EXCEPT ![todo[1][3]] = @ + 1]
        BY <1>12, <2>5 DEF Native!Assign, Native!Increased
      <3>2. todo[1][2] \in Native!ToSet(Native!Fields(kind)) /\ todo[1][3] \in Values
        BY <2>2, <2>5, NativeOps
      <3>3. code \in Seq(Native!Ops)
        <4>1. todo[1][2] \in Native!AllFields
          BY <3>2, NativeFields
        <4>2. attr[todo[1][2]] \in Values \cup {Native!Empty, Native!Null}
          BY <1>1, <4>1 DEF Native!TypeOK
        <4>3. /\ <<"store", todo[1][2], todo[1][3]>> \in Native!Ops
              /\ <<"decref", attr[todo[1][2]]>> \in Native!Ops
          BY <3>2, <4>2 DEF Native!Ops
        <4>4. /\ << <<"store", todo[1][2], todo[1][3]>> >> \in Seq(Native!Ops)
              /\ Native!Decref(attr[todo[1][2]]) \in Seq(Native!Ops)
          BY <4>3 DEF Native!Decref
        <4> QED
          BY <4>4, NativeConcat DEF Native!StoreFirst
      <3> HIDE DEF code
      <3>4. \A v \in owners' : refcnt'[v] = refcnt[v] \/ refcnt'[v] > 0
        BY <1>1, <2>1, <3>1, <3>2
      <3> QED
        BY <2>1, <2>2, <2>3, <3>1, <3>3, <3>4, NativeOwnersKept
    <2> QED
      BY <2>4, <2>5
  <1>13. CASE Native!Store \/ Native!Return \/ Native!Free
    <2>1. /\ todo # <<>> /\ todo[1][1] \in {"store", "return", "free"} /\ todo' = Tail(todo)
          /\ UNCHANGED <<refcnt, owners>>
      BY <1>13 DEF Native!Store, Native!Return, Native!Free, Native!At
    <2>2. \A v : todo[1] # <<"del", v>>
      BY <2>1
    <2> QED
      BY <2>1, <2>2, NativeOwnersPop
  <1>14. CASE Native!Release
    <2> DEFINE w == todo[1][2]
    <2>1. todo # <<>> /\ todo[1][1] = "decref" /\ UNCHANGED owners /\ Native!At("decref")
      BY <1>14 DEF Native!Release, Native!At
    <2>2. \A v : todo[1] # <<"del", v>>
      BY <2>1
    <2>3. CASE w \notin Values
      BY <1>14, <2>1, <2>2, <2>3, NativeOwnersPop DEF Native!Release
    <2>4. CASE w \in Values
      <3> DEFINE code == IF refcnt[w] = 1 THEN << <<"del", w>> >> ELSE <<>>
      <3>1. todo' = code \o Tail(todo) /\ refcnt' = [refcnt EXCEPT ![w] = @ - 1]
        BY <1>14, <2>4 DEF Native!Release
      <3>2. code \in Seq(Native!Ops) /\ (refcnt[w] = 1 => \E n \in DOMAIN code : code[n] = <<"del", w>>)
        <4>1. <<"del", w>> \in Native!Ops
          BY <2>4 DEF Native!Ops
        <4>2. CASE refcnt[w] = 1
          <5>1. code = << <<"del", w>> >>
            BY <4>2
          <5>2. DOMAIN code = {1} /\ code[1] = <<"del", w>> /\ code \in Seq(Native!Ops)
            BY <4>1, <5>1
          <5> QED
            BY <5>2
        <4>3. CASE refcnt[w] # 1
          BY <4>3
        <4> QED
          BY <4>2, <4>3
      <3> HIDE DEF code
      <3>3. refcnt[w] - 1 \in Nat
        BY <2>1, <2>4, NativeReleasable
      <3>4. refcnt[w] = 1 \/ refcnt[w] - 1 > 0
        BY ONLY <3>3, <1>1, <2>4
      <3>5. \A v \in owners' : \/ refcnt'[v] = refcnt[v] \/ refcnt'[v] > 0
                               \/ \E n \in DOMAIN code : code[n] = <<"del", v>>
        BY <1>1, <2>1, <2>4, <3>1, <3>2, <3>4
      <3> QED
        BY <2>1, <2>2, <3>1, <3>2, <3>5, NativeOwnersKept
    <2> QED
      BY <2>3, <2>4
  <1>15. CASE Native!Deleted
    <2>1. /\ todo # <<>> /\ todo' = Tail(todo) /\ owners' = owners \ {todo[1][2]} /\ UNCHANGED refcnt
      BY <1>15 DEF Native!Deleted, Native!At
    <2>2. \A v \in owners' : todo[1] # <<"del", v>>
      BY <2>1
    <2> QED
      BY <2>1, <2>2, NativeOwnersPop
  <1>16. CASE Native!Dealloc
    <2> DEFINE drop == Native!Decrefs(Native!OwnThenBase(kind))
               code == drop \o << <<"free">> >>
    <2>1. todo' = code \o todo /\ UNCHANGED <<refcnt, owners>>
      BY <1>16 DEF Native!Dealloc
    <2>2. code \in Seq(Native!Ops)
      <3>1. kind \in {Native!Base, Native!Derived}
        BY <1>1 DEF Native!TypeOK
      <3>2. drop \in Seq(Native!Ops)
        BY <1>1, <3>1, NativeReleased, NativeDecrefs
      <3>3. <<"free">> \in Native!Ops
        BY DEF Native!Ops
      <3>4. << <<"free">> >> \in Seq(Native!Ops)
        BY <3>3
      <3> HIDE DEF drop
      <3> QED
        BY <3>2, <3>4, NativeConcat
    <2> HIDE DEF code
    <2> QED
      BY <2>1, <2>2, NativeOwnersPush
  <1>17. CASE Native!Collect
    <2> DEFINE code == Native!Decrefs(Native!Visits(kind))
    <2>1. UNCHANGED <<refcnt, owners>> /\ (Native!Call(code) \/ UNCHANGED todo)
      BY <1>17 DEF Native!Collect
    <2>2. code \in Seq(Native!Ops)
      <3>1. Native!Visits(kind) \in Seq(Native!AllFields)
        BY ProgramsAssumption DEF Native!Parameters, Native!Visits
      <3> QED
        BY <1>1, <3>1, NativeDecrefs
    <2> HIDE DEF code
    <2>3. CASE Native!Call(code)
      BY <2>1, <2>2, <2>3, NativeCallPushes, NativeOwnersPush
    <2>4. CASE UNCHANGED todo
      BY <1>2, <2>1, <2>4
    <2> QED
      BY <2>1, <2>3, <2>4
  <1> QED
    BY <1>11, <1>12, <1>13, <1>14, <1>15, <1>16, <1>17 DEF Native!Next

(* Where nothing is under way, the count of a value is that of the         *)
(* attributes and of the program.                                          *)
LEMMA NativeQuiet ==
  ASSUME NativeShape, Native!Counted, todo = <<>>, NEW v \in Values
  PROVE  /\ refcnt[v] = (IF v \in referred THEN 1 ELSE 0)
                          + Cardinality({f \in Native!AllFields : attr[f] = v})
         /\ Cardinality({f \in Native!AllFields : attr[f] = v}) \in Nat
  <1>1. Cardinality(Native!OwedIn(todo, v)) = 0
    BY NativeOwedOne
  <1>2. self # "dying" /\ ~Native!At("store")
    <2>1. DOMAIN <<>> = {}
      OBVIOUS
    <2>2. self # "dying"
      BY <2>1 DEF NativeShape, Native!FreedOnce
    <2> QED
      BY <2>2 DEF Native!At
  <1>3. Native!Holding(v) = {f \in Native!AllFields : attr[f] = v}
    BY <1>2 DEF Native!Holding
  <1>4. /\ refcnt[v] = (IF v \in referred THEN 1 ELSE 0) + Cardinality(Native!Holding(v))
                          + Cardinality(Native!OwedIn(todo, v))
        /\ Cardinality(Native!Holding(v)) \in Nat
    BY NativeCount
  <1> QED
    BY ONLY <1>1, <1>3, <1>4

LEMMA NativeSweeps ==
  ASSUME NativeShape, Native!Counted, Native!NothingElseHeld, Native!Sweeping, Native!Next
  PROVE  Native!Sweeping'
  <1>1. /\ Native!TypeOK /\ todo \in Seq(Native!Ops) /\ kind \in {Native!Base, Native!Derived}
        /\ Values \cap {Native!Empty, Native!Null, Native!Self} = {}
    BY ProgramsAssumption DEF NativeShape, Native!TypeOK, Native!Parameters
  <1>2. CASE Native!Program /\ swept' = FALSE
    BY <1>2 DEF Native!Sweeping
  <1>3. CASE Native!Assign \/ Native!Store
    <2>1. (Native!At("assign") \/ Native!At("store")) /\ UNCHANGED <<self, swept>>
      BY <1>3 DEF Native!Assign, Native!Store
    <2>2. 1 \in DOMAIN todo /\ todo[1][1] \in {"assign", "store"}
      BY <2>1, NativeFirst
    <2>3. ~(swept /\ self = "live")
      BY <2>2 DEF Native!Sweeping
    <2> QED
      BY <2>1, <2>3 DEF Native!Sweeping
  (* What only finishes what is under way.                                 *)
  <1>4. ASSUME NEW code \in Seq(Native!Ops), \A n \in DOMAIN code : code[n][1] = "del",
               todo # <<>>, todo' = code \o Tail(todo), UNCHANGED <<self, kind, attr, swept>>
        PROVE  Native!Sweeping'
    <2> SUFFICES ASSUME swept, self = "live"
                 PROVE  /\ \A n \in DOMAIN todo' : todo'[n][1] \notin {"assign", "store"}
                        /\ \A f \in Native!ToSet(Native!Visits(kind)) : attr[f] \notin Values
      BY <1>4 DEF Native!Sweeping
    <2>1. /\ \A n \in DOMAIN todo : todo[n][1] \notin {"assign", "store"}
          /\ \A f \in Native!ToSet(Native!Visits(kind)) : attr[f] \notin Values
      BY <1>4 DEF Native!Sweeping
    <2>2. /\ Tail(todo) \in Seq(Native!Ops)
          /\ \A n \in DOMAIN Tail(todo) : n + 1 \in DOMAIN todo /\ Tail(todo)[n] = todo[n + 1]
      BY <1>1, <1>4, NativeTail
    <2>3. \A n \in DOMAIN todo' :
            \/ n \in DOMAIN code /\ todo'[n] = code[n]
            \/ n - Len(code) \in DOMAIN Tail(todo) /\ todo'[n] = Tail(todo)[n - Len(code)]
      BY <1>4, <2>2, NativeConcat
    <2>4. \A n \in DOMAIN Tail(todo) : Tail(todo)[n][1] \notin {"assign", "store"}
      BY <2>1, <2>2
    <2>5. \A n \in DOMAIN todo' : todo'[n][1] \notin {"assign", "store"}
      BY <1>4, <2>3, <2>4
    <2> QED
      BY <2>1, <2>5
  <1>5. ASSUME todo # <<>>, todo' = Tail(todo), UNCHANGED <<self, kind, attr, swept>>
        PROVE  Native!Sweeping'
    <2> DEFINE code == <<>>
    <2>1. Tail(todo) \in Seq(Native!Ops)
      BY <1>1, <1>5, HeadTailProperties
    <2>2. code \in Seq(Native!Ops) /\ \A n \in DOMAIN code : code[n][1] = "del"
      OBVIOUS
    <2>3. todo' = code \o Tail(todo)
      BY <1>5, <2>1, ConcatEmptySeq
    <2> HIDE DEF code
    <2> QED
      BY <1>4, <1>5, <2>2, <2>3
  <1>6. CASE Native!Return \/ Native!Deleted
    BY <1>5, <1>6 DEF Native!Return, Native!Deleted, Native!At
  <1>7. CASE Native!Release
    <2> DEFINE w == todo[1][2]
               code == IF refcnt[w] = 1 THEN << <<"del", w>> >> ELSE <<>>
    <2>1. todo # <<>> /\ UNCHANGED <<self, kind, attr, swept>>
      BY <1>7 DEF Native!Release, Native!At
    <2>2. CASE w \notin Values
      BY <1>5, <1>7, <2>1, <2>2 DEF Native!Release
    <2>3. CASE w \in Values
      <3>1. todo' = code \o Tail(todo)
        BY <1>7, <2>3 DEF Native!Release
      <3>2. code \in Seq(Native!Ops) /\ \A n \in DOMAIN code : code[n][1] = "del"
        <4>1. <<"del", w>> \in Native!Ops
          BY <2>3 DEF Native!Ops
        <4> QED
          BY <4>1
      <3> HIDE DEF code
      <3> QED
        BY <1>4, <2>1, <3>1, <3>2
    <2> QED
      BY <2>2, <2>3
  <1>8. CASE Native!Dealloc \/ Native!Free
    <2>1. self' # "live"
      BY <1>8 DEF Native!Dealloc, Native!Free
    <2> QED
      BY <2>1 DEF Native!Sweeping
  <1>9. CASE Native!Collect
    <2> DEFINE seen == Native!Visits(kind)
               drop == Native!Decrefs(seen)
    <2>1. self = "live" /\ todo = <<>> /\ UNCHANGED <<self, kind, referred, owners>>
      BY <1>9 DEF Native!Collect
    <2>2. CASE \A v \in owners : Native!FromSelf(v) = refcnt[v]
      <3>1. /\ Native!Call(drop)
            /\ attr' = [f \in Native!AllFields |->
                          IF f \in Native!ToSet(seen) THEN Native!Null ELSE attr[f]]
        BY <1>9, <2>2 DEF Native!Collect
      <3>2. seen \in Seq(Native!AllFields)
        BY ProgramsAssumption DEF Native!Parameters, Native!Visits
      <3>3. drop \in Seq(Native!Ops) /\ \A n \in DOMAIN drop : drop[n][1] = "decref"
        BY <1>1, <3>2, NativeDecrefs
      <3>4. /\ todo' = (drop \o << <<"return">> >>) \o todo
            /\ drop \o << <<"return">> >> \in Seq(Native!Ops)
        BY <3>1, <3>3, NativeCallPushes
      <3>5. todo' = drop \o << <<"return">> >>
        BY <2>1, <3>4, ConcatEmptySeq
      <3>6. << <<"return">> >> \in Seq(Native!Ops)
        <4>1. <<"return">> \in Native!Ops
          BY DEF Native!Ops
        <4> QED
          BY <4>1
      <3>7. \A n \in DOMAIN << <<"return">> >> : << <<"return">> >>[n] = <<"return">>
        OBVIOUS
      <3> DEFINE back == << <<"return">> >>
      <3>8. back \in Seq(Native!Ops) /\ (\A n \in DOMAIN back : back[n] = <<"return">>)
            /\ todo' = drop \o back
        BY <3>5, <3>6, <3>7
      <3> HIDE DEF back, drop
      <3>9. \A n \in DOMAIN todo' :
              \/ n \in DOMAIN drop /\ todo'[n] = drop[n]
              \/ n - Len(drop) \in DOMAIN back /\ todo'[n] = back[n - Len(drop)]
        BY <3>3, <3>8, NativeConcat
      <3>10. \A n \in DOMAIN todo' : todo'[n][1] \notin {"assign", "store"}
        BY <3>3, <3>8, <3>9
      <3>11. \A f \in Native!ToSet(seen) : attr'[f] = Native!Null
        <4>1. Native!ToSet(seen) \subseteq Native!AllFields
          BY NativeFields DEF Native!Visits
        <4> QED
          BY <3>1, <4>1
      <3> QED
        BY <1>1, <2>1, <3>10, <3>11 DEF Native!Sweeping
    <2>3. CASE \E v \in owners : Native!FromSelf(v) # refcnt[v]
      <3>1. PICK v \in owners : Native!FromSelf(v) # refcnt[v]
        BY <2>3
      <3>2. UNCHANGED <<todo, attr>>
        BY <1>9, <2>3 DEF Native!Collect
      <3>3. v \in Values
        BY <1>1 DEF Native!TypeOK
      <3>4. Native!FromSelf(v) = Cardinality({f \in Native!ToSet(seen) : attr[f] = v})
        BY NativeCardinality, Zenon DEF Native!FromSelf, Native!Quantify
      <3>5. referred = {} => refcnt[v] = Cardinality({f \in Native!AllFields : attr[f] = v})
        BY <2>1, <3>3, NativeQuiet
      <3>6. referred = {} =>
              {f \in Native!AllFields : attr[f] = v} # {f \in Native!ToSet(seen) : attr[f] = v}
        BY <3>1, <3>4, <3>5
      <3>7. Native!ToSet(seen) \subseteq Native!AllFields
        BY NativeFields DEF Native!Visits
      <3>8. referred = {} => \E f \in Native!AllFields \ Native!ToSet(seen) : attr[f] = v
        BY <3>6, <3>7
      <3>9. ASSUME NEW f \in Native!AllFields \ Native!ToSet(seen), attr[f] = v
            PROVE  kind = Native!Derived /\ f \in Native!ToSet(BaseFields)
        <4>1. f \in Native!ToSet(Native!Fields(kind))
          BY <1>1, <3>3, <3>9 DEF Native!NothingElseHeld
        <4>2. CASE kind = Native!Base
          BY <3>9, <4>1, <4>2, NativeFields DEF Native!Visits
        <4>3. CASE kind = Native!Derived
          <5>1. seen = OwnFields
            BY <4>3 DEF Native!Visits, Native!Base, Native!Derived
          <5> QED
            BY <3>9, <4>3, <5>1, NativeFields
        <4> QED
          BY <1>1, <4>2, <4>3
      <3>10. referred = {} =>
               kind = Native!Derived /\ \E f \in Native!ToSet(BaseFields) : attr[f] \in owners
        BY <3>8, <3>9
      <3>11. DOMAIN <<>> = {}
        OBVIOUS
      <3> HIDE DEF seen, drop
      <3> QED
        BY <2>1, <3>2, <3>10, <3>11 DEF Native!Sweeping
    <2> QED
      BY <2>2, <2>3
  <1> QED
    BY <1>2, <1>3, <1>6, <1>7, <1>8, <1>9 DEF Native!Next

LEMMA NativeInit == Native!Init => Native!IInv
  <1> SUFFICES ASSUME Native!Init
               PROVE  Native!IInv
    OBVIOUS
  <1>1. /\ self = "none" /\ kind = Native!Base /\ attr = [f \in Native!AllFields |-> Native!Null]
        /\ refcnt = [v \in Values |-> 0] /\ referred = {} /\ owners = {}
        /\ todo = <<>> /\ swept = FALSE
        /\ Values \cap {Native!Empty, Native!Null, Native!Self} = {}
    BY ProgramsAssumption DEF Native!Init, Native!Parameters
  <1>2. DOMAIN <<>> = {}
    OBVIOUS
  <1>3. Native!TypeOK
    <2>1. Native!IsFiniteSet({})
      BY FS_EmptySet, NativeCardinality
    <2>2. attr \in [Native!AllFields -> Values \cup {Native!Empty, Native!Null}]
      BY <1>1
    <2>3. refcnt \in [Values -> Nat]
      BY <1>1
    <2>4. todo \in Seq(Native!Ops)
      BY <1>1
    <2> QED
      BY <1>1, <2>1, <2>2, <2>3, <2>4 DEF Native!TypeOK
  <1>4. Native!CallsReturn /\ Native!FreedOnce
    BY <1>1, <1>2 DEF Native!CallsReturn, Native!FreedOnce
  <1>5. Native!NothingElseHeld /\ Native!OwnersThere /\ Native!Sweeping
    BY <1>1 DEF Native!NothingElseHeld, Native!OwnersThere, Native!Sweeping
  <1>6. Native!Counted
    <2>1. ASSUME NEW v \in Values
          PROVE  refcnt[v] = Cardinality({v} \cap referred) + Cardinality(Native!Holding(v))
                               + Cardinality(Native!OwedIn(todo, v))
      <3>1. Native!Holding(v) = {} /\ {v} \cap referred = {}
        BY <1>1 DEF Native!Holding
      <3>2. /\ Cardinality(Native!Holding(v)) = 0 /\ Cardinality({v} \cap referred) = 0
            /\ Cardinality(Native!OwedIn(todo, v)) = 0
        BY <1>1, <3>1, FS_EmptySet, NativeOwedOne
      <3> QED
        BY <1>1, <3>2
    <2> QED
      BY <2>1, NativeCardinality, Zenon DEF Native!Counted
  <1> QED
    BY <1>3, <1>4, <1>5, <1>6 DEF Native!IInv

LEMMA NativeStep == Native!IInv /\ [Native!Next]_Native!vars => Native!IInv'
  <1> SUFFICES ASSUME Native!IInv, [Native!Next]_Native!vars
               PROVE  Native!IInv'
    OBVIOUS
  <1>1. /\ NativeShape /\ Native!Counted /\ Native!NothingElseHeld /\ Native!OwnersThere
        /\ Native!Sweeping
    BY DEF Native!IInv, NativeShape
  <1>2. CASE Native!Next
    <2>1. NativeShape'
      BY <1>1, <1>2, NativeStructure
    <2>2. Native!Counted'
      <3>1. CASE Native!Program
        BY <1>1, <3>1, NativeCountedProgram
      <3>2. CASE Native!Assign \/ Native!Store \/ Native!Return \/ Native!Release \/ Native!Deleted
                 \/ Native!Free
        BY <1>1, <3>2, NativeCountedC
      <3>3. CASE Native!Dealloc
        BY <1>1, <2>1, <3>3, NativeCountedDealloc
      <3>4. CASE Native!Collect
        BY <1>1, <3>4, NativeCountedCollect
      <3> QED
        BY <1>2, <3>1, <3>2, <3>3, <3>4 DEF Native!Next
    <2>3. Native!NothingElseHeld'
      BY <1>1, <1>2, NativeHeldBy
    <2>4. Native!OwnersThere'
      BY <1>1, <1>2, NativeOwners
    <2>5. Native!Sweeping'
      BY <1>1, <1>2, NativeSweeps
    <2> QED
      BY <2>1, <2>2, <2>3, <2>4, <2>5 DEF Native!IInv, NativeShape
  <1>3. CASE UNCHANGED Native!vars
    <2>1. UNCHANGED <<self, kind, attr, refcnt, referred, owners, todo, swept>>
      BY <1>3 DEF Native!vars
    <2>2. Native!TypeOK'
      <3>1. Native!Ops' = Native!Ops
        BY <2>1 DEF Native!Ops
      <3> QED
        BY <1>1, <2>1, <3>1 DEF NativeShape, Native!TypeOK
    <2>3. Native!CallsReturn'
      BY <1>1, <2>1 DEF NativeShape, Native!CallsReturn
    <2>4. Native!FreedOnce'
      BY <1>1, <2>1 DEF NativeShape, Native!FreedOnce
    <2>5. Native!NothingElseHeld'
      BY <1>1, <2>1 DEF Native!NothingElseHeld
    <2>6. Native!Counted'
      <3>1. \A v \in Values : Native!Holding(v)' = Native!Holding(v)
        BY <2>1 DEF Native!Holding, Native!At
      <3> QED
        BY <1>1, <2>1, <3>1 DEF Native!Counted
    <2>7. Native!OwnersThere'
      BY <1>1, <2>1 DEF Native!OwnersThere
    <2>8. Native!Sweeping'
      BY <1>1, <2>1 DEF Native!Sweeping
    <2> QED
      BY <2>2, <2>3, <2>4, <2>5, <2>6, <2>7, <2>8 DEF Native!IInv
  <1> QED
    BY <1>2, <1>3

LEMMA NativeSafe == Native!IInv => ReferencesBalance
  <1> SUFFICES ASSUME Native!IInv
               PROVE  ReferencesBalance
    OBVIOUS
  <1>1. /\ NativeShape /\ Native!Counted /\ Native!NothingElseHeld /\ Native!OwnersThere
        /\ Native!Sweeping /\ Native!TypeOK
    BY DEF Native!IInv, NativeShape
  <1>2. Native!NoDangling
    <2> SUFFICES ASSUME self = "live", Native!At("del"), NEW f \in Native!AllFields,
                        attr[f] \in Values
                 PROVE  refcnt[attr[f]] > 0
      BY DEF Native!NoDangling
    <2> DEFINE v == attr[f]
    <2>1. f \in Native!Holding(v)
      BY DEF Native!Holding, Native!At
    <2> HIDE DEF v
    <2>2. v \in Values
      BY DEF v
    <2>3. /\ refcnt[v] = (IF v \in referred THEN 1 ELSE 0) + Cardinality(Native!Holding(v))
                            + Cardinality(Native!OwedIn(todo, v))
          /\ Cardinality(Native!Holding(v)) \in Nat
          /\ Cardinality(Native!OwedIn(todo, v)) \in Nat
          /\ IsFiniteSet(Native!Holding(v))
      BY <1>1, <2>2, NativeCount, NativeFinite
    <2>4. Cardinality(Native!Holding(v)) # 0
      BY <2>1, <2>3, FS_EmptySet
    <2>5. refcnt[v] > 0
      BY ONLY <2>3, <2>4
    <2> QED
      BY <2>5 DEF v
  <1>3. Native!CountsExact
    <2> SUFFICES ASSUME todo = <<>>, NEW v \in Values
                 PROVE  refcnt[v] = Native!Cardinality({v} \cap referred)
                                      + Native!Quantify(Native!AllFields, LAMBDA f : attr[f] = v)
      BY DEF Native!CountsExact
    <2>1. Native!Quantify(Native!AllFields, LAMBDA f : attr[f] = v)
            = Cardinality({f \in Native!AllFields : attr[f] = v})
      BY NativeCardinality, Zenon DEF Native!Quantify
    <2>2. Native!Cardinality({v} \cap referred) = IF v \in referred THEN 1 ELSE 0
      BY NativeFinite, NativeCardinality, Zenon
    <2> QED
      BY <1>1, <2>1, <2>2, NativeQuiet
  <1>4. Native!CyclesCollected
    <2> SUFFICES ASSUME swept, todo = <<>>, referred = {}, self = "live", Native!SelfCount > 0
                 PROVE  kind = Native!Derived
                        /\ \E f \in Native!ToSet(BaseFields) : attr[f] \in owners
      BY DEF Native!CyclesCollected
    <2>1. owners # {}
      <3> SUFFICES ASSUME owners = {}
                   PROVE  Native!SelfCount = 0
        OBVIOUS
      <3>1. /\ Native!Cardinality(owners) = 0 /\ Native!Cardinality({Native!Self} \cap referred) = 0
            /\ Native!Cardinality({n \in DOMAIN todo : todo[n][1] = "return"}) = 0
        <4>1. /\ owners = {} /\ {Native!Self} \cap referred = {}
              /\ {n \in DOMAIN todo : todo[n][1] = "return"} = {}
          OBVIOUS
        <4> QED
          BY <4>1, FS_EmptySet, NativeCardinality
      <3> QED
        BY <3>1 DEF Native!SelfCount, Native!Quantify
    <2>2. PICK v : v \in owners
      BY <2>1
    <2>3. v \in Values /\ refcnt[v] > 0
      <3>1. <<"del", v>> \notin Native!ToSet(todo)
        BY DEF Native!ToSet
      <3> QED
        BY <1>1, <2>2, <3>1 DEF Native!OwnersThere, Native!TypeOK
    <2>4. PICK f \in Native!AllFields : attr[f] = v
      <3> DEFINE held == {f \in Native!AllFields : attr[f] = v}
      <3>1. refcnt[v] = Cardinality(held)
        BY <1>1, <2>3, NativeQuiet
      <3>2. held # {}
        <4>1. Cardinality(held) # 0
          BY <2>3, <3>1
        <4> QED
          BY <4>1, FS_EmptySet
      <3> QED
        BY <3>2
    <2>5. CASE \A g \in Native!ToSet(Native!Visits(kind)) : attr[g] \notin Values
      <3>1. f \notin Native!ToSet(Native!Visits(kind))
        BY <2>3, <2>4, <2>5
      <3>2. f \in Native!ToSet(Native!Fields(kind)) /\ kind \in {Native!Base, Native!Derived}
        <4>1. attr[f] # Native!Null
          BY <2>3, <2>4, ProgramsAssumption DEF Native!Parameters
        <4> QED
          BY <1>1, <4>1 DEF Native!NothingElseHeld, Native!TypeOK
      <3>3. kind # Native!Base
        BY <3>1, <3>2, NativeFields DEF Native!Visits
      <3>4. f \in Native!ToSet(BaseFields)
        <4>1. kind = Native!Derived
          BY <3>2, <3>3
        <4>2. Native!Visits(kind) = OwnFields
          BY <3>3 DEF Native!Visits
        <4> QED
          BY <2>4, <3>1, <4>2, NativeFields
      <3> QED
        BY <2>2, <2>4, <3>2, <3>3, <3>4
    <2>6. CASE ~ \A g \in Native!ToSet(Native!Visits(kind)) : attr[g] \notin Values
      BY <1>1, <2>6 DEF Native!Sweeping
    <2> QED
      BY <2>5, <2>6
  <1> QED
    BY <1>2, <1>3, <1>4 DEF ReferencesBalance

-----------------------------------------------------------------------------
(* A step of the composition is a step of one part, and none of the others.*)

LEMMA ProgramsParts ==
  ProgramsSpec => Spec /\ Forks!Spec /\ Cpp!Spec /\ Embed!Spec /\ Drm!Spec /\ Native!Spec
  <1>1. ProgramsInit => Init /\ Forks!Init /\ Cpp!Init /\ Embed!Init /\ Drm!Init /\ Native!Init
    BY DEF ProgramsInit
  <1>2. [ProgramsNext]_ProgramsVars =>
          /\ [Next]_atomicvars /\ [Forks!Next]_Forks!forkvars /\ [Cpp!Next]_Cpp!cppvars
          /\ [Embed!Next]_Embed!embedvars
    BY DEF ProgramsNext, ProgramsVars, Only, fork, cpp, embed, Forks!forkvars, Cpp!cppvars,
           Embed!embedvars
  <1>3. [ProgramsNext]_ProgramsVars => [Drm!Next]_Drm!vars
    BY DEF ProgramsNext, ProgramsVars, Only, drm, Drm!vars, Drm!hw, Drm!held
  <1>4. [ProgramsNext]_ProgramsVars => [Native!Next]_Native!vars
    BY DEF ProgramsNext, ProgramsVars, Only, native, Native!vars
  <1> QED
    BY <1>1, <1>2, <1>3, <1>4, PTL
       DEF ProgramsSpec, Spec, Forks!Spec, Cpp!Spec, Embed!Spec, Drm!Spec, Native!Spec

(* A behaviour in which the timer is not the part leaves it alone.         *)
GicPart == part = "gic" => Gic!IInv

LEMMA GicPartStep == GicPart /\ [ProgramsNext]_ProgramsVars => GicPart'
  <1>1. [ProgramsNext]_ProgramsVars =>
          /\ UNCHANGED part
          /\ [Gic!Next]_Gic!gicvars
    BY DEF ProgramsNext, ProgramsVars, Only, gic, Gic!gicvars
  <1> QED
    BY <1>1, GicStep DEF GicPart

(* However many threads there are and however often they count, main of    *)
(* atomic/main.h and main.hpp asserts what the counters then are, in every *)
(* method that locks or is atomic.  Whatever stdout of fork.c is and       *)
(* however its two processes run, no line comes out twice and the last of  *)
(* the parent comes after all that the child prints.  With any number of   *)
(* arguments, and whichever call fails, main of pure.c never gives up a    *)
(* reference that it does not hold, and once it has ended it has given     *)
(* back all that it took, but for the function when an argument could not  *)
(* be converted and the module when a type could not be made ready.        *)
THEOREM SamplesEnd == ProgramsSpec => []SamplesEndRight
  <1>1. Spec => []IInv
    BY AtomicInit, AtomicStep, PTL DEF Spec
  <1>2. Forks!Spec => []Forks!IInv
    BY ForkInit, ForkStep, PTL DEF Forks!Spec
  <1>3. Embed!Spec => []Embed!IInv
    BY EmbedInit, EmbedStep, PTL DEF Embed!Spec
  <1>4. IInv /\ Forks!IInv /\ Embed!IInv => SamplesEndRight
    BY AtomicSafe DEF Forks!IInv, Embed!IInv, SamplesEndRight
  <1> QED
    BY <1>1, <1>2, <1>3, <1>4, ProgramsParts, PTL

(* Whatever the attributes hold and in whatever order a Python program     *)
(* makes, initializes, sets and drops an object of the classes of          *)
(* pure_cpp.cpp: it has one C++ object, which goes with it, and what is    *)
(* read back was set.                                                      *)
THEOREM ObjectReadsBack == ProgramsSpec => []OneObjectReadsBack
  <1>1. Cpp!Spec => []Cpp!IInv
    BY CppInit, CppStep, PTL DEF Cpp!Spec
  <1> QED
    BY <1>1, CppSafe, ProgramsParts, PTL

(* Whichever attributes the two classes of pure.c have, however many       *)
(* values they hold, and whatever the program and the destructors that run *)
(* in the middle of a setter, of __init__, of a deallocation or of a       *)
(* collection do: no attribute refers to a value that was freed, between   *)
(* two calls the count of a value is the number of its references, and the *)
(* collector finds an object that only its own values refer to, unless     *)
(* attributes of the base class of a derived object refer to them.         *)
THEOREM ReferencesStayBalanced == ProgramsSpec => []ReferencesBalance
  <1>1. Native!Spec => []Native!IInv
    BY NativeInit, NativeStep, PTL DEF Native!Spec
  <1> QED
    BY <1>1, NativeSafe, ProgramsParts, PTL

(* However connectors, encoders and CRTCs are wired, how many there are    *)
(* and whichever calls fail: modeset.c drives one connector per CRTC,      *)
(* keeps nothing of a connector whose set-up failed, and, if no call on a  *)
(* CRTC failed and each connector had been lit, what the screens showed is *)
(* what they show when it has ended.  A color never jumps.                 *)
THEOREM DrawingRestores == ProgramsSpec => ScreensRestored
  <1>1. Drm!Spec => []Drm!IInv
    BY DrmInit, DrmStep, PTL DEF Drm!Spec
  <1>2. Drm!Spec => Drm!Smooth
    BY <1>1, DrmSmooth, PTL DEF Drm!Spec, Drm!Smooth
  <1> QED
    BY <1>1, <1>2, DrmSafe, ProgramsParts, PTL DEF ScreensRestored

(* For any number of interrupts, whichever of them the timer has, and      *)
(* whether they were enabled and pending before: once timer.c has set them *)
(* up the timer alone can interrupt, before anything else and by an edge,  *)
(* and it does so at most once for each time it expires.                   *)
THEOREM TimerTrapsOnce == ProgramsSpec => OneTrapPerPeriod
  <1>1. ProgramsInit => GicPart
    BY GicInit DEF ProgramsInit, GicPart
  <1>2. GicPart => (part = "gic" => Gic!TimerStandsOut)
    BY DEF GicPart, Gic!IInv
  <1>3. GicPart /\ [ProgramsNext]_ProgramsVars
          => [cpu = "wfi" /\ cpu' = "found" => fresh]_Gic!gicvars
    <2>1. [ProgramsNext]_ProgramsVars =>
            \/ part = "gic" /\ Gic!Next
            \/ UNCHANGED Gic!gicvars
      BY DEF ProgramsNext, ProgramsVars, Only, gic, Gic!gicvars
    <2> QED
      BY <2>1, GicOneTrap DEF GicPart
  <1> QED
    BY <1>1, <1>2, <1>3, GicPartStep, PTL DEF ProgramsSpec, OneTrapPerPeriod, Gic!OneTrapPerPeriod
=============================================================================
