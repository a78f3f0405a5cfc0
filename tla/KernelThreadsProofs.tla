------------------------ MODULE KernelThreadsProofs ------------------------
(***************************************************************************)
(* That what MCKernelThreads checks of threads, works, timers and handlers *)
(* of kernel modules on small instances holds for any threads, iterations, *)
(* queues, works, readers, CPUs, bits, files and lengths.  Each part has   *)
(* an inductive invariant, IInv of its module: it holds at the start (X    *)
(* Init), each step of the part keeps it (X Step), and the properties      *)
(* follow from it (X Safe).  A behaviour of ThreadsSpec is one of each     *)
(* part (ThreadsParts), so what is proved of a part holds of the whole.    *)
(***************************************************************************)
EXTENDS MCKernelThreads, FiniteSetTheorems, TLAPS

(* sync.c: the counter is the number of rounds that were added.            *)

USE ThreadsAssumption, NoOneAssumption
USE DEF ThreadsAssumption, NoOneAssumption

(* There are finitely many threads and finitely many additions.            *)
LEMMA Finite ==
  /\ \A S \in SUBSET (Ids \X (0 .. Iterations)) : IsFiniteSet(S) /\ Cardinality(S) \in Nat
  /\ \A S \in SUBSET Ids : IsFiniteSet(S) /\ Cardinality(S) \in Nat
  <1>1. IsFiniteSet(Ids) /\ IsFiniteSet(0 .. Iterations)
    BY FS_Interval DEF Ids
  <1>2. IsFiniteSet(Ids \X (0 .. Iterations))
    BY <1>1, FS_Product
  <1> QED
    BY <1>1, <1>2, FS_Subset, FS_CardinalityType

(* There are n numbers below n.                                            *)
LEMMA Numbers ==
  ASSUME NEW k \in Nat
  PROVE  IsFiniteSet(0 .. k - 1) /\ Cardinality(0 .. k - 1) = k
  <1>1. 0 \in Int /\ k - 1 \in Int
    OBVIOUS
  <1>2. /\ IsFiniteSet(0 .. k - 1)
        /\ Cardinality(0 .. k - 1) = IF 0 > k - 1 THEN 0 ELSE (k - 1) - 0 + 1
    BY ONLY <1>1, FS_Interval
  <1> QED
    BY <1>2

-----------------------------------------------------------------------------
(* Types.                                                                  *)

LEMMA InitTypes == Init => TypeOK
  <1> SUFFICES ASSUME Init PROVE TypeOK
    OBVIOUS
  <1>1. threads \in 1 .. MaxThreads /\ started \in 0 .. threads
    BY DEF Init
  <1>2. worker \in [Ids -> {"none", "created", "held", "loop", "bump", "load",
                            "store", "unlock", "leave", "gone"}]
    BY DEF Init
  <1>3. round \in [Ids -> Nat] /\ loaded \in [Ids -> Int]
    BY DEF Init
  <1>4. start_comp \in BOOLEAN /\ all_done \in BOOLEAN
    BY Zenon DEF Init
  <1> QED
    BY <1>1, <1>2, <1>3, <1>4 DEF Init, TypeOK, Modes

LEMMA StepTypes == TypeOK /\ Next => TypeOK'
  <1> SUFFICES ASSUME TypeOK, Next PROVE TypeOK'
    OBVIOUS
  <1> USE DEF TypeOK, Modes, ivars
  <1>1. CASE Refuse
    BY <1>1 DEF Refuse, wvars
  <1>2. CASE StartFails
    BY <1>2 DEF StartFails, wvars
  <1>3. CASE Unload
    <2>1. threads' \in 1 .. MaxThreads /\ started' \in 0 .. threads'
      BY <1>3 DEF Unload
    <2>2. worker' \in [Ids -> {"none", "created", "held", "loop", "bump", "load",
                               "store", "unlock", "leave", "gone"}]
      BY <1>3 DEF Unload
    <2>3. round' \in [Ids -> Nat] /\ loaded' \in [Ids -> Int]
      BY <1>3 DEF Unload
    <2>4. start_comp' \in BOOLEAN /\ all_done' \in BOOLEAN
      BY <1>3, Zenon DEF Unload
    <2> QED
      BY <1>3, <2>1, <2>2, <2>3, <2>4 DEF Unload
  <1>4. CASE InitSteps
    <2>1. CASE StartWorker
      <3>1. worker' \in [Ids -> {"none", "created", "held", "loop", "bump", "load",
                                 "store", "unlock", "leave", "gone"}]
        BY <2>1 DEF StartWorker
      <3>2. started' \in 0 .. threads'
        BY <2>1 DEF StartWorker
      <3> QED
        BY <2>1, <3>1, <3>2 DEF StartWorker
    <2>2. CASE StartAll
      BY <2>2 DEF StartAll, wvars
    <2>3. CASE StopWorker
      <3>1. LeftToStop => started - 1 \in Ids /\ started - 1 \in 0 .. threads
        BY DEF LeftToStop, Ids
      <3> QED
        BY <2>3, <3>1 DEF StopWorker, wvars
    <2>4. CASE Joined
      BY <2>4 DEF Joined, wvars
    <2>5. CASE AllDone
      BY <2>5 DEF AllDone, wvars
    <2> QED
      BY <1>4, <2>1, <2>2, <2>3, <2>4, <2>5 DEF InitSteps
  <1>5. ASSUME NEW m \in Modes, NEW k \in 0 .. MaxThreads, Insmod(m, k) PROVE TypeOK'
    <2>1. threads' \in 1 .. MaxThreads
      <3>1. CASE k = 0
        BY <1>5, <3>1 DEF Insmod
      <3>2. CASE k # 0
        BY <1>5, <3>2 DEF Insmod
      <3> QED
        BY <3>1, <3>2
    <2>2. started' \in 0 .. threads' /\ threads_left' \in Int
      BY <1>5, <2>1 DEF Insmod
    <2>3. start_comp' \in BOOLEAN /\ all_done' \in BOOLEAN
      BY <1>5, Zenon DEF Insmod
    <2> QED
      BY <1>5, <2>1, <2>2, <2>3 DEF Insmod
  <1>6. ASSUME NEW w \in Ids, Work(w) PROVE TypeOK'
    <2>1. Begin(w) => TypeOK'
      BY DEF Begin, Goto
    <2>2. Released(w) => TypeOK'
      BY DEF Released, Goto
    <2>3. Loop(w) => TypeOK'
      BY DEF Loop, Goto
    <2>4. AtomicInc(w) => TypeOK'
      BY DEF AtomicInc, Goto
    <2>5. Enter(w) => TypeOK'
      BY DEF Enter, Lock, Goto
    <2>6. Load(w) => TypeOK'
      BY DEF Load, Goto
    <2>7. Store(w) => TypeOK'
      BY DEF Store, Goto
    <2>8. Unlock(w) => TypeOK'
      BY DEF Unlock, Goto
    <2>9. Leave(w) => TypeOK'
      BY DEF Leave, DecAndTest, Goto
    <2> QED
      BY ONLY <1>6, <2>1, <2>2, <2>3, <2>4, <2>5, <2>6, <2>7, <2>8, <2>9 DEF Work
  <1> QED
    BY <1>1, <1>2, <1>3, <1>4, <1>5, <1>6 DEF Next

-----------------------------------------------------------------------------
(* What the rounds of a worker and the phases of insmod allow.             *)

LEMMA StepRounds == TypeOK /\ Rounds /\ Phases /\ Next => Rounds'
  <1> SUFFICES ASSUME TypeOK, Rounds, Phases, Next PROVE Rounds'
    OBVIOUS
  <1> USE DEF TypeOK, Rounds, Phases, Going, Critical, ivars
  <1>1. CASE Refuse
    BY <1>1 DEF Refuse, wvars
  <1>2. CASE StartFails
    BY <1>2 DEF StartFails, wvars
  <1>3. CASE Unload
    BY <1>3 DEF Unload
  <1>4. CASE InitSteps
    <2>1. CASE StartWorker
      BY <2>1 DEF StartWorker
    <2>2. CASE StartAll
      BY <2>2 DEF StartAll, wvars
    <2>3. CASE StopWorker
      BY <2>3 DEF StopWorker, wvars
    <2>4. CASE Joined
      BY <2>4 DEF Joined, wvars
    <2>5. CASE AllDone
      BY <2>5 DEF AllDone, wvars
    <2> QED
      BY <1>4, <2>1, <2>2, <2>3, <2>4, <2>5 DEF InitSteps
  <1>5. ASSUME NEW m \in Modes, NEW k \in 0 .. MaxThreads, Insmod(m, k) PROVE Rounds'
    BY <1>5 DEF Insmod
  <1>6. ASSUME NEW w \in Ids, Work(w) PROVE Rounds'
    <2>1. Begin(w) => Rounds'
      BY DEF Begin, Goto
    <2>2. Released(w) => Rounds'
      BY DEF Released, Goto
    <2>3. Loop(w) => Rounds'
      BY DEF Loop, Goto
    <2>4. AtomicInc(w) => Rounds'
      BY DEF AtomicInc, Goto
    <2>5. Enter(w) => Rounds'
      BY DEF Enter, Goto
    <2>6. Load(w) => Rounds'
      BY DEF Load, Goto
    <2>7. Store(w) => Rounds'
      BY DEF Store, Goto
    <2>8. Unlock(w) => Rounds'
      BY DEF Unlock, Goto
    <2>9. Leave(w) => Rounds'
      BY DEF Leave, Goto
    <2> QED
      BY ONLY <1>6, <2>1, <2>2, <2>3, <2>4, <2>5, <2>6, <2>7, <2>8, <2>9 DEF Work
  <1> QED
    BY <1>1, <1>2, <1>3, <1>4, <1>5, <1>6 DEF Next

LEMMA StepPhases == TypeOK /\ Phases /\ Next => Phases'
  <1> SUFFICES ASSUME TypeOK, Phases, Next PROVE Phases'
    OBVIOUS
  <1> USE DEF TypeOK, Phases, Going, ivars
  <1>1. CASE Refuse
    BY <1>1 DEF Refuse, wvars
  <1>2. CASE StartFails
    BY <1>2 DEF StartFails, wvars
  <1>3. CASE Unload
    BY <1>3 DEF Unload
  <1>4. CASE InitSteps
    <2>1. CASE StartWorker
      BY <2>1 DEF StartWorker, Ids
    <2>2. CASE StartAll
      BY <2>2 DEF StartAll, wvars
    <2>3. CASE StopWorker
      BY <2>3 DEF StopWorker, wvars
    <2>4. CASE Joined
      BY <2>4 DEF Joined, wvars
    <2>5. CASE AllDone
      BY <2>5 DEF AllDone, wvars
    <2> QED
      BY <1>4, <2>1, <2>2, <2>3, <2>4, <2>5 DEF InitSteps
  <1>5. ASSUME NEW m \in Modes, NEW k \in 0 .. MaxThreads, Insmod(m, k) PROVE Phases'
    BY <1>5 DEF Insmod
  <1>6. ASSUME NEW w \in Ids, Work(w) PROVE Phases'
    <2>1. Begin(w) => Phases'
      BY DEF Begin, Goto
    <2>2. Released(w) => Phases'
      BY DEF Released, Goto
    <2>3. Loop(w) => Phases'
      BY DEF Loop, Goto
    <2>4. AtomicInc(w) => Phases'
      BY DEF AtomicInc, Goto
    <2>5. Enter(w) => Phases'
      BY DEF Enter, Goto
    <2>6. Load(w) => Phases'
      BY DEF Load, Goto
    <2>7. Store(w) => Phases'
      BY DEF Store, Goto
    <2>8. Unlock(w) => Phases'
      BY DEF Unlock, Goto
    <2>9. Leave(w) => Phases'
      BY DEF Leave, DecAndTest, Goto
    <2> QED
      BY ONLY <1>6, <2>1, <2>2, <2>3, <2>4, <2>5, <2>6, <2>7, <2>8, <2>9 DEF Work
  <1> QED
    BY <1>1, <1>2, <1>3, <1>4, <1>5, <1>6 DEF Next

-----------------------------------------------------------------------------
(* Only the holder of the lock is between load and unlock.                 *)

LEMMA StepExclusion == TypeOK /\ Phases /\ Exclusion /\ Next => Exclusion'
  <1> SUFFICES ASSUME TypeOK, Phases, Exclusion, Next PROVE Exclusion'
    OBVIOUS
  <1> USE DEF TypeOK, Exclusion, Locked, Critical, ivars
  <1>1. CASE Refuse
    BY <1>1 DEF Refuse, wvars
  <1>2. CASE StartFails
    BY <1>2 DEF StartFails, wvars
  <1>3. CASE Unload
    BY <1>3 DEF Unload
  <1>4. CASE InitSteps
    BY <1>4 DEF InitSteps, StartWorker, StartAll, StopWorker, Joined, AllDone, wvars
  <1>5. ASSUME NEW m \in Modes, NEW k \in 0 .. MaxThreads, Insmod(m, k) PROVE Exclusion'
    BY <1>5 DEF Insmod, Phases
  <1>6. ASSUME NEW w \in Ids, Work(w) PROVE Exclusion'
    <2>1. Begin(w) => Exclusion'
      BY DEF Begin, Goto
    <2>2. Released(w) => Exclusion'
      BY DEF Released, Goto
    <2>3. Loop(w) => Exclusion'
      BY DEF Loop, Goto
    <2>4. AtomicInc(w) => Exclusion'
      BY DEF AtomicInc, Goto
    <2>5. Enter(w) => Exclusion'
      BY DEF Enter, Lock, Goto
    <2>6. Load(w) => Exclusion'
      BY DEF Load, Goto
    <2>7. Store(w) => Exclusion'
      BY DEF Store, Goto
    <2>8. Unlock(w) => Exclusion'
      BY DEF Unlock, Goto
    <2>9. Leave(w) => Exclusion'
      BY DEF Leave, Goto
    <2> QED
      BY ONLY <1>6, <2>1, <2>2, <2>3, <2>4, <2>5, <2>6, <2>7, <2>8, <2>9 DEF Work
  <1> QED
    BY <1>1, <1>2, <1>3, <1>4, <1>5, <1>6 DEF Next

-----------------------------------------------------------------------------
(* The counter is the number of the additions.                             *)

LEMMA SameAdded ==
  ASSUME \A v \in Ids : Done(v)' = Done(v)
  PROVE  Added' = Added
  BY DEF Added, Done

(* A worker that adds puts one more element in Added.                      *)
LEMMA OneMore ==
  ASSUME TypeOK, TypeOK', NEW w \in Ids, Done(w) \in Nat, Done(w) <= Iterations,
         Done(w)' = Done(w) + 1, \A v \in Ids \ {w} : Done(v)' = Done(v)
  PROVE  Cardinality(Added') = Cardinality(Added) + 1
  <1> DEFINE a == <<w, Done(w)>>
  <1>1. a \in Ids \X (0 .. Iterations) /\ a \notin Added
    BY DEF Added
  <1>2. Added' = Added \cup {a}
    <2>1. ASSUME NEW b \in Ids \X (0 .. Iterations)
          PROVE  b \in Added' <=> b \in Added \/ b = a
      <3>1. b \in Added' <=> b[2] < Done(b[1])'
        BY DEF Added
      <3>2. b \in Added <=> b[2] < Done(b[1])
        BY DEF Added
      <3>3. CASE b[1] = w
        <4>1. Done(b[1])' = Done(w) + 1 /\ Done(b[1]) = Done(w)
          BY <3>3
        <4>2. b[2] < Done(w) + 1 <=> b[2] < Done(w) \/ b[2] = Done(w)
          OBVIOUS
        <4> QED
          BY <3>1, <3>2, <3>3, <4>1, <4>2
      <3>4. CASE b[1] # w
        BY <3>1, <3>2, <3>4
      <3> QED
        BY <3>3, <3>4
    <2> QED
      BY <1>1, <2>1 DEF Added
  <1>3. IsFiniteSet(Added)
    BY Finite DEF Added
  <1> QED
    BY <1>1, <1>2, <1>3, FS_AddElement

(* A thread that is not loaded yet has added nothing and has not left.     *)
LEMMA NothingYet ==
  ASSUME TypeOK, Rounds, \A w \in Ids : worker[w] = "none"
  PROVE  Added = {} /\ Left = {}
  BY DEF TypeOK, Rounds, Added, Done, Left

LEMMA StepCounted ==
  ASSUME TypeOK, TypeOK', Rounds, Rounds', Phases, Exclusion, Counted, Next
  PROVE  Counted'
  <1> USE DEF TypeOK, ivars
  <1>1. ASSUME UNCHANGED wvars, UNCHANGED selected_mode PROVE Counted'
    BY <1>1, SameAdded DEF Counted, Done, wvars
  <1>2. CASE Refuse
    BY <1>1, <1>2 DEF Refuse
  <1>3. CASE StartFails
    BY <1>1, <1>3 DEF StartFails
  <1>4. CASE Unload
    BY <1>4 DEF Unload, Counted
  <1>5. CASE InitSteps
    <2>1. CASE StartWorker
      <3>1. started \in Ids
        BY <2>1 DEF StartWorker, Ids
      <3>2. worker[started] # "unlock"
        BY <2>1, <3>1, Phases DEF Phases, StartWorker
      <3>3. \A v \in Ids : Done(v)' = Done(v)
        BY <2>1, <3>1, <3>2 DEF StartWorker, Done
      <3> QED
        BY <2>1, <3>3, SameAdded DEF StartWorker, Counted
    <2> QED
      BY <1>1, <1>5, <2>1 DEF InitSteps, StartAll, StopWorker, Joined, AllDone
  <1>6. ASSUME NEW m \in Modes, NEW k \in 0 .. MaxThreads, Insmod(m, k) PROVE Counted'
    <2>1. Added' = {}
      <3>1. Added = {}
        BY <1>6, NothingYet DEF Insmod, Phases
      <3>2. Added' = Added
        BY <1>6, SameAdded DEF Insmod, Done
      <3> QED
        BY <3>1, <3>2
    <2> QED
      BY <1>6, <2>1, FS_EmptySet DEF Insmod, Counted
  <1>7. ASSUME NEW w \in Ids, Work(w) PROVE Counted'
    <2>1. ASSUME UNCHANGED <<counter, selected_mode>>, \A v \in Ids : Done(v)' = Done(v)
          PROVE  Counted'
      BY <2>1, SameAdded DEF Counted
    <2>2. Begin(w) => Counted'
      BY <2>1 DEF Begin, Goto, Done
    <2>3. Released(w) => Counted'
      BY <2>1 DEF Released, Goto, Done
    <2>4. Loop(w) => Counted'
      BY <2>1 DEF Loop, Goto, Done
    <2>5. Enter(w) => Counted'
      BY <2>1 DEF Enter, Goto, Done
    <2>6. Load(w) => Counted'
      BY <2>1 DEF Load, Goto, Done
    <2>7. Leave(w) => Counted'
      BY <2>1 DEF Leave, Goto, Done
    <2>8. Unlock(w) => Counted'
      BY <2>1 DEF Unlock, Goto, Done
    <2>9. ASSUME AtomicInc(w) PROVE Counted'
      <3>1. Done(w) \in Nat /\ Done(w) <= Iterations /\ Done(w)' = Done(w) + 1
        BY <2>9 DEF AtomicInc, Goto, Done, Rounds
      <3>2. \A v \in Ids \ {w} : Done(v)' = Done(v)
        BY <2>9 DEF AtomicInc, Goto, Done
      <3>3. Cardinality(Added') = Cardinality(Added) + 1
        BY <3>1, <3>2, OneMore
      <3> QED
        BY <2>9, <3>3 DEF AtomicInc, Counted
    <2>10. ASSUME Store(w) PROVE Counted'
      <3>1. Done(w) \in Nat /\ Done(w) <= Iterations /\ Done(w)' = Done(w) + 1
        BY <2>10 DEF Store, Goto, Done, Rounds, Critical
      <3>2. \A v \in Ids \ {w} : Done(v)' = Done(v)
        BY <2>10 DEF Store, Goto, Done
      <3>3. Cardinality(Added') = Cardinality(Added) + 1
        BY <3>1, <3>2, OneMore
      <3>4. selected_mode # "none" => loaded[w] = counter
        BY <2>10 DEF Store, Exclusion, Locked, Critical, Modes
      <3> QED
        BY <2>10, <3>3, <3>4 DEF Store, Counted
    <2> QED
      BY ONLY <1>7, <2>2, <2>3, <2>4, <2>5, <2>6, <2>7, <2>8, <2>9, <2>10 DEF Work
  <1> QED
    BY <1>2, <1>3, <1>4, <1>5, <1>6, <1>7 DEF Next

-----------------------------------------------------------------------------
(* threads_left counts the threads that have not left.                     *)

LEMMA SameLeft ==
  ASSUME \A v \in Ids : worker'[v] = "gone" <=> worker[v] = "gone"
  PROVE  Left' = Left
  BY DEF Left

LEMMA StepLeaving ==
  ASSUME TypeOK, TypeOK', Rounds, Phases, Phases', Leaving, Next
  PROVE  Leaving'
  <1> USE DEF TypeOK, ivars
  <1>1. ASSUME UNCHANGED wvars, UNCHANGED threads, insmod' \in Going => insmod \in Going
        PROVE  Leaving'
    BY <1>1, SameLeft DEF Leaving, wvars
  <1>2. CASE Refuse
    BY <1>2 DEF Refuse, Leaving, Going
  <1>3. CASE StartFails
    BY <1>3 DEF StartFails, Leaving, Going
  <1>4. CASE Unload
    BY <1>4 DEF Unload, Leaving, Going
  <1>5. CASE InitSteps
    <2>1. CASE StartWorker
      <3>1. started \in Ids
        BY <2>1 DEF StartWorker, Ids
      <3>2. worker[started] # "gone"
        BY <2>1, <3>1 DEF Phases, StartWorker
      <3>3. Left' = Left
        BY <2>1, <3>1, <3>2, SameLeft DEF StartWorker
      <3> QED
        BY <2>1, <3>3 DEF StartWorker, Leaving
    <2>2. CASE StartAll
      BY <1>1, <2>2 DEF StartAll, Going
    <2>3. CASE StopWorker
      BY <2>3 DEF StopWorker, Leaving, Going
    <2>4. CASE Joined
      BY <2>4 DEF Joined, Leaving, Going
    <2>5. CASE AllDone
      BY <1>1, <2>5 DEF AllDone, Going
    <2> QED
      BY <1>5, <2>1, <2>2, <2>3, <2>4, <2>5 DEF InitSteps
  <1>6. ASSUME NEW m \in Modes, NEW k \in 0 .. MaxThreads, Insmod(m, k) PROVE Leaving'
    <2>1. Left' = {}
      <3>1. Left = {}
        BY <1>6, NothingYet DEF Insmod, Phases
      <3>2. Left' = Left
        BY <1>6, SameLeft DEF Insmod
      <3> QED
        BY <3>1, <3>2
    <2> QED
      BY <1>6, <2>1, FS_EmptySet DEF Insmod, Leaving
  <1>7. ASSUME NEW w \in Ids, Work(w) PROVE Leaving'
    <2> SUFFICES ASSUME insmod \in Going PROVE Leaving'
      BY <1>7 DEF Work, Begin, Released, Loop, AtomicInc, Enter, Load, Store, Unlock,
                  Leave, Leaving
    <2>1. ASSUME UNCHANGED <<ivars, threads_left, all_done>>, Left' = Left PROVE Leaving'
      BY <2>1 DEF Leaving
    <2>2. Begin(w) => Leaving'
      BY <2>1, SameLeft DEF Begin, Goto, Phases, Going
    <2>3. Released(w) => Leaving'
      BY <2>1, SameLeft DEF Released, Goto
    <2>4. Loop(w) => Leaving'
      BY <2>1, SameLeft DEF Loop, Goto
    <2>5. AtomicInc(w) => Leaving'
      BY <2>1, SameLeft DEF AtomicInc, Goto
    <2>6. Enter(w) => Leaving'
      BY <2>1, SameLeft DEF Enter, Goto
    <2>7. Load(w) => Leaving'
      BY <2>1, SameLeft DEF Load, Goto
    <2>8. Store(w) => Leaving'
      BY <2>1, SameLeft DEF Store, Goto
    <2>9. Unlock(w) => Leaving'
      BY <2>1, SameLeft DEF Unlock, Goto
    <2>10. ASSUME Leave(w) PROVE Leaving'
      <3>1. w \notin Left /\ Left' = Left \cup {w}
        BY <2>10 DEF Leave, Goto, Left
      <3>2. IsFiniteSet(Left) /\ Cardinality(Left) \in Nat
        BY Finite DEF Left
      <3>3. Cardinality(Left') = Cardinality(Left) + 1
        BY <3>1, <3>2, FS_AddElement
      <3>4. threads_left' = threads' - Cardinality(Left')
        BY <2>10, <3>2, <3>3 DEF Leave, DecAndTest, Leaving
      <3>5. Left' \subseteq 0 .. threads - 1
        BY <2>10 DEF Leave, Left, Phases, Ids
      <3>6. ASSUME threads_left' = 0 PROVE Left' = 0 .. threads - 1
        <4> threads \in Nat
          OBVIOUS
        <4>1. IsFiniteSet(0 .. threads - 1) /\ Cardinality(0 .. threads - 1) = threads
          BY Numbers
        <4>2. Cardinality(Left') = Cardinality(0 .. threads - 1)
          BY <2>10, <3>2, <3>3, <3>4, <3>6, <4>1 DEF Leave
        <4> QED
          BY <3>5, <4>1, <4>2, FS_Subset
      <3>7. ~all_done
        BY <2>10, <3>1 DEF Leave, Leaving, Left, Phases, Ids
      <3> QED
        BY <2>10, <3>4, <3>6, <3>7 DEF Leave, DecAndTest, Leaving
    <2> QED
      BY ONLY <1>7, <2>2, <2>3, <2>4, <2>5, <2>6, <2>7, <2>8, <2>9, <2>10 DEF Work
  <1> QED
    BY <1>2, <1>3, <1>4, <1>5, <1>6, <1>7 DEF Next

-----------------------------------------------------------------------------
(* The invariant, and what follows.                                        *)

LEMMA SyncInit == Init => IInv
  <1> SUFFICES ASSUME Init PROVE IInv
    OBVIOUS
  <1>1. TypeOK
    BY InitTypes
  <1>2. Rounds /\ Phases /\ Exclusion
    BY DEF Init, Rounds, Phases, Exclusion, Critical, Going, Locked
  <1>3. Counted /\ Leaving
    BY DEF Init, Counted, Leaving, Going
  <1> QED
    BY <1>1, <1>2, <1>3 DEF IInv

LEMMA SyncStep == IInv /\ [Next]_vars => IInv'
  <1> SUFFICES ASSUME IInv, [Next]_vars PROVE IInv'
    OBVIOUS
  <1>1. CASE Next
    BY <1>1, StepTypes, StepRounds, StepPhases, StepExclusion, StepCounted, StepLeaving
       DEF IInv
  <1>2. CASE UNCHANGED vars
    <2>1. Added' = Added /\ Left' = Left
      BY <1>2, SameAdded, SameLeft DEF vars, wvars, Done
    <2>2. TypeOK' /\ Rounds' /\ Phases' /\ Exclusion'
      BY <1>2 DEF IInv, TypeOK, Rounds, Phases, Exclusion, vars, wvars, ivars
    <2>3. Counted' /\ Leaving'
      BY <1>2, <2>1 DEF IInv, Counted, Leaving, vars, wvars, ivars
    <2> QED
      BY <2>2, <2>3 DEF IInv
  <1> QED
    BY <1>1, <1>2

LEMMA SyncInvariant == Spec => []IInv
  BY SyncInit, SyncStep, PTL DEF Spec

(* When insmod has seen all_done, every worker has left with its rounds    *)
(* done: the additions are all pairs of a thread and a round.              *)
LEMMA AllAdded ==
  ASSUME IInv, insmod = "loaded"
  PROVE  Cardinality(Added) = threads * Iterations
  <1> USE DEF IInv, TypeOK
  <1>1. Left = 0 .. threads - 1
    BY DEF Phases, Leaving, Going
  <1>2. \A w \in Ids : Done(w) = IF w < threads THEN Iterations ELSE 0
    <2> SUFFICES ASSUME NEW w \in Ids PROVE Done(w) = IF w < threads THEN Iterations ELSE 0
      OBVIOUS
    <2>1. CASE w < threads
      <3>1. w \in Left
        BY <1>1, <2>1 DEF Ids
      <3> QED
        BY <2>1, <3>1 DEF Done, Left, Rounds, Going
    <2>2. CASE w >= threads
      <3>1. worker[w] = "none" /\ round[w] = 0
        BY <2>2 DEF Phases, Rounds
      <3> QED
        BY <2>2, <3>1 DEF Done, Ids
    <2> QED
      BY <2>1, <2>2 DEF Ids
  <1>3. Added = (0 .. threads - 1) \X (0 .. Iterations - 1)
    BY <1>2 DEF Added, Ids
  <1>4. /\ IsFiniteSet(0 .. threads - 1) /\ Cardinality(0 .. threads - 1) = threads
        /\ IsFiniteSet(0 .. Iterations - 1) /\ Cardinality(0 .. Iterations - 1) = Iterations
    BY Numbers
  <1> QED
    BY ONLY <1>3, <1>4, FS_Product

USE PartsAssumption DEF PartsAssumption

-----------------------------------------------------------------------------
(* Workqueues: the queues that are live wherever myinit and myexit are in  *)
(* their loops, and works in none but these.                               *)

LEMMA QueuesInit == ASSUME Queues!Init PROVE Queues!IInv
  <1> USE DEF Queues!Init
  <1>1. Queues!TypeOK
    <2>1. qi \in 1 .. nqueues + 1
      OBVIOUS
    <2>2. /\ queues \in [Queues!Queues -> {"none", "live", "destroyed"}]
          /\ work \in [Queues!Works -> {"none", "queued", "test", "body", "done"}]
      OBVIOUS
    <2>3. count \in [Queues!Works -> 0 .. 5]
      OBVIOUS
    <2> QED
      BY <2>1, <2>2, <2>3 DEF Queues!TypeOK
  <1>2. Queues!QueuesToI
    BY DEF Queues!QueuesToI
  <1>3. Queues!WorksOnQueues
    BY DEF Queues!WorksOnQueues, Queues!Live
  <1> QED
    BY <1>1, <1>2, <1>3 DEF Queues!IInv

(* A work that moves on: it was live, so its queue is.                     *)
LEMMA QueuesWorkStep ==
  ASSUME Queues!IInv, NEW w \in Queues!Works, Queues!Work(w)
  PROVE  Queues!IInv'
  <1>1. /\ Queues!Live(w)
        /\ wmod' = wmod /\ qi' = qi /\ queues' = queues /\ run' = run /\ works' = works
    BY DEF Queues!Work, Queues!Start, Queues!TestRun, Queues!Count, Queues!Live
  <1>2. PICK to \in {"test", "body", "done"} : work' = [work EXCEPT ![w] = to]
    BY DEF Queues!Work, Queues!Start, Queues!TestRun, Queues!Count
  <1>3. count' \in [Queues!Works -> 0 .. 5]
    BY DEF Queues!IInv, Queues!TypeOK, Queues!Work, Queues!Start, Queues!TestRun, Queues!Count
  <1>4. Queues!TypeOK'
    BY <1>1, <1>2, <1>3 DEF Queues!IInv, Queues!TypeOK
  <1>5. Queues!QueuesToI'
    BY <1>1 DEF Queues!IInv, Queues!QueuesToI
  <1>6. Queues!WorksOnQueues'
    <2>1. ASSUME NEW v \in Queues!Works, Queues!Live(v)' PROVE Queues!Live(v)
      BY <1>1, <1>2, <2>1 DEF Queues!IInv, Queues!TypeOK, Queues!Live
    <2> QED
      BY <1>1, <2>1 DEF Queues!IInv, Queues!WorksOnQueues
  <1> QED
    BY <1>4, <1>5, <1>6 DEF Queues!IInv

(* A queue is destroyed when none of its works is live.                    *)
LEMMA QueuesNoneIsLive ==
  ASSUME Queues!IInv, NEW q \in Queues!Queues, Queues!Destroyed(q), UNCHANGED work
  PROVE  /\ queues' \in [Queues!Queues -> {"none", "live", "destroyed"}]
         /\ \A p \in Queues!Queues : queues'[p] = "live" <=> queues[p] = "live" /\ p # q
         /\ \A w \in Queues!Works : Queues!Live(w)' => queues'[w[1]] = "live"
  <1>1. queues' = [queues EXCEPT ![q] = "destroyed"]
    BY DEF Queues!Destroyed
  <1>2. /\ queues' \in [Queues!Queues -> {"none", "live", "destroyed"}]
        /\ \A p \in Queues!Queues : queues'[p] = "live" <=> queues[p] = "live" /\ p # q
    BY <1>1 DEF Queues!IInv, Queues!TypeOK
  <1>3. ASSUME NEW w \in Queues!Works, Queues!Live(w)' PROVE queues'[w[1]] = "live"
    <2>1. Queues!Live(w)
      BY <1>3 DEF Queues!Live
    <2>2. w[1] # q /\ queues[w[1]] = "live"
      BY <2>1 DEF Queues!Destroyed, Queues!Drained, Queues!IInv, Queues!WorksOnQueues
    <2>3. w[1] \in Queues!Queues
      BY DEF Queues!Works
    <2> QED
      BY <1>2, <2>2, <2>3
  <1> QED
    BY <1>2, <1>3

(* What myinit and myexit do without a work.                               *)
LEMMA QueuesLoadStep ==
  ASSUME Queues!IInv, Queues!Insmod \/ Queues!Created \/ Queues!CreateFails \/ Queues!Rmmod \/ Queues!ExitDone \/ Queues!Free
  PROVE  Queues!IInv'
  <1>1. UNCHANGED <<queues, work, count>>
    BY DEF Queues!Insmod, Queues!Created, Queues!CreateFails, Queues!Rmmod, Queues!ExitDone, Queues!Free
  <1>2. Queues!TypeOK'
    <2>1. qi' \in 1 .. nqueues + 1
      BY DEF Queues!IInv, Queues!TypeOK, Queues!Insmod, Queues!Created, Queues!CreateFails, Queues!UndoNext, Queues!Rmmod, Queues!ExitDone, Queues!Free
    <2>4. wmod' = "undo" => qi' \in Queues!Queues
      BY DEF Queues!IInv, Queues!TypeOK, Queues!Insmod, Queues!Created, Queues!CreateFails, Queues!UndoNext, Queues!Rmmod, Queues!ExitFlushes,
             Queues!ExitDone, Queues!Free, Queues!Queues
    <2>2. run' \in BOOLEAN /\ works' \in BOOLEAN
      BY DEF Queues!IInv, Queues!TypeOK, Queues!Insmod, Queues!Created, Queues!CreateFails, Queues!Rmmod, Queues!ExitFlushes, Queues!ExitDone, Queues!Free
    <2>3. wmod' \in {"unloaded", "creating", "undo", "loaded", "exit", "free", "gone"}
      BY DEF Queues!Insmod, Queues!Created, Queues!CreateFails, Queues!UndoNext, Queues!Rmmod, Queues!ExitFlushes, Queues!ExitDone, Queues!Free
    <2> QED
      BY <1>1, <2>1, <2>2, <2>3, <2>4 DEF Queues!IInv, Queues!TypeOK
  <1>3. Queues!QueuesToI'
    <2> SUFFICES ASSUME NEW q \in Queues!Queues
                 PROVE  queues[q] = "live" <=>
                          \/ wmod' = "creating" /\ q < qi'
                          \/ wmod' = "undo" /\ q <= qi'
                          \/ wmod' = "loaded"
                          \/ wmod' = "exit" /\ q >= qi'
      BY <1>1 DEF Queues!QueuesToI
    <2>1. q \in Nat /\ q >= 1 /\ q <= nqueues
      BY DEF Queues!Queues
    <2>2. qi \in Nat /\ qi >= 1 /\ qi <= nqueues + 1
      BY DEF Queues!IInv, Queues!TypeOK
    <2>3. queues[q] = "live" <=>
            \/ wmod = "creating" /\ q < qi
            \/ wmod = "undo" /\ q <= qi
            \/ wmod = "loaded"
            \/ wmod = "exit" /\ q >= qi
      BY DEF Queues!IInv, Queues!QueuesToI
    <2> QED
      BY <2>1, <2>2, <2>3
         DEF Queues!Insmod, Queues!Created, Queues!CreateFails, Queues!UndoNext, Queues!Rmmod, Queues!ExitFlushes, Queues!ExitDone, Queues!Free
  <1>4. Queues!WorksOnQueues'
    <2>1. works' <=> wmod' \notin {"unloaded", "gone"}
      BY DEF Queues!IInv, Queues!WorksOnQueues, Queues!Insmod, Queues!Created, Queues!CreateFails, Queues!UndoNext, Queues!Rmmod, Queues!ExitFlushes,
             Queues!ExitDone, Queues!Free
    <2>2. \A w \in Queues!Works : Queues!Live(w)' => queues'[w[1]] = "live"
      BY <1>1 DEF Queues!IInv, Queues!WorksOnQueues, Queues!Live
    <2> QED
      BY <2>1, <2>2 DEF Queues!WorksOnQueues
  <1> QED
    BY <1>2, <1>3, <1>4 DEF Queues!IInv

LEMMA QueuesCreateStep ==
  ASSUME Queues!IInv, Queues!CreateQueue
  PROVE  Queues!IInv'
  <1>1. /\ wmod = "creating" /\ qi <= nqueues /\ qi' = qi + 1
        /\ queues' = [queues EXCEPT ![qi] = "live"]
        /\ work' = [w \in Queues!Works |-> IF w[1] = qi THEN "queued" ELSE work[w]]
        /\ UNCHANGED <<wmod, count, run, works>>
    BY DEF Queues!CreateQueue
  <1>2. qi \in Queues!Queues /\ qi \in Nat /\ qi' \in 1 .. nqueues + 1
    BY <1>1 DEF Queues!IInv, Queues!TypeOK, Queues!Queues
  <1>3. Queues!TypeOK'
    BY <1>1, <1>2 DEF Queues!IInv, Queues!TypeOK
  <1>4. Queues!QueuesToI'
    <2>1. ASSUME NEW q \in Queues!Queues PROVE queues'[q] = "live" <=> q < qi + 1
      <3>1. q \in Nat
        BY DEF Queues!Queues
      <3>2. queues[q] = "live" <=> q < qi
        BY <1>1 DEF Queues!IInv, Queues!QueuesToI
      <3> QED
        BY <1>1, <1>2, <3>1, <3>2 DEF Queues!IInv, Queues!TypeOK
    <2> QED
      BY <1>1, <2>1 DEF Queues!QueuesToI
  <1>5. Queues!WorksOnQueues'
    <2>1. ASSUME NEW w \in Queues!Works, Queues!Live(w)' PROVE queues'[w[1]] = "live"
      <3>1. w[1] \in Queues!Queues
        BY DEF Queues!Works
      <3>2. CASE w[1] = qi
        BY <1>1, <1>2, <3>2 DEF Queues!IInv, Queues!TypeOK
      <3>3. CASE w[1] # qi
        <4>1. Queues!Live(w)
          BY <1>1, <2>1, <3>3 DEF Queues!Live
        <4> QED
          BY <1>1, <3>1, <3>3, <4>1 DEF Queues!IInv, Queues!TypeOK, Queues!WorksOnQueues
      <3> QED
        BY <3>2, <3>3
    <2> QED
      BY <1>1, <2>1 DEF Queues!IInv, Queues!WorksOnQueues
  <1> QED
    BY <1>3, <1>4, <1>5 DEF Queues!IInv

LEMMA QueuesDestroyStep ==
  ASSUME Queues!IInv, Queues!Undo \/ Queues!DestroyNext
  PROVE  Queues!IInv'
  <1>1. /\ qi \in Queues!Queues /\ qi \in Nat /\ Queues!Destroyed(qi)
        /\ UNCHANGED <<work, count, run, works>>
    <2>1. CASE Queues!DestroyNext
      BY <2>1 DEF Queues!DestroyNext, Queues!IInv, Queues!TypeOK, Queues!Queues
    <2>2. CASE Queues!Undo
      <3>1. /\ wmod = "undo" /\ Queues!Destroyed(qi) /\ UNCHANGED <<work, count, run, works>>
        BY <2>2 DEF Queues!Undo
      <3> QED
        BY <3>1 DEF Queues!IInv, Queues!TypeOK, Queues!Queues
    <2> QED
      BY <2>1, <2>2
  <1>2. /\ queues' \in [Queues!Queues -> {"none", "live", "destroyed"}]
        /\ \A p \in Queues!Queues : queues'[p] = "live" <=> queues[p] = "live" /\ p # qi
        /\ \A w \in Queues!Works : Queues!Live(w)' => queues'[w[1]] = "live"
    BY <1>1, QueuesNoneIsLive
  <1>3. Queues!TypeOK'
    <2>1. /\ qi' \in 1 .. nqueues + 1
          /\ wmod' \in {"unloaded", "creating", "undo", "loaded", "exit", "free", "gone"}
      BY <1>1 DEF Queues!Undo, Queues!UndoNext, Queues!DestroyNext, Queues!IInv, Queues!TypeOK
    <2>2. wmod' = "undo" => qi' \in Queues!Queues
      <3>1. CASE Queues!Undo
        <4>1. qi \in Nat /\ qi <= nqueues /\ nqueues \in Nat
          BY <1>1 DEF Queues!Queues
        <4>2. wmod' = "undo" => qi > 1 /\ qi' = qi - 1
          BY <3>1 DEF Queues!Undo, Queues!UndoNext
        <4> QED
          BY <4>1, <4>2 DEF Queues!Queues
      <3>2. CASE Queues!DestroyNext
        BY <3>2 DEF Queues!DestroyNext
      <3> QED
        BY <3>1, <3>2
    <2> QED
      BY <1>1, <1>2, <2>1, <2>2 DEF Queues!IInv, Queues!TypeOK
  <1>4. Queues!QueuesToI'
    <2> SUFFICES ASSUME NEW q \in Queues!Queues
                 PROVE  queues'[q] = "live" <=>
                          \/ wmod' = "creating" /\ q < qi'
                          \/ wmod' = "undo" /\ q <= qi'
                          \/ wmod' = "loaded"
                          \/ wmod' = "exit" /\ q >= qi'
      BY DEF Queues!QueuesToI
    <2>1. q \in Nat /\ q >= 1
      BY DEF Queues!Queues
    <2>2. qi >= 1
      BY <1>1 DEF Queues!Queues
    <2>3. queues[q] = "live" <=>
            \/ wmod = "undo" /\ q <= qi
            \/ wmod = "exit" /\ q >= qi
      BY DEF Queues!IInv, Queues!QueuesToI, Queues!Undo, Queues!DestroyNext
    <2>4. queues'[q] = "live" <=> queues[q] = "live" /\ q # qi
      BY <1>2
    <2> QED
      BY <1>1, <2>1, <2>2, <2>3, <2>4 DEF Queues!Undo, Queues!UndoNext, Queues!DestroyNext
  <1>5. Queues!WorksOnQueues'
    <2>1. works' <=> wmod' \notin {"unloaded", "gone"}
      BY <1>1 DEF Queues!IInv, Queues!WorksOnQueues, Queues!Undo, Queues!UndoNext, Queues!DestroyNext
    <2> QED
      BY <1>2, <2>1 DEF Queues!WorksOnQueues
  <1> QED
    BY <1>3, <1>4, <1>5 DEF Queues!IInv

(* The module is gone: no queue was live, so no work is.                   *)
LEMMA QueuesGoneStep ==
  ASSUME Queues!IInv, Queues!Gone
  PROVE  Queues!IInv'
  <1>1. /\ wmod = "gone" /\ wmod' = "unloaded" /\ qi' = 1 /\ run' = TRUE /\ works' = FALSE
        /\ queues' = [q \in Queues!Queues |-> IF queues[q] = "destroyed" THEN "none" ELSE queues[q]]
        /\ work' = [w \in Queues!Works |-> IF Queues!Live(w) THEN work[w] ELSE "none"]
        /\ count' = [w \in Queues!Works |-> 0]
    BY DEF Queues!Gone
  <1>2. \A q \in Queues!Queues : queues[q] # "live"
    BY <1>1 DEF Queues!IInv, Queues!QueuesToI
  <1>3. \A w \in Queues!Works : ~Queues!Live(w)
    BY <1>2 DEF Queues!IInv, Queues!WorksOnQueues, Queues!Works
  <1>4. Queues!TypeOK'
    <2>1. 1 \in 1 .. nqueues + 1 /\ 0 \in 0 .. 5
      OBVIOUS
    <2> QED
      BY <1>1, <2>1 DEF Queues!IInv, Queues!TypeOK
  <1>5. Queues!QueuesToI'
    BY <1>1, <1>2 DEF Queues!QueuesToI
  <1>6. Queues!WorksOnQueues'
    BY <1>1, <1>3 DEF Queues!WorksOnQueues, Queues!Live
  <1> QED
    BY <1>4, <1>5, <1>6 DEF Queues!IInv

LEMMA QueuesStep == Queues!IInv /\ [Queues!Next]_Queues!vars => Queues!IInv'
  <1> SUFFICES ASSUME Queues!IInv, [Queues!Next]_Queues!vars PROVE Queues!IInv'
    OBVIOUS
  <1>1. CASE UNCHANGED Queues!vars
    BY <1>1 DEF Queues!vars, Queues!IInv, Queues!TypeOK, Queues!QueuesToI, Queues!WorksOnQueues,
                Queues!Live
  <1> QED
    BY <1>1, QueuesWorkStep, QueuesLoadStep, QueuesCreateStep, QueuesDestroyStep, QueuesGoneStep
       DEF Queues!Next, Queues!Module

LEMMA QueuesSafe == Queues!IInv => Queues!WorksOutliveWork /\ Queues!NoQueueLeft
  <1>1. Queues!IInv => Queues!WorksOutliveWork
    BY DEF Queues!IInv, Queues!WorksOutliveWork, Queues!WorksOnQueues, Queues!QueuesToI,
           Queues!Works
  <1>2. Queues!IInv => Queues!NoQueueLeft
    BY DEF Queues!IInv, Queues!NoQueueLeft, Queues!QueuesToI
  <1> QED
    BY <1>1, <1>2

-----------------------------------------------------------------------------
(* A timer or a work that arms itself.                                     *)

LEMMA ArmingInit == Arming!Init => Arming!IInv
  <1> SUFFICES ASSUME Arming!Init PROVE Arming!IInv
    OBVIOUS
  <1>1. armed \in BOOLEAN /\ running \in BOOLEAN /\ overtaken \in BOOLEAN
    BY DEF Arming!Init
  <1> QED
    BY <1>1 DEF Arming!Init, Arming!IInv, Arming!TypeOK, Arming!ByKind, Arming!AfterCancel,
                Arming!OneChain

LEMMA ArmingStep == Arming!IInv /\ [Arming!Next]_Arming!vars => Arming!IInv'
  <1> SUFFICES ASSUME Arming!IInv, [Arming!Next]_Arming!vars PROVE Arming!IInv'
    OBVIOUS
  <1> USE DEF Arming!IInv, Arming!TypeOK, Arming!ByKind, Arming!AfterCancel, Arming!OneChain
  <1>1. ASSUME NEW k \in {"timer", "work"}, Arming!Insmod(k) PROVE Arming!IInv'
    <2>1. armed' \in BOOLEAN /\ armed' = (k = "timer")
      BY <1>1 DEF Arming!Insmod, Arming!ArmFirst
    <2> QED
      BY <1>1, <2>1 DEF Arming!Insmod, Arming!ArmFirst
  <1>2. CASE Arming!Expire
    BY <1>2 DEF Arming!Expire
  <1>3. CASE Arming!Start
    BY <1>3 DEF Arming!Start
  <1>4. CASE Arming!Callback
    BY <1>4 DEF Arming!Callback, Arming!Rearm
  <1>5. CASE Arming!Cancel
    <2>1. overtaken' \in BOOLEAN /\ overtaken' = (running \/ queued = "work")
      BY <1>5 DEF Arming!Cancel
    <2> QED
      BY <1>5, <2>1 DEF Arming!Cancel, Arming!CancelPending
  <1>6. CASE Arming!Flush
    BY <1>6 DEF Arming!Flush
  <1>7. CASE Arming!Again
    BY <1>7 DEF Arming!Again
  <1>8. CASE UNCHANGED Arming!vars
    BY <1>8 DEF Arming!vars
  <1> QED
    BY <1>1, <1>2, <1>3, <1>4, <1>5, <1>6, <1>7, <1>8 DEF Arming!Next

LEMMA ArmingSafe == Arming!IInv => Arming!OneChain /\ Arming!LeftIfOvertaken
  BY DEF Arming!IInv, Arming!AfterCancel, Arming!LeftIfOvertaken

-----------------------------------------------------------------------------
(* Poll: the thread never takes back what it announced.                    *)

LEMMA PollInit == Poll!Init => Poll!IInv
  BY DEF Poll!Init, Poll!IInv, Poll!TypeOK, Poll!OpenHoldsModule, Poll!ReadKnowsEmpty,
         Poll!PollinMeansData

(* A program that goes elsewhere, with n and drained of nobody else less.  *)
LEMMA PollGoto ==
  ASSUME Poll!IInv, NEW r \in Readers,
         NEW where \in {"closed", "poll", "test", "asleep", "read", "drain"},
         Poll!Goto(r, where)
  PROVE  /\ reader' \in [Readers -> {"closed", "poll", "test", "asleep", "read", "drain"}]
         /\ reader'[r] = where /\ \A s \in Readers \ {r} : reader'[s] = reader[s]
  BY DEF Poll!Goto, Poll!IInv, Poll!TypeOK

LEMMA PollProgram ==
  ASSUME Poll!IInv, NEW r \in Readers, Poll!Open(r) \/ Poll!Program(r) \/ Poll!Kill(r)
  PROVE  Poll!IInv'
  <1> USE DEF Poll!IInv, Poll!TypeOK, Poll!OpenHoldsModule, Poll!ReadKnowsEmpty,
              Poll!PollinMeansData
  <1>1. CASE Poll!Open(r)
    <2>1. Poll!Goto(r, "poll")
      BY <1>1 DEF Poll!Open
    <2> QED
      BY <1>1, <2>1, PollGoto DEF Poll!Open
  <1>2. CASE Poll!PollWait(r)
    <2>1. Poll!Goto(r, "test")
      BY <1>2 DEF Poll!PollWait
    <2> QED
      BY <1>2, <2>1, PollGoto DEF Poll!PollWait
  <1>3. CASE Poll!Poll(r)
    <2>1. CASE readbuflen > 0 /\ ~ret0
      <3>1. /\ Poll!Goto(r, "read") /\ drained' = drained \ {r} /\ readbuflen' # 0
            /\ UNCHANGED <<filler, readbuflen, n>>
        BY <1>3, <2>1 DEF Poll!Poll
      <3> QED
        BY <1>3, <3>1, PollGoto DEF Poll!Poll
    <2>2. CASE ~(readbuflen > 0 /\ ~ret0)
      <3>1. PICK to \in {"asleep", "poll"} :
              Poll!Goto(r, to) /\ UNCHANGED <<filler, readbuflen, n, drained>>
        BY <1>3, <2>2 DEF Poll!Poll
      <3> QED
        BY <1>3, <3>1, PollGoto DEF Poll!Poll
    <2> QED
      BY <2>1, <2>2
  <1>4. CASE Poll!Copy(r)
    <2>1. Poll!Goto(r, "drain")
      BY <1>4 DEF Poll!Copy
    <2> QED
      BY <1>4, <2>1, PollGoto DEF Poll!Copy
  <1>5. CASE Poll!Drain(r)
    <2>1. Poll!Goto(r, "poll")
      BY <1>5 DEF Poll!Drain
    <2>2. \A s \in Readers \ {r} : reader[s] = "read" \/ s \in drained => s \in drained'
      BY <1>5 DEF Poll!Drain
    <2> QED
      BY <1>5, <2>1, <2>2, PollGoto DEF Poll!Drain
  <1>6. CASE Poll!Kill(r)
    <2>1. Poll!Goto(r, "closed")
      BY <1>6 DEF Poll!Kill
    <2> QED
      BY <1>6, <2>1, PollGoto DEF Poll!Kill
  <1> QED
    BY <1>1, <1>2, <1>3, <1>4, <1>5, <1>6 DEF Poll!Program

LEMMA PollStep == Poll!IInv /\ [Poll!Next]_Poll!vars => Poll!IInv'
  <1> SUFFICES ASSUME Poll!IInv, [Poll!Next]_Poll!vars PROVE Poll!IInv'
    OBVIOUS
  <1> USE DEF Poll!IInv, Poll!TypeOK, Poll!OpenHoldsModule, Poll!ReadKnowsEmpty,
              Poll!PollinMeansData
  <1>1. ASSUME NEW zero \in BOOLEAN, Poll!Insmod(zero) \/ Poll!SetRet0(zero) PROVE Poll!IInv'
    BY <1>1 DEF Poll!Insmod, Poll!SetRet0
  <1>2. CASE Poll!Update
    BY <1>2 DEF Poll!Update, Poll!Fill
  <1>3. CASE Poll!WakeUp
    <2>1. \A r \in Readers : reader[r] \in {"read", "drain"} \/ reader'[r] \in {"read", "drain"}
            => reader'[r] = reader[r]
      BY <1>3 DEF Poll!WakeUp, Poll!WakePollers
    <2>2. /\ reader' \in [Readers -> {"closed", "poll", "test", "asleep", "read", "drain"}]
          /\ filler' = "test" /\ UNCHANGED <<readbuflen, n, drained>>
      BY <1>3 DEF Poll!WakeUp, Poll!WakePollers
    <2> QED
      BY <2>1, <2>2
  <1>4. CASE Poll!Rmmod
    BY <1>4 DEF Poll!Rmmod
  <1>5. CASE UNCHANGED Poll!vars
    BY <1>5 DEF Poll!vars
  <1> QED
    BY <1>1, <1>2, <1>3, <1>4, <1>5, PollProgram DEF Poll!Next

LEMMA PollSafe == Poll!IInv => Poll!PollinMeansData
  BY DEF Poll!IInv

-----------------------------------------------------------------------------
(* The edu device: an acknowledgement swallows what the handler read only. *)

LEMMA EduInit == Edu!Init => Edu!IInv
  <1> SUFFICES ASSUME Edu!Init PROVE Edu!IInv
    OBVIOUS
  <1>1. dma \in BOOLEAN
    BY DEF Edu!Init
  <1> QED
    BY <1>1 DEF Edu!Init, Edu!IInv, Edu!TypeOK, Edu!HandlerKnows

(* Bits that rise while a handler runs are none that it has read.          *)
LEMMA EduRise ==
  ASSUME Edu!IInv, NEW bits \in SUBSET (Bits \cup {Edu!DmaBit}), Edu!Rise(bits),
         UNCHANGED <<handler, irq_status>>
  PROVE  Edu!HandlerKnows' /\ status' \subseteq Bits \cup {Edu!DmaBit}
  BY DEF Edu!Rise, Edu!IInv, Edu!TypeOK, Edu!HandlerKnows

(* The driver comes and goes.                                              *)
LEMMA EduDriver ==
  ASSUME Edu!IInv,
         \/ Edu!Probe \/ Edu!TakeFails \/ Edu!Probed \/ Edu!Remove \/ Edu!Oops
         \/ \E r \in DOMAIN Edu!Needs : Edu!Take(r)
  PROVE  Edu!IInv'
  <1> USE DEF Edu!IInv, Edu!TypeOK, Edu!HandlerKnows
  <1>1. DOMAIN Edu!Needs = {"chrdev", "enabled", "region", "irq"}
    BY DEF Edu!Needs
  <1>2. ASSUME NEW r \in DOMAIN Edu!Needs, Edu!Take(r) PROVE Edu!IInv'
    <2>1. held' \subseteq {"chrdev", "enabled", "region", "mmio", "irq"}
      BY <1>1, <1>2 DEF Edu!Take
    <2> QED
      BY <1>2, <2>1 DEF Edu!Take
  <1>3. CASE Edu!Probed
    <2>1. dma' \in BOOLEAN
      BY <1>3 DEF Edu!Probed
    <2> QED
      BY <1>3, <2>1 DEF Edu!Probed
  <1>4. CASE Edu!Oops
    <2>1. dma' \in BOOLEAN
      BY <1>4 DEF Edu!Oops
    <2> QED
      BY <1>4, <2>1 DEF Edu!Oops
  <1> QED
    BY <1>2, <1>3, <1>4 DEF Edu!Probe, Edu!TakeFails, Edu!Remove

(* The device and the handler.                                             *)
LEMMA EduInterrupt ==
  ASSUME Edu!IInv, Edu!DmaDone \/ Edu!HandlerReads \/ Edu!HandlerAcks
  PROVE  Edu!IInv'
  <1> USE DEF Edu!IInv, Edu!TypeOK, Edu!HandlerKnows
  <1>1. CASE Edu!DmaDone
    <2>1. Edu!HandlerKnows' /\ status' \subseteq Bits \cup {Edu!DmaBit}
      BY <1>1, EduRise DEF Edu!DmaDone
    <2>2. dma' \in BOOLEAN
      BY <1>1 DEF Edu!DmaDone
    <2> QED
      BY <1>1, <2>1, <2>2 DEF Edu!DmaDone
  <1>2. CASE Edu!HandlerReads
    BY <1>2 DEF Edu!HandlerReads
  <1>3. CASE Edu!HandlerAcks
    BY <1>3 DEF Edu!HandlerAcks, Edu!Acked
  <1> QED
    BY <1>1, <1>2, <1>3

(* A program with the register file.                                       *)
LEMMA EduProgram ==
  ASSUME Edu!IInv,
         \/ Edu!Open \/ Edu!StartCat \/ Edu!Read \/ Edu!Close
         \/ \E to \in {Edu!IO_IRQ_STATUS, Edu!IO_IRQ_RAISE, Edu!IO_IRQ_ACK} : Edu!Llseek(to)
         \/ \E bits \in SUBSET Bits : Edu!Write(bits)
  PROVE  Edu!IInv'
  <1> USE DEF Edu!IInv, Edu!TypeOK, Edu!HandlerKnows
  <1>1. ASSUME NEW to \in {Edu!IO_IRQ_STATUS, Edu!IO_IRQ_RAISE, Edu!IO_IRQ_ACK}, Edu!Llseek(to)
        PROVE  Edu!IInv'
    BY <1>1 DEF Edu!Llseek, Edu!IO_IRQ_STATUS, Edu!IO_IRQ_RAISE, Edu!IO_IRQ_ACK
  <1>2. ASSUME NEW bits \in SUBSET Bits, Edu!Write(bits) PROVE Edu!IInv'
    <2>1. /\ UNCHANGED <<driver, held, dma, handler, irq_status, off, cat>>
          /\ \/ Edu!Rise(bits)
             \/ status' = status \ bits /\ unseen' = unseen \ bits
             \/ UNCHANGED <<status, unseen>>
      BY <1>2 DEF Edu!Write, Edu!IO_IRQ_RAISE, Edu!IO_IRQ_ACK
    <2>2. Edu!HandlerKnows' /\ status' \subseteq Bits \cup {Edu!DmaBit}
      BY <2>1, EduRise
    <2> QED
      BY <2>1, <2>2
  <1>3. CASE Edu!Read
    BY <1>3 DEF Edu!Read, Edu!Advance
  <1>4. CASE Edu!Open
    BY <1>4 DEF Edu!Open
  <1>5. CASE Edu!StartCat
    BY <1>5 DEF Edu!StartCat
  <1>6. CASE Edu!Close
    BY <1>6 DEF Edu!Close
  <1> QED
    BY <1>1, <1>2, <1>3, <1>4, <1>5, <1>6

LEMMA EduStep == Edu!IInv /\ [Edu!Next]_Edu!vars => Edu!IInv'
  <1> SUFFICES ASSUME Edu!IInv, [Edu!Next]_Edu!vars PROVE Edu!IInv'
    OBVIOUS
  <1>1. CASE UNCHANGED Edu!vars
    BY <1>1 DEF Edu!vars, Edu!IInv, Edu!TypeOK, Edu!HandlerKnows
  <1> QED
    BY <1>1, EduDriver, EduInterrupt, EduProgram DEF Edu!Next

LEMMA EduSafe == Edu!IInv => Edu!NoLostInterrupt
  BY DEF Edu!IInv, Edu!HandlerKnows, Edu!NoLostInterrupt

-----------------------------------------------------------------------------
(* fops.c: no call touches anything but the buffer.                        *)

LEMMA MinOfTwo ==
  ASSUME NEW a \in Int, NEW b \in Int
  PROVE  Fops!Min({a, b}) \in {a, b} /\ Fops!Min({a, b}) <= a /\ Fops!Min({a, b}) <= b
  <1>1. \E x \in {a, b} : \A y \in {a, b} : x <= y
    OBVIOUS
  <1> QED
    BY <1>1 DEF Fops!Min

LEMMA FopsInit == Fops!Init => Fops!IInv
  BY DEF Fops!Init, Fops!IInv, Fops!TypeOK, Fops!OpenHasPosition, Fops!InsideBuffer, Fops!None

(* A call that returns an error, nothing, or the number of bytes copied,   *)
(* which are there behind the position.                                    *)
LEMMA FopsReturn ==
  ASSUME Fops!IInv, NEW u \in Users, program[u] # "none", NEW r \in Int,
         r > 0 => f_pos[u] + r <= BUFLEN, Fops!Return(u, r)
  PROVE  /\ ret' = [ret EXCEPT ![u] = r] /\ ret' \in [Users -> Int]
         /\ f_pos' \in [Users -> Int] /\ \A v \in Users : f_pos'[v] >= f_pos[v]
         /\ copied' \subseteq 0 .. BUFLEN - 1
  <1> USE DEF Fops!IInv, Fops!TypeOK
  <1>1. f_pos[u] \in Int /\ f_pos[u] >= 0
    BY DEF Fops!OpenHasPosition
  <1>2. ret' = [ret EXCEPT ![u] = r] /\ ret' \in [Users -> Int]
    BY DEF Fops!Return
  <1>3. f_pos' \in [Users -> Int] /\ \A v \in Users : f_pos'[v] >= f_pos[v]
    BY DEF Fops!Return
  <1>4. r > 0 => f_pos[u] .. f_pos[u] + r - 1 \subseteq 0 .. BUFLEN - 1
    <2>1. ASSUME r > 0, NEW i \in f_pos[u] .. f_pos[u] + r - 1 PROVE i \in 0 .. BUFLEN - 1
      BY <1>1, <2>1
    <2> QED
      BY <2>1
  <1>5. copied' \subseteq 0 .. BUFLEN - 1
    BY <1>4 DEF Fops!Return, Fops!InsideBuffer
  <1> QED
    BY <1>2, <1>3, <1>5

LEMMA FopsRead ==
  ASSUME Fops!IInv, NEW u \in Users, NEW len \in 1 .. MaxLen, Fops!Read(u, len)
  PROVE  Fops!IInv'
  <1> USE DEF Fops!IInv, Fops!TypeOK
  <1>1. program[u] = "cat" /\ f_pos[u] \in Int /\ UNCHANGED <<program, left>>
    BY DEF Fops!Read
  <1>2. PICK r \in Int : (r > 0 => f_pos[u] + r <= BUFLEN) /\ Fops!Return(u, r)
    <2>1. CASE BUFLEN <= f_pos[u]
      BY <2>1 DEF Fops!Read
    <2>2. CASE ~(BUFLEN <= f_pos[u])
      <3>1. PICK r \in {Fops!Available(u, len), Fops!EFAULT} : Fops!Return(u, r)
        BY <2>2 DEF Fops!Read
      <3>2. /\ Fops!Available(u, len) \in Int
            /\ Fops!Available(u, len) <= BUFLEN - f_pos[u]
        <4>1. len \in Int /\ BUFLEN - f_pos[u] \in Int
          BY <1>1
        <4>2. Fops!Min({len, BUFLEN - f_pos[u]}) \in {len, BUFLEN - f_pos[u]}
          BY ONLY <4>1, MinOfTwo
        <4>3. Fops!Min({len, BUFLEN - f_pos[u]}) <= BUFLEN - f_pos[u]
          BY ONLY <4>1, MinOfTwo
        <4> QED
          BY <4>1, <4>2, <4>3 DEF Fops!Available
      <3>3. Fops!EFAULT \in Int /\ ~(Fops!EFAULT > 0)
        BY DEF Fops!EFAULT
      <3> QED
        BY <1>1, <3>1, <3>2, <3>3
    <2> QED
      BY <2>1, <2>2
  <1>3. /\ ret' \in [Users -> Int] /\ f_pos' \in [Users -> Int]
        /\ \A v \in Users : f_pos'[v] >= f_pos[v]
        /\ copied' \subseteq 0 .. BUFLEN - 1
    BY <1>1, <1>2, FopsReturn
  <1> QED
    BY <1>1, <1>3 DEF Fops!OpenHasPosition, Fops!InsideBuffer

LEMMA FopsWrite ==
  ASSUME Fops!IInv, NEW u \in Users, Fops!Write(u)
  PROVE  Fops!IInv'
  <1> USE DEF Fops!IInv, Fops!TypeOK
  <1>1. /\ program[u] # "none" /\ f_pos[u] \in Int /\ left[u] \in Nat /\ left[u] > 0
        /\ UNCHANGED program
    BY DEF Fops!Write
  <1>2. PICK r \in Int : /\ r > 0 => f_pos[u] + r <= BUFLEN /\ r <= left[u]
                         /\ Fops!Return(u, r)
    <2>1. CASE BUFLEN <= f_pos[u]
      BY <2>1 DEF Fops!Write
    <2>2. CASE ~(BUFLEN <= f_pos[u])
      <3>1. PICK r \in Fops!TooLong(u, left[u]) : Fops!Return(u, r)
        BY <2>2 DEF Fops!Write
      <3>2. r \in Int /\ (r > 0 => f_pos[u] + r <= BUFLEN /\ r <= left[u])
        BY <1>1 DEF Fops!TooLong, Fops!ENOSPC, Fops!EFAULT
      <3> QED
        BY <3>1, <3>2
    <2> QED
      BY <2>1, <2>2
  <1>3. /\ ret' = [ret EXCEPT ![u] = r]
        /\ ret' \in [Users -> Int] /\ f_pos' \in [Users -> Int]
        /\ \A v \in Users : f_pos'[v] >= f_pos[v]
        /\ copied' \subseteq 0 .. BUFLEN - 1
    BY <1>1, <1>2, FopsReturn
  <1>4. left' \in [Users -> Nat]
    <2>1. left' = [left EXCEPT ![u] = IF r > 0 THEN left[u] - r ELSE left[u]]
      BY <1>3 DEF Fops!Write
    <2> QED
      BY <1>1, <1>2, <2>1
  <1>5. Fops!OpenHasPosition'
    <2> SUFFICES ASSUME NEW v \in Users, program'[v] # "none" PROVE f_pos'[v] >= 0
      BY DEF Fops!OpenHasPosition
    <2>1. f_pos[v] \in Int /\ f_pos'[v] \in Int /\ f_pos[v] >= 0 /\ f_pos'[v] >= f_pos[v]
      BY <1>1, <1>3 DEF Fops!OpenHasPosition
    <2> QED
      BY ONLY <2>1
  <1> QED
    BY <1>1, <1>3, <1>4, <1>5 DEF Fops!InsideBuffer

LEMMA FopsSeek ==
  ASSUME Fops!IInv, NEW u \in Users, NEW at \in Fops!Seeks, NEW whence \in {"SET", "CUR", "END"},
         Fops!Seek(u, at, whence)
  PROVE  Fops!IInv'
  <1> USE DEF Fops!IInv, Fops!TypeOK
  <1>1. Fops!NewPos(u, at, whence) \in Int
    BY DEF Fops!NewPos, Fops!Seeks
  <1>2. CASE Fops!NewPos(u, at, whence) < 0
    BY <1>2 DEF Fops!Seek, Fops!OpenHasPosition, Fops!InsideBuffer
  <1>3. CASE Fops!NewPos(u, at, whence) >= 0
    <2>1. /\ f_pos' = [f_pos EXCEPT ![u] = Fops!NewPos(u, at, whence)]
          /\ program' \in {program, [program EXCEPT ![u] = "lost"]}
          /\ program[u] # "none" /\ UNCHANGED <<left, ret, copied>>
      BY <1>1, <1>3 DEF Fops!Seek
    <2> QED
      BY <1>1, <1>3, <2>1 DEF Fops!OpenHasPosition, Fops!InsideBuffer
  <1> QED
    BY <1>1, <1>2, <1>3

LEMMA FopsStep == Fops!IInv /\ [Fops!Next]_Fops!fopsvars => Fops!IInv'
  <1> SUFFICES ASSUME Fops!IInv, [Fops!Next]_Fops!fopsvars PROVE Fops!IInv'
    OBVIOUS
  <1> USE DEF Fops!IInv, Fops!TypeOK, Fops!OpenHasPosition, Fops!InsideBuffer
  <1>1. ASSUME NEW u \in Users, NEW p \in {"cat", "printf"}, NEW m \in Nat, Fops!Start(u, p, m)
        PROVE  Fops!IInv'
    BY <1>1 DEF Fops!Start, Fops!None
  <1>2. ASSUME NEW u \in Users, Fops!Close(u) \/ Fops!Kill(u) PROVE Fops!IInv'
    <2>1. Fops!End(u) /\ UNCHANGED copied
      BY <1>2 DEF Fops!Close, Fops!Kill
    <2> QED
      BY <2>1 DEF Fops!End, Fops!None
  <1>3. CASE UNCHANGED Fops!fopsvars
    BY <1>3 DEF Fops!fopsvars
  <1>4. ASSUME NEW u \in Users, \E m \in 1 .. MaxLen : Fops!Start(u, "printf", m)
        PROVE  Fops!IInv'
    BY <1>1, <1>4
  <1> QED
    BY <1>1, <1>2, <1>3, <1>4, FopsRead, FopsWrite, FopsSeek DEF Fops!Next, Fops!Program

LEMMA FopsSafe == Fops!IInv => Fops!InsideBuffer
  BY DEF Fops!IInv

-----------------------------------------------------------------------------
(* The parts together: a step of one leaves the variables of the others as *)
(* they are, and the fairness of each is asked of all.                     *)

LEMMA ThreadsParts ==
  ThreadsSpec =>
    /\ Spec /\ Queues!Spec /\ Arming!Spec /\ Poll!Spec /\ Rcu!Spec /\ Edu!Spec /\ Fops!Spec
  <1>1. ThreadsInit =>
          /\ Init /\ Queues!Init /\ Arming!Init /\ Poll!Init /\ Rcu!Init /\ Edu!Init
          /\ Fops!Init
    BY DEF ThreadsInit
  <1>2. [ThreadsNext]_ThreadsVars =>
          /\ [Next]_vars /\ [Queues!Next]_Queues!vars /\ [Arming!Next]_Arming!vars
          /\ [Poll!Next]_Poll!vars /\ [Rcu!Next]_Rcu!vars /\ [Edu!Next]_Edu!vars
          /\ [Fops!Next]_Fops!fopsvars
    BY DEF ThreadsNext, ThreadsVars, Only, workqueue, selfarm, poll, rcu, edu, fops,
           Queues!vars, Arming!vars, Poll!vars, Rcu!vars, Edu!vars, Fops!fopsvars
  <1> QED
    BY <1>1, <1>2, PTL
       DEF ThreadsSpec, Spec, Queues!Spec, Arming!Spec, Poll!Spec, Rcu!Spec, Edu!Spec, Fops!Spec

LEMMA QueuesInvariant == Queues!Spec => []Queues!IInv
  BY QueuesInit, QueuesStep, PTL DEF Queues!Spec

LEMMA ArmingInvariant == Arming!Spec => []Arming!IInv
  BY ArmingInit, ArmingStep, PTL DEF Arming!Spec

LEMMA PollInvariant == Poll!Spec => []Poll!IInv
  BY PollInit, PollStep, PTL DEF Poll!Spec

LEMMA EduInvariant == Edu!Spec => []Edu!IInv
  BY EduInit, EduStep, PTL DEF Edu!Spec

LEMMA FopsInvariant == Fops!Spec => []Fops!IInv
  BY FopsInit, FopsStep, PTL DEF Fops!Spec

(* The variables of the module sync.c have their types, whatever the       *)
(* threads, the iterations and the order of the steps (sync.c:19-38).      *)
THEOREM TypeCorrect == ThreadsSpec => []TypeOK
  <1>1. IInv => TypeOK
    BY DEF IInv
  <1> QED
    BY <1>1, ThreadsParts, SyncInvariant, PTL

(* Whatever the order of the threads, a synchronized counter has reached   *)
(* threads * iterations when insmod prints it (sync.c:205-222).            *)
THEOREM CounterIsReached == ThreadsSpec => []CounterReached
  <1>1. IInv => CounterReached
    BY AllAdded DEF IInv, Counted, CounterReached
  <1> QED
    BY <1>1, ThreadsParts, SyncInvariant, PTL

(* In a mode that synchronizes, no step loses an addition or makes one     *)
(* twice (bump_counter, sync.c:96-118).                                    *)
THEOREM NoUpdateIsLost == ThreadsSpec => NoLostUpdate
  <1>1. ASSUME IInv, Next, selected_mode # "none", insmod # "unloaded", insmod' # "unloaded"
        PROVE  counter' \in {counter, counter + 1}
    <2> USE <1>1 DEF IInv, TypeOK
    <2>1. ASSUME NEW w \in Ids, Work(w) PROVE counter' \in {counter, counter + 1}
      <3>1. ASSUME Store(w) PROVE loaded[w] = counter
        BY <3>1 DEF Store, Exclusion, Locked, Critical, Modes
      <3> QED
        BY <2>1, <3>1 DEF Work, Begin, Released, Loop, AtomicInc, Enter, Load, Store,
                          Unlock, Leave
    <2> QED
      BY <2>1 DEF Next, Refuse, StartFails, Unload, InitSteps, StartWorker, StartAll,
                  StopWorker, Joined, AllDone, Insmod, wvars
  <1>2. IInv /\ [Next]_vars =>
          [selected_mode # "none" /\ insmod # "unloaded" /\ insmod' # "unloaded"
             => counter' \in {counter, counter + 1}]_vars
    BY <1>1
  <1> QED
    BY <1>2, ThreadsParts, SyncInvariant, PTL DEF Spec, NoLostUpdate

(* However many works there are and whichever queue cannot be made, the    *)
(* memory of the works is there as long as one is queued or runs, and a    *)
(* queue that was made is destroyed (myinit and myexit of                  *)
(* workqueue_cheat.c); a callback of timer.c or work_from_work.c is never  *)
(* there twice, and is left after rmmod only where the cancel met it       *)
(* running or, the first work, still queued.                               *)
THEOREM ThreadsWorkEnds == ThreadsSpec => []WorkEndsWithModule
  <1>1. Queues!IInv /\ Arming!IInv => WorkEndsWithModule
    BY QueuesSafe, ArmingSafe DEF WorkEndsWithModule
  <1> QED
    BY <1>1, ThreadsParts, QueuesInvariant, ArmingInvariant, PTL

(* What poll announced is there for any number of readers but one that     *)
(* another overtook; the edu device keeps every bit that its handler has   *)
(* not read, whatever bits rise meanwhile; and no program brings fops.c    *)
(* outside its buffer, of any length, with seeks, reads and writes of any  *)
(* length.                                                                 *)
THEOREM ThreadsNothingLost == ThreadsSpec => []NothingLostOrOutside
  <1>1. Poll!IInv /\ Edu!IInv /\ Fops!IInv => NothingLostOrOutside
    BY PollSafe, EduSafe, FopsSafe DEF NothingLostOrOutside
  <1> QED
    BY <1>1, ThreadsParts, PollInvariant, EduInvariant, FopsInvariant, PTL

(* On a machine of any CPUs, with any of them online and whatever the      *)
(* parameters say, the updater of rcu_stall.c is bound to a CPU online     *)
(* that the reader does not occupy, if there is one.                       *)
THEOREM UpdaterRunsElsewhere == ThreadsSpec => []Rcu!UpdaterElsewhere
  <1>1. Rcu!Init => Rcu!UpdaterElsewhere
    BY DEF Rcu!Init, Rcu!UpdaterElsewhere
  <1>2. Rcu!UpdaterElsewhere /\ [Rcu!Next]_Rcu!vars => Rcu!UpdaterElsewhere'
    <2> SUFFICES ASSUME Rcu!UpdaterElsewhere, [Rcu!Next]_Rcu!vars
                 PROVE  Rcu!UpdaterElsewhere'
      OBVIOUS
    <2> USE DEF Rcu!UpdaterElsewhere
    <2>1. ASSUME NEW r \in Rcu!Params, NEW u \in Rcu!Params, Rcu!Insmod(r, u)
          PROVE  Rcu!UpdaterElsewhere'
      BY <2>1 DEF Rcu!Insmod, Rcu!ChooseCpu, Rcu!Valid
    <2>2. ASSUME NEW cs \in SUBSET Cpus, Rcu!Hotplug(cs) PROVE Rcu!UpdaterElsewhere'
      BY <2>2 DEF Rcu!Hotplug
    <2>3. CASE Rcu!StartUpdater \/ Rcu!Rmmod \/ Rcu!Exit
      BY <2>3 DEF Rcu!StartUpdater, Rcu!Rmmod, Rcu!Exit, Rcu!Undone, Rcu!Second, Rcu!Unloaded
    <2>4. CASE Rcu!Reader \/ Rcu!Updater \/ UNCHANGED Rcu!vars
      BY <2>4 DEF Rcu!Reader, Rcu!ReaderBegins, Rcu!ReaderLocks, Rcu!ReaderUnlocks,
                  Rcu!RestOfReader, Rcu!Updater, Rcu!vars
    <2> QED
      BY <2>1, <2>2, <2>3, <2>4 DEF Rcu!Next
  <1> QED
    BY <1>1, <1>2, ThreadsParts, PTL DEF Rcu!Spec
=============================================================================
