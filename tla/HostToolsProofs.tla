--------------------------- MODULE HostToolsProofs --------------------------
(***************************************************************************)
(* Proofs about the Python programs of the host.  First the pool, for any  *)
(* number of workers and any inputs: IInv of ThreadPool is inductive, and  *)
(* each of its steps is one of WorkPool.  Then the scripts on a pool that  *)
(* keeps its promise, for any number of rounds and of tests in a round:    *)
(* IInv of TestRunner.  Then ./build, for any components with any          *)
(* dependencies: IInv of BuildOrder.  Then cli_function.py, for any calls  *)
(* and configuration files: what a command line gives back, key by key.    *)
(* The last part joins them: the scripts on the real threads, with both    *)
(* invariants (ScriptsInv), do what TestRunner does, and a step of         *)
(* MCHostTools is one of one part.                                         *)
(***************************************************************************)
EXTENDS MCHostTools, FiniteSetTheorems, SequenceTheorems, TLAPS

Elements == Items \cup {None}

(* What in_queue looks like after a put.                                   *)
LEMMA PutQueue ==
  ASSUME NEW S, NEW q \in Seq(S), NEW x \in S
  PROVE  /\ Append(q, x) \in Seq(S)
         /\ DOMAIN q = 1..Len(q)
         /\ DOMAIN Append(q, x) = 1..(Len(q) + 1)
         /\ Len(q) \in Nat
         /\ \A k \in 1..Len(q) : Append(q, x)[k] = q[k]
         /\ Append(q, x)[Len(q) + 1] = x
  BY AppendProperties

(* What in_queue looks like after a get.                                   *)
LEMMA GetQueue ==
  ASSUME NEW S, NEW q \in Seq(S), q # <<>>
  PROVE  /\ Tail(q) \in Seq(S)
         /\ Head(q) \in S
         /\ DOMAIN q = 1..Len(q)
         /\ Len(q) \in Nat \ {0}
         /\ DOMAIN Tail(q) = 1..(Len(q) - 1)
         /\ Head(q) = q[1]
         /\ \A k \in 1..(Len(q) - 1) : Tail(q)[k] = q[k + 1]
  BY HeadTailProperties

LEMMA MaxsizeType == maxsize \in Nat
  BY FS_CardinalityType, WorkersAssumption DEF maxsize

LEMMA InitInv == Init => IInv
  <1> SUFFICES ASSUME Init PROVE IInv
    OBVIOUS
  <1>1. TypeOK
    BY MaxsizeType DEF Init, TypeOK
  <1>2. DOMAIN in_queue = {}
    BY DEF Init
  <1>3. Conservation
    BY <1>2 DEF Init, Conservation, Queued, Held
  <1>4. QueuedOnce /\ PoisonIsLast /\ PoisonMeansJoin
    BY <1>2 DEF Init, QueuedOnce, PoisonIsLast, PoisonMeansJoin
  <1>5. HeldOnce /\ WorkHasInput /\ ResultComing /\ LateOnce /\ Returned
    BY DEF Init, HeldOnce, WorkHasInput, ResultComing, LateOnce, Returned
  <1>6. QED
    BY <1>1, <1>3, <1>4, <1>5 DEF IInv

(* Steps of the caller that touch neither the queue nor the workers.       *)
LEMMA CallerStep ==
  ASSUME IInv, SubmitRead \/ JoinBegin \/ JoinReturn
  PROVE  IInv'
  <1> USE DEF IInv, SubmitRead, JoinBegin, JoinReturn, AfterRead, config, history
  <1>1. TypeOK'
    BY DEF TypeOK
  <1>2. Conservation' /\ QueuedOnce' /\ HeldOnce' /\ WorkHasInput' /\ PoisonIsLast'
    BY DEF Conservation, Queued, Held, QueuedOnce, HeldOnce, WorkHasInput, PoisonIsLast
  <1>3. PoisonMeansJoin'
    BY DEF PoisonMeansJoin
  <1>4. ResultComing' /\ Returned'
    BY DEF ResultComing, Returned, AllJoined
  <1>5. LateOnce'
    BY DEF LateOnce, TypeOK
  <1>6. QED
    BY <1>1, <1>2, <1>3, <1>4, <1>5

LEMMA SubmitPutStep ==
  ASSUME IInv, NEW i \in Items, SubmitPut(i)
  PROVE  IInv'
  <1> USE DEF IInv, SubmitPut, Enqueued, config, history
  <1>a. /\ in_queue \in Seq(Elements)
        /\ i \in Elements
        /\ in_queue' = Append(in_queue, i)
    BY DEF TypeOK, Elements
  <1>q. /\ in_queue' \in Seq(Elements)
        /\ DOMAIN in_queue = 1..Len(in_queue)
        /\ DOMAIN in_queue' = 1..(Len(in_queue) + 1)
        /\ Len(in_queue) \in Nat
        /\ \A k \in 1..Len(in_queue) : in_queue'[k] = in_queue[k]
        /\ in_queue'[Len(in_queue) + 1] = i
    BY <1>a, PutQueue
  <1>f. ~Queued(i) /\ ~Held(i) /\ handled[i] # 1
    BY DEF Conservation
  <1>g. /\ \A k \in DOMAIN in_queue : in_queue[k] # None
        /\ \A w \in Workers : pc[w] # "exited"
    BY DEF PoisonMeansJoin
  <1>1. TypeOK'
    BY <1>q DEF TypeOK, Elements
  <1>2. Conservation'
    <2>1. \A j \in Items : Queued(j)' <=> Queued(j) \/ j = i
      BY <1>q DEF Queued
    <2>2. \A j \in Items : Held(j)' <=> Held(j)
      BY DEF Held
    <2>3. QED
      BY <2>1, <2>2, <1>f DEF Conservation
  <1>3. QueuedOnce'
    BY <1>q, <1>f DEF QueuedOnce, Queued
  <1>4. HeldOnce' /\ WorkHasInput' /\ ResultComing' /\ Returned'
    BY DEF HeldOnce, WorkHasInput, ResultComing, Returned
  <1>5. PoisonIsLast' /\ PoisonMeansJoin'
    BY <1>q, <1>g, NoneAssumption DEF PoisonIsLast, PoisonMeansJoin
  <1>6. LateOnce'
    BY DEF LateOnce
  <1>7. QED
    BY <1>1, <1>2, <1>3, <1>4, <1>5, <1>6

LEMMA JoinPutStep ==
  ASSUME IInv, JoinPut
  PROVE  IInv'
  <1> USE DEF IInv, JoinPut, Enqueued, PoisonsToPut, config, history
  <1>a. /\ in_queue \in Seq(Elements)
        /\ None \in Elements
        /\ in_queue' = Append(in_queue, None)
    BY DEF TypeOK, Elements
  <1>q. /\ in_queue' \in Seq(Elements)
        /\ DOMAIN in_queue = 1..Len(in_queue)
        /\ DOMAIN in_queue' = 1..(Len(in_queue) + 1)
        /\ Len(in_queue) \in Nat
        /\ \A k \in 1..Len(in_queue) : in_queue'[k] = in_queue[k]
        /\ in_queue'[Len(in_queue) + 1] = None
    BY <1>a, PutQueue
  <1>1. TypeOK'
    BY <1>q, MaxsizeType DEF TypeOK, Elements
  <1>2. Conservation'
    <2>1. \A j \in Items : Queued(j)' <=> Queued(j)
      BY <1>q, NoneAssumption DEF Queued
    <2>2. \A j \in Items : Held(j)' <=> Held(j)
      BY DEF Held
    <2>3. QED
      BY <2>1, <2>2 DEF Conservation
  <1>3. QueuedOnce'
    BY <1>q DEF QueuedOnce
  <1>4. HeldOnce' /\ WorkHasInput' /\ ResultComing' /\ LateOnce' /\ Returned'
    BY DEF HeldOnce, WorkHasInput, ResultComing, LateOnce, Returned
  <1>5. PoisonIsLast' /\ PoisonMeansJoin'
    BY <1>q DEF PoisonIsLast, PoisonMeansJoin
  <1>6. QED
    BY <1>1, <1>2, <1>3, <1>4, <1>5

LEMMA GetStep ==
  ASSUME IInv, NEW w \in Workers, Get(w)
  PROVE  IInv'
  <1> DEFINE h == Head(in_queue)
  <1> USE DEF IInv, Get, Goto, Dequeued, config, history
  <1>a. in_queue \in Seq(Elements) /\ in_queue # <<>> /\ in_queue' = Tail(in_queue)
    BY DEF TypeOK, Elements
  <1>q. /\ in_queue' \in Seq(Elements)
        /\ h \in Elements
        /\ DOMAIN in_queue = 1..Len(in_queue)
        /\ Len(in_queue) \in Nat \ {0}
        /\ DOMAIN in_queue' = 1..(Len(in_queue) - 1)
        /\ h = in_queue[1]
        /\ \A k \in 1..(Len(in_queue) - 1) : in_queue'[k] = in_queue[k + 1]
    BY <1>a, GetQueue
  <1>p. /\ pc[w] = "get"
        /\ pc' = [pc EXCEPT ![w] = IF h = None THEN "exited" ELSE "work"]
        /\ input' = [input EXCEPT ![w] = h]
        /\ pc \in [Workers -> {"get", "work", "check", "lock", "store", "exited"}]
        /\ input \in [Workers -> Items \cup {None}]
    BY DEF TypeOK
  <1>1. TypeOK'
    BY <1>q, <1>p DEF TypeOK, Elements
  <1>2. \A j \in Items : Queued(j)' <=> Queued(j) /\ j # h
    <2>1. ASSUME NEW j \in Items, Queued(j)'
          PROVE  Queued(j) /\ j # h
      <3>1. PICK k \in DOMAIN in_queue' : in_queue'[k] = j
        BY <2>1 DEF Queued
      <3>2. k + 1 \in DOMAIN in_queue /\ in_queue[k + 1] = j /\ k + 1 # 1 /\ 1 \in DOMAIN in_queue
        BY <3>1, <1>q
      <3>3. QED
        BY <3>2, <1>q, NoneAssumption DEF QueuedOnce, Queued
    <2>2. ASSUME NEW j \in Items, Queued(j), j # h
          PROVE  Queued(j)'
      <3>1. PICK k \in DOMAIN in_queue : in_queue[k] = j
        BY <2>2 DEF Queued
      <3>2. k - 1 \in DOMAIN in_queue' /\ in_queue'[k - 1] = j
        BY <3>1, <2>2, <1>q
      <3>3. QED
        BY <3>2 DEF Queued
    <2>3. QED
      BY <2>1, <2>2
  <1>3. \A j \in Items : Held(j)' <=> Held(j) \/ j = h
    BY <1>p, <1>q, NoneAssumption DEF Held
  <1>4. h # None => Queued(h)
    BY <1>q DEF Queued
  <1>5. Conservation'
    <2> SUFFICES ASSUME NEW j \in Items
                 PROVE  /\ handled[j] <= 1
                        /\ j \in submitted <=> Queued(j)' \/ Held(j)' \/ handled[j] = 1
                        /\ ~(Queued(j)' /\ Held(j)')
                        /\ handled[j] = 1 => ~Queued(j)' /\ ~Held(j)'
      BY DEF Conservation
    <2>1. /\ Queued(j)' <=> Queued(j) /\ j # h
          /\ Held(j)' <=> Held(j) \/ j = h
          /\ j = h => Queued(j)
      BY <1>2, <1>3, <1>4, NoneAssumption
    <2>2. QED
      BY <2>1 DEF Conservation
  <1>6. QueuedOnce'
    BY <1>q DEF QueuedOnce
  <1>7. HeldOnce'
    <2>1. h # None => \A v \in Workers : pc[v] = "work" => input[v] # h
      BY <1>4, <1>q DEF Conservation, Held, Elements
    <2>2. QED
      BY <2>1, <1>p DEF HeldOnce
  <1>8. WorkHasInput'
    BY <1>p, <1>q DEF WorkHasInput, Elements
  <1>9. PoisonIsLast'
    <2>1. \A j, k \in DOMAIN in_queue' : j < k /\ in_queue'[j] = None => in_queue'[k] = None
      BY <1>q DEF PoisonIsLast
    <2>2. h = None => \A k \in DOMAIN in_queue' : in_queue'[k] = None
      BY <1>q DEF PoisonIsLast
    <2>3. (\E v \in Workers : pc[v] = "exited") => \A k \in DOMAIN in_queue' : in_queue'[k] = None
      BY <1>q DEF PoisonIsLast
    <2>4. QED
      BY <2>1, <2>2, <2>3, <1>p DEF PoisonIsLast
  <1>10. PoisonMeansJoin'
    BY <1>q, <1>p DEF PoisonMeansJoin
  <1>11. ResultComing'
    BY <1>p DEF ResultComing
  <1>12. LateOnce' /\ Returned'
    BY <1>p DEF LateOnce, Returned, AllJoined
  <1>13. QED
    BY <1>1, <1>5, <1>6, <1>7, <1>8, <1>9, <1>10, <1>11, <1>12

LEMMA WorkStep ==
  ASSUME IInv, NEW w \in Workers, NEW gaveResult \in BOOLEAN, Work(w, gaveResult)
  PROVE  IInv'
  <1> DEFINE i == input[w]
  <1> USE DEF IInv, Work, Goto, config, history
  <1>p. /\ pc[w] = "work"
        /\ i \in Items
        /\ pc' = [pc EXCEPT ![w] = IF gaveResult THEN "check" ELSE "get"]
        /\ pc \in [Workers -> {"get", "work", "check", "lock", "store", "exited"}]
        /\ handled \in [Items -> Nat]
        /\ handled' = [handled EXCEPT ![i] = @ + 1]
    BY DEF TypeOK, WorkHasInput
  <1>f. Held(i) /\ handled[i] = 0 /\ i \in submitted
    BY <1>p DEF Held, Conservation
  <1>1. TypeOK'
    BY <1>p DEF TypeOK
  <1>2. \A j \in Items : Held(j)' <=> Held(j) /\ j # i
    BY <1>p DEF Held, HeldOnce
  <1>3. \A j \in Items : Queued(j)' <=> Queued(j)
    BY DEF Queued
  <1>4. \A j \in Items : handled'[j] = IF j = i THEN 1 ELSE handled[j]
    BY <1>p, <1>f
  <1>5. Conservation'
    BY <1>2, <1>3, <1>4, <1>f DEF Conservation
  <1>6. QueuedOnce' /\ HeldOnce' /\ WorkHasInput' /\ PoisonIsLast' /\ PoisonMeansJoin'
    BY <1>p DEF QueuedOnce, HeldOnce, WorkHasInput, PoisonIsLast, PoisonMeansJoin
  <1>7. ResultComing'
    BY <1>p DEF ResultComing
  <1>8. LateOnce' /\ Returned'
    BY <1>p DEF LateOnce, Returned, AllJoined
  <1>9. QED
    BY <1>1, <1>5, <1>6, <1>7, <1>8

LEMMA ResultStep ==
  ASSUME IInv, NEW w \in Workers, Check(w) \/ Acquire(w) \/ Store(w)
  PROVE  IInv'
  <1> USE DEF IInv, Check, Acquire, Store, Goto, config, history
  <1>p. /\ pc[w] \in {"check", "lock", "store"}
        /\ input[w] \in Items
        /\ pc \in [Workers -> {"get", "work", "check", "lock", "store", "exited"}]
        /\ \E to \in {"lock", "store", "get"} : pc' = [pc EXCEPT ![w] = to]
        /\ UNCHANGED <<in_queue, input, caller, poisons, seen, submitted, handled, reports, late>>
    BY DEF TypeOK, WorkHasInput
  <1>1. TypeOK'
    BY <1>p DEF TypeOK
  <1>2. Conservation'
    <2>1. \A j \in Items : (Held(j)' <=> Held(j)) /\ (Queued(j)' <=> Queued(j))
      BY <1>p DEF Held, Queued
    <2>2. QED
      BY <2>1, <1>p DEF Conservation
  <1>3. QueuedOnce' /\ HeldOnce' /\ WorkHasInput' /\ PoisonIsLast' /\ PoisonMeansJoin'
    BY <1>p DEF QueuedOnce, HeldOnce, WorkHasInput, PoisonIsLast, PoisonMeansJoin
  <1>4. ResultComing'
    BY <1>p, NoneAssumption DEF ResultComing
  <1>5. LateOnce' /\ Returned'
    BY <1>p, NoneAssumption DEF LateOnce, Returned, AllJoined
  <1>6. QED
    BY <1>1, <1>2, <1>3, <1>4, <1>5

LEMMA StutterStep ==
  ASSUME IInv, UNCHANGED vars
  PROVE  IInv'
  BY DEF IInv, vars, config, history, TypeOK, Conservation, Queued, Held, QueuedOnce,
         HeldOnce, WorkHasInput, PoisonIsLast, PoisonMeansJoin, ResultComing, LateOnce,
         Returned, AllJoined

LEMMA NextInv == IInv /\ [Next]_vars => IInv'
  <1> SUFFICES ASSUME IInv, [Next]_vars PROVE IInv'
    OBVIOUS
  <1>1. CASE Submit
    BY <1>1, CallerStep, SubmitPutStep DEF Submit
  <1>2. CASE Join
    BY <1>2, CallerStep, JoinPutStep DEF Join
  <1>3. ASSUME NEW w \in Workers, Worker(w)
        PROVE  IInv'
    BY <1>3, GetStep, WorkStep, ResultStep DEF Worker
  <1>4. CASE Terminated \/ UNCHANGED vars
    BY <1>4, StutterStep DEF Terminated
  <1>5. QED
    BY <1>1, <1>2, <1>3, <1>4 DEF Next

(* A step of the threads, as WorkPool sees it: the put of submit accepts   *)
(* an item, the end of handle_output finishes it, the store under the lock *)
(* records a result, and the end of join() closes the pool, only when      *)
(* nothing is pending; all others stutter.                                 *)
LEMMA PoolStep == IInv /\ [Next]_vars => [Pool!Next]_(Pool!vars)
  <1> DEFINE Pending  == {i \in submitted : handled[i] = 0}
             Finished == {i \in submitted : handled[i] # 0}
             Phase    == CASE caller \in {"idle", "put"} -> "open"
                           [] caller = "join" -> "joining"
                           [] caller = "returned" -> "closed"
  <1>0. SUFFICES ASSUME IInv, [Next]_vars PROVE [Pool!Next]_(Pool!vars)
    OBVIOUS
  <1>t. /\ caller \in {"idle", "put", "join", "returned"}
        /\ handled \in [Items -> Nat]
        /\ submitted \subseteq Items
    BY <1>0 DEF IInv, TypeOK
  <1>s. ASSUME UNCHANGED <<submitted, handled, reports, handle_output_result>>,
               Phase' = Phase
        PROVE  UNCHANGED Pool!vars
    BY <1>s DEF Pool!vars
  <1>1. CASE SubmitRead \/ JoinBegin
    <2>1. UNCHANGED <<submitted, handled, reports, handle_output_result>>
      BY <1>1 DEF SubmitRead, JoinBegin, history
    <2>2. caller \in {"idle"} /\ caller' \in {"idle", "put", "join"}
      BY <1>1 DEF SubmitRead, JoinBegin, AfterRead
    <2>3. CASE caller' = "join"
      BY <2>1, <2>2, <2>3 DEF Pool!Next, Pool!BeginJoin
    <2>4. CASE caller' # "join"
      BY <2>1, <2>2, <2>4, <1>s
    <2>5. QED
      BY <2>3, <2>4
  <1>2. ASSUME NEW i \in Items, SubmitPut(i)
        PROVE  Pool!Accept(i)
    <2>1. /\ i \notin submitted
          /\ submitted' = submitted \cup {i}
          /\ UNCHANGED <<handled, reports, handle_output_result>>
          /\ caller = "put" /\ caller' = "idle"
      BY <1>2 DEF SubmitPut
    <2>2. handled[i] = 0
      BY <1>0, <1>t, <2>1 DEF IInv, Conservation
    <2>3. Pending' = Pending \cup {i} /\ Finished' = Finished /\ i \notin Pending \cup Finished
      BY <2>1, <2>2
    <2>4. QED
      BY <2>1, <2>3 DEF Pool!Accept
  <1>3. CASE JoinPut
    BY <1>3, <1>s DEF JoinPut, history
  <1>4. CASE JoinReturn
    <2>1. /\ caller = "join" /\ caller' = "returned"
          /\ \A w \in Workers : pc[w] = "exited"
          /\ UNCHANGED <<submitted, handled, reports, handle_output_result>>
      BY <1>4 DEF JoinReturn, AllJoined, history
    <2>2. \A i \in submitted : ~Held(i) /\ ~Queued(i)
      BY <1>0, <1>t, <2>1, WorkersAssumption, NoneAssumption
      DEF IInv, PoisonIsLast, Queued, Held
    <2>3. Pending = {}
      BY <1>0, <1>t, <2>2 DEF IInv, Conservation
    <2>4. reports # {} => handle_output_result # None
      BY <1>0, <2>1 DEF IInv, ResultComing
    <2>5. QED
      BY <2>1, <2>3, <2>4 DEF Pool!Close, Pool!Next
  <1>5. ASSUME NEW w \in Workers, Get(w) \/ Check(w) \/ Acquire(w)
        PROVE  UNCHANGED Pool!vars
    BY <1>5, <1>s DEF Get, Check, Acquire, history
  <1>6. ASSUME NEW w \in Workers, NEW gaveResult \in BOOLEAN, Work(w, gaveResult)
        PROVE  Pool!Finish(input[w], gaveResult) /\ input[w] \in Items
    <2> DEFINE i == input[w]
    <2>1. /\ pc[w] = "work"
          /\ i \in Items
          /\ handled' = [handled EXCEPT ![i] = @ + 1]
          /\ reports' = IF gaveResult THEN reports \cup {i} ELSE reports
          /\ UNCHANGED <<submitted, handle_output_result, caller>>
      BY <1>0, <1>6 DEF Work, Goto, IInv, WorkHasInput
    <2>2. i \in submitted /\ handled[i] = 0
      BY <1>0, <1>t, <2>1 DEF IInv, Conservation, Held
    <2>3. Pending' = Pending \ {i} /\ Finished' = Finished \cup {i} /\ i \in Pending
      BY <1>t, <2>1, <2>2
    <2>4. QED
      BY <2>1, <2>3 DEF Pool!Finish
  <1>7. ASSUME NEW w \in Workers, Store(w)
        PROVE  Pool!Record(input[w]) /\ input[w] \in Items
    <2>1. /\ pc[w] = "store" /\ input[w] \in reports /\ input[w] \in Items
          /\ caller # "returned"
          /\ handle_output_result' = input[w]
          /\ UNCHANGED <<submitted, handled, reports, caller>>
      BY <1>0, <1>7 DEF Store, Goto, history, IInv, WorkHasInput, ResultComing, Returned, AllJoined
    <2>2. Phase # "closed"
      BY <1>t, <2>1
    <2>3. QED
      BY <2>1, <2>2 DEF Pool!Record
  <1>8. CASE Terminated \/ UNCHANGED vars
    BY <1>8, <1>s DEF Terminated, vars, history
  <1>9. QED
    BY <1>0, <1>1, <1>2, <1>3, <1>4, <1>5, <1>6, <1>7, <1>8
    DEF Next, Submit, Join, Worker, Pool!Next

LEMMA PoolStarts == Init => Pool!Init
  BY DEF Init, Pool!Init

-----------------------------------------------------------------------------
(* The scripts: TypeOK in two, the caller, and the pool with the results.  *)
CallerTypes ==
  /\ main \in {"loop", "timed_main", "submit", "put", "leave", "join", "after", "summary",
               "returned", "raised"}
  /\ round \in 1 .. NRounds + 1 /\ test \in 1 .. NTests + 1
  /\ main \in {"timed_main", "submit", "put", "after"} => round \in Runner!Rounds
  /\ main = "put" => test \in 1 .. NTests
  /\ return_value \in {0, 1}

RaisingType == raising \in BOOLEAN

RequestTypes ==
  /\ script \in {"executables", "boot", "build"}
  /\ quit_on_fail \in BOOLEAN /\ all_archs \in BOOLEAN /\ all_emulators \in BOOLEAN
  /\ fit \in [Runner!Rounds -> {"yes", "not this arch", "not this emulator"}]

ResultTypes ==
  /\ test_results \in [passes : SUBSET Runner!Tests, fails : SUBSET Runner!Tests]
  /\ raised \in SUBSET Runner!Tests

PoolTypes ==
  /\ pending \in SUBSET Runner!Tests /\ finished \in SUBSET Runner!Tests
  /\ reports \in SUBSET finished
  /\ outcome \in reports \cup {None} /\ phase \in {"open", "joining", "closed"}

LEMMA RunnerAllTypes ==
  Runner!TypeOK <=> CallerTypes /\ RaisingType /\ RequestTypes /\ ResultTypes /\ PoolTypes
  BY DEF Runner!TypeOK, CallerTypes, RaisingType, RequestTypes, ResultTypes, PoolTypes

LEMMA RunnerAllTypesNext ==
  Runner!TypeOK' <=> CallerTypes' /\ RaisingType' /\ RequestTypes' /\ ResultTypes'
                     /\ PoolTypes'
  BY DEF Runner!TypeOK, CallerTypes, RaisingType, RequestTypes, ResultTypes, PoolTypes

LEMMA RunnerStarts == ASSUME Runner!Parameters, Runner!Init PROVE Runner!IInv
  <1>1. CallerTypes
    <2>1. main = "loop" /\ round = 1 /\ test = 1 /\ return_value = 0
      BY DEF Runner!Init
    <2>2. round \in 1 .. NRounds + 1 /\ test \in 1 .. NTests + 1
      BY <2>1 DEF Runner!Parameters
    <2> QED
      BY <2>1, <2>2 DEF CallerTypes
  <1>2. RequestTypes /\ RaisingType
    BY DEF Runner!Init, RequestTypes, RaisingType
  <1>3. ResultTypes /\ PoolTypes
    BY DEF Runner!Init, ResultTypes, PoolTypes
  <1>4. Runner!PoolFollowsMain /\ Runner!ClosedTells
    BY DEF Runner!Init, Runner!PoolFollowsMain, Runner!ClosedTells
  <1>5. Runner!FailureIsKept /\ Runner!ResultsAreKept /\ Runner!LastPoolFails
    BY DEF Runner!Init, Runner!FailureIsKept, Runner!ResultsAreKept, Runner!LastPoolFails,
           Runner!Failed
  <1> QED
    BY <1>1, <1>2, <1>3, <1>4, <1>5, RunnerAllTypes DEF Runner!IInv

-----------------------------------------------------------------------------
(* A test that has run, and one that is recorded.                          *)

LEMMA RunnerRunTestStep ==
  ASSUME Runner!Parameters, Runner!IInv, NEW i \in Runner!Tests, NEW how \in {"passes",
         "fails", "raised"},
         Runner!RunTest(i, how)
  PROVE  Runner!IInv'
  <1> USE DEF Runner!Parameters
  <1>1. /\ i \in pending /\ pending' = pending \ {i} /\ finished' = finished \cup {i}
        /\ reports' = IF how # "passes" THEN reports \cup {i} ELSE reports
        /\ raised' = IF how = "raised" THEN raised \cup {i} ELSE raised
        /\ UNCHANGED <<script, quit_on_fail, all_archs, all_emulators, fit>>
        /\ UNCHANGED <<main, round, test, raising, return_value>>
        /\ UNCHANGED <<outcome, phase>>
    BY DEF Runner!RunTest, Runner!Pool!Finish, Runner!request
  <1>2. /\ script = "build" => how # "fails"
        /\ IF script = "build" \/ how = "raised" THEN UNCHANGED test_results
           ELSE test_results' = [test_results EXCEPT ![how] = @ \cup {i}]
    BY DEF Runner!RunTest
  <1>3. CallerTypes /\ RaisingType /\ RequestTypes /\ ResultTypes /\ PoolTypes
    BY RunnerAllTypes DEF Runner!IInv
  <1>4. /\ test_results'.passes = IF how = "passes" /\ script # "build"
                                  THEN test_results.passes \cup {i} ELSE test_results.passes
        /\ test_results'.fails = IF how = "fails"
                                 THEN test_results.fails \cup {i} ELSE test_results.fails
        /\ test_results' \in [passes : SUBSET Runner!Tests, fails : SUBSET Runner!Tests]
    <2>1. PICK P \in SUBSET Runner!Tests, F \in SUBSET Runner!Tests :
            test_results = [passes |-> P, fails |-> F]
      BY <1>3 DEF ResultTypes
    <2>2. CASE script = "build" \/ how = "raised"
      BY <1>2, <1>3, <2>2 DEF ResultTypes
    <2>3. CASE script # "build" /\ how = "passes"
      <3>1. test_results' = [passes |-> P \cup {i}, fails |-> F]
        BY <1>2, <2>1, <2>3
      <3> QED
        BY <2>1, <2>3, <3>1
    <2>4. CASE script # "build" /\ how = "fails"
      <3>1. test_results' = [passes |-> P, fails |-> F \cup {i}]
        BY <1>2, <2>1, <2>4
      <3> QED
        BY <2>1, <2>4, <3>1
    <2> QED
      BY <2>2, <2>3, <2>4
  <1>5. Runner!TypeOK'
    <2>1. CallerTypes' /\ RaisingType' /\ RequestTypes'
      BY <1>1, <1>3 DEF CallerTypes, RaisingType, RequestTypes
    <2>2. ResultTypes'
      BY <1>1, <1>3, <1>4 DEF ResultTypes
    <2>3. PoolTypes'
      BY <1>1, <1>3 DEF PoolTypes
    <2> QED
      BY <2>1, <2>2, <2>3, RunnerAllTypesNext
  <1> DEFINE more == IF how = "passes" THEN {} ELSE {i}
  <1>6. Runner!Failed' = Runner!Failed \cup more /\ reports' = reports \cup more
    BY <1>1, <1>4 DEF Runner!Failed
  <1>7. phase # "closed"
    BY <1>1 DEF Runner!IInv, Runner!ClosedTells
  <1>8. main # "returned" /\ (script # "boot" => main \in {"submit", "put", "leave", "join"})
    BY <1>3, <1>7 DEF Runner!IInv, Runner!PoolFollowsMain, PoolTypes
  <1>9. Runner!PoolFollowsMain' /\ Runner!ClosedTells'
    BY <1>1, <1>7 DEF Runner!IInv, Runner!PoolFollowsMain, Runner!ClosedTells
  <1>10. Runner!FailureIsKept'
    BY <1>1, <1>6, <1>8 DEF Runner!IInv, Runner!FailureIsKept
  <1>11. Runner!ResultsAreKept'
    BY <1>1, <1>4, <1>6 DEF Runner!IInv, Runner!ResultsAreKept
  <1>12. Runner!LastPoolFails'
    <2>1. pending' \cup finished' = pending \cup finished
      BY <1>1
    <2> QED
      BY <1>1, <1>6, <1>8, <2>1 DEF Runner!IInv, Runner!LastPoolFails
  <1> QED
    BY <1>5, <1>9, <1>10, <1>11, <1>12 DEF Runner!IInv

LEMMA RunnerRecordStep ==
  ASSUME Runner!Parameters, Runner!IInv, NEW i \in Runner!Tests, Runner!Record(i)
  PROVE  Runner!IInv'
  <1>1. /\ phase # "closed" /\ i \in reports /\ outcome' = i
        /\ UNCHANGED <<script, quit_on_fail, all_archs, all_emulators, fit>>
        /\ UNCHANGED <<main, round, test, raising, return_value, test_results, raised>>
        /\ UNCHANGED <<pending, finished, reports, phase>>
    BY DEF Runner!Record, Runner!Pool!Record, Runner!request
  <1>2. Runner!TypeOK'
    BY <1>1, RunnerAllTypes, RunnerAllTypesNext
       DEF Runner!IInv, CallerTypes, RaisingType, RequestTypes, ResultTypes, PoolTypes
  <1>3. Runner!PoolFollowsMain' /\ Runner!ClosedTells'
    BY <1>1 DEF Runner!IInv, Runner!PoolFollowsMain, Runner!ClosedTells
  <1>4. Runner!Failed' = Runner!Failed
    BY <1>1 DEF Runner!Failed
  <1>5. Runner!FailureIsKept' /\ Runner!ResultsAreKept' /\ Runner!LastPoolFails'
    BY <1>1, <1>4 DEF Runner!IInv, Runner!FailureIsKept, Runner!ResultsAreKept,
                      Runner!LastPoolFails
  <1> QED
    BY <1>2, <1>3, <1>5 DEF Runner!IInv

-----------------------------------------------------------------------------
(* The caller without the pool.                                            *)

LEMMA RunnerMoveStep ==
  ASSUME Runner!Parameters, Runner!IInv,
         Runner!Loop \/ Runner!Submit \/ Runner!WalkRaises \/ Runner!LoopDone
         \/ Runner!After \/ Runner!Teardown \/ Runner!Summary
  PROVE  Runner!IInv'
  <1> USE DEF Runner!Parameters
  <1>1. CallerTypes /\ RaisingType /\ RequestTypes /\ ResultTypes /\ PoolTypes
    BY RunnerAllTypes DEF Runner!IInv
  <1>2. /\ UNCHANGED <<script, quit_on_fail, all_archs, all_emulators, fit>>
        /\ UNCHANGED <<test_results, raised>>
        /\ UNCHANGED <<pending, finished, reports, outcome, phase>>
    BY DEF Runner!Loop, Runner!Submit, Runner!WalkRaises, Runner!LoopDone, Runner!After,
           Runner!Teardown, Runner!Summary, Runner!request, Runner!pool
  <1>3. RequestTypes' /\ ResultTypes' /\ PoolTypes'
    BY <1>1, <1>2 DEF RequestTypes, ResultTypes, PoolTypes
  <1>7. RaisingType'
    BY <1>1 DEF RaisingType, Runner!Loop, Runner!Submit, Runner!WalkRaises, Runner!LoopDone,
                Runner!After, Runner!Teardown, Runner!Summary
  <1>4. Runner!Failed' = Runner!Failed /\ Runner!ResultsAreKept'
    BY <1>2 DEF Runner!IInv, Runner!Failed, Runner!ResultsAreKept
  <1>5. Runner!ClosedTells'
    BY <1>2 DEF Runner!IInv, Runner!ClosedTells
  <1>6. CallerTypes' /\ Runner!PoolFollowsMain' /\ Runner!FailureIsKept'
  /\ Runner!LastPoolFails'
    <2>1. CASE Runner!Loop
      <3> USE <2>1 DEF Runner!Loop
      <3>1. CallerTypes'
        BY <1>1 DEF CallerTypes, Runner!Rounds
      <3>2. Runner!PoolFollowsMain'
        <4>1. main = "loop" /\ main' \in {"loop", "raised", "timed_main"} /\ UNCHANGED raising
          OBVIOUS
        <4> QED
          BY <1>2, <4>1 DEF Runner!IInv, Runner!PoolFollowsMain
      <3>3. Runner!FailureIsKept'
        BY <1>2, <1>4 DEF Runner!IInv, Runner!FailureIsKept
      <3>4. Runner!LastPoolFails'
        BY <1>2, <1>4 DEF Runner!IInv, Runner!LastPoolFails
      <3> QED
        BY <3>1, <3>2, <3>3, <3>4
    <2>2. CASE Runner!Submit \/ Runner!WalkRaises \/ Runner!LoopDone
      <3> USE <2>2 DEF Runner!Submit, Runner!WalkRaises, Runner!LoopDone
      <3>1. CallerTypes'
        BY <1>1 DEF CallerTypes
      <3>2. Runner!PoolFollowsMain'
        <4>1. /\ main = "submit" /\ round' = round /\ round \in Runner!Rounds
              /\ main' \in {"submit", "put", "leave", "after"}
              /\ main' = "after" <=> script = "boot" /\ main' \notin {"submit", "put"}
          BY <1>1 DEF CallerTypes
        <4>2. raising' => raising \/ (script # "boot" /\ main' = "leave")
          OBVIOUS
        <4> QED
          BY <1>2, <4>1, <4>2 DEF Runner!IInv, Runner!PoolFollowsMain
      <3>3. Runner!FailureIsKept'
        BY <1>2, <1>4 DEF Runner!IInv, Runner!FailureIsKept
      <3>4. Runner!LastPoolFails'
        BY <1>2, <1>4 DEF Runner!IInv, Runner!LastPoolFails
      <3> QED
        BY <3>1, <3>2, <3>3, <3>4
    <2>3. CASE Runner!After
      <3> USE <2>3 DEF Runner!After, Runner!FirstError, Runner!Ret
      <3>1. CallerTypes'
        BY <1>1 DEF CallerTypes, Runner!Rounds
      <3>2. Runner!PoolFollowsMain'
        BY <1>1, <1>2 DEF Runner!IInv, Runner!PoolFollowsMain, PoolTypes
      <3>3. Runner!FailureIsKept'
        BY <1>1, <1>2, <1>4 DEF Runner!IInv, Runner!FailureIsKept, Runner!PoolFollowsMain,
                                Runner!ClosedTells, PoolTypes
      <3>4. Runner!LastPoolFails'
        BY <1>1, <1>2, <1>4
           DEF Runner!IInv, Runner!LastPoolFails, Runner!PoolFollowsMain, Runner!ClosedTells,
               PoolTypes, Runner!Rounds
      <3> QED
        BY <3>1, <3>2, <3>3, <3>4
    <2>4. CASE Runner!Teardown
      <3> USE <2>4 DEF Runner!Teardown, Runner!AfterLoop
      <3>1. CallerTypes'
        BY <1>1 DEF CallerTypes
      <3>2. Runner!PoolFollowsMain'
        BY <1>1, <1>2 DEF Runner!IInv, Runner!PoolFollowsMain, PoolTypes
      <3>3. Runner!FailureIsKept'
        BY <1>2, <1>4 DEF Runner!IInv, Runner!FailureIsKept
      <3>4. Runner!LastPoolFails'
        BY <1>2, <1>4 DEF Runner!IInv, Runner!LastPoolFails
      <3> QED
        BY <3>1, <3>2, <3>3, <3>4
    <2>5. CASE Runner!Summary
      <3> USE <2>5 DEF Runner!Summary, Runner!FirstError
      <3>1. CallerTypes'
        BY <1>1 DEF CallerTypes
      <3>2. Runner!PoolFollowsMain'
        BY <1>1, <1>2 DEF Runner!IInv, Runner!PoolFollowsMain, PoolTypes
      <3>3. Runner!FailureIsKept'
        BY <1>1, <1>2, <1>4 DEF Runner!IInv, Runner!FailureIsKept, Runner!Failed, CallerTypes
      <3>4. Runner!LastPoolFails'
        BY <1>2, <1>4 DEF Runner!IInv, Runner!LastPoolFails
      <3> QED
        BY <3>1, <3>2, <3>3, <3>4
    <2> QED
      BY <2>1, <2>2, <2>3, <2>4, <2>5
  <1> QED
    BY <1>3, <1>4, <1>5, <1>6, <1>7, RunnerAllTypesNext DEF Runner!IInv

(* The caller with the pool: a new one, an input, and join.                *)
LEMMA RunnerPoolStep ==
  ASSUME Runner!Parameters, Runner!IInv, Runner!TimedMain \/ Runner!Put \/ Runner!Leave
         \/ Runner!Joined
  PROVE  Runner!IInv'
  <1> USE DEF Runner!Parameters
  <1>1. CallerTypes /\ RaisingType /\ RequestTypes /\ ResultTypes /\ PoolTypes
    BY RunnerAllTypes DEF Runner!IInv
  <1>2. /\ UNCHANGED <<script, quit_on_fail, all_archs, all_emulators, fit>>
        /\ UNCHANGED <<test_results, raised>>
        /\ UNCHANGED <<round, raising, return_value>>
    BY DEF Runner!TimedMain, Runner!Put, Runner!Leave, Runner!Joined, Runner!request
  <1>3. RaisingType' /\ RequestTypes' /\ ResultTypes' /\ Runner!Failed' = Runner!Failed
    BY <1>1, <1>2 DEF RaisingType, RequestTypes, ResultTypes, Runner!Failed
  <1>4. CallerTypes' /\ PoolTypes' /\ Runner!PoolFollowsMain' /\ Runner!ClosedTells'
        /\ Runner!FailureIsKept' /\ Runner!ResultsAreKept' /\ Runner!LastPoolFails'
    <2>1. CASE /\ Runner!TimedMain /\ UNCHANGED Runner!pool
               /\ \/ script = "boot" /\ main' = "submit"
                  \/ script = "build" /\ main' = "raised"
      <3> USE <2>1 DEF Runner!TimedMain, Runner!pool
      <3>1. CallerTypes'
        BY <1>1 DEF CallerTypes
      <3>2. PoolTypes' /\ Runner!ClosedTells' /\ Runner!ResultsAreKept'
        BY <1>1, <1>2, <1>3 DEF Runner!IInv, PoolTypes, Runner!ClosedTells,
                                Runner!ResultsAreKept
      <3>3. Runner!PoolFollowsMain'
        BY <1>1, <1>2 DEF Runner!IInv, Runner!PoolFollowsMain, PoolTypes
      <3>4. Runner!FailureIsKept'
        BY <1>2, <1>3 DEF Runner!IInv, Runner!FailureIsKept
      <3>5. Runner!LastPoolFails'
        BY <1>2, <1>3 DEF Runner!IInv, Runner!LastPoolFails
      <3> QED
        BY <3>1, <3>2, <3>3, <3>4, <3>5
    <2>2. CASE Runner!TimedMain /\ Runner!NewPool /\ script # "boot" /\ main' = "submit"
      <3> USE <2>2 DEF Runner!TimedMain, Runner!NewPool
      <3>1. CallerTypes' /\ PoolTypes' /\ Runner!ClosedTells' /\ Runner!ResultsAreKept'
        BY <1>1 DEF CallerTypes, PoolTypes, Runner!ClosedTells, Runner!ResultsAreKept
      <3>2. Runner!PoolFollowsMain'
        BY <1>1, <1>2 DEF Runner!IInv, Runner!PoolFollowsMain, PoolTypes
      <3>3. Runner!FailureIsKept' /\ Runner!LastPoolFails'
        BY <1>2, <1>3 DEF Runner!IInv, Runner!FailureIsKept, Runner!LastPoolFails
      <3> QED
        BY <3>1, <3>2, <3>3
    <2>3. CASE Runner!Put
      <3>1. /\ main = "put" /\ main' = "submit" /\ test' = test + 1
            /\ pending' = pending \cup {<<round, test>>}
            /\ UNCHANGED <<finished, reports, outcome, phase>>
        BY <2>3 DEF Runner!Put, Runner!Pool!Accept
      <3>2. CallerTypes'
        BY <1>1, <1>2, <3>1 DEF CallerTypes
      <3>3. <<round, test>> \in Runner!Tests
        BY <1>1, <3>1 DEF CallerTypes, Runner!Tests
      <3>4. PoolTypes' /\ Runner!ResultsAreKept'
        BY <1>1, <1>2, <1>3, <3>1, <3>3 DEF Runner!IInv, PoolTypes, Runner!ResultsAreKept
      <3>5. Runner!PoolFollowsMain' /\ Runner!ClosedTells'
        BY <1>1, <1>2, <3>1 DEF Runner!IInv, Runner!PoolFollowsMain, Runner!ClosedTells,
                                PoolTypes
      <3>6. Runner!FailureIsKept'
        BY <1>2, <1>3, <3>1 DEF Runner!IInv, Runner!FailureIsKept
      <3>7. Runner!LastPoolFails'
        <4>1. pending' \cup finished' = pending \cup finished \cup {<<round, test>>}
          BY <3>1
        <4>2. <<round, test>>[1] = round
          OBVIOUS
        <4> QED
          BY <1>2, <1>3, <3>1, <4>1, <4>2 DEF Runner!IInv, Runner!LastPoolFails
      <3> QED
        BY <3>2, <3>4, <3>5, <3>6, <3>7
    <2>4. CASE Runner!Leave \/ Runner!Joined
      <3>1. /\ \/ main = "leave" /\ phase = "open" /\ main' = "join" /\ phase' = "joining"
               \/ /\ main = "join" /\ phase = "joining" /\ phase' = "closed"
                  /\ pending = {} /\ (reports # {} => outcome # None)
                  /\ main' = IF raising THEN "raised"
                             ELSE IF script = "boot" THEN "summary" ELSE "after"
            /\ UNCHANGED <<test, pending, finished, reports, outcome>>
        BY <2>4 DEF Runner!Leave, Runner!Joined, Runner!Pool!BeginJoin, Runner!Pool!Close
      <3>2. CallerTypes' /\ PoolTypes'
        BY <1>1, <1>2, <3>1 DEF Runner!IInv, Runner!PoolFollowsMain, CallerTypes, PoolTypes
      <3>3. Runner!PoolFollowsMain' /\ Runner!ClosedTells'
        BY <1>1, <1>2, <3>1 DEF Runner!IInv, Runner!PoolFollowsMain, Runner!ClosedTells,
                                PoolTypes
      <3>4. Runner!FailureIsKept' /\ Runner!ResultsAreKept'
        BY <1>2, <1>3, <3>1 DEF Runner!IInv, Runner!FailureIsKept, Runner!ResultsAreKept
      <3>5. Runner!LastPoolFails'
        BY <1>2, <1>3, <3>1 DEF Runner!IInv, Runner!LastPoolFails
      <3> QED
        BY <3>2, <3>3, <3>4, <3>5
    <2> QED
      BY <2>1, <2>2, <2>3, <2>4 DEF Runner!TimedMain
  <1> QED
    BY <1>3, <1>4, RunnerAllTypesNext DEF Runner!IInv

-----------------------------------------------------------------------------
LEMMA RunnerGoesOn ==
  ASSUME Runner!Parameters, Runner!IInv, [Runner!Next]_Runner!runvars
  PROVE  Runner!IInv'
  <1>1. CASE \E i \in Runner!Tests, how \in {"passes", "fails", "raised"} : Runner!RunTest(i,
             how)
    BY <1>1, RunnerRunTestStep
  <1>2. CASE \E i \in Runner!Tests : Runner!Record(i)
    BY <1>2, RunnerRecordStep
  <1>3. CASE Runner!Loop \/ Runner!Submit \/ Runner!WalkRaises \/ Runner!LoopDone
             \/ Runner!After \/ Runner!Teardown \/ Runner!Summary
    BY <1>3, RunnerMoveStep
  <1>4. CASE Runner!TimedMain \/ Runner!Put \/ Runner!Leave \/ Runner!Joined
    BY <1>4, RunnerPoolStep
  <1>5. CASE UNCHANGED Runner!runvars
    <2>1. /\ UNCHANGED <<script, quit_on_fail, all_archs, all_emulators, fit>>
          /\ UNCHANGED <<main, round, test, raising, return_value, test_results, raised>>
          /\ UNCHANGED <<pending, finished, reports, outcome, phase>>
      BY <1>5 DEF Runner!runvars, Runner!request, Runner!pool
    <2>2. Runner!Failed' = Runner!Failed
      BY <2>1 DEF Runner!Failed
    <2>3. Runner!TypeOK'
      BY <2>1, RunnerAllTypes, RunnerAllTypesNext
         DEF Runner!IInv, CallerTypes, RaisingType, RequestTypes, ResultTypes, PoolTypes
    <2> QED
      BY <2>1, <2>2, <2>3
         DEF Runner!IInv, Runner!PoolFollowsMain, Runner!ClosedTells, Runner!FailureIsKept,
             Runner!ResultsAreKept, Runner!LastPoolFails
  <1> QED
    BY <1>1, <1>2, <1>3, <1>4, <1>5 DEF Runner!Next, Runner!Caller, Runner!Worker

LEMMA RunnerSafe == Runner!Parameters /\ Runner!IInv => Runner!StatusTellsFailure
  <1> SUFFICES ASSUME Runner!Parameters, Runner!IInv PROVE Runner!StatusTellsFailure
    OBVIOUS
  <1>1. ASSUME Runner!IInv PROVE Runner!FailureIsInStatus
    <2> USE <1>1
    <2> SUFFICES ASSUME main = "returned"
                 PROVE  return_value # 0 <=>
                          test_results.fails # {} \/ (raised # {} /\ script # "boot")
      BY DEF Runner!FailureIsInStatus
    <2> QED
      BY DEF Runner!IInv, Runner!FailureIsKept, Runner!Failed
  <1>2. ASSUME Runner!IInv PROVE Runner!SummaryComplete
    BY <1>2 DEF Runner!IInv, Runner!SummaryComplete, Runner!PoolFollowsMain,
                Runner!ClosedTells, Runner!ResultsAreKept, Runner!Failed,
                Runner!TypeOK
  <1>3. ASSUME Runner!IInv PROVE Runner!QuitStops
    <2> USE <1>3 DEF Runner!Parameters
    <2> SUFFICES ASSUME quit_on_fail, script # "boot",
                        NEW i \in test_results.fails \cup raised,
                        NEW j \in pending \cup finished
                 PROVE  j[1] <= i[1]
      BY DEF Runner!QuitStops
    <2>1. i \in finished /\ i \in Runner!Tests
      BY DEF Runner!IInv, Runner!TypeOK, Runner!LastPoolFails, Runner!Failed
    <2>2. i[1] = j[1]
      BY <2>1 DEF Runner!IInv, Runner!LastPoolFails
    <2>3. PICK r \in 1 .. NRounds, t \in 1 .. NTests : i = <<r, t>>
      BY <2>1 DEF Runner!Tests, Runner!Rounds
    <2> QED
      BY <2>2, <2>3
  <1>4. ASSUME Runner!IInv PROVE Runner!NoThreadLeft
    BY <1>4 DEF Runner!IInv, Runner!NoThreadLeft, Runner!PoolFollowsMain, Runner!TypeOK
  <1> QED
    BY <1>1, <1>2, <1>3, <1>4 DEF StatusTellsFailure, Runner!StatusTellsFailure

-----------------------------------------------------------------------------
(* ./build: what a component depends on is built before it.                *)

LEMMA FirstAndRest ==
  ASSUME NEW S, NEW s \in Seq(S), s # <<>>
  PROVE  /\ Len(s) \in Nat \ {0} /\ DOMAIN s = 1 .. Len(s) /\ Head(s) = s[1] /\ Head(s) \in S
         /\ Tail(s) \in Seq(S) /\ DOMAIN Tail(s) = 1 .. Len(s) - 1
         /\ \A k \in 1 .. Len(s) - 1 : Tail(s)[k] = s[k + 1]
  <1>1. Len(s) \in Nat \ {0} /\ DOMAIN s = 1 .. Len(s)
    BY EmptySeq, LenProperties
  <1>2. /\ Head(s) \in S /\ Tail(s) \in Seq(S) /\ Len(Tail(s)) = Len(s) - 1
        /\ \A k \in 1 .. Len(Tail(s)) : Tail(s)[k] = s[k + 1]
    BY HeadTailProperties
  <1>3. DOMAIN Tail(s) = 1 .. Len(Tail(s))
    BY <1>2, LenProperties
  <1>4. Head(s) = s[1]
    OBVIOUS
  <1> QED
    BY <1>1, <1>2, <1>3, <1>4

LEMMA PutInFront ==
  ASSUME NEW S, NEW s \in Seq(S), NEW e \in S
  PROVE  /\ <<e>> \o s \in Seq(S) /\ DOMAIN (<<e>> \o s) = 1 .. Len(s) + 1
         /\ Len(s) \in Nat /\ DOMAIN s = 1 .. Len(s) /\ (<<e>> \o s)[1] = e
         /\ \A k \in 1 .. Len(s) : (<<e>> \o s)[k + 1] = s[k]
  <1>1. <<e>> \in Seq(S) /\ Len(<<e>>) = 1 /\ <<e>>[1] = e
    OBVIOUS
  <1>2. Len(s) \in Nat /\ DOMAIN s = 1 .. Len(s)
    BY LenProperties
  <1>3. /\ <<e>> \o s \in Seq(S) /\ Len(<<e>> \o s) = 1 + Len(s)
        /\ \A k \in 1 .. 1 + Len(s) :
             (<<e>> \o s)[k] = IF k <= 1 THEN <<e>>[k] ELSE s[k - 1]
    BY <1>1, ConcatProperties
  <1>4. DOMAIN (<<e>> \o s) = 1 .. Len(<<e>> \o s)
    BY <1>3, LenProperties
  <1>5. DOMAIN (<<e>> \o s) = 1 .. Len(s) + 1
    BY <1>2, <1>3, <1>4
  <1>6. (<<e>> \o s)[1] = e
    BY <1>1, <1>2, <1>3
  <1>7. ASSUME NEW k \in 1 .. Len(s) PROVE (<<e>> \o s)[k + 1] = s[k]
    <2>1. k + 1 \in 1 .. 1 + Len(s) /\ ~(k + 1 <= 1) /\ (k + 1) - 1 = k
      BY <1>2
    <2> QED
      BY <1>3, <2>1
  <1> QED
    BY <1>2, <1>3, <1>5, <1>6, <1>7

LEMMA ElementsOfConcat ==
  ASSUME NEW S, NEW s \in Seq(S), NEW t \in Seq(S)
  PROVE  s \o t \in Seq(S) /\ Order!ToSet(s) \cup Order!ToSet(t) \subseteq Order!ToSet(s \o t)
  <1>1. /\ Len(s) \in Nat /\ DOMAIN s = 1 .. Len(s) /\ Len(t) \in Nat
  /\ DOMAIN t = 1 .. Len(t)
    BY LenProperties
  <1>2. /\ s \o t \in Seq(S) /\ Len(s \o t) = Len(s) + Len(t)
        /\ \A k \in 1 .. Len(s) + Len(t) :
             (s \o t)[k] = IF k <= Len(s) THEN s[k] ELSE t[k - Len(s)]
    BY ConcatProperties
  <1>3. DOMAIN (s \o t) = 1 .. Len(s) + Len(t)
    BY <1>2, LenProperties
  <1>4. ASSUME NEW k \in DOMAIN s PROVE k \in DOMAIN (s \o t) /\ (s \o t)[k] = s[k]
    BY <1>1, <1>2, <1>3
  <1>5. ASSUME NEW k \in DOMAIN t
        PROVE  k + Len(s) \in DOMAIN (s \o t) /\ (s \o t)[k + Len(s)] = t[k]
    <2>1. /\ k + Len(s) \in 1 .. Len(s) + Len(t) /\ ~(k + Len(s) <= Len(s))
          /\ (k + Len(s)) - Len(s) = k
      BY <1>1
    <2> QED
      BY <1>2, <1>3, <2>1
  <1>6. \A x \in Order!ToSet(s) : x \in Order!ToSet(s \o t)
    BY <1>4 DEF Order!ToSet
  <1>7. \A x \in Order!ToSet(t) : x \in Order!ToSet(s \o t)
    BY <1>5 DEF Order!ToSet
  <1> QED
    BY <1>2, <1>6, <1>7

LEMMA FunctionIsSeq ==
  ASSUME NEW S, NEW n \in Nat, NEW f \in [1 .. n -> S]
  PROVE  f \in Seq(S)
  OBVIOUS

LEMMA NothingInside == Order!ToSet(<<>>) = {}
  BY DEF Order!ToSet

(* A list of lower components.                                             *)
LEMMA LowerComponents ==
  ASSUME NEW c \in Order!Components, NEW s \in Seq(1 .. c - 1)
  PROVE  s \in Seq(Order!Components) /\ \A d \in Order!ToSet(s) : d # c
  <1>1. 1 .. c - 1 \subseteq Order!Components /\ c \notin 1 .. c - 1
    BY ToolsAssumption DEF ToolsAssumption, Order!Components
  <1>2. s \in Seq(Order!Components)
    BY <1>1, SeqMonotonic
  <1>3. DOMAIN s = 1 .. Len(s)
    BY LenProperties
  <1>4. \A k \in DOMAIN s : s[k] \in 1 .. c - 1
    BY <1>3, ElementOfSeq
  <1> QED
    BY <1>1, <1>2, <1>4 DEF Order!ToSet

LEMMA OrderInit == ToolsInit => Order!IInv
  <1> SUFFICES ASSUME ToolsInit PROVE Order!IInv
    OBVIOUS
  <1>1. /\ selected_components = <<>> /\ built = <<>> /\ todo = <<>>
        /\ build \in {"select", "built"}
    BY DEF ToolsInit, Order!Init
  <1>2. <<>> \in Seq(Order!Components) /\ DOMAIN <<>> = {}
    BY EmptySeq
  <1>3. components \in Seq(Order!Components)
    <2>1. CASE components = <<>>
      BY <1>2, <2>1
    <2>2. CASE components \in Order!SeqOf(Order!Components, MaxRequests)
      BY <2>2, ToolsAssumption DEF ToolsAssumption, Order!SeqOf
    <2> QED
      BY <2>1, <2>2 DEF ToolsInit, Order!Init
  <1>4. ASSUME build = "select", NEW c \in Order!Components
        PROVE  dependencies[c] \in Seq(1 .. c - 1)
    <2>1. dependencies[c] \in Order!ListsBelow(c)
      BY <1>4 DEF ToolsInit, Order!Init, Order!Acyclic
    <2>2. PICK m \in 0 .. c - 1 : dependencies[c] \in [1 .. m -> 1 .. c - 1]
      BY <2>1 DEF Order!ListsBelow, Order!SeqOf
    <2>3. m \in Nat
      BY ToolsAssumption DEF ToolsAssumption, Order!Components
    <2> QED
      BY <2>2, <2>3, FunctionIsSeq
  <1>5. Order!TypeOK
    BY <1>1, <1>2, <1>3, <1>4 DEF Order!TypeOK
  <1> QED
    BY <1>1, <1>2, <1>5
       DEF Order!IInv, Order!Collected, Order!ToBuild, Order!Below, Order!IsInjective

(* What waited in todo is in the list, or waits still.                     *)
LEMMA OrderSelect ==
  ASSUME Order!IInv, Order!Select
  PROVE  Order!IInv'
  <1>1. /\ build = "select" /\ build' = "select" /\ built = <<>> /\ todo # <<>>
        /\ selected_components' = <<Head(todo)>> \o selected_components
        /\ todo' = Tail(todo) \o dependencies[Head(todo)]
        /\ UNCHANGED <<dependencies, components, built>>
    BY DEF Order!Select, Order!Selected, Order!IInv, Order!Collected
  <1>2. /\ todo \in Seq(Order!Components) /\ selected_components \in Seq(Order!Components)
        /\ \A c \in Order!Components : dependencies[c] \in Seq(1 .. c - 1)
        /\ Order!Below(selected_components, todo)
    BY <1>1 DEF Order!IInv, Order!TypeOK, Order!Collected
  <1>3. /\ Head(todo) \in Order!Components /\ Head(todo) = todo[1]
        /\ Tail(todo) \in Seq(Order!Components)
        /\ DOMAIN Tail(todo) = 1 .. Len(todo) - 1 /\ DOMAIN todo = 1 .. Len(todo)
        /\ Len(todo) \in Nat /\ \A k \in 1 .. Len(todo) - 1 : Tail(todo)[k] = todo[k + 1]
    BY <1>1, <1>2, FirstAndRest
  <1>4. dependencies[Head(todo)] \in Seq(Order!Components)
    BY <1>2, <1>3, LowerComponents
  <1>5. /\ todo' \in Seq(Order!Components)
        /\ Order!ToSet(Tail(todo)) \subseteq Order!ToSet(todo')
        /\ Order!ToSet(dependencies[Head(todo)]) \subseteq Order!ToSet(todo')
    BY <1>1, <1>3, <1>4, ElementsOfConcat
  <1>6. ASSUME NEW d \in Order!ToSet(todo) PROVE d = Head(todo) \/ d \in Order!ToSet(todo')
    <2>1. PICK k \in DOMAIN todo : todo[k] = d
      BY DEF Order!ToSet
    <2>2. CASE k = 1
      BY <1>3, <2>1, <2>2
    <2>3. CASE k # 1
      <3>1. k - 1 \in 1 .. Len(todo) - 1 /\ (k - 1) + 1 = k
        BY <1>3, <2>3
      <3>2. Tail(todo)[k - 1] = d
        BY <1>3, <2>1, <3>1
      <3>3. d \in Order!ToSet(Tail(todo))
        BY <1>3, <3>1, <3>2 DEF Order!ToSet
      <3> QED
        BY <1>5, <3>3
    <2> QED
      BY <2>2, <2>3
  <1> DEFINE s == selected_components
             t == selected_components'
  <1>7. /\ t \in Seq(Order!Components) /\ DOMAIN t = 1 .. Len(s) + 1
        /\ Len(s) \in Nat /\ DOMAIN s = 1 .. Len(s) /\ t[1] = Head(todo)
        /\ \A k \in 1 .. Len(s) : t[k + 1] = s[k]
    BY <1>1, <1>2, <1>3, PutInFront
  <1>8. ASSUME NEW k \in DOMAIN t, NEW d \in Order!ToSet(dependencies[t[k]])
        PROVE  d \in Order!ToSet(todo') \/ \E j \in 1 .. k - 1 : t[j] = d
    <2>1. CASE k = 1
      BY <1>5, <1>7, <1>8, <2>1
    <2>2. CASE k # 1
      <3>1. k - 1 \in 1 .. Len(s) /\ (k - 1) + 1 = k /\ 1 \in 1 .. k - 1
        BY <1>7, <2>2
      <3>2. t[k] = s[k - 1]
        BY <1>7, <3>1
      <3>3. CASE d \in Order!ToSet(todo)
        BY <1>6, <1>7, <3>1, <3>3
      <3>4. ASSUME NEW j \in 1 .. (k - 1) - 1, s[j] = d
            PROVE  \E l \in 1 .. k - 1 : t[l] = d
        <4>1. j \in 1 .. Len(s) /\ j + 1 \in 1 .. k - 1
          BY <1>7, <3>1
        <4> QED
          BY <1>7, <3>4, <4>1
      <3>5. d \in Order!ToSet(todo) \/ \E j \in 1 .. (k - 1) - 1 : s[j] = d
        BY <1>2, <1>7, <1>8, <3>1, <3>2 DEF Order!Below
      <3> QED
        BY <3>3, <3>4, <3>5
    <2> QED
      BY <2>1, <2>2
  <1>9. Order!Collected'
    BY <1>1, <1>8 DEF Order!Collected, Order!Below
  <1>10. Order!TypeOK'
    BY <1>1, <1>2, <1>5, <1>7 DEF Order!IInv, Order!TypeOK
  <1>11. Order!ToBuild' /\ Order!Below(built, <<>>)' /\ Order!IsInjective(built)'
    BY <1>1 DEF Order!IInv, Order!ToBuild, Order!Below, Order!IsInjective
  <1> QED
    BY <1>9, <1>10, <1>11 DEF Order!IInv

(* Of what is collected, the first of each has what it depends on in front *)
(* of it still.                                                            *)
LEMMA OrderUnrepeated ==
  ASSUME Order!IInv, Order!RemoveDuplicates
  PROVE  Order!IInv'
  <1> DEFINE s == selected_components
             t == selected_components'
  <1>1. /\ build = "select" /\ build' = "build" /\ built = <<>> /\ todo = <<>>
        /\ t \in Order!Unrepeated(s)
        /\ UNCHANGED <<dependencies, components, todo, built>>
    BY DEF Order!RemoveDuplicates, Order!IInv, Order!Collected
  <1>2. /\ s \in Seq(Order!Components) /\ Order!Below(s, <<>>)
        /\ \A c \in Order!Components : dependencies[c] \in Seq(1 .. c - 1)
    BY <1>1 DEF Order!IInv, Order!TypeOK, Order!Collected
  <1>3. /\ DOMAIN s = 1 .. Len(s) /\ Len(s) \in Nat /\ DOMAIN <<>> = {}
        /\ \A k \in DOMAIN s : s[k] \in Order!Components
    BY <1>2, LenProperties, ElementOfSeq
  <1>4. /\ Order!ToSet(t) = Order!ToSet(s) /\ Order!IsInjective(t) /\ Order!KeepsFirst(s, t)
        /\ t \in Order!SeqOf(Order!ToSet(s), NComponents)
    BY <1>1 DEF Order!Unrepeated
  <1>5. PICK m \in 0 .. NComponents : t \in [1 .. m -> Order!ToSet(s)]
    BY <1>4 DEF Order!SeqOf
  <1>6. m \in Nat /\ DOMAIN t = 1 .. m /\ t \in Seq(Order!Components)
    <2>1. m \in Nat
      BY ToolsAssumption DEF ToolsAssumption
    <2>2. Order!ToSet(s) \subseteq Order!Components
      BY <1>3 DEF Order!ToSet
    <2>3. t \in [1 .. m -> Order!Components]
      BY <1>5, <2>2
    <2> QED
      BY <2>1, <2>3
  <1>7. ASSUME NEW k \in DOMAIN s, NEW d \in Order!ToSet(dependencies[s[k]])
        PROVE  \E n \in 1 .. k - 1 : s[n] = d
    BY <1>2, <1>3 DEF Order!Below, Order!ToSet
  <1>8. ASSUME NEW k \in DOMAIN t, NEW d \in Order!ToSet(dependencies[t[k]])
        PROVE  \E j \in 1 .. k - 1 : t[j] = d
    <2>1. PICK n \in DOMAIN s : s[n] = t[k]
      BY <1>4 DEF Order!ToSet
    <2>2. PICK p \in 1 .. n - 1 : s[p] = d
      BY <1>7, <2>1
    <2>3. p \in DOMAIN s
      BY <1>3
    <2>4. PICK j \in DOMAIN t : t[j] = d
      BY <1>4, <2>2, <2>3 DEF Order!ToSet
    <2>5. d # t[k]
      BY <1>2, <1>3, <2>1, LowerComponents
    <2>6. ~(k < j)
      <3>1. SUFFICES ASSUME k < j PROVE FALSE
        OBVIOUS
      <3>2. PICK q \in DOMAIN s : s[q] = t[k] /\ \A l \in 1 .. q : s[l] # t[j]
        BY <1>4, <3>1 DEF Order!KeepsFirst
      <3>3. PICK l \in 1 .. q - 1 : s[l] = d
        BY <1>7, <3>2
      <3>4. l \in 1 .. q
        BY <1>3
      <3> QED
        BY <2>4, <3>2, <3>3, <3>4
    <2>7. j \in 1 .. k - 1
      BY <1>6, <2>4, <2>5, <2>6
    <2> QED
      BY <2>4, <2>7
  <1>9. Order!ToBuild'
    BY <1>1, <1>3, <1>4, <1>8 DEF Order!ToBuild, Order!Below, Order!IsInjective
  <1>10. Order!TypeOK'
    BY <1>1, <1>2, <1>6 DEF Order!IInv, Order!TypeOK
  <1>11. Order!Collected' /\ Order!Below(built, <<>>)' /\ Order!IsInjective(built)'
    BY <1>1 DEF Order!IInv, Order!Collected, Order!Below, Order!IsInjective
  <1> QED
    BY <1>9, <1>10, <1>11 DEF Order!IInv

(* What is built goes from the front of one list to the end of the other.  *)
LEMMA OrderBuild ==
  ASSUME Order!IInv, Order!Build
  PROVE  Order!IInv'
  <1> DEFINE s == selected_components
  <1>1. build = "build" /\ UNCHANGED <<dependencies, components, todo>>
    BY DEF Order!Build
  <1>2. /\ s \in Seq(Order!Components) /\ built \in Seq(Order!Components)
        /\ Order!Below(s, built) /\ Order!IsInjective(s)
        /\ \A j \in DOMAIN s, k \in DOMAIN built : s[j] # built[k]
        /\ Order!Below(built, <<>>) /\ Order!IsInjective(built)
    BY <1>1 DEF Order!IInv, Order!TypeOK, Order!ToBuild
  <1>3. CASE /\ s = <<>> \/ build' = "failed"
             /\ build' \in {"built", "failed"} /\ UNCHANGED built
             /\ selected_components' \in Seq(Order!Components)
    <2>1. Order!TypeOK'
      BY <1>1, <1>2, <1>3 DEF Order!IInv, Order!TypeOK
    <2> QED
      BY <1>1, <1>2, <1>3, <2>1
         DEF Order!IInv, Order!Collected, Order!ToBuild, Order!Below, Order!IsInjective
  <1>4. CASE /\ s # <<>> /\ built' = Append(built, Head(s)) /\ build' = build
             /\ selected_components' = Tail(s)
    <2>1. /\ Len(s) \in Nat \ {0} /\ DOMAIN s = 1 .. Len(s) /\ Head(s) = s[1]
          /\ Head(s) \in Order!Components /\ Tail(s) \in Seq(Order!Components)
          /\ DOMAIN Tail(s) = 1 .. Len(s) - 1
          /\ \A k \in 1 .. Len(s) - 1 : Tail(s)[k] = s[k + 1]
      BY <1>2, <1>4, FirstAndRest
    <2>2. /\ built' \in Seq(Order!Components) /\ Len(built) \in Nat
          /\ DOMAIN built' = 1 .. Len(built) + 1 /\ DOMAIN built = 1 .. Len(built)
          /\ \A k \in 1 .. Len(built) : built'[k] = built[k]
          /\ built'[Len(built) + 1] = s[1]
      BY <1>2, <1>4, <2>1, AppendProperties, LenProperties
    <2>3. ASSUME NEW k \in DOMAIN built'
          PROVE  \/ k \in DOMAIN built /\ built'[k] = built[k]
                 \/ k = Len(built) + 1 /\ built'[k] = s[1]
      BY <2>2
    <2>4. ASSUME NEW k \in 1 .. Len(s) - 1
          PROVE  k + 1 \in DOMAIN s /\ Tail(s)[k] = s[k + 1] /\ k + 1 # 1
      BY <2>1
    <2>5. 1 \in DOMAIN s
      BY <2>1
    <2>6. Order!IsInjective(built')
      BY <1>2, <2>2, <2>3, <2>5 DEF Order!IsInjective
    <2>7. Order!IsInjective(Tail(s))
      <3> SUFFICES ASSUME NEW a \in 1 .. Len(s) - 1, NEW b \in 1 .. Len(s) - 1,
                          Tail(s)[a] = Tail(s)[b]
                   PROVE  a = b
        BY <2>1 DEF Order!IsInjective
      <3>1. a + 1 = b + 1
        BY <1>2, <2>4 DEF Order!IsInjective
      <3> QED
        BY <2>1, <3>1
    <2>8. \A j \in DOMAIN Tail(s), k \in DOMAIN built' : Tail(s)[j] # built'[k]
      <3> SUFFICES ASSUME NEW j \in 1 .. Len(s) - 1, NEW k \in DOMAIN built'
                   PROVE  Tail(s)[j] # built'[k]
        BY <2>1
      <3>1. Tail(s)[j] # s[1]
        BY <1>2, <2>4, <2>5 DEF Order!IsInjective
      <3>2. CASE k \in DOMAIN built /\ built'[k] = built[k]
        BY <1>2, <2>4, <3>2
      <3> QED
        BY <2>3, <3>1, <3>2
    <2>9. Order!ToSet(built) \subseteq Order!ToSet(built') /\ s[1] \in Order!ToSet(built')
      <3>1. \A k \in DOMAIN built : k \in DOMAIN built' /\ built'[k] = built[k]
        BY <2>2
      <3>2. Len(built) + 1 \in DOMAIN built'
        BY <2>2
      <3> QED
        BY <2>2, <3>1, <3>2 DEF Order!ToSet
    <2>10. ASSUME NEW k \in DOMAIN Tail(s), NEW d \in Order!ToSet(dependencies[Tail(s)[k]])
           PROVE  d \in Order!ToSet(built') \/ \E j \in 1 .. k - 1 : Tail(s)[j] = d
      <3>1. k \in 1 .. Len(s) - 1 /\ k + 1 \in DOMAIN s /\ Tail(s)[k] = s[k + 1]
        BY <2>1, <2>4
      <3>2. d \in Order!ToSet(built) \/ \E j \in 1 .. (k + 1) - 1 : s[j] = d
        BY <1>2, <2>10, <3>1 DEF Order!Below
      <3>3. ASSUME NEW j \in 1 .. (k + 1) - 1, s[j] = d
            PROVE  d \in Order!ToSet(built') \/ \E l \in 1 .. k - 1 : Tail(s)[l] = d
        <4>1. CASE j = 1
          BY <2>9, <3>3, <4>1
        <4>2. CASE j # 1
          <5>1. j - 1 \in 1 .. k - 1 /\ j - 1 \in 1 .. Len(s) - 1 /\ (j - 1) + 1 = j
            BY <2>1, <3>1, <4>2
          <5>2. Tail(s)[j - 1] = d
            BY <2>1, <3>3, <5>1
          <5> QED
            BY <5>1, <5>2
        <4> QED
          BY <4>1, <4>2
      <3> QED
        BY <2>9, <3>2, <3>3
    <2>11. ASSUME NEW k \in DOMAIN built', NEW d \in Order!ToSet(dependencies[built'[k]])
           PROVE  \E j \in 1 .. k - 1 : built'[j] = d
      <3>1. CASE k \in DOMAIN built /\ built'[k] = built[k]
        <4>0. d \in Order!ToSet(dependencies[built[k]])
          BY <2>11, <3>1
        <4>1. PICK j \in 1 .. k - 1 : built[j] = d
          BY <1>2, <3>1, <4>0, NothingInside DEF Order!Below
        <4>2. j \in 1 .. Len(built)
          BY <2>2, <3>1
        <4> QED
          BY <2>2, <4>1, <4>2
      <3>2. CASE k = Len(built) + 1 /\ built'[k] = s[1]
        <4>1. d \in Order!ToSet(built)
          <5>1. \A j \in 1 .. 1 - 1 : FALSE
            OBVIOUS
          <5>2. d \in Order!ToSet(dependencies[s[1]])
            BY <2>11, <3>2
          <5> QED
            BY <1>2, <2>5, <5>1, <5>2 DEF Order!Below
        <4>2. PICK j \in DOMAIN built : built[j] = d
          BY <4>1 DEF Order!ToSet
        <4>3. j \in 1 .. Len(built) /\ j \in 1 .. k - 1
          BY <2>2, <3>2
        <4> QED
          BY <2>2, <4>2, <4>3
      <3> QED
        BY <2>3, <3>1, <3>2
    <2>12. Order!TypeOK'
      BY <1>1, <1>4, <2>1, <2>2 DEF Order!IInv, Order!TypeOK
    <2>13. Order!ToBuild'
      BY <1>1, <1>4, <2>7, <2>8, <2>10 DEF Order!ToBuild, Order!Below, Order!IsInjective
    <2>14. Order!Below(built, <<>>)' /\ Order!IsInjective(built)'
      BY <1>1, <2>6, <2>11 DEF Order!Below, Order!IsInjective
    <2>15. Order!Collected'
      BY <1>1, <1>4 DEF Order!Collected
    <2> QED
      BY <2>12, <2>13, <2>14, <2>15 DEF Order!IInv
  <1>5. s # <<>> => Tail(s) \in Seq(Order!Components)
    BY <1>2, FirstAndRest
  <1> QED
    BY <1>1, <1>2, <1>3, <1>4, <1>5 DEF Order!Build

LEMMA OrderStep == Order!IInv /\ [Order!BuildNext]_Order!buildvars => Order!IInv'
  <1> SUFFICES ASSUME Order!IInv, [Order!BuildNext]_Order!buildvars PROVE Order!IInv'
    OBVIOUS
  <1>1. CASE Order!Root
    <2>1. /\ build = "select" /\ UNCHANGED <<dependencies, selected_components, build, built>>
          /\ todo = <<>> /\ components # <<>>
          /\ todo' = <<Head(components)>> /\ components' = Tail(components)
      BY <1>1 DEF Order!Root
    <2>2. Head(components) \in Order!Components /\ Tail(components) \in Seq(Order!Components)
      BY <2>1, FirstAndRest DEF Order!IInv, Order!TypeOK
    <2>3. Order!TypeOK'
      BY <2>1, <2>2 DEF Order!IInv, Order!TypeOK
    <2>4. Order!ToSet(todo) = {} /\ Order!Below(selected_components, todo) /\ built = <<>>
      BY <2>1, NothingInside DEF Order!IInv, Order!Collected
    <2>5. \A k \in DOMAIN selected_components :
            \A d \in Order!ToSet(dependencies[selected_components[k]]) :
              \E j \in 1 .. k - 1 : selected_components[j] = d
      BY <2>4 DEF Order!Below
    <2>6. Order!Below(selected_components, todo)'
      <3> SUFFICES ASSUME NEW k \in DOMAIN selected_components',
                          NEW d \in Order!ToSet(dependencies'[selected_components'[k]])
                   PROVE  \E j \in 1 .. k - 1 : selected_components'[j] = d
        BY Zenon DEF Order!Below
      <3>1. /\ k \in DOMAIN selected_components
            /\ d \in Order!ToSet(dependencies[selected_components[k]])
        BY ONLY <2>1, k \in DOMAIN selected_components',
                d \in Order!ToSet(dependencies'[selected_components'[k]])
      <3>2. \E j \in 1 .. k - 1 : selected_components[j] = d
        BY ONLY <2>5, <3>1
      <3> QED
        BY ONLY <2>1, <3>2
    <2>7. Order!Collected'
      BY <2>1, <2>4, <2>6 DEF Order!Collected
    <2> QED
      BY <2>1, <2>3, <2>7 DEF Order!IInv, Order!ToBuild, Order!Below, Order!IsInjective
  <1>2. CASE UNCHANGED Order!buildvars
    <2> USE <1>2 DEF Order!buildvars, Order!IInv
    <2>1. Order!TypeOK'
      BY DEF Order!TypeOK
    <2>2. Order!Collected'
      BY DEF Order!Collected, Order!Below
    <2>3. Order!ToBuild'
      BY DEF Order!ToBuild, Order!Below, Order!IsInjective
    <2>4. Order!Below(built, <<>>)' /\ Order!IsInjective(built)'
      BY DEF Order!Below, Order!IsInjective
    <2> QED
      BY <2>1, <2>2, <2>3, <2>4
  <1> QED
    BY <1>1, <1>2, OrderSelect, OrderUnrepeated, OrderBuild DEF Order!BuildNext

LEMMA OrderSafe == Order!IInv => DependenciesFirst
  <1> SUFFICES ASSUME Order!IInv, NEW k \in DOMAIN built
               PROVE  /\ \A j \in DOMAIN built : built[j] = built[k] => j = k
                      /\ \A d \in Order!ToSet(dependencies[built[k]]) :
                           Order!Contains(SubSeq(built, 1, k - 1), d)
    BY DEF DependenciesFirst, Order!DependenciesFirst
  <1>1. \A j \in DOMAIN built : built[j] = built[k] => j = k
    BY DEF Order!IInv, Order!IsInjective
  <1>2. built \in Seq(Order!Components) /\ Len(built) \in Nat
  /\ DOMAIN built = 1 .. Len(built)
    BY LenProperties DEF Order!IInv, Order!TypeOK
  <1>3. ASSUME NEW d \in Order!ToSet(dependencies[built[k]])
        PROVE  Order!Contains(SubSeq(built, 1, k - 1), d)
    <2>1. PICK j \in 1 .. k - 1 : built[j] = d
      BY DEF Order!IInv, Order!Below, Order!ToSet
    <2>2. \A l \in 1 .. k - 1 : built[l] \in Order!Components
      BY <1>2, ElementOfSeq
    <2>3. 1 \in Int /\ k - 1 \in Int
      BY <1>2
    <2>4. /\ Len(SubSeq(built, 1, k - 1)) = IF 1 <= k - 1 THEN (k - 1) - 1 + 1 ELSE 0
          /\ \A l \in 1 .. (k - 1) - 1 + 1 : SubSeq(built, 1, k - 1)[l] = built[1 + l - 1]
      BY ONLY <2>2, <2>3, SubSeqProperties
    <2>5. /\ j \in 1 .. Len(SubSeq(built, 1, k - 1)) /\ j \in 1 .. (k - 1) - 1 + 1
          /\ 1 + j - 1 = j
      BY <1>2, <2>4
    <2> QED
      BY <2>1, <2>4, <2>5 DEF Order!Contains
  <1> QED
    BY <1>1, <1>3

-----------------------------------------------------------------------------
(* cli_function.py: what comes back of a command line.                     *)

(* Where an argument of main comes from.                                   *)
LEMMA CliResolved ==
  ASSUME NEW c
  PROVE  /\ DOMAIN Cli!GetArgs(c) = (DOMAIN Cli!default \cup DOMAIN conf) \cup Cli!Given(c)
         /\ \A k \in Cli!Given(c) : c[k] # <<>> => Cli!GetArgs(c)[k] = c[k]
         /\ \A k \in DOMAIN Cli!GetArgs(c) : k \in Cli!Given(c) /\ c[k] = <<>>
              => Cli!GetArgs(c)[k] = Cli!default[k]
         /\ \A k \in DOMAIN conf \ Cli!Given(c) : conf[k] # <<>> => Cli!GetArgs(c)[k] = conf[k]
         /\ \A k \in DOMAIN conf \ Cli!Given(c) : conf[k] = <<>>
              => Cli!GetArgs(c)[k] = Cli!default[k]
         /\ \A k \in DOMAIN Cli!GetArgs(c) : k \notin Cli!Given(c) /\ k \notin DOMAIN conf
              => Cli!GetArgs(c)[k] = Cli!default[k]
  <1> DEFINE W == Cli!WithConfig(c)
  <1>1. DOMAIN W = DOMAIN conf \cup Cli!Given(c)
    BY DEF Cli!WithConfig
  <1>2. /\ \A k \in Cli!Given(c) : W[k] = c[k]
        /\ \A k \in DOMAIN conf \ Cli!Given(c) : W[k] = conf[k]
    BY DEF Cli!WithConfig
  <1>3. /\ DOMAIN Cli!Resolved(W) = DOMAIN Cli!default \cup DOMAIN W
        /\ \A k \in DOMAIN W : W[k] # <<>> => Cli!Resolved(W)[k] = W[k]
        /\ \A k \in DOMAIN Cli!default \cup DOMAIN W :
             k \notin DOMAIN W \/ W[k] = <<>> => Cli!Resolved(W)[k] = Cli!default[k]
    BY DEF Cli!Resolved
  <1>4. Cli!GetArgs(c) = Cli!Resolved(W)
    BY DEF Cli!GetArgs
  <1> HIDE DEF W
  <1> QED
    BY <1>1, <1>2, <1>3, <1>4, Zenon

LEMMA CliEqual ==
  ASSUME NEW c, NEW d, DOMAIN Cli!GetArgs(c) = DOMAIN Cli!GetArgs(d),
         \A k \in DOMAIN Cli!GetArgs(c) : Cli!GetArgs(c)[k] = Cli!GetArgs(d)[k]
  PROVE  Cli!GetArgs(c) = Cli!GetArgs(d)
  BY DEF Cli!GetArgs, Cli!Resolved

LEMMA CliDefault ==
  /\ DOMAIN Cli!default = Cli!Keys \ {"pos_mandatory"}
  /\ Cli!default.append = <<>> /\ Cli!default.args_star = <<>>
  /\ Cli!default.pos_optional = <<"d">>
  /\ Cli!default.bool_true = <<"True">> /\ Cli!default.bool_cli = <<"False">>
  BY DEF Cli!default, Cli!Keys, Cli!Options, Cli!Positionals

LEMMA CliArgs ==
  ASSUME Cli!Parameters, Cli!IInv, step \notin {"call", "raised"}
  PROVE  /\ Cli!AreArguments(args) /\ Cli!AreArguments(conf) /\ DOMAIN args = Cli!Keys
         /\ DOMAIN conf \subseteq DOMAIN args
  <1>1. /\ Cli!AreArguments(call) /\ Cli!AreArguments(conf) /\ Cli!AreArguments(Cli!default)
        /\ args = Cli!GetArgs(call) /\ "pos_mandatory" \in DOMAIN args
    BY DEF Cli!IInv, Cli!Parameters
  <1>2. Cli!Given(call) \subseteq DOMAIN call
    BY DEF Cli!Given
  <1>3. DOMAIN args = Cli!Keys /\ DOMAIN conf \subseteq DOMAIN args
    BY <1>1, <1>2, CliResolved, CliDefault DEF Cli!AreArguments
  <1>4. ASSUME NEW k \in DOMAIN args
        PROVE  \/ (k \in DOMAIN call /\ args[k] = call[k])
               \/ (k \in DOMAIN conf /\ args[k] = conf[k])
               \/ (k \in DOMAIN Cli!default /\ args[k] = Cli!default[k])
    <2>1. k \in DOMAIN Cli!default \/ k \in Cli!Given(call) \/ k \in DOMAIN conf
      BY <1>1, CliResolved
    <2>2. k = "pos_mandatory" \/ k \in DOMAIN Cli!default
      BY <1>3, CliDefault
    <2>3. CASE k = "pos_mandatory"
      <3> DEFINE nothing == <<>>
      <3>4. Len(nothing) = 0
        OBVIOUS
      <3> HIDE DEF nothing
      <3>5. \A w : Len(w) = 1 => w # nothing
        BY <3>4
      <3>6. \A w : Len(w) = 1 => w # <<>>
        BY <3>5 DEF nothing
      <3>1. k \in Cli!Given(call) => Len(call[k]) = 1
        BY <1>1, <1>2, <2>3 DEF Cli!AreArguments
      <3>2. k \in DOMAIN conf => Len(conf[k]) = 1
        BY <1>1, <2>3 DEF Cli!AreArguments
      <3>3. k \notin DOMAIN Cli!default
        BY <2>3, CliDefault
      <3> QED
        BY <1>1, <1>2, <2>1, <3>1, <3>2, <3>3, <3>6, CliResolved
    <2>4. CASE k \in DOMAIN Cli!default
      BY <1>1, <1>2, <2>4, CliResolved
    <2> QED
      BY <2>2, <2>3, <2>4
  <1>5. Cli!AreArguments(args)
    BY <1>1, <1>3, <1>4 DEF Cli!AreArguments
  <1> QED
    BY <1>1, <1>3, <1>5

LEMMA CliInit == Cli!Init => Cli!IInv
  BY DEF Cli!Init, Cli!IInv

LEMMA CliStep == Cli!IInv /\ [Cli!CliNext]_Cli!clivars => Cli!IInv'
  <1> SUFFICES ASSUME Cli!IInv, [Cli!CliNext]_Cli!clivars PROVE Cli!IInv'
    OBVIOUS
  <1>1. conf' = conf /\ call' = call
    BY DEF Cli!CliNext, Cli!Call, Cli!GetCli, Cli!CliNoexit, Cli!clivars
  <1>2. Cli!GetArgs(call)' = Cli!GetArgs(call)
    BY <1>1 DEF Cli!GetArgs, Cli!Resolved, Cli!WithConfig, Cli!Given
  <1>3. args' = args => Cli!Written' = Cli!Written
    BY DEF Cli!Written, Cli!WordsOf, Cli!Differs, Cli!Option
  <1>4. line' = line => Cli!Parsed' = Cli!Parsed
    BY DEF Cli!Parsed, Cli!Value, Cli!Takes, Cli!Placed, Cli!Word, Cli!Left
  <1>5. line' = line => Cli!GetArgs(Cli!Parsed)' = Cli!GetArgs(Cli!Parsed)
    BY <1>1, <1>4 DEF Cli!GetArgs, Cli!Resolved, Cli!WithConfig, Cli!Given
  <1>6. CASE Cli!Call
    BY <1>1, <1>2, <1>6 DEF Cli!Call, Cli!IInv
  <1>7. CASE Cli!GetCli
    BY <1>1, <1>2, <1>3, <1>7 DEF Cli!GetCli, Cli!IInv
  <1>8. CASE Cli!CliNoexit
    BY <1>1, <1>2, <1>3, <1>4, <1>5, <1>8 DEF Cli!CliNoexit, Cli!IInv
  <1>9. CASE UNCHANGED Cli!clivars
    BY <1>1, <1>2, <1>3, <1>4, <1>5, <1>9 DEF Cli!clivars, Cli!IInv
  <1> QED
    BY <1>6, <1>7, <1>8, <1>9 DEF Cli!CliNext

-----------------------------------------------------------------------------
(* What (a \o b) \o c is, if a is one word.                               *)
IsThreeParts(S, w, a, b, c) ==
  /\ w \in Seq(S) /\ Len(b) \in Nat /\ Len(c) \in Nat
  /\ Len(w) = 1 + Len(b) + Len(c)
  /\ w[1] = a[1]
  /\ Len(b) = 1 => w[2] = b[1]
  /\ \A i \in 1 .. Len(c) : w[1 + Len(b) + i] = c[i]

LEMMA ThreeParts ==
  ASSUME NEW S, NEW a \in Seq(S), NEW b \in Seq(S), NEW c \in Seq(S), Len(a) = 1
  PROVE  IsThreeParts(S, (a \o b) \o c, a, b, c)
  <1> DEFINE w == (a \o b) \o c
             l == Len(b)
             m == Len(c)
             v == a \o b
  <1>1. l \in Nat /\ m \in Nat
    BY LenProperties
  <1>2. /\ v \in Seq(S) /\ Len(v) = 1 + l
        /\ \A i \in 1 .. 1 + l : v[i] = IF i <= 1 THEN a[i] ELSE b[i - 1]
    <2>1. /\ v \in Seq(S) /\ Len(v) = Len(a) + Len(b)
          /\ \A i \in 1 .. Len(a) + Len(b) : v[i] = IF i <= Len(a) THEN a[i] ELSE b[i - Len(a)]
      BY ConcatProperties
    <2> HIDE DEF v
    <2> QED
      BY <2>1
  <1>3. /\ w \in Seq(S) /\ Len(w) = Len(v) + m
        /\ \A i \in 1 .. Len(v) + m : w[i] = IF i <= Len(v) THEN v[i] ELSE c[i - Len(v)]
    BY <1>2, ConcatProperties
  <1> HIDE DEF l, m, v, w
  <1>4. Len(w) = 1 + l + m
    BY ONLY <1>1, <1>2, <1>3
  <1>5. w[1] = a[1]
    BY ONLY <1>1, <1>2, <1>3
  <1>6. l = 1 => w[2] = b[1]
    BY ONLY <1>1, <1>2, <1>3
  <1>7. ASSUME NEW i \in 1 .. m PROVE w[1 + l + i] = c[i]
    <2>1. 1 + l + i \in 1 .. Len(v) + m /\ ~(1 + l + i <= Len(v)) /\ (1 + l + i) - Len(v) = i
      BY ONLY <1>1, <1>2, i \in 1 .. m
    <2> QED
      BY ONLY <1>3, <2>1
  <1> QED
    BY <1>1, <1>3, <1>4, <1>5, <1>6, <1>7 DEF l, m, v, w, IsThreeParts

LEMMA NoWord == ASSUME NEW S, NEW s \in Seq(S) PROVE Len(s) \in Nat /\ (s = <<>> <=> Len(s) = 0)
  BY EmptySeq, LenProperties

(* The positional words of a command line.                                 *)
LEMMA CliPositional ==
  ASSUME Cli!Parameters, Cli!IInv, step \in {"converted", "parsed", "refused"}
  PROVE  /\ Cli!WordsOf("pos_mandatory") = args.pos_mandatory
         /\ args.pos_mandatory \in Seq(Words) /\ Len(args.pos_mandatory) = 1
         /\ Cli!WordsOf("pos_optional") \in Seq(Words)
         /\ Cli!Differs("pos_optional") => Len(Cli!WordsOf("pos_optional")) = 1
         /\ ~Cli!Differs("pos_optional") => Len(Cli!WordsOf("pos_optional")) = 0
         /\ Cli!WordsOf("args_star") = args.args_star /\ args.args_star \in Seq(Words)
         /\ line.positional = (args.pos_mandatory \o Cli!WordsOf("pos_optional")) \o args.args_star
         /\ line.options = [k \in {o \in Cli!Options : Cli!Differs(o)} |-> Cli!Option(k)]
  <1>1. /\ Cli!AreArguments(args) /\ DOMAIN args = Cli!Keys /\ line = Cli!Written
    BY CliArgs DEF Cli!IInv
  <1>2. /\ "pos_mandatory" \in Cli!Keys /\ "pos_optional" \in Cli!Keys /\ "args_star" \in Cli!Keys
    BY DEF Cli!Keys, Cli!Positionals
  <1>3. /\ args.pos_mandatory \in Seq(Words) /\ Len(args.pos_mandatory) = 1
        /\ args.pos_optional \in Seq(Words) /\ Len(args.pos_optional) = 1
        /\ args.args_star \in Seq(Words)
    BY <1>1, <1>2 DEF Cli!AreArguments
  <1>4. Cli!WordsOf("pos_mandatory") = args.pos_mandatory
    BY CliDefault DEF Cli!WordsOf, Cli!Differs
  <1>5. Cli!WordsOf("args_star") = args.args_star
    BY CliDefault DEF Cli!WordsOf, Cli!Differs
  <1>6. <<>> \in Seq(Words) /\ Len(<<>>) = 0
    BY EmptySeq
  <1>7. /\ Cli!WordsOf("pos_optional") \in Seq(Words)
        /\ Cli!Differs("pos_optional") => Len(Cli!WordsOf("pos_optional")) = 1
        /\ ~Cli!Differs("pos_optional") => Len(Cli!WordsOf("pos_optional")) = 0
    <2>1. CASE Cli!Differs("pos_optional")
      <3>1. Cli!WordsOf("pos_optional") = args.pos_optional
        BY <2>1 DEF Cli!WordsOf
      <3> QED
        BY <1>3, <2>1, <3>1
    <2>2. CASE ~Cli!Differs("pos_optional")
      <3>1. Cli!WordsOf("pos_optional") = <<>>
        BY <2>2 DEF Cli!WordsOf
      <3> QED
        BY <1>6, <2>2, <3>1
    <2> QED
      BY <2>1, <2>2
  <1> QED
    BY <1>1, <1>3, <1>4, <1>5, <1>7 DEF Cli!Written

LEMMA CliLeft ==
  ASSUME Cli!Parameters, Cli!IInv, step \in {"converted", "parsed", "refused"}
  PROVE  LET l == Len(Cli!WordsOf("pos_optional"))
             m == Len(args.args_star)
             w == line.positional
         IN  /\ w \in Seq(Words) /\ l \in {0, 1} /\ m \in Nat /\ Len(w) = 1 + l + m
             /\ w[1] = args.pos_mandatory[1]
             /\ l = 1 => w[2] = args.pos_optional[1]
             /\ \A i \in 1 .. m : w[1 + l + i] = args.args_star[i]
             /\ Cli!Left \in Seq(Words)
             /\ Cli!Takes => /\ Len(Cli!Left) = l + m
                             /\ \A i \in 1 .. l + m : Cli!Left[i] = w[i + 1]
  <1> DEFINE b == Cli!WordsOf("pos_optional")
             w == line.positional
             l == Len(b)
             m == Len(args.args_star)
  <1>1. /\ args.pos_mandatory \in Seq(Words) /\ b \in Seq(Words) /\ args.args_star \in Seq(Words)
        /\ Len(args.pos_mandatory) = 1 /\ l \in {0, 1}
        /\ w = (args.pos_mandatory \o b) \o args.args_star
    BY CliPositional
  <1>2. l = 1 => b = args.pos_optional
    BY CliPositional DEF Cli!WordsOf
  <1> HIDE DEF b, w
  <1>3. /\ w \in Seq(Words) /\ m \in Nat /\ Len(w) = 1 + l + m
        /\ w[1] = args.pos_mandatory[1]
        /\ l = 1 => w[2] = b[1]
        /\ \A i \in 1 .. m : w[1 + l + i] = args.args_star[i]
    <2> DEFINE a == args.pos_mandatory
               c == args.args_star
    <2>1. /\ a \in Seq(Words) /\ b \in Seq(Words) /\ c \in Seq(Words) /\ Len(a) = 1
          /\ w = (a \o b) \o c
      BY <1>1
    <2> HIDE DEF a, c
    <2>2. IsThreeParts(Words, w, a, b, c)
      BY ONLY <2>1, ThreeParts
    <2> QED
      BY <2>1, <2>2 DEF a, c, IsThreeParts
  <1> HIDE DEF l, m
  <1>4. Len(w) # 0 /\ Len(w) - 1 = l + m
    BY ONLY <1>1, <1>3
  <1>5. w # <<>>
    BY <1>3, <1>4, NoWord
  <1>6. /\ Tail(w) \in Seq(Words) /\ Len(Tail(w)) = Len(w) - 1
        /\ \A i \in 1 .. Len(Tail(w)) : Tail(w)[i] = w[i + 1]
    BY ONLY <1>3, <1>5, HeadTailProperties
  <1>7. Cli!Left = IF Cli!Takes THEN Tail(w) ELSE w
    BY DEF Cli!Left, w
  <1>8. Cli!Left \in Seq(Words)
    BY <1>3, <1>6, <1>7
  <1>9. Cli!Takes => /\ Len(Cli!Left) = l + m
                     /\ \A i \in 1 .. l + m : Cli!Left[i] = w[i + 1]
    BY <1>4, <1>6, <1>7
  <1> QED
    BY <1>1, <1>2, <1>3, <1>8, <1>9 DEF b, w, l, m

LEMMA CliPlaced ==
  ASSUME Cli!Left \in Seq(Words)
  PROVE  /\ Len(Cli!Left) \in Nat
         /\ DOMAIN Cli!Placed = Cli!Positionals
         /\ Cli!Placed.pos_mandatory = IF Len(Cli!Left) >= 1 THEN <<Cli!Left[1]>> ELSE <<>>
         /\ Cli!Placed.pos_optional = IF Len(Cli!Left) >= 2 THEN <<Cli!Left[2]>> ELSE <<>>
         /\ Cli!Placed.args_star \in Seq(Words)
         /\ Len(Cli!Placed.args_star) = IF Len(Cli!Left) >= 3 THEN Len(Cli!Left) - 2 ELSE 0
         /\ \A i \in 1 .. Len(Cli!Left) - 2 : Cli!Placed.args_star[i] = Cli!Left[i + 2]
  <1> DEFINE n == Len(Cli!Left)
  <1>1. n \in Nat /\ DOMAIN Cli!Left = 1 .. n /\ \A i \in 1 .. n : Cli!Left[i] \in Words
    BY LenProperties, ElementOfSeq
  <1>2. /\ Cli!Placed.pos_mandatory = Cli!Word(1) /\ Cli!Placed.pos_optional = Cli!Word(2)
        /\ Cli!Placed.args_star = SubSeq(Cli!Left, 3, n) /\ DOMAIN Cli!Placed = Cli!Positionals
    BY DEF Cli!Placed, Cli!Positionals
  <1>3. /\ SubSeq(Cli!Left, 3, n) \in Seq(Words)
        /\ Len(SubSeq(Cli!Left, 3, n)) = IF 3 <= n THEN n - 3 + 1 ELSE 0
        /\ \A i \in 1 .. n - 3 + 1 : SubSeq(Cli!Left, 3, n)[i] = Cli!Left[3 + i - 1]
    BY <1>1, SubSeqProperties, 3 \in Int
  <1>4. /\ 1 \in DOMAIN Cli!Left <=> n >= 1
        /\ 2 \in DOMAIN Cli!Left <=> n >= 2
    BY <1>1
  <1>5. /\ Cli!Word(1) = IF n >= 1 THEN <<Cli!Left[1]>> ELSE <<>>
        /\ Cli!Word(2) = IF n >= 2 THEN <<Cli!Left[2]>> ELSE <<>>
    BY <1>4 DEF Cli!Word
  <1> HIDE DEF n
  <1>6. \A i \in 1 .. n - 2 : i \in 1 .. n - 3 + 1 /\ 3 + i - 1 = i + 2
    BY <1>1
  <1>7. /\ Len(SubSeq(Cli!Left, 3, n)) = IF n >= 3 THEN n - 2 ELSE 0
        /\ \A i \in 1 .. n - 2 : SubSeq(Cli!Left, 3, n)[i] = Cli!Left[i + 2]
    BY <1>1, <1>3, <1>6
  <1> QED
    BY <1>1, <1>2, <1>3, <1>5, <1>7 DEF n

(* What argparse makes of it.                                              *)
LEMMA CliKinds ==
  /\ Cli!Keys = Cli!Options \cup Cli!Positionals
  /\ Cli!Options = {"append", "asdf", "bool_cli", "bool_nargs", "bool_true"}
  /\ Cli!Positionals = {"pos_mandatory", "pos_optional", "args_star"}
  /\ Cli!Bools = {"bool_cli", "bool_nargs", "bool_true"}
  /\ Cli!Options \cap Cli!Positionals = {}
  BY DEF Cli!Keys, Cli!Options, Cli!Positionals, Cli!Bools

LEMMA CliParsed ==
  ASSUME Cli!Parameters, Cli!IInv, step \in {"converted", "parsed", "refused"}
  PROVE  /\ DOMAIN Cli!Parsed = {o \in Cli!Options : Cli!Differs(o)}
                                 \cup {p \in Cli!Positionals : Cli!Placed[p] # <<>>}
         /\ \A o \in Cli!Options : Cli!Differs(o) => Cli!Parsed[o] = Cli!Value(o)
         /\ \A p \in Cli!Positionals : Cli!Placed[p] # <<>> => Cli!Parsed[p] = Cli!Placed[p]
         /\ Cli!Given(Cli!Parsed) = DOMAIN Cli!Parsed
  <1>1. DOMAIN line.options = {o \in Cli!Options : Cli!Differs(o)}
    BY CliPositional
  <1>2. /\ DOMAIN Cli!Parsed = DOMAIN line.options \cup {p \in Cli!Positionals : Cli!Placed[p] # <<>>}
        /\ \A k \in DOMAIN line.options \cup {p \in Cli!Positionals : Cli!Placed[p] # <<>>} :
             Cli!Parsed[k] = IF k \in Cli!Options THEN Cli!Value(k) ELSE Cli!Placed[k]
    BY DEF Cli!Parsed
  <1>3. \A o \in Cli!Options : Cli!Differs(o) => Cli!Parsed[o] = Cli!Value(o)
    BY <1>1, <1>2
  <1>4. \A p \in Cli!Positionals : Cli!Placed[p] # <<>> => Cli!Parsed[p] = Cli!Placed[p]
    BY <1>2, CliKinds
  <1>5. "args_star" \in DOMAIN Cli!Parsed => Cli!Parsed["args_star"] # <<>>
    <2>1. "args_star" \in Cli!Positionals /\ "args_star" \notin Cli!Options
      BY CliKinds
    <2> QED
      BY <1>1, <1>2, <1>4, <2>1
  <1>6. Cli!Given(Cli!Parsed) = DOMAIN Cli!Parsed
    BY <1>5 DEF Cli!Given
  <1> QED
    BY <1>1, <1>2, <1>3, <1>4, <1>6

LEMMA CliValue ==
  ASSUME Cli!Parameters, Cli!IInv, step \in {"converted", "parsed", "refused"}
  PROVE  /\ \A o \in {"asdf", "bool_cli", "bool_true"} : Cli!Differs(o) => Cli!Value(o) = args[o]
         /\ Cli!Differs("append") => Cli!Value("append") = Cli!Sorted(args.append)
         /\ Cli!Differs("bool_nargs") /\ Cli!Takes => Len(Cli!Value("bool_nargs")) = 1
         /\ Cli!Differs("bool_nargs") /\ ~Cli!Takes => Cli!Value("bool_nargs") = <<"">>
  <1>1. \A o \in Cli!Options : Cli!Differs(o) => line.options[o] = Cli!Option(o)
    BY CliPositional
  <1>2. ASSUME NEW o \in {"append", "asdf"}, Cli!Differs(o)
        PROVE  Cli!Value(o) = IF o = "append" THEN Cli!Sorted(args.append) ELSE args[o]
    <2>1. o \notin Cli!Bools /\ o # "bool_nargs" /\ o \in Cli!Options
      BY CliKinds
    <2>2. Cli!Value(o) = line.options[o].words
      BY <2>1 DEF Cli!Value
    <2>3. Cli!Option(o).words = IF o = "append" THEN Cli!Sorted(args.append) ELSE args[o]
      BY <2>1 DEF Cli!Option
    <2>4. line.options[o] = Cli!Option(o)
      BY <1>1, <1>2, <2>1
    <2> QED
      BY <2>2, <2>3, <2>4
  <1>3. ASSUME NEW o \in {"bool_cli", "bool_true"}, Cli!Differs(o) PROVE Cli!Value(o) = args[o]
    <2>1. args[o] \in {<<"True">>, <<"False">>}
      BY CliArgs, CliKinds DEF Cli!AreArguments
    <2>2. o \in Cli!Bools /\ o # "bool_nargs" /\ o \in Cli!Options
      BY CliKinds
    <2>3. Cli!Value(o) = IF line.options[o].no THEN <<"False">> ELSE <<"True">>
      BY <2>2 DEF Cli!Value
    <2>4. Cli!Option(o).no <=> args[o] \in {<<"">>, <<"False">>}
      BY <2>2 DEF Cli!Option
    <2>5. line.options[o] = Cli!Option(o)
      BY <1>1, <1>3, <2>2
    <2>6. line.options[o].no <=> args[o] \in {<<"">>, <<"False">>}
      BY <2>4, <2>5
    <2>7. CASE args[o] = <<"True">>
      <3>1. <<"True">> # <<"">> /\ <<"True">> # <<"False">>
        OBVIOUS
      <3>2. ~line.options[o].no
        BY <2>6, <2>7, <3>1
      <3> QED
        BY <2>3, <2>7, <3>2
    <2>8. CASE args[o] = <<"False">>
      BY <2>3, <2>6, <2>8
    <2> QED
      BY <2>1, <2>7, <2>8
  <1>4. /\ Cli!Takes => Cli!Value("bool_nargs") = <<Head(line.positional)>>
        /\ ~Cli!Takes => Cli!Value("bool_nargs") = <<"">>
    <2>1. "bool_nargs" \in Cli!Bools /\ "bool_nargs" \notin Cli!Bools \ {"bool_nargs"}
      BY CliKinds
    <2> QED
      BY <2>1 DEF Cli!Value
  <1>5. Len(<<Head(line.positional)>>) = 1
    OBVIOUS
  <1> QED
    BY <1>2, <1>3, <1>4, <1>5

(* What is not lost.                                                       *)
LEMMA CliFaithful ==
  ASSUME Cli!Parameters, Cli!IInv, step \in {"converted", "parsed", "refused"}, ~Cli!Lossy
  PROVE  "pos_mandatory" \in DOMAIN Cli!Parsed /\ Cli!GetArgs(Cli!Parsed) = args
  <1> DEFINE po == Cli!WordsOf("pos_optional")
             P  == Cli!Parsed
             g  == Cli!GetArgs(P)
  <1>1. /\ \A k \in DOMAIN conf : Cli!Differs(k) \/ conf[k] = Cli!default[k]
        /\ Cli!Differs("pos_optional") \/ ~Cli!Differs("args_star")
        /\ args.append = Cli!Sorted(args.append)
        /\ Cli!Differs("bool_nargs") => args.bool_nargs = <<"">> /\ Cli!Differs("bool_true")
    BY DEF Cli!Lossy
  <1>2. /\ Cli!AreArguments(args) /\ Cli!AreArguments(conf) /\ DOMAIN args = Cli!Keys
        /\ DOMAIN conf \subseteq Cli!Keys /\ args = Cli!GetArgs(call)
    BY CliArgs DEF Cli!IInv
  <1>3. ~Cli!Takes
    BY <1>1, CliPositional, CliKinds DEF Cli!Takes
  <1>4. /\ Cli!Left = line.positional /\ Cli!Left \in Seq(Words)
    BY <1>3, CliLeft DEF Cli!Left
  <1>5. /\ args.pos_mandatory \in Seq(Words) /\ Len(args.pos_mandatory) = 1
        /\ args.args_star \in Seq(Words)
        /\ po \in Seq(Words)
        /\ Cli!Differs("pos_optional") => Len(po) = 1 /\ po = args.pos_optional
        /\ ~Cli!Differs("pos_optional") => Len(po) = 0 /\ args.args_star = <<>>
    BY <1>1, CliPositional, CliDefault DEF Cli!WordsOf, Cli!Differs
  <1> DEFINE m == Len(args.args_star)
             w == line.positional
  <1>6. /\ m \in Nat /\ Len(w) = 1 + Len(po) + m
        /\ w[1] = args.pos_mandatory[1]
        /\ Len(po) = 1 => w[2] = args.pos_optional[1]
        /\ \A i \in 1 .. m : w[1 + Len(po) + i] = args.args_star[i]
    BY CliLeft
  <1> HIDE DEF po, m, w
  <1>7. Cli!Placed.pos_mandatory = args.pos_mandatory
    <2>1. Cli!Placed.pos_mandatory = <<w[1]>>
      <3>1. Len(w) >= 1
        BY <1>5, <1>6
      <3> QED
        BY <1>4, <3>1, CliPlaced DEF w
    <2>2. args.pos_mandatory = <<args.pos_mandatory[1]>>
      BY <1>5
    <2> QED
      BY <1>6, <2>1, <2>2
  <1>8. Cli!Placed.pos_optional = po
    <2>1. CASE Cli!Differs("pos_optional")
      <3>1. Len(w) >= 2
        BY <1>5, <1>6, <2>1
      <3>2. Cli!Placed.pos_optional = <<w[2]>>
        BY <1>4, <3>1, CliPlaced DEF w
      <3>3. po = <<po[1]>>
        BY <1>5, <2>1
      <3> QED
        BY <1>5, <1>6, <2>1, <3>2, <3>3
    <2>2. CASE ~Cli!Differs("pos_optional")
      <3>1. po = <<>> /\ m = 0
        BY <1>5, <2>2, NoWord DEF m
      <3>2. ~(Len(w) >= 2)
        BY <1>5, <1>6, <2>2, <3>1
      <3> QED
        BY <1>4, <3>1, <3>2, CliPlaced DEF w
    <2> QED
      BY <2>1, <2>2
  <1>9. Cli!Placed.args_star = args.args_star
    <2> DEFINE s == Cli!Placed.args_star
    <2>1. /\ s \in Seq(Words) /\ Len(s) = IF Len(w) >= 3 THEN Len(w) - 2 ELSE 0
          /\ \A i \in 1 .. Len(w) - 2 : s[i] = w[i + 2]
      BY <1>4, CliPlaced DEF w
    <2> HIDE DEF s
    <2>2. CASE Cli!Differs("pos_optional")
      <3>1. Len(s) = m /\ \A i \in 1 .. m : s[i] = args.args_star[i]
        <4> Len(po) = 1
          BY <1>5, <2>2
        <4>1. Len(w) = 2 + m
          BY <1>6
        <4>2. Len(s) = m
          BY ONLY <1>6, <2>1, <4>1
        <4>3. ASSUME NEW i \in 1 .. m PROVE s[i] = args.args_star[i]
          <5>1. i \in 1 .. Len(w) - 2 /\ 1 + 1 + i = i + 2
            BY <1>6, <4>1
          <5>2. s[i] = w[i + 2]
            BY <2>1, <5>1
          <5>3. w[1 + 1 + i] = args.args_star[i]
            BY <1>5, <1>6, <2>2
          <5> QED
            BY <5>1, <5>2, <5>3
        <4> QED
          BY <4>2, <4>3
      <3> QED
        BY <1>5, <2>1, <3>1, SeqEqual DEF m, s
    <2>3. CASE ~Cli!Differs("pos_optional")
      <3>1. m = 0 /\ args.args_star = <<>>
        BY <1>5, <2>3, NoWord DEF m
      <3>2. Len(w) = 1
        BY <1>5, <1>6, <2>3, <3>1
      <3>3. Len(s) = 0
        BY <2>1, <3>2
      <3>4. s = <<>>
        BY <2>1, <3>3, NoWord
      <3> QED
        BY <3>1, <3>4 DEF s
    <2> QED
      BY <2>2, <2>3
  <1>10. ASSUME NEW k \in Cli!Options
         PROVE  /\ Cli!Differs(k) => k \in DOMAIN P /\ P[k] = args[k]
                /\ ~Cli!Differs(k) => k \notin DOMAIN P
    <2>1. Cli!Differs(k) => Cli!Value(k) = args[k]
      BY <1>1, <1>3, CliValue, CliKinds
    <2> QED
      BY <2>1, CliParsed, CliKinds
  <1>11. ASSUME NEW k \in Cli!Positionals
         PROVE  /\ Cli!Differs(k) => k \in DOMAIN P /\ P[k] = args[k]
                /\ ~Cli!Differs(k) => k \notin DOMAIN P
    <2>1. Cli!Placed[k] = Cli!WordsOf(k)
      BY <1>7, <1>8, <1>9, CliPositional, CliKinds DEF po
    <2>2. Cli!Differs(k) => args[k] # <<>>
      BY <1>5, CliDefault, CliKinds, NoWord DEF Cli!Differs
    <2> QED
      BY <2>1, <2>2, CliParsed, CliKinds DEF Cli!WordsOf
  <1>12. ASSUME NEW k \in Cli!Keys, Cli!Differs(k) PROVE g[k] = args[k]
    <2>1. k \in DOMAIN P /\ P[k] = args[k]
      BY <1>10, <1>11, <1>12, CliKinds
    <2>2. args[k] # <<>>
      <3>1. CASE k \in {"append", "args_star"}
        BY <1>12, <3>1, CliDefault, CliKinds DEF Cli!Differs
      <3>2. CASE k \notin {"append", "args_star"}
        <4>1. args[k] \in Seq(Words) /\ Len(args[k]) = 1
          BY <1>2, <3>2 DEF Cli!AreArguments
        <4> QED
          BY <4>1, NoWord
      <3> QED
        BY <3>1, <3>2
    <2>3. k \in Cli!Given(P)
      BY <2>1, CliParsed
    <2> QED
      BY <2>1, <2>2, <2>3, CliResolved
  <1>13. DOMAIN g = Cli!Keys
    <2>1. "pos_mandatory" \in DOMAIN P /\ DOMAIN P \subseteq Cli!Keys
      BY <1>11, CliKinds, CliDefault, CliParsed DEF Cli!Differs
    <2>2. DOMAIN g = (DOMAIN Cli!default \cup DOMAIN conf) \cup DOMAIN P
      BY CliResolved, CliParsed
    <2> QED
      BY <1>2, <2>1, <2>2, CliDefault
  <1>14. ASSUME NEW k \in Cli!Keys, ~Cli!Differs(k) PROVE g[k] = args[k]
    <2>1. k \notin Cli!Given(P)
      BY <1>10, <1>11, <1>14, CliKinds, CliParsed
    <2>2. args[k] = Cli!default[k]
      BY <1>14 DEF Cli!Differs
    <2>3. k \in DOMAIN conf => conf[k] = Cli!default[k]
      BY <1>1, <1>14
    <2> QED
      BY <1>13, <2>1, <2>2, <2>3, CliResolved
  <1>15. g = args
    BY <1>2, <1>12, <1>13, <1>14, CliEqual
  <1> QED
    BY <1>11, <1>15, CliKinds, CliDefault DEF Cli!Differs

(* An argument that is not in the command line is that of the              *)
(* configuration file, or the default.                                     *)
LEMMA CliUnwritten ==
  ASSUME Cli!Parameters, Cli!IInv, step = "parsed", again = args, NEW k \in Cli!Keys,
         k \notin DOMAIN Cli!Parsed
  PROVE  /\ k \in DOMAIN Cli!default
         /\ args[k] # Cli!default[k] => k \in DOMAIN conf /\ conf[k] = args[k]
         /\ k \in DOMAIN conf => conf[k] = args[k]
  <1> DEFINE P == Cli!Parsed
             g == Cli!GetArgs(P)
  <1>1. /\ g = args /\ k # "pos_mandatory" /\ k \in DOMAIN Cli!default
    BY CliDefault DEF Cli!IInv
  <1>2. k \in DOMAIN g /\ k \notin Cli!Given(P)
    BY <1>1, CliArgs, CliParsed
  <1>3. k \in DOMAIN conf /\ conf[k] # <<>> => g[k] = conf[k]
    BY <1>2, CliResolved
  <1>4. k \in DOMAIN conf /\ conf[k] = <<>> => g[k] = Cli!default[k] /\ Cli!default[k] = <<>>
    <2> SUFFICES ASSUME k \in DOMAIN conf, conf[k] = <<>>
                 PROVE  g[k] = Cli!default[k] /\ Cli!default[k] = <<>>
      OBVIOUS
    <2>1. conf[k] \in Seq(Words) /\ (k \notin {"append", "args_star"} => Len(conf[k]) = 1)
      BY CliArgs DEF Cli!AreArguments
    <2>2. k \in {"append", "args_star"}
      BY <2>1, NoWord
    <2>3. Cli!default[k] = <<>>
      BY <2>2, CliDefault
    <2> QED
      BY <1>2, <2>3, CliResolved
  <1>5. k \notin DOMAIN conf => g[k] = Cli!default[k]
    BY <1>2, CliResolved
  <1> HIDE DEF g
  <1> QED
    BY <1>1, <1>3, <1>4, <1>5

LEMMA CliWrittenOnce ==
  ASSUME Cli!Parameters, Cli!IInv, step = "parsed", again = args, NEW k \in DOMAIN Cli!Parsed,
         Cli!Parsed[k] # <<>>
  PROVE  args[k] = Cli!Parsed[k]
  <1>1. Cli!GetArgs(Cli!Parsed) = args
    BY DEF Cli!IInv
  <1>2. k \in Cli!Given(Cli!Parsed)
    BY CliParsed
  <1> QED
    BY <1>1, <1>2, CliResolved

(* What a configuration file sets is neither the default nor what stands   *)
(* first on the command line.                                              *)
LEMMA CliApart ==
  ASSUME Cli!Parameters, Cli!IInv, step = "parsed", Cli!Apart,
         NEW k \in {"pos_optional", "args_star"} \cap DOMAIN conf, NEW j \in DOMAIN conf[k]
  PROVE  conf[k][j] # "d" /\ conf[k][j] # args.pos_mandatory[1]
  <1>1. /\ conf \in Configs /\ call \in Calls /\ args = Cli!GetArgs(call)
        /\ "pos_mandatory" \in DOMAIN args
    BY DEF Cli!IInv
  <1>2. "pos_mandatory" \notin DOMAIN conf /\ "pos_mandatory" \notin DOMAIN Cli!default
    BY <1>1, CliDefault DEF Cli!Apart
  <1>3. "pos_mandatory" \in Cli!Given(call)
    BY <1>1, <1>2, CliResolved
  <1>4. "pos_mandatory" \in Cli!Positionals \cap DOMAIN call
    BY <1>3, CliKinds DEF Cli!Given
  <1>5. /\ call["pos_mandatory"] \in Seq(Words) /\ Len(call["pos_mandatory"]) = 1
    BY <1>1, <1>4 DEF Cli!Parameters, Cli!AreArguments
  <1>6. args.pos_mandatory = call["pos_mandatory"]
    <2>1. call["pos_mandatory"] # <<>>
      BY ONLY <1>5, NoWord
    <2> QED
      BY <1>1, <1>3, <2>1, CliResolved
  <1>7. 1 \in DOMAIN call["pos_mandatory"]
    BY <1>5, LenProperties
  <1> QED
    BY <1>1, <1>4, <1>6, <1>7 DEF Cli!Apart

(* A Boolean that takes the first positional word: the others move up.     *)
LEMMA CliMovedUp ==
  ASSUME Cli!Parameters, Cli!IInv, step = "parsed", again = args, Cli!Apart, Cli!Takes
  PROVE  FALSE
  <1> DEFINE po == Cli!WordsOf("pos_optional")
             as == args.args_star
             L  == Cli!Left
             l  == Len(po)
             m  == Len(as)
             w  == line.positional
  <1>1. /\ l \in {0, 1} /\ m \in Nat /\ Len(L) = l + m /\ L \in Seq(Words)
        /\ \A i \in 1 .. l + m : L[i] = w[i + 1]
        /\ l = 1 => w[2] = args.pos_optional[1]
        /\ \A i \in 1 .. m : w[1 + l + i] = as[i]
    BY CliLeft
  <1>2. /\ as \in Seq(Words) /\ DOMAIN as = 1 .. m
        /\ Cli!Differs("pos_optional") <=> l = 1
        /\ l = 1 => po = args.pos_optional /\ po \in Seq(Words) /\ DOMAIN po = 1 .. 1
    BY CliPositional, LenProperties DEF Cli!WordsOf
  <1>3. "args_star" \in Cli!Positionals /\ "pos_optional" \in Cli!Positionals
        /\ "pos_mandatory" \in Cli!Positionals /\ Cli!Positionals \subseteq Cli!Keys
    BY CliKinds
  <1>4. /\ Cli!Placed.pos_mandatory = IF Len(L) >= 1 THEN <<L[1]>> ELSE <<>>
        /\ Cli!Placed.pos_optional = IF Len(L) >= 2 THEN <<L[2]>> ELSE <<>>
        /\ Len(Cli!Placed.args_star) = IF Len(L) >= 3 THEN Len(L) - 2 ELSE 0
        /\ Cli!Placed.args_star \in Seq(Words)
    BY <1>1, CliPlaced
  <1>5. \A p \in Cli!Positionals : p \in DOMAIN Cli!Parsed <=> Cli!Placed[p] # <<>>
    BY CliParsed, CliKinds
  <1>6. \A p \in Cli!Positionals : Cli!Placed[p] # <<>> => args[p] = Cli!Placed[p]
    BY <1>5, CliParsed, CliWrittenOnce
  <1> HIDE DEF po, as, L, l, m, w
  <1>7. Len(L) >= 1 /\ args.pos_mandatory[1] = L[1]
    <2>1. Cli!Placed.pos_mandatory # <<>>
      BY <1>3, <1>5 DEF Cli!IInv
    <2>2. Len(L) >= 1 /\ Cli!Placed.pos_mandatory = <<L[1]>>
      BY <1>4, <2>1
    <2> QED
      BY <1>3, <1>6, <2>1, <2>2
  <1>8. Len(L) <= 2
    <2> SUFFICES ASSUME Len(L) >= 3 PROVE FALSE
      BY <1>1
    <2>1. Len(Cli!Placed.args_star) = (l + m) - 2 /\ (l + m) - 2 # 0 /\ (l + m) - 2 # m
      BY <1>1, <1>4
    <2>2. Cli!Placed.args_star # <<>>
      BY <1>4, <2>1, NoWord
    <2>3. Len(as) = (l + m) - 2
      BY <1>3, <1>6, <2>1, <2>2 DEF as
    <2> QED
      BY <2>1, <2>3 DEF m
  <1>9. "args_star" \notin DOMAIN Cli!Parsed
    <2>1. Len(Cli!Placed.args_star) = 0
      BY <1>1, <1>4, <1>8
    <2>2. Cli!Placed.args_star = <<>>
      BY <1>4, <2>1, NoWord
    <2> QED
      BY <1>3, <1>5, <2>2
  <1>10. ASSUME m >= 1 PROVE as[1] # args.pos_mandatory[1]
    <2>1. 1 \in DOMAIN as /\ as # <<>>
      <3>1. m # 0 /\ 1 \in 1 .. m
        BY ONLY <1>1, <1>10
      <3> QED
        BY <1>2, <3>1, NoWord DEF m
    <2>2. "args_star" \in DOMAIN conf /\ conf["args_star"] = as
      BY <1>3, <1>9, <2>1, CliUnwritten, CliDefault DEF as
    <2> QED
      BY <2>1, <2>2, CliApart
  <1>11. CASE l = 0
    <2>1. m >= 1 /\ 1 \in 1 .. m /\ 1 \in 1 .. l + m /\ 1 + l + 1 = 1 + 1
      BY <1>1, <1>7, <1>11
    <2>2. L[1] = w[1 + 1] /\ w[1 + l + 1] = as[1]
      BY <1>1, <2>1
    <2>3. L[1] = as[1]
      BY <2>1, <2>2
    <2> QED
      BY <1>7, <1>10, <2>1, <2>3
  <1>12. CASE l = 1
    <2>1. L[1] = args.pos_optional[1]
      BY <1>1, <1>12
    <2>2. CASE m >= 1
      <3>1. 1 \in 1 .. m /\ 2 \in 1 .. l + m /\ 1 + l + 1 = 2 + 1 /\ Len(L) >= 2
        BY <1>1, <1>12, <2>2
      <3>2. L[2] = as[1]
        BY <1>1, <3>1
      <3>3. args.pos_optional = <<L[2]>>
        <4> <<L[2]>> # <<>>
          OBVIOUS
        <4>1. Cli!Placed.pos_optional = <<L[2]>>
          BY <1>4, <3>1
        <4> QED
          BY <1>3, <1>6, <4>1
      <3> QED
        BY <1>7, <1>10, <2>1, <2>2, <3>2, <3>3
    <2>3. CASE m = 0
      <3>1. ~(Len(L) >= 2)
        BY <1>1, <1>12, <2>3
      <3>2. "pos_optional" \notin DOMAIN Cli!Parsed
        BY <1>3, <1>4, <1>5, <3>1
      <3>3. "pos_optional" \in DOMAIN conf /\ conf["pos_optional"] = args.pos_optional
        BY <1>2, <1>3, <1>12, <3>2, CliUnwritten, CliDefault DEF Cli!Differs
      <3>4. 1 \in DOMAIN conf["pos_optional"]
        BY <1>2, <1>12, <3>3
      <3> QED
        BY <1>7, <2>1, <3>3, <3>4, CliApart
    <2> QED
      BY <1>1, <2>2, <2>3
  <1> QED
    BY <1>1, <1>11, <1>12

(* A default in front of the words of args_star is left out: they move up. *)
LEMMA CliLeftOut ==
  ASSUME Cli!Parameters, Cli!IInv, step = "parsed", again = args, Cli!Apart, ~Cli!Takes,
         ~Cli!Differs("pos_optional"), Cli!Differs("args_star")
  PROVE  FALSE
  <1> DEFINE as == args.args_star
             L  == Cli!Left
             m  == Len(as)
             w  == line.positional
  <1>1. /\ m \in Nat /\ L = w /\ L \in Seq(Words) /\ Len(L) = 1 + m
        /\ \A i \in 1 .. m : L[1 + i] = as[i]
    <2>1. Len(Cli!WordsOf("pos_optional")) = 0
      BY CliPositional
    <2>2. /\ m \in Nat /\ L \in Seq(Words) /\ Len(w) = 1 + 0 + m
          /\ \A i \in 1 .. m : w[1 + 0 + i] = as[i]
      BY <2>1, CliLeft
    <2>3. L = w
      BY DEF Cli!Left
    <2> HIDE DEF as, L, m, w
    <2>4. \A i \in 1 .. m : 1 + 0 + i = 1 + i
      OBVIOUS
    <2>5. Len(w) = 1 + m
      BY <2>2
    <2> QED
      BY <2>2, <2>3, <2>4, <2>5
  <1>2. as \in Seq(Words) /\ as # <<>> /\ m >= 1 /\ DOMAIN as = 1 .. m
    <2>1. as \in Seq(Words)
      BY CliPositional
    <2>2. as # <<>>
      BY CliDefault, CliKinds DEF Cli!Differs
    <2>3. m # 0 /\ DOMAIN as = 1 .. m
      BY <2>1, <2>2, NoWord, LenProperties
    <2> QED
      BY <1>1, <2>1, <2>2, <2>3
  <1>3. "args_star" \in Cli!Positionals /\ "pos_optional" \in Cli!Positionals
        /\ Cli!Positionals \subseteq Cli!Keys
    BY CliKinds
  <1>4. /\ Cli!Placed.pos_optional = IF Len(L) >= 2 THEN <<L[2]>> ELSE <<>>
        /\ Len(Cli!Placed.args_star) = IF Len(L) >= 3 THEN Len(L) - 2 ELSE 0
        /\ Cli!Placed.args_star \in Seq(Words)
    BY <1>1, CliPlaced
  <1>5. \A p \in Cli!Positionals : p \in DOMAIN Cli!Parsed <=> Cli!Placed[p] # <<>>
    BY CliParsed, CliKinds
  <1>6. \A p \in Cli!Positionals : Cli!Placed[p] # <<>> => args[p] = Cli!Placed[p]
    BY <1>5, CliParsed, CliWrittenOnce
  <1> HIDE DEF as, L, m, w
  <1>7. m = 1
    <2> SUFFICES ASSUME m >= 2 PROVE FALSE
      BY <1>1, <1>2
    <2>1. Len(Cli!Placed.args_star) = m - 1 /\ m - 1 # 0 /\ m - 1 # m
      BY <1>1, <1>4
    <2>2. Cli!Placed.args_star # <<>>
      BY <1>4, <2>1, NoWord
    <2>3. Len(as) = m - 1
      BY <1>3, <1>6, <2>1, <2>2 DEF as
    <2> QED
      BY <2>1, <2>3 DEF m
  <1>8. "args_star" \notin DOMAIN Cli!Parsed
    <2>1. Len(Cli!Placed.args_star) = 0
      BY <1>1, <1>4, <1>7
    <2>2. Cli!Placed.args_star = <<>>
      BY <1>4, <2>1, NoWord
    <2> QED
      BY <1>3, <1>5, <2>2
  <1>9. "args_star" \in DOMAIN conf /\ conf["args_star"] = as
    BY <1>2, <1>3, <1>8, CliUnwritten, CliDefault DEF as
  <1>10. args.pos_optional = <<as[1]>>
    <2>1. Len(L) >= 2 /\ 1 \in 1 .. m /\ 1 + 1 = 2
      BY <1>1, <1>7
    <2>2. L[2] = as[1]
      BY <1>1, <2>1
    <2>3. <<L[2]>> # <<>>
      OBVIOUS
    <2>4. Cli!Placed.pos_optional = <<L[2]>>
      BY <1>4, <2>1
    <2> QED
      BY <1>3, <1>6, <2>2, <2>3, <2>4
  <1>11. args.pos_optional = <<"d">>
    BY CliDefault DEF Cli!Differs
  <1>12. 1 \in DOMAIN conf["args_star"] /\ conf["args_star"][1] = "d"
    <2>1. <<as[1]>>[1] = <<"d">>[1]
      BY <1>10, <1>11
    <2>2. as[1] = "d"
      BY <2>1
    <2>3. 1 \in 1 .. m
      BY <1>7
    <2> QED
      BY <1>2, <1>9, <2>2, <2>3
  <1> QED
    BY <1>9, <1>12, CliApart

(* What is lost.                                                           *)
LEMMA CliLost ==
  ASSUME Cli!Parameters, Cli!IInv, step = "parsed", again = args, Cli!Apart, Cli!Lossy
  PROVE  FALSE
  <1>1. ~Cli!Takes
    BY CliMovedUp
  <1>2. Cli!Differs("pos_optional") \/ ~Cli!Differs("args_star")
    BY <1>1, CliLeftOut
  <1>3. \A o \in Cli!Options : o \in DOMAIN Cli!Parsed <=> Cli!Differs(o)
    BY CliParsed, CliKinds DEF Cli!Differs
  <1>4. CASE Cli!Differs("bool_nargs") /\ ~(args.bool_nargs = <<"">> /\ Cli!Differs("bool_true"))
    <2>1. Cli!Differs("bool_true")
      BY <1>1, <1>4, CliPositional, CliKinds DEF Cli!Takes
    <2>2. Cli!Value("bool_nargs") = <<"">> /\ <<"">> # <<>>
      BY <1>1, <1>4, CliValue
    <2>3. /\ "bool_nargs" \in DOMAIN Cli!Parsed
          /\ Cli!Parsed["bool_nargs"] = Cli!Value("bool_nargs")
      BY <1>3, <1>4, CliParsed, CliKinds
    <2>4. args.bool_nargs = <<"">>
      BY <2>2, <2>3, CliWrittenOnce
    <2> QED
      BY <1>4, <2>1, <2>4
  <1>5. CASE args.append # Cli!Sorted(args.append)
    <2> DEFINE s == args.append
    <2>1. DOMAIN Cli!Sorted(s) = DOMAIN s
      BY DEF Cli!Sorted
    <2>2. Cli!Sorted(<<>>) = <<>>
      BY DEF Cli!Sorted
    <2>3. s # <<>> /\ s \in Seq(Words)
      BY <1>5, <2>2, CliArgs, CliKinds DEF Cli!AreArguments
    <2>4. Cli!Differs("append")
      BY <2>3, CliDefault DEF Cli!Differs
    <2>5. DOMAIN s # {}
      <3>1. Len(s) \in Nat /\ Len(s) # 0 /\ DOMAIN s = 1 .. Len(s)
        BY <2>3, NoWord, LenProperties
      <3>2. 1 \in DOMAIN s
        BY <3>1
      <3> QED
        BY <3>2
    <2>6. Cli!Sorted(s) # <<>>
      BY <2>1, <2>5
    <2>7. "append" \in DOMAIN Cli!Parsed /\ Cli!Parsed["append"] = Cli!Sorted(s)
      BY <1>3, <2>4, CliParsed, CliValue, CliKinds
    <2>8. s = Cli!Sorted(s)
      BY <2>6, <2>7, CliWrittenOnce
    <2> QED
      BY <1>5, <2>8
  <1>6. CASE \E k \in DOMAIN conf : ~Cli!Differs(k) /\ conf[k] # Cli!default[k]
    <2>1. PICK k \in DOMAIN conf : ~Cli!Differs(k) /\ conf[k] # Cli!default[k]
      BY <1>6
    <2>2. k \in Cli!Keys /\ args[k] = Cli!default[k]
      BY <2>1, CliArgs DEF Cli!Differs
    <2>3. k \notin DOMAIN Cli!Parsed
      <3>1. CASE k \in Cli!Options
        BY <1>3, <2>1, <3>1
      <3>2. CASE k \in Cli!Positionals
        <4> DEFINE n == Len(Cli!WordsOf("pos_optional"))
                   m == Len(args.args_star)
        <4>0. k \in {"pos_optional", "args_star"}
          BY <2>1, <3>2, CliDefault, CliKinds DEF Cli!Differs
        <4>1. /\ Cli!Left = line.positional /\ Cli!Left \in Seq(Words)
              /\ Len(Cli!Left) = 1 + n + m /\ n \in {0, 1}
          BY <1>1, CliLeft DEF Cli!Left
        <4>2. ~Cli!Differs("args_star")
          BY <1>2, <2>1, <4>0
        <4>3. m = 0
          BY <4>2, CliDefault, CliKinds, NoWord, CliPositional DEF Cli!Differs
        <4>4. Cli!Differs("pos_optional") \/ n = 0
          BY CliPositional
        <4> HIDE DEF n, m
        <4>5. Cli!Placed.args_star = <<>>
          <5>1. Len(Cli!Placed.args_star) = 0 /\ Cli!Placed.args_star \in Seq(Words)
            BY <4>1, <4>3, CliPlaced
          <5> QED
            BY <5>1, NoWord
        <4>6. ~Cli!Differs("pos_optional") => Cli!Placed.pos_optional = <<>>
          <5>1. ~Cli!Differs("pos_optional") => ~(Len(Cli!Left) >= 2)
            BY <4>1, <4>3, <4>4
          <5> QED
            BY <4>1, <5>1, CliPlaced
        <4>7. Cli!Placed[k] = <<>>
          BY <2>1, <4>0, <4>5, <4>6
        <4> QED
          BY <3>2, <4>7, CliParsed, CliKinds
      <3> QED
        BY <2>2, <3>1, <3>2, CliKinds
    <2> QED
      BY <2>1, <2>2, <2>3, CliUnwritten
  <1> QED
    BY <1>2, <1>4, <1>5, <1>6 DEF Cli!Lossy

LEMMA CliSafe == Cli!Parameters /\ Cli!IInv => Cli!RoundTrip
  <1> SUFFICES ASSUME Cli!Parameters, Cli!IInv PROVE Cli!RoundTrip
    OBVIOUS
  <1>1. step \in {"parsed", "refused"} /\ ~Cli!Lossy => again = args
    BY CliFaithful DEF Cli!IInv
  <1>2. step = "refused" => again # args
    BY CliArgs, CliKinds DEF Cli!IInv, Cli!Nothing
  <1>3. step = "parsed" /\ Cli!Lossy /\ again = args => ~Cli!Apart
    BY CliLost
  <1>4. ASSUME step # "call", NEW k \in DOMAIN call, call[k] # <<>> PROVE args[k] = call[k]
    <2>1. k \in Cli!Given(call)
      BY <1>4 DEF Cli!Given
    <2> QED
      BY <1>4, <2>1, CliResolved DEF Cli!IInv
  <1> QED
    BY <1>1, <1>2, <1>3, <1>4 DEF Cli!RoundTrip

-----------------------------------------------------------------------------
(* The scripts on the real pool: IInv of ThreadPool and of TestRunner, and *)
(* the pool that is open was made for this script.                         *)
MadeForScript ==
  caller # "returned" =>
    IF script = "boot" THEN ~submit_raise_exit /\ submit_skip_exit = quit_on_fail
    ELSE submit_raise_exit = quit_on_fail /\ ~submit_skip_exit

ScriptsInv == IInv /\ MadeForScript /\ Runner!IInv

LEMMA NotMadeInv == NotMade => IInv
  <1> SUFFICES ASSUME NotMade PROVE IInv
    OBVIOUS
  <1>1. TypeOK
    <2>1. pc \in [Workers -> {"get", "work", "check", "lock", "store", "exited"}]
      BY DEF NotMade
    <2>2. input \in [Workers -> Items \cup {None}] /\ handled \in [Items -> Nat]
      BY DEF NotMade
    <2>3. in_queue \in Seq(Items \cup {None}) /\ poisons \in 0 .. maxsize
      BY MaxsizeType DEF NotMade
    <2> QED
      BY <2>1, <2>2, <2>3 DEF NotMade, TypeOK
  <1>2. DOMAIN in_queue = {}
    BY DEF NotMade
  <1>3. Conservation
    BY <1>2 DEF NotMade, Conservation, Queued, Held
  <1>4. QueuedOnce /\ PoisonIsLast /\ PoisonMeansJoin
    BY <1>2 DEF NotMade, QueuedOnce, PoisonIsLast, PoisonMeansJoin
  <1>5. HeldOnce /\ WorkHasInput /\ ResultComing /\ LateOnce
    BY DEF NotMade, HeldOnce, WorkHasInput, ResultComing, LateOnce
  <1>6. Returned
    BY DEF NotMade, Returned, AllJoined
  <1>7. QED
    BY <1>1, <1>3, <1>4, <1>5, <1>6 DEF IInv

LEMMA MadeForInv == ASSUME NEW raise \in BOOLEAN, MadeFor(raise) PROVE IInv'
  <1>1. Init'
    BY DEF MadeFor, Raises, Init
  <1>2. Init' => IInv'
    BY InitInv, PTL
  <1> QED
    BY <1>1, <1>2

LEMMA ScriptsStart == ScriptsInit => ScriptsInv /\ Runner!Init
  <1> SUFFICES ASSUME ScriptsInit PROVE ScriptsInv /\ Runner!Init
    OBVIOUS
  <1>1. IInv
    BY InitInv, NotMadeInv DEF ScriptsInit
  <1>2. MadeForScript
    BY DEF ScriptsInit, MadeForScript, NotMade
  <1>3. /\ submitted = {} /\ reports = {} /\ handle_output_result = None
        /\ caller = IF script = "boot" THEN "idle" ELSE "returned"
    BY DEF ScriptsInit, Init, NotMade
  <1>4. Runner!Init
    BY <1>3 DEF ScriptsInit, Runner!Init, pending, finished, outcome, phase
  <1> QED
    BY <1>1, <1>2, <1>4, RunnerStarts, TestsAssumption DEF ScriptsInv

(* The calls that main makes on the pool, and what the threads do.         *)
LEMMA ScriptsPoolInv == ASSUME ScriptsInv, ScriptsNext PROVE IInv' /\ MadeForScript'
  <1>1. IInv /\ MadeForScript /\ quit_on_fail \in BOOLEAN
    BY DEF ScriptsInv, Runner!IInv, Runner!TypeOK
  <1>2. /\ UNCHANGED <<script, quit_on_fail>>
        /\ \/ UNCHANGED vars
           \/ MadeFor(quit_on_fail) /\ script # "boot"
           \/ SubmitRead \/ JoinBegin \/ JoinReturn \/ JoinPut
           \/ SubmitPut(<<round, test>>)
           \/ \E w \in Workers : Get(w) \/ Check(w) \/ Acquire(w) \/ Store(w)
           \/ \E w \in Workers, gaveResult \in BOOLEAN : Work(w, gaveResult)
    <2>1. CASE Alone \/ WalkRaises
      BY <2>1 DEF Alone, WalkRaises, Runner!Loop, Runner!LoopDone, Runner!After,
                  Runner!Teardown, Runner!Summary, Runner!WalkRaises, Runner!request
    <2>2. CASE TimedMain
      BY <2>2 DEF TimedMain, request
    <2>3. CASE SubmitTest \/ PutTest \/ Leave \/ Poison \/ Joined
      BY <2>3 DEF SubmitTest, PutTest, Leave, Poison, Joined, request, scriptvars
    <2>4. ASSUME NEW w \in Workers, Thread(w)
          PROVE  /\ UNCHANGED <<script, quit_on_fail>>
                 /\ \/ Get(w) \/ Check(w) \/ Acquire(w) \/ Store(w)
                    \/ \E gaveResult \in BOOLEAN : Work(w, gaveResult)
      BY <2>4 DEF Thread, RunTest, request, scriptvars
    <2> QED
      BY <2>1, <2>2, <2>3, <2>4 DEF ScriptsNext, Main
  <1>3. IInv'
    <2>1. CASE UNCHANGED vars
      BY <1>1, <2>1, StutterStep
    <2>2. CASE MadeFor(quit_on_fail)
      BY <1>1, <2>2, MadeForInv
    <2>3. CASE SubmitRead \/ JoinBegin \/ JoinReturn
      BY <1>1, <2>3, CallerStep
    <2>4. CASE JoinPut
      BY <1>1, <2>4, JoinPutStep
    <2>5. CASE SubmitPut(<<round, test>>)
      <3>1. <<round, test>> \in Items
        BY <2>5 DEF SubmitPut
      <3> QED
        BY <1>1, <2>5, <3>1, SubmitPutStep
    <2>6. ASSUME NEW w \in Workers, Get(w) \/ Check(w) \/ Acquire(w) \/ Store(w)
          PROVE  IInv'
      BY <1>1, <2>6, GetStep, ResultStep
    <2>7. ASSUME NEW w \in Workers, NEW gaveResult \in BOOLEAN, Work(w, gaveResult)
          PROVE  IInv'
      BY <1>1, <2>7, WorkStep
    <2> QED
      BY <1>2, <2>1, <2>2, <2>3, <2>4, <2>5, <2>6, <2>7
  <1>4. MadeForScript'
    <2>1. CASE MadeFor(quit_on_fail) /\ script # "boot"
      BY <1>2, <2>1 DEF MadeFor, Raises, MadeForScript
    <2>2. CASE /\ UNCHANGED <<submit_raise_exit, submit_skip_exit>>
               /\ caller' # "returned" => caller # "returned"
      BY <1>1, <1>2, <2>2 DEF MadeForScript
    <2>3. CASE UNCHANGED vars
      BY <2>2, <2>3 DEF vars, config
    <2>4. CASE SubmitRead \/ JoinBegin \/ JoinReturn \/ JoinPut \/ SubmitPut(<<round, test>>)
      BY <2>2, <2>4 DEF SubmitRead, JoinBegin, JoinReturn, JoinPut, SubmitPut, config
    <2>5. ASSUME NEW w \in Workers, Get(w) \/ Check(w) \/ Acquire(w) \/ Store(w)
          PROVE  MadeForScript'
      BY <2>2, <2>5 DEF Get, Check, Acquire, Store, config
    <2>6. ASSUME NEW w \in Workers, NEW gaveResult \in BOOLEAN, Work(w, gaveResult)
          PROVE  MadeForScript'
      BY <2>2, <2>6 DEF Work, config
    <2> QED
      BY <1>2, <2>1, <2>3, <2>4, <2>5, <2>6
  <1> QED
    BY <1>3, <1>4

-----------------------------------------------------------------------------
(* What TestRunner sees of the steps.                                      *)

LEMMA Unseen ==
  ASSUME UNCHANGED <<submitted, handled, reports, handle_output_result>>, phase' = phase
  PROVE  UNCHANGED Runner!pool
  BY DEF Runner!pool, pending, finished, outcome

LEMMA ScriptsVarsUnseen ==
  ASSUME UNCHANGED scriptvars, UNCHANGED Runner!pool
  PROVE  UNCHANGED Runner!runvars
  BY DEF scriptvars, request, Runner!runvars, Runner!request

(* timed_main makes a pool, but in test-boot and in a build that fails.    *)
LEMMA SeenTimedMain == ASSUME TimedMain PROVE Runner!TimedMain
  <1>1. /\ main = "timed_main" /\ test' = 1
        /\ UNCHANGED <<script, quit_on_fail, all_archs, all_emulators, fit>>
        /\ UNCHANGED <<round, raising, return_value, test_results, raised>>
    BY DEF TimedMain, request
  <1>2. CASE /\ UNCHANGED vars
             /\ \/ main' = "submit" /\ script = "boot"
                \/ main' = "raised" /\ script = "build"
    <2>1. UNCHANGED <<submitted, handled, reports, handle_output_result, caller>>
      BY <1>2 DEF vars, history
    <2>2. phase' = phase
      BY <1>1, <1>2, <2>1 DEF phase
    <2>3. UNCHANGED Runner!pool
      BY <2>1, <2>2, Unseen
    <2> QED
      BY <1>1, <1>2, <2>3 DEF Runner!TimedMain, Runner!request
  <1>3. CASE script # "boot" /\ main' = "submit" /\ MadeFor(quit_on_fail)
    <2>1. /\ submitted' = {} /\ reports' = {} /\ handle_output_result' = None
          /\ caller' = "idle"
      BY <1>3 DEF MadeFor
    <2>2. Runner!NewPool
      BY <1>3, <2>1 DEF Runner!NewPool, pending, finished, outcome, phase
    <2> QED
      BY <1>1, <1>3, <2>2 DEF Runner!TimedMain, Runner!request
  <1> QED
    BY <1>2, <1>3 DEF TimedMain

(* What submit reads and its flags decide as the script has asked for.     *)
LEMMA SeenSubmit == ASSUME ScriptsInv, SubmitTest PROVE Runner!Submit
  <1>1. /\ main = "submit" /\ test <= NTests
        /\ caller = "idle" /\ caller' = AfterRead
        /\ UNCHANGED <<submitted, handled, reports, handle_output_result>>
        /\ UNCHANGED <<script, quit_on_fail, all_archs, all_emulators, fit>>
        /\ UNCHANGED <<round, raising, return_value, test_results, raised>>
    BY DEF SubmitTest, SubmitRead, history, request
  <1>2. AfterRead \in {"put", "join", "idle"}
    BY DEF AfterRead
  <1>3. /\ AfterRead = "put" => main' = "put" /\ test' = test
        /\ AfterRead = "join" => main' = "leave" /\ test' = test
        /\ AfterRead = "idle" => main' = "submit" /\ test' = test + 1
    BY <1>1 DEF SubmitTest
  <1>4. phase' = phase
    BY <1>1, <1>2, <1>3 DEF phase
  <1>5. UNCHANGED Runner!pool
    BY <1>1, <1>4, Unseen
  <1>6. /\ AfterRead = "put" => outcome = None \/ ~quit_on_fail
        /\ AfterRead = "join" => outcome # None /\ quit_on_fail /\ script # "boot"
        /\ AfterRead = "idle" => outcome # None /\ quit_on_fail /\ script = "boot"
    <2>1. quit_on_fail \in BOOLEAN /\ submit_raise_exit \in BOOLEAN
          /\ submit_skip_exit \in BOOLEAN
      BY DEF ScriptsInv, IInv, TypeOK, Runner!IInv, Runner!TypeOK
    <2>2. IF script = "boot" THEN ~submit_raise_exit /\ submit_skip_exit = quit_on_fail
          ELSE submit_raise_exit = quit_on_fail /\ ~submit_skip_exit
      BY <1>1 DEF ScriptsInv, MadeForScript
    <2> QED
      BY <2>1, <2>2 DEF AfterRead, outcome
  <1> QED
    BY <1>1, <1>2, <1>3, <1>5, <1>6 DEF Runner!Submit, Runner!request

(* The put accepts, the end of join closes when nothing is pending.        *)
LEMMA SeenPut == ASSUME ScriptsInv, PutTest PROVE Runner!Put
  <1> DEFINE i == <<round, test>>
  <1>1. /\ main = "put" /\ main' = "submit" /\ test' = test + 1
        /\ caller = "put" /\ caller' = "idle"
        /\ i \in Items /\ i \notin submitted /\ submitted' = submitted \cup {i}
        /\ UNCHANGED <<handled, reports, handle_output_result>>
        /\ UNCHANGED <<script, quit_on_fail, all_archs, all_emulators, fit>>
        /\ UNCHANGED <<round, raising, return_value, test_results, raised>>
    BY DEF PutTest, SubmitPut, request
  <1>2. handled \in [Items -> Nat] /\ submitted \subseteq Items /\ handled[i] = 0
    BY <1>1 DEF ScriptsInv, IInv, TypeOK, Conservation
  <1>3. pending' = pending \cup {i} /\ finished' = finished /\ i \notin pending \cup finished
    BY <1>1, <1>2 DEF pending, finished
  <1>4. phase = "open" /\ phase' = phase /\ outcome' = outcome
    BY <1>1 DEF phase, outcome
  <1>5. Runner!Pool!Accept(i)
    BY <1>1, <1>3, <1>4 DEF Runner!Pool!Accept
  <1> QED
    BY <1>1, <1>5 DEF Runner!Put, Runner!request

LEMMA SeenLeave == ASSUME ScriptsInv, Leave PROVE Runner!Leave
  <1>1. /\ main = "leave" /\ main' = "join"
        /\ UNCHANGED <<submitted, handled, reports, handle_output_result>>
        /\ UNCHANGED <<script, quit_on_fail, all_archs, all_emulators, fit>>
        /\ UNCHANGED <<round, test, raising, return_value, test_results, raised>>
        /\ caller \in {"idle", "join"}
    BY DEF Leave, JoinBegin, vars, history, request
  <1>2. phase = "open" /\ phase' = "joining"
    BY <1>1 DEF phase
  <1>3. Runner!Pool!BeginJoin
    BY <1>1, <1>2 DEF Runner!Pool!BeginJoin, pending, finished, outcome
  <1> QED
    BY <1>1, <1>3 DEF Runner!Leave, Runner!request

LEMMA SeenJoined == ASSUME ScriptsInv, Joined PROVE Runner!Joined
  <1>1. /\ main = "join" /\ caller = "join" /\ caller' = "returned"
        /\ main' = IF raising THEN "raised" ELSE IF script = "boot" THEN "summary" ELSE "after"
        /\ \A w \in Workers : pc[w] = "exited"
        /\ UNCHANGED <<submitted, handled, reports, handle_output_result>>
        /\ UNCHANGED <<script, quit_on_fail, all_archs, all_emulators, fit>>
        /\ UNCHANGED <<round, test, raising, return_value, test_results, raised>>
    BY DEF Joined, JoinReturn, AllJoined, history, request
  <1>2. IInv /\ handled \in [Items -> Nat] /\ submitted \subseteq Items
    BY DEF ScriptsInv, IInv, TypeOK
  <1>3. \A i \in submitted : ~Held(i) /\ ~Queued(i)
    BY <1>1, <1>2, WorkersAssumption, NoneAssumption DEF IInv, PoisonIsLast, Queued, Held
  <1>4. pending = {}
    BY <1>2, <1>3 DEF IInv, Conservation, pending
  <1>5. reports # {} => outcome # None
    BY <1>1, <1>2 DEF IInv, ResultComing, outcome
  <1>6. main' # "join"
    BY <1>1
  <1>7. phase = "joining" /\ phase' = "closed"
    BY <1>1, <1>6 DEF phase
  <1>8. Runner!Pool!Close
    BY <1>1, <1>4, <1>5, <1>7 DEF Runner!Pool!Close, pending, finished, outcome
  <1> QED
    BY <1>1, <1>8 DEF Runner!Joined, Runner!request

(* A worker finishes what is pending.                                      *)
LEMMA SeenRunTest ==
  ASSUME ScriptsInv, NEW w \in Workers, NEW how \in {"passes", "fails", "raised"},
         RunTest(w, how)
  PROVE  Runner!RunTest(input[w], how) /\ input[w] \in Runner!Tests
  <1> DEFINE i == input[w]
  <1>1. /\ pc[w] = "work" /\ i \in Items
        /\ handled' = [handled EXCEPT ![i] = @ + 1]
        /\ reports' = IF how # "passes" THEN reports \cup {i} ELSE reports
        /\ UNCHANGED <<submitted, handle_output_result, caller>>
    BY DEF RunTest, Work, Goto, ScriptsInv, IInv, WorkHasInput
  <1>2. /\ script = "build" => how # "fails"
        /\ test_results' = IF script = "build" \/ how = "raised" THEN test_results
                           ELSE [test_results EXCEPT ![how] = @ \cup {i}]
        /\ raised' = IF how = "raised" THEN raised \cup {i} ELSE raised
        /\ UNCHANGED <<script, quit_on_fail, all_archs, all_emulators, fit>>
        /\ UNCHANGED <<main, round, test, raising, return_value>>
    BY DEF RunTest, request
  <1>3. handled \in [Items -> Nat] /\ submitted \subseteq Items
    BY DEF ScriptsInv, IInv, TypeOK
  <1>4. i \in submitted /\ handled[i] = 0
    BY <1>1, <1>3 DEF ScriptsInv, IInv, Conservation, Held
  <1>5. pending' = pending \ {i} /\ finished' = finished \cup {i} /\ i \in pending
    BY <1>1, <1>3, <1>4 DEF pending, finished
  <1>6. phase' = phase /\ outcome' = outcome
    BY <1>1, <1>2 DEF phase, outcome
  <1>7. Runner!Pool!Finish(i, how # "passes")
    BY <1>1, <1>5, <1>6 DEF Runner!Pool!Finish
  <1>8. i \in Runner!Tests
    BY <1>5 DEF ScriptsInv, Runner!IInv, Runner!TypeOK
  <1> QED
    BY <1>2, <1>7, <1>8 DEF Runner!RunTest, Runner!request

(* The store records one of the results, or changes nothing that is seen.  *)
LEMMA SeenStore ==
  ASSUME ScriptsInv, NEW w \in Workers, Store(w), UNCHANGED scriptvars
  PROVE  \/ input[w] \in Runner!Tests /\ Runner!Record(input[w])
         \/ UNCHANGED Runner!runvars
  <1>1. /\ input[w] \in reports /\ caller # "returned"
        /\ handle_output_result' = input[w]
        /\ UNCHANGED <<submitted, handled, reports, caller>>
    BY DEF Store, Goto, history, ScriptsInv, IInv, WorkHasInput, ResultComing, Returned,
           AllJoined
  <1>2. /\ UNCHANGED <<script, quit_on_fail, all_archs, all_emulators, fit>>
        /\ UNCHANGED <<main, round, test, raising, return_value, test_results, raised>>
    BY DEF scriptvars, request
  <1>3. phase' = phase /\ phase # "closed" /\ pending' = pending /\ finished' = finished
    BY <1>1, <1>2 DEF phase, pending, finished
  <1>4. CASE outcome = input[w]
    <2>1. UNCHANGED Runner!pool
      BY <1>1, <1>3, <1>4 DEF Runner!pool, outcome
    <2> QED
      BY <2>1, ScriptsVarsUnseen
  <1>5. CASE outcome # input[w]
    <2>1. Runner!Pool!Record(input[w])
      BY <1>1, <1>3 DEF Runner!Pool!Record, outcome
    <2>2. input[w] \in Runner!Tests
      BY <1>1 DEF ScriptsInv, Runner!IInv, Runner!TypeOK
    <2> QED
      BY <1>2, <1>5, <2>1, <2>2 DEF Runner!Record, Runner!request
  <1> QED
    BY <1>4, <1>5

LEMMA SeenThread ==
  ASSUME ScriptsInv, NEW w \in Workers, Thread(w)
  PROVE  [Runner!Next]_Runner!runvars
  <1>1. ASSUME NEW how \in {"passes", "fails", "raised"}, RunTest(w, how)
        PROVE  [Runner!Next]_Runner!runvars
    BY <1>1, SeenRunTest DEF Runner!Next, Runner!Worker
  <1>2. CASE Store(w) /\ UNCHANGED scriptvars
    BY <1>2, SeenStore DEF Runner!Next, Runner!Worker
  <1>3. CASE (Get(w) \/ Check(w) \/ Acquire(w)) /\ UNCHANGED scriptvars
    <2>1. UNCHANGED <<submitted, handled, reports, handle_output_result, caller>>
      BY <1>3 DEF Get, Check, Acquire, history
    <2>2. main' = main
      BY <1>3 DEF scriptvars
    <2>3. phase' = phase
      BY <2>1, <2>2 DEF phase
    <2> QED
      BY <1>3, <2>1, <2>3, Unseen, ScriptsVarsUnseen
  <1> QED
    BY <1>1, <1>2, <1>3 DEF Thread

LEMMA SeenPoison == ASSUME Poison PROVE UNCHANGED Runner!runvars
  <1>1. UNCHANGED <<submitted, handled, reports, handle_output_result, caller>>
    BY DEF Poison, JoinPut, history
  <1>2. UNCHANGED scriptvars /\ main' = main
    BY DEF Poison, scriptvars
  <1>3. phase' = phase
    BY <1>1, <1>2 DEF phase
  <1> QED
    BY <1>1, <1>2, <1>3, Unseen, ScriptsVarsUnseen

LEMMA ScriptsSeen == ASSUME ScriptsInv, ScriptsNext PROVE [Runner!Next]_Runner!runvars
  <1>1. CASE Alone \/ WalkRaises
    BY <1>1 DEF Alone, WalkRaises, Runner!Next, Runner!Caller
  <1>2. CASE TimedMain \/ SubmitTest \/ PutTest \/ Leave \/ Joined
    BY <1>2, SeenTimedMain, SeenSubmit, SeenPut, SeenLeave, SeenJoined
       DEF Runner!Next, Runner!Caller
  <1>3. CASE Poison
    BY <1>3, SeenPoison
  <1>4. CASE \E w \in Workers : Thread(w)
    BY <1>4, SeenThread
  <1> QED
    BY <1>1, <1>2, <1>3, <1>4 DEF ScriptsNext, Main

LEMMA ScriptsUnchanged ==
  ASSUME UNCHANGED <<vars, scriptvars>>
  PROVE  UNCHANGED Runner!runvars
  <1>1. UNCHANGED scriptvars /\ main' = main
    BY DEF scriptvars
  <1>2. UNCHANGED <<submitted, handled, reports, handle_output_result, caller>>
    BY DEF vars, history
  <1>3. phase' = phase
    BY <1>1, <1>2 DEF phase
  <1> QED
    BY <1>1, <1>2, <1>3, Unseen, ScriptsVarsUnseen

LEMMA ScriptsGoOn ==
  ScriptsInv /\ [ScriptsNext]_<<vars, scriptvars>> =>
    ScriptsInv' /\ [Runner!Next]_Runner!runvars
  <1> SUFFICES ASSUME ScriptsInv, [ScriptsNext]_<<vars, scriptvars>>
               PROVE  ScriptsInv' /\ [Runner!Next]_Runner!runvars
    OBVIOUS
  <1>1. [Runner!Next]_Runner!runvars
    BY ScriptsSeen, ScriptsUnchanged
  <1>2. Runner!IInv'
    BY <1>1, RunnerGoesOn, TestsAssumption DEF ScriptsInv
  <1>3. IInv' /\ MadeForScript'
    <2>1. CASE ScriptsNext
      BY <2>1, ScriptsPoolInv
    <2>2. CASE UNCHANGED <<vars, scriptvars>>
      <3>1. IInv'
        BY <2>2, StutterStep DEF ScriptsInv
      <3>2. MadeForScript'
        BY <2>2 DEF ScriptsInv, MadeForScript, vars, config, scriptvars, request
      <3> QED
        BY <3>1, <3>2
    <2> QED
      BY <2>1, <2>2
  <1> QED
    BY <1>1, <1>2, <1>3 DEF ScriptsInv

-----------------------------------------------------------------------------
(* A step of MCHostTools is a step of one part, and none of the others.    *)
ToolsInv == IInv /\ (part = "scripts" => ScriptsInv)

LEMMA ToolsStart == ToolsInit => ToolsInv
  BY InitInv, ScriptsStart DEF ToolsInit, ToolsInv, ScriptsInv

LEMMA ToolsGoOn == ToolsInv /\ [ToolsNext]_tools => ToolsInv'
  <1> SUFFICES ASSUME ToolsInv, [ToolsNext]_tools PROVE ToolsInv'
    OBVIOUS
  <1>1. part' = part
    BY DEF ToolsNext, Only, tools
  <1>2. CASE part = "scripts" /\ ScriptsNext
    BY <1>1, <1>2, ScriptsGoOn DEF ToolsInv, ScriptsInv
  <1>3. CASE UNCHANGED <<vars, scriptvars>>
    <2>1. IInv'
      BY <1>3, StutterStep DEF ToolsInv
    <2>2. part = "scripts" => ScriptsInv'
      BY <1>3, ScriptsGoOn DEF ToolsInv
    <2> QED
      BY <1>1, <2>1, <2>2 DEF ToolsInv
  <1>4. CASE part # "scripts" /\ Next
    BY <1>1, <1>4, NextInv DEF ToolsInv
  <1>5. CASE part \notin {"pool", "scripts"} /\ UNCHANGED vars
    BY <1>1, <1>5, StutterStep DEF ToolsInv
  <1> QED
    BY <1>2, <1>3, <1>4, <1>5 DEF ToolsNext, Only, tools

(* The pool on its own, under the scripts, and beside the others.          *)
LEMMA Invariance ==
  /\ Spec => []IInv
  /\ ScriptsSpec => []ScriptsInv
  /\ ToolsSpec => []ToolsInv
  <1>1. Spec => []IInv
    BY InitInv, NextInv, PTL DEF Spec
  <1>2. ScriptsInit => ScriptsInv
    BY ScriptsStart
  <1>3. ScriptsSpec => []ScriptsInv
    BY <1>2, ScriptsGoOn, PTL DEF ScriptsSpec
  <1>4. ToolsSpec => []ToolsInv
    BY ToolsStart, ToolsGoOn, PTL DEF ToolsSpec
  <1> QED
    BY <1>1, <1>3, <1>4

LEMMA PoolIsInScripts == (ScriptsInv => IInv) /\ (ToolsInv => IInv)
  BY DEF ScriptsInv, ToolsInv

(* The state of the pool and of its threads stays within its types, for    *)
(* any number of workers (thread_pool.py, ThreadPool.__init__).            *)
THEOREM TypeCorrect ==
  (Spec => []TypeOK) /\ (ScriptsSpec => []TypeOK) /\ (ToolsSpec => []TypeOK)
  <1>1. IInv => TypeOK
    BY DEF IInv
  <1> QED
    BY <1>1, PoolIsInScripts, Invariance, PTL

(* No input is lost or handed to handle_output twice on its way through    *)
(* submit(), the queue and _func_runner.                                   *)
THEOREM NothingLost ==
  (Spec => []Conservation) /\ (ScriptsSpec => []Conservation) /\ (ToolsSpec => []Conservation)
  <1>1. IInv => Conservation
    BY DEF IInv
  <1> QED
    BY <1>1, PoolIsInScripts, Invariance, PTL

(* When join() has returned, everything that submit() accepted is done:    *)
(* some worker has exited, so only poisons can be left in the queue, and   *)
(* no worker holds an item any more.                                       *)
THEOREM JoinWaitsForWork ==
  (Spec => []JoinDrains) /\ (ScriptsSpec => []JoinDrains) /\ (ToolsSpec => []JoinDrains)
  <1>1. ASSUME IInv, caller = "returned", NEW i \in submitted
        PROVE  handled[i] = 1
    <2>1. i \in Items /\ i # None
      BY <1>1, NoneAssumption DEF IInv, TypeOK
    <2>2. \A w \in Workers : pc[w] = "exited"
      BY <1>1 DEF IInv, Returned, AllJoined
    <2>3. ~Held(i)
      BY <2>2 DEF Held
    <2>4. ~Queued(i)
      BY <1>1, <2>1, <2>2, WorkersAssumption DEF IInv, PoisonIsLast, Queued
    <2>5. QED
      BY <1>1, <2>1, <2>3, <2>4 DEF IInv, Conservation
  <1>2. IInv => JoinDrains
    BY <1>1 DEF JoinDrains
  <1> QED
    BY <1>2, PoolIsInScripts, Invariance, PTL

(* What join() returns is one of the results given by handle_output, and   *)
(* is not None if there was one, although the test before the store in     *)
(* _func_runner is not protected by the lock.                              *)
THEOREM FailureIsReported ==
  /\ Spec => []FailureSurvivesJoin
  /\ ScriptsSpec => []FailureSurvivesJoin
  /\ ToolsSpec => []FailureSurvivesJoin
  <1>1. IInv => FailureSurvivesJoin
    BY DEF IInv, FailureSurvivesJoin, ResultComing, Returned, AllJoined, TypeOK
  <1> QED
    BY <1>1, PoolIsInScripts, Invariance, PTL

(* With either exit flag, submit() lets at most one more input in after a  *)
(* result is kept.                                                         *)
THEOREM SubmissionStops ==
  /\ Spec => []AtMostOneLate
  /\ ScriptsSpec => []AtMostOneLate
  /\ ToolsSpec => []AtMostOneLate
  <1>1. Cardinality({}) = 0 /\ \A x : Cardinality({x}) = 1
    BY FS_EmptySet, FS_Singleton
  <1>2. IInv => AtMostOneLate
    BY <1>1 DEF IInv, AtMostOneLate, LateOnce
  <1> QED
    BY <1>2, PoolIsInScripts, Invariance, PTL

(* The threads, the queue and the lock implement WorkPool: whatever the    *)
(* calls of submit() and join() and the workers of _func_runner do is a    *)
(* step that WorkPool allows, or none that it can see.                     *)
THEOREM Refinement == Spec => ImplementsWorkPool
  BY PoolStarts, PoolStep, Invariance, PTL DEF Spec, Pool!Spec, ImplementsWorkPool

(* The scripts of the host do with the threads, the queue and the lock of  *)
(* thread_pool.py, one pool after the other, what they do with a pool that *)
(* merely keeps its promise: for any number of threads, rounds and tests,  *)
(* every behaviour of main, submit, join and _func_runner is one of        *)
(* TestRunner.                                                             *)
THEOREM ScriptsRefine == ScriptsSpec => ImplementsRunner
  BY ScriptsStart, ScriptsGoOn, PTL DEF ScriptsSpec, ImplementsRunner, Runner!Spec

(* Both refinements, as they are checked beside the other programs: the    *)
(* pool of thread_pool.py alone and under the scripts.                     *)
THEOREM PromisesAreKept == ToolsSpec => ImplementPromises
  <1>1. ToolsInit => (part = "pool" => Pool!Init) /\ (part = "scripts" => Runner!Init)
    BY PoolStarts, ScriptsStart DEF ToolsInit
  <1>2. ToolsInv /\ [ToolsNext]_tools =>
          /\ [part = "pool" => Pool!Next]_(Pool!vars)
          /\ [part = "scripts" => Runner!Next]_Runner!runvars
    <2> SUFFICES ASSUME ToolsInv, [ToolsNext]_tools
                 PROVE  /\ [part = "pool" => Pool!Next]_(Pool!vars)
                        /\ [part = "scripts" => Runner!Next]_Runner!runvars
      OBVIOUS
    <2>1. CASE Only("pool") /\ Next
      <3>1. part = "pool"
        BY <2>1 DEF Only
      <3>2. [Pool!Next]_(Pool!vars)
        BY <2>1, PoolStep DEF ToolsInv
      <3> QED
        BY <3>1, <3>2
    <2>2. CASE Only("scripts") /\ ScriptsNext
      <3>1. part = "scripts"
        BY <2>2 DEF Only
      <3>2. [Runner!Next]_Runner!runvars
        BY <2>2, <3>1, ScriptsGoOn DEF ToolsInv
      <3> QED
        BY <3>1, <3>2
    <2>3. CASE Only("order") \/ Only("cli")
      BY <2>3 DEF Only
    <2>4. CASE UNCHANGED tools
      <3>1. UNCHANGED vars /\ UNCHANGED <<vars, scriptvars>>
        BY <2>4 DEF tools
      <3>2. part = "pool" => [Pool!Next]_(Pool!vars)
        BY <3>1, PoolStep DEF ToolsInv
      <3>3. UNCHANGED Runner!runvars
        BY <3>1, ScriptsUnchanged
      <3> QED
        BY <3>2, <3>3
    <2> QED
      BY <2>1, <2>2, <2>3, <2>4 DEF ToolsNext
  <1> QED
    BY <1>1, <1>2, Invariance, PTL DEF ToolsSpec, ImplementPromises

(* However many threads, rounds and tests, and whatever fails in which     *)
(* order: the exit status of a script is a failure exactly when something  *)
(* failed, but for tests of test-boot that raised; the summary is          *)
(* complete, --quit-on-fail ends with the round of the failure, and every  *)
(* thread has exited (common.py, main and teardown, on thread_pool.py).    *)
THEOREM StatusIsRight == ToolsSpec => []StatusTellsFailure
  <1>1. ASSUME ScriptsInv PROVE Runner!StatusTellsFailure
    BY <1>1, RunnerSafe, TestsAssumption DEF ScriptsInv
  <1>2. ASSUME ScriptsInv PROVE ThreadsHaveExited
    <2> SUFFICES ASSUME main \in {"returned", "raised"}, ~(script = "boot" /\ main = "raised")
                 PROVE  AllJoined
      BY DEF ThreadsHaveExited
    <2>1. phase = "closed"
      BY <1>1, <1>2 DEF Runner!StatusTellsFailure, Runner!NoThreadLeft
    <2>2. caller = "returned"
      BY <2>1 DEF phase
    <2> QED
      BY <1>2, <2>2 DEF ScriptsInv, IInv, Returned
  <1>3. ToolsInv => StatusTellsFailure
    BY <1>1, <1>2 DEF ToolsInv, StatusTellsFailure
  <1> QED
    BY <1>3, Invariance, PTL

(* For any components, whatever they depend on and whichever were asked    *)
(* for: a component is built once and after all that it depends on (the    *)
(* selection and the build loop of ./build, timed_main).                   *)
THEOREM BuiltInOrder == ToolsSpec => []DependenciesFirst
  <1>1. [ToolsNext]_tools => [Order!BuildNext]_Order!buildvars
    BY DEF ToolsNext, tools, Only, order, Order!buildvars
  <1> QED
    BY <1>1, OrderInit, OrderStep, OrderSafe, PTL DEF ToolsSpec

(* For any words, calls and configuration files: the command line that     *)
(* get_cli writes makes main get what the call gives it, unless it is one  *)
(* of the calls of Lossy; if the configuration file sets positional        *)
(* arguments to words of its own, no call of Lossy comes back; and what    *)
(* was given in the call is what main gets (cli_function.py, _get_args,    *)
(* get_cli and cli_noexit).                                                *)
THEOREM CallsRoundTrip == ToolsSpec => []RoundTrip
  <1> DEFINE I == part = "cli" => Cli!IInv
             J == part # "cli" => step = "call"
  <1>1. ToolsInit => I /\ J
    BY CliInit DEF ToolsInit
  <1>2. I /\ J /\ [ToolsNext]_tools => (I /\ J)'
    <2> SUFFICES ASSUME I, J, [ToolsNext]_tools PROVE I' /\ J'
      OBVIOUS
    <2>1. part' = part /\ (part # "cli" => UNCHANGED cli)
      BY DEF ToolsNext, tools, Only
    <2>2. [Cli!CliNext]_Cli!clivars
      BY DEF ToolsNext, tools, Only, cli, Cli!clivars
    <2>3. J'
      BY <2>1 DEF cli
    <2>4. part = "cli" => Cli!IInv'
      BY <2>2, CliStep
    <2> QED
      BY <2>1, <2>3, <2>4
  <1>3. I /\ J => RoundTrip
    BY CliSafe, ToolsAssumption DEF RoundTrip, Cli!RoundTrip
  <1> QED
    BY <1>1, <1>2, <1>3, PTL DEF ToolsSpec
=============================================================================
