----------------------------- MODULE ThreadPool -----------------------------
(***************************************************************************)
(* thread_pool.py: a fixed number of worker threads around one bounded     *)
(* queue.Queue(maxsize=nthreads), used by build-baremetal, build-userland, *)
(* test-executables and test-boot.  One thread submits work and finally    *)
(* joins; every worker loops in _func_runner.                              *)
(*                                                                         *)
(* Each worker step below is a stretch of _func_runner between two points  *)
(* where another thread may run: the return of in_queue.get, the end of    *)
(* handle_output, the unlocked test of handle_output_result, the           *)
(* acquisition of the lock and the assignment under it.                    *)
(*                                                                         *)
(* Items stand for distinct input dictionaries; the result tuple           *)
(* (input, return, result) is represented by its input.  work_function and *)
(* handle_output raise nothing but subclasses of Exception.                *)
(***************************************************************************)
EXTENDS Naturals, Sequences, FiniteSets

CONSTANTS
  Workers,  (* The nthreads worker threads.                                *)
  Items,    (* Distinct inputs the caller may submit.                      *)
  None      (* Python's None: the poison that stops a worker, no result.   *)

ASSUME WorkersAssumption == IsFiniteSet(Workers) /\ Workers # {}
ASSUME NoneAssumption == None \notin Items \cup Workers

VARIABLES
  submit_raise_exit,        (* Constructor argument.                       *)
  submit_skip_exit,         (* Constructor argument.                       *)
  in_queue,                 (* Items and poisons, first in first out.      *)
  handle_output_result,     (* None or the item whose result is kept.      *)
  lock,                     (* The free lock is None, else its holder.     *)
  pc,                       (* Where each worker is in _func_runner.       *)
  input,                    (* work_function_input of each worker.         *)
  caller,                   (* Where the submitting thread is.             *)
  poisons,                  (* Poisons put by join() so far.               *)
  seen,                     (* The result last read by the caller.         *)
  submitted,                (* History: items put in the queue.            *)
  handled,                  (* History: handle_output calls per item.      *)
  reports,                  (* History: items that gave a result.          *)
  late                      (* History: items put once a result was kept.  *)

config  == <<submit_raise_exit, submit_skip_exit>>
history == <<submitted, handled, reports, late>>
vars == <<config, in_queue, handle_output_result, lock, pc, input, caller,
          poisons, seen, history>>

maxsize == Cardinality(Workers)

Init ==
  /\ submit_raise_exit \in BOOLEAN
  /\ submit_skip_exit \in BOOLEAN
  /\ in_queue = <<>>
  /\ handle_output_result = None
  /\ lock = None
  /\ pc = [w \in Workers |-> "get"]
  /\ input = [w \in Workers |-> None]
  /\ caller = "idle"
  /\ poisons = 0
  /\ seen = None
  /\ submitted = {}
  /\ handled = [i \in Items |-> 0]
  /\ reports = {}
  /\ late = {}

(***************************************************************************)
(* queue.Queue: put blocks while there is no room and appends at the end,  *)
(* get takes the head.  Here and below, an operator right before another   *)
(* and never used is a variant of it with a defect that the properties     *)
(* have been seen to detect.                                               *)
(***************************************************************************)
Room == Len(in_queue) < maxsize
EnqueuedInFront(x) == <<x>> \o in_queue
Enqueued(x) == Append(in_queue, x)
DequeuedAtTheBack == SubSeq(in_queue, 1, Len(in_queue) - 1)
Dequeued == Tail(in_queue)

Goto(w, from, to) ==
  /\ pc[w] = from
  /\ pc' = [pc EXCEPT ![w] = to]

-----------------------------------------------------------------------------
(* The caller's thread.                                                    *)

(***************************************************************************)
(* submit() up to its in_queue.put: the result is read once.  A raise      *)
(* leaves the caller's `with` block, so that __exit__ joins; a skip        *)
(* returns without queueing anything.                                      *)
(***************************************************************************)
AfterReadNoSkip ==
  IF handle_output_result # None /\ submit_raise_exit THEN "join" ELSE "put"
AfterRead ==
  IF handle_output_result = None THEN "put"
  ELSE IF submit_raise_exit THEN "join"
  ELSE IF submit_skip_exit THEN "idle" ELSE "put"

SubmitRead ==
  /\ caller = "idle"
  /\ submitted # Items
  /\ seen' = handle_output_result
  /\ caller' = AfterRead
  /\ UNCHANGED <<config, in_queue, handle_output_result, lock, pc, input,
                 poisons, history>>

(* The put of submit(), which blocks while the queue is full.              *)
SubmitPut(i) ==
  /\ caller = "put"
  /\ i \in Items \ submitted
  /\ Room
  /\ in_queue' = Enqueued(i)
  /\ caller' = "idle"
  /\ submitted' = submitted \cup {i}
  /\ late' = IF handle_output_result = None THEN late ELSE late \cup {i}
  /\ UNCHANGED <<config, handle_output_result, lock, pc, input, poisons, seen,
                 handled, reports>>

(* The submit loop is over, or broken out of, or an exception left `with`. *)
JoinBegin ==
  /\ caller = "idle"
  /\ caller' = "join"
  /\ UNCHANGED <<config, in_queue, handle_output_result, lock, pc, input,
                 poisons, seen, history>>

(* One of the nthreads in_queue.put(None) of join().                       *)
OnePoisonTooMany == maxsize + 1
PoisonsToPut == maxsize

JoinPut ==
  /\ caller = "join"
  /\ poisons < PoisonsToPut
  /\ Room
  /\ in_queue' = Enqueued(None)
  /\ poisons' = poisons + 1
  /\ UNCHANGED <<config, handle_output_result, lock, pc, input, caller, seen,
                 history>>

OneJoined == \E w \in Workers : pc[w] = "exited"
AllJoined == \A w \in Workers : pc[w] = "exited"

(* thread.join() on every thread, then the result is read and returned.    *)
JoinReturn ==
  /\ caller = "join"
  /\ poisons = PoisonsToPut
  /\ AllJoined
  /\ caller' = "returned"
  /\ seen' = handle_output_result
  /\ UNCHANGED <<config, in_queue, handle_output_result, lock, pc, input,
                 poisons, history>>

-----------------------------------------------------------------------------
(* A worker's thread.                                                      *)

(* in_queue.get(block=True): a poison ends the loop.                       *)
Get(w) ==
  /\ in_queue # <<>>
  /\ Goto(w, "get", IF Head(in_queue) = None THEN "exited" ELSE "work")
  /\ input' = [input EXCEPT ![w] = Head(in_queue)]
  /\ in_queue' = Dequeued
  /\ UNCHANGED <<config, handle_output_result, lock, caller, poisons, seen,
                 history>>

(***************************************************************************)
(* work_function, then handle_output with its return value or exception.   *)
(* handle_output gives a result when it raises or returns non-None.        *)
(***************************************************************************)
Work(w, gaveResult) ==
  /\ Goto(w, "work", IF gaveResult THEN "check" ELSE "get")
  /\ handled' = [handled EXCEPT ![input[w]] = @ + 1]
  /\ reports' = IF gaveResult THEN reports \cup {input[w]} ELSE reports
  /\ UNCHANGED <<config, in_queue, handle_output_result, lock, input, caller,
                 poisons, seen, submitted, late>>

(* `self.handle_output_result is None`, read without the lock.             *)
Check(w) ==
  /\ Goto(w, "check", IF handle_output_result = None THEN "lock" ELSE "get")
  /\ UNCHANGED <<config, in_queue, handle_output_result, lock, input, caller,
                 poisons, seen, history>>

(* `with self.handle_output_result_lock`: entered.                         *)
Acquire(w) ==
  /\ lock = None
  /\ Goto(w, "lock", "store")
  /\ lock' = w
  /\ UNCHANGED <<config, in_queue, handle_output_result, input, caller,
                 poisons, seen, history>>

StoreWithoutRelease(w) ==
  /\ Goto(w, "store", "get")
  /\ handle_output_result' = input[w]
  /\ UNCHANGED <<config, in_queue, lock, input, caller, poisons, seen, history>>

(* The assignment under the lock, not preceded by another test; then left. *)
Store(w) ==
  /\ Goto(w, "store", "get")
  /\ handle_output_result' = input[w]
  /\ lock' = None
  /\ UNCHANGED <<config, in_queue, input, caller, poisons, seen, history>>

-----------------------------------------------------------------------------
Worker(w) ==
  \/ Get(w)
  \/ \E gaveResult \in BOOLEAN : Work(w, gaveResult)
  \/ Check(w)
  \/ Acquire(w)
  \/ Store(w)

Submit == SubmitRead \/ (\E i \in Items : SubmitPut(i))
Join == JoinBegin \/ JoinPut \/ JoinReturn

(* Both sides are done: the only way the pool may stop.                    *)
Terminated ==
  /\ caller = "returned"
  /\ UNCHANGED vars

Next == Submit \/ Join \/ (\E w \in Workers : Worker(w)) \/ Terminated

Spec == Init /\ [][Next]_vars

(***************************************************************************)
(* Every thread that can run does, work_function returns, and the caller   *)
(* reaches join(), which its docstring requires "at some point".           *)
(***************************************************************************)
Fairness ==
  /\ WF_vars(Submit)
  /\ WF_vars(Join)
  /\ \A w \in Workers : WF_vars(Worker(w))

FairSpec == Spec /\ Fairness

-----------------------------------------------------------------------------
(* What should be true of it.                                              *)

Queued(i) == \E k \in DOMAIN in_queue : in_queue[k] = i
Held(i) == \E w \in Workers : pc[w] = "work" /\ input[w] = i

(* The values every variable of ThreadPool and of its threads may take.    *)
TypeOK ==
  /\ submit_raise_exit \in BOOLEAN
  /\ submit_skip_exit \in BOOLEAN
  /\ in_queue \in Seq(Items \cup {None})
  /\ handle_output_result \in Items \cup {None}
  /\ lock \in Workers \cup {None}
  /\ pc \in [Workers -> {"get", "work", "check", "lock", "store", "exited"}]
  /\ input \in [Workers -> Items \cup {None}]
  /\ caller \in {"idle", "put", "join", "returned"}
  /\ poisons \in 0..maxsize
  /\ seen \in Items \cup {None}
  /\ submitted \subseteq Items
  /\ handled \in [Items -> Nat]
  /\ reports \subseteq Items
  /\ late \subseteq submitted

(***************************************************************************)
(* Work is neither lost nor run twice while it crosses the queue: each     *)
(* submitted item is queued, or held by a worker that has not called       *)
(* handle_output on it, or handled, and is in one of these places only.    *)
(***************************************************************************)
Conservation ==
  \A i \in Items :
    /\ handled[i] <= 1
    /\ i \in submitted <=> Queued(i) \/ Held(i) \/ handled[i] = 1
    /\ ~(Queued(i) /\ Held(i))
    /\ handled[i] = 1 => ~Queued(i) /\ ~Held(i)

(***************************************************************************)
(* join() "Request[s] all threads to stop after they finish currently      *)
(* submitted work": when it has returned, every item that submit() took    *)
(* was handled.                                                            *)
(***************************************************************************)
JoinDrains ==
  caller = "returned" => \A i \in submitted : handled[i] = 1

(***************************************************************************)
(* A failure is never lost: if any handle_output call raised or returned   *)
(* non-None, the value that join() returns is one of those results, in     *)
(* spite of the unlocked test in _func_runner.                             *)
(***************************************************************************)
FailureSurvivesJoin ==
  caller = "returned" =>
    IF reports = {} THEN seen = None ELSE seen \in reports

(***************************************************************************)
(* With submit_raise_exit or submit_skip_exit at most one more item gets   *)
(* in once a result is kept: the one whose submit() had read the result    *)
(* before and was blocked in put.                                          *)
(***************************************************************************)
AtMostOneLate ==
  submit_raise_exit \/ submit_skip_exit => Cardinality(late) <= 1

(***************************************************************************)
(* Why the invariants above hold.  A poison is never followed by work      *)
(* (join() is the last call), so a worker that has exited proves that no   *)
(* item is left in the queue; a worker between a result and its storage    *)
(* has not exited; and nobody stores None.                                 *)
(***************************************************************************)
QueuedOnce ==
  \A j, k \in DOMAIN in_queue :
    in_queue[j] = in_queue[k] /\ in_queue[j] # None => j = k

HeldOnce ==
  \A v, w \in Workers :
    pc[v] = "work" /\ pc[w] = "work" /\ input[v] = input[w] => v = w

WorkHasInput ==
  \A w \in Workers :
    pc[w] \in {"work", "check", "lock", "store"} => input[w] \in Items

PoisonIsLast ==
  /\ \A j, k \in DOMAIN in_queue : j < k /\ in_queue[j] = None => in_queue[k] = None
  /\ (\E w \in Workers : pc[w] = "exited") =>
        \A k \in DOMAIN in_queue : in_queue[k] = None

PoisonMeansJoin ==
  (\E k \in DOMAIN in_queue : in_queue[k] = None) \/ (\E w \in Workers : pc[w] = "exited")
    => caller \in {"join", "returned"}

ResultComing ==
  /\ \A w \in Workers : pc[w] \in {"check", "lock", "store"} => input[w] \in reports
  /\ handle_output_result # None => handle_output_result \in reports
  /\ reports # {} =>
       handle_output_result # None \/ \E w \in Workers : pc[w] \in {"check", "lock", "store"}

LateOnce ==
  /\ handle_output_result = None => late = {}
  /\ submit_raise_exit \/ submit_skip_exit =>
       late = {} \/ (caller # "put" /\ \E i \in late : late = {i})

Returned ==
  caller = "returned" => AllJoined /\ seen = handle_output_result

IInv ==
  /\ TypeOK
  /\ Conservation
  /\ QueuedOnce
  /\ HeldOnce
  /\ WorkHasInput
  /\ PoisonIsLast
  /\ PoisonMeansJoin
  /\ ResultComing
  /\ LateOnce
  /\ Returned

(* join() returns, whatever the handlers gave and whoever lost the race.   *)
JoinReturns == caller = "join" ~> caller = "returned"

(* Every item that submit() took is handled in the end, and join()         *)
(* returns.  There are finitely many and none is taken back, so that each  *)
(* is handled some time after it was submitted is the same as that from    *)
(* some time on all are.                                                   *)
WorkIsDone == JoinReturns /\ <>[](\A i \in submitted : handled[i] = 1)

(***************************************************************************)
(* "The first non-None return value of a call to this function is returned *)
(* by submit(), get_handle_output_result() and join()": a kept result is   *)
(* not replaced.  Two workers that both saw None refute it.                *)
(***************************************************************************)
FirstResultKept ==
  [][handle_output_result # None => UNCHANGED handle_output_result]_vars

(***************************************************************************)
(* The promise of the pool without its threads: WorkPool.tla.              *)
(***************************************************************************)
Pool == INSTANCE WorkPool WITH
  pending  <- {i \in submitted : handled[i] = 0},
  finished <- {i \in submitted : handled[i] # 0},
  outcome  <- handle_output_result,
  phase    <- CASE caller \in {"idle", "put"} -> "open"
                [] caller = "join" -> "joining"
                [] caller = "returned" -> "closed"

(* The threads, the queue and the lock keep that promise.                  *)
ImplementsWorkPool == Pool!Spec
=============================================================================
