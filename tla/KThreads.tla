------------------------------ MODULE KThreads ------------------------------
(***************************************************************************)
(* The modules that start threads at insmod and stop them at rmmod:        *)
(* kthread.c and schedule.c (one thread), kthreads.c (two) and             *)
(* wait_queue.c (one that wakes the other two up every second;             *)
(* wait_queue2.c is the same file).  That a thread is given no CPU, which  *)
(* schedule=0 does to others, is not modelled.                             *)
(***************************************************************************)
EXTENDS Naturals, Sequences

Mods == {"kthread", "schedule", "kthreads", "wait_queue"}

(* The threads of a module in the order in which its exit function stops   *)
(* them.                                                                   *)
One       == <<"loop1">>
Scheduler == <<"loop1">>
Two       == <<"loop1", "loop2">>
Queued    == <<"sleep2", "sleep1", "wake">>

(* Mutant: the thread that wakes the others is stopped first.              *)
QueuedWakerFirst == <<"wake", "sleep1", "sleep2">>
WakerFirst(m) == IF m = "wait_queue" THEN QueuedWakerFirst ELSE One
StopOrder(m) ==
  CASE m = "kthread" -> One [] m = "schedule" -> Scheduler
    [] m = "kthreads" -> Two [] m = "wait_queue" -> Queued

Sleepers == {"sleep1", "sleep2"}
Tasks    == Sleepers \cup {"wake", "loop1", "loop2"}

VARIABLES
  kmod,       \* The module loaded, or "none".
  task,       \* Where each thread is.
  stopping,   \* How many of the threads kthread_stop was called for.
  awake,      \* awake1 and awake2: the sleepers whose flag is set.
  queue       \* Those on the wait queue.

vars == <<kmod, task, stopping, awake, queue>>

InMod(t)      == kmod # "none" /\ \E i \in DOMAIN StopOrder(kmod) : StopOrder(kmod)[i] = t
ShouldStop(t) == \E i \in 1 .. stopping : StopOrder(kmod)[i] = t
Goto(t, where) == task' = [task EXCEPT ![t] = where]

Init == /\ kmod = "none" /\ task = [t \in Tasks |-> "none"]
        /\ stopping = 0 /\ awake = {} /\ queue = {}

Insmod(m) ==
  /\ kmod = "none"
  /\ kmod' = m
  /\ task' = [t \in Tasks |->
                IF \E i \in DOMAIN StopOrder(m) : StopOrder(m)[i] = t THEN "created" ELSE "none"]
  /\ UNCHANGED <<stopping, awake, queue>>

(* A new thread runs its function unless it is stopped before.             *)
Begin(t) ==
  /\ InMod(t) /\ task[t] = "created"
  /\ Goto(t, IF ShouldStop(t) THEN "gone" ELSE "test")
  /\ UNCHANGED <<kmod, stopping, awake, queue>>

(* while (!kthread_should_stop())                                          *)
Test(t) ==
  /\ InMod(t) /\ task[t] = "test"
  /\ Goto(t, IF ShouldStop(t) THEN "gone"
             ELSE IF t \in Sleepers THEN "prepare" ELSE "body")
  /\ UNCHANGED <<kmod, stopping, awake, queue>>

(* The loops sleep or yield and count.                                     *)
Count(t) ==
  /\ t \in {"loop1", "loop2"} /\ task[t] = "body"
  /\ Goto(t, "test")
  /\ UNCHANGED <<kmod, stopping, awake, queue>>

(* kthread_wake_func, after its sleep: the flags, then wake_up.            *)
SetAwake1 == /\ task["wake"] = "body" /\ awake' = awake \cup {"sleep1"}
             /\ Goto("wake", "second") /\ UNCHANGED <<kmod, stopping, queue>>
SetAwake2 == /\ task["wake"] = "second" /\ awake' = awake \cup {"sleep2"}
             /\ Goto("wake", "wakeup") /\ UNCHANGED <<kmod, stopping, queue>>
WakeUp    == /\ task["wake"] = "wakeup" /\ queue' = {}
             /\ task' = [t \in Tasks |-> IF t = "wake" THEN "test"
                                         ELSE IF t \in queue /\ task[t] = "asleep"
                                         THEN "prepare" ELSE task[t]]
             /\ UNCHANGED <<kmod, stopping, awake>>

(* wait_event: enter the queue, test the flag, and only then sleep.        *)
Prepare(s) == /\ task[s] = "prepare" /\ queue' = queue \cup {s}
              /\ Goto(s, "check") /\ UNCHANGED <<kmod, stopping, awake>>
Check(s) ==
  /\ task[s] = "check"
  /\ IF s \in awake THEN Goto(s, "clear") /\ queue' = queue \ {s}
     ELSE Goto(s, IF s \in queue THEN "asleep" ELSE "prepare") /\ UNCHANGED queue
  /\ UNCHANGED <<kmod, stopping, awake>>

(* Mutant: one sleeper clears the flags of both.                           *)
ClearBoth(s) == awake' = {}
Clear(s)     == awake' = awake \ {s}

Sleeper(s) == \/ Prepare(s) \/ Check(s)
              \/ /\ task[s] = "clear" /\ Clear(s) /\ Goto(s, "test")
                 /\ UNCHANGED <<kmod, stopping, queue>>

(* myexit: kthread_stop wakes the thread up and waits until it returns.    *)
Rmmod ==
  /\ kmod # "none" /\ stopping < Len(StopOrder(kmod))
  /\ stopping > 0 => task[StopOrder(kmod)[stopping]] = "gone"
  /\ stopping' = stopping + 1
  /\ LET t == StopOrder(kmod)[stopping + 1] IN
       task' = IF task[t] = "asleep" THEN [task EXCEPT ![t] = "prepare"] ELSE task
  /\ UNCHANGED <<kmod, awake, queue>>

Unloaded ==
  /\ kmod # "none" /\ stopping = Len(StopOrder(kmod))
  /\ task[StopOrder(kmod)[stopping]] = "gone"
  /\ kmod' = "none" /\ stopping' = 0 /\ awake' = {} /\ queue' = {}
  /\ task' = [t \in Tasks |-> IF task[t] = "gone" THEN "none" ELSE task[t]]

Run(t) == \/ Begin(t) \/ Test(t) \/ Count(t) \/ (t \in Sleepers /\ Sleeper(t))
          \/ (t = "wake" /\ (SetAwake1 \/ SetAwake2 \/ WakeUp))

Exit == (stopping > 0 /\ Rmmod) \/ Unloaded

Next == \/ \E m \in Mods : Insmod(m)
        \/ (stopping = 0 /\ Rmmod) \/ Exit
        \/ \E t \in Tasks : Run(t)

(* Every thread that can run does; rmmod, once begun, goes on.             *)
Fairness == WF_vars(Exit) /\ \A t \in Tasks : WF_vars(Run(t))

Spec == Init /\ [][Next]_vars /\ Fairness

-----------------------------------------------------------------------------
TypeOK ==
  /\ kmod \in Mods \cup {"none"} /\ stopping \in 0 .. 3
  /\ awake \subseteq Sleepers /\ queue \subseteq Sleepers
  /\ task \in [Tasks -> {"none", "created", "test", "body", "second", "wakeup",
                         "prepare", "check", "asleep", "clear", "gone"}]

(* rmmod returns: a thread that waits for its flag, without a test of      *)
(* kthread_should_stop, is woken because its waker is stopped last.        *)
RmmodReturns == stopping > 0 ~> kmod = "none"

(* While the module is loaded each sleeper is woken again and again.       *)
SleepersAreWoken ==
  \A s \in Sleepers : task[s] = "asleep" /\ stopping = 0 ~> task[s] = "clear" \/ stopping > 0
=============================================================================
