------------------------------ MODULE SyncDemo ------------------------------
(***************************************************************************)
(* The module sync.c: insmod starts threads that each add 1 to a shared    *)
(* counter some number of times, under a spinlock, a mutex, with an atomic *)
(* instruction or with nothing, and compares the sum with what it expects. *)
(* A spinlock and a mutex differ in how they wait only, which is not told  *)
(* apart here.                                                             *)
(***************************************************************************)
EXTENDS Integers, FiniteSets

CONSTANTS MaxThreads,   \* Largest value of the parameter threads.
          Iterations,   \* The parameter iterations.
          NoOne         \* Not a thread.

ASSUME ThreadsAssumption == MaxThreads \in Nat \ {0} /\ Iterations \in Nat

Modes  == {"none", "spinlock", "mutex", "atomic"}
Locked == {"spinlock", "mutex"}
Ids    == 0 .. MaxThreads - 1

ASSUME NoOneAssumption == NoOne \notin Ids

VARIABLES
  selected_mode, threads, counter, threads_left,
  start_comp, all_done,   \* The two completions.
  holder,                 \* Who has counter_spinlock or counter_mutex.
  insmod,                 \* Where sync_demo_init is.
  started,
  worker,                 \* Where each worker is.
  round,                  \* Its i.
  loaded,                 \* What it read of the counter for counter_plain++.
  stop                    \* Those kthread_stop was called for.

wvars == <<worker, round, loaded, holder, counter, threads_left, all_done>>
ivars == <<insmod, started, stop, start_comp, selected_mode, threads>>
vars  == <<wvars, ivars>>

Init ==
  /\ selected_mode = "none" /\ threads = 1 /\ counter = 0 /\ threads_left = 0
  /\ start_comp = FALSE /\ all_done = FALSE /\ holder = NoOne
  /\ insmod = "unloaded" /\ started = 0 /\ stop = {}
  /\ worker = [w \in Ids |-> "none"]
  /\ round  = [w \in Ids |-> 0]
  /\ loaded = [w \in Ids |-> 0]

(* insmod sync.ko with an unknown mode, or without memory for workers[].   *)
Refuse == insmod = "unloaded" /\ insmod' = "failed"
          /\ UNCHANGED <<wvars, started, stop, start_comp, selected_mode, threads>>

Insmod(m, n) ==
  /\ insmod = "unloaded"
  /\ insmod' = "starting" /\ selected_mode' = m
  /\ threads' = IF n = 0 THEN 1 ELSE n
  /\ threads_left' = threads' /\ counter' = 0 /\ started' = 0
  /\ start_comp' = FALSE /\ all_done' = FALSE
  /\ UNCHANGED <<worker, round, loaded, holder, stop>>

StartWorker ==
  /\ insmod = "starting" /\ started < threads
  /\ worker' = [worker EXCEPT ![started] = "created"]
  /\ started' = started + 1
  /\ UNCHANGED <<insmod, stop, start_comp, selected_mode, threads,
                 round, loaded, holder, counter, threads_left, all_done>>

StartAll ==
  /\ insmod = "starting" /\ started = threads
  /\ insmod' = "waiting" /\ start_comp' = TRUE
  /\ UNCHANGED <<wvars, started, stop, selected_mode, threads>>

(* Mutant: the workers already started are not let go.                     *)
StopHeld ==
  /\ insmod = "starting" /\ started < threads
  /\ insmod' = "stopping"
  /\ UNCHANGED <<wvars, start_comp, started, stop, selected_mode, threads>>

(* kthread_run fails: stop_started.                                        *)
StartFails ==
  /\ insmod = "starting" /\ started < threads
  /\ insmod' = "stopping" /\ start_comp' = TRUE
  /\ UNCHANGED <<wvars, started, stop, selected_mode, threads>>

(* Mutant: the worker that could not be started is stopped too.            *)
LeftWithFailed == started >= 0

LeftToStop == started > 0

(* kthread_stop sets the flag and waits until the thread has returned.     *)
StopWorker ==
  /\ insmod = "stopping"
  /\ \/ LeftToStop /\ insmod' = "joining" /\ started' = started - 1
        /\ stop' = stop \cup {started - 1}
     \/ ~LeftToStop /\ insmod' = "failed" /\ UNCHANGED <<started, stop>>
  /\ UNCHANGED <<wvars, start_comp, selected_mode, threads>>

Joined ==
  /\ insmod = "joining" /\ worker[started] = "gone"
  /\ insmod' = "stopping"
  /\ UNCHANGED <<wvars, started, stop, start_comp, selected_mode, threads>>

AllDone ==
  /\ insmod = "waiting" /\ all_done
  /\ insmod' = "loaded"
  /\ UNCHANGED <<wvars, started, stop, start_comp, selected_mode, threads>>

(* rmmod, and the end of an insmod that failed: the next starts anew.      *)
Unload ==
  /\ insmod \in {"loaded", "failed"}
  /\ insmod' = "unloaded" /\ stop' = {} /\ counter' = 0 /\ threads_left' = 0
  /\ selected_mode' = "none" /\ threads' = 1 /\ started' = 0
  /\ start_comp' = FALSE /\ all_done' = FALSE /\ holder' = NoOne
  /\ worker' = [w \in Ids |-> "none"]
  /\ round'  = [w \in Ids |-> 0]
  /\ loaded' = [w \in Ids |-> 0]

-----------------------------------------------------------------------------
(* worker_fn and bump_counter.                                             *)

Goto(w, where) == worker' = [worker EXCEPT ![w] = where]

(* A thread stopped before it ran returns without calling worker_fn.       *)
Begin(w) ==
  /\ worker[w] = "created"
  /\ Goto(w, IF w \in stop THEN "gone" ELSE "held")
  /\ UNCHANGED <<ivars, round, loaded, holder, counter, threads_left, all_done>>

Released(w) ==
  /\ worker[w] = "held" /\ start_comp
  /\ Goto(w, "loop")
  /\ UNCHANGED <<ivars, round, loaded, holder, counter, threads_left, all_done>>

Loop(w) ==
  /\ worker[w] = "loop"
  /\ Goto(w, IF round[w] = Iterations \/ w \in stop THEN "leave" ELSE "bump")
  /\ UNCHANGED <<ivars, round, loaded, holder, counter, threads_left, all_done>>

AtomicInc(w) ==
  /\ worker[w] = "bump" /\ selected_mode = "atomic"
  /\ counter' = counter + 1
  /\ round' = [round EXCEPT ![w] = @ + 1] /\ Goto(w, "loop")
  /\ UNCHANGED <<ivars, loaded, holder, threads_left, all_done>>

(* Mutant: only the mutex is taken.                                        *)
MutexOnly(w) ==
  /\ selected_mode = "mutex" => holder = NoOne
  /\ holder' = IF selected_mode = "mutex" THEN w ELSE holder

Lock(w) ==
  /\ selected_mode \in Locked => holder = NoOne
  /\ holder' = IF selected_mode \in Locked THEN w ELSE holder

Enter(w) ==
  /\ worker[w] = "bump" /\ selected_mode # "atomic"
  /\ Lock(w) /\ Goto(w, "load")
  /\ UNCHANGED <<ivars, round, loaded, counter, threads_left, all_done>>

Load(w) ==
  /\ worker[w] = "load"
  /\ loaded' = [loaded EXCEPT ![w] = counter] /\ Goto(w, "store")
  /\ UNCHANGED <<ivars, round, holder, counter, threads_left, all_done>>

Store(w) ==
  /\ worker[w] = "store"
  /\ counter' = loaded[w] + 1 /\ Goto(w, "unlock")
  /\ UNCHANGED <<ivars, round, loaded, holder, threads_left, all_done>>

Unlock(w) ==
  /\ worker[w] = "unlock"
  /\ holder' = IF selected_mode \in Locked THEN NoOne ELSE holder
  /\ round' = [round EXCEPT ![w] = @ + 1] /\ Goto(w, "loop")
  /\ UNCHANGED <<ivars, loaded, counter, threads_left, all_done>>

(* Mutant: the first worker that is done reports it for all.               *)
FirstIsEnough == threads_left' = threads_left - 1 /\ all_done' = TRUE

DecAndTest ==
  /\ threads_left' = threads_left - 1
  /\ all_done' = (all_done \/ threads_left' = 0)

Leave(w) ==
  /\ worker[w] = "leave"
  /\ DecAndTest /\ Goto(w, "gone")
  /\ UNCHANGED <<ivars, round, loaded, holder, counter>>

Work(w) == \/ Begin(w) \/ Released(w) \/ Loop(w) \/ AtomicInc(w) \/ Enter(w)
           \/ Load(w) \/ Store(w) \/ Unlock(w) \/ Leave(w)

InitSteps == StartWorker \/ StartAll \/ StopWorker \/ Joined \/ AllDone

Next ==
  \/ Refuse \/ StartFails \/ Unload \/ InitSteps
  \/ \E m \in Modes, n \in 0 .. MaxThreads : Insmod(m, n)
  \/ \E w \in Ids : Work(w)

(* The kernel runs every thread that can run, and insmod.                  *)
Fairness == WF_vars(InitSteps) /\ \A w \in Ids : WF_vars(Work(w))

Spec == Init /\ [][Next]_vars
FairSpec == Spec /\ Fairness

-----------------------------------------------------------------------------
TypeOK ==
  /\ selected_mode \in Modes /\ threads \in 1 .. MaxThreads
  /\ insmod \in {"unloaded", "starting", "waiting", "stopping", "joining",
                 "loaded", "failed"}
  /\ started \in 0 .. threads
  /\ counter \in Int /\ threads_left \in Int
  /\ start_comp \in BOOLEAN /\ all_done \in BOOLEAN
  /\ holder \in Ids \cup {NoOne} /\ stop \subseteq Ids
  /\ worker \in [Ids -> {"none", "created", "held", "loop", "bump", "load",
                         "store", "unlock", "leave", "gone"}]
  /\ round \in [Ids -> Nat] /\ loaded \in [Ids -> Int]

(* With a lock or an atomic instruction no addition is lost: whoever       *)
(* stores, the counter goes up by one (bump_counter).                      *)
NoLostUpdate ==
  [][selected_mode # "none" /\ insmod # "unloaded" /\ insmod' # "unloaded"
       => counter' \in {counter, counter + 1}]_vars

(* "counter mismatch" is never printed: when all threads are done, a       *)
(* synchronized counter is threads * iterations.                           *)
CounterReached ==
  insmod = "loaded" /\ selected_mode # "none" => counter = threads * Iterations

(***************************************************************************)
(* Why they hold.  Each addition is one element of Added: in the modes     *)
(* that lose nothing the counter is its size.  Where a lock is taken only  *)
(* its holder is between load and unlock, so that what it loaded is still  *)
(* the counter when it stores.  While nobody was told to stop, a worker    *)
(* leaves with all its rounds done, and threads_left counts those that     *)
(* have not left.                                                          *)
(***************************************************************************)
Critical == {"load", "store", "unlock"}
Going    == {"starting", "waiting", "loaded"}

Done(w) == round[w] + (IF worker[w] = "unlock" THEN 1 ELSE 0)
Added   == {a \in Ids \X (0 .. Iterations) : a[2] < Done(a[1])}
Left    == {w \in Ids : worker[w] = "gone"}

Rounds ==
  \A w \in Ids :
    /\ round[w] <= Iterations
    /\ worker[w] \in {"none", "created", "held"} => round[w] = 0
    /\ worker[w] \in {"bump"} \cup Critical => round[w] < Iterations
    /\ insmod \in Going /\ worker[w] \in {"leave", "gone"} => round[w] = Iterations

Phases ==
  /\ insmod = "unloaded" => \A w \in Ids : worker[w] = "none"
  /\ insmod \in Going \cup {"unloaded"} => stop = {}
  /\ insmod = "starting" =>
       ~start_comp /\ \A w \in Ids : worker[w] \in {"none", "created", "held"}
  /\ insmod = "loaded" => all_done
  /\ \A w \in Ids : w >= threads => worker[w] = "none"

Exclusion ==
  \A w \in Ids :
    /\ selected_mode = "atomic" => worker[w] \notin Critical
    /\ selected_mode \in Locked /\ worker[w] \in Critical => holder = w
    /\ selected_mode \in Locked /\ worker[w] = "store" => loaded[w] = counter

Counted == selected_mode # "none" => counter = Cardinality(Added)

Leaving ==
  insmod \in Going =>
    /\ threads_left = threads - Cardinality(Left)
    /\ all_done => Left = 0 .. threads - 1

IInv == TypeOK /\ Rounds /\ Phases /\ Exclusion /\ Counted /\ Leaving

(* insmod returns, whether or not all threads could be started: a worker   *)
(* that waits for start_comp is let go before it is stopped.               *)
InsmodReturns == insmod = "starting" ~> insmod \in {"loaded", "failed"}
=============================================================================
