----------------------------- MODULE Workqueues -----------------------------
(***************************************************************************)
(* workqueue_cheat.c: queues of works that count until they have counted   *)
(* to 5 or run is cleared, made by insmod and drained by rmmod.  The queue *)
(* itself is the kernel's: each runs one work at a time, in order, and     *)
(* destroy_workqueue waits for what is queued.                             *)
(***************************************************************************)
EXTENDS Naturals

CONSTANTS nqueues, nworks   \* The parameters of the module.

Queues == 1 .. nqueues
Items  == 1 .. nworks

VARIABLES
  wmod,     \* Where myinit or myexit is.
  qi,       \* Its i.
  queues,   \* What became of each queue.
  work,     \* Where each work is: [queue, item].
  count,    \* The i of work_func.
  run,
  works     \* Whether the memory of the works is there.

vars == <<wmod, qi, queues, work, count, run, works>>

Works == Queues \X Items
Live(w) == work[w] \in {"queued", "test", "body"}

Init ==
  /\ wmod = "unloaded" /\ qi = 1 /\ run = TRUE /\ works = FALSE
  /\ queues = [q \in Queues |-> "none"]
  /\ work = [w \in Works |-> "none"] /\ count = [w \in Works |-> 0]

(* Both allocations succeed; else nothing is left (lines 51 to 58).        *)
Insmod ==
  /\ wmod = "unloaded"
  /\ wmod' = "creating" /\ qi' = 1 /\ works' = TRUE
  /\ UNCHANGED <<queues, work, count, run>>

CreateQueue ==
  /\ wmod = "creating" /\ qi <= nqueues
  /\ queues' = [queues EXCEPT ![qi] = "live"]
  /\ work' = [w \in Works |-> IF w[1] = qi THEN "queued" ELSE work[w]]
  /\ qi' = qi + 1
  /\ UNCHANGED <<wmod, count, run, works>>

Created == /\ wmod = "creating" /\ qi > nqueues
           /\ wmod' = "loaded" /\ UNCHANGED <<qi, queues, work, count, run, works>>

(* err_create: while (--i >= 0), from the queue before the one that failed.*)
(* Mutant: the loop ends one queue early.                                  *)
SkipsFirst == IF qi > 2 THEN qi' = qi - 1 /\ wmod' = "undo"
                        ELSE UNCHANGED qi /\ wmod' = "free"

UndoNext == IF qi > 1 THEN qi' = qi - 1 /\ wmod' = "undo"
                      ELSE UNCHANGED qi /\ wmod' = "free"

CreateFails == /\ wmod = "creating" /\ qi <= nqueues
               /\ UndoNext /\ UNCHANGED <<queues, work, count, run, works>>

Drained(q) == \A w \in Works : w[1] = q => ~Live(w)

(* destroy_workqueue returns once the queue is drained.                    *)
Destroyed(q) == Drained(q) /\ queues' = [queues EXCEPT ![q] = "destroyed"]

Undo == /\ wmod = "undo" /\ Destroyed(qi)
        /\ UndoNext /\ UNCHANGED <<work, count, run, works>>

(* Mutant: the queues are not destroyed.                                   *)
ExitDrops == wmod' = "free" /\ run' = FALSE

ExitFlushes == wmod' = "exit" /\ run' = FALSE

Rmmod == /\ wmod = "loaded"
         /\ ExitFlushes /\ qi' = 1 /\ UNCHANGED <<queues, work, count, works>>

DestroyNext == /\ wmod = "exit" /\ qi <= nqueues
               /\ Destroyed(qi) /\ qi' = qi + 1
               /\ UNCHANGED <<wmod, work, count, run, works>>

ExitDone == /\ wmod = "exit" /\ qi > nqueues
            /\ wmod' = "free" /\ UNCHANGED <<qi, queues, work, count, run, works>>

Free == /\ wmod = "free"
        /\ wmod' = "gone" /\ works' = FALSE
        /\ UNCHANGED <<qi, queues, work, count, run>>

(* The text and data of the module go; a later insmod starts afresh.       *)
Gone == /\ wmod = "gone"
        /\ wmod' = "unloaded" /\ qi' = 1 /\ run' = TRUE /\ works' = FALSE
        /\ queues' = [q \in Queues |-> IF queues[q] = "destroyed" THEN "none" ELSE queues[q]]
        /\ work' = [w \in Works |-> IF Live(w) THEN work[w] ELSE "none"]
        /\ count' = [w \in Works |-> 0]

-----------------------------------------------------------------------------
(* max_active is 1: the next work starts when the one before has returned. *)
Start(w) ==
  /\ work[w] = "queued" /\ \A j \in 1 .. w[2] - 1 : ~Live(<<w[1], j>>)
  /\ work' = [work EXCEPT ![w] = "test"]
  /\ UNCHANGED <<wmod, qi, queues, count, run, works>>

TestRun(w) ==
  /\ work[w] = "test"
  /\ work' = [work EXCEPT ![w] = IF run THEN "body" ELSE "done"]
  /\ UNCHANGED <<wmod, qi, queues, count, run, works>>

(* Mutant: the round that reaches 5 goes on.                               *)
NeverFive(i) == FALSE
Five(i) == i = 5

Count(w) ==
  /\ work[w] = "body"
  /\ count' = [count EXCEPT ![w] = IF @ = 5 THEN 0 ELSE @ + 1]
  /\ work' = [work EXCEPT ![w] = IF Five(count'[w]) THEN "done" ELSE "test"]
  /\ UNCHANGED <<wmod, qi, queues, run, works>>

Work(w) == Start(w) \/ TestRun(w) \/ Count(w)

Module == CreateQueue \/ Created \/ Undo \/ DestroyNext \/ ExitDone \/ Free \/ Gone

Next == \/ Insmod \/ CreateFails \/ Rmmod \/ Module
        \/ \E w \in Works : Work(w)

(* The kernel's workers run what is queued; insmod and rmmod go on.        *)
Fairness == WF_vars(Module) /\ \A w \in Works : WF_vars(Work(w))

Spec == Init /\ [][Next]_vars /\ Fairness

-----------------------------------------------------------------------------
TypeOK ==
  /\ wmod \in {"unloaded", "creating", "undo", "loaded", "exit", "free", "gone"}
  /\ qi \in 1 .. nqueues + 1 /\ (wmod = "undo" => qi \in Queues) /\ run \in BOOLEAN /\ works \in BOOLEAN
  /\ queues \in [Queues -> {"none", "live", "destroyed"}]
  /\ work \in [Works -> {"none", "queued", "test", "body", "done"}]
  /\ count \in [Works -> 0 .. 5]

(* The works are freed only when none of them is queued or running, on the *)
(* way out of rmmod and of an insmod that could not make all queues.       *)
WorksOutliveWork == ~works => \A w \in Works : ~Live(w)

(* Whatever fails, every queue that was made is destroyed.                 *)
NoQueueLeft == wmod \in {"gone", "unloaded"} => \A q \in Queues : queues[q] # "live"

(* The inductive invariant: the queues that are live, wherever myinit and  *)
(* myexit are in their loops, and works in none but these.                 *)
QueuesToI ==
  \A q \in Queues : queues[q] = "live" <=>
    \/ wmod = "creating" /\ q < qi
    \/ wmod = "undo" /\ q <= qi
    \/ wmod = "loaded"
    \/ wmod = "exit" /\ q >= qi

WorksOnQueues ==
  /\ works <=> wmod \notin {"unloaded", "gone"}
  /\ \A w \in Works : Live(w) => queues[w[1]] = "live"

IInv == TypeOK /\ QueuesToI /\ WorksOnQueues

(* insmod that fails half way returns although the works it has queued     *)
(* still run, with run set: they stop by themselves.                       *)
InsmodReturns == wmod = "undo" ~> wmod = "unloaded"
=============================================================================
