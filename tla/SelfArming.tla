----------------------------- MODULE SelfArming -----------------------------
(***************************************************************************)
(* timer.c and work_from_work.c: a callback that arms itself again, and an *)
(* exit function that takes it back without waiting for one that runs.     *)
(***************************************************************************)
EXTENDS Naturals

VARIABLES
  kind,       \* "timer" or "work", or "none": which module is loaded.
  exitpc,     \* How far its exit function is.
  armed,      \* The timer is pending: mytimer, or the one of next_work.
  queued,     \* What is on the queue: "work", "next_work" or "none".
  running,    \* The callback runs.
  overtaken   \* At the cancel it ran, or was queued out of its reach.

vars == <<kind, exitpc, armed, queued, running, overtaken>>

Init == /\ kind = "none" /\ exitpc = "none" /\ armed = FALSE
        /\ queued = "none" /\ running = FALSE /\ overtaken = FALSE

(* Mutant: insmod also arms what the first work will arm.                  *)
ArmBoth(k) == armed' = TRUE /\ queued' = (IF k = "work" THEN "work" ELSE "none")

ArmFirst(k) == armed' = (k = "timer") /\ queued' = (IF k = "work" THEN "work" ELSE "none")

Insmod(k) == /\ kind = "none"
             /\ kind' = k /\ exitpc' = "loaded" /\ ArmFirst(k)
             /\ UNCHANGED <<running, overtaken>>

(* The second passes: the callback is called, or queued.                   *)
Expire == /\ armed /\ exitpc # "gone"
          /\ armed' = FALSE
          /\ IF kind = "timer" THEN ~running /\ running' = TRUE /\ UNCHANGED queued
                               ELSE queued' = "next_work" /\ UNCHANGED running
          /\ UNCHANGED <<kind, exitpc, overtaken>>

Start == /\ queued # "none" /\ ~running /\ exitpc # "gone"
         /\ running' = TRUE /\ queued' = "none"
         /\ UNCHANGED <<kind, exitpc, armed, overtaken>>

(* Mutant: it does not arm itself again.                                   *)
Forgets == armed' = armed
Rearm   == armed' = TRUE

Callback == /\ running /\ exitpc # "gone"
            /\ Rearm /\ running' = FALSE
            /\ UNCHANGED <<kind, exitpc, queued, overtaken>>

(* cancel_delayed_work and del_timer take back what is pending.            *)
(* Mutant: only the delayed work that has reached the queue is taken back. *)
CancelQueued == queued' = (IF queued = "next_work" THEN "none" ELSE queued) /\ UNCHANGED armed

CancelPending == /\ armed' = FALSE
                 /\ queued' = IF queued = "next_work" THEN "none" ELSE queued

Cancel == /\ exitpc = "loaded"
          /\ CancelPending /\ overtaken' = (running \/ queued = "work")
          /\ exitpc' = IF kind = "work" THEN "flush" ELSE "gone"
          /\ UNCHANGED <<kind, running>>

(* flush_workqueue and destroy_workqueue wait for what is queued.          *)
Flush == /\ exitpc = "flush" /\ queued = "none" /\ ~running
         /\ exitpc' = "gone" /\ UNCHANGED <<kind, armed, queued, running, overtaken>>

(* The module is gone.  If its callback is still to run the kernel crashes *)
(* and is started again.                                                   *)
Again == /\ exitpc = "gone"
         /\ kind' = "none" /\ exitpc' = "none" /\ armed' = FALSE
         /\ queued' = "none" /\ running' = FALSE /\ overtaken' = FALSE

Next == (\E k \in {"timer", "work"} : Insmod(k)) \/ Expire \/ Start \/ Callback
        \/ Cancel \/ Flush \/ Again

(* Time passes and the kernel runs what is due.                            *)
Fairness == WF_vars(Expire) /\ WF_vars(Start) /\ WF_vars(Callback) /\ WF_vars(Flush)

Spec == Init /\ [][Next]_vars /\ Fairness

-----------------------------------------------------------------------------
(* There is one chain: the callback is armed, queued or running, never two *)
(* of these, and i is changed by one of them at a time.                    *)
OneChain == ~(armed /\ queued # "none") /\ ~(armed /\ running) /\ ~(running /\ queued # "none")

(* After rmmod something is left only if the callback was running, or its  *)
(* first work still queued, when it was taken back.                        *)
LeftIfOvertaken ==
  exitpc = "gone" /\ (armed \/ running \/ queued # "none") => overtaken

(* The inductive invariant: nothing is left where no module is, a timer    *)
(* has no queue, and from the cancel on what is left was overtaken.        *)
TypeOK ==
  /\ kind \in {"none", "timer", "work"} /\ exitpc \in {"none", "loaded", "flush", "gone"}
  /\ armed \in BOOLEAN /\ running \in BOOLEAN /\ overtaken \in BOOLEAN
  /\ queued \in {"none", "work", "next_work"}

ByKind ==
  /\ kind = "none" <=> exitpc = "none"
  /\ kind = "none" => ~armed /\ ~running
  /\ kind # "work" => queued = "none" /\ exitpc # "flush"

AfterCancel ==
  exitpc \in {"flush", "gone"} /\ (armed \/ running \/ queued # "none") => overtaken

IInv == TypeOK /\ ByKind /\ AfterCancel /\ OneChain

(* Until rmmod it counts every second.                                     *)
KeepsCounting == exitpc = "loaded" ~> running \/ exitpc # "loaded"
=============================================================================
