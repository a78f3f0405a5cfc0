---------------------------- MODULE WakeSamples -----------------------------
(***************************************************************************)
(* Two samples in which one side sets a flag and wakes the other, which    *)
(* tests the flag and goes to sleep: userland/linux/futex.c, with threads  *)
(* and the futex system call, and baremetal/arch/aarch64/multicore.c, with *)
(* two CPUs, wfe and sev.                                                  *)
(***************************************************************************)

VARIABLES
  sample,       \* "futex" or "multicore".
  flag,         \* sleep_done or spinlock.
  waker,        \* Where main of futex.c, or main_cpu1, is.
  sleeper,      \* Where main_thread of futex.c, or main of multicore.c, is.
  event         \* The event register of CPU 0.

wakevars == <<sample, flag, waker, sleeper, event>>

Init == /\ sample \in {"futex", "multicore"} /\ flag = FALSE /\ event = FALSE
        /\ waker = "start" /\ sleeper = "start"

(* pthread_create, or lkmc_aarch64_psci_cpu_on.                            *)
Start == /\ sleeper = "start" /\ waker = "start"
         /\ sleeper' = "test" /\ waker' = "set"
         /\ UNCHANGED <<sample, flag, event>>

Test == /\ sleeper = "test"
        /\ sleeper' = IF flag THEN "end" ELSE "wait"
        /\ UNCHANGED <<sample, flag, waker, event>>

(* FUTEX_WAIT compares with the 0 it is given and sleeps in one step.      *)
FutexWait == /\ sample = "futex" /\ sleeper = "wait"
             /\ sleeper' = IF flag THEN "test" ELSE "asleep"
             /\ UNCHANGED <<sample, flag, waker, event>>

(* "The while is needed due to the possibility of spurious wakeups."       *)
SpuriousWakeUp == /\ sample = "futex" /\ sleeper = "asleep" /\ sleeper' = "test"
                  /\ UNCHANGED <<sample, flag, waker, event>>

Wfe == /\ sample = "multicore" /\ sleeper = "wait" /\ event
       /\ event' = FALSE /\ sleeper' = "test"
       /\ UNCHANGED <<sample, flag, waker>>

Set == flag' = TRUE /\ UNCHANGED <<sleeper, event>>
Wake == /\ sleeper' = IF sleeper = "asleep" THEN "test" ELSE sleeper
        /\ event' = (sample = "multicore")
        /\ UNCHANGED flag

(* Mutant: the wake up comes before the store.                             *)
WakeThenSet == \/ waker = "set" /\ waker' = "wake" /\ Wake
               \/ waker = "wake" /\ waker' = "join" /\ Set
SetThenWake == \/ waker = "set" /\ waker' = "wake" /\ Set
               \/ waker = "wake" /\ waker' = "join" /\ Wake

Waker == SetThenWake /\ UNCHANGED sample

(* pthread_join; CPU 1 stays in its loop.                                  *)
Join == /\ waker = "join" /\ sample = "futex" /\ sleeper = "end"
        /\ waker' = "end" /\ UNCHANGED <<sample, flag, sleeper, event>>

Sleeper == Test \/ FutexWait \/ Wfe
Next == Start \/ Sleeper \/ Waker \/ Join \/ SpuriousWakeUp

(* Both sides run, but nobody is woken without cause for sure.             *)
Fairness == WF_wakevars(Start) /\ WF_wakevars(Sleeper) /\ WF_wakevars(Waker \/ Join)

Spec == Init /\ [][Next]_wakevars /\ Fairness

-----------------------------------------------------------------------------
(* "In that case, we are certain that a FUTEX_WAKE is coming later on, so  *)
(* we won't deadlock": nobody sleeps for ever, whenever the flag is set.   *)
SleeperEnds == sleeper = "test" ~> sleeper = "end"
=============================================================================
