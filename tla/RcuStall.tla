------------------------------ MODULE RcuStall ------------------------------
(***************************************************************************)
(* rcu_stall.c: a thread that stays in an RCU read-side critical section,  *)
(* another that waits for a grace period, and the module that binds them   *)
(* to CPUs and stops them.  synchronize_rcu, completions and kthread_stop  *)
(* are the kernel's.                                                       *)
(***************************************************************************)
EXTENDS Integers, FiniteSets

CONSTANT Cpus   \* The possible CPUs: 0 .. nr_cpu_ids - 1.

VARIABLES
  online,        \* The CPUs online.
  reader_cpu,    \* The parameter.
  chosen,        \* The CPU of the updater, -1 for any.
  rpc,           \* Where insmod or rmmod is.
  reader, updater,
  reader_ready,
  kstop          \* The threads told to stop.

vars == <<online, reader_cpu, chosen, rpc, reader, updater, reader_ready, kstop>>

Params == Cpus \cup {-1, Cardinality(Cpus)}

Init == /\ online = Cpus /\ reader_cpu = 0 /\ chosen = -1 /\ rpc = "unloaded"
        /\ reader = "none" /\ updater = "none" /\ reader_ready = FALSE /\ kstop = {}

Valid(c) == c \in online

(* The CPU for the updater: another than that of the reader if there is    *)
(* one.  Mutant: a CPU that is not valid is left to the scheduler.         *)
LeftToScheduler(r, u) ==
  IF u # r /\ (u < 0 \/ ~Valid(u)) THEN {-1}
  ELSE IF u # r THEN {u}
  ELSE IF Cardinality(online) > 1 THEN online \ {r} ELSE {-1}

ChooseCpu(r, u) ==
  IF u # r /\ Valid(u) THEN {u}
  ELSE IF Cardinality(online) > 1 THEN online \ {r} ELSE {-1}

Hotplug(cs) == /\ rpc = "unloaded" /\ cs # {} /\ cs # online
               /\ online' = cs
               /\ UNCHANGED <<reader_cpu, chosen, rpc, reader, updater, reader_ready, kstop>>

Insmod(r, u) ==
  /\ rpc = "unloaded"
  /\ IF Valid(r)
     THEN /\ \E c \in ChooseCpu(r, u) : chosen' = c
          /\ reader_cpu' = r
          /\ \/ rpc' = "started" /\ reader' = "created"
             \/ rpc' = "failed" /\ UNCHANGED reader      \* No thread.
     ELSE rpc' = "failed" /\ UNCHANGED <<chosen, reader_cpu, reader>>
  /\ UNCHANGED <<online, updater, reader_ready, kstop>>

StartUpdater ==
  /\ rpc = "started"
  /\ \/ rpc' = "loaded" /\ updater' = "created" /\ UNCHANGED kstop
     \/ rpc' = "undo" /\ kstop' = {"reader"} /\ UNCHANGED updater
  /\ UNCHANGED <<online, reader_cpu, chosen, reader, reader_ready>>

(* kthread_stop in insmod, after the updater could not be made.            *)
Undone == /\ rpc = "undo" /\ reader = "gone" /\ rpc' = "failed"
          /\ UNCHANGED <<online, reader_cpu, chosen, reader, updater, reader_ready, kstop>>

(* Mutant: the reader is stopped first.                                    *)
ReaderFirst == <<"reader", "updater">>
StopOrder == <<"updater", "reader">>

Thread(t) == IF t = "reader" THEN reader ELSE updater

Rmmod == /\ rpc = "loaded"
         /\ rpc' = "first" /\ kstop' = {StopOrder[1]}
         /\ UNCHANGED <<online, reader_cpu, chosen, reader, updater, reader_ready>>

Second == /\ rpc = "first" /\ Thread(StopOrder[1]) = "gone"
          /\ rpc' = "second" /\ kstop' = {"updater", "reader"}
          /\ UNCHANGED <<online, reader_cpu, chosen, reader, updater, reader_ready>>

Unloaded ==
  /\ \/ rpc = "second" /\ Thread(StopOrder[2]) = "gone"
     \/ rpc = "failed"
  /\ rpc' = "unloaded" /\ reader' = "none" /\ updater' = "none"
  /\ reader_ready' = FALSE /\ kstop' = {} /\ chosen' = -1 /\ reader_cpu' = 0
  /\ UNCHANGED online

Exit == Undone \/ Second \/ Unloaded

-----------------------------------------------------------------------------
RestOfReader == UNCHANGED <<online, reader_cpu, chosen, rpc, updater, kstop>>

(* The reader: a thread stopped before it ran does nothing.                *)
ReaderBegins == /\ reader = "created"
                /\ reader' = IF "reader" \in kstop THEN "gone" ELSE "lock"
                /\ UNCHANGED reader_ready /\ RestOfReader

ReaderLocks == /\ reader = "lock" /\ reader' = "spin" /\ reader_ready' = TRUE
               /\ RestOfReader

(* Its time is over, or it is told to stop: either ends it.                *)
ReaderUnlocks == /\ reader = "spin" /\ reader' = "gone"
                 /\ UNCHANGED reader_ready /\ RestOfReader

Reader == ReaderBegins \/ ReaderLocks \/ ReaderUnlocks

(* A reader that spins on the only CPU lets nobody else run there.         *)
Starved == reader = "spin" /\ Cardinality(online) = 1

Updater ==
  /\ ~Starved
  /\ \/ updater = "created" /\ updater' = IF "updater" \in kstop THEN "gone" ELSE "wait"
     \/ updater = "wait" /\ reader_ready /\ updater' = "sync"
     \/ updater = "sync" /\ reader # "spin" /\ updater' = "gone"
  /\ UNCHANGED <<online, reader_cpu, chosen, rpc, reader, reader_ready, kstop>>

Next == \/ \E cs \in SUBSET Cpus : Hotplug(cs)
        \/ \E r, u \in Params : Insmod(r, u)
        \/ StartUpdater \/ Rmmod \/ Exit \/ Reader \/ Updater

(* Threads run, the time of the reader ends, and insmod and rmmod go on.   *)
Fairness == WF_vars(StartUpdater) /\ WF_vars(Exit) /\ WF_vars(Reader) /\ WF_vars(Updater)

Spec == Init /\ [][Next]_vars /\ Fairness

-----------------------------------------------------------------------------
(* The grace period can begin while the reader spins: with a second CPU    *)
(* online the updater is bound to one that the reader does not occupy.     *)
UpdaterElsewhere ==
  rpc \in {"started", "loaded"} /\ Cardinality(online) > 1 =>
    chosen \in online \ {reader_cpu}

(* rmmod, and an insmod that fails, return: the updater waits for          *)
(* reader_ready, so the reader must not be stopped before it has run.      *)
StopReturns == rpc \in {"first", "undo"} ~> rpc = "unloaded"
=============================================================================
