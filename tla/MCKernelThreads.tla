-------------------------- MODULE MCKernelThreads ---------------------------
(***************************************************************************)
(* What kernel modules do by themselves, in threads, works, timers and     *)
(* interrupt handlers, and the programs that wait for it: the sync demo,   *)
(* the modules with threads and wait queues, the workqueues, the timer and *)
(* the work that arm themselves, poll, the RCU stall, the edu device and   *)
(* fops.  The modules share nothing: a behaviour is one of one of them,    *)
(* the part, and the others stay where they begin, with nothing to do.     *)
(***************************************************************************)
EXTENDS SyncDemo

CONSTANTS
  nqueues, nworks,     \* The parameters of workqueue_cheat.c.
  Readers,             \* Of PollModule.
  Cpus,                \* Of RcuStall.
  Bits,                \* Of QemuEdu.
  Users, BUFLEN, MaxLen   \* Of FopsFile.

(* Parameters and lengths are numbers.                                     *)
ASSUME PartsAssumption ==
  /\ nqueues \in Nat /\ nworks \in Nat
  /\ BUFLEN \in Nat /\ MaxLen \in Nat

VARIABLES
  part,
  kmod, task, stopping, awake, queue,
  wmod, qi, queues, work, count, run, works,
  kind, exitpc, armed, queued, running, overtaken,
  filler, ret0, readbuflen, reader, pollers, n, drained,
  online, reader_cpu, chosen, rpc, rcu_reader, updater, reader_ready, kstop,
  driver, held, dma, status, handler, irq_status, off, cat, unseen,
  f_pos, program, left, ret, copied

kthread   == <<kmod, task, stopping, awake, queue>>
workqueue == <<wmod, qi, queues, work, count, run, works>>
selfarm   == <<kind, exitpc, armed, queued, running, overtaken>>
poll      == <<filler, ret0, readbuflen, reader, pollers, n, drained>>
rcu       == <<online, reader_cpu, chosen, rpc, rcu_reader, updater, reader_ready, kstop>>
edu       == <<driver, held, dma, status, handler, irq_status, off, cat, unseen>>
fops      == <<f_pos, program, left, ret, copied>>

Threads == INSTANCE KThreads
Queues  == INSTANCE Workqueues
Arming  == INSTANCE SelfArming
Poll    == INSTANCE PollModule
Rcu     == INSTANCE RcuStall WITH reader <- rcu_reader
Edu     == INSTANCE QemuEdu
Fops    == INSTANCE FopsFile

ThreadsInit ==
  /\ part \in {"sync", "kthread", "workqueue", "selfarm", "poll", "rcu", "edu", "fops"}
  /\ Init /\ Threads!Init /\ Queues!Init /\ Arming!Init /\ Poll!Init
  /\ Rcu!Init /\ Edu!Init /\ Fops!Init

(* The other parts stand still.                                            *)
Only(p) ==
  /\ part = p /\ UNCHANGED part
  /\ IF p = "sync" THEN TRUE ELSE UNCHANGED vars
  /\ IF p = "kthread" THEN TRUE ELSE UNCHANGED kthread
  /\ IF p = "workqueue" THEN TRUE ELSE UNCHANGED workqueue
  /\ IF p = "selfarm" THEN TRUE ELSE UNCHANGED selfarm
  /\ IF p = "poll" THEN TRUE ELSE UNCHANGED poll
  /\ IF p = "rcu" THEN TRUE ELSE UNCHANGED rcu
  /\ IF p = "edu" THEN TRUE ELSE UNCHANGED edu
  /\ IF p = "fops" THEN TRUE ELSE UNCHANGED fops

ThreadsNext ==
  \/ Only("sync") /\ Next
  \/ Only("kthread") /\ Threads!Next
  \/ Only("workqueue") /\ Queues!Next
  \/ Only("selfarm") /\ Arming!Next
  \/ Only("poll") /\ Poll!Next
  \/ Only("rcu") /\ Rcu!Next
  \/ Only("edu") /\ Edu!Next
  \/ Only("fops") /\ Fops!Next

ThreadsVars ==
  <<part, vars, kthread, workqueue, selfarm, poll, rcu, edu, fops>>

(* No action that is fair is enabled in a part that has not begun.         *)
ThreadsSpec ==
  /\ ThreadsInit /\ [][ThreadsNext]_ThreadsVars
  /\ Fairness /\ Threads!Fairness /\ Queues!Fairness /\ Arming!Fairness
  /\ Poll!Fairness /\ Rcu!Fairness /\ Edu!Fairness /\ Fops!Fairness

-----------------------------------------------------------------------------
(* The properties of the parts, each with its reasons in its own module.   *)

(* insmod and rmmod return, whatever fails half way and whoever runs or    *)
(* sleeps: the workers of sync.c, the sleepers of wait_queue.c, works that *)
(* loop until they are told, and the two threads of rcu_stall.c, whose     *)
(* updater is not put where the reader spins.                              *)
InsmodAndRmmodReturn ==
  /\ InsmodReturns
  /\ Threads!RmmodReturns
  /\ Queues!InsmodReturns
  /\ Rcu!StopReturns /\ []Rcu!UpdaterElsewhere

(* No work or timer runs in a module that is gone or on memory that is     *)
(* free, but one that armed itself after the cancel had looked for it; and *)
(* no queue is left, whatever fails.                                       *)
WorkEndsWithModule ==
  /\ Queues!WorksOutliveWork /\ Queues!NoQueueLeft
  /\ Arming!OneChain /\ Arming!LeftIfOvertaken

(* Nothing that was announced is lost: what poll announced is there for a  *)
(* read unless another reader took it, and no interrupt of the edu device  *)
(* is acknowledged that the handler did not see; and no call of fops.c     *)
(* copies to or from anything but its buffer.                              *)
NothingLostOrOutside ==
  Poll!PollinMeansData /\ Edu!NoLostInterrupt /\ Fops!InsideBuffer

(* Who waits goes on: the sleepers of wait_queue.c and of poll are woken,  *)
(* the timers keep counting, the interrupt of the edu device does not keep *)
(* firing, and cat and echo on the files end.                              *)
WaitersGoOn ==
  /\ Threads!SleepersAreWoken /\ Poll!PollersAreWoken
  /\ Arming!KeepsCounting /\ Edu!InterruptsQuiesce
  /\ Edu!CatEnds /\ Fops!ProgramsEnd
=============================================================================
