---------------------------- MODULE MCUserland ------------------------------
(***************************************************************************)
(* The programs: the atomic counters, the samples with a sleeper and a     *)
(* waker, the baremetal timer, the listener to process events, fork, the   *)
(* drawing program of libdrm, and the program that embeds Python, with its *)
(* classes in C and in C++.  They share nothing: a behaviour is one of one *)
(* of them, the part, and the others stay where they are, with nothing to  *)
(* do.                                                                     *)
(***************************************************************************)
EXTENDS AtomicCounter, Sequences

CONSTANTS
  MaxArgs,   \* Of EmbedMain.
  Values, BaseFields, OwnFields,  \* Of NativeClass.
  Data,      \* Of NativeClassCpp.
  connectors, crtcs, encoders, Colors, Mod,  \* Of Modeset.
  INT_MAX, TIMER_IRQ, PPI0, SPI0             \* Of GicTimer.

VARIABLES
  part,
  sample, flag, waker, sleeper, event,
  enabled, pending, IPRIORITYR, ITARGETSR, ICFGR, cntv, expired, cpu, irq, fresh,
  prog, nl_sock, handler, need_exit, sent, listens, events, rc,
  tty, pc, memory, stdout, output,
  at, argsleft, refs, exitcode,
  self, kind, attr, refcnt, referred, owners, todo, swept,
  cls, heap, base_ptr, ptr, last,
  drawing, conn, screen, before, i, dev, modeset_list, drawn, fbs, dumbs, maps,
  failed, r, up

wake   == <<sample, flag, waker, sleeper, event>>
gic    == <<enabled, pending, IPRIORITYR, ITARGETSR, ICFGR, cntv, expired, cpu, irq,
            fresh>>
proc   == <<prog, nl_sock, handler, need_exit, sent, listens, events, rc>>
fork   == <<tty, pc, memory, stdout, output>>
embed  == <<at, argsleft, refs, exitcode>>
native == <<self, kind, attr, refcnt, referred, owners, todo, swept>>
cpp    == <<cls, heap, base_ptr, ptr, last>>
drm    == <<drawing, conn, screen, before, i, dev, modeset_list, drawn, fbs, dumbs,
            maps, failed, r, up>>

(* Three ways to wire a connector, for the run.                            *)
Wirings == {<<{1}>>, <<{1, 2}>>, <<{2}, {1}>>}
(* And the attributes of an object: two of three kinds, one of its own.    *)
FirstAndLast == <<"first", "last">>
First2       == <<"first2">>

Wake   == INSTANCE WakeSamples
Gic    == INSTANCE GicTimer
Proc   == INSTANCE ProcEvents
Forks  == INSTANCE ForkSample
Embed  == INSTANCE EmbedMain
Native == INSTANCE NativeClass WITH
  rc <- refcnt, prog <- referred
Cpp    == INSTANCE NativeClassCpp
Drm    == INSTANCE Modeset WITH pc <- drawing, iter <- drawn

(* A number of arguments is a number; connectors and CRTCs have numbers;   *)
(* an encoder can use some of the CRTCs; a color changes by less than the  *)
(* number of colors; the registers are for whole groups of interrupts, and *)
(* that of the timer is one of these.                                      *)
ASSUME ProgramsAssumption ==
  /\ MaxArgs \in Nat
  /\ Native!Parameters
  /\ connectors \subseteq Nat \ {0} /\ crtcs \subseteq Nat \ {0}
  /\ \A e \in encoders : e \in Seq(SUBSET crtcs)
  /\ Colors \in Nat \ {0} /\ Mod \in 1 .. Colors
  /\ INT_MAX \in Nat /\ TIMER_IRQ \in 0 .. INT_MAX - 1
  /\ PPI0 \in Nat /\ PPI0 % 16 = 0 /\ SPI0 \in Nat /\ SPI0 % 4 = 0

(* A part that is not run is past its end, or before its first choice.     *)
ProgramsInit ==
  /\ part \in {"atomic", "wake", "gic", "proc", "fork", "embed", "native", "cpp", "drm"}
  /\ Init /\ (part # "atomic" => lang = "c" /\ method = "MUTEX")
  /\ IF part = "wake" THEN Wake!Init
     ELSE sample = "futex" /\ flag = TRUE /\ waker = "off" /\ sleeper = "off" /\ event = FALSE
  /\ IF part = "gic" THEN Gic!Init
     ELSE /\ enabled = {} /\ pending = {} /\ IPRIORITYR = 0 /\ ITARGETSR = 0 /\ ICFGR = 0
          /\ cntv = FALSE /\ expired = TRUE /\ cpu = "off" /\ irq = 0 /\ fresh = FALSE
  /\ IF part = "proc" THEN Proc!Init
     ELSE /\ prog = "off" /\ nl_sock = FALSE /\ handler = FALSE /\ need_exit = FALSE
          /\ sent = "no" /\ listens = FALSE /\ events = FALSE /\ rc = "none"
  /\ Forks!Init /\ (part # "fork" => tty)
  /\ Embed!Init /\ (part # "embed" => argsleft = 0)
  /\ Native!Init /\ Cpp!Init /\ Drm!Init

(* The other parts stand still.                                            *)
Only(p) ==
  /\ part = p /\ UNCHANGED part
  /\ IF p = "atomic" THEN TRUE ELSE UNCHANGED atomicvars
  /\ IF p = "wake" THEN TRUE ELSE UNCHANGED wake
  /\ IF p = "gic" THEN TRUE ELSE UNCHANGED gic
  /\ IF p = "proc" THEN TRUE ELSE UNCHANGED proc
  /\ IF p = "fork" THEN TRUE ELSE UNCHANGED fork
  /\ IF p = "embed" THEN TRUE ELSE UNCHANGED embed
  /\ IF p = "native" THEN TRUE ELSE UNCHANGED native
  /\ IF p = "cpp" THEN TRUE ELSE UNCHANGED cpp
  /\ IF p = "drm" THEN TRUE ELSE UNCHANGED drm

ProgramsNext ==
  \/ Only("atomic") /\ Next
  \/ Only("wake") /\ Wake!Next
  \/ Only("gic") /\ Gic!Next
  \/ Only("proc") /\ Proc!Next
  \/ Only("fork") /\ Forks!Next
  \/ Only("embed") /\ Embed!Next
  \/ Only("native") /\ Native!Next
  \/ Only("cpp") /\ Cpp!Next
  \/ Only("drm") /\ Drm!Next

ProgramsVars ==
  <<part, atomicvars, wake, gic, proc, fork, embed, native, cpp, drm>>

ProgramsSpec ==
  /\ ProgramsInit /\ [][ProgramsNext]_ProgramsVars
  /\ Wake!Fairness /\ Gic!Fairness /\ Proc!Fairness

-----------------------------------------------------------------------------
(* The properties of the parts, each with its reasons in its own module.   *)

(* Sleepers end: that of futex.c and of multicore.c is woken whichever of  *)
(* the two comes first, Control C ends proc_events.c, and the CPU that     *)
(* waits for the timer goes on being interrupted.                          *)
SleepersEnd ==
  /\ Wake!SleeperEnds /\ Proc!SigIntEnds
  /\ part = "gic" => Gic!KeepsTicking

(* The timer of timer.c interrupts once for each time it expires, and what *)
(* init_gicd and gicd_config wrote for it is what stands in the registers  *)
(* that many interrupts share.                                             *)
OneTrapPerPeriod ==
  /\ Gic!OneTrapPerPeriod
  /\ [](part = "gic" => Gic!TimerStandsOut)

(* What the small samples leave behind: the atomic counters are what      *)
(* main asserts; every line of fork.c comes out once, the child's before   *)
(* the parent's last; and main of pure.c releases what it holds and        *)
(* nothing else, whichever of the calls of the Python library fails.       *)
SamplesEndRight ==
  /\ GlobalAtEnd
  /\ Forks!NothingTwice /\ Forks!ChildIsFirst
  /\ Embed!NoOverRelease /\ Embed!AllGivenBack

(* References balance, in the middle of a setter too: no value is reached  *)
(* after it was freed, counts are the number of references, an object that *)
(* only its own values refer to is found.                                  *)
ReferencesBalance == Native!NoDangling /\ Native!CountsExact /\ Native!CyclesCollected

(* One C++ object to a Python object, whichever of __new__ and __init__    *)
(* run and how often, and an attribute reads back as it was set.           *)
OneObjectReadsBack == Cpp!OneObject /\ Cpp!ReadsBack

(* A CRTC drives one connector, a connector whose set-up failed holds      *)
(* nothing, in the end the screens show again what they showed, and while  *)
(* the program draws the color never jumps where its 8 bits wrap around.   *)
ScreensRestored ==
  /\ [](Drm!OneConnectorPerCrtc /\ Drm!HoldsWhatIsListed /\ Drm!ScreensRestored)
  /\ Drm!Smooth
=============================================================================
