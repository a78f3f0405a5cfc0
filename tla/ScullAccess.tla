---------------------------- MODULE ScullAccess -----------------------------
(***************************************************************************)
(* kernel_modules/scull.c, the four devices that restrict open():          *)
(*                                                                         *)
(*   "single"  scullsingle: one process at a time (an atomic counter)      *)
(*   "uid"     sculluid: one user at a time (a count under a spinlock)     *)
(*   "wuid"    scullwuid: the same, but open() waits its turn              *)
(*   "priv"    scullpriv: one persistent device per controlling terminal   *)
(*                                                                         *)
(* A step is what happens between two points where another processor may   *)
(* intervene; a stretch under a spinlock is one step.  Reading and writing *)
(* is reduced to holding the semaphore dev->lock of the device.            *)
(***************************************************************************)
EXTENDS Integers, Sequences, FiniteSets

CONSTANTS
  Procs,    (* Processes, each with at most one open file.                 *)
  None,     (* No process, no device, no terminal.                         *)
  Devices,  (* The device files that they open.                            *)
  Uid,      (* [Procs -> users]: current_uid().                            *)
  Euid,     (* [Procs -> users]: current_euid().                           *)
  Capable,  (* The processes with CAP_DAC_OVERRIDE.                        *)
  OpenFlags,(* Sets of O_TRUNC and O_NONBLOCK that they open with.         *)
  Tty       (* [Procs -> terminals or None]: the controlling terminal.     *)

Ttys  == {Tty[p] : p \in Procs} \ {None}
Users == {Uid[p] : p \in Procs} \cup {Euid[p] : p \in Procs}
Files == {"single", "uid", "wuid"} \cup Ttys

ASSUME NoneAssumption == None \notin Procs \cup Files
ASSUME ProcsAssumption == IsFiniteSet(Procs) /\ Capable \subseteq Procs
ASSUME DevicesAssumption == Devices \subseteq {"single", "uid", "wuid", "priv"}
ASSUME FlagsAssumption == OpenFlags \subseteq SUBSET {"O_TRUNC", "O_NONBLOCK"}
ASSUME TtysAssumption == Ttys \cap {"single", "uid", "wuid"} = {}

VARIABLES
  scull_s_available,
  scull_u_count, scull_u_owner,
  scull_w_count, scull_w_owner,
  scull_w_wait,   (* The processes on the wait queue of scullwuid.         *)
  scull_c_lock,   (* Holder of this spinlock, or None.                     *)
  scull_c_list,   (* The keys of the cloned devices, newest first.         *)
  lock,           (* Per device structure: holder of dev->lock, or None.   *)
  pc,             (* Per process: where it is.                             *)
  file,           (* Per process: the device it opens or has open, or None.*)
  flags           (* Per process: f_flags of that open.                    *)

single == <<scull_s_available>>
uid    == <<scull_u_count, scull_u_owner>>
wuid   == <<scull_w_count, scull_w_owner, scull_w_wait>>
priv   == <<scull_c_lock, scull_c_list>>
vars   == <<single, uid, wuid, priv, lock, pc, file, flags>>

Init ==
  /\ scull_s_available = 1
  /\ scull_u_count = 0 /\ scull_u_owner = None
  /\ scull_w_count = 0 /\ scull_w_owner = None
  /\ scull_w_wait = {}
  /\ scull_c_lock = None
  /\ scull_c_list = <<>>
  /\ lock = [f \in Files |-> None]
  /\ pc = [p \in Procs |-> "closed"]
  /\ file = [p \in Procs |-> None]
  /\ flags = [p \in Procs |-> {}]

Goto(p, from, to) ==
  /\ pc[p] = from
  /\ pc' = [pc EXCEPT ![p] = to]

(* open() starts on device f.                                              *)
Enter(p, f, fl, to) ==
  /\ Goto(p, "closed", to)
  /\ file' = [file EXCEPT ![p] = f]
  /\ flags' = [flags EXCEPT ![p] = fl]

(* open() fails or close() ends.                                           *)
Leave(p, from) ==
  /\ Goto(p, from, "closed")
  /\ file' = [file EXCEPT ![p] = None]
  /\ flags' = [flags EXCEPT ![p] = {}]

(* open() is granted: what remains is scull_trim if O_TRUNC is set.        *)
Granted(fl) == IF "O_TRUNC" \in fl THEN "trim" ELSE "open"

-----------------------------------------------------------------------------
(* scullsingle                                                             *)

(* atomic_dec_and_test: the opener that reaches 0 has the device.          *)
ClaimedBelowZero(n) == n <= 0
Claimed(n) == n = 0

SingleOpen(p, fl) ==
  /\ "single" \in Devices
  /\ scull_s_available' = scull_s_available - 1
  /\ Enter(p, "single", fl, IF Claimed(scull_s_available') THEN Granted(fl) ELSE "undo")
  /\ UNCHANGED <<uid, wuid, priv, lock>>

(* The others put back what they took, and get -EBUSY.                     *)
SingleUndo(p) ==
  /\ Leave(p, "undo")
  /\ scull_s_available' = scull_s_available + 1
  /\ UNCHANGED <<uid, wuid, priv, lock>>

SingleRelease(p) ==
  /\ file[p] = "single"
  /\ Leave(p, "open")
  /\ scull_s_available' = scull_s_available + 1
  /\ UNCHANGED <<uid, wuid, priv, lock>>

-----------------------------------------------------------------------------
(* sculluid                                                                *)

Allowed(p, count, owner) ==
  \/ count = 0
  \/ owner \in {Uid[p], Euid[p]}
  \/ p \in Capable

(* The spinlock section of scull_u_open.  Otherwise -EBUSY.                *)
GrabAlways(p, count, owner) == Uid[p]
Grab(p, count, owner) == IF count = 0 THEN Uid[p] ELSE owner

OneMoreIfFree(count) == IF count = 0 THEN 1 ELSE count
OneMore(count) == count + 1

UidOpen(p, fl) ==
  /\ "uid" \in Devices
  /\ Allowed(p, scull_u_count, scull_u_owner)
  /\ Enter(p, "uid", fl, Granted(fl))
  /\ scull_u_owner' = Grab(p, scull_u_count, scull_u_owner)
  /\ scull_u_count' = OneMore(scull_u_count)
  /\ UNCHANGED <<single, wuid, priv, lock>>

UidRelease(p) ==
  /\ file[p] = "uid"
  /\ Leave(p, "open")
  /\ scull_u_count' = scull_u_count - 1
  /\ UNCHANGED <<single, scull_u_owner, wuid, priv, lock>>

-----------------------------------------------------------------------------
(* scullwuid                                                               *)

Available(p) == Allowed(p, scull_w_count, scull_w_owner)

WuidCall(p, fl) ==
  /\ "wuid" \in Devices
  /\ Enter(p, "wuid", fl, "lock")
  /\ UNCHANGED <<single, uid, wuid, priv, lock>>

(* The spinlock section when the device is available ...                   *)
WuidOpen(p) ==
  /\ Available(p)
  /\ Goto(p, "lock", Granted(flags[p]))
  /\ scull_w_owner' = Grab(p, scull_w_count, scull_w_owner)
  /\ scull_w_count' = OneMore(scull_w_count)
  /\ UNCHANGED <<single, uid, scull_w_wait, priv, lock, file, flags>>

(* ... and when it is not: -EAGAIN with O_NONBLOCK, else wait.             *)
WuidBusy(p) ==
  /\ ~Available(p) /\ "O_NONBLOCK" \notin flags[p]
  /\ Goto(p, "lock", "wait")
  /\ UNCHANGED <<single, uid, wuid, priv, lock, file, flags>>

WuidAgain(p) ==
  /\ ~Available(p) /\ "O_NONBLOCK" \in flags[p]
  /\ Leave(p, "lock")
  /\ UNCHANGED <<single, uid, wuid, priv, lock>>

(* wait_event_interruptible(scull_w_wait, scull_w_available()).            *)
WuidPrepare(p) ==
  /\ Goto(p, "wait", "test")
  /\ scull_w_wait' = scull_w_wait \cup {p}
  /\ UNCHANGED <<single, uid, scull_w_count, scull_w_owner, priv, lock, file, flags>>

WuidTest(p) ==
  /\ Goto(p, "test", IF Available(p) THEN "lock" ELSE "sleep")
  /\ scull_w_wait' = IF Available(p) THEN scull_w_wait \ {p} ELSE scull_w_wait
  /\ UNCHANGED <<single, uid, scull_w_count, scull_w_owner, priv, lock, file, flags>>

WuidWoken(p) ==
  /\ p \notin scull_w_wait
  /\ Goto(p, "sleep", "wait")
  /\ UNCHANGED <<single, uid, wuid, priv, lock, file, flags>>

(* A signal: -ERESTARTSYS, unless the condition holds by now.              *)
WuidInterrupt(p) ==
  /\ IF Available(p) THEN Goto(p, "sleep", "lock") /\ UNCHANGED <<file, flags>>
                     ELSE Leave(p, "sleep")
  /\ scull_w_wait' = scull_w_wait \ {p}
  /\ UNCHANGED <<single, uid, scull_w_count, scull_w_owner, priv, lock>>

(* The count is read under the spinlock, the wake up comes after it.       *)
WakeNobody(count) == FALSE
WakeIfLast(count) == count = 0

WuidRelease(p) ==
  /\ file[p] = "wuid"
  /\ scull_w_count' = scull_w_count - 1
  /\ IF WakeIfLast(scull_w_count')
     THEN Goto(p, "open", "wake") /\ UNCHANGED <<file, flags>>
     ELSE Leave(p, "open")
  /\ UNCHANGED <<single, uid, scull_w_owner, scull_w_wait, priv, lock>>

WuidWake(p) ==
  /\ Leave(p, "wake")
  /\ scull_w_wait' = {}
  /\ UNCHANGED <<single, uid, scull_w_count, scull_w_owner, priv, lock>>

-----------------------------------------------------------------------------
(* scullpriv                                                               *)

NoSpinlock == TRUE
SpinlockFree == scull_c_lock = None

(* scull_c_lookfor_device finds the key.  Without a terminal: -EINVAL.     *)
PrivFound(p, fl) ==
  /\ "priv" \in Devices /\ Tty[p] # None
  /\ SpinlockFree
  /\ \E k \in DOMAIN scull_c_list : scull_c_list[k] = Tty[p]
  /\ Enter(p, Tty[p], fl, Granted(fl))
  /\ UNCHANGED <<single, uid, wuid, priv, lock>>

(* It does not, and goes on to kmalloc with the spinlock held.             *)
PrivMissing(p, fl) ==
  /\ "priv" \in Devices /\ Tty[p] # None
  /\ SpinlockFree
  /\ \A k \in DOMAIN scull_c_list : scull_c_list[k] # Tty[p]
  /\ scull_c_lock' = p
  /\ Enter(p, Tty[p], fl, "alloc")
  /\ UNCHANGED <<single, uid, wuid, scull_c_list, lock>>

(* The new device is put at the head of the list.                          *)
PrivAdd(p) ==
  /\ Goto(p, "alloc", Granted(flags[p]))
  /\ scull_c_list' = <<Tty[p]>> \o scull_c_list
  /\ scull_c_lock' = None
  /\ UNCHANGED <<single, uid, wuid, lock, file, flags>>

(* kmalloc fails: -ENOMEM.                                                 *)
PrivNoMemory(p) ==
  /\ Leave(p, "alloc")
  /\ scull_c_lock' = None
  /\ UNCHANGED <<single, uid, wuid, scull_c_list, lock>>

(* scull_c_release has nothing to do.                                      *)
PrivRelease(p) ==
  /\ file[p] \in Ttys
  /\ Leave(p, "open")
  /\ UNCHANGED <<single, uid, wuid, priv, lock>>

-----------------------------------------------------------------------------
(* What the devices share with the bare scull device.                      *)

(* scull_trim in open(), with O_TRUNC: it takes no lock.                   *)
Trim(p) ==
  /\ Goto(p, "trim", "open")
  /\ UNCHANGED <<single, uid, wuid, priv, lock, file, flags>>

(* scull_read and scull_write hold the semaphore of the device.            *)
Use(p) ==
  /\ Goto(p, "open", "use")
  /\ lock[file[p]] = None
  /\ lock' = [lock EXCEPT ![file[p]] = p]
  /\ UNCHANGED <<single, uid, wuid, priv, file, flags>>

Used(p) ==
  /\ Goto(p, "use", "open")
  /\ lock' = [lock EXCEPT ![file[p]] = None]
  /\ UNCHANGED <<single, uid, wuid, priv, file, flags>>

-----------------------------------------------------------------------------
(* What the kernel does for a process inside open() or close().            *)
Kernel(p) ==
  \/ SingleUndo(p)
  \/ WuidOpen(p) \/ WuidBusy(p) \/ WuidPrepare(p) \/ WuidTest(p) \/ WuidWoken(p)
  \/ WuidWake(p)
  \/ PrivAdd(p)
  \/ Trim(p)
  \/ Used(p)

User(p) ==
  \/ \E fl \in OpenFlags :
       SingleOpen(p, fl) \/ UidOpen(p, fl) \/ WuidCall(p, fl) \/ PrivFound(p, fl) \/ PrivMissing(p, fl)
  \/ SingleRelease(p) \/ UidRelease(p) \/ WuidRelease(p) \/ PrivRelease(p)
  \/ WuidAgain(p) \/ WuidInterrupt(p) \/ PrivNoMemory(p)
  \/ Use(p)

Next == \E p \in Procs : Kernel(p) \/ User(p)

Spec == Init /\ [][Next]_vars

(* A process inside open() or close() goes on when it can.                 *)
FairSpec == Spec /\ \A p \in Procs : WF_vars(Kernel(p))

-----------------------------------------------------------------------------
(* What should be true of it.                                              *)

(* p has device f open, or is past the point where open() is granted.      *)
Holds(p, f) == file[p] = f /\ pc[p] \in {"trim", "open", "use"}

Holders(f) == {p \in Procs : Holds(p, f)}

(* Who has decremented scull_s_available and not put it back.              *)
Claimants == {p \in Procs : Holds(p, "single") \/ pc[p] = "undo"}

Asleep(p) == pc[p] = "sleep" /\ p \in scull_w_wait

(* The values the counters, the owners, the list and the processes take.   *)
TypeOK ==
  /\ scull_s_available \in (1 - Cardinality(Procs))..1
  /\ scull_u_count \in 0..Cardinality(Procs)
  /\ scull_u_owner \in Users \cup {None}
  /\ scull_w_count \in 0..Cardinality(Procs)
  /\ scull_w_owner \in Users \cup {None}
  /\ scull_w_wait \subseteq Procs
  /\ scull_c_lock \in Procs \cup {None}
  /\ scull_c_list \in Seq(Ttys)
  /\ lock \in [Files -> Procs \cup {None}]
  /\ pc \in [Procs -> {"closed", "undo", "lock", "wait", "test", "sleep", "wake",
                       "alloc", "trim", "open", "use"}]
  /\ file \in [Procs -> Files \cup {None}]
  /\ flags \in [Procs -> SUBSET {"O_TRUNC", "O_NONBLOCK"}]

(***************************************************************************)
(* "it has an hw structure and an open count": scullsingle is never open   *)
(* twice, whatever openers that failed still have to put back; and nothing *)
(* is lost of the count.                                                   *)
(***************************************************************************)
SingleExclusive ==
  /\ \A p, q \in Procs : Holds(p, "single") /\ Holds(q, "single") => p = q
  /\ scull_s_available = 1 - Cardinality(Claimants)

(***************************************************************************)
(* "access is denied to other users if the device is open": the count is   *)
(* the number of openings, and everybody who has the device open is the    *)
(* owner, became the owner with su, or is root.                            *)
(***************************************************************************)
OneUser(f, count, owner) ==
  /\ count = Cardinality(Holders(f))
  /\ \A p \in Holders(f) : owner \in {Uid[p], Euid[p]} \/ p \in Capable

UidOneUser == OneUser("uid", scull_u_count, scull_u_owner)
WuidOneUser == OneUser("wuid", scull_w_count, scull_w_owner)
OneUserEach == UidOneUser /\ WuidOneUser

(***************************************************************************)
(* Nobody sleeps in scull_w_open while the device is available to him,     *)
(* unless a last close is just about to wake him: the wake up in           *)
(* scull_w_release comes after the spinlock, and other opens may come      *)
(* between the two.                                                        *)
(***************************************************************************)
NoLostOpen ==
  \A p \in Procs : Asleep(p) /\ Available(p) => \E q \in Procs : pc[q] = "wake"

(* A terminal has one private device: data written is found again.         *)
OneDevicePerTty ==
  \A j, k \in DOMAIN scull_c_list : scull_c_list[j] = scull_c_list[k] => j = k

(***************************************************************************)
(* Where open() is exclusive, that alone protects the data from scull_trim *)
(* without the semaphore.                                                  *)
(***************************************************************************)
SingleTrimAlone ==
  \A p \in Procs : pc[p] = "trim" /\ file[p] = "single" => lock["single"] = None

(* Both, of scullsingle: one opening, which may trim.                      *)
SingleProtected == SingleExclusive /\ SingleTrimAlone

(***************************************************************************)
(* scull_trim "must be called with the device semaphore held": nobody      *)
(* holds the semaphore in scull_read or scull_write while another process  *)
(* trims the same device.                                                  *)
(***************************************************************************)
TrimHoldsSemaphore ==
  \A p \in Procs : pc[p] = "trim" => lock[file[p]] \in {None, p}

(***************************************************************************)
(* Why the invariants above hold: the device that each stage of an open()  *)
(* is about, who holds a semaphore, and who holds scull_c_lock.            *)
(***************************************************************************)
Stages ==
  \A p \in Procs :
    /\ pc[p] = "closed" => file[p] = None
    /\ pc[p] = "undo" => file[p] = "single"
    /\ pc[p] \in {"lock", "wait", "test", "sleep", "wake"} => file[p] = "wuid"
    /\ pc[p] = "alloc" => file[p] = Tty[p] /\ Tty[p] # None
    /\ pc[p] \in {"trim", "open", "use"} => file[p] \in Files

Semaphores ==
  \A f \in Files, p \in Procs : lock[f] = p => pc[p] = "use" /\ file[p] = f

Spinlock ==
  \A p \in Procs :
    pc[p] = "alloc" =>
      scull_c_lock = p /\ \A k \in DOMAIN scull_c_list : scull_c_list[k] # Tty[p]

IInv ==
  /\ TypeOK
  /\ SingleExclusive
  /\ UidOneUser
  /\ WuidOneUser
  /\ NoLostOpen
  /\ OneDevicePerTty
  /\ Stages
  /\ Semaphores
  /\ Spinlock

(* A sleeper to whom the device is available does not sleep on.            *)
OpenersAreWoken ==
  \A p \in Procs : Asleep(p) /\ Available(p) ~> ~(Asleep(p) /\ Available(p))
=============================================================================
