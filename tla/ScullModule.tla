---------------------------- MODULE ScullModule -----------------------------
(***************************************************************************)
(* scull.c: loading and unloading, where most things may fail and cleanup  *)
(* runs over what was not initialized; and, with SCULL_DEBUG, the files    *)
(* /proc/scullmem and /proc/scullseq, which walk the data of each device   *)
(* while other processes write it and free it.                             *)
(***************************************************************************)
EXTENDS Integers, FiniteSets

CONSTANTS NrDevs,    \* scull_nr_devs.
          MaxItems   \* Lists ever allocated.

Devs  == 0 .. NrDevs - 1
Procs == {"scullmem", "scullseq"}
Adevs == {"scullsingle", "sculluid", "scullwuid", "scullpriv"}
Nobody == "nobody"

VARIABLES
  load,        \* Where scull_init_module or scull_cleanup_module is.
  held,        \* What the module took from the kernel.
  clones,      \* scull_c_list is not empty.
  data, items, \* The list of each device (0 for NULL); how many there were.
  freed,       \* Lists that were given back.
  lock,        \* Who holds the mutex of each device.
  reader, dev, qs   \* Each reader of a /proc file, with its local variables.

mod  == <<load, held, clones>>
lists == <<data, items, freed>>
procs == <<reader, dev, qs>>
scullvars == <<mod, lists, lock, procs>>

Init == /\ load = "none" /\ held = {} /\ clones = FALSE
        /\ data = [d \in Devs |-> 0] /\ items = 0 /\ freed = {}
        /\ lock = [d \in Devs |-> Nobody]
        /\ reader = [p \in Procs |-> "closed"] /\ dev = [p \in Procs |-> 0]
        /\ qs = [p \in Procs |-> 0]

Load(from, to) == load = from /\ load' = to
Others == UNCHANGED <<lists, lock, procs>>
Take(r) == held' = held \cup r
Give(r) == held' = held \ r

-----------------------------------------------------------------------------
(* scull_init_module, scull_p_init, scull_access_init                      *)
Region == /\ \/ Load("none", "memory") /\ Take({"region"})
             \/ Load("none", "none") /\ UNCHANGED held
          /\ UNCHANGED clones /\ Others

(* Without memory for the devices, the label fail.                         *)
Devices == /\ \/ Load("memory", "pipe") /\ Take({"devices", "cdevs"})
              \/ Load("memory", "trim") /\ UNCHANGED held
           /\ UNCHANGED clones /\ Others

(* Mutant: the region stays when there is no memory for the pipes.         *)
KeepsRegion == held' = held \cup {"pipe region"}
NoPipes     == UNCHANGED held

PipeInit == /\ Load("pipe", "access") /\ UNCHANGED clones /\ Others
            /\ NoPipes \/ Take({"pipe region", "pipes", "pipe cdevs", "scullpipe"})

(* The region may not be had, and each cdev_add may fail: not an error.    *)
AccessInit ==
  /\ Load("access", "proc") /\ UNCHANGED clones /\ Others
  /\ \/ UNCHANGED held
     \/ \E bad \in SUBSET Adevs :
          Take({"access region"} \cup (Adevs \ bad))

CreateProc == /\ Load("proc", "loaded") /\ Take(Procs) /\ UNCHANGED clones /\ Others

-----------------------------------------------------------------------------
(* scull_cleanup_module, from rmmod, while no device file is open, or from *)
(* fail.  Opening /proc/scullseq does not keep the module.                 *)
Rmmod == /\ Load("loaded", "trim") /\ (\A d \in Devs : lock[d] \notin {"writer"})
         /\ UNCHANGED <<held, clones>> /\ Others

Trimmed == freed' = freed \cup ({data[d] : d \in Devs} \ {0}) /\ data' = [d \in Devs |-> 0]

TrimAll == /\ Load("trim", "unregister") /\ Trimmed /\ Give({"devices", "cdevs"})
           /\ UNCHANGED <<clones, items, lock, procs>>

(* remove_proc_entry waits for the readers that are inside.                *)
RemoveProc == /\ Load("unregister", "p_cleanup")
              /\ \A p \in Procs : reader[p] \in {"closed", "open"}
              /\ Give(Procs \cup {"region"}) /\ reader' = [p \in Procs |-> "closed"]
              /\ UNCHANGED <<clones, lists, lock, dev, qs>>

(* Mutant: the pipes are freed and their numbers kept.                     *)
PipesOnly == {"pipes", "pipe cdevs", "scullpipe"}
AllPipes  == {"pipes", "pipe cdevs", "scullpipe", "pipe region"}

PipeCleanup == /\ Load("p_cleanup", "access_cleanup")
               /\ IF "pipes" \in held THEN Give(AllPipes) ELSE UNCHANGED held
               /\ UNCHANGED clones /\ Others

(* Every device is deleted, also one that was never set up.                *)
AccessCleanup == /\ Load("access_cleanup", "none")
                 /\ Give(Adevs \cup {"access region"}) /\ clones' = FALSE
                 /\ UNCHANGED <<lists, lock, procs>>

-----------------------------------------------------------------------------
(* Other processes: scull_write and an open with O_TRUNC under the mutex,  *)
(* and an open of scullpriv.                                               *)
Lock(d, who) == lock[d] = Nobody /\ lock' = [lock EXCEPT ![d] = who]
Unlock(d)    == lock' = [lock EXCEPT ![d] = Nobody]

OpenPriv == /\ load = "loaded" /\ "scullpriv" \in held /\ clones' = TRUE
            /\ UNCHANGED <<load, held, lists, lock, procs>>
Writer(d) == /\ load = "loaded" /\ Lock(d, "writer")
             /\ UNCHANGED <<mod, lists, procs>>
Write(d) == /\ lock[d] = "writer" /\ data[d] = 0 /\ items < MaxItems /\ Unlock(d)
            /\ items' = items + 1 /\ data' = [data EXCEPT ![d] = items']
            /\ UNCHANGED <<mod, freed, procs>>
Truncate(d) == /\ lock[d] = "writer" /\ Unlock(d)
               /\ freed' = freed \cup ({data[d]} \ {0}) /\ data' = [data EXCEPT ![d] = 0]
               /\ UNCHANGED <<mod, items, procs>>

-----------------------------------------------------------------------------
(* The files under /proc: a device after the other.                        *)
Goto(p, where) == reader' = [reader EXCEPT ![p] = where]

ProcOpen(p) == /\ p \in held /\ reader[p] = "closed" /\ Goto(p, "open")
               /\ UNCHANGED <<mod, lists, lock, dev, qs>>
ProcClose(p) == /\ reader[p] = "open" /\ Goto(p, "closed")
                /\ UNCHANGED <<mod, lists, lock, dev, qs>>
ProcRead(p) == /\ reader[p] = "open" /\ p \in held /\ Goto(p, "device")
               /\ dev' = [dev EXCEPT ![p] = 0]
               /\ UNCHANGED <<mod, lists, lock, qs>>

(* scull_read_procmem takes d->data before the mutex, scull_seq_show after *)
(* it.  Mutant: both before.                                               *)
BothEarly(p) == TRUE
Early(p)     == p = "scullmem"
Read(p, d)   == qs' = [qs EXCEPT ![p] = data[d]]

ShowDevice(p) == /\ reader[p] = "device" /\ Goto(p, "mutex")
                 /\ IF Early(p) THEN Read(p, dev[p]) ELSE UNCHANGED qs
                 /\ UNCHANGED <<mod, lists, lock, dev>>

ShowLocked(p) == /\ reader[p] = "mutex" /\ Lock(dev[p], p) /\ Goto(p, "walk")
                 /\ IF Early(p) THEN UNCHANGED qs ELSE Read(p, dev[p])
                 /\ UNCHANGED <<mod, lists, dev>>

(* A signal before the mutex ends the read.                                *)
Interrupt(p) == /\ reader[p] = "mutex" /\ Goto(p, "open") /\ qs' = [qs EXCEPT ![p] = 0]
                /\ UNCHANGED <<mod, lists, lock, dev>>

ShowNext(p) == /\ reader[p] = "walk" /\ Unlock(dev[p]) /\ qs' = [qs EXCEPT ![p] = 0]
               /\ IF dev[p] + 1 < NrDevs
                  THEN Goto(p, "device") /\ dev' = [dev EXCEPT ![p] = @ + 1]
                  ELSE Goto(p, "open") /\ UNCHANGED dev
               /\ UNCHANGED <<mod, lists>>

Next == \/ Region \/ Devices \/ PipeInit \/ AccessInit \/ CreateProc
        \/ Rmmod \/ TrimAll \/ RemoveProc \/ PipeCleanup \/ AccessCleanup \/ OpenPriv
        \/ \E d \in Devs : Writer(d) \/ Write(d) \/ Truncate(d)
        \/ \E p \in Procs : \/ ProcOpen(p) \/ ProcClose(p) \/ ProcRead(p) \/ ShowDevice(p)
                            \/ ShowLocked(p) \/ Interrupt(p) \/ ShowNext(p)

Spec == Init /\ [][Next]_scullvars

-----------------------------------------------------------------------------
(* Whatever failed on the way in, nothing is left on the way out: regions, *)
(* devices, /proc entries, lists and cloned devices.                       *)
NothingLeft == load = "none" => /\ held = {} /\ ~clones
                                /\ Cardinality(freed) = items

(* scull_seq_show walks a list that exists, as it reads the pointer under  *)
(* the mutex; but not during rmmod, which frees before it removes the file. *)
ShowsLive ==
  load \notin {"trim", "unregister"} /\ reader["scullseq"] = "walk"
    => qs["scullseq"] \notin freed

(***************************************************************************)
(* The inductive invariant.  What is held is at most what the functions    *)
(* that ran have taken and those that ran have not given back; every list  *)
(* is one of a device or freed; and who walks /proc/scullseq has the mutex *)
(* of the device whose list it walks.                                      *)
(***************************************************************************)
TypeOK ==
  /\ load \in {"none", "memory", "pipe", "access", "proc", "loaded", "trim", "unregister",
               "p_cleanup", "access_cleanup"}
  /\ clones \in BOOLEAN /\ items \in Nat
  /\ data \in [Devs -> 0 .. items] /\ freed \subseteq 1 .. items
  /\ lock \in [Devs -> Procs \cup {"writer", Nobody}]
  /\ reader \in [Procs -> {"closed", "open", "device", "mutex", "walk"}]
  /\ dev \in [Procs -> Devs] /\ qs \in [Procs -> Nat]

(* What the last functions of the cleanup give back.                       *)
Access == Adevs \cup {"access region"}

HeldBy(where) ==
  CASE where = "none"           -> {}
    [] where = "memory"         -> {"region"}
    [] where = "access_cleanup" -> Access
    [] where = "p_cleanup"      -> Access \cup AllPipes
    [] where \in {"pipe", "access", "proc"}
                                -> Access \cup AllPipes \cup {"region", "devices", "cdevs"}
    [] OTHER -> Access \cup AllPipes \cup Procs \cup {"region", "devices", "cdevs"}

WhatIsHeld ==
  /\ held \subseteq HeldBy(load)
  /\ load = "unregister" => held \cap {"devices", "cdevs"} = {}
  /\ "pipes" \in held \/ held \cap AllPipes = {}
  /\ clones => load \in {"loaded", "trim", "unregister", "p_cleanup", "access_cleanup"}

ListsAccounted ==
  /\ 1 .. items = freed \cup ({data[d] : d \in Devs} \ {0})
  /\ \A d \in Devs : data[d] \notin freed
  /\ \A d, e \in Devs : d # e /\ data[d] = data[e] => data[d] = 0
  /\ load \notin {"loaded", "trim"} => \A d \in Devs : data[d] = 0

UsersOfModule ==
  /\ \A d \in Devs : lock[d] = "writer" => load = "loaded"
  /\ \A p \in Procs : reader[p] \notin {"closed", "open"} => load \in {"loaded", "trim", "unregister"}

Walker ==
  /\ \A p \in Procs : reader[p] = "walk" => lock[dev[p]] = p
  /\ reader["scullseq"] = "walk" /\ load # "unregister"
       => qs["scullseq"] = data[dev["scullseq"]]

IInv == TypeOK /\ WhatIsHeld /\ ListsAccounted /\ UsersOfModule /\ Walker
=============================================================================
