----------------------------- MODULE AnonInode ------------------------------
(***************************************************************************)
(* kernel_modules/anonymous_inode.c: an ioctl returns the descriptor of an *)
(* anonymous file, each read of which gives one hexadecimal digit 1 that   *)
(* moves to the left; and the program of the same name.  A value of 2^(4k) *)
(* is told by its k, and 0 by k = Zero.                                    *)
(***************************************************************************)
EXTENDS Naturals, FiniteSets

CONSTANTS Clients,
          Zero,       \* The digits of a u32: 8.
          nreads

VARIABLES
  loaded, myval,
  client,       \* Where each program is.
  shifted,      \* What it loaded and shifted.
  reads,        \* How often it has read.
  shown,        \* What its last read printed.
  fds           \* The files it has open: "ioctl", "anon".

anonvars == <<loaded, myval, client, shifted, reads, shown, fds>>

Init == /\ loaded = FALSE /\ myval = 0
        /\ client = [c \in Clients |-> "none"] /\ shifted = [c \in Clients |-> 0]
        /\ reads = [c \in Clients |-> 0] /\ shown = [c \in Clients |-> 0]
        /\ fds = [c \in Clients |-> {}]

Shift(v) == IF v = Zero THEN Zero ELSE v + 1
Goto(c, where) == client' = [client EXCEPT ![c] = where]
Rest(c) == UNCHANGED <<loaded, shifted, reads, shown>>

Insmod == /\ ~loaded /\ loaded' = TRUE /\ myval' = 0
          /\ UNCHANGED <<client, shifted, reads, shown, fds>>

(* fops_ioctl has an owner, fops_anon has none.                            *)
InUse == \E c \in Clients : "ioctl" \in fds[c]
Rmmod == /\ loaded /\ ~InUse /\ loaded' = FALSE
         /\ UNCHANGED <<myval, client, shifted, reads, shown, fds>>

Open(c) == /\ client[c] = "none" /\ loaded /\ Goto(c, "ioctl")
           /\ fds' = [fds EXCEPT ![c] = {"ioctl"}]
           /\ reads' = [reads EXCEPT ![c] = 0]
           /\ UNCHANGED <<loaded, myval, shifted, shown>>

(* unlocked_ioctl; when it cannot copy the descriptor out, the program has *)
(* the file but does not know it and ends.                                 *)
Ioctl(c) == /\ client[c] = "ioctl"
            /\ fds' = [fds EXCEPT ![c] = @ \cup {"anon"}]
            /\ Goto(c, "read") \/ Goto(c, "exit")
            /\ UNCHANGED myval /\ Rest(c)

(* read: snprintf, then a load, a shift, a store and a test, which may use *)
(* the register or load again.                                             *)
Show(c) == /\ client[c] = "read" /\ reads[c] < nreads /\ Goto(c, "load")
            /\ shown' = [shown EXCEPT ![c] = myval]
            /\ UNCHANGED <<loaded, myval, shifted, reads, fds>>

Load(c) == /\ client[c] = "load" /\ Goto(c, "store")
           /\ shifted' = [shifted EXCEPT ![c] = Shift(myval)]
           /\ UNCHANGED <<loaded, myval, reads, shown, fds>>

(* Mutant: the value is tested before it is shifted.                       *)
TestThenStore(c) ==
  \/ client[c] = "store" /\ Goto(c, "test") /\ myval' = IF myval = Zero THEN 0 ELSE myval
  \/ client[c] = "test" /\ Goto(c, "done") /\ myval' = shifted[c]
StoreThenTest(c) ==
  \/ client[c] = "store" /\ Goto(c, "test") /\ myval' = shifted[c]
  \/ /\ client[c] = "test" /\ UNCHANGED myval
     /\ \E v \in {myval, shifted[c]} : Goto(c, IF v = Zero THEN "reset" ELSE "done")
  \/ client[c] = "reset" /\ Goto(c, "done") /\ myval' = 0

Update(c) == StoreThenTest(c) /\ UNCHANGED fds /\ Rest(c)

Done(c) == /\ client[c] = "done" /\ Goto(c, "read")
           /\ reads' = [reads EXCEPT ![c] = @ + 1]
           /\ UNCHANGED <<loaded, myval, shifted, shown, fds>>

(* Mutant: the two files are closed in the order they were opened.         *)
IoctlFirst(c) == fds' = [fds EXCEPT ![c] = IF "ioctl" \in @ THEN @ \ {"ioctl"} ELSE {}]
AnonFirst(c)  == fds' = [fds EXCEPT ![c] = IF "anon" \in @ THEN @ \ {"anon"} ELSE {}]

Close(c) == /\ client[c] = "read" /\ reads[c] = nreads /\ fds[c] # {}
            /\ AnonFirst(c)
            /\ UNCHANGED <<client, myval>> /\ Rest(c)

End(c) == /\ client[c] = "read" /\ reads[c] = nreads /\ fds[c] = {}
          /\ Goto(c, "none") /\ UNCHANGED <<myval, fds>> /\ Rest(c)

(* Killed, or out after an error: the system closes the files.             *)
Exit(c) == /\ client[c] \in {"ioctl", "read", "exit"}
           /\ Goto(c, "none") /\ fds' = [fds EXCEPT ![c] = {}]
           /\ UNCHANGED myval /\ Rest(c)

Step(c) == Open(c) \/ Ioctl(c) \/ Show(c) \/ Load(c) \/ Update(c) \/ Done(c)
           \/ Close(c) \/ End(c) \/ Exit(c)

Next == Insmod \/ Rmmod \/ \E c \in Clients : Step(c)
Spec == Init /\ [][Next]_anonvars

-----------------------------------------------------------------------------
(* The digit is never shifted out for good, although readers race for it:  *)
(* when nobody is in read, the value is not 0.                             *)
DigitSurvives == (\A c \in Clients : client[c] \notin {"load", "store", "test", "reset"})
                   => myval # Zero

(* While the program has the anonymous file open, the module that has its  *)
(* read function is loaded.                                                *)
CodeStays == \A c \in Clients : "anon" \in fds[c] => loaded

(* The inductive invariant: a value that was shifted out is one that a     *)
(* reader will test or is about to reset, and who has the anonymous file   *)
(* has the other open too, which keeps the module.                         *)
TypeOK ==
  /\ loaded \in BOOLEAN /\ myval \in Nat
  /\ client \in [Clients -> {"none", "ioctl", "read", "load", "store", "test", "reset",
                             "done", "exit"}]
  /\ shifted \in [Clients -> Nat]
  /\ fds \in [Clients -> SUBSET {"ioctl", "anon"}]

ResetIsNear ==
  myval = Zero =>
    \E c \in Clients : client[c] = "reset" \/ (client[c] = "test" /\ shifted[c] = Zero)

FilesKeepModule ==
  \A c \in Clients :
    /\ client[c] = "ioctl" \/ "anon" \in fds[c] => "ioctl" \in fds[c]
    /\ "ioctl" \in fds[c] => loaded

IInv == TypeOK /\ ResetIsNear /\ FilesKeepModule
=============================================================================
