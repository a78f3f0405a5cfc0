----------------------------- MODULE PollModule -----------------------------
(***************************************************************************)
(* poll.c, a file that a kernel thread fills every second, and the program *)
(* userland/kernel_modules/poll.c that waits for it and reads it.  Nothing *)
(* protects readbuf and readbuflen.                                        *)
(***************************************************************************)
EXTENDS Naturals, FiniteSets

CONSTANT Readers   \* The processes that run the program.

VARIABLES
  filler,       \* Where lkmc_kthread_func is; "none" when not loaded.
  ret0,         \* The parameter of the module.
  readbuflen,   \* 0, or 1 for the length of any number.
  reader,       \* Where each program is.
  pollers,      \* Those whose poll is on the wait queue.
  n,            \* What the last read returned.
  drained       \* Those whose data another reader took since POLLIN.

vars == <<filler, ret0, readbuflen, reader, pollers, n, drained>>

Init == /\ filler = "none" /\ ret0 = FALSE /\ readbuflen = 0
        /\ reader = [r \in Readers |-> "closed"] /\ pollers = {}
        /\ n = [r \in Readers |-> 1] /\ drained = {}

Goto(r, where) == reader' = [reader EXCEPT ![r] = where]

Insmod(zero) == /\ filler = "none"
                /\ filler' = "test" /\ ret0' = zero /\ readbuflen' = 0
                /\ UNCHANGED <<reader, pollers, n, drained>>

(* The parameter is writable while the module is loaded.                   *)
SetRet0(zero) == /\ filler # "none" /\ ret0' = zero
                 /\ UNCHANGED <<filler, readbuflen, reader, pollers, n, drained>>

-----------------------------------------------------------------------------
(* Mutant: the old number is dropped before the new one is there.          *)
FillClears == \/ filler = "test" /\ filler' = "print" /\ readbuflen' = 0
              \/ filler = "print" /\ filler' = "sleep" /\ readbuflen' = 1

Fill == filler = "test" /\ filler' = "sleep" /\ readbuflen' = 1

Update == /\ Fill /\ UNCHANGED <<ret0, reader, pollers, n, drained>>

(* Mutant: nobody is woken.                                                *)
WakeNobody == UNCHANGED <<reader, pollers>>
WakePollers ==
  /\ pollers' = {}
  /\ reader' = [r \in Readers |->
                  IF r \in pollers /\ reader[r] = "asleep" THEN "poll" ELSE reader[r]]

WakeUp == /\ filler = "sleep"
          /\ filler' = "test" /\ WakePollers
          /\ UNCHANGED <<ret0, readbuflen, n, drained>>

(* kthread_stop returns at the next test; an open file keeps the module.   *)
Rmmod == /\ filler = "test" /\ \A r \in Readers : reader[r] = "closed"
         /\ filler' = "none" /\ ret0' = FALSE /\ readbuflen' = 0
         /\ UNCHANGED <<reader, pollers, n, drained>>

-----------------------------------------------------------------------------
Open(r) == /\ filler # "none" /\ reader[r] = "closed" /\ Goto(r, "poll")
           /\ UNCHANGED <<filler, ret0, readbuflen, pollers, n, drained>>

(* lkmc_poll: poll_wait first, and only then the test.                     *)
PollWait(r) == /\ reader[r] = "poll" /\ Goto(r, "test")
               /\ pollers' = pollers \cup {r}
               /\ UNCHANGED <<filler, ret0, readbuflen, n, drained>>

Poll(r) ==
  /\ reader[r] = "test"
  /\ IF readbuflen > 0 /\ ~ret0
     THEN /\ Goto(r, "read") /\ pollers' = pollers \ {r} /\ drained' = drained \ {r}
     ELSE /\ Goto(r, IF r \in pollers THEN "asleep" ELSE "poll")
          /\ UNCHANGED <<pollers, drained>>
  /\ UNCHANGED <<filler, ret0, readbuflen, n>>

(* read: the copy and its length, and then the buffer is empty.            *)
Copy(r) == /\ reader[r] = "read" /\ Goto(r, "drain")
           /\ n' = [n EXCEPT ![r] = readbuflen]
           /\ UNCHANGED <<filler, ret0, readbuflen, pollers, drained>>

Drain(r) ==
  /\ reader[r] = "drain" /\ Goto(r, "poll")
  /\ readbuflen' = 0 /\ n' = [n EXCEPT ![r] = 1]
  /\ drained' = drained \cup {s \in Readers \ {r} : reader[s] = "read"}
  /\ UNCHANGED <<filler, ret0, pollers>>

(* Control C.                                                              *)
Kill(r) == /\ reader[r] \in {"poll", "asleep"} /\ Goto(r, "closed")
           /\ pollers' = pollers \ {r}
           /\ UNCHANGED <<filler, ret0, readbuflen, n, drained>>

Program(r) == PollWait(r) \/ Poll(r) \/ Copy(r) \/ Drain(r)

Next == \/ \E zero \in BOOLEAN : Insmod(zero) \/ SetRet0(zero)
        \/ Update \/ WakeUp \/ Rmmod
        \/ \E r \in Readers : Open(r) \/ Program(r) \/ Kill(r)

(* The thread and the programs run.                                        *)
Fairness == WF_vars(Update) /\ WF_vars(WakeUp) /\ \A r \in Readers : WF_vars(Program(r))

Spec == Init /\ [][Next]_vars /\ Fairness

-----------------------------------------------------------------------------
(* After POLLIN a read comes back empty only when another reader was       *)
(* faster: the thread never takes back what it announced.                  *)
PollinMeansData ==
  \A r \in Readers : reader[r] = "drain" /\ n[r] = 0 => r \in drained

(* The inductive invariant: who is told to read and finds an empty buffer  *)
(* knows it, from the test of readbuflen until the copy is drained.        *)
TypeOK ==
  /\ filler \in {"none", "test", "sleep"} /\ readbuflen \in {0, 1}
  /\ reader \in [Readers -> {"closed", "poll", "test", "asleep", "read", "drain"}]
  /\ n \in [Readers -> {0, 1}]

OpenHoldsModule == filler = "none" => \A r \in Readers : reader[r] = "closed"

ReadKnowsEmpty ==
  \A r \in Readers : reader[r] = "read" /\ readbuflen = 0 => r \in drained

IInv == TypeOK /\ OpenHoldsModule /\ ReadKnowsEmpty /\ PollinMeansData

(* A poll that returns 0 is asked again: nobody sleeps for ever.           *)
PollersAreWoken == \A r \in Readers : reader[r] = "asleep" ~> reader[r] # "asleep"
=============================================================================
