----------------------------- MODULE ProcEvents -----------------------------
(***************************************************************************)
(* userland/linux/proc_events.c: it asks the kernel for process events,    *)
(* prints them until control C and then asks it to stop.  siginterrupt has *)
(* recv fail with EINTR when the signal finds it waiting.                  *)
(***************************************************************************)

VARIABLES
  prog,         \* Where the program is.
  nl_sock,      \* Its socket is open.
  handler,      \* on_sigint is installed.
  need_exit,
  sent,         \* SIGINT: "no", "noticed", or "late" when it came between the
                \* test of need_exit and recv.
  listens,      \* The kernel counts it as a listener.
  events,       \* Some event is in the socket.
  rc            \* What the program exits with.

procvars == <<prog, nl_sock, handler, need_exit, sent, listens, events, rc>>

Init == /\ prog = "start" /\ nl_sock = FALSE /\ handler = FALSE /\ need_exit = FALSE
        /\ sent = "no" /\ listens = FALSE /\ events = FALSE /\ rc = "none"

Signal == /\ prog = "start" /\ prog' = "connect" /\ handler' = TRUE
          /\ UNCHANGED <<nl_sock, need_exit, sent, listens, events, rc>>

(* nl_connect, which closes the socket when bind fails.                    *)
NlConnect == /\ prog = "connect"
             /\ \/ prog' = "listen" /\ nl_sock' = TRUE /\ UNCHANGED rc
                \/ prog' = "end" /\ nl_sock' = FALSE /\ rc' = "failure"
             /\ UNCHANGED <<handler, need_exit, sent, listens, events>>

(* set_proc_ev_listen.                                                     *)
Listen == /\ prog = "listen"
          /\ \/ prog' = "test" /\ listens' = TRUE /\ events' = TRUE /\ UNCHANGED rc
             \/ prog' = "out" /\ rc' = "failure" /\ UNCHANGED <<listens, events>>
          /\ UNCHANGED <<nl_sock, handler, need_exit, sent>>

(* handle_proc_ev: the flag is tested and only then does recv wait.        *)
Test == /\ prog = "test"
        /\ prog' = IF need_exit THEN "ignore" ELSE "call"
        /\ UNCHANGED <<nl_sock, handler, need_exit, sent, listens, events, rc>>

Call == /\ prog = "call" /\ prog' = "recv"
        /\ UNCHANGED <<nl_sock, handler, need_exit, sent, listens, events, rc>>

Recv == /\ prog = "recv" /\ events /\ prog' = "test"
        /\ events' \in BOOLEAN
        /\ UNCHANGED <<nl_sock, handler, need_exit, sent, listens, rc>>

(* recv returns 0, or -1 for another reason than the signal.               *)
RecvEnds == /\ prog = "recv"
            /\ \/ prog' = "ignore" /\ UNCHANGED rc
               \/ prog' = "out" /\ rc' = "failure"
            /\ UNCHANGED <<nl_sock, handler, need_exit, sent, listens, events>>

(* The rest of main: the second call of set_proc_ev_listen may fail too.   *)
Ignore == /\ prog = "ignore" /\ prog' = "out" /\ rc' = "success"
          /\ listens' = FALSE \/ UNCHANGED listens
          /\ UNCHANGED <<nl_sock, handler, need_exit, sent, events>>

Out == /\ prog = "out" /\ prog' = "end" /\ nl_sock' = FALSE
       /\ events' = FALSE
       /\ UNCHANGED <<handler, need_exit, sent, listens, rc>>

-----------------------------------------------------------------------------
(* EINTR: continue.  Mutant: the program goes on to wait.                  *)
WaitAgain == prog' = prog
Continue  == prog' = IF prog = "recv" THEN "test" ELSE prog

(* Control C: the default action, or on_sigint, which may interrupt recv.  *)
SigInt == /\ sent = "no" /\ prog # "end"
          /\ sent' = IF prog = "call" THEN "late" ELSE "noticed"
          /\ IF handler
             THEN need_exit' = TRUE /\ Continue
                  /\ UNCHANGED <<nl_sock, handler, listens, events, rc>>
             ELSE prog' = "end" /\ rc' = "signal"
                  /\ UNCHANGED <<nl_sock, handler, need_exit, listens, events>>

(* Some process is started or ends.                                        *)
Event == /\ listens /\ nl_sock /\ events' = TRUE
         /\ UNCHANGED <<prog, nl_sock, handler, need_exit, sent, listens, rc>>

Program == Signal \/ NlConnect \/ Listen \/ Test \/ Call \/ Recv \/ Ignore \/ Out
Next == Program \/ RecvEnds \/ SigInt \/ Event

(* The program runs; no other process needs to start or end.               *)
Fairness == WF_procvars(Program)
Spec == Init /\ [][Next]_procvars /\ Fairness

-----------------------------------------------------------------------------
(* Control C ends the program without another event, also when it waits in *)
(* recv.  It does not when it comes just before recv: then an event must.  *)
SigIntEnds == sent = "noticed" ~> prog = "end"
=============================================================================
