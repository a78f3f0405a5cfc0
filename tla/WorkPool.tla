------------------------------ MODULE WorkPool ------------------------------
(***************************************************************************)
(* What a thread pool promises to the one thread that submits work to it,  *)
(* with no queue, no threads and no lock: the docstrings of ThreadPool in  *)
(* thread_pool.py, as corrected by what the code does (a recorded outcome  *)
(* may be replaced by another one that was reported).  ThreadPool.tla      *)
(* implements this module.                                                 *)
(***************************************************************************)
CONSTANTS
  Items,    (* Inputs of work_function that the caller may submit.         *)
  None      (* Python's None: not an item.                                 *)

VARIABLES
  pending,  (* Submitted items that handle_output has not seen yet.        *)
  finished, (* Items whose work_function and handle_output both ran.       *)
  reports,  (* Finished items whose handle_output gave a result.           *)
  outcome,  (* What get_handle_output_result() returns.                    *)
  phase     (* "open", "joining" (inside join()) or "closed".              *)

vars == <<pending, finished, reports, outcome, phase>>

Init ==
  /\ pending = {}
  /\ finished = {}
  /\ reports = {}
  /\ outcome = None
  /\ phase = "open"

Accept(i) ==
  /\ phase = "open"
  /\ i \notin pending \cup finished
  /\ pending' = pending \cup {i}
  /\ UNCHANGED <<finished, reports, outcome, phase>>

Finish(i, gaveResult) ==
  /\ i \in pending
  /\ pending' = pending \ {i}
  /\ finished' = finished \cup {i}
  /\ reports' = IF gaveResult THEN reports \cup {i} ELSE reports
  /\ UNCHANGED <<outcome, phase>>

Record(i) ==
  /\ phase # "closed"
  /\ i \in reports
  /\ outcome' = i
  /\ UNCHANGED <<pending, finished, reports, phase>>

BeginJoin ==
  /\ phase = "open"
  /\ phase' = "joining"
  /\ UNCHANGED <<pending, finished, reports, outcome>>

(***************************************************************************)
(* join() returns only when nothing is left to run, and if anything went   *)
(* wrong it says so.                                                       *)
(***************************************************************************)
Close ==
  /\ phase = "joining"
  /\ pending = {}
  /\ reports # {} => outcome # None
  /\ phase' = "closed"
  /\ UNCHANGED <<pending, finished, reports, outcome>>

Next ==
  \/ \E i \in Items : Accept(i) \/ Record(i)
  \/ \E i \in Items, gaveResult \in BOOLEAN : Finish(i, gaveResult)
  \/ BeginJoin
  \/ Close

Spec == Init /\ [][Next]_vars
=============================================================================
