---------------------------- MODULE PooledScripts ----------------------------
(***************************************************************************)
(* The scripts of TestRunner on the threads, the queue and the lock of     *)
(* ThreadPool: main is the one thread that submits and joins, a worker     *)
(* calls run_test or _build_one and handle_output_function.  TestRunner    *)
(* says what main does and sees of the pool, ThreadPool what a call on the *)
(* pool does; a step here is the one and the other.                        *)
(*                                                                         *)
(* An input is a pair of a round and a test.  A pool that has not been     *)
(* made yet is like one that was joined: its workers have exited.          *)
(***************************************************************************)
EXTENDS ThreadPool

CONSTANTS
  NRounds,  \* See TestRunner.
  NTests

VARIABLES
  script, quit_on_fail, all_archs, all_emulators, fit, main, round, test, raising,
  return_value, test_results, raised

request    == <<script, quit_on_fail, all_archs, all_emulators, fit>>
scriptvars == <<request, main, round, test, raising, return_value, test_results, raised>>

(* What TestRunner sees of the pool.                                       *)
pending  == {i \in submitted : handled[i] = 0}
finished == {i \in submitted : handled[i] # 0}
outcome  == handle_output_result
phase    == IF main = "join" THEN "joining"
            ELSE IF caller = "returned" THEN "closed" ELSE "open"

Runner == INSTANCE TestRunner

(* The numbers of rounds and tests are numbers, and a test is an input.    *)
ASSUME TestsAssumption == Runner!Parameters /\ Runner!Tests \subseteq Items

-----------------------------------------------------------------------------
(* No pool is made yet.                                                    *)
NotMade ==
  /\ submit_raise_exit = FALSE /\ submit_skip_exit = FALSE
  /\ in_queue = <<>> /\ handle_output_result = None /\ lock = None
  /\ pc = [w \in Workers |-> "exited"] /\ input = [w \in Workers |-> None]
  /\ caller = "returned" /\ poisons = 0 /\ seen = None
  /\ submitted = {} /\ handled = [i \in Items |-> 0] /\ reports = {} /\ late = {}

(* setup of test-boot makes the pool, whose submit skips.                  *)
ScriptsInit ==
  /\ script \in {"executables", "boot", "build"}
  /\ quit_on_fail \in BOOLEAN /\ all_archs \in BOOLEAN /\ all_emulators \in BOOLEAN
  /\ fit \in [Runner!Rounds -> {"yes", "not this arch", "not this emulator"}]
  /\ main = "loop" /\ round = 1 /\ test = 1 /\ raising = FALSE /\ return_value = 0
  /\ test_results = [passes |-> {}, fails |-> {}] /\ raised = {}
  /\ IF script = "boot" THEN Init /\ ~submit_raise_exit /\ submit_skip_exit = quit_on_fail
     ELSE NotMade

(* The with block of the others makes one whose submit raises.             *)
Skips(raise) == submit_raise_exit' = FALSE /\ submit_skip_exit' = raise
Raises(raise) == submit_raise_exit' = raise /\ submit_skip_exit' = FALSE

MadeFor(raise) ==
  /\ Raises(raise)
  /\ in_queue' = <<>> /\ handle_output_result' = None /\ lock' = None
  /\ pc' = [w \in Workers |-> "get"] /\ input' = [w \in Workers |-> None]
  /\ caller' = "idle" /\ poisons' = 0 /\ seen' = None
  /\ submitted' = {} /\ handled' = [i \in Items |-> 0] /\ reports' = {} /\ late' = {}

(* What main does without the pool.                                        *)
Alone ==
  /\ UNCHANGED vars
  /\ Runner!Loop \/ Runner!LoopDone \/ Runner!After \/ Runner!Teardown \/ Runner!Summary

WalkRaises == UNCHANGED vars /\ Runner!WalkRaises

(* timed_main up to its loop, or a build that fails before its pool.       *)
TimedMain ==
  /\ main = "timed_main" /\ test' = 1
  /\ \/ main' = "submit" /\ script = "boot" /\ UNCHANGED vars
     \/ main' = "submit" /\ script # "boot" /\ MadeFor(quit_on_fail)
     \/ main' = "raised" /\ script = "build" /\ UNCHANGED vars
  /\ UNCHANGED <<request, round, raising, return_value, test_results, raised>>

(* A call of submit, from which an exception leaves the with block.        *)
SubmitTest ==
  /\ main = "submit" /\ test <= NTests
  /\ SubmitRead
  /\ main' = CASE caller' = "put"  -> "put"
               [] caller' = "join" -> "leave"
               [] caller' = "idle" -> "submit"
  /\ test' = IF caller' = "idle" THEN test + 1 ELSE test
  /\ UNCHANGED <<request, round, raising, return_value, test_results, raised>>

PutTest ==
  /\ main = "put"
  /\ SubmitPut(<<round, test>>)
  /\ main' = "submit" /\ test' = test + 1
  /\ UNCHANGED <<request, round, raising, return_value, test_results, raised>>

(* __exit__ and teardown: join, its poisons, and its return.               *)
Leave ==
  /\ main = "leave" /\ main' = "join"
  /\ IF caller = "join" THEN UNCHANGED vars ELSE JoinBegin
  /\ UNCHANGED <<request, round, test, raising, return_value, test_results, raised>>

Poison == main = "join" /\ JoinPut /\ UNCHANGED scriptvars

Joined ==
  /\ main = "join"
  /\ JoinReturn
  /\ main' = IF raising THEN "raised" ELSE IF script = "boot" THEN "summary" ELSE "after"
  /\ UNCHANGED <<request, round, test, raising, return_value, test_results, raised>>

Main == Alone \/ TimedMain \/ SubmitTest \/ PutTest \/ Leave \/ Poison \/ Joined

(* A worker has run a test or a compilation, and handle_output gave a      *)
(* result to the pool if it is no pass.                                    *)
RunTest(w, how) ==
  /\ script = "build" => how # "fails"
  /\ Work(w, how # "passes")
  /\ test_results' = IF script = "build" \/ how = "raised" THEN test_results
                     ELSE [test_results EXCEPT ![how] = @ \cup {input[w]}]
  /\ raised' = IF how = "raised" THEN raised \cup {input[w]} ELSE raised
  /\ UNCHANGED <<request, main, round, test, raising, return_value>>

Thread(w) ==
  \/ \E how \in {"passes", "fails", "raised"} : RunTest(w, how)
  \/ (Get(w) \/ Check(w) \/ Acquire(w) \/ Store(w)) /\ UNCHANGED scriptvars

ScriptsNext == Main \/ WalkRaises \/ \E w \in Workers : Thread(w)

ScriptsSpec == ScriptsInit /\ [][ScriptsNext]_<<vars, scriptvars>>

-----------------------------------------------------------------------------
(* The threads, the queue and the lock do for the scripts what TestRunner  *)
(* takes from WorkPool.                                                    *)
ImplementsRunner == Runner!Spec

(* No thread is left that would keep the process, however main ends, but   *)
(* where test-boot raises between setup and teardown.                      *)
ThreadsHaveExited ==
  main \in {"returned", "raised"} /\ ~(script = "boot" /\ main = "raised") => AllJoined
=============================================================================
