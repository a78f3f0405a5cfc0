----------------------------- MODULE TestRunner ------------------------------
(***************************************************************************)
(* From the command line to the exit status: LkmcCliFunction.main runs a   *)
(* script once for each emulator and architecture, and the scripts give    *)
(* their work to a thread pool, which is here the abstract WorkPool.  A    *)
(* script of kind "executables" (test-executables) or "build" (build-      *)
(* userland, build-baremetal) has one pool per round, in a with block;     *)
(* "boot" (test-boot) has one for all rounds, made in setup and joined in  *)
(* teardown.                                                               *)
(***************************************************************************)
EXTENDS Naturals

CONSTANTS
  NRounds,  \* Pairs of an emulator and an architecture that were asked for.
  NTests,   \* Programs of a round.
  None

Rounds  == 1 .. NRounds
Tests  == Rounds \X (1 .. NTests)

(* What the proofs assume of the constants.                                *)
Parameters == NRounds \in Nat /\ NTests \in Nat /\ None \notin Tests

VARIABLES
  script, quit_on_fail, all_archs, all_emulators,
  fit,            \* Whether a round fits: "yes", or what is wrong with it.
  main,           \* Where main is, down to submit and join.
  round, test,    \* The indices of its loops.
  raising,        \* An exception other than ThreadPoolExitException is raised.
  return_value,
  test_results,   \* The tests that passed and failed, as teardown finds them.
  raised,         \* History: the tests, or compilations, that raised.
  pending, finished, reports, outcome, phase   \* The pool, see WorkPool.

pool    == <<pending, finished, reports, outcome, phase>>
request == <<script, quit_on_fail, all_archs, all_emulators, fit>>
runvars == <<request, main, round, test, raising, return_value, test_results, raised, pool>>

Pool == INSTANCE WorkPool WITH Items <- Tests

NewPool == /\ pending' = {} /\ finished' = {} /\ reports' = {}
           /\ outcome' = None /\ phase' = "open"

(* setup: test-boot makes its pool.                                        *)
Init ==
  /\ script \in {"executables", "boot", "build"}
  /\ quit_on_fail \in BOOLEAN /\ all_archs \in BOOLEAN /\ all_emulators \in BOOLEAN
  /\ fit \in [Rounds -> {"yes", "not this arch", "not this emulator"}]
  /\ main = "loop" /\ round = 1 /\ test = 1 /\ raising = FALSE /\ return_value = 0
  /\ test_results = [passes |-> {}, fails |-> {}] /\ raised = {}
  /\ pending = {} /\ finished = {} /\ reports = {} /\ outcome = None
  /\ phase = IF script = "boot" THEN "open" ELSE "closed"

(* The loop over emulators and architectures: one that does not fit is     *)
(* left out if all were asked for, and an error if it was named.           *)
Skipped == \/ fit[round] = "not this arch" /\ all_archs
           \/ fit[round] = "not this emulator" /\ all_emulators

Loop ==
  /\ main = "loop" /\ round \in Rounds
  /\ \/ Skipped /\ round' = round + 1 /\ main' = main
     \/ ~Skipped /\ fit[round] # "yes" /\ main' = "raised" /\ round' = round
     \/ fit[round] = "yes" /\ main' = "timed_main" /\ round' = round
  /\ UNCHANGED <<request, test, raising, return_value, test_results, raised, pool>>

(* timed_main up to its loop of submit; a build compiles the object that   *)
(* all programs share first, outside of the pool, and may raise there.     *)
TimedMain ==
  /\ main = "timed_main" /\ test' = 1
  /\ \/ main' = "submit" /\ IF script = "boot" THEN UNCHANGED pool ELSE NewPool
     \/ script = "build" /\ main' = "raised" /\ UNCHANGED pool
  /\ UNCHANGED <<request, round, raising, return_value, test_results, raised>>

-----------------------------------------------------------------------------
(* submit reads the outcome of the pool, then puts; what stops it is       *)
(* submit_raise_exit in the with blocks and submit_skip_exit in test-boot. *)
Submit ==
  /\ main = "submit" /\ test <= NTests
  /\ \/ (outcome = None \/ ~quit_on_fail) /\ main' = "put" /\ test' = test
     \/ outcome # None /\ quit_on_fail /\ script = "boot" /\ main' = main /\ test' = test + 1
     \/ outcome # None /\ quit_on_fail /\ script # "boot" /\ main' = "leave" /\ test' = test
  /\ UNCHANGED <<request, round, raising, return_value, test_results, raised, pool>>

Put ==
  /\ main = "put" /\ Pool!Accept(<<round, test>>)
  /\ main' = "submit" /\ test' = test + 1
  /\ UNCHANGED <<request, round, raising, return_value, test_results, raised>>

(* The properties of a file, or walking to the next one, may raise as well.*)
WalkRaises ==
  /\ main = "submit" /\ script # "boot" /\ main' = "leave" /\ raising' = TRUE
  /\ UNCHANGED <<request, round, test, return_value, test_results, raised, pool>>

(* timed_main of test-boot returns None and leaves its tests running.      *)
LoopDone ==
  /\ main = "submit" /\ test > NTests
  /\ main' = IF script = "boot" THEN "after" ELSE "leave"
  /\ UNCHANGED <<request, round, test, raising, return_value, test_results, raised, pool>>

(* __exit__, and join in the teardown of test-boot.                        *)
Leave ==
  /\ main = "leave" /\ Pool!BeginJoin /\ main' = "join"
  /\ UNCHANGED <<request, round, test, raising, return_value, test_results, raised>>

Joined ==
  /\ main = "join" /\ Pool!Close
  /\ main' = IF raising THEN "raised" ELSE IF script = "boot" THEN "summary" ELSE "after"
  /\ UNCHANGED <<request, round, test, raising, return_value, test_results, raised>>

-----------------------------------------------------------------------------
(* What timed_main returned: _handle_thread_pool_errors, or None.          *)
Ret == IF script # "boot" /\ outcome # None THEN 1 ELSE 0

(* Mutant: the last round decides.                                         *)
LastOfAll(ret) == ret
FirstError(ret) == IF ret # 0 THEN ret ELSE return_value

After ==
  /\ main = "after" /\ return_value' = FirstError(Ret)
  /\ IF Ret # 0 /\ quit_on_fail THEN round' = NRounds + 1 ELSE round' = round + 1
  /\ main' = "loop"
  /\ UNCHANGED <<request, test, raising, test_results, raised, pool>>

(* Mutant: test-boot sums up while its tests are running.                  *)
SummaryFirst == "summary"
AfterLoop == IF script = "boot" THEN "leave" ELSE "summary"

Teardown ==
  /\ main = "loop" /\ round \notin Rounds /\ main' = AfterLoop
  /\ UNCHANGED <<request, round, test, raising, return_value, test_results, raised, pool>>

(* TestCliFunction.teardown: 1 if there is a failure in test_results.      *)
Summary ==
  /\ main = "summary" /\ main' = "returned"
  /\ return_value' = FirstError(IF test_results.fails # {} THEN 1 ELSE 0)
  /\ UNCHANGED <<request, round, test, raising, test_results, raised, pool>>

-----------------------------------------------------------------------------
(* A worker: run_test puts a result, unless it raises, and then            *)
(* handle_output_function gives one to the pool if it is no pass.  The     *)
(* default handle_output of the builds gives the exception.                *)
RunTest(i, how) ==
  /\ script = "build" => how # "fails"
  /\ Pool!Finish(i, how # "passes")
  /\ IF script = "build" \/ how = "raised" THEN UNCHANGED test_results
     ELSE test_results' = [test_results EXCEPT ![how] = @ \cup {i}]
  /\ raised' = IF how = "raised" THEN raised \cup {i} ELSE raised
  /\ UNCHANGED <<request, main, round, test, raising, return_value>>

Record(i) ==
  /\ outcome # i /\ Pool!Record(i)
  /\ UNCHANGED <<request, main, round, test, raising, return_value, test_results, raised>>

Caller == \/ Loop \/ TimedMain \/ Submit \/ Put \/ LoopDone \/ Leave \/ Joined
          \/ After \/ Teardown \/ Summary

Worker == \E i \in Tests : (\E how \in {"passes", "fails", "raised"} : RunTest(i, how)) \/ Record(i)

Next == Caller \/ WalkRaises \/ Worker

Spec == Init /\ [][Next]_runvars

-----------------------------------------------------------------------------
TypeOK ==
  /\ script \in {"executables", "boot", "build"}
  /\ quit_on_fail \in BOOLEAN /\ all_archs \in BOOLEAN /\ all_emulators \in BOOLEAN
  /\ fit \in [Rounds -> {"yes", "not this arch", "not this emulator"}]
  /\ main \in {"loop", "timed_main", "submit", "put", "leave", "join", "after", "summary",
               "returned", "raised"}
  /\ round \in 1 .. NRounds + 1 /\ test \in 1 .. NTests + 1
  /\ main \in {"timed_main", "submit", "put", "after"} => round \in Rounds
  /\ main = "put" => test \in 1 .. NTests
  /\ raising \in BOOLEAN /\ return_value \in {0, 1}
  /\ test_results \in [passes : SUBSET Tests, fails : SUBSET Tests]
  /\ pending \in SUBSET Tests /\ finished \in SUBSET Tests
  /\ reports \in SUBSET finished /\ raised \in SUBSET Tests
  /\ outcome \in reports \cup {None} /\ phase \in {"open", "joining", "closed"}

(* The exit status of the whole command line is a failure if and only if   *)
(* something failed in a round, whichever it was and whatever came after   *)
(* it.  One thing escapes: teardown of test-boot ignores what              *)
(* _handle_thread_pool_errors returns, and a test that raised is in no     *)
(* summary.                                                                *)
FailureIsInStatus ==
  main = "returned" =>
    (return_value # 0 <=>
       test_results.fails # {} \/ (raised # {} /\ script # "boot"))

(* A test that was accepted is in the summary, or raised: nothing runs on  *)
(* when the summary is made.                                               *)
SummaryComplete ==
  main = "returned" =>
    /\ pending = {}
    /\ script # "build" => finished \subseteq test_results.passes \cup test_results.fails \cup raised

(* With --quit-on-fail no other round follows a failure of a script with a *)
(* pool per round.                                                         *)
QuitStops ==
  quit_on_fail /\ script # "boot" =>
    \A i \in test_results.fails \cup raised, j \in pending \cup finished : j[1] <= i[1]

(* However main ends, no thread is left that would keep the process, but   *)
(* where test-boot raises between setup and teardown.                      *)
NoThreadLeft ==
  main \in {"returned", "raised"} /\ ~(script = "boot" /\ main = "raised") =>
    phase = "closed"

(* The four together.                                                      *)
StatusTellsFailure ==
  FailureIsInStatus /\ SummaryComplete /\ QuitStops /\ NoThreadLeft

-----------------------------------------------------------------------------
(* The inductive invariant.                                                *)

Failed == test_results.fails \cup raised

(* Where main is, the pool is open, joined or closed.                      *)
PoolFollowsMain ==
  /\ phase = "joining" <=> main = "join"
  /\ phase = "open" <=>
       \/ main \in {"submit", "put", "leave"}
       \/ script = "boot" /\ main \notin {"join", "summary", "returned"}
  /\ raising => script # "boot" /\ main \in {"leave", "join", "raised"}
  /\ main \in {"leave", "join"} /\ script # "boot" => round \in Rounds

(* A pool that is closed has nothing to do and tells that something failed.*)
ClosedTells == phase = "closed" => pending = {} /\ (reports # {} => outcome # None)

(* A failure is in the reports of the pool until the return value has it.  *)
FailureIsKept ==
  /\ return_value # 0 => Failed # {}
  /\ return_value # 0 /\ script = "boot" => main = "returned" /\ test_results.fails # {}
  /\ return_value = 0 /\ main = "returned" => test_results.fails = {}
  /\ reports \subseteq Failed
  /\ script # "boot" /\ return_value = 0 => Failed \subseteq reports
  /\ script # "boot" /\ return_value = 0 /\ Failed # {} =>
       main \notin {"loop", "timed_main", "summary", "returned"}

ResultsAreKept ==
  script # "build" => finished \subseteq test_results.passes \cup Failed

(* With --quit-on-fail the pool in which something failed is the last.     *)
LastPoolFails ==
  script # "boot" =>
    /\ \A i, j \in pending \cup finished : i[1] = j[1]
    /\ main \in {"submit", "put"} => \A j \in pending \cup finished : j[1] = round
    /\ quit_on_fail => /\ Failed \subseteq reports
                       /\ Failed # {} => main # "timed_main"
                       /\ Failed # {} /\ main = "loop" => round \notin Rounds

IInv == TypeOK /\ PoolFollowsMain /\ ClosedTells /\ FailureIsKept /\ ResultsAreKept
        /\ LastPoolFails

Ends == <>(main \in {"returned", "raised"})
=============================================================================
