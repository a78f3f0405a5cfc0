--------------------------- MODULE AtomicCounter ----------------------------
(***************************************************************************)
(* userland/c/atomic and userland/cpp/atomic: each source of the two       *)
(* directories defines one method and includes main.h or main.hpp, whose   *)
(* main starts threads that increment a global and asserts the sum.  Built *)
(* with -O0, so that each plain increment is a load and a store.           *)
(***************************************************************************)
EXTENDS Integers, FiniteSets

CONSTANTS nthreads, niters   \* The two arguments.

ASSUME ArgumentsAssumption == nthreads \in Nat \ {0} /\ niters \in Nat

Methods == {"FAIL", "STD_ATOMIC", "MUTEX", "X86_64_INC", "X86_64_LOCK_INC",
            "AARCH64_ADD", "LDAXR_STLXR", "AARCH64_LDADD"}
(* "These fail, so we just print the outcomes."                            *)
Fails   == {"FAIL", "X86_64_INC", "AARCH64_ADD"}
Atomic  == {"STD_ATOMIC", "X86_64_LOCK_INC", "AARCH64_LDADD"}
Threads == 0 .. nthreads - 1
Nobody  == nthreads

VARIABLES
  lang, method,  \* Which source was built.
  global,
  mutex,         \* Who has locked it, or Nobody.
  monitor,       \* The threads whose exclusive monitor is set.
  main,          \* Where main is, a step, and the i of its loops.
  thread,        \* Where each thread is.
  iter,          \* Its i.
  scratch64      \* The value it has loaded.

atomicvars == <<lang, method, global, mutex, monitor, main, thread, iter, scratch64>>

Init == /\ lang \in {"c", "cpp"} /\ method \in Methods
        /\ global = 0 /\ mutex = Nobody /\ monitor = {}
        /\ main = <<"create", 0>>
        /\ thread = [t \in Threads |-> "none"]
        /\ iter = [t \in Threads |-> 0]
        /\ scratch64 = [t \in Threads |-> 0]

Create == /\ main[1] = "create" /\ main[2] < nthreads
          /\ thread' = [thread EXCEPT ![main[2]] = "loop"]
          /\ main' = IF main[2] + 1 = nthreads THEN <<"join", 0>>
                     ELSE <<"create", main[2] + 1>>
          /\ UNCHANGED <<lang, method, global, mutex, monitor, iter, scratch64>>

(* Mutant: only the thread that was started first is waited for.           *)
JoinedFirst == main[2] = 0 => thread[0] = "gone"
Joined      == thread[main[2]] = "gone"

Join == /\ main[1] = "join" /\ Joined
        /\ main' = IF main[2] + 1 = nthreads THEN <<"assert", 0>>
                   ELSE <<"join", main[2] + 1>>
        /\ UNCHANGED <<lang, method, global, mutex, monitor, thread, iter, scratch64>>

-----------------------------------------------------------------------------
Goto(t, where) == thread' = [thread EXCEPT ![t] = where]

Loop(t) == /\ thread[t] = "loop"
           /\ Goto(t, IF iter[t] = niters THEN "gone" ELSE "lock")
           /\ UNCHANGED <<lang, method, global, mutex, monitor, main, iter, scratch64>>

(* main.h has no case for the mutex.                                       *)
Locks == method = "MUTEX" /\ lang = "cpp"

Lock(t) == /\ thread[t] = "lock" /\ Goto(t, "load")
           /\ IF Locks THEN mutex = Nobody /\ mutex' = t ELSE UNCHANGED mutex
           /\ UNCHANGED <<lang, method, global, monitor, main, iter, scratch64>>

(* Mutant: the lock prefix is forgotten.                                   *)
OneStepNever == FALSE
OneStep      == method \in Atomic

AtomicInc(t) == /\ thread[t] = "load" /\ OneStep
                /\ global' = global + 1 /\ Goto(t, "unlock")
                /\ UNCHANGED <<lang, method, mutex, monitor, main, iter, scratch64>>

Load(t) == /\ thread[t] = "load" /\ ~OneStep /\ Goto(t, "store")
           /\ scratch64' = [scratch64 EXCEPT ![t] = global]
           /\ monitor' = IF method = "LDAXR_STLXR" THEN monitor \cup {t} ELSE monitor
           /\ UNCHANGED <<lang, method, global, mutex, main, iter>>

(* Mutant: stlxr stores although its monitor is gone.                      *)
StoreAlways(t) == TRUE
MayStore(t)    == method = "LDAXR_STLXR" => t \in monitor

(* A store takes the monitor from the others.                              *)
Store(t) == /\ thread[t] = "store" /\ MayStore(t) /\ Goto(t, "unlock")
            /\ global' = scratch64[t] + 1 /\ monitor' = {}
            /\ UNCHANGED <<lang, method, mutex, main, iter, scratch64>>

(* cbnz: stlxr may also fail for other reasons.                            *)
Again(t) == /\ thread[t] = "store" /\ method = "LDAXR_STLXR" /\ Goto(t, "load")
            /\ monitor' = monitor \ {t}
            /\ UNCHANGED <<lang, method, global, mutex, main, iter, scratch64>>

Unlock(t) == /\ thread[t] = "unlock" /\ Goto(t, "loop")
             /\ mutex' = IF Locks THEN Nobody ELSE mutex
             /\ iter' = [iter EXCEPT ![t] = @ + 1]
             /\ UNCHANGED <<lang, method, global, monitor, main, scratch64>>

Work(t) == Loop(t) \/ Lock(t) \/ AtomicInc(t) \/ Load(t) \/ Store(t) \/ Again(t) \/ Unlock(t)

Next == Create \/ Join \/ \E t \in Threads : Work(t)

Spec == Init /\ [][Next]_atomicvars

-----------------------------------------------------------------------------
Expect == nthreads * niters

(* The assert of every source that has a locked or atomic increment holds, *)
(* and what the others print is in bounds: a lost increment is never made  *)
(* up for, and with two iterations two increments survive any order.       *)
GlobalAtEnd ==
  main[1] = "assert" =>
    IF method \notin Fails /\ (method = "MUTEX" => Locks) THEN global = Expect
    ELSE /\ global <= Expect
         /\ global >= (IF nthreads = 1 \/ niters < 2 THEN niters ELSE 2)

(* The inductive invariant.                                                *)
TypeOK ==
  /\ lang \in {"c", "cpp"} /\ method \in Methods
  /\ global \in Nat /\ mutex \in Threads \cup {Nobody} /\ monitor \subseteq Threads
  /\ main \in ({"create", "join"} \X Threads) \cup {<<"assert", 0>>}
  /\ thread \in [Threads -> {"none", "loop", "lock", "load", "store", "unlock", "gone"}]
  /\ iter \in [Threads -> 0 .. niters] /\ scratch64 \in [Threads -> Nat]

Started(t)   == main[1] = "create" => t < main[2]
WaitedFor(t) == main[1] = "assert" \/ (main[1] = "join" /\ t < main[2])

Progress == \A t \in Threads :
  /\ thread[t] = "none" <=> ~Started(t)
  /\ thread[t] = "none" => iter[t] = 0
  /\ thread[t] \in {"lock", "load", "store", "unlock"} => iter[t] < niters
  /\ thread[t] = "gone" => iter[t] = niters
  /\ WaitedFor(t) => thread[t] = "gone"

Exclusion == \A t \in Threads :
  /\ Locks /\ thread[t] \in {"load", "store", "unlock"} => mutex = t
  /\ OneStep => thread[t] # "store"

(* The increments that were made: the rounds of each thread that are done. *)
Stored(t) == iter[t] + (IF thread[t] = "unlock" THEN 1 ELSE 0)
Added     == {a \in Threads \X (0 .. niters) : a[2] < Stored(a[1])}

(* None is lost if they exclude each other, or there is one thread.        *)
Exact == nthreads = 1 \/ (method \notin Fails /\ (method = "MUTEX" => Locks))

Counted ==
  /\ global <= Cardinality(Added)
  /\ \A t \in Threads : thread[t] = "store" => scratch64[t] <= Cardinality(Added)
  /\ Exact => /\ global = Cardinality(Added)
              /\ \A t \in Threads : thread[t] = "store" /\ MayStore(t) => scratch64[t] = global

(* From the first store on every thread loads at least 1, so that whoever  *)
(* stores 1 has another round to go, in which it stores 2 or more.         *)
TwoSurvive ==
  /\ (\E t \in Threads : Stored(t) >= 1) => global >= 1
  /\ \A t \in Threads : thread[t] = "store" /\ Stored(t) >= 1 => scratch64[t] >= 1
  /\ global >= 2 \/ \E t \in Threads : Stored(t) <= 1

IInv == TypeOK /\ Progress /\ Exclusion /\ Counted /\ TwoSurvive

(* assert(global == expect) of main.h and main.hpp, which is compiled for  *)
(* every method but those in Fails.                                        *)
CounterIsExpected == main[1] = "assert" /\ method \notin Fails => global = Expect
=============================================================================
