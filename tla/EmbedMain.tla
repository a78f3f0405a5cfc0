----------------------------- MODULE EmbedMain ------------------------------
(***************************************************************************)
(* userland/libs/python_embed/pure.c, its main and the function that       *)
(* creates the native module: the references the program owns while it     *)
(* imports a Python file, finds a function in it, converts the arguments   *)
(* of the command line, calls the function and prints what it returns.     *)
(* Every call of the Python library may fail.                              *)
(***************************************************************************)
EXTENDS Integers, FiniteSets

CONSTANT MaxArgs   \* The most arguments on the command line.

(* What main has references to, what the module function has, and the two *)
(* static types, of which one reference is the program's for ever.         *)
Objects == {"module", "func", "args", "value", "m", "base", "derived"}
Static  == [o \in Objects |-> IF o \in {"base", "derived"} THEN 1 ELSE 0]

VARIABLES
  at,        \* What main does next.
  argsleft,  \* How many arguments are still to convert.
  refs,      \* How many references are owned to each object.
  exitcode   \* What main returned; -1 before.

embedvars == <<at, argsleft, refs, exitcode>>

Init == /\ at = "import" /\ argsleft \in 0..MaxArgs
        /\ refs = Static /\ exitcode = -1

(* References taken to a set of objects, and to another set given up.      *)
Takes(r, objs) == [o \in Objects |-> IF o \in objs THEN r[o] + 1 ELSE r[o]]
Gives(r, objs) == [o \in Objects |-> IF o \in objs THEN r[o] - 1 ELSE r[o]]

(* The module owns the types it was given and lets them go with itself.    *)
FreeModule(r, added) == Gives(Gives(r, {"m"}), added)

(* my_native_module_init_func: what it leaves when creation succeeds or    *)
(* each of its calls fails.  PyModule_AddObject keeps the reference it is  *)
(* given only if it succeeds.                                              *)
AddFails(r, type, added) == FreeModule(Gives(r, {type}), added)

(* Mutant: as if the reference had been taken over by the failed call.     *)
AddFailsStolen(r, type, added) == FreeModule(r, added)
AddFailed(r, type, added) == AddFails(r, type, added)

InitFunc(r) ==
  LET created == Takes(r, {"m"})
      one     == Takes(created, {"base"})
      both    == Takes(one, {"derived"})
  IN  {[ok |-> TRUE, refs |-> both],
       [ok |-> FALSE, refs |-> r],
       [ok |-> FALSE, refs |-> created],
       [ok |-> FALSE, refs |-> AddFailed(one, "base", {})],
       [ok |-> FALSE, refs |-> one],
       [ok |-> FALSE, refs |-> AddFailed(both, "derived", {"base"})]}

(* return from main; Py_FinalizeEx comes before the return of 0.           *)
Exit(code) == exitcode' = code /\ at' = "done"

(* PyImport_Import of the file, which imports the native module.           *)
Import ==
  /\ at = "import" /\ UNCHANGED argsleft
  /\ \E native \in InitFunc(refs) :
       \/ /\ native.ok /\ at' = "function" /\ UNCHANGED exitcode
          /\ refs' = Takes(native.refs, {"module"})
       \/ refs' = native.refs /\ Exit(1)

(* PyObject_GetAttrString and PyCallable_Check: not found, found but not   *)
(* callable, or callable.                                                  *)
Function ==
  /\ at = "function" /\ UNCHANGED <<argsleft, exitcode>>
  /\ \/ refs' = refs /\ at' = "finish"
     \/ refs' = Takes(refs, {"func"}) /\ at' = "finish"
     \/ refs' = Takes(refs, {"func", "args"}) /\ at' = "convert"

(* PyLong_FromLong: PyTuple_SetItem takes the new reference over.  What    *)
(* fails leaves pFunc with the caller.                                     *)
Convert ==
  /\ at = "convert" /\ argsleft > 0
  /\ \/ argsleft' = argsleft - 1 /\ UNCHANGED <<at, refs, exitcode>>
     \/ /\ refs' = Gives(refs, {"args", "module"})
        /\ Exit(1) /\ UNCHANGED argsleft

(* PyObject_CallObject and what follows.                                   *)
Call ==
  /\ at = "convert" /\ argsleft = 0 /\ UNCHANGED argsleft
  /\ \/ /\ refs' = Takes(Gives(refs, {"args"}), {"value"})
        /\ at' = "print" /\ UNCHANGED exitcode
     \/ refs' = Gives(refs, {"args", "func", "module"}) /\ Exit(1)

PrintResult == /\ at = "print" /\ at' = "finish"
               /\ refs' = Gives(refs, {"value"})
               /\ UNCHANGED <<argsleft, exitcode>>

(* Py_XDECREF(pFunc): only what was found.  Mutant: Py_DECREF.             *)
DecRef == {"func"}
XDecRef == IF refs["func"] > 0 THEN {"func"} ELSE {}

Finish == /\ at = "finish" /\ refs' = Gives(Gives(refs, XDecRef), {"module"})
          /\ \E code \in {0, 120} : Exit(code)
          /\ UNCHANGED argsleft

Next == Import \/ Function \/ Convert \/ Call \/ PrintResult \/ Finish
Spec == Init /\ [][Next]_embedvars

-----------------------------------------------------------------------------
(* No reference is given up that is not held: a count below what the      *)
(* static types keep for themselves would free them.                       *)
NoOverRelease == \A o \in Objects : refs[o] >= Static[o]

(* A module that failed half way is gone, and the types have no reference  *)
(* from it; once main has ended, well or not, it has given back all that   *)
(* it took.  (Two paths do keep something: the module when PyType_Ready    *)
(* fails, and the function when an argument cannot be converted.)          *)
AllGivenBack ==
  at = "done" =>
    /\ refs["m"] = 0 => refs = Static
    /\ \A o \in {"module", "args", "value"} : refs[o] = 0
    /\ refs["func"] > 0 => exitcode = 1 /\ argsleft > 0

(* The inductive invariant: at each point of main, what it holds beyond    *)
(* what the static types keep; and how main may have ended.                *)
Imported == Takes(Static, {"m", "base", "derived", "module"})

Holds ==
  /\ at = "import" => refs = Static
  /\ at = "function" => refs = Imported
  /\ at = "convert" => refs = Takes(Imported, {"func", "args"})
  /\ at = "print" => refs = Takes(Imported, {"func", "value"})
  /\ at = "finish" => refs \in {Imported, Takes(Imported, {"func"})}

TypeOK ==
  /\ at \in {"import", "function", "convert", "print", "finish", "done"}
  /\ argsleft \in 0..MaxArgs /\ refs \in [Objects -> Int] /\ exitcode \in {-1, 0, 1, 120}

IInv == TypeOK /\ Holds /\ NoOverRelease /\ AllGivenBack
=============================================================================
