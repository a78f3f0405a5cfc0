---------------------------- MODULE NativeClass -----------------------------
(***************************************************************************)
(* python_embed/pure.c: reference counts of an object of MyNativeClass or  *)
(* MyDerivedNativeClass and of the values of its attributes.  The last     *)
(* Py_DECREF of a value runs its destructor, which is Python code and may  *)
(* use the object again in the middle of the C function that released it.  *)
(***************************************************************************)
EXTENDS Integers, Sequences, SequencesExt, FiniteSetsExt

CONSTANTS Values,      \* Objects with a destructor that attributes may hold.
          BaseFields, OwnFields  \* Attributes of the base and of the derived
                                 \* class, in the order of the arguments.

Base    == "MyNativeClass"
Derived == "MyDerivedNativeClass"
Empty   == "empty"     \* PyUnicode_FromString(""), which nobody counts.
Null    == "null"
Self    == "self"
Fields(k) == IF k = Base THEN BaseFields ELSE BaseFields \o OwnFields
AllFields == ToSet(Fields(Derived))

(* What the proofs assume of the constants: no attribute is twice there.   *)
Parameters ==
  /\ BaseFields \in Seq(AllFields) /\ OwnFields \in Seq(AllFields)
  /\ \A m, n \in DOMAIN Fields(Derived) :
       Fields(Derived)[m] = Fields(Derived)[n] => m = n
  /\ Values \cap {Empty, Null, Self} = {}

VARIABLES
  self, kind,   \* Of the object: "none", "live", "dying" or "freed".
  attr,         \* self->first and so on.
  rc,           \* ob_refcnt of each value; 0 when it does not exist.
  prog,         \* What the program refers to: values, and perhaps Self.
  owners,       \* Values that refer to the object: cycles.
  todo,         \* What the C functions that were called have still to do.
  swept         \* The collector ran, and nothing else since.

vars == <<self, kind, attr, rc, prog, owners, todo, swept>>

Init == /\ self = "none" /\ kind = Base /\ attr = [f \in AllFields |-> Null]
        /\ rc = [v \in Values |-> 0] /\ prog = {} /\ owners = {}
        /\ todo = <<>> /\ swept = FALSE

At(op) == todo # <<>> /\ todo[1][1] = op
Decref(v) == << <<"decref", v>> >>
Decrefs(fs) == [n \in DOMAIN fs |-> <<"decref", attr[fs[n]]>>]

(* A call of a method keeps its object until it returns.                   *)
SelfCount == Cardinality(owners) + Cardinality({Self} \cap prog)
             + Quantify(DOMAIN todo, LAMBDA n : todo[n][1] = "return")

(* Python code runs in the program and in a destructor.                    *)
Python == /\ todo = <<>> \/ At("del")
          /\ self = "live" => SelfCount > 0
Uses   == Python /\ self = "live" /\ Self \in prog
Call(code) == todo' = code \o << <<"return">> >> \o todo

-----------------------------------------------------------------------------
Make(v) == /\ Python /\ v \notin owners /\ <<"del", v>> \notin ToSet(todo) /\ rc[v] = 0
           /\ rc' = [rc EXCEPT ![v] = 1] /\ prog' = prog \cup {v}
           /\ UNCHANGED <<self, kind, attr, owners, todo>>

(* Not an argument of a call that has still to take it.                    *)
Drop(v) == /\ Python /\ v \in prog /\ prog' = prog \ {v}
           /\ \A n \in DOMAIN todo : todo[n][1] = "assign" => todo[n][3] # v
           /\ todo' = Decref(v) \o todo
           /\ UNCHANGED <<self, kind, attr, rc, owners>>

(* A value gets an attribute of its own that refers to the object.         *)
Attach(v) == /\ Uses /\ v \in prog /\ owners' = owners \cup {v}
             /\ UNCHANGED <<self, kind, attr, rc, prog, todo>>

(* tp_new.  Without memory it releases an object with no attributes.       *)
New(k) == /\ Python /\ todo = <<>> /\ self \in {"none", "freed"}
          /\ \/ /\ self' = "live" /\ kind' = k /\ prog' = prog \cup {Self}
                /\ attr' = [f \in AllFields |-> IF f \in ToSet(Fields(k)) THEN Empty ELSE Null]
             \/ self' = "freed" /\ UNCHANGED <<kind, prog, attr>>
          /\ UNCHANGED <<rc, owners, todo>>

Get(f) == /\ Uses /\ attr[f] \in Values \ prog
          /\ rc' = [rc EXCEPT ![attr[f]] = @ + 1] /\ prog' = prog \cup {attr[f]}
          /\ UNCHANGED <<self, kind, attr, owners, todo>>

(* The setters, and __init__ for each argument.                            *)
Setter(f, v) == /\ Uses /\ f \in ToSet(Fields(kind)) /\ v \in prog \cap Values
                /\ Call(<< <<"assign", f, v>> >>)
                /\ UNCHANGED <<self, kind, attr, rc, prog, owners>>

(* __init__, with a value for some fields, by position or by keyword: the  *)
(* others are NULL.  The derived class hands all keywords to the base      *)
(* class, which refuses those that it does not have.                       *)
RunInit(args, kw) ==
  LET fs == Fields(kind) IN
  /\ Uses /\ \A f \in kw : args[f] # Null
  /\ \A f \in AllFields \ ToSet(fs) : args[f] = Null
  /\ IF kw \subseteq ToSet(BaseFields)
     THEN Call([n \in DOMAIN fs |-> <<"assign", fs[n], args[fs[n]]>>])
     ELSE UNCHANGED todo
  /\ UNCHANGED <<self, kind, attr, rc, prog, owners>>

DropSelf == /\ Uses /\ prog' = prog \ {Self}
            /\ UNCHANGED <<self, kind, attr, rc, owners, todo>>

-----------------------------------------------------------------------------
(* What C code does.  Mutants: the old value is released before the new    *)
(* one is in its place; Py_INCREF is forgotten.                            *)
ReleaseFirst(f, v) == Decref(attr[f]) \o << <<"store", f, v>> >>
StoreFirst(f, v)   == << <<"store", f, v>> >> \o Decref(attr[f])
Borrowed(v)  == rc
Increased(v) == [rc EXCEPT ![v] = @ + 1]

Assign == /\ At("assign")
          /\ IF todo[1][3] = Null
             THEN todo' = Tail(todo) /\ rc' = rc
             ELSE /\ rc' = Increased(todo[1][3])
                  /\ todo' = StoreFirst(todo[1][2], todo[1][3]) \o Tail(todo)
          /\ UNCHANGED <<self, kind, attr, prog, owners, swept>>
Store == /\ At("store") /\ attr' = [attr EXCEPT ![todo[1][2]] = todo[1][3]]
         /\ todo' = Tail(todo)
         /\ UNCHANGED <<self, kind, rc, prog, owners, swept>>
Return == /\ At("return") /\ todo' = Tail(todo)
          /\ UNCHANGED <<self, kind, attr, rc, prog, owners, swept>>

(* NULL and the empty string have no count here.                           *)
Release == /\ At("decref")
           /\ LET v == todo[1][2] IN
              IF v \notin Values
              THEN todo' = Tail(todo) /\ rc' = rc
              ELSE /\ rc' = [rc EXCEPT ![v] = @ - 1]
                   /\ todo' = (IF rc[v] = 1 THEN << <<"del", v>> >> ELSE <<>>) \o Tail(todo)
           /\ UNCHANGED <<self, kind, attr, prog, owners, swept>>

(* The destructor returns, and the value lets go of what it refers to.     *)
Deleted == /\ At("del") /\ todo' = Tail(todo) /\ owners' = owners \ {todo[1][2]}
           /\ UNCHANGED <<self, kind, attr, rc, prog, swept>>

(* tp_dealloc.  Mutant: the derived class does not go on to the base.      *)
OwnOnly(k) == IF k = Base THEN BaseFields ELSE OwnFields
OwnThenBase(k) == IF k = Base THEN BaseFields ELSE OwnFields \o BaseFields

Dealloc == /\ self = "live" /\ SelfCount = 0 /\ self' = "dying"
           /\ todo' = Decrefs(OwnThenBase(kind)) \o << <<"free">> >> \o todo
           /\ UNCHANGED <<kind, attr, rc, prog, owners, swept>>
Free == /\ At("free") /\ todo' = Tail(todo) /\ self' = "freed"
        /\ attr' = [f \in AllFields |-> Null]
        /\ UNCHANGED <<kind, rc, prog, owners, swept>>

(* The cyclic collector, between two calls of the program: tp_traverse     *)
(* tells it which references to the owners come from the object.  The      *)
(* functions of the derived class visit and clear its own attributes only. *)
(* Mutant: it has none and inherits those of the base.                     *)
Inherits(k) == BaseFields
Visits(k) == IF k = Base THEN BaseFields ELSE OwnFields
FromSelf(v) == Quantify(ToSet(Visits(kind)), LAMBDA f : attr[f] = v)

Collect ==
  /\ Python /\ todo = <<>> /\ self = "live" /\ Self \notin prog /\ swept' = TRUE
  /\ IF \A v \in owners : FromSelf(v) = rc[v]
     THEN /\ Call(Decrefs(Visits(kind)))
          /\ attr' = [f \in AllFields |-> IF f \in ToSet(Visits(kind)) THEN Null ELSE attr[f]]
     ELSE UNCHANGED <<todo, attr>>
  /\ UNCHANGED <<self, kind, rc, prog, owners>>

Program == \/ \E v \in Values : Make(v) \/ Drop(v) \/ Attach(v)
           \/ \E k \in {Base, Derived} : New(k)
           \/ \E f \in AllFields : Get(f) \/ \E v \in Values : Setter(f, v)
           \/ \E args \in [AllFields -> (Values \cap prog) \cup {Null}], kw \in SUBSET AllFields :
                RunInit(args, kw)
           \/ DropSelf

Next == \/ Program /\ swept' = FALSE
        \/ Assign \/ Store \/ Return \/ Release \/ Deleted \/ Dealloc \/ Free \/ Collect

Spec == Init /\ [][Next]_vars

-----------------------------------------------------------------------------
(* Python code that runs in the middle of a setter or of __init__ finds    *)
(* only values that exist in the attributes.                               *)
NoDangling ==
  self = "live" /\ At("del") => \A f \in AllFields : attr[f] \in Values => rc[attr[f]] > 0

(* Between two calls the count of a value is the number of its references: *)
(* it is freed when the last is gone, not before and not never.            *)
CountsExact ==
  todo = <<>> => \A v \in Values :
    rc[v] = Cardinality({v} \cap prog) + Quantify(AllFields, LAMBDA f : attr[f] = v)

(* An object that only its own values refer to is found by the collector;  *)
(* but not a derived one that refers to them through the base class.       *)
CyclesCollected ==
  swept /\ todo = <<>> /\ prog = {} /\ self = "live" /\ SelfCount > 0 =>
    kind = Derived /\ \E f \in ToSet(BaseFields) : attr[f] \in owners

-----------------------------------------------------------------------------
(* The inductive invariant.  What a call of C code has still to do: *)
Ops == UNION {
  {<<"assign", f, v>> : f \in ToSet(Fields(kind)), v \in Values \cup {Null}},
  {<<"store", f, v>> : f \in ToSet(Fields(kind)), v \in Values},
  {<<"decref", v>> : v \in Values \cup {Empty, Null}},
  {<<"del", v>> : v \in Values},
  {<<"return">>, <<"free">>}}

TypeOK ==
  /\ self \in {"none", "live", "dying", "freed"} /\ kind \in {Base, Derived}
  /\ attr \in [AllFields -> Values \cup {Empty, Null}]
  /\ rc \in [Values -> Nat] /\ prog \subseteq Values \cup {Self}
  /\ owners \subseteq Values /\ IsFiniteSet(owners)
  /\ todo \in Seq(Ops) /\ swept \in BOOLEAN

(* A call that stores has not returned, and has the object until it does;  *)
(* a store comes right after its Py_INCREF.                                *)
CallsReturn ==
  /\ \A n \in DOMAIN todo : todo[n][1] \in {"assign", "store"} =>
       \E m \in DOMAIN todo : n < m /\ todo[m][1] = "return"
  /\ \A n \in DOMAIN todo : todo[n][1] = "return" => self = "live"
  /\ \A n \in DOMAIN todo : todo[n][1] = "store" => n = 1

(* tp_dealloc is called once, and frees the object at its end.             *)
FreedOnce ==
  /\ self = "dying" <=> \E n \in DOMAIN todo : todo[n][1] = "free"
  /\ \A m, n \in DOMAIN todo : todo[m][1] = "free" /\ todo[n][1] = "free" => m = n

NothingElseHeld ==
  \A f \in AllFields : attr[f] # Null =>
    self \in {"live", "dying"} /\ f \in ToSet(Fields(kind))

(* Where the references to a value are: attributes, but not those of which *)
(* the reference is released already; and what C code holds for a moment.  *)
Holding(v) == {f \in AllFields : /\ attr[f] = v /\ self # "dying"
                                 /\ At("store") => todo[1][2] # f}
Owes(op, v) == op = <<"decref", v>> \/ (op[1] = "store" /\ op[3] = v)
OwedIn(ops, v) == {n \in DOMAIN ops : Owes(ops[n], v)}

Counted ==
  \A v \in Values : rc[v] = Cardinality({v} \cap prog) + Cardinality(Holding(v))
                           + Cardinality(OwedIn(todo, v))

(* An owner that was released is on its way out.                           *)
OwnersThere == \A v \in owners : rc[v] > 0 \/ <<"del", v>> \in ToSet(todo)

(* What the collector leaves: no reference that it visits, or, where it    *)
(* found an owner that something else refers to, those of the base class.  *)
Sweeping ==
  swept /\ self = "live" =>
    /\ \A n \in DOMAIN todo : todo[n][1] \notin {"assign", "store"}
    /\ \/ \A f \in ToSet(Visits(kind)) : attr[f] \notin Values
       \/ /\ todo = <<>>
          /\ prog = {} => kind = Derived /\ \E f \in ToSet(BaseFields) : attr[f] \in owners

IInv == /\ TypeOK /\ CallsReturn /\ FreedOnce /\ NothingElseHeld
        /\ Counted /\ OwnersThere /\ Sweeping
=============================================================================
