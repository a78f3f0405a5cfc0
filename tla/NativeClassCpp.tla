--------------------------- MODULE NativeClassCpp ---------------------------
(***************************************************************************)
(* python_embed/pure_cpp.cpp: an object of MyNativeClass or                *)
(* MyDerivedNativeClass keeps its attributes in a C++ object, to which a   *)
(* derived one has two pointers: that of the base class and its own.       *)
(***************************************************************************)
EXTENDS Naturals, Sequences, SequencesExt, FiniteSets

CONSTANT Data     \* What an attribute may hold; numbers and strings alike.

Base    == "MyNativeClass"
Derived == "MyDerivedNativeClass"
(* The order in which __init__ stores them.                                *)
Fields(k) == IF k = Base THEN <<"number", "first", "last">>
             ELSE <<"number2", "number", "first", "last", "first2", "last2">>
BaseOf == [first2 |-> "first", last2 |-> "last", number2 |-> "number"]
Bad    == "bad"   \* An argument of the wrong type.

VARIABLES
  cls,            \* The class of the object, or "none".
  heap,           \* The C++ objects: the class of each and what it holds.
  base_ptr, ptr,  \* base.cpp_object (or cpp_object of the base class), cpp_object.
  last            \* The attribute that was set last, and to what.

cppvars == <<cls, heap, base_ptr, ptr, last>>

Null == 0
Nothing == <<"", Bad>>
Init == /\ cls = "none" /\ heap = <<>> /\ base_ptr = Null /\ ptr = Null
        /\ last = Nothing

(* The constructors: number2 is left with what the memory held.            *)
Construct(k) == {o \in [ToSet(Fields(k)) -> Data] :
                   \A f \in DOMAIN o : f # "number2" => o[f] = CHOOSE d \in Data : TRUE}

(* new_noalloc, which the derived class calls with its pointer set.        *)
(* Mutant: it allocates in any case.                                       *)
Always(k)    == TRUE
WhenNull(k)  == k = Base

New(k) == /\ cls = "none" /\ cls' = k /\ last' = Nothing
          /\ \E o \in Construct(k), b \in Construct(Base) :
             CASE k = Base -> heap' = <<b>> /\ base_ptr' = 1 /\ ptr' = Null
               [] k # Base /\ WhenNull(k) -> heap' = <<o, b>> /\ base_ptr' = 2 /\ ptr' = 1
               [] OTHER -> heap' = <<o>> /\ base_ptr' = 1 /\ ptr' = 1

(* tp_dealloc, of the base class in both cases.                            *)
Dealloc == /\ cls # "none" /\ cls' = "none" /\ last' = Nothing
           /\ heap' = SubSeq(heap, 1, base_ptr - 1) /\ base_ptr' = Null /\ ptr' = Null

(* __init__ stores one argument after the other, until one is not of its   *)
(* type; a keyword of the derived class stops the init of the base class.  *)
Stored(args, kw) ==
  LET given == SelectSeq(Fields(cls), LAMBDA f : f \in DOMAIN args)
      stop  == {n \in DOMAIN given : \/ args[given[n]] = Bad
                                     \/ kw /\ given[n] # "number2"}
  IN {given[n] : n \in {m \in DOMAIN given : \A s \in stop : m < s}}

RunInit(args, kw) ==
  /\ cls # "none" /\ DOMAIN args \subseteq ToSet(Fields(cls)) /\ (kw => cls = Derived)
  /\ last' = Nothing
  /\ heap' = [heap EXCEPT ![base_ptr] =
               [f \in DOMAIN @ |-> IF f \in Stored(args, kw) THEN args[f] ELSE @[f]]]
  /\ UNCHANGED <<cls, base_ptr, ptr>>

(* The getters and setters of first2, last2 and number2 are those of       *)
(* first, last and number.  Mutant: the getters are the ones meant.        *)
Meant(f)  == f
GotBy(f)  == IF f \in DOMAIN BaseOf THEN BaseOf[f] ELSE f
SetBy(f)  == IF f \in DOMAIN BaseOf THEN BaseOf[f] ELSE f

Set(f, d) == /\ cls # "none" /\ f \in ToSet(Fields(cls)) /\ d # Bad
             /\ heap' = [heap EXCEPT ![base_ptr][SetBy(f)] = d] /\ last' = <<f, d>>
             /\ UNCHANGED <<cls, base_ptr, ptr>>

(* A string that is not ASCII: the pointer to its bytes is NULL.           *)
Crash == /\ cls # "none" /\ cls' = "none" /\ heap' = <<>>
         /\ base_ptr' = Null /\ ptr' = Null /\ last' = Nothing

Next == \/ \E k \in {Base, Derived} : New(k)
        \/ Dealloc \/ Crash
        \/ \E fs \in SUBSET ToSet(Fields(Derived)) :
             \E args \in [fs -> {CHOOSE d \in Data : d # CHOOSE e \in Data : TRUE, Bad}] :
               \E kw \in BOOLEAN : RunInit(args, kw)
        \/ \E f \in ToSet(Fields(Derived)), d \in Data : Set(f, d)

Spec == Init /\ [][Next]_cppvars

-----------------------------------------------------------------------------
(* One C++ object to a Python object, both of its pointers to it, so that  *)
(* what __init__, the setters and name2 use is one and the same, and the   *)
(* delete of the base class leaves no object behind.                       *)
OneObject ==
  /\ Len(heap) = (IF cls = "none" THEN 0 ELSE 1)
  /\ cls = Derived => base_ptr = ptr

(* An attribute reads back as it was set, although first2, last2 and       *)
(* number2 are not kept where their names say.                             *)
ReadsBack == last # Nothing => heap[base_ptr][GotBy(last[1])] = last[2]

(* The inductive invariant: while there is an object, its C++ object is    *)
(* the only one and has the members of its class, and what was set last is *)
(* in the member that its setter means.                                    *)
Whole ==
  /\ cls = "none" => heap = <<>> /\ base_ptr = Null
  /\ cls # "none" => /\ cls \in {Base, Derived} /\ heap = <<heap[1]>> /\ base_ptr = 1
                    /\ DOMAIN heap[1] = ToSet(Fields(cls))
  /\ cls = Derived => ptr = 1

LastIsKept ==
  last # Nothing => /\ cls # "none" /\ last[1] \in ToSet(Fields(cls))
                    /\ heap[base_ptr][SetBy(last[1])] = last[2]

IInv == Whole /\ LastIsKept
=============================================================================
