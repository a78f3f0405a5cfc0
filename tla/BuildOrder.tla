----------------------------- MODULE BuildOrder ------------------------------
(***************************************************************************)
(* src/build: "a crappy dependency resolution system".  From the names on  *)
(* the command line timed_main collects components and what they depend    *)
(* on, backwards and with repetitions, removes the repetitions and builds  *)
(* what is left in order until one fails.                                  *)
(***************************************************************************)
EXTENDS Naturals, SequencesExt

CONSTANTS
  NComponents,  \* Components are 1 .. NComponents; each depends on lower ones.
  MaxRequests   \* How many may be named on the command line.

Components == 1 .. NComponents

VARIABLES
  dependencies,           \* Of each component, in the order of its list or set.
  components,             \* The names that are still to be looked up.
  todo, selected_components,
  build,                  \* "select", "build", "built" or "failed".
  built                   \* Those whose build returned 0, in order.

buildvars == <<dependencies, components, todo, selected_components, build, built>>

(* The lists of different lower components.                                *)
ListsBelow(c) ==
  {s \in SeqOf(1 .. c - 1, c - 1) : \A j, k \in DOMAIN s : s[j] = s[k] => j = k}

Acyclic == {g \in [Components -> ListsBelow(NComponents)] :
              \A c \in Components : g[c] \in ListsBelow(c)}

Init ==
  /\ dependencies \in Acyclic
  /\ components \in SeqOf(Components, MaxRequests) \ {<<>>}
  /\ todo = <<>> /\ selected_components = <<>>
  /\ build = "select" /\ built = <<>>

(* for component_name in components: todo = [component_name]               *)
Root ==
  /\ build = "select" /\ todo = <<>> /\ components # <<>>
  /\ todo' = <<Head(components)>> /\ components' = Tail(components)
  /\ UNCHANGED <<dependencies, selected_components, build, built>>

(* Mutant: what a component depends on comes after it.                     *)
SelectedBehind(c) == Append(selected_components, c)
Selected(c)       == <<c>> \o selected_components

(* todo.pop(0), insert(0, component) and extend(component.dependencies).   *)
Select ==
  /\ build = "select" /\ todo # <<>>
  /\ selected_components' = Selected(Head(todo))
  /\ todo' = Tail(todo) \o dependencies[Head(todo)]
  /\ UNCHANGED <<dependencies, components, build, built>>

(* Mutant: it keeps the last of each.                                      *)
KeepsLast(s, t) ==
  \A j, k \in DOMAIN t : j < k =>
    \E m \in DOMAIN s : s[m] = t[k] /\ \A n \in m .. Len(s) : s[n] # t[j]

(* OrderedDict.fromkeys keeps the first of each: one is before another in  *)
(* the result when it is somewhere in the list with no other before it.    *)
KeepsFirst(s, t) ==
  \A j, k \in DOMAIN t : j < k =>
    \E m \in DOMAIN s : s[m] = t[j] /\ \A n \in 1 .. m : s[n] # t[k]

Unrepeated(s) ==
  {t \in SeqOf(ToSet(s), NComponents) :
     ToSet(t) = ToSet(s) /\ IsInjective(t) /\ KeepsFirst(s, t)}

RemoveDuplicates ==
  /\ build = "select" /\ todo = <<>> /\ components = <<>>
  /\ selected_components' \in Unrepeated(selected_components) /\ build' = "build"
  /\ UNCHANGED <<dependencies, components, todo, built>>

(* The build loop; _Component.build gives 0 where there is nothing to do.  *)
Build ==
  /\ build = "build"
  /\ IF selected_components = <<>>
     THEN build' = "built" /\ UNCHANGED <<built, selected_components>>
     ELSE /\ \/ built' = Append(built, Head(selected_components)) /\ build' = build
             \/ built' = built /\ build' = "failed"
          /\ selected_components' = Tail(selected_components)
  /\ UNCHANGED <<dependencies, components, todo>>

BuildNext == Root \/ Select \/ RemoveDuplicates \/ Build

Spec == Init /\ [][BuildNext]_buildvars /\ WF_buildvars(BuildNext)

-----------------------------------------------------------------------------
(* A component is built once, and after all that it depends on: the list   *)
(* that was collected breadth first and backwards is in that order for     *)
(* every graph, however often a dependency is shared and whatever was      *)
(* named first.                                                            *)
DependenciesFirst ==
  \A k \in DOMAIN built :
    /\ \A j \in DOMAIN built : built[j] = built[k] => j = k
    /\ \A d \in ToSet(dependencies[built[k]]) : Contains(SubSeq(built, 1, k - 1), d)

(* The selection ends, though components are looked up many times.         *)
Ends == <>(build \in {"built", "failed"})

-----------------------------------------------------------------------------
(* The inductive invariant: whatever is in a list, what it depends on is   *)
(* in front of it in the list or, where there is one, in another: todo     *)
(* while components are collected, and built while they are built.         *)
Below(s, others) ==
  \A k \in DOMAIN s : \A d \in ToSet(dependencies[s[k]]) :
    d \in ToSet(others) \/ \E j \in 1 .. k - 1 : s[j] = d

TypeOK ==
  /\ build \in {"select", "build", "built", "failed"}
  /\ components \in Seq(Components) /\ todo \in Seq(Components)
  /\ selected_components \in Seq(Components) /\ built \in Seq(Components)
  /\ build \in {"select", "build"} => \A c \in Components : dependencies[c] \in Seq(1 .. c - 1)

Collected == build = "select" => built = <<>> /\ Below(selected_components, todo)

ToBuild ==
  build = "build" =>
    /\ Below(selected_components, built) /\ IsInjective(selected_components)
    /\ \A j \in DOMAIN selected_components, k \in DOMAIN built :
         selected_components[j] # built[k]

IInv == /\ TypeOK /\ Collected /\ ToBuild
        /\ Below(built, <<>>) /\ IsInjective(built)
=============================================================================
