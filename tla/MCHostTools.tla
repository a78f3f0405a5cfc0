---------------------------- MODULE MCHostTools -----------------------------
(***************************************************************************)
(* The Python programs of the host: the thread pool on its own, the        *)
(* scripts on that pool, the order of ./build and the arguments of a       *)
(* command.  A behaviour is one of one of them, the part, and the          *)
(* variables of the others stay as they are.                               *)
(***************************************************************************)
EXTENDS PooledScripts, TLC, Functions

CONSTANTS
  NComponents, MaxRequests,        \* Of BuildOrder.
  Words, Before, Calls, Configs    \* Of CliArguments.

(* The inputs, in the order in which test-boot submits them.               *)
Inputs == {1, 2} \X {1, 2}

(* Calls with None, or without the key, for each argument in turn, and     *)
(* words in their alphabetical order.                                      *)
Alphabet   == <<"", "False", "True", "c", "d", "v">>
WordsUsed  == {Alphabet[i] : i \in DOMAIN Alphabet}
InAlphabet ==
  UNION {{<<Alphabet[i], Alphabet[j]>> : i \in 1 .. (j - 1)} : j \in DOMAIN Alphabet}

CallsMade ==
  {Restrict(c, {k \in DOMAIN c : c[k] # <<"None">>}) : c \in
     [append : {<<"None">>, <<>>, <<"d", "v">>, <<"v", "d">>},
      asdf : {<<"d">>, <<"v">>},
      bool_cli : {<<"None">>, <<"True">>, <<"False">>},
      bool_nargs : {<<"None">>, <<"True">>, <<"">>, <<"v">>},
      bool_true : {<<"None">>, <<"False">>},
      pos_mandatory : {<<"None">>, <<"v">>},
      pos_optional : {<<"None">>, <<"v">>},
      args_star : {<<"None">>, <<>>, <<"v", "d">>}]}

ConfigsRead ==
  {[k \in {} |-> <<>>], [bool_cli |-> <<"True">>], [asdf |-> <<"v">>],
   [bool_cli |-> <<"False">>, args_star |-> <<"c", "c">>], [append |-> <<"v">>]}

(* Items are only compared for equality: that they are submitted in one    *)
(* order loses no behaviour but for the names.                             *)
InOrder ==
  \A i \in submitted, j \in Items :
    j[1] < i[1] \/ (j[1] = i[1] /\ j[2] < i[2]) => j \in submitted

VARIABLES
  part,
  dependencies, components, todo, selected_components, build, built,
  conf, call, step, args, line, again

order == <<dependencies, components, todo, selected_components, build, built>>
cli   == <<conf, call, step, args, line, again>>
pooled == <<vars, scriptvars>>
tools == <<part, vars, scriptvars, order, cli>>

Order  == INSTANCE BuildOrder
Cli    == INSTANCE CliArguments WITH config <- conf

ASSUME ToolsAssumption == NComponents \in Nat /\ MaxRequests \in Nat /\ Cli!Parameters

(* Bound: a round may not fit in two ways that mirror each other.  Of one, *)
(* all were asked for, the other was named.                                *)
FewRequests == all_archs = (script = "boot") /\ all_emulators = (script # "boot")

(* The parts that are not run are in one of their initial states.          *)
ToolsInit ==
  /\ part \in {"pool", "scripts", "order", "cli"}
  /\ IF part = "scripts"
     THEN ScriptsInit /\ FewRequests
     ELSE /\ Init /\ (part # "pool" => ~submit_raise_exit /\ ~submit_skip_exit)
          /\ script = "boot" /\ quit_on_fail = FALSE /\ all_archs = FALSE
          /\ all_emulators = FALSE /\ fit = [k \in Runner!Rounds |-> "yes"] /\ main = "loop"
          /\ round = 1 /\ test = 1 /\ raising = FALSE /\ return_value = 0
          /\ test_results = [passes |-> {}, fails |-> {}] /\ raised = {}
  /\ IF part = "order" THEN Order!Init
     ELSE /\ dependencies = <<>> /\ components = <<>> /\ todo = <<>>
          /\ selected_components = <<>> /\ build = "built" /\ built = <<>>
  /\ IF part = "cli" THEN Cli!Init
     ELSE /\ conf = Cli!Nothing /\ call = Cli!Nothing /\ step = "call"
          /\ args = Cli!Nothing /\ again = Cli!Nothing
          /\ line = [options |-> Cli!Nothing, positional |-> <<>>]

Only(p) ==
  /\ part = p /\ UNCHANGED part
  /\ IF p \in {"pool", "scripts"} THEN TRUE ELSE UNCHANGED vars
  /\ IF p = "scripts" THEN TRUE ELSE UNCHANGED scriptvars
  /\ IF p = "order" THEN TRUE ELSE UNCHANGED order
  /\ IF p = "cli" THEN TRUE ELSE UNCHANGED cli

ToolsNext ==
  \/ Only("pool") /\ Next /\ InOrder'
  \/ Only("scripts") /\ ScriptsNext
  \/ Only("order") /\ Order!BuildNext
  \/ Only("cli") /\ Cli!CliNext

(* Each thread that can go on does: the one that submits and joins, or     *)
(* selects what to build, and every worker.                                *)
ToolsFairness ==
  /\ WF_vars(part = "pool" /\ Join)
  /\ WF_pooled(part = "scripts" /\ Main)
  /\ \A w \in Workers : /\ WF_vars(part = "pool" /\ Worker(w))
                        /\ WF_pooled(part = "scripts" /\ Thread(w))
  /\ WF_order(part = "order" /\ Order!BuildNext)

ToolsSpec == ToolsInit /\ [][ToolsNext]_tools /\ ToolsFairness

-----------------------------------------------------------------------------
(* The exit status of a script is a failure if and only if something in    *)
(* one of its rounds failed, all that was started is in the summary,       *)
(* --quit-on-fail stops it, and no thread is left behind.                  *)
StatusTellsFailure ==
  part = "scripts" => Runner!StatusTellsFailure /\ ThreadsHaveExited

(* The threads, the queue and the lock do what WorkPool promises to        *)
(* whoever calls them in their order, and what TestRunner takes of it to   *)
(* the scripts, whose pools follow one another.                            *)
ImplementPromises ==
  /\ part = "pool" => Pool!Init
  /\ [][part = "pool" => Pool!Next]_(Pool!vars)
  /\ part = "scripts" => Runner!Init
  /\ [][part = "scripts" => Runner!Next]_(Runner!runvars)

(* ./build builds a component once, and after all that it depends on.      *)
DependenciesFirst == Order!DependenciesFirst

(* get_cli of a call is a command line that does the same, with the        *)
(* exceptions listed with it.                                              *)
RoundTrip == Cli!RoundTrip

(* What is accepted by the pool is done and join returns, scripts end, and *)
(* so does the selection of what to build.                                 *)
ToolsReturn ==
  /\ WorkIsDone
  /\ part = "scripts" => Runner!Ends
  /\ part = "order" => Order!Ends
=============================================================================
