---------------------------- MODULE CliArguments -----------------------------
(***************************************************************************)
(* cli_function.py: a function that is called from Python, __call__, or    *)
(* from the command line, cli_noexit, with defaults and a configuration    *)
(* file for what is not given, and get_cli, the command line that stands   *)
(* for a call.  The function is that of the tests of the file: a value is  *)
(* a sequence of words, of one word for what is no list.  None is a key    *)
(* that is left out.                                                       *)
(***************************************************************************)
EXTENDS Naturals, Sequences, FiniteSets

CONSTANTS
  Words,   \* What a list holds, or an argument is.
  Before,  \* The pairs of words in alphabetical order.
  Calls,   \* The arguments a caller may give.
  Configs  \* The arguments a configuration file may set.

Options     == {"append", "asdf", "bool_cli", "bool_nargs", "bool_true"}
Positionals == {"pos_mandatory", "pos_optional", "args_star"}
Bools       == {"bool_cli", "bool_nargs", "bool_true"}
Keys        == Options \cup Positionals
Nothing     == [k \in {} |-> <<>>]

default ==
  [append |-> <<>>, asdf |-> <<"d">>, bool_cli |-> <<"False">>, bool_nargs |-> <<"False">>,
   bool_true |-> <<"True">>, pos_optional |-> <<"d">>, args_star |-> <<>>]

(* Each key that is given has a value of its kind.                         *)
AreArguments(f) ==
  /\ DOMAIN f \subseteq Keys
  /\ \A k \in DOMAIN f :
       /\ f[k] \in Seq(Words)
       /\ k \notin {"append", "args_star"} => Len(f[k]) = 1
       /\ k \in {"bool_cli", "bool_true"} => f[k] \in {<<"True">>, <<"False">>}

Parameters == AreArguments(default) /\ \A f \in Calls \cup Configs : AreArguments(f)

VARIABLES
  config,   \* What the configuration file sets.
  call,     \* The arguments given in a call.
  step,     \* "call", "called" or "raised", "converted", "parsed" or "refused".
  args,     \* What main gets.
  line,     \* The options with their words, and the positional words.
  again     \* What main gets from the command line.

clivars == <<config, call, step, args, line, again>>

Init ==
  /\ config \in Configs /\ call \in Calls
  /\ step = "call" /\ args = Nothing /\ again = Nothing
  /\ line = [options |-> Nothing, positional |-> <<>>]

(* _get_args: args_given, then the configuration file, then the defaults.  *)
Given(c) == {k \in DOMAIN c : ~(k = "args_star" /\ c[k] = <<>>)}

(* Mutant: what the configuration file sets counts for more.               *)
ConfigFirst(c) == [k \in DOMAIN config \cup Given(c) |->
                     IF k \in DOMAIN config THEN config[k] ELSE c[k]]
WithConfig(c)  == [k \in DOMAIN config \cup Given(c) |->
                     IF k \in Given(c) THEN c[k] ELSE config[k]]

Resolved(c) ==
  [k \in DOMAIN default \cup DOMAIN c |->
     IF k \in DOMAIN c /\ c[k] # <<>> THEN c[k] ELSE default[k]]

GetArgs(c) == Resolved(WithConfig(c))

Call ==
  /\ step = "call"
  /\ args' = GetArgs(call)
  /\ step' = IF "pos_mandatory" \in DOMAIN args' THEN "called" ELSE "raised"
  /\ UNCHANGED <<config, call, line, again>>

-----------------------------------------------------------------------------
(* get_cli: only what is not the default.  bisect.insort sorts the options *)
(* by their names and, what is said twice, by its words.                   *)
Differs(k) == k \notin DOMAIN default \/ args[k] # default[k]

Sorted(s) ==
  [i \in DOMAIN s |->
     s[CHOOSE j \in DOMAIN s :
         i = 1 + Cardinality({h \in DOMAIN s : \/ <<s[h], s[j]>> \in Before
                                               \/ s[h] = s[j] /\ h < j})]]

Option(k) ==
  [no    |-> k \in Bools /\ args[k] \in {<<"">>, <<"False">>},
   words |-> IF k \in Bools THEN <<>> ELSE IF k = "append" THEN Sorted(args[k]) ELSE args[k]]

WordsOf(k) == IF Differs(k) THEN args[k] ELSE <<>>

Written ==
  [options    |-> [k \in {o \in Options : Differs(o)} |-> Option(k)],
   positional |-> (WordsOf("pos_mandatory") \o WordsOf("pos_optional")) \o WordsOf("args_star")]

GetCli ==
  /\ step = "called" /\ step' = "converted"
  /\ line' = Written
  /\ UNCHANGED <<config, call, args, again>>

(* argparse.  An option with nargs='?' takes the word behind it, if there  *)
(* is one, which is so if no option is behind it: --no-bool-true is the    *)
(* only one.  Positional arguments are taken in their order.               *)
Takes == "bool_nargs" \in DOMAIN line.options /\ "bool_true" \notin DOMAIN line.options

Value(k) ==
  CASE k = "bool_nargs" -> IF Takes THEN <<Head(line.positional)>> ELSE <<"">>
    [] k \in Bools \ {"bool_nargs"} -> IF line.options[k].no THEN <<"False">> ELSE <<"True">>
    [] k \notin Bools -> line.options[k].words

Left == IF Takes THEN Tail(line.positional) ELSE line.positional

Word(i) == IF i \in DOMAIN Left THEN <<Left[i]>> ELSE <<>>

Placed == [pos_mandatory |-> Word(1), pos_optional |-> Word(2),
           args_star |-> SubSeq(Left, 3, Len(Left))]

Parsed ==
  [k \in DOMAIN line.options \cup {p \in Positionals : Placed[p] # <<>>} |->
     IF k \in Options THEN Value(k) ELSE Placed[k]]

CliNoexit ==
  /\ step = "converted"
  /\ \/ "pos_mandatory" \in DOMAIN Parsed /\ step' = "parsed" /\ again' = GetArgs(Parsed)
     \/ "pos_mandatory" \notin DOMAIN Parsed /\ step' = "refused" /\ again' = Nothing
  /\ UNCHANGED <<config, call, args, line>>

CliNext == Call \/ GetCli \/ CliNoexit

Spec == Init /\ [][CliNext]_clivars

-----------------------------------------------------------------------------
(* Where get_cli is not "the canonical command line arguments that would   *)
(* generate this Python function call" (277): a default value is left out  *)
(* although the configuration file has another, or although an argument    *)
(* behind it is given; the words of append lose their order; a Boolean     *)
(* that takes a word loses it, and takes the next one.                     *)
Lossy ==
  \/ \E k \in DOMAIN config : ~Differs(k) /\ config[k] # default[k]
  \/ ~Differs("pos_optional") /\ Differs("args_star")
  \/ args.append # Sorted(args.append)
  \/ Differs("bool_nargs") /\ ~(args.bool_nargs = <<"">> /\ Differs("bool_true"))

(* What the configuration file has does not happen to be what the command  *)
(* line has lost: it sets positional arguments to words of its own.        *)
Apart ==
  \A f \in Configs :
    /\ "pos_mandatory" \notin DOMAIN f
    /\ \A k \in {"pos_optional", "args_star"} \cap DOMAIN f : \A j \in DOMAIN f[k] :
         /\ f[k][j] # "d"
         /\ \A c \in Calls : \A p \in Positionals \cap DOMAIN c : \A n \in DOMAIN c[p] :
              c[p][n] # f[k][j]

(* Otherwise the command line does what the call does, these are all the   *)
(* exceptions, and what was given in the call is what main gets.           *)
RoundTrip ==
  /\ step \in {"parsed", "refused"} => /\ ~Lossy => again = args
                                       /\ Lossy /\ again = args => ~Apart
  /\ step # "call" => \A k \in DOMAIN call : call[k] # <<>> => args[k] = call[k]

(* What the proofs need: the steps on their own.                           *)
IInv ==
  /\ config \in Configs /\ call \in Calls
  /\ step \in {"call", "called", "raised", "converted", "parsed", "refused"}
  /\ step # "call" => args = GetArgs(call)
  /\ step \notin {"call", "raised"} => "pos_mandatory" \in DOMAIN args
  /\ step \in {"converted", "parsed", "refused"} => line = Written
  /\ step = "parsed" => "pos_mandatory" \in DOMAIN Parsed /\ again = GetArgs(Parsed)
  /\ step = "refused" => "pos_mandatory" \notin DOMAIN Parsed /\ again = Nothing
=============================================================================
