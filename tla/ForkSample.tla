----------------------------- MODULE ForkSample -----------------------------
(***************************************************************************)
(* userland/posix/fork.c: the parent prints, forks and waits for the child *)
(* that prints, adds 1 to its copy of i and exits.  What is printed stays  *)
(* in the buffer of the process until it is flushed, by the line when the  *)
(* output is a terminal, and at exit.                                      *)
(***************************************************************************)
EXTENDS Naturals, Sequences, SequencesExt

Procs == {"parent", "child"}

VARIABLES
  tty,          \* Whether stdout is a terminal.
  pc,           \* Where each process is; "none" before the fork.
  memory,       \* Its i.
  stdout,       \* Its buffer of stdout: the lines in it.
  output        \* What arrived at the terminal or in the file.

forkvars == <<tty, pc, memory, stdout, output>>

Init == /\ tty \in BOOLEAN
        /\ pc = [parent |-> "start", child |-> "none"]
        /\ memory = [p \in Procs |-> 0]
        /\ stdout = [p \in Procs |-> <<>>]
        /\ output = <<>>

Goto(p, where) == pc' = [pc EXCEPT ![p] = where]

(* printf of a line and its terminator.                                    *)
print_pid(p, msg) ==
  IF tty THEN output' = Append(output, <<p, msg>>) /\ UNCHANGED stdout
  ELSE stdout' = [stdout EXCEPT ![p] = Append(@, <<p, msg>>)] /\ UNCHANGED output

(* fflush, and what exit does.                                             *)
Flushed(p) == /\ output' = output \o stdout[p]
              /\ stdout' = [stdout EXCEPT ![p] = <<>>]

(* Mutant: nothing is flushed before the fork.                             *)
NoFlush == UNCHANGED <<stdout, output>>
Flush   == Flushed("parent")

BeforeFork == /\ pc["parent"] = "start" /\ Goto("parent", "flush")
              /\ print_pid("parent", "before_fork") /\ UNCHANGED <<tty, memory>>

FlushOutput == /\ pc["parent"] = "flush" /\ Goto("parent", "fork") /\ Flush
               /\ UNCHANGED <<tty, memory>>

(* The child has a copy of everything, the buffer of stdout included.      *)
Fork == /\ pc["parent"] = "fork"
        /\ pc' = [parent |-> "forked", child |-> "forked"]
        /\ memory' = [memory EXCEPT !["child"] = memory["parent"]]
        /\ stdout' = [stdout EXCEPT !["child"] = stdout["parent"]]
        /\ UNCHANGED <<tty, output>>

(* assert(false) after an error: abort does not flush.                     *)
ForkFails == /\ pc["parent"] = "fork" /\ Goto("parent", "aborted")
             /\ UNCHANGED <<tty, memory, stdout, output>>

AfterFork(p) == /\ pc[p] = "forked" /\ Goto(p, IF p = "child" THEN "inside" ELSE "after")
                /\ print_pid(p, "after_fork") /\ UNCHANGED <<tty, memory>>

Inside == /\ pc["child"] = "inside" /\ Goto("child", "add")
          /\ print_pid("child", "inside") /\ UNCHANGED <<tty, memory>>

(* i++ and exit.                                                           *)
Exit == /\ pc["child"] = "add" /\ Goto("child", "exited")
        /\ memory' = [memory EXCEPT !["child"] = @ + 1]
        /\ Flushed("child") /\ UNCHANGED tty

After == /\ pc["parent"] = "after" /\ Goto("parent", "wait")
         /\ print_pid("parent", "after") /\ UNCHANGED <<tty, memory>>

(* wait.  Mutant: it is not called.                                        *)
NotAwaited == TRUE
Waited == pc["child"] = "exited"

Wait == /\ pc["parent"] = "wait" /\ Waited /\ Goto("parent", "return")
        /\ print_pid("parent", "after_wait") /\ UNCHANGED <<tty, memory>>

(* assert(i == 0) and the return from main.                                *)
Return == /\ pc["parent"] = "return" /\ memory["parent"] = 0
          /\ Goto("parent", "exited") /\ Flushed("parent") /\ UNCHANGED <<tty, memory>>

Run == BeforeFork \/ FlushOutput \/ Fork \/ ForkFails \/ Inside \/ Exit \/ After
       \/ Wait \/ Return \/ \E p \in Procs : AfterFork(p)
Next == Run
Spec == Init /\ [][Next]_forkvars

-----------------------------------------------------------------------------
(* Every line comes out once, whatever stdout is and however the two run:  *)
(* "Flush before fork so that existing output won't be duplicated."        *)
NothingTwice == IsInjective(output)

(* What the parent prints after wait follows all that the child printed.   *)
ChildIsFirst ==
  \A m, n \in DOMAIN output :
    output[m] = <<"parent", "after_wait">> /\ output[n][1] = "child" => n < m

(* The inductive invariant: what stands in the buffers and in the output   *)
(* was printed by the process it names, the buffer of a process holds its  *)
(* own lines only, since the one that fork copies is empty, and no line is *)
(* in two places.                                                          *)
Messages == {"before_fork", "after_fork", "inside", "after", "after_wait"}
Lines    == Procs \X Messages

HasSaid(p, msg) ==
  \/ msg = "before_fork" /\ p = "parent" /\ pc[p] # "start"
  \/ msg = "after_fork" /\ pc[p] \in {"inside", "add", "after", "wait", "return", "exited"}
  \/ msg = "inside" /\ p = "child" /\ pc[p] \in {"add", "exited"}
  \/ msg = "after" /\ p = "parent" /\ pc[p] \in {"wait", "return", "exited"}
  \/ msg = "after_wait" /\ p = "parent" /\ pc[p] \in {"return", "exited"}

Said == {line \in Lines : HasSaid(line[1], line[2])}

TypeOK ==
  /\ tty \in BOOLEAN
  /\ pc \in [Procs -> {"none", "start", "flush", "fork", "forked", "aborted", "inside", "add",
                       "after", "wait", "return", "exited"}]
  /\ pc["child"] \in {"none", "forked", "inside", "add", "exited"}
  /\ pc["parent"] \notin {"none", "inside", "add"}
  /\ stdout \in [Procs -> Seq(Lines)] /\ output \in Seq(Lines)

InOrder ==
  /\ pc["child"] = "none" <=> pc["parent"] \in {"start", "flush", "fork", "aborted"}
  /\ pc["parent"] \in {"return", "exited"} => pc["child"] = "exited"
  /\ pc["parent"] = "fork" => stdout["parent"] = <<>>

Printed ==
  /\ \A p \in Procs : \A k \in DOMAIN stdout[p] :
       stdout[p][k] \in Said /\ stdout[p][k][1] = p
  /\ \A k \in DOMAIN output : output[k] \in Said

OnePlace ==
  /\ \A p \in Procs : IsInjective(stdout[p])
  /\ \A p \in Procs : \A k \in DOMAIN stdout[p], m \in DOMAIN output : stdout[p][k] # output[m]

IInv == TypeOK /\ InOrder /\ Printed /\ OnePlace /\ NothingTwice /\ ChildIsFirst
=============================================================================
