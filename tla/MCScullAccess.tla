--------------------------- MODULE MCScullAccess ----------------------------
(***************************************************************************)
(* Small instances of ScullAccess for TLC: a process of user alice, one of *)
(* bob, one of carol that runs as alice after su, and one of root.  Alice  *)
(* and carol share a terminal and root has none.  The devices share        *)
(* nothing but the processes, so the instance of the full check has two    *)
(* parts: in the first all four processes open scullsingle and scullpriv,  *)
(* in the second all but bob's open sculluid and scullwuid.                *)
(***************************************************************************)
EXTENDS ScullAccess, TLC

CONSTANTS a, b, c, r, alice, bob, carol, root, tty1, tty2

MCUid  == (a :> alice @@ b :> bob @@ c :> carol @@ r :> root)
MCEuid == (a :> alice @@ b :> bob @@ c :> alice @@ r :> root)
MCTty  == (a :> tty1 @@ b :> tty2 @@ c :> tty1 @@ r :> None)

Alone == INSTANCE ScullAccess WITH
  Devices <- {"single", "priv"}, OpenFlags <- {{}, {"O_TRUNC"}}
Shared == INSTANCE ScullAccess WITH
  Devices <- {"uid", "wuid"}, OpenFlags <- {{}, {"O_NONBLOCK"}}

VARIABLE part

PartInit == Init /\ part \in {"alone", "shared"}
PartNext ==
  /\ UNCHANGED part
  /\ \/ part = "alone" /\ Alone!Next
     \/ part = "shared" /\ \E p \in Procs \ {b} : Shared!Kernel(p) \/ Shared!User(p)
PartSpec ==
  PartInit /\ [][PartNext]_<<vars, part>> /\ \A p \in Procs : WF_vars(Shared!Kernel(p))

(* All the processes and all the devices of the configuration at once.     *)
WholeInit == Init /\ part = "whole"
WholeNext == Next /\ UNCHANGED part
WholeSpec == WholeInit /\ [][WholeNext]_<<vars, part>>
=============================================================================
