------------------------- MODULE ScullAccessProofs --------------------------
(***************************************************************************)
(* Proofs, for any processes, users and terminals, that the restricted     *)
(* devices of scull.c restrict what they say.  The inductive invariant is  *)
(* IInv of ScullAccess.tla; each of its parts is shown to be preserved in  *)
(* a lemma of its own, whose steps are the devices.                        *)
(***************************************************************************)
EXTENDS ScullAccess, FiniteSetTheorems, TLAPS

(* The steps of p, by what they are about.                                 *)
SingleStep(p) ==
  (\E fl \in OpenFlags : SingleOpen(p, fl)) \/ SingleUndo(p) \/ SingleRelease(p)
UidStep(p) == (\E fl \in OpenFlags : UidOpen(p, fl)) \/ UidRelease(p)
WuidGrant(p) == WuidOpen(p) \/ WuidRelease(p)
WuidWait(p) ==
  \/ \E fl \in OpenFlags : WuidCall(p, fl)
  \/ WuidBusy(p) \/ WuidAgain(p) \/ WuidPrepare(p) \/ WuidTest(p) \/ WuidWoken(p)
  \/ WuidInterrupt(p) \/ WuidWake(p)
PrivStep(p) ==
  \/ \E fl \in OpenFlags : PrivFound(p, fl) \/ PrivMissing(p, fl)
  \/ PrivAdd(p) \/ PrivNoMemory(p) \/ PrivRelease(p)
DataStep(p) == Trim(p) \/ Use(p) \/ Used(p)
Step(p) == SingleStep(p) \/ UidStep(p) \/ WuidGrant(p) \/ WuidWait(p) \/ PrivStep(p) \/ DataStep(p)

LEMMA StepCases == \A p \in Procs : Kernel(p) \/ User(p) => Step(p)
  BY DEF Kernel, User, Step, SingleStep, UidStep, WuidGrant, WuidWait, PrivStep, DataStep

Places == {"closed", "undo", "lock", "wait", "test", "sleep", "wake",
           "alloc", "trim", "open", "use"}

(* TypeOK without the counters, whose range follows from the other parts.  *)
Types ==
  /\ scull_s_available \in Int /\ scull_u_count \in Int /\ scull_w_count \in Int
  /\ scull_u_owner \in Users \cup {None}
  /\ scull_w_owner \in Users \cup {None}
  /\ scull_w_wait \subseteq Procs
  /\ scull_c_lock \in Procs \cup {None}
  /\ scull_c_list \in Seq(Ttys)
  /\ lock \in [Files -> Procs \cup {None}]
  /\ pc \in [Procs -> Places]
  /\ file \in [Procs -> Files \cup {None}]
  /\ flags \in [Procs -> SUBSET {"O_TRUNC", "O_NONBLOCK"}]

LEMMA Bounds == \A S \in SUBSET Procs :
                   /\ IsFiniteSet(S)
                   /\ Cardinality(S) \in 0..Cardinality(Procs)
                   /\ Cardinality(Procs) \in Nat
  BY ProcsAssumption, FS_Subset, FS_CardinalityType

LEMMA AddOne == ASSUME NEW S \in SUBSET Procs, NEW x \in Procs, x \notin S
                PROVE  Cardinality(S \cup {x}) = Cardinality(S) + 1
  BY Bounds, FS_AddElement

LEMMA TakeOne == ASSUME NEW S \in SUBSET Procs, NEW x \in S
                 PROVE  Cardinality(S \ {x}) = Cardinality(S) - 1
  BY Bounds, FS_RemoveElement

LEMMA TypesFollow == IInv => Types
  <1>1. Cardinality(Procs) \in Nat
    BY ProcsAssumption, FS_CardinalityType
  <1>2. QED
    BY <1>1 DEF IInv, TypeOK, Types, Places

LEMMA InitInv == Init => IInv
  <1> SUFFICES ASSUME Init PROVE IInv
    OBVIOUS
  <1>1. /\ Holders("single") = {} /\ Holders("uid") = {} /\ Holders("wuid") = {}
        /\ Claimants = {}
    BY DEF Init, Holders, Claimants, Holds
  <1>2. Cardinality({}) = 0 /\ Cardinality(Procs) \in Nat
    BY FS_EmptySet, Bounds
  <1>3. TypeOK
    BY <1>2 DEF Init, TypeOK
  <1>4. SingleExclusive /\ UidOneUser /\ WuidOneUser
    <2>1. \A p \in Procs : ~Holds(p, "single") /\ ~Holds(p, "uid") /\ ~Holds(p, "wuid")
      BY DEF Init, Holds
    <2>2. /\ Cardinality(Holders("uid")) = 0 /\ Cardinality(Holders("wuid")) = 0
          /\ Cardinality(Claimants) = 0
      BY <1>1, <1>2
    <2>3. SingleExclusive
      BY <2>1, <2>2 DEF Init, SingleExclusive
    <2>4. UidOneUser /\ WuidOneUser
      BY <1>1, <2>2 DEF Init, UidOneUser, WuidOneUser, OneUser
    <2>5. QED
      BY <2>3, <2>4
  <1>5. NoLostOpen /\ OneDevicePerTty /\ Stages /\ Spinlock
    BY DEF Init, NoLostOpen, Asleep, OneDevicePerTty, Stages, Spinlock
  <1>6. Semaphores
    BY NoneAssumption DEF Init, Semaphores
  <1>7. QED
    BY <1>3, <1>4, <1>5, <1>6 DEF IInv

-----------------------------------------------------------------------------
LEMMA TypesKept == ASSUME IInv, NEW p \in Procs, Step(p)
                   PROVE  Types'
  <1> USE DEF Goto, Enter, Leave, Granted, single, uid, wuid, priv, Places
  <1> DEFINE Flags == SUBSET {"O_TRUNC", "O_NONBLOCK"}
  <1>1. /\ Types
        /\ \A fl \in OpenFlags : fl \in Flags
        /\ {} \in Flags
    BY TypesFollow, FlagsAssumption
  <1>f. ASSUME NEW f \in Files, NEW fl \in OpenFlags, NEW to \in Places, Enter(p, f, fl, to)
        PROVE  /\ pc' \in [Procs -> Places]
               /\ file' \in [Procs -> Files \cup {None}]
               /\ flags' \in [Procs -> Flags]
    BY <1>1, <1>f DEF Types
  <1>l. ASSUME NEW from \in Places, Leave(p, from)
        PROVE  /\ pc' \in [Procs -> Places]
               /\ file' \in [Procs -> Files \cup {None}]
               /\ flags' \in [Procs -> Flags]
    BY <1>1, <1>l DEF Types
  <1>2. Uid[p] \in Users /\ (Tty[p] # None => Tty[p] \in Ttys)
    BY DEF Users, Ttys
  <1>3. CASE SingleStep(p)
    <2>1. ASSUME NEW fl \in OpenFlags, SingleOpen(p, fl)
          PROVE  Types'
      <3>1. PICK to \in Places : Enter(p, "single", fl, to)
        BY <2>1 DEF SingleOpen
      <3>2. QED
        BY <1>1, <1>f, <2>1, <3>1 DEF SingleOpen, Types, Files
    <2>2. CASE SingleUndo(p) \/ SingleRelease(p)
      BY <1>1, <1>l, <2>2 DEF SingleUndo, SingleRelease, Types
    <2>3. QED
      BY <1>3, <2>1, <2>2 DEF SingleStep
  <1>4. CASE UidStep(p)
    <2>1. ASSUME NEW fl \in OpenFlags, UidOpen(p, fl)
          PROVE  Types'
      <3>1. PICK to \in Places : Enter(p, "uid", fl, to)
        BY <2>1 DEF UidOpen
      <3>2. QED
        BY <1>1, <1>2, <1>f, <2>1, <3>1 DEF UidOpen, OneMore, Grab, Types, Files
    <2>2. CASE UidRelease(p)
      BY <1>1, <1>l, <2>2 DEF UidRelease, Types
    <2>3. QED
      BY <1>4, <2>1, <2>2 DEF UidStep
  <1>5. CASE WuidGrant(p)
    BY <1>1, <1>2, <1>5 DEF WuidGrant, WuidOpen, WuidRelease, OneMore, Grab, Types, Files
  <1>6. CASE WuidWait(p)
    <2>1. ASSUME NEW fl \in OpenFlags, WuidCall(p, fl)
          PROVE  Types'
      BY <1>1, <1>f, <2>1 DEF WuidCall, Types, Files
    <2>2. CASE WuidBusy(p) \/ WuidPrepare(p) \/ WuidTest(p) \/ WuidWoken(p)
      BY <1>1, <2>2 DEF WuidBusy, WuidPrepare, WuidTest, WuidWoken, Types
    <2>3. CASE WuidAgain(p) \/ WuidInterrupt(p) \/ WuidWake(p)
      BY <1>1, <1>l, <2>3 DEF WuidAgain, WuidInterrupt, WuidWake, Types
    <2>4. QED
      BY <1>6, <2>1, <2>2, <2>3 DEF WuidWait
  <1>7. CASE PrivStep(p)
    <2>1. ASSUME NEW fl \in OpenFlags, PrivFound(p, fl) \/ PrivMissing(p, fl)
          PROVE  Types'
      <3>1. PICK to \in Places : Enter(p, Tty[p], fl, to) /\ Tty[p] \in Files
        BY <1>2, <2>1 DEF PrivFound, PrivMissing, Files
      <3>2. QED
        BY <1>1, <1>f, <2>1, <3>1 DEF PrivFound, PrivMissing, Types
    <2>2. CASE PrivAdd(p)
      <3>1. Tty[p] \in Ttys
        BY <1>2, <2>2 DEF PrivAdd, IInv, Stages
      <3>2. <<Tty[p]>> \o scull_c_list \in Seq(Ttys)
        BY <1>1, <3>1 DEF Types
      <3>3. QED
        BY <1>1, <2>2, <3>2 DEF PrivAdd, Types
    <2>3. CASE PrivNoMemory(p) \/ PrivRelease(p)
      BY <1>1, <2>3 DEF PrivNoMemory, PrivRelease, Types
    <2>4. QED
      BY <1>7, <2>1, <2>2, <2>3 DEF PrivStep
  <1>8. CASE DataStep(p)
    BY <1>1, <1>8 DEF DataStep, Trim, Use, Used, Types
  <1>9. QED
    BY <1>3, <1>4, <1>5, <1>6, <1>7, <1>8 DEF Step

LEMMA StagesKept == ASSUME IInv, NEW p \in Procs, Step(p)
                    PROVE  Stages'
  <1> USE DEF Goto, Enter, Leave, Granted, single, uid, wuid, priv, Places, Types, Stages
  <1>1. Types /\ Stages
    BY TypesFollow DEF IInv
  <1>2. Tty[p] # None => Tty[p] \in Files
    BY DEF Ttys, Files
  <1>3. CASE SingleStep(p)
    BY <1>1, <1>3 DEF SingleStep, SingleOpen, SingleUndo, SingleRelease, Files
  <1>4. CASE UidStep(p)
    BY <1>1, <1>4 DEF UidStep, UidOpen, UidRelease, Files
  <1>5. CASE WuidGrant(p)
    BY <1>1, <1>5 DEF WuidGrant, WuidOpen, WuidRelease, Files
  <1>6. CASE WuidWait(p)
    BY <1>1, <1>6 DEF WuidWait, WuidCall, WuidBusy, WuidAgain, WuidPrepare, WuidTest,
                      WuidWoken, WuidInterrupt, WuidWake
  <1>7. CASE PrivStep(p)
    BY <1>1, <1>2, <1>7 DEF PrivStep, PrivFound, PrivMissing, PrivAdd, PrivNoMemory, PrivRelease
  <1>8. CASE DataStep(p)
    BY <1>1, <1>8 DEF DataStep, Trim, Use, Used
  <1>9. QED
    BY <1>3, <1>4, <1>5, <1>6, <1>7, <1>8 DEF Step

(* Only the steps of a device change who holds it.                         *)
LEMMA HoldersKept ==
  ASSUME IInv, NEW p \in Procs, Step(p)
  PROVE  /\ ~SingleStep(p) => \A q \in Procs : /\ Holds(q, "single")' <=> Holds(q, "single")
                                               /\ pc'[q] = "undo" <=> pc[q] = "undo"
         /\ ~UidStep(p) => \A q \in Procs : Holds(q, "uid")' <=> Holds(q, "uid")
         /\ ~WuidGrant(p) => \A q \in Procs : Holds(q, "wuid")' <=> Holds(q, "wuid")
  <1> USE DEF Goto, Enter, Leave, Granted, single, uid, wuid, priv, Places, Types, Stages, Holds
  <1>1. Types /\ Stages
    BY TypesFollow DEF IInv
  <1>2. Tty[p] # None => Tty[p] \in Ttys
    BY DEF Ttys
  <1>3. CASE SingleStep(p)
    BY <1>1, <1>3 DEF SingleStep, SingleOpen, SingleUndo, SingleRelease
  <1>4. CASE UidStep(p)
    BY <1>1, <1>4 DEF UidStep, UidOpen, UidRelease
  <1>5. CASE WuidGrant(p)
    BY <1>1, <1>5 DEF WuidGrant, WuidOpen, WuidRelease
  <1>6. CASE WuidWait(p)
    BY <1>1, <1>6 DEF WuidWait, WuidCall, WuidBusy, WuidAgain, WuidPrepare, WuidTest,
                      WuidWoken, WuidInterrupt, WuidWake
  <1>7. CASE PrivStep(p)
    BY <1>1, <1>2, <1>7, TtysAssumption
    DEF PrivStep, PrivFound, PrivMissing, PrivAdd, PrivNoMemory, PrivRelease
  <1>8. CASE DataStep(p)
    BY <1>1, <1>8 DEF DataStep, Trim, Use, Used
  <1>9. QED
    BY <1>3, <1>4, <1>5, <1>6, <1>7, <1>8 DEF Step

LEMMA SingleKept == ASSUME IInv, NEW p \in Procs, Step(p)
                    PROVE  SingleExclusive' /\ scull_s_available' \in (1 - Cardinality(Procs))..1
  <1> USE DEF Goto, Enter, Leave, Granted, Places, Types, Stages
  <1>1. Types /\ Stages /\ SingleExclusive
    BY TypesFollow DEF IInv
  <1>2. Claimants \in SUBSET Procs /\ Claimants' \in SUBSET Procs
    BY DEF Claimants
  <1>3. CASE ~SingleStep(p)
    <2>1. Claimants' = Claimants
      BY <1>3, HoldersKept DEF Claimants
    <2>2. scull_s_available' = scull_s_available
      BY <1>3 DEF Step, UidStep, WuidGrant, WuidWait, PrivStep, DataStep, UidOpen, UidRelease,
         WuidOpen, WuidRelease, WuidCall, WuidBusy, WuidAgain, WuidPrepare, WuidTest, WuidWoken,
         WuidInterrupt, WuidWake, PrivFound, PrivMissing, PrivAdd, PrivNoMemory, PrivRelease,
         Trim, Use, Used, single
    <2>3. \A q \in Procs : Holds(q, "single")' <=> Holds(q, "single")
      BY <1>3, HoldersKept
    <2>4. SingleExclusive'
      BY <1>1, <2>1, <2>2, <2>3 DEF SingleExclusive
    <2>5. QED
      BY <2>4, <1>2, Bounds DEF SingleExclusive
  <1>4. ASSUME NEW fl \in OpenFlags, SingleOpen(p, fl)
        PROVE  SingleExclusive'
    <2>1. /\ pc[p] = "closed" /\ file[p] = None
          /\ pc' = [pc EXCEPT ![p] = pc'[p]]
          /\ file' = [file EXCEPT ![p] = "single"]
          /\ pc'[p] \in {"undo", "trim", "open"}
          /\ pc'[p] # "undo" => scull_s_available' = 0
          /\ scull_s_available' = scull_s_available - 1
      BY <1>1, <1>4 DEF SingleOpen, Claimed
    <2>2. Claimants' = Claimants \cup {p} /\ p \notin Claimants
      BY <1>1, <2>1 DEF Claimants, Holds
    <2>3. Cardinality(Claimants') = Cardinality(Claimants) + 1
      BY <1>2, <2>2, AddOne
    <2>4. scull_s_available' = 1 - Cardinality(Claimants')
      BY <1>1, <1>2, <2>1, <2>3, Bounds DEF SingleExclusive
    <2>5. ASSUME NEW q \in Procs, q # p, Holds(q, "single"), pc'[p] # "undo"
          PROVE  FALSE
      <3>1. q \in Claimants /\ Cardinality(Claimants) = 0
        BY <1>1, <1>2, <2>1, <2>5, Bounds DEF SingleExclusive, Claimants, Holds
      <3>2. QED
        BY <1>2, <3>1, Bounds, FS_EmptySet
    <2>6. \A q, r \in Procs : Holds(q, "single")' /\ Holds(r, "single")' => q = r
      BY <1>1, <2>1, <2>5 DEF SingleExclusive, Holds
    <2>7. QED
      BY <2>4, <2>6 DEF SingleExclusive
  <1>5. ASSUME SingleUndo(p) \/ SingleRelease(p)
        PROVE  SingleExclusive'
    <2>1. /\ pc[p] = "undo" \/ (pc[p] = "open" /\ file[p] = "single")
          /\ pc' = [pc EXCEPT ![p] = "closed"]
          /\ file' = [file EXCEPT ![p] = None]
          /\ scull_s_available' = scull_s_available + 1
      BY <1>5 DEF SingleUndo, SingleRelease
    <2>2. Claimants' = Claimants \ {p} /\ p \in Claimants
      BY <1>1, <2>1 DEF Claimants, Holds
    <2>3. Cardinality(Claimants') = Cardinality(Claimants) - 1
      BY <1>2, <2>2, TakeOne
    <2>4. scull_s_available' = 1 - Cardinality(Claimants')
      BY <1>1, <1>2, <2>1, <2>3, Bounds DEF SingleExclusive
    <2>5. \A q \in Procs : Holds(q, "single")' => Holds(q, "single")
      BY <1>1, <2>1 DEF Holds
    <2>6. \A q, r \in Procs : Holds(q, "single") /\ Holds(r, "single") => q = r
      BY <1>1 DEF SingleExclusive
    <2>7. \A q, r \in Procs : Holds(q, "single")' /\ Holds(r, "single")' => q = r
      BY <2>5, <2>6
    <2>8. QED
      BY <2>4, <2>7 DEF SingleExclusive
  <1>6. SingleExclusive'
    BY <1>3, <1>4, <1>5 DEF SingleStep
  <1>7. QED
    BY <1>6, <1>2, Bounds DEF SingleExclusive

(***************************************************************************)
(* The common step of sculluid and scullwuid: the count goes up with one   *)
(* more holder and down with one less, and the owner changes only when the *)
(* device is free.                                                         *)
(***************************************************************************)
LEMMA GrantOne ==
  ASSUME NEW H \in SUBSET Procs, NEW G, NEW p \in Procs, NEW c \in Int, NEW o,
         c = Cardinality(H),
         \A q \in H : o \in {Uid[q], Euid[q]} \/ q \in Capable,
         p \notin H, Allowed(p, c, o), G = H \cup {p}
  PROVE  /\ c + 1 = Cardinality(G)
         /\ \A q \in G : Grab(p, c, o) \in {Uid[q], Euid[q]} \/ q \in Capable
  <1>1. Cardinality(G) = Cardinality(H) + 1
    BY AddOne
  <1>2. c = 0 => H = {}
    BY Bounds, FS_EmptySet
  <1>3. QED
    BY <1>1, <1>2 DEF Allowed, Grab

LEMMA UidKept == ASSUME IInv, NEW p \in Procs, Step(p)
                 PROVE  UidOneUser' /\ scull_u_count' \in 0..Cardinality(Procs)
  <1> USE DEF Goto, Enter, Leave, Granted, Places, Types, Stages
  <1> DEFINE H == Holders("uid")
  <1>1. /\ Types /\ Stages
        /\ scull_u_count = Cardinality(H)
        /\ \A q \in H : scull_u_owner \in {Uid[q], Euid[q]} \/ q \in Capable
    BY TypesFollow DEF IInv, UidOneUser, OneUser
  <1>2. H \in SUBSET Procs /\ H' \in SUBSET Procs
    BY DEF Holders
  <1>3. ASSUME ~UidStep(p)
        PROVE  UidOneUser'
    <2>1. H' = H
      BY <1>3, HoldersKept DEF Holders
    <2>2. UNCHANGED <<scull_u_count, scull_u_owner>>
      BY <1>3 DEF Step, SingleStep, WuidGrant, WuidWait, PrivStep, DataStep, SingleOpen, SingleUndo,
         SingleRelease, WuidOpen, WuidRelease, WuidCall, WuidBusy, WuidAgain, WuidPrepare, WuidTest,
         WuidWoken, WuidInterrupt, WuidWake, PrivFound, PrivMissing, PrivAdd, PrivNoMemory,
         PrivRelease, Trim, Use, Used, uid
    <2>3. QED
      BY <1>1, <2>1, <2>2 DEF UidOneUser, OneUser
  <1>4. ASSUME NEW fl \in OpenFlags, UidOpen(p, fl)
        PROVE  UidOneUser'
    <2>1. H' = H \cup {p} /\ p \notin H
      BY <1>1, <1>4 DEF UidOpen, Holders, Holds
    <2>2. /\ scull_u_count' = scull_u_count + 1
          /\ scull_u_owner' = Grab(p, scull_u_count, scull_u_owner)
          /\ Allowed(p, scull_u_count, scull_u_owner)
      BY <1>4 DEF UidOpen, OneMore
    <2>3. /\ scull_u_count' = Cardinality(H')
          /\ \A q \in H' : scull_u_owner' \in {Uid[q], Euid[q]} \/ q \in Capable
      BY <1>1, <1>2, <2>1, <2>2, GrantOne
    <2>4. QED
      BY <2>3 DEF UidOneUser, OneUser
  <1>5. ASSUME UidRelease(p)
        PROVE  UidOneUser'
    <2>1. H' = H \ {p} /\ p \in H
      BY <1>1, <1>5 DEF UidRelease, Holders, Holds
    <2>2. scull_u_count' = scull_u_count - 1 /\ UNCHANGED scull_u_owner
      BY <1>5 DEF UidRelease
    <2>3. scull_u_count' = Cardinality(H')
      BY <1>1, <1>2, <2>1, <2>2, TakeOne
    <2>4. QED
      BY <1>1, <2>1, <2>2, <2>3 DEF UidOneUser, OneUser
  <1>6. UidOneUser'
    BY <1>3, <1>4, <1>5 DEF UidStep
  <1>7. QED
    BY <1>6, <1>2, Bounds DEF UidOneUser, OneUser

LEMMA WuidKept == ASSUME IInv, NEW p \in Procs, Step(p)
                  PROVE  WuidOneUser' /\ scull_w_count' \in 0..Cardinality(Procs)
  <1> USE DEF Goto, Enter, Leave, Granted, Places, Types, Stages
  <1> DEFINE H == Holders("wuid")
  <1>1. /\ Types /\ Stages
        /\ scull_w_count = Cardinality(H)
        /\ \A q \in H : scull_w_owner \in {Uid[q], Euid[q]} \/ q \in Capable
    BY TypesFollow DEF IInv, WuidOneUser, OneUser
  <1>2. H \in SUBSET Procs /\ H' \in SUBSET Procs
    BY DEF Holders
  <1>3. ASSUME ~WuidGrant(p)
        PROVE  WuidOneUser'
    <2>1. H' = H
      BY <1>3, HoldersKept DEF Holders
    <2>2. UNCHANGED <<scull_w_count, scull_w_owner>>
      BY <1>3 DEF Step, SingleStep, UidStep, WuidWait, PrivStep, DataStep, SingleOpen, SingleUndo,
         SingleRelease, UidOpen, UidRelease, WuidCall, WuidBusy, WuidAgain, WuidPrepare, WuidTest,
         WuidWoken, WuidInterrupt, WuidWake, PrivFound, PrivMissing, PrivAdd, PrivNoMemory,
         PrivRelease, Trim, Use, Used, wuid
    <2>3. QED
      BY <1>1, <2>1, <2>2 DEF WuidOneUser, OneUser
  <1>4. ASSUME WuidOpen(p)
        PROVE  WuidOneUser'
    <2>1. H' = H \cup {p} /\ p \notin H
      BY <1>1, <1>4 DEF WuidOpen, Holders, Holds
    <2>2. /\ scull_w_count' = scull_w_count + 1
          /\ scull_w_owner' = Grab(p, scull_w_count, scull_w_owner)
          /\ Allowed(p, scull_w_count, scull_w_owner)
      BY <1>4 DEF WuidOpen, OneMore, Available
    <2>3. /\ scull_w_count' = Cardinality(H')
          /\ \A q \in H' : scull_w_owner' \in {Uid[q], Euid[q]} \/ q \in Capable
      BY <1>1, <1>2, <2>1, <2>2, GrantOne
    <2>4. QED
      BY <2>3 DEF WuidOneUser, OneUser
  <1>5. ASSUME WuidRelease(p)
        PROVE  WuidOneUser'
    <2>1. H' = H \ {p} /\ p \in H
      BY <1>1, <1>5 DEF WuidRelease, Holders, Holds
    <2>2. scull_w_count' = scull_w_count - 1 /\ UNCHANGED scull_w_owner
      BY <1>5 DEF WuidRelease
    <2>3. scull_w_count' = Cardinality(H')
      BY <1>1, <1>2, <2>1, <2>2, TakeOne
    <2>4. QED
      BY <1>1, <2>1, <2>2, <2>3 DEF WuidOneUser, OneUser
  <1>6. WuidOneUser'
    BY <1>3, <1>4, <1>5 DEF WuidGrant
  <1>7. QED
    BY <1>6, <1>2, Bounds DEF WuidOneUser, OneUser

LEMMA NoLostOpenKept == ASSUME IInv, NEW p \in Procs, Step(p)
                        PROVE  NoLostOpen'
  <1> USE DEF Goto, Enter, Leave, Granted, Places, Types, Stages
  <1>1. Types /\ Stages /\ scull_w_count \in Nat
    BY TypesFollow, Bounds DEF IInv, TypeOK
  <1> SUFFICES ASSUME NEW q \in Procs, Asleep(q)', Available(q)'
               PROVE  \E r \in Procs : pc'[r] = "wake"
    BY DEF NoLostOpen
  <1>2. ASSUME Asleep(q), Available(q)
        PROVE  \E r \in Procs : pc[r] = "wake"
    BY <1>2 DEF IInv, NoLostOpen
  <1>3. CASE SingleStep(p)
    <2>1. Asleep(q) /\ Available(q)
      BY <1>1, <1>3 DEF SingleStep, SingleOpen, SingleUndo, SingleRelease, Asleep, Available, Allowed, wuid
    <2>2. QED
      BY <1>1, <1>2, <1>3, <2>1 DEF SingleStep, SingleOpen, SingleUndo, SingleRelease
  <1>4. CASE UidStep(p)
    <2>1. Asleep(q) /\ Available(q)
      BY <1>1, <1>4 DEF UidStep, UidOpen, UidRelease, Asleep, Available, Allowed, wuid
    <2>2. QED
      BY <1>1, <1>2, <1>4, <2>1 DEF UidStep, UidOpen, UidRelease
  <1>5. CASE PrivStep(p)
    <2>1. Asleep(q) /\ Available(q)
      BY <1>1, <1>5 DEF PrivStep, PrivFound, PrivMissing, PrivAdd, PrivNoMemory, PrivRelease,
                        Asleep, Available, Allowed, wuid
    <2>2. QED
      BY <1>1, <1>2, <1>5, <2>1 DEF PrivStep, PrivFound, PrivMissing, PrivAdd, PrivNoMemory, PrivRelease
  <1>6. CASE DataStep(p)
    <2>1. Asleep(q) /\ Available(q)
      BY <1>1, <1>6 DEF DataStep, Trim, Use, Used, Asleep, Available, Allowed, wuid
    <2>2. QED
      BY <1>1, <1>2, <1>6, <2>1 DEF DataStep, Trim, Use, Used
  <1>7. CASE WuidOpen(p)
    <2>1. /\ pc[p] = "lock" /\ pc'[p] # "sleep"
          /\ \A r \in Procs : r # p => pc'[r] = pc[r]
          /\ scull_w_wait' = scull_w_wait
          /\ scull_w_count' = scull_w_count + 1
          /\ scull_w_count # 0 => scull_w_owner' = scull_w_owner
      BY <1>1, <1>7 DEF WuidOpen, OneMore, Grab
    <2>2. Asleep(q)
      BY <2>1 DEF Asleep
    <2>3. Available(q)
      BY <1>1, <2>1 DEF Available, Allowed
    <2>4. QED
      BY <1>2, <2>1, <2>2, <2>3
  <1>8. CASE WuidRelease(p)
    <2>1. /\ pc[p] = "open" /\ pc'[p] # "sleep"
          /\ \A r \in Procs : r # p => pc'[r] = pc[r]
          /\ scull_w_wait' = scull_w_wait /\ scull_w_owner' = scull_w_owner
          /\ scull_w_count' = 0 => pc'[p] = "wake"
      BY <1>1, <1>8 DEF WuidRelease, WakeIfLast
    <2>2. Asleep(q)
      BY <2>1 DEF Asleep
    <2>3. CASE scull_w_count' = 0
      BY <2>1, <2>3
    <2>4. CASE scull_w_count' # 0
      <3>1. Available(q)
        BY <2>1, <2>4 DEF Available, Allowed
      <3>2. QED
        BY <1>2, <2>1, <2>2, <3>1
    <2>5. QED
      BY <2>3, <2>4
  <1>9. CASE WuidWake(p)
    BY <1>9 DEF WuidWake, Asleep
  <1>10. CASE WuidWait(p) /\ ~WuidWake(p)
    <2>1. /\ scull_w_count' = scull_w_count /\ scull_w_owner' = scull_w_owner
          /\ pc[p] # "wake"
          /\ pc'[p] = "sleep" => ~Available(p)
          /\ \A r \in Procs : r # p => pc'[r] = pc[r]
          /\ scull_w_wait' \subseteq scull_w_wait \cup {p}
      BY <1>1, <1>10 DEF WuidWait, WuidCall, WuidBusy, WuidAgain, WuidPrepare, WuidTest,
                         WuidWoken, WuidInterrupt, wuid
    <2>2. Available(q)
      BY <2>1 DEF Available, Allowed
    <2>3. Asleep(q)
      BY <2>1, <2>2 DEF Asleep
    <2>4. QED
      BY <1>2, <2>1, <2>2, <2>3
  <1>11. QED
    BY <1>3, <1>4, <1>5, <1>6, <1>7, <1>8, <1>9, <1>10 DEF Step, WuidGrant

LEMMA SemaphoresKept == ASSUME IInv, NEW p \in Procs, Step(p)
                        PROVE  Semaphores'
  <1> USE DEF Goto, Enter, Leave, Granted, Places, Types, Semaphores
  <1>1. Types /\ Stages /\ Semaphores
    BY TypesFollow DEF IInv
  <1>2. CASE ~DataStep(p)
    <2>1. /\ lock' = lock /\ pc[p] # "use"
          /\ \A r \in Procs : r # p => pc'[r] = pc[r] /\ file'[r] = file[r]
      BY <1>1, <1>2 DEF Step, SingleStep, UidStep, WuidGrant, WuidWait, PrivStep, SingleOpen, SingleUndo,
         SingleRelease, UidOpen, UidRelease, WuidOpen, WuidRelease, WuidCall, WuidBusy, WuidAgain,
         WuidPrepare, WuidTest, WuidWoken, WuidInterrupt, WuidWake, PrivFound, PrivMissing, PrivAdd,
         PrivNoMemory, PrivRelease
    <2>2. QED
      BY <1>1, <2>1
  <1>3. CASE Trim(p)
    BY <1>1, <1>3 DEF Trim
  <1>4. CASE Use(p)
    <2>1. file[p] \in Files
      BY <1>1, <1>4 DEF Use, Stages
    <2>2. QED
      BY <1>1, <1>4, <2>1 DEF Use
  <1>5. CASE Used(p)
    BY <1>1, <1>5, NoneAssumption DEF Used
  <1>6. QED
    BY <1>2, <1>3, <1>4, <1>5 DEF DataStep

(***************************************************************************)
(* The list of private devices grows only in PrivAdd, whose process found  *)
(* no device of its terminal and has held the spinlock since.              *)
(***************************************************************************)
LEMMA PrivKept == ASSUME IInv, NEW p \in Procs, Step(p)
                  PROVE  OneDevicePerTty' /\ Spinlock'
  <1> USE DEF Goto, Enter, Leave, Granted, Places, Types
  <1>1. Types /\ Spinlock /\ OneDevicePerTty /\ Stages
    BY TypesFollow DEF IInv
  <1>2. CASE ~PrivStep(p) \/ PrivRelease(p) \/ \E fl \in OpenFlags : PrivFound(p, fl)
    <2>1. /\ UNCHANGED <<scull_c_lock, scull_c_list>>
          /\ \A r \in Procs : pc'[r] = "alloc" => pc[r] = "alloc"
      BY <1>1, <1>2 DEF Step, SingleStep, UidStep, WuidGrant, WuidWait, DataStep, SingleOpen, SingleUndo,
         SingleRelease, UidOpen, UidRelease, WuidOpen, WuidRelease, WuidCall, WuidBusy, WuidAgain,
         WuidPrepare, WuidTest, WuidWoken, WuidInterrupt, WuidWake, PrivFound, PrivRelease,
         Trim, Use, Used, priv
    <2>2. QED
      BY <1>1, <2>1 DEF OneDevicePerTty, Spinlock
  <1>3. ASSUME NEW fl \in OpenFlags, PrivMissing(p, fl)
        PROVE  OneDevicePerTty' /\ Spinlock'
    <2>1. \A r \in Procs : pc[r] # "alloc"
      BY <1>1, <1>3, NoneAssumption DEF PrivMissing, SpinlockFree, Spinlock
    <2>2. QED
      BY <1>1, <1>3, <2>1 DEF PrivMissing, OneDevicePerTty, Spinlock
  <1>4. CASE PrivAdd(p)
    <2>1. /\ \A r \in Procs : pc'[r] # "alloc"
          /\ \A k \in DOMAIN scull_c_list : scull_c_list[k] # Tty[p]
      BY <1>1, <1>4 DEF PrivAdd, Spinlock
    <2> DEFINE new == <<Tty[p]>> \o scull_c_list
    <2>2. Tty[p] \in Ttys /\ scull_c_list \in Seq(Ttys)
      BY <1>1, <1>4 DEF PrivAdd, Stages, Ttys
    <2>3. /\ DOMAIN new = 1..(Len(scull_c_list) + 1)
          /\ \A k \in DOMAIN new : new[k] = IF k = 1 THEN Tty[p] ELSE scull_c_list[k - 1]
          /\ \A k \in DOMAIN new : k # 1 => k - 1 \in DOMAIN scull_c_list
          /\ DOMAIN new \subseteq Int
      BY <2>2
    <2>4. \A j, k \in DOMAIN new : new[j] = new[k] => j = k
      <3> HIDE DEF new
      <3> TAKE j, k \in DOMAIN new
      <3>1. CASE j = 1 \/ k = 1
        BY <2>1, <2>3, <3>1
      <3>2. CASE j # 1 /\ k # 1
        BY <1>1, <2>3, <3>2 DEF OneDevicePerTty
      <3>3. QED
        BY <3>1, <3>2
    <2>5. QED
      BY <1>4, <2>1, <2>4 DEF PrivAdd, OneDevicePerTty, Spinlock
  <1>5. CASE PrivNoMemory(p)
    <2>1. \A r \in Procs : pc'[r] # "alloc"
      BY <1>1, <1>5 DEF PrivNoMemory, Spinlock
    <2>2. QED
      BY <1>1, <1>5, <2>1 DEF PrivNoMemory, OneDevicePerTty, Spinlock
  <1>6. QED
    BY <1>2, <1>3, <1>4, <1>5 DEF PrivStep

-----------------------------------------------------------------------------
LEMMA StutterInv == IInv /\ UNCHANGED vars => IInv'
  BY DEF vars, single, uid, wuid, priv, IInv, TypeOK, SingleExclusive, UidOneUser, WuidOneUser,
         OneUser, NoLostOpen, OneDevicePerTty, Stages, Semaphores, Spinlock, Asleep, Available,
         Allowed, Holders, Claimants, Holds

LEMMA NextInv == IInv /\ [Next]_vars => IInv'
  <1>1. ASSUME IInv, NEW p \in Procs, Kernel(p) \/ User(p)
        PROVE  IInv'
    <2>1. Step(p)
      BY <1>1, StepCases
    <2>2. /\ SingleExclusive' /\ UidOneUser' /\ WuidOneUser'
          /\ scull_s_available' \in (1 - Cardinality(Procs))..1
          /\ scull_u_count' \in 0..Cardinality(Procs)
          /\ scull_w_count' \in 0..Cardinality(Procs)
      BY <1>1, <2>1, SingleKept, UidKept, WuidKept
    <2>3. TypeOK'
      BY <1>1, <2>1, <2>2, TypesKept DEF TypeOK, Types, Places
    <2>4. NoLostOpen' /\ OneDevicePerTty' /\ Stages' /\ Semaphores' /\ Spinlock'
      BY <1>1, <2>1, NoLostOpenKept, PrivKept, StagesKept, SemaphoresKept
    <2>5. QED
      BY <2>2, <2>3, <2>4 DEF IInv
  <1>2. QED
    BY <1>1, StutterInv DEF Next

LEMMA Invariance == Spec => []IInv
  BY InitInv, NextInv, PTL DEF Spec

(* Every counter stays in its range and every process at a place of the    *)
(* code: the type invariant of scull.c's access control.                   *)
THEOREM TypeCorrect == Spec => []TypeOK
  <1>1. IInv => TypeOK
    BY DEF IInv
  <1>2. QED
    BY <1>1, Invariance, PTL

(***************************************************************************)
(* scull_s_open lets in one process at a time, and the decrements of the   *)
(* openers that get -EBUSY are all put back.                               *)
(***************************************************************************)
THEOREM SingleIsExclusive == Spec => []SingleExclusive
  <1>1. IInv => SingleExclusive
    BY DEF IInv
  <1>2. QED
    BY <1>1, Invariance, PTL

(* The count of scull_u_open is exact and all its openers are one user's.  *)
THEOREM UidIsOneUser == Spec => []UidOneUser
  <1>1. IInv => UidOneUser
    BY DEF IInv
  <1>2. QED
    BY <1>1, Invariance, PTL

(* The count of scull_w_open is exact and all its openers are one user's.  *)
THEOREM WuidIsOneUser == Spec => []WuidOneUser
  <1>1. IInv => WuidOneUser
    BY DEF IInv
  <1>2. QED
    BY <1>1, Invariance, PTL

(* What is said of sculluid and of scullwuid, together.                    *)
THEOREM EachHasOneUser == Spec => []OneUserEach
  BY UidIsOneUser, WuidIsOneUser, PTL DEF OneUserEach

(* scull_w_release never leaves asleep an opener that could go on, other   *)
(* than between its spinlock and its wake up.                              *)
THEOREM NoOpenIsLost == Spec => []NoLostOpen
  <1>1. IInv => NoLostOpen
    BY DEF IInv
  <1>2. QED
    BY <1>1, Invariance, PTL

(* scull_c_lookfor_device never makes two devices for one terminal.        *)
THEOREM TtyHasOneDevice == Spec => []OneDevicePerTty
  <1>1. IInv => OneDevicePerTty
    BY DEF IInv
  <1>2. QED
    BY <1>1, Invariance, PTL

(* scull_trim on scullsingle needs no semaphore: nobody else is inside.    *)
THEOREM SingleTrimIsAlone == Spec => []SingleTrimAlone
  <1>1. ASSUME IInv, NEW p \in Procs, pc[p] = "trim", file[p] = "single"
        PROVE  lock["single"] = None
    <2>1. lock["single"] \in Procs \cup {None}
      BY <1>1 DEF IInv, TypeOK, Files
    <2>2. ASSUME NEW q \in Procs, lock["single"] = q
          PROVE  FALSE
      <3>1. pc[q] = "use" /\ file[q] = "single"
        BY <1>1, <2>2 DEF IInv, Semaphores, Files
      <3>2. p = q
        BY <1>1, <3>1 DEF IInv, SingleExclusive, Holds
      <3>3. QED
        BY <1>1, <3>1, <3>2
    <2>3. QED
      BY <2>1, <2>2
  <1>2. IInv => SingleTrimAlone
    BY <1>1 DEF SingleTrimAlone
  <1>3. QED
    BY <1>2, Invariance, PTL

(* What is said of scullsingle, together.                                  *)
THEOREM SingleIsProtected == Spec => []SingleProtected
  BY SingleIsExclusive, SingleTrimIsAlone, PTL DEF SingleProtected
=============================================================================
