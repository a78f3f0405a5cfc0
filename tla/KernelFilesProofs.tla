------------------------- MODULE KernelFilesProofs --------------------------
(***************************************************************************)
(* That what MCKernelFiles checks of the files of kernel modules on small  *)
(* instances holds for any callers, clients, sizes, devices and positions. *)
(* Each part has an inductive invariant, IInv of its module: it holds at   *)
(* the start (X Init), each step of the part keeps it (X Step), and the    *)
(* properties follow from it (X Safe).  A behaviour of FilesSpec steps one *)
(* part, and so all of them together stay invariant.                       *)
(***************************************************************************)
EXTENDS MCKernelFiles, SequenceTheorems, FiniteSetTheorems, TLAPS

-----------------------------------------------------------------------------
(* The anonymous file.                                                     *)

LEMMA AnonInit == Anon!Init => Anon!IInv
  <1> SUFFICES ASSUME Anon!Init PROVE Anon!IInv
    OBVIOUS
  <1>1. Anon!TypeOK
    <2>1. loaded \in BOOLEAN
      BY DEF Anon!Init
    <2>2. /\ myval \in Nat /\ shifted \in [Clients -> Nat]
          /\ client \in [Clients -> {"none"}] /\ fds \in [Clients -> {{}}]
      BY DEF Anon!Init
    <2> QED
      BY <2>1, <2>2 DEF Anon!TypeOK
  <1>2. Anon!ResetIsNear /\ Anon!FilesKeepModule
    BY FilesAssumption DEF FilesAssumption, Anon!Init, Anon!ResetIsNear, Anon!FilesKeepModule
  <1> QED
    BY <1>1, <1>2 DEF Anon!IInv

LEMMA AnonTyped ==
  ASSUME Anon!IInv, Anon!Next
  PROVE  Anon!TypeOK'
  <1> USE DEF Anon!IInv, Anon!TypeOK
  <1>1. CASE Anon!Insmod \/ Anon!Rmmod
    <2>1. loaded' \in BOOLEAN
      BY <1>1 DEF Anon!Insmod, Anon!Rmmod
    <2>2. myval' \in Nat /\ UNCHANGED <<client, shifted, fds>>
      BY <1>1 DEF Anon!Insmod, Anon!Rmmod
    <2> QED
      BY <2>1, <2>2
  <1>2. ASSUME NEW c \in Clients, Anon!Step(c)
        PROVE  Anon!TypeOK'
    <2>1. /\ loaded' = loaded
          /\ client' \in [Clients -> {"none", "ioctl", "read", "load", "store", "test", "reset",
                                      "done", "exit"}]
      BY <1>2 DEF Anon!Step, Anon!Open, Anon!Ioctl, Anon!Show, Anon!Load, Anon!Update,
                  Anon!StoreThenTest, Anon!Done, Anon!Close, Anon!End, Anon!Exit, Anon!Goto, Anon!Rest
    <2>2. shifted' \in [Clients -> Nat] /\ myval' \in Nat
      BY <1>2, FilesAssumption
         DEF FilesAssumption, Anon!Step, Anon!Open, Anon!Ioctl, Anon!Show, Anon!Load, Anon!Update,
             Anon!StoreThenTest, Anon!Done, Anon!Close, Anon!End, Anon!Exit, Anon!Goto, Anon!Rest, Anon!Shift
    <2>3. fds' \in [Clients -> SUBSET {"ioctl", "anon"}]
      BY <1>2 DEF Anon!Step, Anon!Open, Anon!Ioctl, Anon!Show, Anon!Load, Anon!Update,
                  Anon!Done, Anon!Close, Anon!AnonFirst, Anon!End, Anon!Exit
    <2> QED
      BY <2>1, <2>2, <2>3
  <1> QED
    BY <1>1, <1>2 DEF Anon!Next
LEMMA AnonResetIsNear ==
  ASSUME Anon!IInv, Anon!Next
  PROVE  Anon!ResetIsNear'
  <1> USE DEF Anon!IInv, Anon!TypeOK
  <1>1. CASE Anon!Insmod \/ Anon!Rmmod
    BY <1>1, FilesAssumption DEF Anon!Insmod, Anon!Rmmod, Anon!ResetIsNear, FilesAssumption
  <1>2. ASSUME NEW c \in Clients, Anon!Step(c), myval' = Zero
        PROVE  \E d \in Clients : client'[d] = "reset" \/ (client'[d] = "test" /\ shifted'[d] = Zero)
    <2>1. CASE client[c] = "store"
      <3>1. client' = [client EXCEPT ![c] = "test"] /\ shifted' = shifted /\ myval' = shifted[c]
        BY <1>2, <2>1 DEF Anon!Step, Anon!Open, Anon!Ioctl, Anon!Show, Anon!Load, Anon!Update,
             Anon!StoreThenTest, Anon!Done, Anon!Close, Anon!End, Anon!Exit, Anon!Goto, Anon!Rest
      <3> QED
        BY <1>2, <3>1
    <2>2. CASE client[c] = "reset"
      BY <1>2, <2>2, FilesAssumption
         DEF FilesAssumption, Anon!Step, Anon!Open, Anon!Ioctl, Anon!Show, Anon!Load, Anon!Update,
             Anon!StoreThenTest, Anon!Done, Anon!Close, Anon!End, Anon!Exit
    <2>3. CASE client[c] \notin {"store", "reset"}
      <3>1. myval' = myval
        BY <1>2, <2>3 DEF Anon!Step, Anon!Open, Anon!Ioctl, Anon!Show, Anon!Load, Anon!Update,
             Anon!StoreThenTest, Anon!Done, Anon!Close, Anon!End, Anon!Exit
      <3>2. PICK d \in Clients : client[d] = "reset" \/ (client[d] = "test" /\ shifted[d] = Zero)
        BY <1>2, <3>1 DEF Anon!ResetIsNear
      <3>3. CASE d # c
        <4>1. client'[d] = client[d] /\ shifted'[d] = shifted[d]
          BY <1>2, <3>3 DEF Anon!Step, Anon!Open, Anon!Ioctl, Anon!Show, Anon!Load, Anon!Update,
             Anon!StoreThenTest, Anon!Done, Anon!Close, Anon!End, Anon!Exit, Anon!Goto, Anon!Rest
        <4> QED
          BY <3>2, <4>1
      <3>4. CASE d = c
        <4>1. client[c] = "test" /\ shifted[c] = Zero /\ myval = Zero
          BY <1>2, <2>3, <3>1, <3>2, <3>4
        <4>2. client'[c] = "reset"
          BY <1>2, <4>1 DEF Anon!Step, Anon!Open, Anon!Ioctl, Anon!Show, Anon!Load, Anon!Update,
             Anon!StoreThenTest, Anon!Done, Anon!Close, Anon!End, Anon!Exit, Anon!Goto
        <4> QED
          BY <4>2
      <3> QED
        BY <3>3, <3>4
    <2> QED
      BY <2>1, <2>2, <2>3
  <1> QED
    BY <1>1, <1>2 DEF Anon!Next, Anon!ResetIsNear

LEMMA AnonFiles ==
  ASSUME Anon!IInv, Anon!Next
  PROVE  Anon!FilesKeepModule'
  <1> USE DEF Anon!IInv, Anon!TypeOK, Anon!FilesKeepModule
  <1>1. CASE Anon!Insmod \/ Anon!Rmmod
    BY <1>1 DEF Anon!Insmod, Anon!Rmmod, Anon!InUse
  <1>2. ASSUME NEW c \in Clients, Anon!Step(c), NEW d \in Clients
        PROVE  /\ client'[d] = "ioctl" \/ "anon" \in fds'[d] => "ioctl" \in fds'[d]
               /\ "ioctl" \in fds'[d] => loaded'
    <2>1. CASE Anon!Open(c)
      BY <2>1 DEF Anon!Open, Anon!Goto
    <2>2. CASE Anon!Ioctl(c)
      BY <2>2 DEF Anon!Ioctl, Anon!Goto, Anon!Rest
    <2>3. CASE Anon!Show(c) \/ Anon!Load(c) \/ Anon!Update(c) \/ Anon!Done(c) \/ Anon!End(c)
      BY <2>3 DEF Anon!Show, Anon!Load, Anon!Update, Anon!StoreThenTest, Anon!Done, Anon!End,
                  Anon!Goto, Anon!Rest
    <2>4. CASE Anon!Close(c)
      BY <2>4 DEF Anon!Close, Anon!AnonFirst, Anon!Rest
    <2>5. CASE Anon!Exit(c)
      BY <2>5 DEF Anon!Exit, Anon!Goto, Anon!Rest
    <2> QED
      BY <1>2, <2>1, <2>2, <2>3, <2>4, <2>5 DEF Anon!Step
  <1> QED
    BY <1>1, <1>2 DEF Anon!Next

LEMMA AnonStep ==
  ASSUME Anon!IInv, [Anon!Next]_anonymous
  PROVE  Anon!IInv'
  <1>1. CASE UNCHANGED anonymous
    BY <1>1 DEF anonymous, Anon!IInv, Anon!TypeOK, Anon!ResetIsNear, Anon!FilesKeepModule
  <1> QED
    BY <1>1, AnonTyped, AnonResetIsNear, AnonFiles DEF Anon!IInv

LEMMA AnonSafe == Anon!IInv => Anon!DigitSurvives /\ Anon!CodeStays
  BY DEF Anon!IInv, Anon!TypeOK, Anon!ResetIsNear, Anon!FilesKeepModule, Anon!DigitSurvives, Anon!CodeStays

-----------------------------------------------------------------------------
(* seq_file: what was read and what is kept are the first lines.           *)

(* What is given moves from line to lines_read, whose characters stay in   *)
(* order.                                                                  *)
LEMMA SeqGives ==
  ASSUME Sequence!TypeOK, Sequence!Characters, NEW k \in 0 .. Len(line), Sequence!Give(k)
  PROVE  /\ lines_read' \in Seq(Int) /\ line' \in Seq(Int)
         /\ Len(line') = Len(line) - k
         /\ Len(lines_read') + Len(line') = Len(lines_read) + Len(line)
         /\ Sequence!InOrder'
         /\ \A i \in 1 .. Len(line') : line'[i] = (Len(lines_read') + i - 1) \div 2
  <1> DEFINE head == SubSeq(line, 1, k)
             rest == SubSeq(line, k + 1, Len(line))
  <1>1. /\ lines_read \in Seq(Int) /\ line \in Seq(Int)
        /\ Len(line) \in Nat /\ Len(lines_read) \in Nat /\ k \in Nat /\ k <= Len(line)
    BY DEF Sequence!TypeOK
  <1>2. /\ head \in Seq(Int) /\ Len(head) = k
        /\ \A i \in 1 .. k : head[i] = line[i]
    BY <1>1
  <1>3. /\ rest \in Seq(Int) /\ Len(rest) = Len(line) - k
        /\ \A i \in 1 .. Len(line) - k : rest[i] = line[k + i]
    BY <1>1
  <1>4. /\ \A i \in 1 .. Len(line) : line[i] = (Len(lines_read) + i - 1) \div 2
        /\ \A i \in 1 .. Len(lines_read) : lines_read[i] = (i - 1) \div 2
    BY DEF Sequence!Characters, Sequence!InOrder
  <1>5. lines_read' = lines_read \o head /\ line' = rest
    BY DEF Sequence!Give
  <1> HIDE DEF head, rest
  <1>6. /\ lines_read' \in Seq(Int) /\ Len(lines_read') = Len(lines_read) + k
        /\ \A i \in 1 .. Len(lines_read) + k :
             lines_read'[i] = IF i <= Len(lines_read) THEN lines_read[i] ELSE head[i - Len(lines_read)]
    BY <1>1, <1>2, <1>5
  <1>7. ASSUME NEW i \in 1 .. Len(lines_read')
        PROVE  lines_read'[i] = (i - 1) \div 2
    <2>1. CASE i <= Len(lines_read)
      BY <1>1, <1>4, <1>6, <2>1
    <2>2. CASE i > Len(lines_read)
      <3>1. i - Len(lines_read) \in 1 .. k /\ Len(lines_read) + (i - Len(lines_read)) - 1 = i - 1
        BY <1>1, <1>6, <2>2
      <3>2. line[i - Len(lines_read)] = (i - 1) \div 2
        BY <1>1, <1>4, <3>1
      <3> QED
        BY <1>1, <1>2, <1>6, <2>2, <3>1, <3>2
    <2> QED
      BY <1>1, <2>1, <2>2
  <1>8. ASSUME NEW i \in 1 .. Len(line')
        PROVE  line'[i] = (Len(lines_read') + i - 1) \div 2
    <2>1. /\ k + i \in 1 .. Len(line) /\ line'[i] = line[k + i]
          /\ Len(lines_read) + (k + i) - 1 = Len(lines_read') + i - 1
      BY <1>1, <1>3, <1>5, <1>6
    <2> QED
      BY <1>4, <2>1
  <1>9. Sequence!InOrder'
    BY <1>7 DEF Sequence!InOrder
  <1>10. line' \in Seq(Int) /\ Len(line') = Len(line) - k
    BY <1>3, <1>5
  <1>11. Len(lines_read') + Len(line') = Len(lines_read) + Len(line)
    BY <1>1, <1>6, <1>10
  <1> QED
    BY <1>6, <1>8, <1>9, <1>10, <1>11

LEMMA SeqInit == Sequence!Init => Sequence!IInv
  <1> SUFFICES ASSUME Sequence!Init PROVE Sequence!IInv
    OBVIOUS
  <1>1. changed \in BOOLEAN
    BY DEF Sequence!Init
  <1>2. /\ max = -1 /\ seq = "closed" /\ index = 0 /\ spos = -1 /\ want = 0
        /\ line = <<>> /\ lines_read = <<>>
    BY DEF Sequence!Init, Sequence!Null
  <1>3. Sequence!TypeOK
    BY <1>1, <1>2 DEF Sequence!TypeOK
  <1>4. Sequence!Characters
    BY <1>2 DEF Sequence!Characters, Sequence!InOrder, Sequence!LinesShown
  <1>5. Sequence!WhereItStands
    BY <1>2 DEF Sequence!WhereItStands
  <1> QED
    BY <1>3, <1>4, <1>5 DEF Sequence!IInv

(* The module and its parameter; open and release.                         *)
LEMMA SeqFileSteps ==
  ASSUME Sequence!IInv,
         \/ \E m \in 0 .. MaxMax : Sequence!Insmod(m) \/ Sequence!SetMax(m)
         \/ Sequence!Rmmod \/ Sequence!Open \/ Sequence!Release
  PROVE  Sequence!IInv'
  <1> USE DEF Sequence!IInv, Sequence!TypeOK, Sequence!Characters, Sequence!InOrder,
              Sequence!LinesShown, Sequence!WhereItStands, Sequence!Null
  <1>1. ASSUME NEW m \in 0 .. MaxMax, Sequence!Insmod(m) \/ Sequence!SetMax(m)
        PROVE  Sequence!IInv'
    <2>1. /\ max' \in Int /\ max' # -1
          /\ UNCHANGED <<seq, index, spos, want, line, lines_read>>
      BY <1>1 DEF Sequence!Insmod, Sequence!SetMax
    <2>2. changed' \in BOOLEAN /\ (changed' => TRUE) /\ (seq # "closed" => changed')
      BY <1>1 DEF Sequence!Insmod, Sequence!SetMax
    <2> QED
      BY <2>1, <2>2
  <1>2. CASE Sequence!Rmmod
    BY <1>2 DEF Sequence!Rmmod
  <1>3. CASE Sequence!Open \/ Sequence!Release
    <2>1. /\ UNCHANGED <<max, spos, want>> /\ max # -1
          /\ index' = 0 /\ line' = <<>> /\ lines_read' = <<>> /\ changed' = FALSE
          /\ seq' \in {"idle", "closed"}
      BY <1>3 DEF Sequence!Open, Sequence!Release
    <2>2. changed' \in BOOLEAN
      BY <2>1
    <2>3. Sequence!TypeOK'
      BY <2>1, <2>2
    <2>4. Sequence!Characters'
      BY <2>1
    <2>5. Sequence!WhereItStands'
      BY <2>1
    <2> QED
      BY <2>3, <2>4, <2>5
  <1> QED
    BY <1>1, <1>2, <1>3

LEMMA SeqRead ==
  ASSUME Sequence!IInv, NEW k \in Sizes, Sequence!Read(k)
  PROVE  Sequence!IInv'
  <1>1. /\ seq = "idle" /\ k \in Nat /\ Len(line) \in Nat
        /\ UNCHANGED <<max, index, spos, changed>>
    BY FilesAssumption DEF FilesAssumption, Sequence!Read, Sequence!IInv, Sequence!TypeOK
  <1>2. PICK n \in 0 .. Len(line) :
          /\ Sequence!Give(n)
          /\ \/ seq' = "idle" /\ want' = want
             \/ seq' = "start" /\ n = Len(line) /\ want' \in Nat
    <2>1. CASE Len(line) >= k
      BY <1>1, <2>1 DEF Sequence!Read
    <2>2. CASE ~(Len(line) >= k)
      BY <1>1, <2>2 DEF Sequence!Read
    <2> QED
      BY <2>1, <2>2
  <1>3. /\ lines_read' \in Seq(Int) /\ line' \in Seq(Int)
        /\ Len(line') = Len(line) - n
        /\ Len(lines_read') + Len(line') = Len(lines_read) + Len(line)
        /\ Sequence!InOrder'
        /\ \A i \in 1 .. Len(line') : line'[i] = (Len(lines_read') + i - 1) \div 2
    BY <1>2, SeqGives DEF Sequence!IInv
  <1>4. seq' = "start" => line' = <<>>
    BY <1>1, <1>2, <1>3
  <1>5. Sequence!TypeOK'
    BY <1>1, <1>2, <1>3 DEF Sequence!IInv, Sequence!TypeOK
  <1>6. Sequence!Characters'
    BY <1>1, <1>2, <1>3 DEF Sequence!IInv, Sequence!Characters, Sequence!LinesShown
  <1>7. Sequence!WhereItStands'
    BY <1>1, <1>2, <1>4 DEF Sequence!IInv, Sequence!WhereItStands
  <1> QED
    BY <1>5, <1>6, <1>7 DEF Sequence!IInv

LEMMA Halves == \A n \in Nat : (2 * n) \div 2 = n /\ (2 * n + 1) \div 2 = n
  OBVIOUS

LEMMA SeqShow ==
  ASSUME Sequence!IInv, Sequence!Show
  PROVE  Sequence!IInv'
  <1>1. /\ seq = "show" /\ seq' = "next" /\ spos = index /\ line' = line \o <<spos, spos>>
        /\ UNCHANGED <<max, index, spos, want, lines_read, changed>>
    BY DEF Sequence!Show, Sequence!IInv, Sequence!WhereItStands
  <1>2. /\ line \in Seq(Int) /\ Len(line) \in Nat /\ Len(lines_read) \in Nat /\ index \in Nat
        /\ Len(lines_read) + Len(line) = 2 * index
    BY <1>1 DEF Sequence!IInv, Sequence!TypeOK, Sequence!Characters, Sequence!LinesShown
  <1>3. /\ line' \in Seq(Int) /\ Len(line') = Len(line) + 2
        /\ \A i \in 1 .. Len(line) : line'[i] = line[i]
        /\ line'[Len(line) + 1] = index /\ line'[Len(line) + 2] = index
    BY <1>1, <1>2
  <1>4. ASSUME NEW i \in 1 .. Len(line')
        PROVE  line'[i] = (Len(lines_read') + i - 1) \div 2
    <2>0. i \in Nat /\ i > 0 /\ i <= Len(line) + 2
      BY <1>1, <1>2, <1>3
    <2>1. CASE i <= Len(line)
      <3>1. i \in 1 .. Len(line) /\ line'[i] = line[i]
        BY <1>2, <1>3, <2>0, <2>1
      <3>2. line[i] = (Len(lines_read) + i - 1) \div 2
        BY <3>1 DEF Sequence!IInv, Sequence!Characters
      <3> QED
        BY <1>1, <3>1, <3>2
    <2>2. CASE i = Len(line) + 1
      <3>1. Len(lines_read') + i - 1 = 2 * index
        BY <1>1, <1>2, <2>2
      <3>2. line'[i] = index
        BY <1>3, <2>2
      <3> QED
        BY <1>2, <3>1, <3>2, Halves
    <2>3. CASE i = Len(line) + 2
      <3>1. Len(lines_read') + i - 1 = 2 * index + 1
        <4>1. Len(lines_read') = Len(lines_read)
          BY <1>1
        <4> QED
          BY <1>2, <2>3, <4>1
      <3>2. line'[i] = index
        BY <1>3, <2>3
      <3> QED
        BY <1>2, <3>1, <3>2, Halves
    <2> QED
      BY <1>2, <2>0, <2>1, <2>2, <2>3
  <1>5. Sequence!TypeOK'
    BY <1>1, <1>3 DEF Sequence!IInv, Sequence!TypeOK
  <1>6. Sequence!Characters'
    <2>1. Sequence!InOrder'
      BY <1>1 DEF Sequence!IInv, Sequence!Characters, Sequence!InOrder
    <2>2. Sequence!LinesShown' = index + 1
      BY <1>1 DEF Sequence!LinesShown
    <2>3. Len(lines_read') + Len(line') = 2 * (index + 1)
      BY <1>1, <1>2, <1>3
    <2> QED
      BY <1>4, <2>1, <2>2, <2>3 DEF Sequence!Characters
  <1>7. line' # <<>>
    BY <1>2, <1>3
  <1>8. Sequence!WhereItStands'
    BY <1>1, <1>7 DEF Sequence!IInv, Sequence!WhereItStands
  <1> QED
    BY <1>5, <1>6, <1>8 DEF Sequence!IInv

LEMMA SeqMoves ==
  ASSUME Sequence!IInv, Sequence!Start \/ Sequence!Advance
  PROVE  Sequence!IInv'
  <1> USE DEF Sequence!IInv, Sequence!TypeOK, Sequence!WhereItStands, Sequence!Null
  <1>1. CASE Sequence!Start
    <2>1. /\ seq = "start" /\ line = <<>> /\ seq' \in {"show", "stop"} /\ spos' \in Int
          /\ UNCHANGED <<max, index, want, line, lines_read>>
      BY <1>1 DEF Sequence!Start
    <2>2. changed' \in BOOLEAN /\ (changed => changed')
      BY <1>1 DEF Sequence!Start
    <2>3. /\ seq' = "show" => spos' = index
          /\ seq' = "stop" /\ ~changed' => index >= max
      BY <1>1 DEF Sequence!Start, Sequence!Ends
    <2>4. Sequence!Characters'
      BY <2>1 DEF Sequence!Characters, Sequence!LinesShown, Sequence!InOrder
    <2> QED
      BY <2>1, <2>2, <2>3, <2>4
  <1>2. CASE Sequence!Advance
    <2>1. /\ seq = "next" /\ spos = index /\ UNCHANGED <<max, want, line, lines_read, changed>>
          /\ index' = index + 1 /\ seq' \in {"show", "stop"} /\ spos' \in Int
          /\ seq' = "show" => spos' = index'
      BY <1>2 DEF Sequence!Advance, Sequence!PreIncrement
    <2>2. Len(lines_read') + Len(line') = 2 * index'
      BY <2>1 DEF Sequence!Characters, Sequence!LinesShown
    <2>3. Sequence!Characters'
      BY <2>1, <2>2 DEF Sequence!Characters, Sequence!LinesShown, Sequence!InOrder
    <2>4. changed' \in BOOLEAN
      BY <2>1
    <2>5. Sequence!TypeOK'
      BY <2>1, <2>4
    <2>6. seq' = "stop" /\ line' = <<>> /\ ~changed' => index' >= max'
      BY <1>2, <2>1 DEF Sequence!Advance
    <2>7. Sequence!WhereItStands'
      BY <2>1, <2>6
    <2> QED
      BY <2>3, <2>5, <2>7
  <1> QED
    BY <1>1, <1>2

LEMMA SeqStop ==
  ASSUME Sequence!IInv, Sequence!Stop
  PROVE  Sequence!IInv'
  <1>1. /\ seq = "stop" /\ spos' = -1 /\ want' = 0
        /\ Sequence!Give(Sequence!Least(want, Len(line)))
        /\ seq' = IF line = <<>> THEN "eof" ELSE "idle"
        /\ UNCHANGED <<max, index, changed>>
        /\ want \in Nat /\ Len(line) \in Nat
    BY DEF Sequence!Stop, Sequence!Null, Sequence!IInv, Sequence!TypeOK
  <1>2. Sequence!Least(want, Len(line)) \in 0 .. Len(line)
    BY <1>1 DEF Sequence!Least
  <1>3. /\ lines_read' \in Seq(Int) /\ line' \in Seq(Int)
        /\ Len(line') = Len(line) - Sequence!Least(want, Len(line))
        /\ Len(lines_read') + Len(line') = Len(lines_read) + Len(line)
        /\ Sequence!InOrder'
        /\ \A i \in 1 .. Len(line') : line'[i] = (Len(lines_read') + i - 1) \div 2
    BY <1>1, <1>2, SeqGives DEF Sequence!IInv
  <1>4. line = <<>> => line' = <<>>
    BY <1>1, <1>2, <1>3
  <1>5. Sequence!TypeOK'
    BY <1>1, <1>3 DEF Sequence!IInv, Sequence!TypeOK
  <1>6. Sequence!Characters'
    BY <1>1, <1>3 DEF Sequence!IInv, Sequence!Characters, Sequence!LinesShown
  <1>7. Sequence!WhereItStands'
    BY <1>1, <1>4 DEF Sequence!IInv, Sequence!WhereItStands
  <1> QED
    BY <1>5, <1>6, <1>7 DEF Sequence!IInv

LEMMA SeqStep ==
  ASSUME Sequence!IInv, [Sequence!Next]_seq_file
  PROVE  Sequence!IInv'
  <1>1. CASE UNCHANGED seq_file
    BY <1>1 DEF seq_file, Sequence!IInv, Sequence!TypeOK, Sequence!Characters, Sequence!InOrder,
                Sequence!LinesShown, Sequence!WhereItStands
  <1> QED
    BY <1>1, SeqFileSteps, SeqRead, SeqShow, SeqMoves, SeqStop DEF Sequence!Next

LEMMA SeqSafe == Sequence!IInv => Sequence!InOrder /\ Sequence!AllBelowMax
  <1>1. ASSUME Sequence!IInv, seq = "eof", ~changed
        PROVE  Len(lines_read) >= 2 * max
    <2>1. /\ line = <<>> /\ Len(lines_read) + Len(line) = 2 * index /\ index >= max
          /\ index \in Nat /\ max \in Int /\ Len(lines_read) \in Nat
      BY <1>1 DEF Sequence!IInv, Sequence!TypeOK, Sequence!Characters, Sequence!LinesShown,
                  Sequence!WhereItStands
    <2> QED
      BY <2>1
  <1> QED
    BY <1>1 DEF Sequence!IInv, Sequence!Characters, Sequence!AllBelowMax

-----------------------------------------------------------------------------
(* memfile: the array, the semaphore, and what the file holds.             *)

LEMMA MaxOfTwo ==
  ASSUME NEW a \in Nat, NEW b \in Nat
  PROVE  /\ Mem!Max({a, b}) \in {a, b}
         /\ Mem!Max({a, b}) >= a /\ Mem!Max({a, b}) >= b
  <1>1. \E x \in {a, b} : \A y \in {a, b} : x >= y
    OBVIOUS
  <1> QED
    BY <1>1 DEF Mem!Max

LEMMA ArrayIsSeq ==
  ASSUME NEW n \in Nat, NEW f, f \in [1 .. n -> Mem!Byte]
  PROVE  f \in Seq(Mem!Byte) /\ Len(f) = n
  <1>1. f \in Seq(Mem!Byte)
    BY SeqDef
  <1>2. DOMAIN f = 1 .. Len(f) /\ Len(f) \in Nat
    BY <1>1, LenProperties
  <1> QED
    BY <1>1, <1>2

(* What every step may rely on.                                            *)
LEMMA MemFacts ==
  ASSUME Mem!IInv
  PROVE  /\ used \in Nat /\ filled \in Nat /\ used <= filled /\ Len(buf) = filled
         /\ \A i \in 1 .. filled : buf[i] \in Mem!Byte
         /\ Len(contents) \in Nat /\ contents \in Seq(Mem!Byte)
         /\ \A i \in 1 .. Len(contents) : contents[i] \in Mem!Byte
         /\ \A c \in Callers :
              /\ pos[c] \in Nat /\ pos[c] <= MaxEnd /\ len[c] \in Nat
              /\ Mem!NewUsed(c) = pos[c] + len[c] /\ Mem!NewUsed(c) \in Nat
  <1>1. /\ used \in Nat /\ filled \in Nat /\ used <= filled /\ Len(buf) = filled
        /\ buf \in Seq(Mem!Byte) /\ contents \in Seq(Mem!Byte)
        /\ pos \in [Callers -> 0 .. MaxEnd] /\ len \in [Callers -> Nat]
    BY DEF Mem!IInv, Mem!TypeOK, Mem!CallsTyped, Mem!UsedFits
  <1>2. /\ \A i \in 1 .. filled : buf[i] \in Mem!Byte
        /\ \A i \in 1 .. Len(contents) : contents[i] \in Mem!Byte
        /\ Len(contents) \in Nat
    BY <1>1, ElementOfSeq, LenProperties
  <1> QED
    BY <1>1, <1>2, FilesAssumption DEF FilesAssumption, Mem!NewUsed

LEMMA MemInit == Mem!Init => Mem!IInv
  <1> SUFFICES ASSUME Mem!Init PROVE Mem!IInv
    OBVIOUS
  <1>1. null \in BOOLEAN /\ disturbed \in BOOLEAN /\ null = FALSE
    BY DEF Mem!Init
  <1>2. /\ buf = <<0>> /\ used = 0 /\ filled = 1 /\ contents = <<>>
        /\ sem = [readers |-> {}, writer |-> "nobody"]
        /\ call = [c \in Callers |-> "closed"]
        /\ pos = [c \in Callers |-> 0] /\ len = [c \in Callers |-> 0]
    BY DEF Mem!Init, Mem!Nobody
  <1>3. /\ buf \in Seq(Mem!Byte) /\ Len(buf) = 1 /\ pos \in [Callers -> 0 .. MaxEnd]
    BY <1>2, FilesAssumption DEF FilesAssumption, Mem!Byte
  <1>4. Mem!TypeOK
    BY <1>1, <1>2, <1>3 DEF Mem!TypeOK, Mem!Nobody
  <1>5. Mem!CallsTyped
    BY <1>1, <1>2, FilesAssumption DEF FilesAssumption, Mem!CallsTyped
  <1>6. Mem!UsedFits
    BY <1>2, <1>3 DEF Mem!UsedFits
  <1>7. Mem!WriterHoldsSem /\ Mem!Holds
    BY <1>2, FilesAssumption DEF FilesAssumption, Mem!WriterHoldsSem, Mem!Holds
  <1> QED
    BY <1>4, <1>5, <1>6, <1>7 DEF Mem!IInv

(* The kernel starts again, or the module is loaded again.                 *)
LEMMA MemReload ==
  ASSUME Mem!Reload
  PROVE  Mem!IInv'
  <1>1. null' \in BOOLEAN /\ disturbed' \in BOOLEAN /\ null' = FALSE
    BY DEF Mem!Reload
  <1>2. /\ buf' = <<0>> /\ used' = 0 /\ filled' = 1 /\ contents' = <<>>
        /\ sem' = [readers |-> {}, writer |-> "nobody"]
        /\ call' = [c \in Callers |-> "closed"]
        /\ pos' = [c \in Callers |-> 0] /\ len' = [c \in Callers |-> 0]
    BY DEF Mem!Reload, Mem!Nobody
  <1>3. /\ buf' \in Seq(Mem!Byte) /\ Len(buf') = 1 /\ pos' \in [Callers -> 0 .. MaxEnd]
    BY <1>2, FilesAssumption DEF FilesAssumption, Mem!Byte
  <1>4. Mem!TypeOK'
    BY <1>1, <1>2, <1>3 DEF Mem!TypeOK, Mem!Nobody
  <1>5. Mem!CallsTyped'
    BY <1>1, <1>2, FilesAssumption DEF FilesAssumption, Mem!CallsTyped
  <1>6. Mem!UsedFits'
    BY <1>2, <1>3 DEF Mem!UsedFits
  <1>7. Mem!WriterHoldsSem' /\ Mem!Holds'
    BY <1>2, FilesAssumption DEF FilesAssumption, Mem!WriterHoldsSem, Mem!Holds
  <1> QED
    BY <1>4, <1>5, <1>6, <1>7 DEF Mem!IInv

(* A call that is not a write moves one caller, outside of its writes, and *)
(* leaves the array alone.                                                 *)
QuietCall(c, where, to, l, rs) ==
  /\ UNCHANGED <<buf, filled, null>>
  /\ call[c] \in {"closed", "open", "read", "readtail"} /\ call' = [call EXCEPT ![c] = where]
  /\ pos' = [pos EXCEPT ![c] = to] /\ len' = [len EXCEPT ![c] = l]
  /\ sem' = [readers |-> rs, writer |-> sem.writer]

LEMMA MemQuiet ==
  ASSUME Mem!IInv, NEW c \in Callers,
         NEW where \in {"closed", "open", "read", "readtail"}, NEW to \in 0 .. MaxEnd,
         NEW l \in Nat, NEW rs \in SUBSET Callers, QuietCall(c, where, to, l, rs),
         \/ UNCHANGED <<used, contents, disturbed>>
         \/ used' = 0 /\ contents' = <<>> /\ disturbed' = (disturbed \/ sem.writer # Mem!Nobody)
  PROVE  Mem!IInv'
  <1>1. /\ \A d \in Callers : d # c => /\ call'[d] = call[d] /\ pos'[d] = pos[d]
                                       /\ len'[d] = len[d]
        /\ call'[c] = where /\ sem'.writer = sem.writer /\ sem'.readers = rs
        /\ UNCHANGED <<buf, filled, null>>
        /\ call[c] \in {"closed", "open", "read", "readtail"}
    BY DEF QuietCall, Mem!IInv, Mem!TypeOK, Mem!CallsTyped
  <1>2. null' \in BOOLEAN /\ disturbed' \in BOOLEAN /\ (null' => disturbed')
    BY <1>1 DEF Mem!IInv, Mem!TypeOK, Mem!CallsTyped
  <1>3. /\ used' \in Nat /\ used' <= used /\ contents' \in Seq(Mem!Byte)
        /\ used <= MaxEnd /\ used <= filled /\ used \in Nat
    <2>1. used <= MaxEnd /\ used <= filled /\ used \in Nat
      BY DEF Mem!IInv, Mem!TypeOK, Mem!CallsTyped, Mem!UsedFits
    <2>2. contents \in Seq(Mem!Byte)
      BY DEF Mem!IInv, Mem!CallsTyped
    <2>3. (used' = used /\ contents' = contents) \/ (used' = 0 /\ contents' = <<>>)
      OBVIOUS
    <2>4. contents' \in Seq(Mem!Byte)
      BY ONLY <2>2, <2>3, EmptySeq
    <2>5. used' \in Nat /\ used' <= used
      BY ONLY <2>1, <2>3
    <2> QED
      BY <2>1, <2>4, <2>5
  <1>4. Mem!TypeOK'
    BY <1>1, <1>2, <1>3 DEF QuietCall, Mem!IInv, Mem!TypeOK
  <1>5. Mem!CallsTyped'
    <2>1. used' <= MaxEnd
      BY <1>3, FilesAssumption DEF FilesAssumption
    <2> QED
      BY <1>1, <1>2, <1>3, <2>1 DEF QuietCall, Mem!IInv, Mem!CallsTyped
  <1>6. Mem!UsedFits'
    BY <1>1, <1>3 DEF Mem!IInv, Mem!TypeOK, Mem!UsedFits
  <1>7. Mem!WriterHoldsSem'
    BY <1>1 DEF Mem!IInv, Mem!WriterHoldsSem, Mem!NewUsed
  <1>8. Mem!Holds'
    <2>1. CASE UNCHANGED <<used, contents, disturbed>>
      BY <1>1, <2>1 DEF Mem!IInv, Mem!Holds, Mem!NewUsed
    <2>2. CASE used' = 0 /\ contents' = <<>> /\ disturbed' = (disturbed \/ sem.writer # Mem!Nobody)
      <3>1. ASSUME ~disturbed'
            PROVE  \A d \in Callers : call'[d] \notin {"reserve", "gap", "grow", "copy"}
        BY <1>1, <2>2, <3>1, FilesAssumption
           DEF FilesAssumption, Mem!IInv, Mem!WriterHoldsSem, Mem!Nobody
      <3> QED
        BY <2>2, <3>1 DEF Mem!Holds
    <2> QED
      BY <2>1, <2>2
  <1> QED
    BY <1>4, <1>5, <1>6, <1>7, <1>8 DEF Mem!IInv

(* The parts of the state that a call reads.                               *)
LEMMA MemCaller ==
  ASSUME Mem!IInv, NEW c \in Callers
  PROVE  /\ sem = [readers |-> sem.readers, writer |-> sem.writer]
         /\ sem.readers \in SUBSET Callers /\ sem.readers \cup {c} \in SUBSET Callers
         /\ sem.readers \ {c} \in SUBSET Callers
         /\ pos = [pos EXCEPT ![c] = pos[c]] /\ pos[c] \in 0 .. MaxEnd
         /\ len = [len EXCEPT ![c] = len[c]] /\ len[c] \in Nat
         /\ call = [call EXCEPT ![c] = call[c]]
         /\ used \in 0 .. MaxEnd
  BY FilesAssumption DEF FilesAssumption, Mem!IInv, Mem!TypeOK, Mem!CallsTyped

LEMMA MemOpenSeekRelease ==
  ASSUME Mem!IInv, NEW c \in Callers,
         \/ \E flag \in {"", "O_TRUNC", "O_APPEND"} : Mem!Open(c, flag)
         \/ Mem!Release(c)
         \/ \E to \in 0 .. MaxEnd : Mem!Seek(c, to)
         \/ \E from \in {-1, 0} : Mem!SeekEnd(c, from)
  PROVE  Mem!IInv'
  <1>0. 0 \in Nat /\ 0 \in 0 .. MaxEnd
    <2>1. MaxEnd \in Nat
      BY FilesAssumption DEF FilesAssumption
    <2> QED
      BY ONLY <2>1
  <1> USE MemCaller
  <1>1. ASSUME NEW flag \in {"", "O_TRUNC", "O_APPEND"}, Mem!Open(c, flag)
        PROVE  Mem!IInv'
    <2> DEFINE to == IF flag = "O_APPEND" THEN used ELSE 0
    <2>1. to \in 0 .. MaxEnd
      BY <1>0
    <2> HIDE DEF to
    <2>2. QuietCall(c, "open", to, len[c], sem.readers)
      BY <1>1 DEF QuietCall, Mem!Open, Mem!Goto, to
    <2>3. \/ UNCHANGED <<used, contents, disturbed>>
          \/ used' = 0 /\ contents' = <<>> /\ disturbed' = (disturbed \/ sem.writer # Mem!Nobody)
      BY <1>1 DEF Mem!Open
    <2> QED
      BY <2>1, <2>2, <2>3, MemQuiet
  <1>2. CASE Mem!Release(c)
    <2>1. QuietCall(c, "closed", 0, 0, sem.readers) /\ UNCHANGED <<used, contents, disturbed>>
      BY <1>2 DEF QuietCall, Mem!Release, Mem!Goto, Mem!dvars
    <2> QED
      BY <1>0, <2>1, MemQuiet
  <1>3. ASSUME NEW to, Mem!Seek(c, to)
        PROVE  Mem!IInv'
    <2>1. QuietCall(c, "open", to, len[c], sem.readers) /\ UNCHANGED <<used, contents, disturbed>>
      BY <1>3 DEF QuietCall, Mem!Seek, Mem!dvars
    <2>2. to \in 0 .. MaxEnd
      BY <1>3 DEF Mem!Seek
    <2> QED
      BY <2>1, <2>2, MemQuiet
  <1> QED
    BY <1>1, <1>2, <1>3 DEF Mem!SeekEnd

LEMMA MemRead ==
  ASSUME Mem!IInv, NEW c \in Callers,
         \/ \E l \in Lens : Mem!DownRead(c, l)
         \/ Mem!ReadTest(c) \/ Mem!ReadTail(c)
  PROVE  Mem!IInv'
  <1> USE MemCaller
  <1>1. ASSUME NEW l \in Lens, Mem!DownRead(c, l)
        PROVE  Mem!IInv'
    <2>1. sem' = [readers |-> sem.readers \cup {c}, writer |-> sem.writer]
      BY <1>1 DEF Mem!DownRead
    <2>2. QuietCall(c, "read", pos[c], l, sem.readers \cup {c}) /\ UNCHANGED <<used, contents, disturbed>>
      BY <1>1, <2>1 DEF QuietCall, Mem!DownRead, Mem!Goto, Mem!dvars
    <2>3. l \in Nat
      BY FilesAssumption DEF FilesAssumption
    <2> QED
      BY <2>2, <2>3, MemQuiet
  <1>2. ASSUME NEW ret \in Nat, Mem!ReadDone(c, ret), call[c] \in {"read", "readtail"}
        PROVE  Mem!IInv'
    <2> DEFINE to == Mem!Min2(MaxEnd, pos[c] + ret)
    <2>1. to \in 0 .. MaxEnd
      BY FilesAssumption DEF FilesAssumption, Mem!Min2
    <2>2. sem' = [readers |-> sem.readers \ {c}, writer |-> sem.writer]
      BY <1>2 DEF Mem!ReadDone
    <2>3. pos' = [pos EXCEPT ![c] = to]
      BY <1>2 DEF Mem!ReadDone
    <2> HIDE DEF to
    <2>4. QuietCall(c, "open", to, len[c], sem.readers \ {c}) /\ UNCHANGED <<used, contents, disturbed>>
      BY <1>2, <2>2, <2>3 DEF QuietCall, Mem!ReadDone, Mem!Goto, Mem!dvars
    <2> QED
      BY <2>1, <2>4, MemQuiet
  <1>3. Mem!Readable(c) \in Nat /\ Mem!TwiceRead(c) \in Nat
    BY MemFacts DEF Mem!Readable, Mem!TwiceRead, Mem!Min2
  <1>4. CASE Mem!ReadTest(c)
    <2>1. CASE Mem!Goto(c, "readtail") /\ UNCHANGED <<Mem!dvars, sem, pos, len, contents, disturbed>>
      <3>1. QuietCall(c, "readtail", pos[c], len[c], sem.readers) /\ UNCHANGED <<used, contents, disturbed>>
        BY <1>4, <2>1 DEF QuietCall, Mem!ReadTest, Mem!Goto, Mem!dvars
      <3> QED
        BY <3>1, MemQuiet
    <2>2. CASE \E ret \in Nat : Mem!ReadDone(c, ret)
      BY <1>2, <1>4, <2>2 DEF Mem!ReadTest
    <2> QED
      BY <1>3, <1>4, <2>1, <2>2 DEF Mem!ReadTest
  <1>5. CASE Mem!ReadTail(c)
    BY <1>2, <1>3, <1>5 DEF Mem!ReadTail
  <1> QED
    BY <1>1, <1>4, <1>5

-----------------------------------------------------------------------------
(* A write, under the semaphore: nobody else is in one.                    *)

LEMMA MemOnlyWriter ==
  ASSUME Mem!IInv, NEW c \in Callers, call[c] \in {"reserve", "gap", "grow", "copy"}
  PROVE  /\ sem.writer = c /\ c # "nobody"
         /\ \A d \in Callers : d # c => call[d] \notin {"reserve", "gap", "grow", "copy"}
         /\ Mem!NewUsed(c) <= MaxEnd
         /\ call[c] \in {"gap", "grow", "copy"} => Mem!NewUsed(c) <= filled
  BY FilesAssumption DEF FilesAssumption, Mem!IInv, Mem!WriterHoldsSem

LEMMA MemDownWrite ==
  ASSUME Mem!IInv, NEW c \in Callers, NEW l \in Lens, Mem!DownWrite(c, l)
  PROVE  Mem!IInv'
  <1> USE MemCaller
  <1>1. /\ UNCHANGED <<buf, used, filled, null, pos, contents, disturbed>>
        /\ sem.writer = "nobody" /\ pos[c] + l <= MaxEnd /\ l \in Nat
        /\ sem' = [readers |-> sem.readers, writer |-> c]
        /\ call' = [call EXCEPT ![c] = "reserve"] /\ len' = [len EXCEPT ![c] = l]
    BY FilesAssumption
       DEF FilesAssumption, Mem!DownWrite, Mem!dvars, Mem!Nobody, Mem!Goto
  <1>2. /\ call \in [Callers -> {"closed", "open", "read", "readtail", "reserve", "gap", "grow", "copy"}]
        /\ len \in [Callers -> Nat]
        /\ \A d \in Callers : call[d] \notin {"reserve", "gap", "grow", "copy"}
    BY <1>1, FilesAssumption DEF FilesAssumption, Mem!IInv, Mem!CallsTyped, Mem!WriterHoldsSem
  <1>3. null' \in BOOLEAN /\ disturbed' \in BOOLEAN /\ (null' => disturbed')
    BY <1>1 DEF Mem!IInv, Mem!TypeOK, Mem!CallsTyped
  <1>4. Mem!TypeOK'
    BY <1>1, <1>3 DEF Mem!IInv, Mem!TypeOK
  <1>5. Mem!CallsTyped'
    BY <1>1, <1>2, <1>3 DEF Mem!IInv, Mem!CallsTyped
  <1>6. Mem!UsedFits'
    BY <1>1 DEF Mem!IInv, Mem!UsedFits
  <1>7. Mem!WriterHoldsSem'
    BY <1>1, <1>2 DEF Mem!WriterHoldsSem, Mem!NewUsed
  <1>8. Mem!Holds'
    BY <1>1, <1>2 DEF Mem!IInv, Mem!Holds, Mem!Nobody
  <1> QED
    BY <1>4, <1>5, <1>6, <1>7, <1>8 DEF Mem!IInv

LEMMA MemReserve ==
  ASSUME Mem!IInv, NEW c \in Callers, Mem!Reserve(c)
  PROVE  Mem!IInv'
  <1>1. /\ call[c] = "reserve" /\ UNCHANGED <<pos, len, contents, used>>
        /\ call \in [Callers -> {"closed", "open", "read", "readtail", "reserve", "gap", "grow", "copy"}]
        /\ disturbed \in BOOLEAN /\ null \in BOOLEAN /\ (null => disturbed)
    BY DEF Mem!Reserve, Mem!dvars, Mem!IInv, Mem!CallsTyped, Mem!TypeOK
  <1>2. CASE Mem!Fits(c) /\ UNCHANGED <<buf, filled, null, sem, disturbed>> /\ Mem!Goto(c, "gap")
    <2>1. call' = [call EXCEPT ![c] = "gap"] /\ Mem!NewUsed(c)' = Mem!NewUsed(c)
      BY <1>1, <1>2 DEF Mem!Goto, Mem!NewUsed
    <2>2. null' \in BOOLEAN /\ disturbed' \in BOOLEAN /\ (null' => disturbed')
      BY <1>1, <1>2
    <2>3. Mem!TypeOK' /\ Mem!UsedFits'
      BY <1>1, <1>2, <2>2 DEF Mem!IInv, Mem!TypeOK, Mem!UsedFits
    <2>4. Mem!CallsTyped'
      BY <1>1, <1>2, <2>1, <2>2 DEF Mem!IInv, Mem!CallsTyped
    <2>5. Mem!WriterHoldsSem'
      BY <1>1, <1>2, <2>1, MemOnlyWriter DEF Mem!Fits, Mem!IInv, Mem!WriterHoldsSem, Mem!NewUsed
    <2>6. Mem!Holds'
      BY <1>1, <1>2, <2>1, MemOnlyWriter DEF Mem!IInv, Mem!Holds, Mem!Nobody
    <2> QED
      BY <2>3, <2>4, <2>5, <2>6 DEF Mem!IInv
  <1>3. CASE /\ ~Mem!Fits(c) /\ filled' = 2 * Mem!NewUsed(c) /\ null' = FALSE
             /\ buf' = [i \in 1 .. filled' |-> IF i <= Len(buf) /\ ~null THEN buf[i] ELSE 0]
             /\ Mem!Goto(c, "gap") /\ UNCHANGED <<sem, disturbed>>
    <2>1. call' = [call EXCEPT ![c] = "gap"] /\ Mem!NewUsed(c)' = Mem!NewUsed(c)
      BY <1>1, <1>3 DEF Mem!Goto, Mem!NewUsed
    <2>2. null' \in BOOLEAN /\ disturbed' \in BOOLEAN /\ (null' => disturbed')
      BY <1>1, <1>3
    <2>3. /\ filled' \in Nat /\ filled' >= filled /\ Mem!NewUsed(c) <= filled'
          /\ used \in Nat /\ used <= filled /\ Len(buf) = filled /\ filled \in Nat
      BY <1>3, MemFacts DEF Mem!Fits
    <2>4. \A i \in 1 .. filled' : buf'[i] = IF i <= filled /\ ~null THEN buf[i] ELSE 0
      BY <1>3, <2>3
    <2>5. buf' \in [1 .. filled' -> Mem!Byte]
      BY <1>3, <2>3, MemFacts DEF Mem!Byte
    <2>6. buf' \in Seq(Mem!Byte) /\ Len(buf') = filled'
      BY <2>3, <2>5, ArrayIsSeq
    <2>7. Mem!TypeOK'
      BY <1>1, <1>3, <2>2, <2>3, <2>6 DEF Mem!IInv, Mem!TypeOK
    <2>8. Mem!UsedFits'
      BY <1>1, <2>3, <2>6 DEF Mem!UsedFits
    <2>9. Mem!CallsTyped'
      BY <1>1, <1>3, <2>1, <2>2 DEF Mem!IInv, Mem!CallsTyped
    <2>10. Mem!WriterHoldsSem'
      BY <1>1, <1>3, <2>1, <2>3, MemOnlyWriter DEF Mem!IInv, Mem!WriterHoldsSem, Mem!NewUsed
    <2>11. Mem!Holds'
      <3>1. ASSUME ~disturbed'
            PROVE  /\ Len(contents) = used /\ ~null /\ Len(contents) \in Nat
                   /\ \A i \in 1 .. Len(contents) : buf[i] = contents[i]
        BY <1>1, <1>3, <3>1, MemFacts DEF Mem!IInv, Mem!Holds
      <3>2. ASSUME ~disturbed', NEW i \in 1 .. Len(contents)
            PROVE  buf'[i] = contents[i]
        BY <2>3, <2>4, <3>1, <3>2
      <3>3. \A d \in Callers : call'[d] \in {"reserve", "gap", "grow", "copy"} => d = c /\ call'[d] = "gap"
        BY <1>1, <2>1, MemOnlyWriter
      <3>4. sem'.writer # "nobody"
        BY <1>1, <1>3, MemOnlyWriter
      <3> QED
        BY <1>1, <3>1, <3>2, <3>3, <3>4 DEF Mem!Holds, Mem!Nobody
    <2> QED
      BY <2>7, <2>8, <2>9, <2>10, <2>11 DEF Mem!IInv
  <1>4. CASE /\ null' = TRUE /\ disturbed' = TRUE /\ Mem!WriteDone(c) /\ UNCHANGED <<buf, filled>>
    <2>1. /\ call' = [call EXCEPT ![c] = "open"]
          /\ sem' = [readers |-> sem.readers, writer |-> "nobody"]
      BY <1>4, MemCaller DEF Mem!WriteDone, Mem!Goto, Mem!Nobody
    <2>2. null' \in BOOLEAN /\ disturbed' \in BOOLEAN /\ (null' => disturbed') /\ disturbed'
      BY <1>4
    <2>3. Mem!TypeOK' /\ Mem!UsedFits'
      BY <1>1, <1>4, <2>1, <2>2 DEF Mem!IInv, Mem!TypeOK, Mem!UsedFits, Mem!Nobody
    <2>4. Mem!CallsTyped'
      BY <1>1, <1>4, <2>1, <2>2 DEF Mem!IInv, Mem!CallsTyped
    <2>5. Mem!WriterHoldsSem'
      BY <1>1, <2>1, MemOnlyWriter, FilesAssumption DEF FilesAssumption, Mem!WriterHoldsSem
    <2>6. Mem!Holds'
      BY <2>2 DEF Mem!Holds
    <2> QED
      BY <2>3, <2>4, <2>5, <2>6 DEF Mem!IInv
  <1> QED
    BY <1>2, <1>3, <1>4 DEF Mem!Reserve, Mem!dvars

LEMMA MemGap ==
  ASSUME Mem!IInv, NEW c \in Callers, Mem!Gap(c)
  PROVE  Mem!IInv'
  <1>1. /\ call[c] = "gap" /\ UNCHANGED <<used, filled, null, sem, pos, len, contents, disturbed>>
        /\ call' = [call EXCEPT ![c] = "grow"]
        /\ buf' = [i \in 1 .. Len(buf) |-> IF i > used /\ i <= pos[c] THEN 0 ELSE buf[i]]
        /\ call \in [Callers -> {"closed", "open", "read", "readtail", "reserve", "gap", "grow", "copy"}]
    BY DEF Mem!Gap, Mem!Memset, Mem!Goto, Mem!IInv, Mem!CallsTyped
  <1>2. /\ Mem!NewUsed(c) <= filled /\ used <= filled /\ Len(buf) = filled /\ filled \in Nat
        /\ used \in Nat /\ pos[c] \in Nat /\ pos[c] <= filled /\ Len(contents) \in Nat
    <2>1. /\ Mem!NewUsed(c) <= filled /\ used <= filled /\ Len(buf) = filled /\ filled \in Nat
          /\ used \in Nat /\ pos[c] \in Nat /\ Len(contents) \in Nat
          /\ len[c] \in Nat /\ Mem!NewUsed(c) = pos[c] + len[c]
      BY <1>1, MemFacts, MemOnlyWriter
    <2> QED
      BY <2>1
  <1>3. \A i \in 1 .. filled : buf'[i] = IF i > used /\ i <= pos[c] THEN 0 ELSE buf[i]
    BY <1>1, <1>2
  <1>4. buf' \in [1 .. filled -> Mem!Byte]
    BY <1>1, <1>2, MemFacts DEF Mem!Byte
  <1>5. buf' \in Seq(Mem!Byte) /\ Len(buf') = filled
    BY <1>2, <1>4, ArrayIsSeq
  <1>6. null' \in BOOLEAN /\ disturbed' \in BOOLEAN /\ (null' => disturbed')
    BY <1>1 DEF Mem!IInv, Mem!TypeOK, Mem!CallsTyped
  <1>7. Mem!TypeOK' /\ Mem!UsedFits'
    BY <1>1, <1>2, <1>5, <1>6 DEF Mem!IInv, Mem!TypeOK, Mem!UsedFits
  <1>8. Mem!CallsTyped'
    BY <1>1, <1>6 DEF Mem!IInv, Mem!CallsTyped
  <1>9. Mem!WriterHoldsSem'
    BY <1>1 DEF Mem!IInv, Mem!WriterHoldsSem, Mem!NewUsed
  <1>10. Mem!Holds'
    <2>1. ASSUME ~disturbed'
          PROVE  /\ Len(contents) = used
                 /\ \A i \in 1 .. Len(contents) : buf[i] = contents[i]
      BY <1>1, <2>1 DEF Mem!IInv, Mem!Holds
    <2>2. ASSUME ~disturbed', NEW i \in 1 .. Len(contents)
          PROVE  buf'[i] = contents[i]
      BY <1>2, <1>3, <2>1, <2>2
    <2>3. ASSUME ~disturbed', NEW i \in Len(contents) + 1 .. pos[c]
          PROVE  buf'[i] = 0
      BY <1>2, <1>3, <2>1, <2>3
    <2>4. /\ \A d \in Callers : call'[d] \in {"reserve", "gap", "grow", "copy"}
                                 => d = c /\ call'[d] = "grow"
          /\ sem'.writer # "nobody"
      BY <1>1, MemOnlyWriter
    <2> QED
      BY <1>1, <1>2, <2>1, <2>2, <2>3, <2>4 DEF Mem!Holds, Mem!Nobody
  <1> QED
    BY <1>7, <1>8, <1>9, <1>10 DEF Mem!IInv

LEMMA MemGrow ==
  ASSUME Mem!IInv, NEW c \in Callers, Mem!Grow(c)
  PROVE  Mem!IInv'
  <1>1. /\ call[c] = "grow" /\ UNCHANGED <<buf, filled, null, sem, pos, len, contents, disturbed>>
        /\ call' = [call EXCEPT ![c] = "copy"]
        /\ used' = Mem!Max({used, Mem!NewUsed(c)})
        /\ call \in [Callers -> {"closed", "open", "read", "readtail", "reserve", "gap", "grow", "copy"}]
    BY DEF Mem!Grow, Mem!Goto, Mem!IInv, Mem!CallsTyped
  <1>2. /\ Mem!NewUsed(c) <= filled /\ used <= filled /\ used \in Nat /\ Mem!NewUsed(c) \in Nat
        /\ Mem!NewUsed(c) <= MaxEnd /\ used <= MaxEnd /\ Mem!NewUsed(c)' = Mem!NewUsed(c)
    BY <1>1, MemFacts, MemOnlyWriter DEF Mem!NewUsed, Mem!IInv, Mem!CallsTyped
  <1>3. /\ used' \in Nat /\ used' <= filled /\ used' <= MaxEnd
        /\ used' >= used
    BY <1>1, <1>2, MaxOfTwo
  <1>4. null' \in BOOLEAN /\ disturbed' \in BOOLEAN /\ (null' => disturbed')
    BY <1>1 DEF Mem!IInv, Mem!TypeOK, Mem!CallsTyped
  <1>5. Mem!TypeOK' /\ Mem!UsedFits'
    BY <1>1, <1>3, <1>4 DEF Mem!IInv, Mem!TypeOK, Mem!UsedFits
  <1>6. Mem!CallsTyped'
    BY <1>1, <1>3, <1>4 DEF Mem!IInv, Mem!CallsTyped
  <1>7. Mem!WriterHoldsSem'
    BY <1>1 DEF Mem!IInv, Mem!WriterHoldsSem, Mem!NewUsed
  <1>8. Mem!Holds'
    <2>1. ASSUME ~disturbed'
          PROVE  /\ Len(contents) = used
                 /\ \A i \in 1 .. Len(contents) : buf[i] = contents[i]
                 /\ \A i \in Len(contents) + 1 .. pos[c] : buf[i] = 0
      BY <1>1, <2>1 DEF Mem!IInv, Mem!Holds
    <2>2. /\ \A d \in Callers : call'[d] \in {"reserve", "gap", "grow", "copy"}
                                 => d = c /\ call'[d] = "copy"
          /\ sem'.writer # "nobody"
      BY <1>1, MemOnlyWriter
    <2> QED
      BY <1>1, <1>2, <1>3, <2>1, <2>2 DEF Mem!Holds, Mem!Nobody
  <1> QED
    BY <1>5, <1>6, <1>7, <1>8 DEF Mem!IInv

(* With the copy the array and the contents are written alike.             *)
LEMMA MemCopy ==
  ASSUME Mem!IInv, NEW c \in Callers, Mem!Copy(c)
  PROVE  Mem!IInv'
  <1> DEFINE new == Mem!NewUsed(c)
             both == Mem!Max({Len(contents), new})
  <1>1. /\ call[c] = "copy" /\ UNCHANGED <<used, filled, null, len>>
        /\ call' = [call EXCEPT ![c] = "open"]
        /\ sem' = [readers |-> sem.readers, writer |-> "nobody"]
        /\ call \in [Callers -> {"closed", "open", "read", "readtail", "reserve", "gap", "grow", "copy"}]
    BY MemCaller DEF Mem!Copy, Mem!WriteDone, Mem!Goto, Mem!IInv, Mem!CallsTyped, Mem!Nobody
  <1>2. \A d \in Callers : call'[d] \notin {"reserve", "gap", "grow", "copy"}
    BY <1>1, MemOnlyWriter
  <1>3. Mem!WriterHoldsSem'
    BY <1>1, <1>2, FilesAssumption DEF FilesAssumption, Mem!WriterHoldsSem
  <1>4. CASE disturbed' = TRUE /\ UNCHANGED <<buf, pos, contents>>
    <2>1. null' \in BOOLEAN /\ disturbed' \in BOOLEAN /\ disturbed'
      BY <1>1, <1>4 DEF Mem!IInv, Mem!TypeOK
    <2>2. Mem!TypeOK' /\ Mem!UsedFits'
      BY <1>1, <1>4, <2>1 DEF Mem!IInv, Mem!TypeOK, Mem!UsedFits, Mem!Nobody
    <2>3. Mem!CallsTyped'
      BY <1>1, <1>4, <2>1 DEF Mem!IInv, Mem!CallsTyped
    <2>4. Mem!Holds'
      BY <2>1 DEF Mem!Holds
    <2> QED
      BY <1>3, <2>2, <2>3, <2>4 DEF Mem!IInv
  <1>5. CASE /\ buf' = [i \in 1 .. Len(buf) |-> IF i > pos[c] /\ i <= new THEN Mem!Mark(c) ELSE buf[i]]
             /\ pos' = [pos EXCEPT ![c] = new]
             /\ contents' = Mem!Written(c) /\ UNCHANGED disturbed
    <2>1. /\ new <= filled /\ used <= filled /\ Len(buf) = filled /\ filled \in Nat /\ used \in Nat
          /\ pos[c] \in Nat /\ Len(contents) \in Nat /\ new \in Nat /\ new <= MaxEnd
          /\ \A i \in 1 .. filled : buf[i] \in Mem!Byte
          /\ \A i \in 1 .. Len(contents) : contents[i] \in Mem!Byte
      BY <1>1, MemFacts, MemOnlyWriter
    <2>2. both \in Nat /\ both \in {Len(contents), new} /\ both >= Len(contents) /\ both >= new
      BY <2>1, MaxOfTwo
    <2>3. Mem!Mark(c) \in Mem!Byte /\ 0 \in Mem!Byte
      BY DEF Mem!Mark, Mem!Byte
    <2>4. contents' = [i \in 1 .. both |-> IF i > pos[c] /\ i <= new THEN Mem!Mark(c)
                                          ELSE IF i <= Len(contents) THEN contents[i] ELSE 0]
      BY <1>5 DEF Mem!Written
    <2> HIDE DEF new, both
    <2>5. buf' \in [1 .. filled -> Mem!Byte]
      BY <1>5, <2>1, <2>3
    <2>6. contents' \in [1 .. both -> Mem!Byte]
      BY <2>1, <2>2, <2>3, <2>4
    <2>7. /\ buf' \in Seq(Mem!Byte) /\ Len(buf') = filled
          /\ contents' \in Seq(Mem!Byte) /\ Len(contents') = both
      BY <2>1, <2>2, <2>5, <2>6, ArrayIsSeq
    <2>8. null' \in BOOLEAN /\ disturbed' \in BOOLEAN /\ (null' => disturbed')
      BY <1>1, <1>5 DEF Mem!IInv, Mem!TypeOK, Mem!CallsTyped
    <2>9. pos' \in [Callers -> 0 .. MaxEnd]
      BY <1>5, <2>1 DEF Mem!IInv, Mem!TypeOK
    <2>10. Mem!TypeOK' /\ Mem!UsedFits'
      BY <1>1, <2>7, <2>8, <2>9 DEF Mem!IInv, Mem!TypeOK, Mem!UsedFits, Mem!Nobody
    <2>11. Mem!CallsTyped'
      BY <1>1, <2>7, <2>8 DEF Mem!IInv, Mem!CallsTyped
    <2>12. Mem!Holds'
      <3>1. ASSUME ~disturbed'
            PROVE  /\ used = both
                   /\ \A i \in 1 .. Len(contents) : buf[i] = contents[i]
                   /\ \A i \in Len(contents) + 1 .. pos[c] : buf[i] = 0
        BY <1>1, <1>5, <3>1 DEF Mem!IInv, Mem!Holds, both, new
      <3>2. ASSUME ~disturbed', NEW i \in 1 .. both
            PROVE  buf'[i] = contents'[i]
        <4>1. /\ i \in 1 .. filled
              /\ buf'[i] = IF i > pos[c] /\ i <= new THEN Mem!Mark(c) ELSE buf[i]
              /\ contents'[i] = IF i > pos[c] /\ i <= new THEN Mem!Mark(c)
                               ELSE IF i <= Len(contents) THEN contents[i] ELSE 0
          BY <1>5, <2>1, <2>2, <2>4, <3>1, <3>2
        <4>2. i > Len(contents) /\ ~(i > pos[c] /\ i <= new) => i \in Len(contents) + 1 .. pos[c]
          BY <2>1, <2>2
        <4>3. i <= Len(contents) => i \in 1 .. Len(contents)
          BY <2>1
        <4> QED
          BY <2>1, <3>1, <3>2, <4>1, <4>2, <4>3
      <3> QED
        BY <1>1, <1>2, <2>2, <2>7, <3>1, <3>2 DEF Mem!Holds
    <2> QED
      BY <1>3, <2>10, <2>11, <2>12 DEF Mem!IInv
  <1> QED
    BY <1>4, <1>5 DEF Mem!Copy

LEMMA MemStep ==
  ASSUME Mem!IInv, [Mem!Next]_memfile
  PROVE  Mem!IInv'
  <1>1. CASE UNCHANGED memfile
    BY <1>1 DEF memfile, Mem!IInv, Mem!TypeOK, Mem!CallsTyped, Mem!UsedFits, Mem!WriterHoldsSem,
                Mem!Holds, Mem!NewUsed
  <1>2. ASSUME NEW c \in Callers, Mem!File(c)
        PROVE  Mem!IInv'
    BY <1>2, MemOpenSeekRelease, MemRead, MemDownWrite, MemReserve, MemGap, MemGrow, MemCopy
       DEF Mem!File
  <1> QED
    BY <1>1, <1>2, MemReload DEF Mem!Next

LEMMA MemSafe == Mem!IInv => Mem!UsedFits /\ Mem!HoldsContents
  <1> SUFFICES ASSUME Mem!IInv, ~disturbed, sem.writer = Mem!Nobody
               PROVE  SubSeq(buf, 1, used) = contents
    BY DEF Mem!IInv, Mem!HoldsContents
  <1>1. /\ used = Len(contents) /\ used \in Nat
        /\ contents \in Seq(Mem!Byte) /\ buf \in Seq(Mem!Byte) /\ used <= Len(buf)
        /\ \A i \in 1 .. used : buf[i] = contents[i]
    BY MemFacts DEF Mem!IInv, Mem!Holds, Mem!TypeOK
  <1>2. /\ SubSeq(buf, 1, used) \in Seq(Mem!Byte) /\ Len(SubSeq(buf, 1, used)) = used
        /\ \A i \in 1 .. used : SubSeq(buf, 1, used)[i] = buf[i]
    BY <1>1
  <1> QED
    BY <1>1, <1>2, SeqEqual

-----------------------------------------------------------------------------
(* mmap: the lines of the program, then the references to the page.        *)

Lines == {Map!Main[i] : i \in 1 .. 22}

LEMMA MapMain == Map!Main \in Seq(Lines) /\ Len(Map!Main) = 22
  <1>1. Map!Main = [i \in 1 .. 22 |-> Map!Main[i]] /\ Len(Map!Main) = 22
    BY DEF Map!Main
  <1>2. \A i \in 1 .. 22 : Map!Main[i] \in Lines
    BY DEF Lines
  <1>3. Map!Main \in [1 .. 22 -> Lines]
    BY ONLY <1>1, <1>2
  <1>4. Map!Main \in Seq(Lines)
    BY ONLY <1>3, SeqDef
  <1> QED
    BY <1>1, <1>4

LEMMA MapText ==
  /\ Map!Main[1][1] = "open"
  /\ \A i \in {2, 3} : Map!Main[i][1] = "mmap"
  /\ \A i \in {4, 6, 9, 16, 18} : Map!Main[i][1] = "load"
  /\ \A i \in {5, 7, 10, 14, 17, 19} : Map!Main[i][1] = "assert"
  /\ Map!Main[8][1] = "store"
  /\ \A i \in {11, 12} : Map!Main[i][1] = "pagemap"
  /\ Map!Main[13][1] = "read" /\ Map!Main[15][1] = "write"
  /\ \A i \in {20, 21} : Map!Main[i][1] = "munmap"
  /\ Map!Main[22][1] = "close"
  /\ \A i \in {2, 4, 8, 11, 16, 20} : Map!Main[i][2] = "address1"
  /\ \A i \in {3, 6, 9, 12, 18, 21} : Map!Main[i][2] = "address2"
  /\ \A i \in {5, 7} : Map!Main[i][2] = "asdf"
  /\ \A i \in {10, 14} : Map!Main[i][2] = "qwer"
  /\ \A i \in {17, 19} : Map!Main[i][2] = "zxcv"
  BY DEF Map!Main

(* The lines of the program with an operation, and their operands.         *)
Ops(o) ==
  CASE o = "open" -> {1} [] o = "mmap" -> {2, 3} [] o = "load" -> {4, 6, 9, 16, 18}
    [] o = "assert" -> {5, 7, 10, 14, 17, 19} [] o = "store" -> {8} [] o = "pagemap" -> {11, 12}
    [] o = "read" -> {13} [] o = "write" -> {15} [] o = "munmap" -> {20, 21} [] OTHER -> {22}

LEMMA MapLine ==
  ASSUME NEW k \in 1 .. 23, Map!AtLine(k)
  PROVE  /\ lines = <<>> <=> k = 23
         /\ k < 23 => /\ Head(lines) = Map!Main[k]
                      /\ Tail(lines) = SubSeq(Map!Main, k + 1, Len(Map!Main))
  <1>1. lines = SubSeq(Map!Main, k, 22) /\ Len(Map!Main) = 22
    BY MapMain DEF Map!AtLine
  <1>2. CASE k = 23
    <2>1. lines = <<>>
      BY <1>1, <1>2, SubSeqEmpty
    <2> QED
      BY <1>2, <2>1
  <1>3. CASE k < 23
    <2>1. k \in 1 .. Len(Map!Main) /\ 22 \in k .. Len(Map!Main)
      BY <1>1, <1>3
    <2>2. Head(lines) = Map!Main[k] /\ Tail(lines) = SubSeq(Map!Main, k + 1, 22)
      BY <1>1, <2>1, MapMain, HeadTailOfSubSeq
    <2>3. lines # <<>>
      <3>1. k \in Int /\ k <= 22 /\ \A i \in k .. 22 : Map!Main[i] \in Lines
        BY <1>3 DEF Lines
      <3>2. Len(lines) = 22 - k + 1
        BY <1>1, <3>1, SubSeqProperties
      <3>3. Len(lines) # 0
        BY <3>1, <3>2
      <3> QED
        BY ONLY <3>3
    <2> QED
      BY <1>1, <1>3, <2>2, <2>3
  <1> QED
    BY <1>2, <1>3

LEMMA MapAt ==
  ASSUME NEW k \in 1 .. 23, Map!AtLine(k),
         NEW o \in {"open", "mmap", "load", "assert", "store", "pagemap", "read", "write", "munmap", "close"},
         Map!At(o)
  PROVE  /\ k < 23 /\ k \in Ops(o)
         /\ Tail(lines) = SubSeq(Map!Main, k + 1, Len(Map!Main))
         /\ k \in {2, 4, 8, 11, 16, 20} => Map!Arg = "address1"
         /\ k \in {3, 6, 9, 12, 18, 21} => Map!Arg = "address2"
         /\ k \in {5, 7} => Map!Arg = "asdf"
         /\ k \in {10, 14} => Map!Arg = "qwer"
         /\ k \in {17, 19} => Map!Arg = "zxcv"
  <1>1. lines # <<>> /\ Head(lines)[1] = o
    BY DEF Map!At
  <1>2. k \in 1 .. 22 /\ k < 23
    BY <1>1, MapLine
  <1>3. /\ Head(lines) = Map!Main[k]
        /\ Tail(lines) = SubSeq(Map!Main, k + 1, Len(Map!Main))
    BY <1>2, MapLine
  <1>4. Map!Main[k][1] = o /\ Map!Arg = Map!Main[k][2]
    BY <1>1, <1>3 DEF Map!Arg
  <1>5. k \in {1, 2, 3, 4, 5, 6, 7, 8, 9, 10, 11, 12, 13, 14, 15, 16, 17, 18, 19, 20, 21, 22}
    BY ONLY <1>2
  <1>6. k \in Ops(o)
    BY ONLY <1>4, <1>5, MapText DEF Ops
  <1>7. /\ k \in {2, 4, 8, 11, 16, 20} => Map!Main[k][2] = "address1"
        /\ k \in {3, 6, 9, 12, 18, 21} => Map!Main[k][2] = "address2"
        /\ k \in {5, 7} => Map!Main[k][2] = "asdf"
        /\ k \in {10, 14} => Map!Main[k][2] = "qwer"
        /\ k \in {17, 19} => Map!Main[k][2] = "zxcv"
    BY ONLY <1>5, MapText
  <1> QED
    BY <1>2, <1>3, <1>4, <1>6, <1>7

-----------------------------------------------------------------------------
(* The count of the references.                                            *)

LEMMA MapCardinality == \A S : Map!Cardinality(S) = Cardinality(S)
  BY DEF Map!Cardinality, Cardinality

LEMMA MapFinite ==
  ASSUME Map!TypeOK
  PROVE  IsFiniteSet(present) /\ Cardinality(present) \in Nat
  <1>1. IsFiniteSet({"address1"} \cup {"address2"})
    BY FS_Singleton, FS_AddElement
  <1>2. present \in SUBSET ({"address1"} \cup {"address2"})
    BY DEF Map!TypeOK, Map!Maps
  <1> QED
    BY <1>1, <1>2, FS_Subset, FS_CardinalityType

LEMMA MapInit == Map!Init => Map!IInv
  <1> SUFFICES ASSUME Map!Init PROVE Map!IInv
    OBVIOUS
  <1>1. fd \in BOOLEAN /\ opened \in BOOLEAN /\ ~fd /\ ~opened
    BY DEF Map!Init
  <1>2. mapped = {} /\ present = {} /\ refs = 0 /\ lines = <<>>
    BY DEF Map!Init
  <1>3. Map!TypeOK /\ Map!UsersKeepFile
    BY <1>1, <1>2 DEF Map!TypeOK, Map!UsersKeepFile
  <1>4. Map!RefsCount
    BY <1>1, <1>2, FS_EmptySet, MapCardinality DEF Map!RefsCount
  <1>5. SubSeq(Map!Main, 23, Len(Map!Main)) = <<>>
    BY MapMain, SubSeqEmpty
  <1>6. Map!AtLine(23)
    BY <1>1, <1>2, <1>5 DEF Map!AtLine
  <1> QED
    BY <1>3, <1>4, <1>6 DEF Map!IInv

(* References, mappings and the file; the lines are looked at below.       *)
Counted == Map!TypeOK /\ Map!RefsCount /\ Map!UsersKeepFile

LEMMA MapUnmap ==
  ASSUME Map!IInv, NEW m, Map!Unmap(m)
  PROVE  Counted'
  <1>1. /\ UNCHANGED <<fd, opened>> /\ mapped' = mapped \ {m} /\ present' = present \ {m}
        /\ refs' = refs - Cardinality(present \cap {m})
    BY MapCardinality DEF Map!Unmap
  <1>2. fd' \in BOOLEAN /\ opened' \in BOOLEAN
    BY <1>1 DEF Map!IInv, Map!TypeOK
  <1>3. Map!TypeOK' /\ Map!UsersKeepFile'
    BY <1>1, <1>2 DEF Map!IInv, Map!TypeOK, Map!UsersKeepFile
  <1>4. IsFiniteSet(present) /\ Cardinality(present) \in Nat
    BY MapFinite DEF Map!IInv
  <1>5. CASE m \in present
    <2>1. present \cap {m} = {m} /\ Cardinality({m}) = 1
      BY <1>5, FS_Singleton
    <2>2. Cardinality(present') = Cardinality(present) - 1
      BY <1>1, <1>4, <1>5, FS_RemoveElement
    <2>3. Map!RefsCount'
      BY <1>1, <1>4, <2>1, <2>2, MapCardinality DEF Map!IInv, Map!RefsCount
    <2> QED
      BY <1>3, <2>3 DEF Counted
  <1>6. CASE m \notin present
    <2>1. present \cap {m} = {} /\ Cardinality({}) = 0
      BY <1>6, FS_EmptySet
    <2>2. Cardinality(present') = Cardinality(present) /\ refs' = refs - 0
      BY <1>1, <1>6, <2>1
    <2>3. Map!RefsCount'
      BY <1>1, <1>4, <2>2, MapCardinality DEF Map!IInv, Map!RefsCount
    <2> QED
      BY <1>3, <2>3 DEF Counted
  <1> QED
    BY <1>5, <1>6

(* Steps that leave the references to the page as they are.                *)
LEMMA MapKeeps ==
  ASSUME Map!IInv, UNCHANGED <<opened, refs, present>>, fd' \in BOOLEAN,
         fd' => opened, present' \subseteq mapped', mapped' \subseteq Map!Maps,
         mapped' # {} => opened
  PROVE  Counted'
  <1>1. opened' \in BOOLEAN
    BY DEF Map!IInv, Map!TypeOK
  <1> QED
    BY <1>1 DEF Counted, Map!IInv, Map!TypeOK, Map!RefsCount, Map!UsersKeepFile

LEMMA MapStart ==
  ASSUME Map!IInv, Map!Start
  PROVE  Map!IInv'
  <1>1. /\ lines' = Map!Main /\ off' = 0 /\ UNCHANGED <<fd, opened, page, refs, mapped, present>>
        /\ ~fd /\ mapped = {} /\ ~opened
    BY DEF Map!Start
  <1>2. Counted'
    <2>1. fd' \in BOOLEAN /\ (fd' => opened)
      BY <1>1 DEF Map!IInv, Map!TypeOK
    <2> QED
      BY <1>1, <2>1, MapKeeps DEF Map!IInv, Map!TypeOK
  <1>3. lines' = SubSeq(Map!Main, 1, Len(Map!Main))
    BY <1>1, MapMain, SubSeqFull
  <1>4. Map!AtLine(1)'
    BY <1>1, <1>3 DEF Map!AtLine
  <1> QED
    BY <1>2, <1>4 DEF Map!IInv, Counted

LEMMA MapOpen ==
  ASSUME Map!IInv, Map!Open
  PROVE  Map!IInv'
  <1>1. PICK k \in 1 .. 23 : Map!AtLine(k)
    BY DEF Map!IInv
  <1>2. k = 1 /\ Tail(lines) = SubSeq(Map!Main, 2, Len(Map!Main))
    BY <1>1, MapAt DEF Map!Open, Ops
  <1>3. /\ lines' = Tail(lines) /\ fd' = TRUE /\ opened' = TRUE /\ page' = "asdf" /\ refs' = 1
        /\ UNCHANGED <<mapped, present, off, seen>> /\ mapped = {} /\ off = 0
    BY <1>1, <1>2 DEF Map!Open, Map!Done, Map!AtLine
  <1>4. fd' \in BOOLEAN /\ opened' \in BOOLEAN
    BY <1>3
  <1>5. present' = {} /\ mapped' = {}
    BY <1>3 DEF Map!IInv, Map!TypeOK
  <1>6. Map!TypeOK' /\ Map!UsersKeepFile'
    BY <1>3, <1>4, <1>5 DEF Map!TypeOK, Map!UsersKeepFile
  <1>7. Map!RefsCount'
    BY <1>3, <1>5, FS_EmptySet, MapCardinality DEF Map!RefsCount
  <1>8. Map!AtLine(2)'
    BY <1>2, <1>3, <1>5 DEF Map!AtLine
  <1> QED
    BY <1>6, <1>7, <1>8 DEF Map!IInv

LEMMA MapFault ==
  ASSUME Map!IInv, Map!VmFault
  PROVE  Map!IInv'
  <1>1. PICK k \in 1 .. 23 : Map!AtLine(k)
    BY DEF Map!IInv
  <1>2. k \in {4, 6, 8, 9, 16, 18} /\ Map!Arg \in {"address1", "address2"}
    <2>1. CASE Map!At("load")
      BY <1>1, <2>1, MapAt DEF Ops
    <2>2. CASE Map!At("store")
      BY <1>1, <2>2, MapAt DEF Ops
    <2> QED
      BY <2>1, <2>2 DEF Map!VmFault
  <1>3. /\ present' = present \cup {Map!Arg} /\ Map!Arg \notin present /\ refs' = refs + 1
        /\ UNCHANGED <<lines, fd, opened, page, mapped, off, seen>>
    BY DEF Map!VmFault, Map!GetPage
  <1>4. mapped = Map!Maps
    BY <1>1, <1>2 DEF Map!AtLine
  <1>5. fd' \in BOOLEAN /\ opened' \in BOOLEAN
    BY <1>3 DEF Map!IInv, Map!TypeOK
  <1>6. Map!TypeOK' /\ Map!UsersKeepFile'
    BY <1>2, <1>3, <1>4, <1>5 DEF Map!IInv, Map!TypeOK, Map!UsersKeepFile, Map!Maps
  <1>7. Map!RefsCount'
    <2>1. IsFiniteSet(present) /\ Cardinality(present) \in Nat
      BY MapFinite DEF Map!IInv
    <2>2. Cardinality(present') = Cardinality(present) + 1
      BY <1>3, <2>1, FS_AddElement
    <2> QED
      BY <1>3, <2>1, <2>2, MapCardinality DEF Map!IInv, Map!RefsCount
  <1>8. Map!AtLine(k)'
    BY <1>1, <1>3 DEF Map!AtLine
  <1> QED
    BY <1>1, <1>6, <1>7, <1>8 DEF Map!IInv

(* The lines of the program that are not about the file's life.            *)
LEMMA MapAccess ==
  ASSUME Map!IInv,
         \/ Map!Mmap \/ Map!Load \/ Map!Store \/ Map!Assert \/ Map!Entry
         \/ Map!Read \/ Map!Write
  PROVE  Map!IInv'
  <1>1. PICK k \in 1 .. 23 : Map!AtLine(k)
    BY DEF Map!IInv
  <1>2. /\ fd = (k \in 2 .. 22) /\ (fd => opened) /\ fd \in BOOLEAN
        /\ present \subseteq mapped /\ mapped \subseteq Map!Maps
    BY <1>1 DEF Map!AtLine, Map!IInv, Map!UsersKeepFile, Map!TypeOK
  <1>3. /\ lines' = Tail(lines) /\ UNCHANGED <<fd, opened, refs, present>>
        /\ mapped' = IF Map!Mmap THEN mapped \cup {Map!Arg} ELSE mapped
    BY DEF Map!Mmap, Map!Load, Map!Store, Map!Assert, Map!Entry, Map!Read, Map!Write, Map!Done
  <1>4. k \in 2 .. 22 /\ k + 1 \in 1 .. 23 /\ Map!AtLine(k + 1)'
    <2>1. CASE Map!Mmap
      <3>1. /\ k \in {2, 3} /\ (k = 2 => Map!Arg = "address1") /\ (k = 3 => Map!Arg = "address2")
            /\ lines' = SubSeq(Map!Main, k + 1, Len(Map!Main))
        BY <1>1, <1>3, <2>1, MapAt DEF Map!Mmap, Ops
      <3>2. mapped' = mapped \cup {Map!Arg} /\ UNCHANGED <<page, off, seen>>
        BY <2>1 DEF Map!Mmap
      <3>3. /\ k = 2 => mapped' = {"address1"} /\ page' = "asdf" /\ off' = 0
            /\ k = 3 => mapped' = Map!Maps /\ page' = "asdf" /\ off' = 0
        BY <1>1, <3>1, <3>2 DEF Map!AtLine, Map!Maps
      <3>4. fd' /\ k + 1 \in 2 .. 22
        <4>1. k \in 2 .. 22 /\ k + 1 \in 2 .. 22
          BY <3>1
        <4>2. fd
          BY <1>2, <4>1
        <4> QED
          BY <1>3, <4>1, <4>2
      <3>5. CASE k = 2
        BY ONLY <3>1, <3>3, <3>4, <3>5 DEF Map!AtLine
      <3>6. CASE k = 3
        BY ONLY <3>1, <3>3, <3>4, <3>6 DEF Map!AtLine
      <3> QED
        BY <3>1, <3>5, <3>6
    <2>2. CASE Map!Load
      <3>1. k \in {4, 6, 9, 16, 18} /\ lines' = SubSeq(Map!Main, k + 1, Len(Map!Main))
        BY <1>1, <1>3, <2>2, MapAt DEF Map!Load, Ops
      <3>2. seen' = page /\ UNCHANGED <<page, off, mapped>>
        BY <2>2 DEF Map!Load
      <3> QED
        BY <1>1, <1>2, <1>3, <3>1, <3>2 DEF Map!AtLine
    <2>3. CASE Map!Store
      <3>1. k = 8 /\ lines' = SubSeq(Map!Main, k + 1, Len(Map!Main))
        BY <1>1, <1>3, <2>3, MapAt DEF Map!Store, Ops
      <3>2. page' = "qwer" /\ UNCHANGED <<seen, off, mapped>>
        BY <2>3 DEF Map!Store
      <3> QED
        BY <1>1, <1>2, <1>3, <3>1, <3>2 DEF Map!AtLine
    <2>4. CASE Map!Assert \/ Map!Entry
      <3>1. k \in {5, 7, 10, 11, 12, 14, 17, 19} /\ lines' = SubSeq(Map!Main, k + 1, Len(Map!Main))
        <4>1. CASE Map!Assert
          BY <1>1, <1>3, <4>1, MapAt DEF Map!Assert, Ops
        <4>2. CASE Map!Entry
          BY <1>1, <1>3, <4>2, MapAt DEF Map!Entry, Ops
        <4> QED
          BY <2>4, <4>1, <4>2
      <3>2. UNCHANGED <<page, seen, off, mapped>>
        BY <2>4 DEF Map!Assert, Map!Entry
      <3>3. CASE k \in {5, 7}
        BY <1>1, <1>2, <1>3, <3>1, <3>2, <3>3 DEF Map!AtLine
      <3>4. CASE k \in {10, 11, 12, 14}
        BY <1>1, <1>2, <1>3, <3>1, <3>2, <3>4 DEF Map!AtLine
      <3>5. CASE k \in {17, 19}
        BY <1>1, <1>2, <1>3, <3>1, <3>2, <3>5 DEF Map!AtLine
      <3> QED
        BY <3>1, <3>3, <3>4, <3>5
    <2>5. CASE Map!Read
      <3>1. k = 13 /\ lines' = SubSeq(Map!Main, k + 1, Len(Map!Main))
        BY <1>1, <1>3, <2>5, MapAt DEF Map!Read, Ops
      <3>2. off = 0
        BY <1>1, <3>1 DEF Map!AtLine
      <3>3. seen' = page /\ UNCHANGED <<page, mapped>>
        BY <2>5, <3>2 DEF Map!Read
      <3> QED
        BY <1>1, <1>2, <1>3, <3>1, <3>3 DEF Map!AtLine
    <2>6. CASE Map!Write
      <3>1. k = 15 /\ lines' = SubSeq(Map!Main, k + 1, Len(Map!Main))
        BY <1>1, <1>3, <2>6, MapAt DEF Map!Write, Ops
      <3>2. page' = "zxcv" /\ UNCHANGED <<seen, off, mapped>>
        BY <2>6 DEF Map!Write, Map!AtStart
      <3> QED
        BY <1>1, <1>2, <1>3, <3>1, <3>2 DEF Map!AtLine
    <2> QED
      BY <2>1, <2>2, <2>3, <2>4, <2>5, <2>6
  <1>5. mapped' \subseteq Map!Maps /\ present' \subseteq mapped' /\ opened
    <2>1. CASE Map!Mmap
      <3>1. Map!Arg \in Map!Maps
        BY <1>1, <2>1, MapAt DEF Map!Mmap, Ops, Map!Maps
      <3> QED
        BY <1>2, <1>3, <1>4, <3>1
    <2> QED
      BY <1>2, <1>3, <1>4, <2>1
  <1>6. Counted'
    BY <1>2, <1>3, <1>5, MapKeeps
  <1> QED
    BY <1>4, <1>6 DEF Map!IInv, Counted

LEMMA MapPread ==
  ASSUME Map!IInv, Map!Pread
  PROVE  Map!IInv'
  <1>1. UNCHANGED <<lines, fd, opened, page, refs, mapped, present, off, seen>>
    BY DEF Map!Pread
  <1>2. fd' \in BOOLEAN /\ (fd' => opened) /\ (mapped' # {} => opened)
    BY <1>1 DEF Map!IInv, Map!TypeOK, Map!UsersKeepFile
  <1>3. Counted'
    BY <1>1, <1>2, MapKeeps DEF Map!IInv, Map!TypeOK
  <1>4. PICK k \in 1 .. 23 : Map!AtLine(k)
    BY DEF Map!IInv
  <1>5. Map!AtLine(k)'
    BY ONLY <1>1, <1>4 DEF Map!AtLine
  <1> QED
    BY ONLY <1>3, <1>4, <1>5 DEF Map!IInv, Counted

LEMMA MapMunmapClose ==
  ASSUME Map!IInv, Map!Munmap \/ Map!Close
  PROVE  Map!IInv'
  <1>1. PICK k \in 1 .. 23 : Map!AtLine(k)
    BY DEF Map!IInv
  <1>2. CASE Map!Munmap
    <2>1. /\ k \in {20, 21} /\ (k = 20 => Map!Arg = "address1") /\ (k = 21 => Map!Arg = "address2")
          /\ lines' = SubSeq(Map!Main, k + 1, Len(Map!Main))
      BY <1>1, <1>2, MapAt DEF Map!Munmap, Map!Done, Ops
    <2>2. mapped' = mapped \ {Map!Arg} /\ UNCHANGED <<fd, page, off, seen>>
      BY <1>2 DEF Map!Munmap, Map!Unmap
    <2>3. Map!AtLine(k + 1)'
      BY <1>1, <2>1, <2>2 DEF Map!AtLine, Map!Maps
    <2>4. Counted'
      BY <1>2, MapUnmap DEF Map!Munmap
    <2> QED
      BY <2>1, <2>3, <2>4 DEF Map!IInv, Counted
  <1>3. CASE Map!Close
    <2>1. k = 22 /\ lines' = SubSeq(Map!Main, 23, Len(Map!Main))
      <3>1. Map!At("close") /\ lines' = Tail(lines)
        BY <1>3 DEF Map!Close, Map!Done
      <3>2. k \in Ops("close") /\ Tail(lines) = SubSeq(Map!Main, k + 1, Len(Map!Main))
        BY ONLY <1>1, <3>1, MapAt
      <3>3. Ops("close") = {22}
        BY DEF Ops
      <3> QED
        BY ONLY <3>1, <3>2, <3>3
    <2>2. fd' = FALSE /\ UNCHANGED <<opened, page, refs, mapped, present, off, seen>>
      BY <1>3 DEF Map!Close
    <2>3. Map!AtLine(23)'
      BY <2>1, <2>2 DEF Map!AtLine
    <2>4. Counted'
      BY <2>2, MapKeeps DEF Map!IInv, Map!TypeOK, Map!UsersKeepFile
    <2> QED
      BY <2>3, <2>4 DEF Map!IInv, Counted
  <1> QED
    BY <1>2, <1>3

(* The end of the program, and what the kernel does after it.              *)
LEMMA MapEnd ==
  ASSUME Map!IInv, Map!Kill \/ Map!Exit \/ Map!Release
  PROVE  Map!IInv'
  <1>1. PICK k \in 1 .. 23 : Map!AtLine(k)
    BY DEF Map!IInv
  <1>2. SubSeq(Map!Main, 23, Len(Map!Main)) = <<>>
    BY MapMain, SubSeqEmpty
  <1>3. CASE Map!Kill
    <2>1. /\ lines' = <<>> /\ fd' = FALSE
          /\ UNCHANGED <<opened, page, refs, mapped, present, off, seen>>
      BY <1>3 DEF Map!Kill
    <2>2. ~fd' /\ lines' = SubSeq(Map!Main, 23, Len(Map!Main))
      BY ONLY <1>2, <2>1
    <2>3. Map!AtLine(23)'
      BY <1>2, <2>1, <2>2 DEF Map!AtLine
    <2>4. Counted'
      BY <2>1, MapKeeps DEF Map!IInv, Map!TypeOK, Map!UsersKeepFile
    <2> QED
      BY <2>3, <2>4 DEF Map!IInv, Counted
  <1>4. CASE Map!Exit
    <2>1. k = 23
      BY <1>1, <1>4, MapLine DEF Map!Exit
    <2>2. Counted' /\ UNCHANGED <<lines, fd>>
      BY <1>4, MapUnmap DEF Map!Exit, Map!Unmap
    <2>3. Map!AtLine(23)'
      BY <1>1, <2>1, <2>2 DEF Map!AtLine
    <2> QED
      BY <2>2, <2>3 DEF Map!IInv, Counted
  <1>5. CASE Map!Release
    <2>1. /\ opened /\ ~fd /\ mapped = {} /\ opened' = FALSE /\ refs' = refs - 1
          /\ UNCHANGED <<lines, fd, mapped, present, off, seen>>
      BY <1>5 DEF Map!Release
    <2>2. k = 23
      BY <1>1, <2>1 DEF Map!AtLine
    <2>3. Map!AtLine(23)'
      BY <1>1, <2>1, <2>2 DEF Map!AtLine
    <2>4. fd' \in BOOLEAN /\ opened' \in BOOLEAN
      BY <2>1 DEF Map!IInv, Map!TypeOK
    <2>5. Map!TypeOK' /\ Map!UsersKeepFile'
      BY <2>1, <2>4 DEF Map!IInv, Map!TypeOK, Map!UsersKeepFile
    <2>6. Cardinality(present) \in Nat
      BY MapFinite DEF Map!IInv
    <2>7. Map!RefsCount'
      BY <2>1, <2>6, MapCardinality DEF Map!IInv, Map!RefsCount
    <2> QED
      BY <2>3, <2>5, <2>7 DEF Map!IInv
  <1> QED
    BY <1>3, <1>4, <1>5

LEMMA MapStep ==
  ASSUME Map!IInv, [Map!Next]_mmap
  PROVE  Map!IInv'
  <1>1. CASE UNCHANGED mmap
    <2>1. UNCHANGED <<lines, fd, opened, page, refs, mapped, present, off, seen>>
      BY <1>1 DEF mmap
    <2>2. PICK k \in 1 .. 23 : Map!AtLine(k)
      BY DEF Map!IInv
    <2>3. Map!AtLine(k)'
      BY <2>1, <2>2 DEF Map!AtLine
    <2>4. fd' \in BOOLEAN /\ opened' \in BOOLEAN
      BY <2>1 DEF Map!IInv, Map!TypeOK
    <2>5. Map!TypeOK' /\ Map!RefsCount' /\ Map!UsersKeepFile'
      BY <2>1, <2>4 DEF Map!IInv, Map!TypeOK, Map!RefsCount, Map!UsersKeepFile
    <2> QED
      BY <2>3, <2>5 DEF Map!IInv
  <1> QED
    BY <1>1, MapStart, MapOpen, MapFault, MapAccess, MapPread, MapMunmapClose, MapEnd
       DEF Map!Next

LEMMA MapSafe == Map!IInv => Map!PageLives /\ Map!OnePage
  <1> SUFFICES ASSUME Map!IInv PROVE Map!PageLives /\ Map!OnePage
    OBVIOUS
  <1>1. Map!OnePage
    <2>1. PICK k \in 1 .. 23 : Map!AtLine(k)
      BY DEF Map!IInv
    <2>2. ASSUME Map!At("assert") PROVE seen = Map!Arg
      <3>1. k \in {5, 7, 10, 14, 17, 19}
        BY <2>1, <2>2, MapAt DEF Ops
      <3>2. /\ k \in {5, 7} => Map!Arg = "asdf" /\ seen = "asdf"
            /\ k \in {10, 14} => Map!Arg = "qwer" /\ seen = "qwer"
            /\ k \in {17, 19} => Map!Arg = "zxcv" /\ seen = "zxcv"
        BY <2>1, <2>2, MapAt DEF Map!AtLine
      <3> QED
        BY <3>1, <3>2
    <2> QED
      BY <2>2 DEF Map!OnePage
  <1>2. Map!PageLives
    <2>1. IsFiniteSet(present) /\ Cardinality(present) \in Nat
          /\ (Cardinality(present) = 0 <=> present = {})
      BY MapFinite, FS_EmptySet DEF Map!IInv
    <2> QED
      BY <2>1, MapCardinality DEF Map!IInv, Map!TypeOK, Map!RefsCount, Map!PageLives
  <1> QED
    BY <1>1, <1>2

-----------------------------------------------------------------------------
(* Loading and unloading scull, and the files in /proc.                    *)

LEMMA ModuleInit == Module!Init => Module!IInv
  <1> SUFFICES ASSUME Module!Init PROVE Module!IInv
    OBVIOUS
  <1>1. clones \in BOOLEAN /\ ~clones
    BY DEF Module!Init
  <1>2. /\ load = "none" /\ held = {} /\ items = 0 /\ freed = {}
        /\ lists = [d \in Module!Devs |-> 0] /\ lock = [d \in Module!Devs |-> "nobody"]
        /\ reader = [p \in Module!Procs |-> "closed"] /\ dev = [p \in Module!Procs |-> 0]
        /\ qs = [p \in Module!Procs |-> 0]
    BY DEF Module!Init, Module!Nobody
  <1>3. 0 \in Module!Devs
    BY FilesAssumption DEF FilesAssumption, Module!Devs
  <1>4. Module!TypeOK
    BY <1>1, <1>2, <1>3 DEF Module!TypeOK, Module!Nobody
  <1>5. Module!WhatIsHeld
    BY <1>1, <1>2 DEF Module!WhatIsHeld
  <1>6. Module!ListsAccounted
    <2>1. 1 .. items = {} /\ {lists[d] : d \in Module!Devs} \ {0} = {}
      BY <1>2
    <2> QED
      BY <1>2, <2>1 DEF Module!ListsAccounted
  <1>7. Module!UsersOfModule /\ Module!Walker
    BY <1>2 DEF Module!UsersOfModule, Module!Walker, Module!Procs
  <1> QED
    BY <1>4, <1>5, <1>6, <1>7 DEF Module!IInv

(* What is held, at each step of the way in and out.                       *)
LEMMA ModuleHeld ==
  ASSUME Module!IInv,
         \/ Module!Region \/ Module!Devices \/ Module!PipeInit \/ Module!AccessInit
         \/ Module!CreateProc \/ Module!Rmmod \/ Module!TrimAll \/ Module!RemoveProc
         \/ Module!PipeCleanup \/ Module!AccessCleanup
  PROVE  Module!WhatIsHeld' /\ clones' \in BOOLEAN
  <1> USE DEF Module!IInv, Module!TypeOK, Module!WhatIsHeld, Module!HeldBy, Module!Load, Module!Take,
              Module!Give, Module!Access, Module!AllPipes, Module!Adevs, Module!Procs
  <1>1. CASE Module!Region
    BY <1>1 DEF Module!Region
  <1>2. CASE Module!Devices
    BY <1>2 DEF Module!Devices
  <1>3. CASE Module!PipeInit
    BY <1>3 DEF Module!PipeInit, Module!NoPipes
  <1>4. CASE Module!AccessInit
    BY <1>4 DEF Module!AccessInit
  <1>5. CASE Module!CreateProc
    BY <1>5 DEF Module!CreateProc
  <1>6. CASE Module!Rmmod
    BY <1>6 DEF Module!Rmmod
  <1>7. CASE Module!TrimAll
    BY <1>7 DEF Module!TrimAll
  <1>8. CASE Module!RemoveProc
    BY <1>8 DEF Module!RemoveProc
  <1>9. CASE Module!PipeCleanup
    BY <1>9 DEF Module!PipeCleanup
  <1>10. CASE Module!AccessCleanup
    BY <1>10 DEF Module!AccessCleanup
  <1> QED
    BY <1>1, <1>2, <1>3, <1>4, <1>5, <1>6, <1>7, <1>8, <1>9, <1>10

(* The lists, the mutexes and the readers are left alone by all of the way *)
(* in and most of the way out.                                             *)
LEMMA ModuleLoads ==
  ASSUME Module!IInv,
         \/ Module!Region \/ Module!Devices \/ Module!PipeInit \/ Module!AccessInit
         \/ Module!CreateProc \/ Module!Rmmod \/ Module!PipeCleanup \/ Module!AccessCleanup
  PROVE  Module!IInv'
  <1>1. /\ UNCHANGED <<lists, items, freed, lock, reader, dev, qs>>
        /\ \/ load = "loaded" /\ load' = "trim" /\ \A d \in Module!Devs : lock[d] # "writer"
           \/ /\ load \in {"none", "memory", "pipe", "access", "proc", "p_cleanup", "access_cleanup"}
              /\ load' \in {"none", "memory", "pipe", "access", "proc", "loaded", "trim",
                            "access_cleanup"}
    BY DEF Module!Region, Module!Devices, Module!PipeInit, Module!AccessInit, Module!CreateProc,
           Module!Rmmod, Module!PipeCleanup, Module!AccessCleanup, Module!Load, Module!Others,
           Module!lists, Module!procs
  <1>2. Module!WhatIsHeld' /\ clones' \in BOOLEAN
    BY ModuleHeld
  <1>3. Module!TypeOK'
    BY <1>1, <1>2 DEF Module!IInv, Module!TypeOK
  <1>4. Module!ListsAccounted'
    BY <1>1 DEF Module!IInv, Module!ListsAccounted
  <1>5. Module!UsersOfModule'
    BY <1>1 DEF Module!IInv, Module!UsersOfModule
  <1>6. Module!Walker'
    BY <1>1 DEF Module!IInv, Module!UsersOfModule, Module!Walker, Module!Procs
  <1> QED
    BY <1>2, <1>3, <1>4, <1>5, <1>6 DEF Module!IInv

LEMMA ModuleUnloads ==
  ASSUME Module!IInv, Module!TrimAll \/ Module!RemoveProc
  PROVE  Module!IInv'
  <1>1. Module!WhatIsHeld' /\ clones' \in BOOLEAN
    BY ModuleHeld
  <1>2. CASE Module!TrimAll
    <2>1. /\ load = "trim" /\ load' = "unregister" /\ UNCHANGED <<items, lock, reader, dev, qs>>
          /\ freed' = freed \cup ({lists[d] : d \in Module!Devs} \ {0})
          /\ lists' = [d \in Module!Devs |-> 0]
      BY <1>2 DEF Module!TrimAll, Module!Load, Module!Trimmed, Module!procs
    <2>2. 1 .. items = freed' /\ items \in Nat
      BY <2>1 DEF Module!IInv, Module!ListsAccounted, Module!TypeOK
    <2>3. Module!TypeOK'
      BY <1>1, <2>1, <2>2 DEF Module!IInv, Module!TypeOK
    <2>4. Module!ListsAccounted'
      <3>1. {lists'[d] : d \in Module!Devs} \ {0} = {}
        BY <2>1
      <3>2. 0 \notin freed'
        BY <2>2
      <3> QED
        BY <2>1, <2>2, <3>1, <3>2 DEF Module!ListsAccounted
    <2>5. Module!UsersOfModule'
      BY <2>1 DEF Module!IInv, Module!UsersOfModule
    <2>6. Module!Walker'
      BY <2>1 DEF Module!IInv, Module!Walker
    <2> QED
      BY <1>1, <2>3, <2>4, <2>5, <2>6 DEF Module!IInv
  <1>3. CASE Module!RemoveProc
    <2>1. /\ load = "unregister" /\ load' = "p_cleanup"
          /\ UNCHANGED <<lists, items, freed, lock, dev, qs>>
          /\ reader' = [p \in Module!Procs |-> "closed"]
      BY <1>3 DEF Module!RemoveProc, Module!Load, Module!lists
    <2>2. Module!TypeOK'
      BY <1>1, <2>1 DEF Module!IInv, Module!TypeOK
    <2>3. Module!ListsAccounted'
      BY <2>1 DEF Module!IInv, Module!ListsAccounted
    <2>4. Module!UsersOfModule' /\ Module!Walker'
      BY <2>1 DEF Module!IInv, Module!UsersOfModule, Module!Walker, Module!Procs
    <2> QED
      BY <1>1, <2>2, <2>3, <2>4 DEF Module!IInv
  <1> QED
    BY <1>2, <1>3

(* Other processes, while the module is loaded.                            *)
LEMMA ModuleUses ==
  ASSUME Module!IInv,
         \/ Module!OpenPriv
         \/ \E d \in Module!Devs : Module!Writer(d) \/ Module!Write(d) \/ Module!Truncate(d)
  PROVE  Module!IInv'
  <1>1. CASE Module!OpenPriv
    <2>1. /\ load = "loaded" /\ clones' = TRUE
          /\ UNCHANGED <<load, held, lists, items, freed, lock, reader, dev, qs>>
      BY <1>1 DEF Module!OpenPriv, Module!lists, Module!procs
    <2>2. clones' \in BOOLEAN
      BY <2>1
    <2> QED
      BY <2>1, <2>2 DEF Module!IInv, Module!TypeOK, Module!WhatIsHeld, Module!ListsAccounted,
                        Module!UsersOfModule, Module!Walker
  <1>2. ASSUME NEW d \in Module!Devs, Module!Writer(d) PROVE Module!IInv'
    <2>1. /\ load = "loaded" /\ lock[d] = "nobody" /\ lock' = [lock EXCEPT ![d] = "writer"]
          /\ UNCHANGED <<load, held, clones, lists, items, freed, reader, dev, qs>>
      BY <1>2 DEF Module!Writer, Module!Lock, Module!Nobody, Module!mod, Module!lists, Module!procs
    <2>2. clones' \in BOOLEAN
      BY <2>1 DEF Module!IInv, Module!TypeOK
    <2>3. Module!TypeOK'
      BY <2>1, <2>2 DEF Module!IInv, Module!TypeOK
    <2>4. Module!WhatIsHeld' /\ Module!ListsAccounted' /\ Module!UsersOfModule'
      BY <2>1 DEF Module!IInv, Module!WhatIsHeld, Module!ListsAccounted, Module!UsersOfModule
    <2>5. Module!Walker'
      BY <2>1 DEF Module!IInv, Module!TypeOK, Module!Walker, Module!Procs
    <2> QED
      BY <2>3, <2>4, <2>5 DEF Module!IInv
  <1>3. ASSUME NEW d \in Module!Devs, Module!Write(d) PROVE Module!IInv'
    <2>1. /\ lock[d] = "writer" /\ lists[d] = 0 /\ lock' = [lock EXCEPT ![d] = "nobody"]
          /\ items' = items + 1 /\ lists' = [lists EXCEPT ![d] = items + 1]
          /\ UNCHANGED <<load, held, clones, freed, reader, dev, qs>>
      BY <1>3 DEF Module!Write, Module!Unlock, Module!Nobody, Module!mod, Module!procs
    <2>2. /\ clones' \in BOOLEAN /\ items \in Nat /\ lists \in [Module!Devs -> 0 .. items]
          /\ freed \subseteq 1 .. items
      BY <2>1 DEF Module!IInv, Module!TypeOK
    <2>3. /\ lists' \in [Module!Devs -> 0 .. items'] /\ items' \in Nat /\ freed' \subseteq 1 .. items'
          /\ lists'[d] = items + 1 /\ \A e \in Module!Devs : e # d => lists'[e] = lists[e]
      BY <2>1, <2>2
    <2>4. Module!TypeOK'
      BY <2>1, <2>2, <2>3 DEF Module!IInv, Module!TypeOK, Module!Nobody
    <2>5. load = "loaded"
      BY <2>1 DEF Module!IInv, Module!UsersOfModule
    <2>6. Module!WhatIsHeld'
      BY <2>1 DEF Module!IInv, Module!WhatIsHeld
    <2>7. Module!ListsAccounted'
      <3>1. 1 .. items' = 1 .. items \cup {items + 1}
        BY <2>1, <2>2
      <3>2. {lists'[e] : e \in Module!Devs} \ {0} = ({lists[e] : e \in Module!Devs} \ {0}) \cup {items + 1}
        BY <2>1, <2>2, <2>3
      <3>3. 1 .. items' = freed' \cup ({lists'[e] : e \in Module!Devs} \ {0})
        BY <2>1, <3>1, <3>2 DEF Module!IInv, Module!ListsAccounted
      <3>4. \A e \in Module!Devs : lists'[e] \notin freed'
        BY <2>1, <2>2, <2>3 DEF Module!IInv, Module!ListsAccounted
      <3>5. \A e, f \in Module!Devs : e # f /\ lists'[e] = lists'[f] => lists'[e] = 0
        BY <2>2, <2>3 DEF Module!IInv, Module!ListsAccounted
      <3> QED
        BY <2>1, <2>5, <3>3, <3>4, <3>5 DEF Module!ListsAccounted
    <2>8. Module!UsersOfModule' /\ Module!Walker'
      BY <2>1, <2>5 DEF Module!IInv, Module!TypeOK, Module!UsersOfModule, Module!Walker, Module!Procs
    <2> QED
      BY <2>4, <2>6, <2>7, <2>8 DEF Module!IInv
  <1>4. ASSUME NEW d \in Module!Devs, Module!Truncate(d) PROVE Module!IInv'
    <2>1. /\ lock[d] = "writer" /\ lock' = [lock EXCEPT ![d] = "nobody"]
          /\ freed' = freed \cup ({lists[d]} \ {0}) /\ lists' = [lists EXCEPT ![d] = 0]
          /\ UNCHANGED <<load, held, clones, items, reader, dev, qs>>
      BY <1>4 DEF Module!Truncate, Module!Unlock, Module!Nobody, Module!mod, Module!procs
    <2>2. /\ clones' \in BOOLEAN /\ items \in Nat /\ lists \in [Module!Devs -> 0 .. items]
          /\ freed \subseteq 1 .. items
      BY <2>1 DEF Module!IInv, Module!TypeOK
    <2>3. /\ lists' \in [Module!Devs -> 0 .. items'] /\ freed' \subseteq 1 .. items'
          /\ lists'[d] = 0 /\ \A e \in Module!Devs : e # d => lists'[e] = lists[e]
      <3>1. 0 \in 0 .. items /\ lists[d] \in 0 .. items
        BY <2>2
      <3>2. {lists[d]} \ {0} \subseteq 1 .. items
        BY <2>2, <3>1
      <3> QED
        BY <2>1, <2>2, <3>1, <3>2
    <2>4. Module!TypeOK'
      BY <2>1, <2>2, <2>3 DEF Module!IInv, Module!TypeOK, Module!Nobody
    <2>5. load = "loaded"
      BY <2>1 DEF Module!IInv, Module!UsersOfModule
    <2>6. Module!WhatIsHeld'
      BY <2>1 DEF Module!IInv, Module!WhatIsHeld
    <2>7. Module!ListsAccounted'
      <3>1. 1 .. items' = freed' \cup ({lists'[e] : e \in Module!Devs} \ {0})
        BY <2>1, <2>3 DEF Module!IInv, Module!ListsAccounted
      <3>2. \A e \in Module!Devs : lists'[e] \notin freed'
        BY <2>1, <2>2, <2>3 DEF Module!IInv, Module!ListsAccounted
      <3>3. \A e, f \in Module!Devs : e # f /\ lists'[e] = lists'[f] => lists'[e] = 0
        BY <2>2, <2>3 DEF Module!IInv, Module!ListsAccounted
      <3> QED
        BY <2>1, <2>5, <3>1, <3>2, <3>3 DEF Module!ListsAccounted
    <2>8. Module!UsersOfModule' /\ Module!Walker'
      BY <2>1, <2>5 DEF Module!IInv, Module!TypeOK, Module!UsersOfModule, Module!Walker, Module!Procs
    <2> QED
      BY <2>4, <2>6, <2>7, <2>8 DEF Module!IInv
  <1> QED
    BY <1>1, <1>2, <1>3, <1>4

(* The files in /proc.                                                     *)
LEMMA ModuleReads ==
  ASSUME Module!IInv, NEW p \in Module!Procs,
         \/ Module!ProcOpen(p) \/ Module!ProcClose(p) \/ Module!ProcRead(p) \/ Module!ShowDevice(p)
         \/ Module!ShowLocked(p) \/ Module!Interrupt(p) \/ Module!ShowNext(p)
  PROVE  Module!IInv'
  <1>1. UNCHANGED <<load, held, clones, lists, items, freed>>
    BY DEF Module!ProcOpen, Module!ProcClose, Module!ProcRead, Module!ShowDevice, Module!ShowLocked,
           Module!Interrupt, Module!ShowNext, Module!mod, Module!lists
  <1>2. /\ lock \in [Module!Devs -> Module!Procs \cup {"writer", "nobody"}]
        /\ reader \in [Module!Procs -> {"closed", "open", "device", "mutex", "walk"}]
        /\ dev \in [Module!Procs -> Module!Devs] /\ qs \in [Module!Procs -> Nat]
        /\ lists \in [Module!Devs -> 0 .. items] /\ items \in Nat
    BY DEF Module!IInv, Module!TypeOK, Module!Nobody
  <1>3. Module!WhatIsHeld' /\ Module!ListsAccounted'
    BY <1>1 DEF Module!IInv, Module!WhatIsHeld, Module!ListsAccounted
  <1>4. clones' \in BOOLEAN
    BY <1>1 DEF Module!IInv, Module!TypeOK
  <1>5. CASE Module!ProcOpen(p) \/ Module!ProcClose(p)
    <2>1. /\ \E where \in {"open", "closed"} : reader' = [reader EXCEPT ![p] = where]
          /\ UNCHANGED <<lock, dev, qs>>
      BY <1>5 DEF Module!ProcOpen, Module!ProcClose, Module!Goto
    <2>2. Module!TypeOK'
      BY <1>1, <1>2, <1>4, <2>1 DEF Module!IInv, Module!TypeOK
    <2>3. Module!UsersOfModule' /\ Module!Walker'
      BY <1>1, <1>2, <2>1 DEF Module!IInv, Module!UsersOfModule, Module!Walker, Module!Procs
    <2> QED
      BY <1>3, <2>2, <2>3 DEF Module!IInv
  <1>6. CASE Module!ProcRead(p)
    <2>1. /\ reader' = [reader EXCEPT ![p] = "device"] /\ reader[p] = "open" /\ p \in held
          /\ dev' = [dev EXCEPT ![p] = 0] /\ UNCHANGED <<lock, qs>>
      BY <1>6 DEF Module!ProcRead, Module!Goto
    <2>2. 0 \in Module!Devs
      BY FilesAssumption DEF FilesAssumption, Module!Devs
    <2>3. load \in {"loaded", "trim", "unregister"}
      <3>1. p \in Module!HeldBy(load)
        BY <2>1 DEF Module!IInv, Module!WhatIsHeld
      <3> QED
        BY <3>1 DEF Module!IInv, Module!TypeOK, Module!HeldBy, Module!Access, Module!Adevs,
                    Module!AllPipes, Module!Procs
    <2>4. Module!TypeOK'
      BY <1>1, <1>2, <1>4, <2>1, <2>2 DEF Module!IInv, Module!TypeOK
    <2>5. Module!UsersOfModule' /\ Module!Walker'
      BY <1>1, <1>2, <2>1, <2>3 DEF Module!IInv, Module!UsersOfModule, Module!Walker, Module!Procs
    <2> QED
      BY <1>3, <2>4, <2>5 DEF Module!IInv
  <1>7. CASE Module!ShowDevice(p) \/ Module!Interrupt(p)
    <2>1. /\ reader[p] \in {"device", "mutex"} /\ UNCHANGED <<lock, dev>>
          /\ \E where \in {"mutex", "open"} : reader' = [reader EXCEPT ![p] = where]
      BY <1>7 DEF Module!ShowDevice, Module!Interrupt, Module!Goto
    <2>2. /\ qs' \in [Module!Procs -> Nat]
          /\ \A o \in Module!Procs : o # p => qs'[o] = qs[o]
      <3>1. lists[dev[p]] \in Nat
        BY <1>2
      <3> QED
        BY <1>2, <1>7, <3>1 DEF Module!ShowDevice, Module!Interrupt, Module!Read
    <2>3. Module!TypeOK'
      BY <1>1, <1>2, <1>4, <2>1, <2>2 DEF Module!IInv, Module!TypeOK
    <2>4. Module!UsersOfModule' /\ Module!Walker'
      BY <1>1, <1>2, <2>1, <2>2 DEF Module!IInv, Module!UsersOfModule, Module!Walker, Module!Procs
    <2> QED
      BY <1>3, <2>3, <2>4 DEF Module!IInv
  <1>8. CASE Module!ShowLocked(p)
    <2>1. /\ reader[p] = "mutex" /\ reader' = [reader EXCEPT ![p] = "walk"] /\ UNCHANGED dev
          /\ lock[dev[p]] = "nobody" /\ lock' = [lock EXCEPT ![dev[p]] = p]
          /\ qs' = IF p = "scullmem" THEN qs ELSE [qs EXCEPT ![p] = lists[dev[p]]]
      BY <1>8 DEF Module!ShowLocked, Module!Lock, Module!Goto, Module!Early, Module!Read, Module!Nobody
    <2>2. dev[p] \in Module!Devs /\ lists[dev[p]] \in Nat /\ qs' \in [Module!Procs -> Nat]
      BY <1>2, <2>1
    <2>3. Module!TypeOK'
      BY <1>1, <1>2, <1>4, <2>1, <2>2 DEF Module!IInv, Module!TypeOK, Module!Nobody
    <2>4. Module!UsersOfModule'
      BY <1>1, <1>2, <2>1 DEF Module!IInv, Module!UsersOfModule, Module!Procs
    <2>5. Module!Walker'
      BY <1>1, <1>2, <2>1 DEF Module!IInv, Module!Walker, Module!Procs
    <2> QED
      BY <1>3, <2>3, <2>4, <2>5 DEF Module!IInv
  <1>9. CASE Module!ShowNext(p)
    <2>1. /\ reader[p] = "walk" /\ lock' = [lock EXCEPT ![dev[p]] = "nobody"]
          /\ qs' = [qs EXCEPT ![p] = 0]
          /\ \E where \in {"device", "open"} : reader' = [reader EXCEPT ![p] = where]
      BY <1>9 DEF Module!ShowNext, Module!Unlock, Module!Goto, Module!Nobody
    <2>2. /\ dev' \in [Module!Procs -> Module!Devs]
          /\ \A o \in Module!Procs : o # p => dev'[o] = dev[o]
      <3>1. dev[p] \in Nat /\ NrDevs \in Nat
        BY <1>2, FilesAssumption DEF FilesAssumption, Module!Devs
      <3>2. CASE dev[p] + 1 < NrDevs
        <4>1. dev[p] + 1 \in Module!Devs
          BY <3>1, <3>2 DEF Module!Devs
        <4> QED
          BY <1>2, <1>9, <3>2, <4>1 DEF Module!ShowNext
      <3>3. CASE ~(dev[p] + 1 < NrDevs)
        BY <1>2, <1>9, <3>3 DEF Module!ShowNext
      <3> QED
        BY <3>2, <3>3
    <2>3. Module!TypeOK'
      BY <1>1, <1>2, <1>4, <2>1, <2>2 DEF Module!IInv, Module!TypeOK, Module!Nobody
    <2>4. Module!UsersOfModule'
      BY <1>1, <1>2, <2>1 DEF Module!IInv, Module!UsersOfModule, Module!Procs
    <2>5. Module!Walker'
      BY <1>1, <1>2, <2>1, <2>2 DEF Module!IInv, Module!Walker, Module!Procs
    <2> QED
      BY <1>3, <2>3, <2>4, <2>5 DEF Module!IInv
  <1> QED
    BY <1>5, <1>6, <1>7, <1>8, <1>9

LEMMA ModuleStep ==
  ASSUME Module!IInv, [Module!Next]_module
  PROVE  Module!IInv'
  <1>1. CASE UNCHANGED module
    <2>1. UNCHANGED <<load, held, clones, lists, items, freed, lock, reader, dev, qs>>
      BY <1>1 DEF module
    <2>2. clones' \in BOOLEAN
      BY <2>1 DEF Module!IInv, Module!TypeOK
    <2>3. Module!TypeOK'
      BY <2>1, <2>2 DEF Module!IInv, Module!TypeOK
    <2> QED
      BY <2>1, <2>3 DEF Module!IInv, Module!WhatIsHeld, Module!ListsAccounted,
                        Module!UsersOfModule, Module!Walker
  <1> QED
    BY <1>1, ModuleLoads, ModuleUnloads, ModuleUses, ModuleReads DEF Module!Next

LEMMA ModuleCardinality == \A S : Module!Cardinality(S) = Cardinality(S)
  BY DEF Module!Cardinality, Cardinality

LEMMA ModuleSafe == Module!IInv => Module!NothingLeft /\ Module!ShowsLive
  <1> SUFFICES ASSUME Module!IInv PROVE Module!NothingLeft /\ Module!ShowsLive
    OBVIOUS
  <1>1. ASSUME load = "none" PROVE held = {} /\ ~clones /\ Cardinality(freed) = items
    <2>1. held = {} /\ ~clones
      BY <1>1 DEF Module!IInv, Module!WhatIsHeld, Module!HeldBy
    <2>2. \A d \in Module!Devs : lists[d] = 0
      BY <1>1 DEF Module!IInv, Module!ListsAccounted
    <2>3. freed = 1 .. items /\ items \in Nat
      <3>1. {lists[d] : d \in Module!Devs} \ {0} = {}
        BY <2>2
      <3> QED
        BY <3>1 DEF Module!IInv, Module!ListsAccounted, Module!TypeOK
    <2>4. Cardinality(1 .. items) = items
      BY <2>3, FS_Interval
    <2> QED
      BY <2>1, <2>3, <2>4
  <1>2. Module!ShowsLive
    <2>1. dev["scullseq"] \in Module!Devs
      BY DEF Module!IInv, Module!TypeOK, Module!Procs
    <2> QED
      BY <2>1 DEF Module!IInv, Module!ListsAccounted, Module!Walker, Module!ShowsLive
  <1> QED
    BY <1>1, <1>2, ModuleCardinality DEF Module!NothingLeft

-----------------------------------------------------------------------------
(* The parts together.                                                     *)

AllInv == Module!IInv /\ Mem!IInv /\ Sequence!IInv /\ Map!IInv /\ Anon!IInv

LEMMA FilesInvInit == FilesInit => AllInv
  BY ModuleInit, MemInit, SeqInit, MapInit, AnonInit DEF FilesInit, AllInv

(* A step of one part leaves the variables of the others as they are.      *)
LEMMA FilesParts ==
  ASSUME [FilesNext]_FilesVars
  PROVE  /\ [Module!Next]_module /\ [Mem!Next]_memfile /\ [Sequence!Next]_seq_file
         /\ [Map!Next]_mmap /\ [Anon!Next]_anonymous
  BY DEF FilesNext, FilesVars, Only

LEMMA FilesInvStep == AllInv /\ [FilesNext]_FilesVars => AllInv'
  BY FilesParts, ModuleStep, MemStep, SeqStep, MapStep, AnonStep DEF AllInv

LEMMA FilesInvariant == FilesSpec => []AllInv
  BY FilesInvInit, FilesInvStep, PTL DEF FilesSpec

(* What kernel code took is there while somebody can reach it and is given *)
(* back when nobody can, however loading scull fails, whoever reads its    *)
(* files, and in whatever order mappings and files are closed.             *)
THEOREM FilesReachableIsLive == FilesSpec => []ReachableIsLive
  <1>1. AllInv => ReachableIsLive
    BY ModuleSafe, MapSafe, AnonSafe DEF AllInv, ReachableIsLive
  <1> QED
    BY <1>1, FilesInvariant, PTL

(* What a reader gets is what the file holds: memfile.c under every        *)
(* interleaving of its callers, seq_file.c with reads of any sizes,        *)
(* mmap.c through both mappings, and anonymous_inode.c with any clients.   *)
THEOREM FilesReadersSeeContents == FilesSpec => []ReadersSeeContents
  <1>1. AllInv => ReadersSeeContents
    BY MemSafe, SeqSafe, MapSafe, AnonSafe DEF AllInv, ReadersSeeContents
  <1> QED
    BY <1>1, FilesInvariant, PTL
=============================================================================
