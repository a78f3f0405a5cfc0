------------------------- MODULE ScullDeviceProofs --------------------------
(***************************************************************************)
(* Proofs about the bare scull device, for any number of threads and files *)
(* and all quanta and sizes of arrays greater than 0: while no truncation  *)
(* comes in the middle of a call, all that is allocated has the size that  *)
(* the device says, and no call leaves it.                                 *)
(***************************************************************************)
EXTENDS ScullDevice, SequenceTheorems, TLAPS

(* No ioctl asks for a quantum or an array of 0, by which a call divides.  *)
Positive == 0 \notin Quanta \cup Qsets

Areas  == Seq(Bytes)
Arrays == Seq(Areas)
Lists  == Seq(Arrays)

(* All arrays of the list l have se areas, of qu bytes each or not there.  *)
Sized(l, qu, se) ==
  \A i \in DOMAIN l : l[i] # <<>> =>
    /\ Len(l[i]) = se
    /\ \A j \in DOMAIN l[i] : Len(l[i][j]) \in {0, qu}

-----------------------------------------------------------------------------
(* Numbers.                                                                *)

LEMMA MinOfTwo ==
  ASSUME NEW a \in Int, NEW b \in Int
  PROVE  MinOf({a, b}) = IF a <= b THEN a ELSE b
  <1>1. \E n \in {a, b} : \A m \in {a, b} : n <= m
    <2>1. CASE a <= b
      BY <2>1
    <2>2. CASE b <= a
      BY <2>2
    <2> QED
      BY <2>1, <2>2
  <1> QED
    BY <1>1 DEF MinOf

LEMMA MaxOfTwo ==
  ASSUME NEW a \in Int, NEW b \in Int
  PROVE  MaxOf({a, b}) = IF a <= b THEN b ELSE a
  <1>1. \E n \in {a, b} : \A m \in {a, b} : m <= n
    <2>1. CASE a <= b
      BY <2>1
    <2>2. CASE b <= a
      BY <2>2
    <2> QED
      BY <2>1, <2>2
  <1> QED
    BY <1>1 DEF MaxOf

LEMMA LimitIsNat ==
  /\ Limit \in Nat /\ MaxPos <= Limit
  /\ \A n \in Counts : n \in Nat /\ MaxPos + n <= Limit
  <1>1. MaxOf(Counts) \in Counts /\ \A n \in Counts : n <= MaxOf(Counts)
    BY CountsAssumption DEF CountsAssumption, MaxOf
  <1>2. MaxOf(Counts) \in Nat /\ MaxPos \in Nat /\ \A n \in Counts : n \in Nat
    BY <1>1, CountsAssumption, OffsetsAssumption DEF CountsAssumption, OffsetsAssumption
  <1>3. Limit = MaxPos + MaxOf(Counts)
    BY DEF Limit
  <1> QED
    BY <1>1, <1>2, <1>3

LEMMA Division ==
  ASSUME NEW x \in Nat, NEW b \in Nat \ {0}
  PROVE  /\ x \div b \in Nat
         /\ x % b \in 0 .. b - 1
         /\ x = b * (x \div b) + (x % b)
  OBVIOUS

LEMMA Product ==
  ASSUME NEW a \in Nat \ {0}, NEW b \in Nat \ {0}
  PROVE  a * b \in Nat \ {0}
  OBVIOUS

LEMMA Quotient ==
  ASSUME NEW a \in Nat, NEW b \in Nat, NEW c \in Nat, c * a < c * b
  PROVE  a + 1 <= b /\ c * (a + 1) <= c * b
  OBVIOUS

LEMMA Monotone ==
  ASSUME NEW a \in Nat, NEW b \in Nat, NEW c \in Nat, NEW d \in Nat, a <= b
  PROVE  a * c * d <= b * c * d /\ a * c * d \in Nat /\ b * c * d \in Nat
  <1>1. a * c <= b * c /\ a * c \in Nat /\ b * c \in Nat
    OBVIOUS
  <1> QED
    BY <1>1

(* A place is in an array and in an area, and the end of its area is not   *)
(* beyond the end of its item.                                             *)
LEMMA PlaceIsInside ==
  ASSUME NEW x \in Nat, NEW qu \in Nat \ {0}, NEW se \in Nat \ {0}
  PROVE  LET pl == Place(x, qu, se) IN
         /\ pl.item \in Nat \ {0} /\ pl.s_pos \in 1 .. se /\ pl.q_pos \in 1 .. qu
         /\ x + (qu - pl.q_pos + 1) <= pl.item * qu * se
  <1> DEFINE k == x \div (qu * se)
             r == x % (qu * se)
             a == r \div qu
             b == r % qu
  <1>1. qu * se \in Nat \ {0}
    BY Product
  <1>2. k \in Nat /\ r \in 0 .. (qu * se) - 1 /\ x = (qu * se) * k + r
    BY <1>1, Division
  <1>h. r \in Nat
    BY <1>1, <1>2
  <1> HIDE DEF k, r
  <1>3. a \in Nat /\ b \in 0 .. qu - 1 /\ r = qu * a + b
    BY <1>h, Division
  <1>4. Place(x, qu, se) = [item |-> k + 1, s_pos |-> a + 1, q_pos |-> b + 1]
    BY DEF Place, k, r
  <1> HIDE DEF a, b
  <1>5. qu * a < qu * se
    BY <1>1, <1>2, <1>3
  <1>6. a + 1 <= se /\ qu * (a + 1) <= qu * se
    BY <1>3, <1>5, Quotient
  <1>7. x + qu - b <= (k + 1) * qu * se
    BY <1>2, <1>3, <1>6
  <1> QED
    BY <1>2, <1>3, <1>4, <1>6, <1>7

-----------------------------------------------------------------------------
(* Lists of arrays of areas.                                               *)

LEMMA BytesAreThere ==
  /\ Unknown \in Bytes
  /\ \A x \in Int : x % NBytes \in Bytes
  BY BytesAssumption DEF BytesAssumption, Bytes

LEMMA Same ==
  ASSUME NEW S, NEW n \in Nat, NEW e \in S
  PROVE  [i \in 1 .. n |-> e] \in Seq(S) /\ Len([i \in 1 .. n |-> e]) = n
  OBVIOUS

(* What is in a list has a length.                                         *)
LEMMA InList ==
  ASSUME NEW l \in Lists
  PROVE  /\ Len(l) \in Nat /\ DOMAIN l = 1 .. Len(l)
         /\ \A i \in DOMAIN l :
              /\ l[i] \in Arrays /\ Len(l[i]) \in Nat /\ DOMAIN l[i] = 1 .. Len(l[i])
              /\ l[i] # <<>> => Len(l[i]) > 0
              /\ \A j \in DOMAIN l[i] :
                   /\ l[i][j] \in Areas /\ Len(l[i][j]) \in Nat
                   /\ DOMAIN l[i][j] = 1 .. Len(l[i][j])
                   /\ l[i][j] # <<>> => Len(l[i][j]) > 0
  <1>1. Len(l) \in Nat /\ DOMAIN l = 1 .. Len(l)
    BY LenProperties DEF Lists
  <1>2. ASSUME NEW i \in DOMAIN l
        PROVE  /\ l[i] \in Arrays /\ Len(l[i]) \in Nat /\ DOMAIN l[i] = 1 .. Len(l[i])
               /\ l[i] # <<>> => Len(l[i]) > 0
    <2>1. l[i] \in Arrays
      BY <1>1, ElementOfSeq DEF Lists
    <2> QED
      BY <2>1, LenProperties, EmptySeq DEF Arrays
  <1>3. ASSUME NEW i \in DOMAIN l, NEW j \in DOMAIN l[i]
        PROVE  /\ l[i][j] \in Areas /\ Len(l[i][j]) \in Nat
               /\ DOMAIN l[i][j] = 1 .. Len(l[i][j])
               /\ l[i][j] # <<>> => Len(l[i][j]) > 0
    <2>1. l[i] \in Arrays /\ DOMAIN l[i] = 1 .. Len(l[i])
      BY <1>2
    <2>2. l[i][j] \in Areas
      BY <2>1, ElementOfSeq DEF Arrays
    <2> QED
      BY <2>2, LenProperties, EmptySeq DEF Areas
  <1> QED
    BY <1>1, <1>2, <1>3

LEMMA Nulls == <<>> \in Areas /\ <<>> \in Arrays /\ <<>> \in Lists
  BY EmptySeq DEF Areas, Arrays, Lists

(* scull_follow: items without an array are added up to n.                 *)
LEMMA FollowAdds ==
  ASSUME data \in Lists, NEW n \in Nat
  PROVE  /\ Follow(n) \in Lists
         /\ Len(Follow(n)) = IF n > Len(data) THEN n ELSE Len(data)
         /\ \A i \in 1 .. Len(Follow(n)) :
              Follow(n)[i] = IF i <= Len(data) THEN data[i] ELSE <<>>
  <1> DEFINE k == IF n > Len(data) THEN n - Len(data) ELSE 0
             more == [i \in 1 .. k |-> <<>>]
  <1>1. Len(data) \in Nat /\ k \in Nat
    BY LenProperties DEF Lists
  <1>2. Len(data) + k = IF n > Len(data) THEN n ELSE Len(data)
    BY <1>1
  <1>3. Follow(n) = data \o more
    BY DEF Follow
  <1> HIDE DEF k
  <1>4. more \in Lists /\ Len(more) = k /\ \A i \in 1 .. k : more[i] = <<>>
    BY <1>1, Nulls, Same DEF Lists
  <1> HIDE DEF more
  <1>5. /\ data \o more \in Lists /\ Len(data \o more) = Len(data) + k
        /\ \A i \in 1 .. Len(data) + k :
             (data \o more)[i] = IF i <= Len(data) THEN data[i] ELSE more[i - Len(data)]
    BY <1>4, ConcatProperties DEF Lists
  <1>6. \A i \in 1 .. Len(data) + k :
          (data \o more)[i] = IF i <= Len(data) THEN data[i] ELSE <<>>
    BY <1>1, <1>4, <1>5
  <1> QED
    BY <1>2, <1>3, <1>5, <1>6

LEMMA FollowKeepsSizes ==
  ASSUME data \in Lists, NEW n \in Nat, NEW qu, NEW se, Sized(data, qu, se)
  PROVE  Sized(Follow(n), qu, se)
  <1>1. DOMAIN Follow(n) = 1 .. Len(Follow(n)) /\ DOMAIN data = 1 .. Len(data)
    BY FollowAdds, InList
  <1> SUFFICES ASSUME NEW i \in DOMAIN Follow(n), Follow(n)[i] # <<>>
               PROVE  i \in DOMAIN data /\ Follow(n)[i] = data[i]
    BY DEF Sized
  <1> QED
    BY <1>1, FollowAdds

(* An item gets an array.                                                  *)
LEMMA ArrayIsPut ==
  ASSUME NEW l \in Lists, NEW i \in 1 .. Len(l), NEW a \in Arrays
  PROVE  LET m == [l EXCEPT ![i] = a] IN
         /\ m \in Lists /\ Len(m) = Len(l) /\ m[i] = a
         /\ \A qu, se : /\ Sized(l, qu, se)
                        /\ Len(a) = se /\ \A j \in DOMAIN a : Len(a[j]) \in {0, qu}
                        => Sized(m, qu, se)
  <1> DEFINE m == [l EXCEPT ![i] = a]
  <1>1. m \in Lists /\ Len(m) = Len(l) /\ DOMAIN m = DOMAIN l
    BY ExceptSeq DEF Lists
  <1>2. DOMAIN l = 1 .. Len(l) /\ \A j \in DOMAIN l : m[j] = IF j = i THEN a ELSE l[j]
    BY InList
  <1> HIDE DEF m
  <1>3. ASSUME NEW qu, NEW se, Sized(l, qu, se),
               Len(a) = se, \A j \in DOMAIN a : Len(a[j]) \in {0, qu}
        PROVE  Sized(m, qu, se)
    BY <1>1, <1>2, <1>3 DEF Sized
  <1> QED
    BY <1>1, <1>2, <1>3 DEF m

(* An area is put into an array.                                           *)
Put(l, i, j, a) == [l EXCEPT ![i][j] = a]

LEMMA AreaIsPut ==
  ASSUME NEW l \in Lists, NEW i \in 1 .. Len(l), NEW j \in 1 .. Len(l[i]), NEW a \in Areas
  PROVE  /\ Put(l, i, j, a) \in Lists /\ Len(Put(l, i, j, a)) = Len(l)
         /\ Len(Put(l, i, j, a)[i]) = Len(l[i])
         /\ \A qu, se : Sized(l, qu, se) /\ Len(a) \in {0, qu} => Sized(Put(l, i, j, a), qu, se)
  <1> DEFINE b == [l[i] EXCEPT ![j] = a]
  <1>1. DOMAIN l = 1 .. Len(l) /\ l[i] \in Arrays /\ DOMAIN l[i] = 1 .. Len(l[i])
    BY InList
  <1>2. b \in Arrays /\ Len(b) = Len(l[i]) /\ DOMAIN b = DOMAIN l[i]
    BY <1>1, ExceptSeq DEF Arrays
  <1>3. \A k \in DOMAIN b : b[k] = IF k = j THEN a ELSE l[i][k]
    BY <1>1
  <1>4. Put(l, i, j, a) = [l EXCEPT ![i] = b]
    BY DEF Put
  <1> HIDE DEF b
  <1>5. ASSUME NEW qu, NEW se, Sized(l, qu, se), Len(a) \in {0, qu}
        PROVE  Len(b) = se /\ \A k \in DOMAIN b : Len(b[k]) \in {0, qu}
    <2>1. l[i] # <<>>
      BY <1>1, EmptySeq
    <2>2. Len(l[i]) = se /\ \A k \in DOMAIN l[i] : Len(l[i][k]) \in {0, qu}
      BY <1>1, <1>5, <2>1 DEF Sized
    <2> QED
      BY <1>2, <1>3, <1>5, <2>2
  <1> DEFINE m == [l EXCEPT ![i] = b]
  <1>6. /\ m \in Lists /\ Len(m) = Len(l) /\ m[i] = b
        /\ \A qu, se : /\ Sized(l, qu, se)
                       /\ Len(b) = se /\ \A k \in DOMAIN b : Len(b[k]) \in {0, qu}
                       => Sized(m, qu, se)
    BY <1>2, ArrayIsPut
  <1> HIDE DEF m
  <1>7. \A qu, se : Sized(l, qu, se) /\ Len(a) \in {0, qu} => Sized(m, qu, se)
    BY <1>5, <1>6
  <1> QED
    BY <1>2, <1>4, <1>6, <1>7 DEF m

-----------------------------------------------------------------------------
(* A call with the mutex: its locals, and the list in its stages.          *)

LEMMA CallIsThere ==
  ASSUME Positive, IInv, NEW t \in Threads, pc[t] = "lock"
  PROVE  /\ file[t] \in Files /\ Pos(t) \in 0 .. Limit /\ Pos(t) \in Nat
         /\ q[t] \in Nat \ {0} /\ s[t] \in Nat \ {0} /\ ~DivisionByZero(t)
         /\ count[t] \in Nat /\ MaxPos + count[t] <= Limit
         /\ op[t] = "write" => Pos(t) <= MaxPos
         /\ data \in Lists /\ Len(data) \in Nat /\ size \in Nat
         /\ ~stale => /\ q[t] = quantum /\ s[t] = qset
                      /\ Sized(data, q[t], s[t]) /\ Len(data) * q[t] * s[t] >= size
  <1>1. file[t] \in Files /\ f_pos[file[t]] >= 0 /\ (op[t] = "write" => f_pos[file[t]] <= MaxPos)
        /\ q[t] \in Quanta /\ s[t] \in Qsets
    BY DEF IInv, CallsAreOnOpenFiles
  <1>2. Limit \in Nat /\ MaxPos <= Limit /\ MaxPos \in Nat
        /\ \A n \in Counts : n \in Nat /\ MaxPos + n <= Limit
    BY LimitIsNat, OffsetsAssumption DEF OffsetsAssumption
  <1>3. q[t] \in Nat \ {0} /\ s[t] \in Nat \ {0}
    BY <1>1, ParametersAssumption DEF Positive, ParametersAssumption
  <1>4. ~DivisionByZero(t)
    BY <1>3, Product DEF DivisionByZero
  <1>5. f_pos[file[t]] \in -1 .. Limit /\ count[t] \in Counts \cup {0} /\ size \in 0 .. Limit
    BY <1>1 DEF IInv, TypeOK
  <1>6. data \in Lists
    BY DEF IInv, TypeOK, Lists, Arrays, Areas
  <1>7. Len(data) \in Nat
    BY <1>6, InList
  <1>8. ~stale => /\ q[t] = quantum /\ s[t] = qset
                  /\ Sized(data, q[t], s[t]) /\ Len(data) * q[t] * s[t] >= size
    BY DEF IInv, CallsSeeDevice, AreasMatchDevice, SizedByDevice, SizeIsBacked, Sized
  <1>9. Pos(t) = f_pos[file[t]]
    BY DEF Pos
  <1> QED
    BY <1>1, <1>2, <1>3, <1>4, <1>5, <1>6, <1>7, <1>8, <1>9

LEMMA PlaceOfCall ==
  ASSUME Positive, IInv, NEW t \in Threads, pc[t] = "lock"
  PROVE  /\ At(t).item \in Nat \ {0} /\ At(t).s_pos \in 1 .. s[t] /\ At(t).q_pos \in 1 .. q[t]
         /\ Pos(t) + (q[t] - At(t).q_pos + 1) <= At(t).item * q[t] * s[t]
  BY CallIsThere, PlaceIsInside DEF At

LEMMA WithArrayIsList ==
  ASSUME Positive, IInv, NEW t \in Threads, pc[t] = "lock"
  PROVE  /\ Followed(t) \in Lists /\ WithArray(t) \in Lists
         /\ Len(Followed(t)) >= Len(data) /\ Len(WithArray(t)) = Len(Followed(t))
         /\ At(t).item \in 1 .. Len(WithArray(t)) /\ WithArray(t)[At(t).item] # <<>>
         /\ ~stale => Sized(Followed(t), q[t], s[t]) /\ Sized(WithArray(t), q[t], s[t])
  <1> DEFINE i == At(t).item
             l == Followed(t)
             a == [k \in 1 .. s[t] |-> <<>>]
  <1>1. i \in Nat \ {0} /\ data \in Lists /\ Len(data) \in Nat /\ s[t] \in Nat \ {0}
        /\ (~stale => Sized(data, q[t], s[t]))
    BY CallIsThere, PlaceOfCall
  <1>2. l \in Lists /\ Len(l) = IF i > Len(data) THEN i ELSE Len(data)
    BY <1>1, FollowAdds DEF Followed
  <1>3. ~stale => Sized(l, q[t], s[t])
    BY <1>1, FollowKeepsSizes DEF Followed
  <1> DEFINE m == [l EXCEPT ![i] = a]
  <1>4. WithArray(t) = IF l[i] # <<>> THEN l ELSE m
    BY DEF WithArray
  <1> HIDE DEF l, i
  <1>5. i \in 1 .. Len(l) /\ Len(l) >= Len(data)
    BY <1>1, <1>2
  <1>6. a \in Arrays /\ Len(a) = s[t]
    BY <1>1, Nulls, Same DEF Arrays
  <1>7. \A j \in DOMAIN a : Len(a[j]) = 0
    BY EmptySeq
  <1>8. a # <<>>
    BY <1>1, <1>6, EmptySeq
  <1> HIDE DEF a
  <1>9. m \in Lists /\ Len(m) = Len(l) /\ m[i] = a
        /\ (Sized(l, q[t], s[t]) => Sized(m, q[t], s[t]))
    BY <1>2, <1>5, <1>6, <1>7, ArrayIsPut
  <1> HIDE DEF m
  <1> QED
    BY <1>2, <1>3, <1>4, <1>5, <1>8, <1>9 DEF l, i

LEMMA WithAreaIsList ==
  ASSUME Positive, IInv, NEW t \in Threads, pc[t] = "lock",
         At(t).s_pos <= Len(WithArray(t)[At(t).item])
  PROVE  /\ WithArea(t) \in Lists /\ Len(WithArea(t)) = Len(WithArray(t))
         /\ At(t).item \in 1 .. Len(WithArea(t))
         /\ At(t).s_pos \in 1 .. Len(WithArea(t)[At(t).item])
         /\ ~stale => Sized(WithArea(t), q[t], s[t])
  <1> DEFINE i == At(t).item
             j == At(t).s_pos
             l == WithArray(t)
             a == [k \in 1 .. q[t] |-> Unknown]
             m == Put(l, i, j, a)
  <1>1. l \in Lists /\ i \in 1 .. Len(l) /\ (~stale => Sized(l, q[t], s[t]))
    BY WithArrayIsList
  <1>2. j \in 1 .. s[t] /\ s[t] \in Nat /\ q[t] \in Nat
    BY PlaceOfCall, CallIsThere
  <1>3. Len(l[i]) \in Nat
    BY <1>1, InList
  <1>4. j \in 1 .. Len(l[i])
    BY <1>2, <1>3
  <1>5. a \in Areas /\ Len(a) = q[t]
    BY <1>2, BytesAreThere, Same DEF Areas
  <1>6. WithArea(t) = IF l[i][j] # <<>> THEN l ELSE m
    BY DEF WithArea, Put
  <1> HIDE DEF a, l, i, j
  <1>7. m \in Lists /\ Len(m) = Len(l) /\ Len(m[i]) = Len(l[i])
        /\ (Sized(l, q[t], s[t]) => Sized(m, q[t], s[t]))
    BY <1>1, <1>4, <1>5, AreaIsPut
  <1> HIDE DEF m
  <1> QED
    BY <1>1, <1>4, <1>6, <1>7 DEF l, i, j

(* The bytes of an area are replaced.                                      *)
LEMMA BytesArePut ==
  ASSUME NEW l \in Lists, NEW i \in 1 .. Len(l), NEW j \in 1 .. Len(l[i]),
         NEW a, a \in [DOMAIN l[i][j] -> Bytes]
  PROVE  /\ Put(l, i, j, a) \in Lists /\ Len(Put(l, i, j, a)) = Len(l)
         /\ \A qu, se : Sized(l, qu, se) => Sized(Put(l, i, j, a), qu, se)
  <1>1. /\ i \in DOMAIN l /\ j \in DOMAIN l[i] /\ l[i] # <<>>
        /\ Len(l[i][j]) \in Nat /\ DOMAIN l[i][j] = 1 .. Len(l[i][j])
    BY InList, EmptySeq
  <1>2. a \in Areas /\ Len(a) = Len(l[i][j])
    BY <1>1 DEF Areas
  <1>3. \A qu, se : Sized(l, qu, se) => Len(a) \in {0, qu}
    BY <1>1, <1>2 DEF Sized
  <1> QED
    BY <1>2, <1>3, AreaIsPut

LEMMA StoredIsList ==
  ASSUME Positive, IInv, NEW t \in Threads, pc[t] = "lock",
         At(t).s_pos <= Len(WithArray(t)[At(t).item]), NEW n \in Int, NEW b \in Int
  PROVE  /\ Stored(t, n, b) \in Lists /\ Len(Stored(t, n, b)) = Len(WithArray(t))
         /\ ~stale => Sized(Stored(t, n, b), q[t], s[t])
  <1> DEFINE i == At(t).item
             j == At(t).s_pos
             l == WithArea(t)
             byte(k) == (b + k - At(t).q_pos + Pos(t)) % NBytes
             in(k) == k \in At(t).q_pos .. (At(t).q_pos + n - 1)
             a == [k \in DOMAIN l[i][j] |-> IF in(k) THEN byte(k) ELSE l[i][j][k]]
  <1>1. /\ l \in Lists /\ Len(l) = Len(WithArray(t))
        /\ i \in 1 .. Len(l) /\ j \in 1 .. Len(l[i])
        /\ (~stale => Sized(l, q[t], s[t]))
    BY WithAreaIsList
  <1>2. \A k \in Int : byte(k) \in Bytes
    BY CallIsThere, PlaceOfCall, BytesAreThere
  <1>3. a \in [DOMAIN l[i][j] -> Bytes]
    <2> HIDE DEF l, i, j, byte, in
    <2>1. l[i][j] \in Areas /\ Len(l[i][j]) \in Nat /\ DOMAIN l[i][j] = 1 .. Len(l[i][j])
      BY <1>1, InList
    <2>2. l[i][j] \in [1 .. Len(l[i][j]) -> Bytes]
      BY <2>1, LenProperties DEF Areas
    <2> QED
      BY <1>2, <2>1, <2>2
  <1>4. Stored(t, n, b) = Put(l, i, j, a)
    BY DEF Stored, Put
  <1> HIDE DEF l, i, j, a
  <1>5. /\ Put(l, i, j, a) \in Lists /\ Len(Put(l, i, j, a)) = Len(l)
        /\ \A qu, se : Sized(l, qu, se) => Sized(Put(l, i, j, a), qu, se)
    BY <1>1, <1>3, BytesArePut
  <1> QED
    BY <1>1, <1>4, <1>5

-----------------------------------------------------------------------------
(* The steps.                                                              *)

LEMMA InitInvariant == ASSUME Positive PROVE Init => IInv
  <1> SUFFICES ASSUME Init PROVE IInv
    OBVIOUS
  <1> USE DEF Init
  <1>1. TypeOK
    <2>1. 0 \in 0 .. Limit /\ -1 \in -1 .. Limit
      BY LimitIsNat
    <2>2. data \in Lists
      BY Nulls
    <2> QED
      BY <2>1, <2>2 DEF TypeOK, Lists, Arrays, Areas
  <1>2. CallsAreOnOpenFiles
    BY DEF CallsAreOnOpenFiles
  <1>3. CallsSeeDevice /\ SizedByDevice /\ StaysInside
    BY DEF CallsSeeDevice, SizedByDevice, StaysInside
  <1>4. SizeIsBacked
    <2>1. Len(data) = 0 /\ quantum \in Nat /\ qset \in Nat
      BY EmptySeq, ParametersAssumption DEF ParametersAssumption
    <2> QED
      BY <2>1 DEF SizeIsBacked
  <1> QED
    BY <1>1, <1>2, <1>3, <1>4 DEF IInv, AreasMatchDevice

(* What every end of a call keeps, whatever it did to the list.            *)
LEMMA ReturnStep ==
  ASSUME Positive, IInv, NEW t \in Threads, pc[t] = "lock", Return(t),
         UNCHANGED <<parameters, quantum, qset, stale>>,
         data' \in Lists, Len(data') >= Len(data), ~stale => Sized(data', q[t], s[t]),
         size' \in 0 .. Limit,
         ~stale => size' = size \/ size' <= Len(data') * q[t] * s[t],
         f_pos' \in [Files -> -1 .. Limit],
         \A f \in Files : f # file[t] => f_pos'[f] = f_pos[f]
  PROVE  IInv'
  <1>1. /\ pc' = [pc EXCEPT ![t] = "user"] /\ file' = [file EXCEPT ![t] = None]
        /\ op' = [op EXCEPT ![t] = "read"] /\ count' = [count EXCEPT ![t] = 0]
        /\ q' = [q EXCEPT ![t] = 0] /\ s' = [s EXCEPT ![t] = 0]
    BY DEF Return
  <1>2. /\ pc \in [Threads -> {"user", "lock", "wild"}]
        /\ file \in [Threads -> Files \cup {None}]
        /\ op \in [Threads -> {"read", "write"}] /\ count \in [Threads -> Counts \cup {0}]
        /\ q \in [Threads -> Quanta \cup {0}] /\ s \in [Threads -> Qsets \cup {0}]
    BY DEF IInv, TypeOK
  <1>3. TypeOK'
    <2>1. data' \in Seq(Seq(Seq(Bytes)))
      BY DEF Lists, Arrays, Areas
    <2>2. /\ {scull_quantum, quantum}' \subseteq Quanta /\ {scull_qset, qset}' \subseteq Qsets
      BY DEF IInv, TypeOK, parameters
    <2> QED
      BY <1>1, <1>2, <2>1, <2>2 DEF TypeOK, Limit, Bytes
  <1>4. CallsAreOnOpenFiles'
    <2> SUFFICES ASSUME NEW u \in Threads
                 PROVE  /\ pc'[u] = "user" => file'[u] = None
                        /\ pc'[u] = "lock" =>
                             /\ file'[u] \in Files /\ f_pos'[file'[u]] >= 0
                             /\ op'[u] = "write" => f_pos'[file'[u]] <= MaxPos
                             /\ q'[u] \in Quanta /\ s'[u] \in Qsets
                             /\ \A v \in Threads \ {u} : file'[v] # file'[u]
      BY DEF CallsAreOnOpenFiles
    <2>1. CASE u = t
      BY <1>1, <1>2, <2>1
    <2>2. CASE u # t
      <3>1. pc'[u] = pc[u] /\ file'[u] = file[u] /\ op'[u] = op[u] /\ q'[u] = q[u] /\ s'[u] = s[u]
        BY <1>1, <1>2, <2>2
      <3>2. ASSUME pc[u] = "lock"
            PROVE  /\ file[u] \in Files /\ f_pos[file[u]] >= 0
                   /\ op[u] = "write" => f_pos[file[u]] <= MaxPos
                   /\ q[u] \in Quanta /\ s[u] \in Qsets
                   /\ \A v \in Threads \ {u} : file[v] # file[u]
        BY <3>2 DEF IInv, CallsAreOnOpenFiles
      <3>3. pc[u] = "user" => file[u] = None
        BY DEF IInv, CallsAreOnOpenFiles
      <3>4. pc[u] = "lock" => f_pos'[file[u]] = f_pos[file[u]]
        BY <2>2, <3>2
      <3>5. pc[u] = "lock" => \A v \in Threads \ {u} : file'[v] # file[u]
        BY <1>1, <1>2, <3>2, NoneAssumption DEF NoneAssumption
      <3> QED
        BY <3>1, <3>2, <3>3, <3>4, <3>5
    <2> QED
      BY <2>1, <2>2
  <1>5. CallsSeeDevice'
    BY <1>1, <1>2 DEF IInv, CallsSeeDevice
  <1>6. ~stale => q[t] = quantum /\ s[t] = qset
    BY DEF IInv, CallsSeeDevice
  <1>7. SizedByDevice'
    BY <1>6 DEF SizedByDevice, Sized
  <1>8. SizeIsBacked'
    <2>1. /\ Len(data) \in Nat /\ Len(data') \in Nat
          /\ ~stale => Len(data) * q[t] * s[t] >= size
          /\ q[t] \in Nat /\ s[t] \in Nat /\ size \in Nat
          /\ Len(data) <= Len(data')
      BY CallIsThere, InList
    <2>2. /\ Len(data) * q[t] * s[t] <= Len(data') * q[t] * s[t]
          /\ Len(data) * q[t] * s[t] \in Nat
          /\ Len(data') * q[t] * s[t] \in Nat
      BY ONLY <2>1, Monotone
    <2>3. ~stale => Len(data') * q[t] * s[t] >= size'
      BY <2>1, <2>2
    <2> QED
      BY <1>6, <2>3 DEF SizeIsBacked
  <1>9. StaysInside'
    BY <1>1, <1>2 DEF IInv, AreasMatchDevice, StaysInside
  <1> QED
    BY <1>3, <1>4, <1>5, <1>7, <1>8, <1>9 DEF IInv, AreasMatchDevice

(* The number of bytes of a call is within the area and what was asked.    *)
LEMMA SizeOfCall ==
  ASSUME Positive, IInv, NEW t \in Threads, pc[t] = "lock", NEW n \in Nat
  PROVE  /\ ToEndOfQuantum(t, n) \in Nat /\ ToEndOfQuantum(t, n) <= n
         /\ ToEndOfQuantum(t, n) <= q[t] - At(t).q_pos + 1
  <1>1. q[t] \in Nat /\ At(t).q_pos \in 1 .. q[t]
    BY CallIsThere, PlaceOfCall
  <1>2. ToEndOfQuantum(t, n) =
          IF n <= q[t] - At(t).q_pos + 1 THEN n ELSE q[t] - At(t).q_pos + 1
    BY <1>1, MinOfTwo DEF ToEndOfQuantum
  <1> QED
    BY <1>1, <1>2

LEMMA ReadStep ==
  ASSUME Positive, IInv, NEW t \in Threads,
         ReadEnd(t) \/ ReadHole(t) \/ ReadNoMemory(t) \/ ReadData(t) \/ Interrupt(t)
  PROVE  IInv'
  <1>1. pc[t] = "lock" /\ Return(t) /\ UNCHANGED <<parameters, quantum, qset, size, stale>>
    BY DEF ReadEnd, ReadHole, ReadNoMemory, ReadData, Interrupt, Locked, device
  <1>2. /\ file[t] \in Files /\ Pos(t) \in Nat /\ data \in Lists /\ Len(data) \in Nat
        /\ count[t] \in Nat /\ size \in Nat /\ (~stale => Sized(data, q[t], s[t]))
    BY <1>1, CallIsThere
  <1>3. size \in 0 .. Limit /\ f_pos \in [Files -> -1 .. Limit] /\ Limit \in Nat
    BY LimitIsNat DEF IInv, TypeOK
  <1>4. data' \in Lists /\ Len(data') >= Len(data) /\ (~stale => Sized(data', q[t], s[t]))
    <2>1. CASE data' = data
      BY <1>2, <2>1
    <2>2. CASE \E n \in Nat : data' = Follow(n)
      BY <1>2, <2>2, FollowAdds, FollowKeepsSizes
    <2>3. data' = data \/ \E n \in Nat : data' = Follow(n)
      <3>1. CASE ReadHole(t)
        BY <1>1, <3>1, PlaceOfCall DEF ReadHole
      <3>2. CASE ReadNoMemory(t)
        <4>1. At(t).item \in Nat
          BY <1>1, PlaceOfCall
        <4>2. PICK n \in Len(data) .. (At(t).item - 1) : data' = Follow(n)
          BY <3>2 DEF ReadNoMemory
        <4>3. n \in Nat
          BY <1>2, <4>1
        <4> QED
          BY <4>2, <4>3
      <3>3. CASE ReadEnd(t) \/ ReadData(t) \/ Interrupt(t)
        BY <3>3 DEF ReadEnd, ReadData, Interrupt, device
      <3> QED
        BY <3>1, <3>2, <3>3
    <2> QED
      BY <2>1, <2>2, <2>3
  <1>5. /\ f_pos' \in [Files -> -1 .. Limit]
        /\ \A f \in Files : f # file[t] => f_pos'[f] = f_pos[f]
    <2>1. CASE ReadData(t)
      <3>1. Pos(t) < size /\ f_pos' = [f_pos EXCEPT ![file[t]] = @ + ReadSize(t)]
        BY <2>1 DEF ReadData
      <3>2. MinOf({count[t], size - Pos(t)}) = IF count[t] <= size - Pos(t) THEN count[t] ELSE size - Pos(t)
        BY <1>2, MinOfTwo
      <3>3. MinOf({count[t], size - Pos(t)}) \in Nat /\ MinOf({count[t], size - Pos(t)}) <= size - Pos(t)
        BY <1>2, <3>1, <3>2
      <3>4. ReadSize(t) \in Nat /\ ReadSize(t) <= MinOf({count[t], size - Pos(t)})
        BY <1>1, <3>3, SizeOfCall DEF ReadSize
      <3>5. f_pos[file[t]] + ReadSize(t) \in -1 .. Limit
        BY <1>2, <1>3, <3>3, <3>4 DEF Pos
      <3> QED
        BY <1>2, <1>3, <3>1, <3>5
    <2>2. CASE ~ReadData(t)
      <3>1. f_pos' = f_pos
        BY <2>2 DEF ReadEnd, ReadHole, ReadNoMemory, Interrupt
      <3> QED
        BY <1>3, <3>1
    <2> QED
      BY <2>1, <2>2
  <1> QED
    BY <1>1, <1>3, <1>4, <1>5, ReturnStep

LEMMA WriteStep ==
  ASSUME Positive, IInv, NEW t \in Threads,
         WriteData(t) \/ WriteFault(t) \/ WriteNoMemory(t)
  PROVE  IInv'
  <1>1. /\ pc[t] = "lock" /\ op[t] = "write" /\ Return(t)
        /\ UNCHANGED <<parameters, quantum, qset, stale>>
        /\ ~Outside(WithArray(t), At(t), WriteSize(t))
    BY DEF WriteData, WriteFault, WriteNoMemory, WriteFits, Locked
  <1>2. /\ file[t] \in Files /\ Pos(t) \in Nat /\ data \in Lists /\ Len(data) \in Nat
        /\ count[t] \in Nat /\ MaxPos + count[t] <= Limit /\ Pos(t) <= MaxPos
        /\ q[t] \in Nat /\ s[t] \in Nat /\ size \in Nat
        /\ (~stale => Sized(data, q[t], s[t]))
    BY <1>1, CallIsThere
  <1>3. size \in 0 .. Limit /\ f_pos \in [Files -> -1 .. Limit] /\ Limit \in Nat /\ MaxPos \in Nat
    BY LimitIsNat, OffsetsAssumption DEF IInv, TypeOK, OffsetsAssumption
  <1>4. /\ At(t).item \in Nat \ {0} /\ At(t).q_pos \in 1 .. q[t]
        /\ At(t).s_pos \in 1 .. s[t]
        /\ Pos(t) + (q[t] - At(t).q_pos + 1) <= At(t).item * q[t] * s[t]
    BY <1>1, PlaceOfCall
  <1>5. /\ Followed(t) \in Lists /\ WithArray(t) \in Lists
        /\ Len(Followed(t)) >= Len(data) /\ Len(WithArray(t)) = Len(Followed(t))
        /\ At(t).item \in 1 .. Len(WithArray(t)) /\ WithArray(t)[At(t).item] # <<>>
        /\ ~stale => Sized(Followed(t), q[t], s[t]) /\ Sized(WithArray(t), q[t], s[t])
    BY <1>1, WithArrayIsList
  <1>6. At(t).s_pos <= Len(WithArray(t)[At(t).item])
    <2>1. Len(WithArray(t)[At(t).item]) \in Nat
      BY <1>5, InList
    <2>2. ~(At(t).s_pos > Len(WithArray(t)[At(t).item]))
      BY <1>1, <1>5 DEF Outside
    <2> QED
      BY <1>2, <1>4, <2>1, <2>2
  <1>7. \A n \in Int, b \in Int :
          /\ Stored(t, n, b) \in Lists /\ Len(Stored(t, n, b)) = Len(WithArray(t))
          /\ ~stale => Sized(Stored(t, n, b), q[t], s[t])
    BY <1>1, <1>6, StoredIsList
  <1>8. /\ WriteSize(t) \in Nat /\ WriteSize(t) <= count[t]
        /\ WriteSize(t) <= q[t] - At(t).q_pos + 1
    BY <1>1, <1>2, SizeOfCall DEF WriteSize
  <1>9. Len(WithArray(t)) \in Nat /\ Len(WithArray(t)) >= Len(data)
    BY <1>2, <1>5, InList
  <1>10. CASE WriteData(t)
    <2>1. PICK b \in 0 .. (NBytes - 1) : data' = Stored(t, WriteSize(t), b)
      BY <1>10 DEF WriteData
    <2>2. data' \in Lists /\ Len(data') = Len(WithArray(t)) /\ (~stale => Sized(data', q[t], s[t]))
      BY <1>7, <1>8, <2>1, BytesAssumption DEF BytesAssumption
    <2>3. f_pos' = [f_pos EXCEPT ![file[t]] = @ + WriteSize(t)]
          /\ size' = MaxOf({size, Pos(t) + WriteSize(t)})
      BY <1>10 DEF WriteData, NewSize
    <2>4. Pos(t) + WriteSize(t) \in 0 .. Limit
      BY <1>2, <1>3, <1>8
    <2>5. size' = size \/ size' = Pos(t) + WriteSize(t)
      BY <1>2, <1>8, <2>3, MaxOfTwo
    <2>6. Pos(t) + WriteSize(t) <= Len(data') * q[t] * s[t]
      <3>1. At(t).item \in Nat /\ Len(data') \in Nat /\ At(t).item <= Len(data')
        BY <1>4, <1>5, <1>9, <2>2
      <3>2. At(t).item * q[t] * s[t] <= Len(data') * q[t] * s[t]
            /\ At(t).item * q[t] * s[t] \in Nat /\ Len(data') * q[t] * s[t] \in Nat
        BY ONLY <1>2, <3>1, Monotone
      <3>3. Pos(t) + WriteSize(t) <= Pos(t) + (q[t] - At(t).q_pos + 1)
        BY <1>2, <1>4, <1>8
      <3> QED
        BY <1>2, <1>4, <1>8, <3>2, <3>3
    <2>7. /\ f_pos' \in [Files -> -1 .. Limit]
          /\ \A f \in Files : f # file[t] => f_pos'[f] = f_pos[f]
      BY <1>2, <1>3, <2>3, <2>4 DEF Pos
    <2>8. size' \in 0 .. Limit
      BY <1>3, <2>4, <2>5
    <2>9. Len(data') >= Len(data)
      BY <1>9, <2>2
    <2> QED
      BY <1>1, <2>2, <2>5, <2>6, <2>7, <2>8, <2>9, ReturnStep
  <1>11. CASE WriteFault(t) \/ WriteNoMemory(t)
    <2>1. size' = size /\ f_pos' = f_pos
      BY <1>11 DEF WriteFault, WriteNoMemory
    <2>2. data' \in Lists /\ Len(data') >= Len(data) /\ (~stale => Sized(data', q[t], s[t]))
      <3>1. CASE WriteFault(t)
        <4>1. PICK n \in 0 .. (WriteSize(t) - 1), b \in 0 .. (NBytes - 1) : data' = Stored(t, n, b)
          BY <3>1 DEF WriteFault
        <4>2. n \in Int /\ b \in Int
          OBVIOUS
        <4>3. /\ Stored(t, n, b) \in Lists /\ Len(Stored(t, n, b)) = Len(WithArray(t))
              /\ ~stale => Sized(Stored(t, n, b), q[t], s[t])
          BY <1>7, <4>2
        <4> QED
          BY ONLY <1>9, <4>1, <4>3
      <3>2. CASE WriteNoMemory(t)
        <4>1. CASE \E n \in Len(data) .. (At(t).item - 1) : data' = Follow(n)
          <5>1. PICK n \in Nat : data' = Follow(n)
            BY <1>2, <1>4, <4>1
          <5>2. Follow(n) \in Lists /\ Len(Follow(n)) >= Len(data)
            BY <1>2, FollowAdds
          <5>3. ~stale => Sized(Follow(n), q[t], s[t])
            BY <1>2, FollowKeepsSizes
          <5> QED
            BY <5>1, <5>2, <5>3
        <4>2. CASE data' = Followed(t) \/ data' = WithArray(t)
          BY <1>5, <1>9, <4>2
        <4> QED
          BY <3>2, <4>1, <4>2 DEF WriteNoMemory
      <3> QED
        BY <1>11, <3>1, <3>2
    <2> QED
      BY <1>1, <1>3, <2>1, <2>2, ReturnStep
  <1> QED
    BY <1>10, <1>11

(* Outside of the areas, a division by 0 apart, is only a call that was    *)
(* overtaken.                                                              *)
LEMMA InsideIfSized ==
  ASSUME Positive, IInv, NEW t \in Threads, pc[t] = "lock",
         NEW l \in Lists, At(t).item \in 1 .. Len(l), Sized(l, q[t], s[t]),
         NEW n \in Nat, n <= q[t] - At(t).q_pos + 1
  PROVE  ~Outside(l, At(t), n)
  <1> SUFFICES ASSUME l[At(t).item] # <<>>
               PROVE  /\ ~(At(t).s_pos > Len(l[At(t).item]))
                      /\ l[At(t).item][At(t).s_pos] # <<>> =>
                           ~(At(t).q_pos + n - 1 > Len(l[At(t).item][At(t).s_pos]))
    BY DEF Outside
  <1>1. q[t] \in Nat /\ s[t] \in Nat /\ At(t).s_pos \in 1 .. s[t] /\ At(t).q_pos \in 1 .. q[t]
    BY CallIsThere, PlaceOfCall
  <1>2. /\ At(t).item \in DOMAIN l /\ Len(l[At(t).item]) = s[t]
        /\ \A j \in DOMAIN l[At(t).item] : Len(l[At(t).item][j]) \in {0, q[t]}
    BY InList DEF Sized
  <1>3. At(t).s_pos \in DOMAIN l[At(t).item]
    BY <1>1, <1>2, InList
  <1>4. l[At(t).item][At(t).s_pos] # <<>> => Len(l[At(t).item][At(t).s_pos]) = q[t]
    BY <1>1, <1>2, <1>3, InList
  <1> QED
    BY <1>1, <1>2, <1>4

LEMMA WildStep ==
  ASSUME Positive, IInv, NEW t \in Threads, ReadWild(t) \/ WriteWild(t)
  PROVE  IInv'
  <1>1. pc[t] = "lock" /\ GoWild(t)
    BY DEF ReadWild, WriteWild, Locked
  <1>2. /\ data \in Lists /\ Pos(t) \in Nat /\ size \in Nat /\ count[t] \in Nat
        /\ ~DivisionByZero(t)
    BY <1>1, CallIsThere
  <1>3. At(t).item \in Nat /\ Followed(t) = Follow(At(t).item)
    BY <1>1, PlaceOfCall DEF Followed
  <1>4. stale
    <2> SUFFICES ASSUME ~stale PROVE FALSE
      OBVIOUS
    <2>1. /\ Followed(t) \in Lists /\ WithArray(t) \in Lists
          /\ Sized(Followed(t), q[t], s[t]) /\ Sized(WithArray(t), q[t], s[t])
          /\ At(t).item \in 1 .. Len(WithArray(t)) /\ At(t).item \in 1 .. Len(Followed(t))
      BY <1>1, WithArrayIsList
    <2>2. CASE ReadWild(t)
      <3>1. MinOf({count[t], size - Pos(t)}) \in Nat
        BY <1>2, <2>2, MinOfTwo DEF ReadWild
      <3>2. ReadSize(t) \in Nat /\ ReadSize(t) <= q[t] - At(t).q_pos + 1
        BY <1>1, <3>1, SizeOfCall DEF ReadSize
      <3>3. ~Outside(Followed(t), At(t), ReadSize(t))
        BY <1>1, <2>1, <3>2, InsideIfSized
      <3> QED
        BY <1>2, <1>3, <2>2, <3>3 DEF ReadWild
    <2>3. CASE WriteWild(t)
      <3>1. WriteSize(t) \in Nat /\ WriteSize(t) <= q[t] - At(t).q_pos + 1
        BY <1>1, <1>2, SizeOfCall DEF WriteSize
      <3>2. ~Outside(WithArray(t), At(t), WriteSize(t))
        BY <1>1, <2>1, <3>1, InsideIfSized
      <3> QED
        BY <1>2, <2>3, <3>2 DEF WriteWild
    <2> QED
      BY <2>2, <2>3
  <1>5. /\ UNCHANGED <<parameters, device, f_pos, file, op, count, q, s, stale>>
        /\ pc' = [pc EXCEPT ![t] = "wild"]
    BY <1>1 DEF GoWild
  <1>6. pc \in [Threads -> {"user", "lock", "wild"}]
    BY DEF IInv, TypeOK
  <1>7. TypeOK'
    BY <1>5, <1>6 DEF IInv, TypeOK, parameters, device, Limit, Bytes
  <1>8. CallsAreOnOpenFiles'
    BY <1>5, <1>6 DEF IInv, CallsAreOnOpenFiles
  <1>9. CallsSeeDevice' /\ AreasMatchDevice'
    BY <1>4, <1>5 DEF CallsSeeDevice, AreasMatchDevice, SizedByDevice, SizeIsBacked, StaysInside
  <1> QED
    BY <1>7, <1>8, <1>9 DEF IInv

(* open without O_TRUNC, release, llseek.                                  *)
LEMMA FileStep ==
  ASSUME IInv, NEW f \in Files,
         \/ Open(f) \/ Release(f)
         \/ \E off \in Offsets, w \in {"SEEK_SET", "SEEK_CUR", "SEEK_END"} : Seek(f, off, w)
  PROVE  IInv'
  <1>1. UNCHANGED <<parameters, device, calls, out, stale>>
    BY DEF Open, Release, Seek
  <1>2. f_pos \in [Files -> -1 .. Limit] /\ MaxPos <= Limit /\ Limit \in Nat /\ MaxPos \in Nat
        /\ size \in 0 .. Limit
    BY LimitIsNat, OffsetsAssumption DEF IInv, TypeOK, OffsetsAssumption
  <1>3. PICK n : n \in -1 .. Limit /\ f_pos' = [f_pos EXCEPT ![f] = n]
    <2>1. CASE Open(f) \/ Release(f)
      BY <1>2, <2>1 DEF Open, Release
    <2>2. CASE \E off \in Offsets, w \in {"SEEK_SET", "SEEK_CUR", "SEEK_END"} : Seek(f, off, w)
      <3>1. PICK off \in Int, w \in {"SEEK_SET", "SEEK_CUR", "SEEK_END"} : Seek(f, off, w)
        BY <2>2, OffsetsAssumption DEF OffsetsAssumption
      <3>2. NewPos(f, off, w) \in Int
        BY <1>2 DEF NewPos
      <3>3. NewPos(f, off, w) \in -1 .. Limit
        BY <1>2, <3>1, <3>2 DEF Seek, ValidPos
      <3> QED
        BY <3>1, <3>3 DEF Seek
    <2> QED
      BY <2>1, <2>2
  <1>4. \A t \in Threads : pc[t] = "lock" => file[t] # f
    BY DEF Open, Release, Seek, Opened, IInv, CallsAreOnOpenFiles
  <1>5. TypeOK'
    BY <1>1, <1>2, <1>3 DEF IInv, TypeOK, parameters, device, calls, Limit, Bytes
  <1>6. CallsAreOnOpenFiles'
    BY <1>1, <1>2, <1>3, <1>4 DEF IInv, CallsAreOnOpenFiles, calls
  <1>7. CallsSeeDevice' /\ AreasMatchDevice'
    BY <1>1 DEF IInv, CallsSeeDevice, AreasMatchDevice, SizedByDevice, SizeIsBacked, StaysInside,
                device, calls
  <1> QED
    BY <1>5, <1>6, <1>7 DEF IInv

(* The ioctls set the parameters, which no part of the invariant is about. *)
LEMMA IoctlStep ==
  ASSUME IInv,
         \/ \E n \in Quanta : SetQuantum(n)
         \/ \E n \in Qsets : SetQset(n)
         \/ Reset
  PROVE  IInv'
  <1>1. UNCHANGED <<device, f_pos, calls, out, stale>>
    BY DEF SetQuantum, SetQset, Reset
  <1>2. scull_quantum' \in Quanta /\ scull_qset' \in Qsets
    BY ParametersAssumption DEF SetQuantum, SetQset, Reset, IInv, TypeOK, ParametersAssumption
  <1>3. TypeOK'
    BY <1>1, <1>2 DEF IInv, TypeOK, device, calls, Limit, Bytes
  <1>4. CallsAreOnOpenFiles' /\ CallsSeeDevice'
    BY <1>1 DEF IInv, CallsAreOnOpenFiles, CallsSeeDevice, device, calls
  <1>5. AreasMatchDevice'
    BY <1>1 DEF IInv, AreasMatchDevice, SizedByDevice, SizeIsBacked, StaysInside, device, calls
  <1> QED
    BY <1>3, <1>4, <1>5 DEF IInv

(* open with O_TRUNC: the list is emptied, under a call perhaps.           *)
LEMMA TruncateStep ==
  ASSUME IInv, NEW t \in Threads, NEW f \in Files, OpenTruncate(t, f)
  PROVE  IInv'
  <1>1. /\ pc[t] = "user" /\ f_pos[f] = -1 /\ f_pos' = [f_pos EXCEPT ![f] = 0]
        /\ stale' = (stale \/ \E u \in Threads :
              pc[u] = "lock" /\ <<q[u], s[u]>> # <<quantum', qset'>>)
        /\ UNCHANGED <<parameters, file, op, count, q, s, out>>
    BY DEF OpenTruncate
  <1>2. /\ f_pos \in [Files -> -1 .. Limit] /\ Limit \in Nat
        /\ pc \in [Threads -> {"user", "lock", "wild"}]
    BY LimitIsNat DEF IInv, TypeOK
  <1>3. \A u \in Threads : pc[u] = "lock" => file[u] # f
    BY <1>1 DEF IInv, CallsAreOnOpenFiles
  <1>4. ASSUME pc' \in [Threads -> {"user", "lock", "wild"}],
               \A u \in Threads : pc'[u] \in {pc[u], "wild"}
        PROVE  CallsAreOnOpenFiles' /\ CallsSeeDevice'
    <2>1. CallsAreOnOpenFiles'
      BY <1>1, <1>2, <1>3, <1>4 DEF IInv, CallsAreOnOpenFiles
    <2>2. CallsSeeDevice'
      BY <1>1, <1>4 DEF CallsSeeDevice
    <2> QED
      BY <2>1, <2>2
  <1>5. CASE TrimWild
    <2>1. UNCHANGED device /\ pc' = [pc EXCEPT ![t] = "wild"]
      BY <1>5 DEF OpenTruncate
    <2>2. stale
      BY <1>5 DEF IInv, TypeOK, AreasMatchDevice, SizedByDevice, TrimWild, Lists
    <2>3. TypeOK'
      BY <1>1, <1>2, <2>1 DEF IInv, TypeOK, parameters, device, Limit, Bytes
    <2>4. AreasMatchDevice'
      BY <1>1, <2>2 DEF AreasMatchDevice, SizedByDevice, SizeIsBacked, StaysInside
    <2> QED
      BY <1>2, <1>4, <2>1, <2>3, <2>4 DEF IInv
  <1>6. CASE ~TrimWild
    <2>1. /\ data' = <<>> /\ size' = 0 /\ quantum' = scull_quantum /\ qset' = scull_qset
          /\ pc' = pc
      BY <1>6 DEF OpenTruncate, Trim
    <2>2. TypeOK'
      <3>1. data' \in Lists
        BY <2>1, Nulls
      <3> QED
        BY <1>1, <1>2, <2>1, <3>1 DEF IInv, TypeOK, parameters, Lists, Arrays, Areas, Limit, Bytes
    <2>3. SizedByDevice'
      BY <2>1 DEF SizedByDevice
    <2>4. SizeIsBacked'
      <3>1. Len(data') = 0 /\ quantum' \in Nat /\ qset' \in Nat
        BY <2>1, EmptySeq, ParametersAssumption DEF IInv, TypeOK, ParametersAssumption
      <3> QED
        BY <2>1, <3>1 DEF SizeIsBacked
    <2>5. StaysInside'
      BY <1>1, <2>1 DEF IInv, AreasMatchDevice, StaysInside
    <2> QED
      BY <1>2, <1>4, <2>1, <2>2, <2>3, <2>4, <2>5 DEF IInv, AreasMatchDevice
  <1> QED
    BY <1>5, <1>6

(* The first part of read and write finds what the device has.             *)
LEMMA CallStep ==
  ASSUME IInv, NEW t \in Threads, NEW f \in Files, NEW o \in {"read", "write"},
         NEW n \in Counts, Call(t, f, o, n)
  PROVE  IInv'
  <1>1. /\ pc[t] = "user" /\ f_pos[f] >= 0 /\ (o = "write" => f_pos[f] <= MaxPos)
        /\ \A u \in Threads : file[u] # f
        /\ pc' = [pc EXCEPT ![t] = "lock"] /\ file' = [file EXCEPT ![t] = f]
        /\ op' = [op EXCEPT ![t] = o] /\ count' = [count EXCEPT ![t] = n]
        /\ q' = [q EXCEPT ![t] = quantum] /\ s' = [s EXCEPT ![t] = qset]
        /\ UNCHANGED <<parameters, device, f_pos, stale>>
    BY DEF Call, Opened, QuantumOfDevice
  <1>2. /\ pc \in [Threads -> {"user", "lock", "wild"}]
        /\ file \in [Threads -> Files \cup {None}]
        /\ op \in [Threads -> {"read", "write"}] /\ count \in [Threads -> Counts \cup {0}]
        /\ q \in [Threads -> Quanta \cup {0}] /\ s \in [Threads -> Qsets \cup {0}]
        /\ quantum \in Quanta /\ qset \in Qsets
    BY DEF IInv, TypeOK
  <1>3. TypeOK'
    BY <1>1, <1>2 DEF IInv, TypeOK, parameters, device, Limit, Bytes
  <1>4. CallsAreOnOpenFiles'
    <2> SUFFICES ASSUME NEW u \in Threads
                 PROVE  /\ pc'[u] = "user" => file'[u] = None
                        /\ pc'[u] = "lock" =>
                             /\ file'[u] \in Files /\ f_pos'[file'[u]] >= 0
                             /\ op'[u] = "write" => f_pos'[file'[u]] <= MaxPos
                             /\ q'[u] \in Quanta /\ s'[u] \in Qsets
                             /\ \A v \in Threads \ {u} : file'[v] # file'[u]
      BY DEF CallsAreOnOpenFiles
    <2>1. CASE u = t
      BY <1>1, <1>2, <2>1
    <2>2. CASE u # t
      BY <1>1, <1>2, <2>2 DEF IInv, CallsAreOnOpenFiles
    <2> QED
      BY <2>1, <2>2
  <1>5. CallsSeeDevice'
    BY <1>1, <1>2 DEF IInv, CallsSeeDevice, device
  <1>6. AreasMatchDevice'
    BY <1>1, <1>2 DEF IInv, AreasMatchDevice, SizedByDevice, SizeIsBacked, StaysInside, device
  <1> QED
    BY <1>3, <1>4, <1>5, <1>6 DEF IInv

LEMMA Invariant == ASSUME Positive PROVE Spec => []IInv
  <1>1. Init => IInv
    BY InitInvariant
  <1>2. IInv /\ [Next]_vars => IInv'
    <2> SUFFICES ASSUME IInv, [Next]_vars PROVE IInv'
      OBVIOUS
    <2>1. CASE UNCHANGED vars
      <3>1. TypeOK'
        BY <2>1 DEF IInv, TypeOK, vars, parameters, device, calls, Limit, Bytes
      <3>2. CallsAreOnOpenFiles' /\ CallsSeeDevice'
        BY <2>1 DEF IInv, CallsAreOnOpenFiles, CallsSeeDevice, vars, device, calls
      <3>3. AreasMatchDevice'
        BY <2>1 DEF IInv, AreasMatchDevice, SizedByDevice, SizeIsBacked, StaysInside,
                    vars, device, calls
      <3> QED
        BY <3>1, <3>2, <3>3 DEF IInv
    <2>2. CASE Next
      BY <2>2, FileStep, IoctlStep, TruncateStep, CallStep, ReadStep, WriteStep, WildStep DEF Next
    <2> QED
      BY <2>1, <2>2
  <1> QED
    BY <1>1, <1>2, PTL DEF Spec

(* The variables of the device and of its callers have their types.        *)
THEOREM TypeCorrect == ASSUME Positive PROVE Spec => []TypeOK
  <1>1. IInv => TypeOK
    BY DEF IInv
  <1> QED
    BY <1>1, Invariant, PTL

(* Whatever ioctl, seek, failed allocation or truncation comes in between, *)
(* arrays and areas have the sizes that scull_trim relies on, the list     *)
(* reaches as far as the size, and scull_read and scull_write stay inside, *)
(* until a truncation changes the quantum or qset in the middle of a call. *)
THEOREM AreasMatch == ASSUME Positive PROVE Spec => []AreasMatchDevice
  <1>1. IInv => AreasMatchDevice
    BY DEF IInv
  <1> QED
    BY <1>1, Invariant, PTL

-----------------------------------------------------------------------------
(* The refinement of SparseFile: what is in the file at a position.        *)

(* Quotient and remainder, as names by which the lemmas can be found.      *)
Quot(x, b) == x \div b
Rem(x, b)  == x % b

LEMMA Apart ==
  ASSUME NEW x \in Nat, NEW b \in Nat \ {0}
  PROVE  Quot(x, b) \in Nat /\ Rem(x, b) \in 0 .. b - 1 /\ x = b * Quot(x, b) + Rem(x, b)
  BY DEF Quot, Rem

(* Place is to take apart twice: by the size w of an item, and by qu.      *)
LEMMA PlaceTakesApart ==
  ASSUME NEW z, NEW qu, NEW se, NEW w, w = qu * se
  PROVE  Place(z, qu, se) = [item |-> Quot(z, w) + 1, s_pos |-> Quot(Rem(z, w), qu) + 1,
                             q_pos |-> Rem(Rem(z, w), qu) + 1]
  BY DEF Place, Quot, Rem

LEMMA PlaceOfPosition ==
  ASSUME NEW qu \in Nat \ {0}, NEW se \in Nat \ {0}, NEW x \in Nat
  PROVE  \E k \in Nat, a \in Nat, c \in 0 .. qu - 1 :
           /\ Place(x, qu, se) = [item |-> k + 1, s_pos |-> a + 1, q_pos |-> c + 1]
           /\ x = (qu * se) * k + (qu * a + c) /\ qu * (a + 1) <= qu * se
  <1>1. PICK w \in Nat \ {0} : w = qu * se
    BY Product
  <1>2. /\ Quot(x, w) \in Nat /\ Rem(x, w) \in 0 .. w - 1 /\ Rem(x, w) \in Nat
        /\ x = w * Quot(x, w) + Rem(x, w)
    BY Apart
  <1>3. PICK k \in Nat, r \in 0 .. w - 1 : k = Quot(x, w) /\ r = Rem(x, w) /\ r \in Nat
    BY <1>2
  <1>4. Quot(r, qu) \in Nat /\ Rem(r, qu) \in 0 .. qu - 1 /\ r = qu * Quot(r, qu) + Rem(r, qu)
    BY <1>3, Apart
  <1>5. PICK a \in Nat, c \in 0 .. qu - 1 : a = Quot(r, qu) /\ c = Rem(r, qu)
    BY <1>4
  <1>6. r = qu * a + c /\ qu * a \in Nat
    BY <1>4, <1>5
  <1>7. qu * a < qu * se
    BY <1>1, <1>3, <1>6
  <1>8. qu * (a + 1) <= qu * se
    BY <1>7, Quotient
  <1>9. x = (qu * se) * k + (qu * a + c)
    BY <1>1, <1>2, <1>3, <1>6
  <1>10. Place(x, qu, se) = [item |-> k + 1, s_pos |-> a + 1, q_pos |-> c + 1]
    BY <1>1, <1>3, <1>5, PlaceTakesApart
  <1> QED
    BY <1>8, <1>9, <1>10

(* Positions up to the end of an area are in it one after the other.       *)
LEMMA PlacesInArea ==
  ASSUME NEW qu \in Nat \ {0}, NEW se \in Nat \ {0}, NEW y \in Nat,
         NEW d \in Int, d \in 1 - Place(y, qu, se).q_pos .. qu - Place(y, qu, se).q_pos
  PROVE  /\ y + d \in Nat
         /\ Place(y + d, qu, se) =
              [item |-> Place(y, qu, se).item, s_pos |-> Place(y, qu, se).s_pos,
               q_pos |-> Place(y, qu, se).q_pos + d]
  <1>1. PICK k \in Nat, a \in Nat, c \in 0 .. qu - 1 :
          /\ Place(y, qu, se) = [item |-> k + 1, s_pos |-> a + 1, q_pos |-> c + 1]
          /\ y = (qu * se) * k + (qu * a + c) /\ qu * (a + 1) <= qu * se
    BY PlaceOfPosition
  <1>2. PICK w \in Nat \ {0} : w = qu * se
    BY Product
  <1>3. PICK e \in 0 .. qu - 1 : e = c + d
    BY <1>1
  <1>4. qu * a \in Nat /\ qu * (a + 1) = qu * a + qu /\ w * k \in Nat
    OBVIOUS
  <1>5. PICK r \in 0 .. w - 1 : r = qu * a + e /\ r \in Nat
    BY <1>1, <1>2, <1>4
  <1>6. PICK x \in Nat : x = w * k + r /\ x = y + d
    BY <1>1, <1>2, <1>3, <1>4, <1>5
  <1>7. Quot(x, w) = k /\ Rem(x, w) = r
    BY ONLY <1>6, x \in Nat, w \in Nat \ {0}, k \in Nat, r \in 0 .. w - 1 DEF Quot, Rem
  <1>8. Quot(r, qu) = a /\ Rem(r, qu) = e
    BY ONLY <1>5, qu \in Nat \ {0}, a \in Nat, e \in 0 .. qu - 1 DEF Quot, Rem
  <1>9. Place(x, qu, se) = [item |-> k + 1, s_pos |-> a + 1, q_pos |-> e + 1]
    BY <1>2, <1>7, <1>8, PlaceTakesApart
  <1>10. e + 1 = c + 1 + d
    BY <1>3
  <1> QED
    BY <1>1, <1>6, <1>9, <1>10

(* Positions in one area differ as their places in it.                     *)
LEMMA AreaHasOnePlace ==
  ASSUME NEW qu \in Nat \ {0}, NEW se \in Nat \ {0}, NEW x \in Nat, NEW y \in Nat,
         Place(x, qu, se).item = Place(y, qu, se).item,
         Place(x, qu, se).s_pos = Place(y, qu, se).s_pos
  PROVE  x - y = Place(x, qu, se).q_pos - Place(y, qu, se).q_pos
  <1>1. PICK k \in Nat, a \in Nat, c \in 0 .. qu - 1 :
          /\ Place(x, qu, se) = [item |-> k + 1, s_pos |-> a + 1, q_pos |-> c + 1]
          /\ x = (qu * se) * k + (qu * a + c) /\ qu * (a + 1) <= qu * se
    BY PlaceOfPosition
  <1>2. PICK m \in Nat, b \in Nat, e \in 0 .. qu - 1 :
          /\ Place(y, qu, se) = [item |-> m + 1, s_pos |-> b + 1, q_pos |-> e + 1]
          /\ y = (qu * se) * m + (qu * b + e) /\ qu * (b + 1) <= qu * se
    BY PlaceOfPosition
  <1>3. k = m /\ a = b
    BY <1>1, <1>2
  <1>4. PICK n \in Nat : n = (qu * se) * k + qu * a
    <2>1. (qu * se) * k \in Nat /\ qu * a \in Nat
      OBVIOUS
    <2> QED
      BY <2>1
  <1>5. x = n + c /\ y = n + e
    BY <1>1, <1>2, <1>3, <1>4
  <1> QED
    BY <1>1, <1>2, <1>5

(* The byte k of area j of item i of a list.                               *)
Cell(l, i, j, k) ==
  IF i \in DOMAIN l /\ l[i] # <<>> /\ l[i][j] # <<>> THEN l[i][j][k] ELSE Unknown

LEMMA ByteAtIsCell ==
  ASSUME NEW x
  PROVE  ByteAt(x) = Cell(data, Place(x, quantum, qset).item, Place(x, quantum, qset).s_pos,
                          Place(x, quantum, qset).q_pos)
  BY DEF ByteAt, Cell

LEMMA CellOfFollow ==
  ASSUME data \in Lists, NEW n \in Nat, NEW i, NEW j, NEW k
  PROVE  Cell(Follow(n), i, j, k) = Cell(data, i, j, k)
  <1>1. DOMAIN Follow(n) = 1 .. Len(Follow(n)) /\ DOMAIN data = 1 .. Len(data)
    BY FollowAdds, InList
  <1>2. Len(data) \in Nat /\ Len(Follow(n)) = IF n > Len(data) THEN n ELSE Len(data)
    BY FollowAdds, InList
  <1>3. i \in DOMAIN data => i \in DOMAIN Follow(n) /\ Follow(n)[i] = data[i]
    BY <1>1, <1>2, FollowAdds
  <1>4. i \in DOMAIN Follow(n) /\ i \notin DOMAIN data => Follow(n)[i] = <<>>
    BY <1>1, <1>2, FollowAdds
  <1> QED
    BY <1>3, <1>4 DEF Cell

(* An item gets an array of n areas that are not there.                    *)
PutArray(l, i, n) == [l EXCEPT ![i] = [h \in 1 .. n |-> <<>>]]

LEMMA CellOfArray ==
  ASSUME NEW l \in Lists, NEW i0 \in 1 .. Len(l), l[i0] = <<>>, NEW se \in Nat,
         NEW i, NEW j \in 1 .. se, NEW k
  PROVE  Cell(PutArray(l, i0, se), i, j, k) = Cell(l, i, j, k)
  <1> DEFINE m == PutArray(l, i0, se)
  <1>1. DOMAIN m = DOMAIN l /\ i0 \in DOMAIN l
    BY InList DEF PutArray
  <1>2. m[i0][j] = <<>> /\ \A h \in DOMAIN l : h # i0 => m[h] = l[h]
    BY <1>1 DEF PutArray
  <1> HIDE DEF m
  <1>3. i = i0 => Cell(m, i, j, k) = Cell(l, i, j, k)
    BY <1>2 DEF Cell
  <1>4. i # i0 => Cell(m, i, j, k) = Cell(l, i, j, k)
    BY <1>1, <1>2 DEF Cell
  <1> QED
    BY <1>3, <1>4 DEF m

LEMMA CellOfArea ==
  ASSUME NEW l \in Lists, NEW i0 \in 1 .. Len(l), NEW j0 \in 1 .. Len(l[i0]),
         NEW a \in Areas, a # <<>>, NEW qu, NEW se, Sized(l, qu, se),
         NEW i, NEW j \in 1 .. se, NEW k
  PROVE  Cell(Put(l, i0, j0, a), i, j, k) =
           IF i = i0 /\ j = j0 THEN a[k] ELSE Cell(l, i, j, k)
  <1> DEFINE b == [l[i0] EXCEPT ![j0] = a]
             m == [l EXCEPT ![i0] = b]
  <1>1. Put(l, i0, j0, a) = m
    BY DEF Put
  <1>2. /\ DOMAIN l = 1 .. Len(l) /\ DOMAIN l[i0] = 1 .. Len(l[i0]) /\ l[i0] # <<>>
        /\ Len(l[i0]) = se
    BY InList, EmptySeq DEF Sized
  <1>3. DOMAIN b = 1 .. se /\ b[j0] = a /\ \A h \in 1 .. se : h # j0 => b[h] = l[i0][h]
    BY <1>2
  <1>4. b # <<>>
    <2>1. j0 \in DOMAIN b
      BY <1>2, <1>3
    <2> HIDE DEF b
    <2> QED
      BY <2>1
  <1> HIDE DEF b
  <1>5. DOMAIN m = DOMAIN l /\ m[i0] = b /\ \A h \in DOMAIN l : h # i0 => m[h] = l[h]
    BY <1>2
  <1> HIDE DEF m
  <1>6. CASE i = i0 /\ j = j0
    BY <1>1, <1>2, <1>3, <1>4, <1>5, <1>6 DEF Cell
  <1>7. CASE i = i0 /\ j # j0
    BY <1>1, <1>2, <1>3, <1>4, <1>5, <1>7 DEF Cell
  <1>8. CASE i # i0
    BY <1>1, <1>5, <1>8 DEF Cell
  <1> QED
    BY <1>6, <1>7, <1>8

(* The list of a write in its stages has the same bytes as before.         *)
LEMMA CellOfWithArray ==
  ASSUME Positive, IInv, NEW t \in Threads, pc[t] = "lock", NEW i, NEW j \in 1 .. s[t], NEW k
  PROVE  Cell(WithArray(t), i, j, k) = Cell(data, i, j, k)
  <1> DEFINE i0 == At(t).item
             l == Followed(t)
             m == PutArray(l, i0, s[t])
  <1>1. /\ data \in Lists /\ i0 \in Nat /\ s[t] \in Nat
        /\ l \in Lists /\ Len(WithArray(t)) = Len(l) /\ i0 \in 1 .. Len(WithArray(t))
    BY CallIsThere, PlaceOfCall, WithArrayIsList
  <1>2. Cell(l, i, j, k) = Cell(data, i, j, k)
    BY <1>1, CellOfFollow DEF Followed
  <1>3. WithArray(t) = IF l[i0] # <<>> THEN l ELSE m
    BY DEF WithArray, PutArray
  <1> HIDE DEF l, i0
  <1>4. l[i0] = <<>> => Cell(m, i, j, k) = Cell(l, i, j, k)
    BY <1>1, CellOfArray
  <1> HIDE DEF m
  <1> QED
    BY <1>2, <1>3, <1>4

LEMMA AreaIsThere ==
  ASSUME Positive, IInv, NEW t \in Threads, pc[t] = "lock", ~stale,
         At(t).s_pos <= Len(WithArray(t)[At(t).item])
  PROVE  /\ WithArea(t)[At(t).item][At(t).s_pos] # <<>>
         /\ DOMAIN WithArea(t)[At(t).item][At(t).s_pos] = 1 .. q[t]
         /\ \A i, k : \A j \in 1 .. s[t] : k \in 1 .. q[t] =>
              Cell(WithArea(t), i, j, k) = Cell(WithArray(t), i, j, k)
  <1> DEFINE i0 == At(t).item
             j0 == At(t).s_pos
             l == WithArray(t)
             a == [k \in 1 .. q[t] |-> Unknown]
             m == Put(l, i0, j0, a)
  <1>1. /\ l \in Lists /\ i0 \in 1 .. Len(l) /\ Sized(l, q[t], s[t])
        /\ j0 \in 1 .. s[t] /\ s[t] \in Nat /\ q[t] \in Nat \ {0}
    BY WithArrayIsList, PlaceOfCall, CallIsThere
  <1>2. Len(l[i0]) \in Nat
    BY <1>1, InList
  <1>3. j0 \in 1 .. Len(l[i0])
    BY <1>1, <1>2
  <1>4. a \in Areas /\ Len(a) = q[t] /\ \A k \in 1 .. q[t] : a[k] = Unknown
    BY <1>1, BytesAreThere, Same DEF Areas
  <1>5. a # <<>> /\ DOMAIN a = 1 .. q[t]
    <2>1. 1 \in DOMAIN a
      BY <1>1
    <2> QED
      BY <2>1
  <1>6. WithArea(t) = IF l[i0][j0] # <<>> THEN l ELSE m
    BY DEF WithArea, Put
  <1> HIDE DEF a, l, i0, j0
  <1>7. m[i0][j0] = a
    <2>1. i0 \in DOMAIN l /\ j0 \in DOMAIN l[i0]
      BY <1>1, <1>3, InList
    <2> QED
      BY <2>1 DEF Put
  <1>8. l[i0][j0] # <<>> => DOMAIN l[i0][j0] = 1 .. q[t]
    <2>1. /\ i0 \in DOMAIN l /\ j0 \in DOMAIN l[i0] /\ l[i0] # <<>>
          /\ DOMAIN l[i0][j0] = 1 .. Len(l[i0][j0]) /\ (l[i0][j0] # <<>> => Len(l[i0][j0]) > 0)
      BY <1>1, <1>3, InList, EmptySeq
    <2>2. Len(l[i0][j0]) \in {0, q[t]}
      BY <1>1, <2>1 DEF Sized
    <2> QED
      BY <2>1, <2>2
  <1>9. ASSUME NEW i, NEW k \in 1 .. q[t], NEW j \in 1 .. s[t], l[i0][j0] = <<>>
        PROVE  Cell(m, i, j, k) = Cell(l, i, j, k)
    <2>1. Cell(m, i, j, k) = IF i = i0 /\ j = j0 THEN a[k] ELSE Cell(l, i, j, k)
      BY <1>1, <1>3, <1>4, <1>5, CellOfArea
    <2>2. i = i0 /\ j = j0 => Cell(l, i, j, k) = Unknown
      BY <1>9 DEF Cell
    <2> QED
      BY <1>4, <2>1, <2>2
  <1> HIDE DEF m
  <1>10. WithArea(t)[i0][j0] # <<>> /\ DOMAIN WithArea(t)[i0][j0] = 1 .. q[t]
    BY <1>5, <1>6, <1>7, <1>8
  <1>11. \A i, k : \A j \in 1 .. s[t] : k \in 1 .. q[t] =>
           Cell(WithArea(t), i, j, k) = Cell(l, i, j, k)
    BY <1>6, <1>9
  <1> QED
    BY <1>10, <1>11 DEF l, i0, j0

LEMMA CellOfStored ==
  ASSUME Positive, IInv, NEW t \in Threads, pc[t] = "lock", ~stale,
         At(t).s_pos <= Len(WithArray(t)[At(t).item]),
         NEW n \in Int, NEW b \in Int, NEW i, NEW j \in 1 .. s[t], NEW k \in 1 .. q[t]
  PROVE  Cell(Stored(t, n, b), i, j, k) =
           IF /\ i = At(t).item /\ j = At(t).s_pos
              /\ k \in At(t).q_pos .. (At(t).q_pos + n - 1)
           THEN (b + k - At(t).q_pos + Pos(t)) % NBytes ELSE Cell(data, i, j, k)
  <1> DEFINE i0 == At(t).item
             j0 == At(t).s_pos
             l == WithArea(t)
             byte(h) == (b + h - At(t).q_pos + Pos(t)) % NBytes
             in(h) == h \in At(t).q_pos .. (At(t).q_pos + n - 1)
             a == [h \in DOMAIN l[i0][j0] |-> IF in(h) THEN byte(h) ELSE l[i0][j0][h]]
  <1>1. /\ l \in Lists /\ i0 \in 1 .. Len(l) /\ j0 \in 1 .. Len(l[i0])
        /\ Sized(l, q[t], s[t])
    BY WithAreaIsList
  <1>2. l[i0][j0] # <<>> /\ DOMAIN l[i0][j0] = 1 .. q[t]
    BY AreaIsThere
  <1>3. Cell(l, i, j, k) = Cell(data, i, j, k)
    BY AreaIsThere, CellOfWithArray
  <1>4. \A h \in Int : byte(h) \in Bytes
    <2>1. At(t).q_pos \in Int /\ Pos(t) \in Int
      BY CallIsThere, PlaceOfCall
    <2>2. \A h \in Int : b + h - At(t).q_pos + Pos(t) \in Int
      BY ONLY <2>1, b \in Int
    <2> QED
      BY ONLY <2>2, BytesAreThere
  <1>5. Stored(t, n, b) = Put(l, i0, j0, a)
    BY DEF Stored, Put
  <1> HIDE DEF l, i0, j0, byte, in
  <1>6. /\ i0 \in DOMAIN l /\ l[i0] # <<>> /\ l[i0][j0] \in Areas
    BY <1>1, InList, EmptySeq
  <1>7. a \in Areas /\ a # <<>>
    <2>1. Len(l[i0][j0]) \in Nat /\ DOMAIN l[i0][j0] = 1 .. Len(l[i0][j0])
          /\ l[i0][j0] \in [1 .. Len(l[i0][j0]) -> Bytes]
      BY <1>6, LenProperties DEF Areas
    <2>2. a \in [1 .. Len(l[i0][j0]) -> Bytes]
      BY <1>4, <2>1
    <2>3. k \in DOMAIN a
      BY <1>2
    <2> QED
      BY <2>1, <2>2, <2>3 DEF Areas
  <1>8. a[k] = IF in(k) THEN byte(k) ELSE l[i0][j0][k]
    BY <1>2
  <1> HIDE DEF a
  <1>9. Cell(Put(l, i0, j0, a), i, j, k) = IF i = i0 /\ j = j0 THEN a[k] ELSE Cell(l, i, j, k)
    BY <1>1, <1>7, CellOfArea
  <1>10. i = i0 /\ j = j0 => Cell(l, i, j, k) = l[i0][j0][k]
    BY <1>2, <1>6 DEF Cell
  <1>11. Cell(Stored(t, n, b), i, j, k) =
           IF i = i0 /\ j = j0 /\ in(k) THEN byte(k) ELSE Cell(data, i, j, k)
    BY <1>3, <1>5, <1>8, <1>9, <1>10
  <1> QED
    BY <1>11 DEF i0, j0, in, byte

LEMMA ByteOfStored ==
  ASSUME Positive, IInv, NEW t \in Threads, pc[t] = "lock", ~stale,
         At(t).s_pos <= Len(WithArray(t)[At(t).item]),
         NEW n \in Nat, n <= q[t] - At(t).q_pos + 1, NEW b \in Int,
         data' = Stored(t, n, b), UNCHANGED <<quantum, qset>>, NEW x \in Nat
  PROVE  ByteAt(x)' = IF x \in Pos(t) .. (Pos(t) + n - 1) THEN (b + x) % NBytes ELSE ByteAt(x)
  <1> DEFINE pl == Place(x, q[t], s[t])
  <1>1. /\ q[t] = quantum /\ s[t] = qset /\ q[t] \in Nat \ {0} /\ s[t] \in Nat \ {0}
        /\ Pos(t) \in Nat
    BY CallIsThere
  <1>2. /\ At(t) = Place(Pos(t), q[t], s[t]) /\ At(t).q_pos \in 1 .. q[t]
        /\ pl.s_pos \in 1 .. s[t] /\ pl.q_pos \in 1 .. q[t]
    BY <1>1, PlaceOfCall, PlaceIsInside DEF At
  <1>3. /\ ByteAt(x)' = Cell(data', pl.item, pl.s_pos, pl.q_pos)
        /\ ByteAt(x) = Cell(data, pl.item, pl.s_pos, pl.q_pos)
    BY <1>1 DEF ByteAt, Cell
  <1> HIDE DEF pl
  <1>4. ByteAt(x)' =
          IF /\ pl.item = At(t).item /\ pl.s_pos = At(t).s_pos
             /\ pl.q_pos \in At(t).q_pos .. (At(t).q_pos + n - 1)
          THEN (b + pl.q_pos - At(t).q_pos + Pos(t)) % NBytes ELSE ByteAt(x)
    BY <1>2, <1>3, CellOfStored
  <1>5. CASE x \in Pos(t) .. (Pos(t) + n - 1)
    <2>1. At(t).q_pos \in 1 .. q[t] /\ Pos(t) \in Int /\ q[t] \in Int
      BY <1>1, <1>2
    <2>2. x - Pos(t) \in 1 - At(t).q_pos .. q[t] - At(t).q_pos /\ x - Pos(t) \in Int
      BY ONLY <1>5, <2>1, n \in Nat, x \in Nat, n <= q[t] - At(t).q_pos + 1
    <2>3. Place(Pos(t) + (x - Pos(t)), q[t], s[t]) =
            [item |-> At(t).item, s_pos |-> At(t).s_pos, q_pos |-> At(t).q_pos + (x - Pos(t))]
      BY <1>1, <1>2, <2>2, PlacesInArea
    <2>4. Pos(t) + (x - Pos(t)) = x
      BY ONLY <2>1, x \in Nat
    <2>5. pl.item = At(t).item /\ pl.s_pos = At(t).s_pos /\ pl.q_pos = At(t).q_pos + (x - Pos(t))
      <3>1. pl = [item |-> At(t).item, s_pos |-> At(t).s_pos, q_pos |-> At(t).q_pos + (x - Pos(t))]
        BY ONLY <2>3, <2>4 DEF pl
      <3> QED
        BY ONLY <3>1
    <2>6. /\ pl.q_pos \in At(t).q_pos .. (At(t).q_pos + n - 1)
          /\ b + pl.q_pos - At(t).q_pos + Pos(t) = b + x
      BY ONLY <1>5, <2>1, <2>5, n \in Nat, b \in Int, x \in Nat
    <2> QED
      BY <1>4, <1>5, <2>5, <2>6
  <1>6. CASE x \notin Pos(t) .. (Pos(t) + n - 1)
    <2>1. ASSUME pl.item = At(t).item, pl.s_pos = At(t).s_pos
          PROVE  pl.q_pos \notin At(t).q_pos .. (At(t).q_pos + n - 1)
      <3>1. x - Pos(t) = pl.q_pos - At(t).q_pos
        <4>1. /\ Place(x, q[t], s[t]).item = Place(Pos(t), q[t], s[t]).item
              /\ Place(x, q[t], s[t]).s_pos = Place(Pos(t), q[t], s[t]).s_pos
          BY <1>2, <2>1 DEF pl
        <4>2. x - Pos(t) = Place(x, q[t], s[t]).q_pos - Place(Pos(t), q[t], s[t]).q_pos
          <5>1. x \in Nat
            OBVIOUS
          <5> QED
            BY ONLY <1>1, <4>1, <5>1, AreaHasOnePlace
        <4> QED
          BY <1>2, <4>2 DEF pl
      <3> QED
        BY <1>1, <1>2, <1>6, <3>1
    <2> QED
      BY <1>4, <1>6, <2>1
  <1> QED
    BY <1>5, <1>6

(* Steps that leave all bytes where they are.                              *)
LEMMA SameBytes ==
  ASSUME \A x \in 0 .. Limit - 1 : ByteAt(x)' = ByteAt(x), UNCHANGED size
  PROVE  /\ out' = out => UNCHANGED File!vars
         /\ out' = Nothing => File!Next
  <1>1. [x \in 0 .. Limit - 1 |-> ByteAt(x)]' = [x \in 0 .. Limit - 1 |-> ByteAt(x)]
    <2>1. Limit' = Limit
      BY DEF Limit
    <2> QED
      BY <2>1
  <1>2. out' = Nothing => File!ReadNothing
    BY <1>1 DEF File!ReadNothing, File!Nothing, Nothing
  <1> QED
    BY <1>1, <1>2 DEF File!vars, File!Next

LEMMA UnchangedData ==
  ASSUME UNCHANGED <<data, quantum, qset>>
  PROVE  \A x : ByteAt(x)' = ByteAt(x)
  BY DEF ByteAt

LEMMA StoreImplements ==
  ASSUME Positive, IInv, NEW t \in Threads, pc[t] = "lock", ~stale,
         At(t).s_pos <= Len(WithArray(t)[At(t).item]),
         NEW n \in Nat, n <= q[t] - At(t).q_pos + 1, NEW b \in Int,
         data' = Stored(t, n, b), UNCHANGED <<quantum, qset>>
  PROVE  File!Put(Pos(t), n)
  <1> DEFINE bytes == [x \in Pos(t) .. (Pos(t) + n - 1) |-> (b + x) % NBytes]
  <1>1. Pos(t) \in Nat /\ Limit' = Limit
    BY CallIsThere DEF Limit
  <1>2. \A x \in Int : x % NBytes \in 0 .. NBytes - 1
    BY BytesAssumption DEF BytesAssumption
  <1>3. bytes \in [Pos(t) .. (Pos(t) + n - 1) -> 0 .. (NBytes - 1)]
    <2>1. \A x \in Pos(t) .. (Pos(t) + n - 1) : b + x \in Int
      BY <1>1
    <2>2. \A x \in Pos(t) .. (Pos(t) + n - 1) : (b + x) % NBytes \in 0 .. NBytes - 1
      BY <1>2, <2>1
    <2> QED
      BY <2>2
  <1>4. \A x \in 0 .. Limit - 1 :
          ByteAt(x)' = IF x \in Pos(t) .. (Pos(t) + n - 1) THEN (b + x) % NBytes ELSE ByteAt(x)
    BY ByteOfStored
  <1>5. \A x \in 0 .. Limit - 1 :
          ByteAt(x)' = IF x \in DOMAIN bytes THEN bytes[x] ELSE [y \in 0 .. Limit - 1 |-> ByteAt(y)][x]
    BY <1>4
  <1> HIDE DEF bytes
  <1>6. [x \in 0 .. Limit - 1 |-> ByteAt(x)]' =
          [x \in 0 .. Limit - 1 |->
             IF x \in DOMAIN bytes THEN bytes[x] ELSE [y \in 0 .. Limit - 1 |-> ByteAt(y)][x]]
    BY <1>1, <1>5
  <1> QED
    BY <1>3, <1>6 DEF File!Put

(* Some call asks for something, so that there is a position to write to.  *)
Asking == \E n \in Counts : n > 0

LEMMA LargestIsGreater ==
  /\ MaxOf(Counts) \in Nat /\ Limit = MaxPos + MaxOf(Counts)
  /\ \A n \in Counts \cup {0} : n <= MaxOf(Counts)
  /\ Asking => MaxOf(Counts) > 0
  <1>1. MaxOf(Counts) \in Counts /\ \A n \in Counts : n <= MaxOf(Counts) /\ n \in Nat
    BY CountsAssumption DEF CountsAssumption, MaxOf
  <1> QED
    BY <1>1 DEF Limit, Asking

LEMMA ReadImplements ==
  ASSUME Positive, IInv, NEW t \in Threads, ReadData(t), ~stale
  PROVE  File!Next
  <1> DEFINE n == ReadSize(t)
             area == data[At(t).item][At(t).s_pos]
  <1>1. /\ pc[t] = "lock" /\ Pos(t) < size
        /\ At(t).item \in DOMAIN data /\ At(t).s_pos \in DOMAIN data[At(t).item]
        /\ area # <<>> /\ UNCHANGED <<quantum, qset, size, data>>
        /\ out' = [x \in Pos(t) .. (Pos(t) + n - 1) |-> area[At(t).q_pos + x - Pos(t)]]
    BY DEF ReadData, Locked, device
  <1>2. /\ q[t] = quantum /\ s[t] = qset /\ q[t] \in Nat \ {0} /\ s[t] \in Nat \ {0}
        /\ Pos(t) \in Nat /\ size \in Nat /\ count[t] \in Nat
        /\ At(t) = Place(Pos(t), q[t], s[t]) /\ At(t).q_pos \in 1 .. q[t]
    BY <1>1, CallIsThere, PlaceOfCall DEF At
  <1>3. size <= Limit /\ Limit \in Nat /\ count[t] <= MaxOf(Counts) /\ MaxOf(Counts) \in Nat
    BY LargestIsGreater, LimitIsNat DEF IInv, TypeOK
  <1>4. /\ n \in Nat /\ n <= q[t] - At(t).q_pos + 1
        /\ n <= count[t] /\ n <= size - Pos(t)
    <2>1. MinOf({count[t], size - Pos(t)}) =
            IF count[t] <= size - Pos(t) THEN count[t] ELSE size - Pos(t)
      BY <1>2, MinOfTwo
    <2>2. MinOf({count[t], size - Pos(t)}) \in Nat
      BY <1>1, <1>2, <2>1
    <2>3. /\ n \in Nat /\ n <= MinOf({count[t], size - Pos(t)})
          /\ n <= q[t] - At(t).q_pos + 1
      BY <1>1, <2>2, SizeOfCall DEF ReadSize
    <2> QED
      BY <1>2, <2>1, <2>3
  <1>5. data[At(t).item] # <<>>
    BY <1>1
  <1> HIDE DEF n
  <1>6. ASSUME NEW x \in Pos(t) .. (Pos(t) + n - 1)
        PROVE  ByteAt(x) = area[At(t).q_pos + x - Pos(t)]
    <2>1. x - Pos(t) \in 1 - At(t).q_pos .. q[t] - At(t).q_pos /\ x - Pos(t) \in Int
      BY <1>2, <1>4
    <2>2. Place(Pos(t) + (x - Pos(t)), q[t], s[t]) =
            [item |-> At(t).item, s_pos |-> At(t).s_pos, q_pos |-> At(t).q_pos + (x - Pos(t))]
      BY <1>2, <2>1, PlacesInArea
    <2>3. /\ Pos(t) + (x - Pos(t)) = x
          /\ At(t).q_pos + (x - Pos(t)) = At(t).q_pos + x - Pos(t)
      <3>1. x \in Int /\ Pos(t) \in Int /\ At(t).q_pos \in Int
        BY <1>2
      <3> QED
        BY ONLY <3>1
    <2>4. Place(x, quantum, qset) =
            [item |-> At(t).item, s_pos |-> At(t).s_pos, q_pos |-> At(t).q_pos + x - Pos(t)]
      BY <1>2, <2>2, <2>3
    <2> QED
      BY <1>1, <1>5, <2>4 DEF ByteAt
  <1>7. [x \in 0 .. Limit - 1 |-> ByteAt(x)]' = [x \in 0 .. Limit - 1 |-> ByteAt(x)]
    <2>1. \A x : ByteAt(x)' = ByteAt(x)
      BY <1>1, UnchangedData
    <2>2. Limit' = Limit
      BY DEF Limit
    <2> QED
      BY <2>1, <2>2
  <1>8. \A x \in Pos(t) .. (Pos(t) + n - 1) : x \in 0 .. Limit - 1
    BY <1>2, <1>3, <1>4
  <1>9. out' = [x \in Pos(t) .. (Pos(t) + n - 1) |-> [y \in 0 .. Limit - 1 |-> ByteAt(y)][x]]
    BY <1>1, <1>6, <1>8 DEF n
  <1>10. File!Read(Pos(t), n)
    <2>1. Pos(t) + n <= size
      BY <1>2, <1>4
    <2> QED
      BY ONLY <1>1, <1>7, <1>9, <2>1 DEF File!Read
  <1>11. Pos(t) \in 0 .. Limit - 1 /\ n \in 0 .. MaxOf(Counts)
    BY <1>1, <1>2, <1>3, <1>4
  <1> QED
    BY <1>10, <1>11 DEF File!Next

LEMMA WriteImplements ==
  ASSUME Positive, Asking, IInv, NEW t \in Threads, WriteData(t) \/ WriteFault(t), ~stale
  PROVE  File!Next
  <1>1. /\ pc[t] = "lock" /\ op[t] = "write" /\ UNCHANGED <<quantum, qset, out>>
        /\ ~Outside(WithArray(t), At(t), WriteSize(t))
    BY DEF WriteData, WriteFault, WriteFits, Locked
  <1>2. /\ Pos(t) \in Nat /\ Pos(t) <= MaxPos /\ size \in Nat /\ count[t] \in Nat
        /\ q[t] \in Nat /\ s[t] \in Nat
    BY <1>1, CallIsThere
  <1>3. At(t).s_pos \in 1 .. s[t] /\ At(t).q_pos \in 1 .. q[t]
    BY <1>1, PlaceOfCall
  <1>4. At(t).s_pos <= Len(WithArray(t)[At(t).item])
    <2>1. /\ WithArray(t) \in Lists /\ At(t).item \in 1 .. Len(WithArray(t))
          /\ WithArray(t)[At(t).item] # <<>>
      BY <1>1, WithArrayIsList
    <2>2. Len(WithArray(t)[At(t).item]) \in Nat
      BY <2>1, InList
    <2>3. ~(At(t).s_pos > Len(WithArray(t)[At(t).item]))
      BY <1>1, <2>1 DEF Outside
    <2> QED
      BY <1>2, <1>3, <2>2, <2>3
  <1>5. /\ WriteSize(t) \in Nat /\ WriteSize(t) <= count[t]
        /\ WriteSize(t) <= q[t] - At(t).q_pos + 1
    BY <1>1, <1>2, SizeOfCall DEF WriteSize
  <1>6. Pos(t) \in 0 .. Limit - 1 /\ WriteSize(t) \in 0 .. MaxOf(Counts)
    <2>1. /\ MaxOf(Counts) \in Nat /\ MaxOf(Counts) > 0 /\ Limit = MaxPos + MaxOf(Counts)
          /\ MaxPos \in Nat /\ count[t] <= MaxOf(Counts)
      BY LargestIsGreater, OffsetsAssumption DEF OffsetsAssumption, IInv, TypeOK
    <2> QED
      BY <1>2, <1>5, <2>1
  <1>7. CASE WriteData(t)
    <2>1. PICK b \in 0 .. (NBytes - 1) : data' = Stored(t, WriteSize(t), b)
      BY <1>7 DEF WriteData
    <2>2. File!Put(Pos(t), WriteSize(t))
      <3>1. b \in Int
        OBVIOUS
      <3> QED
        BY <1>1, <1>4, <1>5, <2>1, <3>1, StoreImplements
    <2>3. size' = MaxOf({size, Pos(t) + WriteSize(t)})
      BY <1>7 DEF WriteData, NewSize
    <2>4. size' = IF Pos(t) + WriteSize(t) > size THEN Pos(t) + WriteSize(t) ELSE size
      BY <1>2, <1>5, <2>3, MaxOfTwo
    <2>5. File!Write(Pos(t), WriteSize(t))
      BY <1>1, <2>2, <2>4 DEF File!Write
    <2> QED
      BY <1>6, <2>5 DEF File!Next
  <1>8. CASE WriteFault(t)
    <2>1. PICK n \in 0 .. (WriteSize(t) - 1), b \in 0 .. (NBytes - 1) : data' = Stored(t, n, b)
      BY <1>8 DEF WriteFault
    <2>2. n \in Nat /\ b \in Int /\ n <= q[t] - At(t).q_pos + 1 /\ n \in 0 .. MaxOf(Counts)
      <3>1. n \in Nat /\ n < WriteSize(t)
        BY <1>5
      <3>2. b \in Int
        OBVIOUS
      <3>3. n <= q[t] - At(t).q_pos + 1
        <4>1. q[t] - At(t).q_pos + 1 \in Int
          BY <1>2, <1>3
        <4> QED
          BY ONLY <1>5, <3>1, <4>1
      <3>4. n \in 0 .. MaxOf(Counts)
        BY ONLY <1>5, <1>6, <3>1, LargestIsGreater
      <3> QED
        BY ONLY <3>1, <3>2, <3>3, <3>4
    <2>3. File!Put(Pos(t), n)
      BY <1>1, <1>4, <2>1, <2>2, StoreImplements
    <2>4. size' = size
      BY <1>8 DEF WriteFault
    <2>5. File!WriteFault(Pos(t), n)
      BY <1>1, <2>3, <2>4 DEF File!WriteFault
    <2> QED
      BY <1>6, <2>2, <2>5 DEF File!Next
  <1> QED
    BY <1>7, <1>8

(* Allocations that fail, in a read or a write, and holes.                 *)
LEMMA GrowImplements ==
  ASSUME Positive, IInv, NEW t \in Threads,
         ReadHole(t) \/ ReadNoMemory(t) \/ WriteNoMemory(t), ~stale
  PROVE  UNCHANGED File!vars
  <1>1. pc[t] = "lock" /\ UNCHANGED <<quantum, qset, size, out>>
    BY DEF ReadHole, ReadNoMemory, WriteNoMemory, WriteFits, Locked
  <1>2. /\ data \in Lists /\ Len(data) \in Nat /\ At(t).item \in Nat
        /\ q[t] = quantum /\ s[t] = qset
        /\ q[t] \in Nat \ {0} /\ s[t] \in Nat \ {0}
    BY <1>1, CallIsThere, PlaceOfCall
  <1>3. \/ \E n \in Nat : data' = Follow(n)
        \/ data' = WithArray(t)
    <2>1. CASE ReadHole(t)
      BY <1>2, <2>1 DEF ReadHole
    <2>2. CASE \E n \in Len(data) .. (At(t).item - 1) : data' = Follow(n)
      <3>1. PICK n \in Len(data) .. (At(t).item - 1) : data' = Follow(n)
        BY <2>2
      <3>2. n \in Nat
        BY <1>2
      <3> QED
        BY <3>1, <3>2
    <2>3. CASE data' = Followed(t) \/ data' = WithArray(t)
      BY <1>2, <2>3 DEF Followed
    <2> QED
      BY <2>1, <2>2, <2>3 DEF ReadNoMemory, WriteNoMemory
  <1>4. ASSUME NEW i, NEW j \in 1 .. s[t], NEW k PROVE Cell(data', i, j, k) = Cell(data, i, j, k)
    <2>1. CASE \E n \in Nat : data' = Follow(n)
      BY <1>2, <2>1, CellOfFollow
    <2>2. CASE data' = WithArray(t)
      BY <1>1, <2>2, CellOfWithArray
    <2> QED
      BY <1>3, <2>1, <2>2
  <1>5. ASSUME NEW x \in Nat PROVE ByteAt(x)' = ByteAt(x)
    <2> DEFINE pl == Place(x, quantum, qset)
    <2>1. /\ ByteAt(x)' = Cell(data', pl.item, pl.s_pos, pl.q_pos)
          /\ ByteAt(x) = Cell(data, pl.item, pl.s_pos, pl.q_pos)
      BY <1>1 DEF ByteAt, Cell
    <2>2. pl.s_pos \in 1 .. s[t]
      BY <1>2, PlaceIsInside
    <2> HIDE DEF pl
    <2> QED
      BY <1>4, <2>1, <2>2
  <1>6. \A x \in 0 .. Limit - 1 : ByteAt(x)' = ByteAt(x)
    BY <1>5, LimitIsNat
  <1> QED
    BY <1>1, <1>6, SameBytes

(* The list is given up: every byte is again what kmalloc will return.     *)
LEMMA TruncateImplements ==
  ASSUME NEW t \in Threads, NEW f \in Files, OpenTruncate(t, f)
  PROVE  File!Next \/ UNCHANGED File!vars
  <1>1. CASE TrimWild
    <2>1. UNCHANGED <<data, quantum, qset, size, out>>
      BY <1>1 DEF OpenTruncate, device
    <2> QED
      BY <2>1, UnchangedData, SameBytes
  <1>2. CASE ~TrimWild
    <2>1. data' = <<>> /\ size' = 0 /\ out' = out
      BY <1>2 DEF OpenTruncate, Trim
    <2>2. \A x : ByteAt(x)' = Unknown
      BY <2>1 DEF ByteAt
    <2>3. Limit' = Limit
      BY DEF Limit
    <2>4. [x \in 0 .. Limit - 1 |-> ByteAt(x)]' = [x \in 0 .. Limit - 1 |-> Unknown]
      BY <2>2, <2>3
    <2>5. File!Truncate
      BY <2>1, <2>4 DEF File!Truncate
    <2> QED
      BY <2>5 DEF File!Next
  <1> QED
    BY <1>1, <1>2

(* Steps that touch neither the list nor the size.                         *)
LEMMA IdleImplements ==
  ASSUME UNCHANGED <<data, quantum, qset, size>>, out' = out \/ out' = Nothing
  PROVE  File!Next \/ UNCHANGED File!vars
  BY UnchangedData, SameBytes

LEMMA StepImplements ==
  ASSUME Positive, Asking, IInv, Next, ~stale'
  PROVE  File!Next \/ UNCHANGED File!vars
  <1>1. CASE \E f \in Files :
                \/ Open(f) \/ Release(f)
                \/ \E off \in Offsets, w \in {"SEEK_SET", "SEEK_CUR", "SEEK_END"} : Seek(f, off, w)
    BY <1>1, IdleImplements DEF Open, Release, Seek, device
  <1>2. CASE \/ \E n \in Quanta : SetQuantum(n)
             \/ \E n \in Qsets : SetQset(n)
             \/ Reset
    BY <1>2, IdleImplements DEF SetQuantum, SetQset, Reset, device
  <1>3. ASSUME NEW t \in Threads, NEW f \in Files, OpenTruncate(t, f)
        PROVE  File!Next \/ UNCHANGED File!vars
    BY <1>3, TruncateImplements
  <1>4. ASSUME NEW t \in Threads, NEW f \in Files,
               NEW o \in {"read", "write"}, NEW n \in Counts, Call(t, f, o, n)
        PROVE  File!Next \/ UNCHANGED File!vars
    BY <1>4, IdleImplements DEF Call, device
  <1>5. ASSUME NEW t \in Threads,
               ReadEnd(t) \/ Interrupt(t) \/ ReadWild(t) \/ WriteWild(t)
        PROVE  File!Next \/ UNCHANGED File!vars
    BY <1>5, IdleImplements DEF ReadEnd, Interrupt, ReadWild, WriteWild, GoWild, device
  <1>6. ASSUME NEW t \in Threads, ReadHole(t) \/ ReadNoMemory(t) \/ WriteNoMemory(t)
        PROVE  File!Next \/ UNCHANGED File!vars
    <2>1. ~stale
      BY <1>6 DEF ReadHole, ReadNoMemory, WriteNoMemory
    <2> QED
      BY <1>6, <2>1, GrowImplements
  <1>7. ASSUME NEW t \in Threads, ReadData(t)
        PROVE  File!Next \/ UNCHANGED File!vars
    <2>1. ~stale
      BY <1>7 DEF ReadData
    <2> QED
      BY <1>7, <2>1, ReadImplements
  <1>8. ASSUME NEW t \in Threads, WriteData(t) \/ WriteFault(t)
        PROVE  File!Next \/ UNCHANGED File!vars
    <2>1. ~stale
      BY <1>8 DEF WriteData, WriteFault
    <2> QED
      BY <1>8, <2>1, WriteImplements
  <1> HIDE DEF File!Next, File!vars
  <1> QED
    BY <1>1, <1>2, <1>3, <1>4, <1>5, <1>6, <1>7, <1>8 DEF Next

(***************************************************************************)
(* What is read from a position of the bare device is what was last        *)
(* written there, or what kmalloc returned, until a truncation changes the *)
(* quantum in the middle of a call: the list of arrays of scull_read,      *)
(* scull_write and scull_follow implements the file that SparseFile is.    *)
(***************************************************************************)
THEOREM Refinement == ASSUME Positive, Asking PROVE Spec => ImplementsSparseFile
  <1>1. Init => File!Init
    <2>1. Init => data = <<>> /\ size = 0 /\ out = Nothing
      BY DEF Init
    <2>2. Init => \A x : ByteAt(x) = Unknown
      BY <2>1 DEF ByteAt
    <2> QED
      BY <2>1, <2>2 DEF File!Init, File!Nothing, Nothing
  <1>2. IInv /\ [Next]_vars => [stale' \/ File!Next \/ UNCHANGED File!vars]_vars
    BY StepImplements
  <1> QED
    BY <1>1, <1>2, Invariant, PTL DEF Spec, ImplementsSparseFile
=============================================================================
