---------------------------- MODULE FormatProofs ----------------------------
(***************************************************************************)
(* Proofs about Format, for all calls, whatever pieces they are made of.   *)
(*                                                                         *)
(* What FlattenSeq and FoldLeft compute is said by induction over numbers, *)
(* which rests on every set of numbers having a least one.  The inductive  *)
(* invariant IInv names the piece that the interpreter is in, how much of  *)
(* it has been printed, and, in uitoa, which figures are in the buffer.    *)
(***************************************************************************)
EXTENDS Format, FiniteSetTheorems, SequenceTheorems, TLAPS

-----------------------------------------------------------------------------
(* Induction over data. *)

(* Of any subsets of a finite set, one has none of the others in it. *)
LEMMA Smallest ==
  ASSUME NEW S, IsFiniteSet(S), NEW T \in SUBSET SUBSET S, T # {}
  PROVE  \E s \in T : \A t \in T : t \subseteq s => t = s
<1>1. IsWellFoundedOn(StrictSubsetOrdering(S), SUBSET S)
  BY FS_StrictSubsetOrderingWellFounded, FS_FiniteSubsetsOfFinite
<1>2. PICK s \in T : \A t \in T : ~(<<t, s>> \in StrictSubsetOrdering(S))
  BY <1>1, WFMin
<1>3. \A t \in T : t \subseteq s => t = s
  BY <1>2 DEF StrictSubsetOrdering
<1> QED  BY <1>2, <1>3

(* Of any numbers, one is the least. *)
LEMMA LeastNumber ==
  ASSUME NEW T \in SUBSET Nat, T # {}
  PROVE  \E n \in T : \A k \in T : n <= k
<1>1. PICK z \in T : TRUE
  OBVIOUS
<1> DEFINE V(k) == 0 .. k
           W == {V(k) : k \in {k \in T : k <= z}}
<1>2. IsFiniteSet(0 .. z)
  BY FS_Interval
<1>3. W \in SUBSET SUBSET (0 .. z) /\ W # {}
  <2>1. V(z) \in W
    OBVIOUS
  <2> QED  BY <2>1
<1>4. PICK s \in W : \A t \in W : t \subseteq s => t = s
  <2> DEFINE N == 0 .. z
  <2>1. IsFiniteSet(N) /\ W \in SUBSET SUBSET N /\ W # {}
    BY <1>2, <1>3
  <2> HIDE DEF N, W
  <2> QED  BY <2>1, Smallest
<1>5. PICK n \in T : n <= z /\ s = V(n)
  OBVIOUS
<1>6. ASSUME NEW k \in T, k < n PROVE FALSE
  <2>1. n \in Nat /\ k \in Nat /\ z \in Nat /\ k <= z
    BY <1>5, <1>6
  <2>2. V(k) \in W /\ V(k) \subseteq s
    BY <1>5, <1>6, <2>1
  <2>3. n \in V(n) /\ n \notin V(k)
    BY <1>6, <2>1
  <2> HIDE DEF V, W
  <2> QED  BY <1>4, <1>5, <2>2, <2>3
<1> QED  BY <1>6

(* What holds of 0, and of each number up to n with the one before it, holds *)
(* of all of them: T is the set of those it holds of.                        *)
LEMMA Induction ==
  ASSUME NEW n \in Nat, NEW T, 0 \in T, \A k \in 1 .. n : k - 1 \in T => k \in T
  PROVE  0 .. n \subseteq T
<1> DEFINE Bad == {k \in 0 .. n : k \notin T}
<1> SUFFICES ASSUME Bad # {} PROVE FALSE
  OBVIOUS
<1>1. Bad \in SUBSET Nat
  OBVIOUS
<1> HIDE DEF Bad
<1>2. PICK m \in Bad : \A k \in Bad : m <= k
  BY <1>1, LeastNumber
<1>3. m \in 0 .. n /\ m \notin T
  BY <1>2 DEF Bad
<1>4. m # 0 /\ m \in 1 .. n /\ m - 1 \in 0 .. n
  BY <1>3
<1>5. m - 1 \notin Bad
  BY <1>2, <1>4
<1>6. m - 1 \in T
  BY <1>4, <1>5 DEF Bad
<1> QED  BY <1>3, <1>4, <1>6

-----------------------------------------------------------------------------
(* Sequences of sequences, one after the other. *)

(* P[k] is the first k of the sequences in u. *)
IsFronts(u, P) ==
  /\ P = [k \in 0 .. Len(u) |-> P[k]]
  /\ P[0] = <<>>
  /\ \A k \in 1 .. Len(u) : P[k] = P[k - 1] \o u[k]

Fronts(u) == CHOOSE P : IsFronts(u, P)

(* The function that FlattenSeq takes its last value of. *)
Flat(u, g) == g = [k \in 1 .. Len(u) |-> IF k = 1 THEN u[k] ELSE g[k - 1] \o u[k]]

(* FlattenSeq, in these terms. *)
LEMMA FlatValue ==
  ASSUME NEW u, Len(u) # 0
  PROVE  FlattenSeq(u) = (CHOOSE g : Flat(u, g))[Len(u)]
BY Zenon DEF FlattenSeq, Flat

FrontsUpto(S, u, P, n) ==
  /\ P \in [0 .. n -> Seq(S)] /\ P[0] = <<>>
  /\ \A k \in 1 .. n : P[k] = P[k - 1] \o u[k]

(* There is such a P, from the empty front up, *)
LEMMA FrontsExist ==
  ASSUME NEW S, NEW u \in Seq(Seq(S))
  PROVE  \E P \in [0 .. Len(u) -> Seq(S)] : IsFronts(u, P)
<1> DEFINE n == Len(u)
           T == {k \in 0 .. n : \E P : FrontsUpto(S, u, P, k)}
<1>1. n \in Nat /\ \A k \in 1 .. n : u[k] \in Seq(S)
  OBVIOUS
<1>2. 0 \in T
  <2> DEFINE P == [k \in 0 .. 0 |-> <<>>]
  <2>1. P \in [0 .. 0 -> Seq(S)] /\ P[0] = <<>>
    BY EmptySeq
  <2>2. FrontsUpto(S, u, P, 0)
    BY <2>1 DEF FrontsUpto
  <2> QED  BY <1>1, <2>2
<1>3. ASSUME NEW k \in 1 .. n, k - 1 \in T PROVE k \in T
  <2>1. PICK P : FrontsUpto(S, u, P, k - 1)
    BY <1>3
  <2> DEFINE Q == [j \in 0 .. k |-> IF j = k THEN P[k - 1] \o u[k] ELSE P[j]]
  <2>2. P \in [0 .. (k - 1) -> Seq(S)] /\ P[0] = <<>>
    BY <2>1 DEF FrontsUpto
  <2>3. P[k - 1] \o u[k] \in Seq(S)
    <3>1. P[k - 1] \in Seq(S) /\ u[k] \in Seq(S)
      BY <1>1, <2>2
    <3> QED  BY <3>1, ConcatProperties
  <2>4. Q \in [0 .. k -> Seq(S)] /\ Q[0] = <<>>
    BY <2>2, <2>3
  <2>5. ASSUME NEW j \in 1 .. k PROVE Q[j] = Q[j - 1] \o u[j]
    <3>1. j \in 0 .. k /\ j - 1 \in 0 .. k /\ j - 1 # k
      OBVIOUS
    <3>2. Q[j - 1] = P[j - 1] /\ Q[j] = IF j = k THEN P[k - 1] \o u[k] ELSE P[j]
      BY <3>1, Zenon
    <3>3. ASSUME j # k PROVE P[j] = P[j - 1] \o u[j]
      <4>1. j \in 1 .. (k - 1)
        BY <3>1, <3>3
      <4> QED  BY <2>1, <4>1, Zenon DEF FrontsUpto
    <3> HIDE DEF Q
    <3> QED  BY <3>2, <3>3
  <2> HIDE DEF Q
  <2>6. FrontsUpto(S, u, Q, k)
    BY <2>4, <2>5 DEF FrontsUpto
  <2> QED  BY <2>6
<1> HIDE DEF T
<1>4. n \in T
  <2>1. 0 .. n \subseteq T
    BY <1>1, <1>2, <1>3, Induction
  <2> QED  BY <1>1, <2>1
<1>5. PICK P : FrontsUpto(S, u, P, n)
  BY <1>4 DEF T
<1> QED  BY <1>5 DEF FrontsUpto, IsFronts

(* only one, *)
LEMMA FrontsUnique ==
  ASSUME NEW u, Len(u) \in Nat, NEW P, NEW Q, IsFronts(u, P), IsFronts(u, Q)
  PROVE  \A k \in 0 .. Len(u) : P[k] = Q[k]
<1> DEFINE n == Len(u)
           T == {k \in 0 .. n : P[k] = Q[k]}
<1>1. 0 \in T /\ n \in Nat
  BY DEF IsFronts
<1>2. ASSUME NEW k \in 1 .. n, k - 1 \in T PROVE k \in T
  <2>1. P[k - 1] = Q[k - 1] /\ k \in 1 .. Len(u) /\ k \in 0 .. n
    BY <1>1, <1>2
  <2>2. P[k] = P[k - 1] \o u[k] /\ Q[k] = Q[k - 1] \o u[k]
    BY <2>1, Zenon DEF IsFronts
  <2> QED  BY <2>1, <2>2
<1> HIDE DEF T
<1>3. 0 .. n \subseteq T
  BY <1>1, <1>2, Induction
<1> QED  BY <1>3 DEF T

(* and Fronts(u) is it. *)
LEMMA FrontsValue ==
  ASSUME NEW S, NEW u \in Seq(Seq(S))
  PROVE  /\ IsFronts(u, Fronts(u))
         /\ Fronts(u) \in [0 .. Len(u) -> Seq(S)]
<1>1. PICK P \in [0 .. Len(u) -> Seq(S)] : IsFronts(u, P)
  BY FrontsExist
<1>2. IsFronts(u, Fronts(u))
  BY <1>1, Zenon DEF Fronts
<1>3. \A k \in 0 .. Len(u) : Fronts(u)[k] = P[k]
  BY <1>1, <1>2, FrontsUnique
<1> DEFINE G == Fronts(u)
<1>4. DOMAIN G = 0 .. Len(u)
  BY <1>2 DEF IsFronts
<1> QED  BY <1>1, <1>2, <1>3, <1>4

(* FlattenSeq is the last of them. *)
LEMMA FlattenIs ==
  ASSUME NEW S, NEW u \in Seq(Seq(S))
  PROVE  FlattenSeq(u) = Fronts(u)[Len(u)]
<1> DEFINE n == Len(u)
           P == Fronts(u)
<1>1. n \in Nat /\ u \in [1 .. n -> Seq(S)]
  OBVIOUS
<1>2. IsFronts(u, P) /\ P \in [0 .. n -> Seq(S)]
  BY FrontsValue
<1>3. CASE n = 0
  <2>1. FlattenSeq(u) = u
    BY <1>3, Zenon DEF FlattenSeq
  <2>2. u = <<>> /\ P[0] = <<>>
    BY <1>1, <1>2, <1>3 DEF IsFronts
  <2> QED  BY <1>3, <2>1, <2>2
<1>4. CASE n # 0
  <2>1. ASSUME NEW g, Flat(u, g) PROVE \A k \in 1 .. n : g[k] = P[k]
    <3> DEFINE T == {k \in 0 .. n : k # 0 => g[k] = P[k]}
    <3>1. 0 \in T
      BY <1>1
    <3>2. ASSUME NEW k \in 1 .. n, k - 1 \in T PROVE k \in T
      <4>1. g[k] = IF k = 1 THEN u[k] ELSE g[k - 1] \o u[k]
        BY <2>1, Zenon DEF Flat
      <4>2. P[k] = P[k - 1] \o u[k] /\ P[0] = <<>>
        BY <1>2, Zenon DEF IsFronts
      <4>3. CASE k = 1
        <5>1. u[k] \in Seq(S)
          BY <1>1
        <5>4. k - 1 = 0
          BY <4>3
        <5>2. P[k] = <<>> \o u[k]
          BY <4>2, <5>4, Zenon
        <5>3. P[k] = u[k]
          BY <5>1, <5>2, ConcatEmptySeq
        <5> QED  BY <4>1, <4>3, <5>3
      <4>4. CASE k # 1
        <5>1. k - 1 # 0
          BY <4>4
        <5>2. g[k - 1] = P[k - 1]
          BY <3>2, <5>1
        <5>3. g[k] = g[k - 1] \o u[k]
          BY <4>1, <4>4, Zenon
        <5>4. g[k] = P[k]
          BY <4>2, <5>2, <5>3, Zenon
        <5> QED  BY <5>4
      <4> QED  BY <4>3, <4>4
    <3> HIDE DEF T
    <3>3. 0 .. n \subseteq T
      BY <1>1, <3>1, <3>2, Induction
    <3> QED  BY <3>3 DEF T
  <2>2. \E g : Flat(u, g)
    <3> DEFINE g == [k \in 1 .. n |-> P[k]]
    <3>1. ASSUME NEW k \in 1 .. n
          PROVE  g[k] = IF k = 1 THEN u[k] ELSE g[k - 1] \o u[k]
      <4>1. g[k] = P[k] /\ (k # 1 => g[k - 1] = P[k - 1])
        OBVIOUS
      <4>2. P[k] = P[k - 1] \o u[k] /\ P[0] = <<>> /\ u[k] \in Seq(S)
        <5>1. P[k] = P[k - 1] \o u[k] /\ P[0] = <<>>
          BY <1>2, Zenon DEF IsFronts
        <5> QED  BY <1>1, <5>1
      <4> HIDE DEF g, P
      <4>3. CASE k = 1
        <5>0. k - 1 = 0
          BY <4>3
        <5>1. P[k] = <<>> \o u[k]
          BY <4>2, <5>0, Zenon
        <5>2. P[k] = u[k]
          BY <4>2, <5>1, ConcatEmptySeq
        <5> QED  BY <4>1, <4>3, <5>2
      <4>4. CASE k # 1
        BY <4>1, <4>2, <4>4
      <4> QED  BY <4>3, <4>4
    <3>2. g = [k \in 1 .. n |-> g[k]]
      OBVIOUS
    <3> HIDE DEF g
    <3>3. g = [k \in 1 .. n |-> IF k = 1 THEN u[k] ELSE g[k - 1] \o u[k]]
      BY <3>1, <3>2
    <3> QED  BY <3>3 DEF Flat
  <2>3. Flat(u, CHOOSE g : Flat(u, g))
    BY <2>2, Zenon
  <2>4. FlattenSeq(u) = (CHOOSE g : Flat(u, g))[n]
    BY <1>4, FlatValue
  <2>5. n \in 1 .. n
    BY <1>1, <1>4
  <2> QED  BY <2>1, <2>3, <2>4, <2>5, Zenon
<1> QED  BY <1>3, <1>4

(* s is how t begins. *)
Begins(s, t) == Len(s) <= Len(t) /\ \A j \in 1 .. Len(s) : t[j] = s[j]

(* A concatenation begins with its first part, the other comes behind it. *)
LEMMA BeginsConcat ==
  ASSUME NEW S, NEW s \in Seq(S), NEW t \in Seq(S)
  PROVE  /\ Begins(s, s) /\ Begins(s, s \o t) /\ s \o t \in Seq(S)
         /\ Len(s \o t) = Len(s) + Len(t)
         /\ \A j \in 1 .. Len(t) : (s \o t)[Len(s) + j] = t[j]
<1>1. /\ Len(s \o t) = Len(s) + Len(t) /\ s \o t \in Seq(S)
      /\ \A j \in 1 .. Len(s) + Len(t) : (s \o t)[j] = IF j <= Len(s) THEN s[j] ELSE t[j - Len(s)]
      /\ Len(s) \in Nat /\ Len(t) \in Nat
  BY ConcatProperties, LenProperties
<1>2. \A j \in 1 .. Len(t) : (s \o t)[Len(s) + j] = t[j]
  <2> TAKE j \in 1 .. Len(t)
  <2>1. Len(s) + j \in 1 .. Len(s) + Len(t) /\ ~(Len(s) + j <= Len(s)) /\ Len(s) + j - Len(s) = j
    BY <1>1
  <2> QED  BY <1>1, <2>1
<1> QED  BY <1>1, <1>2 DEF Begins

(* The first k are how the whole begins, and the next comes right behind. *)
LEMMA FrontsBegin ==
  ASSUME NEW S, NEW u \in Seq(Seq(S)), NEW m \in 0 .. Len(u)
  PROVE  \A k \in 0 .. m : Begins(Fronts(u)[k], Fronts(u)[m])
<1> DEFINE n == Len(u)
           P == Fronts(u)
<1>1. n \in Nat /\ m \in Nat /\ \A k \in 1 .. n : u[k] \in Seq(S)
  OBVIOUS
<1>2. \A k \in 0 .. n : P[k] \in Seq(S)
  BY FrontsValue
<1>3. \A k \in 1 .. n : P[k] = P[k - 1] \o u[k]
  BY FrontsValue, Zenon DEF IsFronts
<1> HIDE DEF P
<1> DEFINE T == {j \in 0 .. m : Begins(P[m - j], P[m])}
<1>4. 0 \in T
  <2>1. P[m] \in Seq(S) /\ m - 0 = m
    BY <1>2
  <2> QED  BY <2>1, BeginsConcat
<1>5. ASSUME NEW j \in 1 .. m, j - 1 \in T PROVE j \in T
  <2> DEFINE k == m - j
  <2>1. k \in 0 .. n /\ k + 1 \in 1 .. n /\ k + 1 = m - (j - 1) /\ (k + 1) - 1 = k
    BY <1>1
  <2> HIDE DEF k
  <2>2. Begins(P[k + 1], P[m])
    BY <1>5, <2>1
  <2>3. P[k + 1] = P[k] \o u[k + 1] /\ P[k] \in Seq(S) /\ u[k + 1] \in Seq(S)
    BY <1>1, <1>2, <1>3, <2>1
  <2>4. Begins(P[k], P[k + 1]) /\ Len(P[k]) \in Nat /\ Len(P[k + 1]) \in Nat
    <3>1. Begins(P[k], P[k] \o u[k + 1]) /\ P[k] \o u[k + 1] \in Seq(S)
      BY <2>3, BeginsConcat
    <3>2. P[k + 1] \in Seq(S) /\ Begins(P[k], P[k + 1])
      BY <2>3, <3>1, Zenon
    <3> QED  BY <2>3, <3>2, LenProperties
  <2>5. Len(P[m]) \in Nat
    BY <1>2, LenProperties
  <2>6. Begins(P[k], P[m])
    BY <2>2, <2>4, <2>5 DEF Begins
  <2> QED  BY <2>6 DEF k
<1> HIDE DEF T
<1>6. 0 .. m \subseteq T
  BY <1>1, <1>4, <1>5, Induction
<1> SUFFICES ASSUME NEW k \in 0 .. m PROVE Begins(P[k], P[m])
  BY DEF P
<1>7. m - k \in T /\ m - (m - k) = k
  BY <1>6
<1> QED  BY <1>7 DEF T

-----------------------------------------------------------------------------
(* Numbers. *)

Digit(c) == CHOOSE k \in 0 .. 15 : Numerals[k + 1] = c

(* Each numeral is looked up at one place only. *)
LEMMA DigitOfNumeral ==
  ASSUME NEW d \in 1 .. 16
  PROVE  Digit(Numerals[d]) = d - 1
<1>1. \A j, k \in 1 .. 16 : Numerals[j] = Numerals[k] => j = k
  <2>1. \A j \in 1 .. 16 :
          \/ j = 1 \/ j = 2 \/ j = 3 \/ j = 4 \/ j = 5 \/ j = 6 \/ j = 7 \/ j = 8
          \/ j = 9 \/ j = 10 \/ j = 11 \/ j = 12 \/ j = 13 \/ j = 14 \/ j = 15 \/ j = 16
    OBVIOUS
  <2> QED  BY <2>1, SMTT(60) DEF Numerals
<1> DEFINE Is(k) == k \in 0 .. 15 /\ Numerals[k + 1] = Numerals[d]
<1>2. Is(d - 1)
  BY (d - 1) + 1 = d
<1>3. \A k : Is(k) => k = d - 1
  <2> SUFFICES ASSUME NEW k, Is(k) PROVE k = d - 1
    OBVIOUS
  <2>1. k + 1 \in 1 .. 16 /\ k \in Int
    OBVIOUS
  <2>2. k + 1 = d
    BY <1>1, <2>1
  <2> QED  BY <2>1, <2>2
<1>4. Digit(Numerals[d]) = CHOOSE k : Is(k)
  BY Zenon DEF Digit
<1> HIDE DEF Is
<1>5. Is(CHOOSE k : Is(k))
  BY <1>2, Zenon
<1> QED  BY <1>3, <1>4, <1>5

(* Max of a set of places is one of them, and none is behind it. *)
LEMMA Greatest ==
  ASSUME NEW n \in Nat, NEW t \in SUBSET (1 .. n), t # {}
  PROVE  Max(t) \in t /\ \A x \in t : x <= Max(t)
<1> DEFINE T == {k \in 0 .. n : n - k \in t}
<1>1. T \in SUBSET Nat /\ T # {}
  <2>1. PICK x \in t : TRUE
    OBVIOUS
  <2> DEFINE y == n - x
  <2>2. y \in 0 .. n /\ n - y = x
    OBVIOUS
  <2> HIDE DEF y
  <2>3. y \in T
    BY <2>2
  <2> QED  BY <2>3
<1> HIDE DEF T
<1>2. PICK k \in T : \A j \in T : k <= j
  BY <1>1, LeastNumber
<1>3. n - k \in t /\ k \in 0 .. n
  BY <1>2 DEF T
<1>4. ASSUME NEW x \in t PROVE n - k >= x
  <2>1. x \in 1 .. n /\ n - (n - x) = x
    OBVIOUS
  <2>2. n - x \in T
    BY <2>1 DEF T
  <2> QED  BY <1>2, <1>3, <2>1, <2>2
<1> DEFINE Top(x) == x \in t /\ \A y \in t : x >= y
<1>5. Top(n - k)
  BY <1>3, <1>4
<1>6. Max(t) = CHOOSE x : Top(x)
  BY Zenon DEF Max
<1> HIDE DEF Top
<1>7. Top(Max(t))
  BY <1>5, <1>6, Zenon
<1>8. Max(t) \in t /\ \A y \in t : Max(t) >= y
  BY <1>7 DEF Top
<1> QED  BY <1>8

(* The value of the digits at the places t of s, the last digit last. *)
Weigh(s, b, g, t) == IF t = {} THEN 0 ELSE g[t \ {Max(t)}] * b + Digit(s[Max(t)])
Weighs(s, b, g)   == g = [t \in SUBSET DOMAIN s |-> Weigh(s, b, g, t)]

Value(s, b) ==
  FoldLeft(LAMBDA v, c : v * b + (CHOOSE k \in 0 .. 15 : Numerals[k + 1] = c), 0, s)

(* FoldLeft, in these terms: of all places of s. *)
LEMMA ValueFolds ==
  ASSUME NEW s, NEW b
  PROVE  Value(s, b) = (CHOOSE g : Weighs(s, b, g))[DOMAIN s]
BY Zenon DEF Value, FoldLeft, MapThenFoldSet, Weighs, Weigh, Digit

WeighsUpto(s, b, g, n) ==
  /\ g = [t \in SUBSET DOMAIN s |-> g[t]]
  /\ \A t \in SUBSET DOMAIN s : Cardinality(t) <= n => g[t] = Weigh(s, b, g, t)

(* There is such a g: from sets of no places up, one place more at a time. *)
LEMMA WeighsExist ==
  ASSUME NEW s, NEW b, NEW n \in Nat, DOMAIN s = 1 .. n
  PROVE  \E g : Weighs(s, b, g)
<1> DEFINE D == DOMAIN s
           T == {k \in 0 .. n : \E g : WeighsUpto(s, b, g, k)}
<1>1. IsFiniteSet(D) /\ Cardinality(D) = n
  BY FS_Interval
<1>2. ASSUME NEW t \in SUBSET D
      PROVE  /\ Cardinality(t) \in Nat /\ Cardinality(t) <= n
             /\ Cardinality(t) = 0 => t = {}
             /\ t # {} => /\ Max(t) \in t /\ t \ {Max(t)} \in SUBSET D
                         /\ Cardinality(t \ {Max(t)}) = Cardinality(t) - 1
  <2>1. IsFiniteSet(t) /\ Cardinality(t) \in Nat /\ Cardinality(t) <= n
    BY <1>1, FS_Subset, FS_CardinalityType
  <2>2. Cardinality(t) = 0 => t = {}
    BY <2>1, FS_EmptySet
  <2>3. t # {} => Max(t) \in t
    BY Greatest
  <2> QED  BY <2>1, <2>2, <2>3, FS_RemoveElement
<1>3. 0 \in T
  <2> DEFINE g == [t \in SUBSET D |-> 0]
  <2>1. ASSUME NEW t \in SUBSET D, Cardinality(t) <= 0 PROVE g[t] = Weigh(s, b, g, t)
    <3>1. Cardinality(t) \in Nat /\ (Cardinality(t) = 0 => t = {})
      BY <1>2
    <3>2. t = {}
      BY <2>1, <3>1
    <3> QED  BY <3>2 DEF Weigh
  <2>2. g = [t \in SUBSET D |-> g[t]]
    OBVIOUS
  <2> HIDE DEF g
  <2>3. WeighsUpto(s, b, g, 0)
    BY <2>1, <2>2 DEF WeighsUpto
  <2> QED  BY <2>3
<1>4. ASSUME NEW k \in 1 .. n, k - 1 \in T PROVE k \in T
  <2>1. PICK g : WeighsUpto(s, b, g, k - 1)
    BY <1>4
  <2> DEFINE j == [t \in SUBSET D |-> IF Cardinality(t) = k THEN Weigh(s, b, g, t) ELSE g[t]]
  <2>2. ASSUME NEW t \in SUBSET D, Cardinality(t) <= k PROVE j[t] = Weigh(s, b, j, t)
    <3>1. Weigh(s, b, j, t) = Weigh(s, b, g, t)
      <4>1. CASE t = {}  BY <4>1 DEF Weigh
      <4>2. CASE t # {}
        <5>1. Cardinality(t \ {Max(t)}) # k /\ t \ {Max(t)} \in SUBSET D
          BY <1>2, <2>2, <4>2
        <5>2. j[t \ {Max(t)}] = g[t \ {Max(t)}]
          BY <5>1
        <5> QED  BY <4>2, <5>2 DEF Weigh
      <4> QED  BY <4>1, <4>2
    <3>2. CASE Cardinality(t) = k
      BY <3>1, <3>2
    <3>3. CASE Cardinality(t) # k
      <4>1. Cardinality(t) <= k - 1
        <5>1. Cardinality(t) \in Nat
          BY <1>2
        <5> HIDE DEF j
        <5> QED  BY <2>2, <3>3, <5>1
      <4>2. g[t] = Weigh(s, b, g, t)
        BY <2>1, <4>1 DEF WeighsUpto
      <4> QED  BY <3>1, <3>3, <4>2
    <3> QED  BY <3>2, <3>3
  <2>3. j = [t \in SUBSET D |-> j[t]]
    OBVIOUS
  <2> HIDE DEF j
  <2>4. WeighsUpto(s, b, j, k)
    BY <2>2, <2>3 DEF WeighsUpto
  <2> QED  BY <2>4
<1>5. n \in T
  <2> HIDE DEF T
  <2>1. 0 .. n \subseteq T
    BY <1>3, <1>4, Induction
  <2> QED  BY <2>1
<1>6. PICK g : WeighsUpto(s, b, g, n)
  BY <1>5
<1>7. \A t \in SUBSET D : g[t] = Weigh(s, b, g, t)
  BY <1>2, <1>6 DEF WeighsUpto
<1>8. g = [t \in SUBSET D |-> g[t]]
  BY <1>6 DEF WeighsUpto
<1>9. g = [t \in SUBSET D |-> Weigh(s, b, g, t)]
  BY <1>7, <1>8
<1> QED  BY <1>9 DEF Weighs

(* V[k] is the value of the first k digits. *)
IsValues(s, b, V) ==
  /\ V \in [0 .. Len(s) -> Nat] /\ V[0] = 0
  /\ \A k \in 1 .. Len(s) : V[k] = V[k - 1] * b + Digit(s[k])

(* The folded value is the last of them. *)
LEMMA ValuesExist ==
  ASSUME NEW s, Len(s) \in Nat, DOMAIN s = 1 .. Len(s), NEW b \in Nat,
         \A k \in 1 .. Len(s) : Digit(s[k]) \in Nat
  PROVE  \E V : IsValues(s, b, V) /\ Value(s, b) = V[Len(s)]
<1> DEFINE n == Len(s)
           g == CHOOSE f : Weighs(s, b, f)
           V == [k \in 0 .. n |-> g[1 .. k]]
<1>1. Weighs(s, b, g)
  BY WeighsExist, Zenon
<1>2. Value(s, b) = g[1 .. n]
  BY ValueFolds, Zenon
<1> HIDE DEF g
<1>3. ASSUME NEW k \in 1 .. n
      PROVE  g[1 .. k] = g[1 .. (k - 1)] * b + Digit(s[k])
  <2>1. 1 .. k \in SUBSET DOMAIN s /\ 1 .. k \in SUBSET (1 .. n) /\ k \in 1 .. k
    OBVIOUS
  <2>2. Max(1 .. k) \in 1 .. k /\ k <= Max(1 .. k)
    <3> DEFINE t == 1 .. k
    <3>1. t \in SUBSET (1 .. n) /\ k \in t /\ t # {}
      BY <2>1
    <3> HIDE DEF t
    <3>2. Max(t) \in t /\ k <= Max(t)
      BY <3>1, Greatest
    <3> QED  BY <3>2 DEF t
  <2>3. Max(1 .. k) = k
    BY <2>2
  <2>4. (1 .. k) \ {k} = 1 .. (k - 1) /\ 1 .. k # {}
    BY <2>1
  <2>5. g[1 .. k] = Weigh(s, b, g, 1 .. k)
    BY <1>1, <2>1, Zenon DEF Weighs
  <2>6. g[1 .. k] = g[(1 .. k) \ {k}] * b + Digit(s[k])
    BY <2>3, <2>4, <2>5, Zenon DEF Weigh
  <2> QED  BY <2>4, <2>6, Zenon
<1>4. g[1 .. 0] = 0
  <2>1. 1 .. 0 = {} /\ {} \in SUBSET DOMAIN s
    OBVIOUS
  <2>2. g[{}] = Weigh(s, b, g, {})
    BY <1>1, <2>1, Zenon DEF Weighs
  <2>3. g[{}] = 0
    BY <2>2, Zenon DEF Weigh
  <2> QED  BY <2>1, <2>3, Zenon
<1>5. \A k \in 0 .. n : g[1 .. k] \in Nat
  <2> DEFINE T == {k \in 0 .. n : g[1 .. k] \in Nat}
  <2>1. 0 \in T
    BY <1>4
  <2>2. ASSUME NEW k \in 1 .. n, k - 1 \in T PROVE k \in T
    <3>1. g[1 .. (k - 1)] \in Nat /\ Digit(s[k]) \in Nat
      BY <2>2
    <3>2. g[1 .. (k - 1)] * b \in Nat
      BY <3>1, SMT
    <3>3. g[1 .. k] = g[1 .. (k - 1)] * b + Digit(s[k])
      BY <1>3
    <3>4. g[1 .. k] \in Nat
      BY <3>1, <3>2, <3>3
    <3> QED  BY <3>4
  <2> HIDE DEF T
  <2>3. 0 .. n \subseteq T
    BY <2>1, <2>2, Induction
  <2> QED  BY <2>3 DEF T
<1>6. V \in [0 .. n -> Nat] /\ V[0] = 0 /\ V[n] = g[1 .. n]
  BY <1>4, <1>5
<1>7. ASSUME NEW k \in 1 .. n PROVE V[k] = V[k - 1] * b + Digit(s[k])
  <2>1. V[k] = g[1 .. k] /\ V[k - 1] = g[1 .. (k - 1)]
    OBVIOUS
  <2> HIDE DEF V
  <2> QED  BY <1>3, <2>1, Zenon
<1> HIDE DEF V
<1>8. IsValues(s, b, V)
  BY <1>6, <1>7 DEF IsValues
<1> QED  BY <1>2, <1>6, <1>8

(* Of a number in positional notation no digits but its first are worth 0. *)
LEMMA PositionalValues ==
  ASSUME NEW s \in Seq(Chars), NEW n, NEW b \in {10, 16}, Positional(s, n, b)
  PROVE  \E V : /\ IsValues(s, b, V) /\ V[Len(s)] = n
                /\ \A k \in 1 .. Len(s) : \E d \in 0 .. b - 1 :
                     s[k] = Numerals[d + 1] /\ Digit(s[k]) = d
                /\ Len(s) > 1 => \A k \in 1 .. Len(s) : V[k] > 0
<1>1. Len(s) \in Nat /\ DOMAIN s = 1 .. Len(s)
  OBVIOUS
<1>2. ASSUME NEW k \in 1 .. Len(s)
      PROVE  \E d \in 0 .. b - 1 : s[k] = Numerals[d + 1] /\ Digit(s[k]) = d
  <2>1. PICK d \in 1 .. b : s[k] = Numerals[d]
    BY <1>1 DEF Positional
  <2>2. d \in 1 .. 16 /\ d - 1 \in 0 .. b - 1 /\ (d - 1) + 1 = d
    OBVIOUS
  <2>3. Digit(s[k]) = d - 1
    BY <2>1, <2>2, DigitOfNumeral
  <2>4. s[k] = Numerals[(d - 1) + 1]
    BY <2>1, <2>2
  <2> QED  BY <2>2, <2>3, <2>4
<1>3. \A k \in 1 .. Len(s) : Digit(s[k]) \in Nat
  BY <1>2
<1>4. PICK V : IsValues(s, b, V) /\ Value(s, b) = V[Len(s)]
  BY <1>1, <1>3, ValuesExist
<1>5. n = Value(s, b)
  BY Zenon DEF Positional, Value
<1>6. ASSUME Len(s) > 1 PROVE \A k \in 1 .. Len(s) : V[k] > 0
  <2> DEFINE T == {k \in 0 .. Len(s) : k # 0 => V[k] > 0}
  <2>1. 0 \in T
    BY <1>1
  <2>2. ASSUME NEW k \in 1 .. Len(s), k - 1 \in T PROVE k \in T
    <3>1. /\ V[k] = V[k - 1] * b + Digit(s[k]) /\ V[0] = 0
          /\ V[k - 1] \in Nat /\ Digit(s[k]) \in Nat
      BY <1>3, <1>4 DEF IsValues
    <3>2. CASE k = 1
      <4>1. s[1] # "0" /\ Digit(s[1]) \in Nat
        BY <1>3, <1>6, <3>2 DEF Positional
      <4>2. PICK d \in 0 .. b - 1 : s[1] = Numerals[d + 1] /\ Digit(s[1]) = d
        BY <1>2, <3>2
      <4>3. d # 0
        BY <4>1, <4>2 DEF Numerals
      <4>4. V[1] = 0 * b + d
        BY <3>1, <3>2, <4>2
      <4> QED  BY <3>2, <4>2, <4>3, <4>4
    <3>3. CASE k # 1
      <4>1. V[k - 1] > 0
        BY <2>2, <3>3
      <4>2. V[k - 1] * b > 0
        BY <3>1, <4>1
      <4>3. V[k] > 0
        BY <3>1, <4>2
      <4> QED  BY <4>3
    <3> QED  BY <3>2, <3>3
  <2> HIDE DEF T
  <2>3. 0 .. Len(s) \subseteq T
    BY <1>1, <2>1, <2>2, Induction
  <2> QED  BY <2>3 DEF T
<1> QED  BY <1>2, <1>4, <1>5, <1>6

-----------------------------------------------------------------------------
(* A call and its pieces. *)

(* What the k-th of the sequences in u adds to them all. *)
Adds(S, u, k) ==
  /\ Fronts(u)[k - 1] \in Seq(S) /\ u[k] \in Seq(S)
  /\ Fronts(u)[k] \in Seq(S) /\ FlattenSeq(u) \in Seq(S)
  /\ Fronts(u)[k] = Fronts(u)[k - 1] \o u[k]
  /\ Len(Fronts(u)[k]) = Len(Fronts(u)[k - 1]) + Len(u[k])
  /\ Begins(Fronts(u)[k], FlattenSeq(u))
  /\ \A j \in 1 .. Len(u[k]) : FlattenSeq(u)[Len(Fronts(u)[k - 1]) + j] = u[k][j]

(* One sequence more. *)
LEMMA FrontsStep ==
  ASSUME NEW S, NEW u \in Seq(Seq(S)), NEW k \in 1 .. Len(u)
  PROVE  Adds(S, u, k)
<1> DEFINE n == Len(u)
           P == Fronts(u)
           W == FlattenSeq(u)
<1>1. n \in Nat /\ k \in 0 .. n /\ k - 1 \in 0 .. n /\ n \in 0 .. n /\ u[k] \in Seq(S)
  OBVIOUS
<1>2. P[k - 1] \in Seq(S) /\ P[k] \in Seq(S) /\ P[n] \in Seq(S)
  <2>1. P \in [0 .. n -> Seq(S)]
    BY FrontsValue
  <2> QED  BY <1>1, <2>1
<1>3. P[k] = P[k - 1] \o u[k]
  BY FrontsValue, Zenon DEF IsFronts
<1>4. W = P[n]
  BY FlattenIs
<1>5. Begins(P[k], W)
  BY <1>1, <1>4, FrontsBegin
<1> HIDE DEF P, W
<1>6. /\ Len(P[k - 1] \o u[k]) = Len(P[k - 1]) + Len(u[k])
      /\ \A j \in 1 .. Len(u[k]) : (P[k - 1] \o u[k])[Len(P[k - 1]) + j] = u[k][j]
  BY <1>1, <1>2, BeginsConcat
<1>7. ASSUME NEW j \in 1 .. Len(u[k]) PROVE W[Len(P[k - 1]) + j] = u[k][j]
  <2>1. Len(P[k - 1]) \in Nat /\ Len(u[k]) \in Nat
    BY <1>1, <1>2, LenProperties
  <2>5. Len(P[k]) = Len(P[k - 1]) + Len(u[k])
    BY <1>3, <1>6
  <2>2. Len(P[k - 1]) + j \in 1 .. Len(P[k])
    <3> DEFINE a == Len(P[k - 1])
               d == Len(u[k])
    <3>1. a \in Nat /\ d \in Nat /\ Len(P[k]) = a + d /\ j \in 1 .. d
      BY <2>1, <2>5
    <3> HIDE DEF a, d
    <3>2. a + j \in 1 .. (a + d)
      BY <3>1
    <3>3. a + j \in 1 .. Len(P[k])
      BY <3>1, <3>2
    <3> QED  BY <3>3 DEF a
  <2>3. W[Len(P[k - 1]) + j] = P[k][Len(P[k - 1]) + j]
    BY <1>5, <2>2 DEF Begins
  <2>4. P[k][Len(P[k - 1]) + j] = u[k][j]
    BY <1>3, <1>6
  <2> QED  BY <2>3, <2>4
<1> QED  BY <1>1, <1>2, <1>3, <1>4, <1>5, <1>6, <1>7 DEF P, W, Adds

Part(c, field) == [k \in DOMAIN c |-> c[k][field]]

(* What the first k pieces of call c amount to. *)
Upto(c, field, k) == Fronts(Part(c, field))[k]

Arguments(c) == {c[k].args[1] : k \in DOMAIN c}

(* A function on 1 .. n is a sequence of length n. *)
LEMMA IsSequence ==
  ASSUME NEW S, NEW n \in Nat, NEW u \in [1 .. n -> S]
  PROVE  u \in Seq(S) /\ Len(u) = n
<1>1. u \in Seq(S)
  BY SeqDef
<1>2. DOMAIN u = 1 .. n /\ DOMAIN u = 1 .. Len(u) /\ Len(u) \in Nat
  BY <1>1, LenProperties
<1> QED  BY <1>1, <1>2

(* What is assumed of each piece, of the formats, texts and arguments of all. *)
LEMMA Parts ==
  ASSUME NEW c \in Calls
  PROVE  /\ Len(c) \in Nat
         /\ Part(c, "format") \in Seq(Seq(Chars)) /\ Len(Part(c, "format")) = Len(c)
         /\ Part(c, "text") \in Seq(Seq(Chars)) /\ Len(Part(c, "text")) = Len(c)
         /\ Part(c, "args") \in Seq(Seq(Arguments(c))) /\ Len(Part(c, "args")) = Len(c)
         /\ \A k \in 1 .. Len(c) : /\ Piece(c[k])
                                   /\ Part(c, "format")[k] = c[k].format
                                   /\ Part(c, "text")[k] = c[k].text
                                   /\ Part(c, "args")[k] = c[k].args
<1>1. Len(c) \in Nat /\ DOMAIN c = 1 .. Len(c) /\ \A k \in 1 .. Len(c) : Piece(c[k])
  BY CallsAssumption
<1>2. \A k \in 1 .. Len(c) : /\ Part(c, "format")[k] = c[k].format
                             /\ Part(c, "text")[k] = c[k].text
                             /\ Part(c, "args")[k] = c[k].args
  BY <1>1 DEF Part
<1>3. ASSUME NEW k \in 1 .. Len(c)
      PROVE  /\ c[k].format \in Seq(Chars) /\ c[k].text \in Seq(Chars)
             /\ c[k].args \in Seq(Arguments(c))
  <2>1. c[k].format \in Seq(Chars)
    <3>1. c[k].format \in Seq(Chars \ {NUL}) /\ Chars \ {NUL} \subseteq Chars
      BY <1>1 DEF Piece
    <3> QED  BY <3>1, SeqMonotonic
  <2>2. c[k].text \in Seq(Chars)
    BY <1>1 DEF Piece
  <2>3. c[k].args[1] \in Arguments(c)
    BY <1>1 DEF Arguments
  <2>4. c[k].args = <<>> \/ c[k].args = <<c[k].args[1]>>
    BY <1>1, Zenon DEF Piece, PlainText, PercentSign, Character, String, Decimal, Hexadecimal,
                       NoConversion, Itself, OneArgument
  <2>5. <<>> \in Seq(Arguments(c)) /\ <<c[k].args[1]>> \in Seq(Arguments(c))
    BY <2>3
  <2> QED  BY <2>1, <2>2, <2>4, <2>5
<1>4. /\ Part(c, "format") \in [1 .. Len(c) -> Seq(Chars)]
      /\ Part(c, "text") \in [1 .. Len(c) -> Seq(Chars)]
      /\ Part(c, "args") \in [1 .. Len(c) -> Seq(Arguments(c))]
  BY <1>1, <1>3 DEF Part
<1> QED  BY <1>1, <1>2, <1>4, IsSequence

(* The k-th piece: where it is in the format, among the arguments, and in *)
(* what is meant.                                                         *)
LEMMA PieceAt ==
  ASSUME NEW c \in Calls, NEW k \in 1 .. Len(c)
  PROVE  LET p == c[k]
             W == FlattenField(c, "format")
             M == FlattenField(c, "text")
         IN  /\ Piece(p) /\ p.format \in Seq(Chars) /\ p.text \in Seq(Chars)
             /\ Len(p.format) \in Nat /\ Len(p.args) \in Nat /\ Len(p.format) > 0
             /\ Upto(c, "format", k - 1) \in Seq(Chars) /\ W \in Seq(Chars)
             /\ Len(Upto(c, "format", k - 1)) \in Nat /\ Len(W) \in Nat
             /\ Len(Upto(c, "format", k)) = Len(Upto(c, "format", k - 1)) + Len(p.format)
             /\ Len(Upto(c, "format", k)) <= Len(W)
             /\ \A j \in 1 .. Len(p.format) :
                  W[Len(Upto(c, "format", k - 1)) + j] = p.format[j] /\ p.format[j] # NUL
             /\ Len(Upto(c, "args", k - 1)) \in Nat
             /\ Len(Upto(c, "args", k)) = Len(Upto(c, "args", k - 1)) + Len(p.args)
             /\ \A j \in 1 .. Len(p.args) :
                  FlattenField(c, "args")[Len(Upto(c, "args", k - 1)) + j] = p.args[j]
             /\ Upto(c, "text", k - 1) \in Seq(Chars) /\ Upto(c, "text", k) \in Seq(Chars)
             /\ M \in Seq(Chars)
             /\ Upto(c, "text", k) = Upto(c, "text", k - 1) \o p.text
             /\ Begins(Upto(c, "text", k), M)
<1> DEFINE p == c[k]
<1>1. /\ Piece(p) /\ Part(c, "format")[k] = p.format /\ Part(c, "text")[k] = p.text
      /\ Part(c, "args")[k] = p.args
      /\ Part(c, "format") \in Seq(Seq(Chars)) /\ k \in 1 .. Len(Part(c, "format"))
      /\ Part(c, "text") \in Seq(Seq(Chars)) /\ k \in 1 .. Len(Part(c, "text"))
      /\ Part(c, "args") \in Seq(Seq(Arguments(c))) /\ k \in 1 .. Len(Part(c, "args"))
  BY Parts
<1>2. /\ FlattenField(c, "format") = FlattenSeq(Part(c, "format"))
      /\ FlattenField(c, "text") = FlattenSeq(Part(c, "text"))
      /\ FlattenField(c, "args") = FlattenSeq(Part(c, "args"))
  BY Zenon DEF FlattenField, Part
<1> HIDE DEF p
<1>10. /\ Adds(Chars, Part(c, "format"), k) /\ Adds(Chars, Part(c, "text"), k)
       /\ Adds(Arguments(c), Part(c, "args"), k)
  BY <1>1, FrontsStep
<1> DEFINE W == FlattenField(c, "format")
           G(j) == Upto(c, "format", j)
<1>3. /\ p.format \in Seq(Chars) /\ G(k - 1) \in Seq(Chars)
      /\ G(k) \in Seq(Chars) /\ W \in Seq(Chars)
      /\ Len(G(k)) = Len(G(k - 1)) + Len(p.format)
      /\ Begins(G(k), W)
      /\ \A j \in 1 .. Len(p.format) : W[Len(G(k - 1)) + j] = p.format[j]
  BY <1>1, <1>2, <1>10 DEF Upto, Adds
<1>4. Len(G(k)) <= Len(W)
  BY <1>3 DEF Begins
<1>5. /\ Len(p.format) \in Nat /\ Len(G(k - 1)) \in Nat /\ Len(W) \in Nat
  BY <1>3, LenProperties
<1>6. Len(p.format) > 0 /\ \A j \in 1 .. Len(p.format) : p.format[j] # NUL
  <2>1. p.format \in Seq(Chars \ {NUL}) /\ p.format # <<>>
    BY <1>1 DEF Piece
  <2> QED  BY <2>1
<1>7. /\ p.args \in Seq(Arguments(c)) /\ Upto(c, "args", k - 1) \in Seq(Arguments(c))
      /\ Len(Upto(c, "args", k)) = Len(Upto(c, "args", k - 1)) + Len(p.args)
      /\ \A j \in 1 .. Len(p.args) :
           FlattenField(c, "args")[Len(Upto(c, "args", k - 1)) + j] = p.args[j]
  BY <1>1, <1>2, <1>10 DEF Upto, Adds
<1>8. Len(p.args) \in Nat /\ Len(Upto(c, "args", k - 1)) \in Nat
  BY <1>7, LenProperties
<1>9. /\ p.text \in Seq(Chars)
      /\ Upto(c, "text", k - 1) \in Seq(Chars) /\ Upto(c, "text", k) \in Seq(Chars)
      /\ FlattenField(c, "text") \in Seq(Chars)
      /\ Upto(c, "text", k) = Upto(c, "text", k - 1) \o p.text
      /\ Begins(Upto(c, "text", k), FlattenField(c, "text"))
  BY <1>1, <1>2, <1>10 DEF Upto, Adds
<1> QED  BY <1>1, <1>3, <1>4, <1>5, <1>6, <1>7, <1>8, <1>9 DEF p

(* No pieces are nothing, and all of them are the call. *)
LEMMA Ends ==
  ASSUME NEW c \in Calls
  PROVE  /\ Len(c) \in Nat
         /\ Upto(c, "format", 0) = <<>> /\ Upto(c, "args", 0) = <<>> /\ Upto(c, "text", 0) = <<>>
         /\ Upto(c, "format", Len(c)) = FlattenField(c, "format")
         /\ Upto(c, "args", Len(c)) = FlattenField(c, "args")
         /\ Upto(c, "text", Len(c)) = FlattenField(c, "text")
         /\ FlattenField(c, "format") \in Seq(Chars) /\ FlattenField(c, "text") \in Seq(Chars)
<1>1. ASSUME NEW S, NEW f, Part(c, f) \in Seq(Seq(S)), Len(Part(c, f)) = Len(c)
      PROVE  /\ Upto(c, f, 0) = <<>> /\ Upto(c, f, Len(c)) = FlattenField(c, f)
             /\ FlattenField(c, f) \in Seq(S)
  <2>1. FlattenField(c, f) = FlattenSeq(Part(c, f))
    BY Zenon DEF FlattenField, Part
  <2>2. /\ IsFronts(Part(c, f), Fronts(Part(c, f)))
        /\ Fronts(Part(c, f)) \in [0 .. Len(c) -> Seq(S)]
    BY <1>1, FrontsValue
  <2>3. Len(c) \in 0 .. Len(c)
    BY Parts
  <2>4. FlattenSeq(Part(c, f)) = Fronts(Part(c, f))[Len(c)]
    BY <1>1, FlattenIs
  <2>5. Upto(c, f, 0) = <<>>
    BY <2>2, Zenon DEF Upto, IsFronts
  <2> QED  BY <2>1, <2>2, <2>3, <2>4, <2>5 DEF Upto
<1> QED  BY <1>1, Parts

-----------------------------------------------------------------------------
(* The parts of the inductive invariant, of a call c. *)

(* k pieces have been printed, and x, a and o are where that leaves i, arg and out. *)
DoneAt(c, k, x, a, o) ==
  /\ x = Len(Upto(c, "format", k))
  /\ a = Len(Upto(c, "args", k)) + 1
  /\ o = Upto(c, "text", k)

(* j characters of the k-th piece, which is plain text, have been printed. *)
TextAt(c, k, j, x, a, o) ==
  /\ j = 0 \/ PlainText(c[k])
  /\ x = Len(Upto(c, "format", k - 1)) + j
  /\ a = Len(Upto(c, "args", k - 1)) + 1
  /\ o = Upto(c, "text", k - 1) \o SubSeq(c[k].format, 1, j)

IsNumber(p) == Decimal(p) \/ Hexadecimal(p)
Base(p)     == IF p.format[2] \in {"d", "u"} THEN 10 ELSE 16
Prefix(p)   == IF p.format[2] \in {"d", "u"} THEN <<>> ELSE <<"0", "x">>
Figures(p)  == IF p.format[2] \in {"d", "u"} THEN p.text ELSE SubSeq(p.text, 3, Len(p.text))

ValuesOf(s, n, b, V) ==
  /\ IsValues(s, b, V) /\ V[Len(s)] = n
  /\ \A k \in 1 .. Len(s) : \E d \in 0 .. b - 1 : s[k] = Numerals[d + 1] /\ Digit(s[k]) = d
  /\ Len(s) > 1 => \A k \in 1 .. Len(s) : V[k] > 0

(* The figures s of n on their way into the buffer t: the last ones are there, *)
(* in reverse order, and v is the value of the others; or all are, and those   *)
(* before l and as many at the end have been swapped.                          *)
Writing(s, n, b, q, v, t, l) ==
  /\ t \in Seq(Chars)
  /\ \E V :
       /\ ValuesOf(s, n, b, V)
       /\ \/ /\ q = "digits" /\ l = 1 /\ Len(t) <= Len(s) /\ v = V[Len(s) - Len(t)]
             /\ \A m \in 1 .. Len(t) : t[m] = s[Len(s) + 1 - m]
          \/ /\ q = "reverse" /\ v = 0 /\ Len(t) = Len(s) /\ l \in Nat \ {0}
             /\ \A m \in 1 .. Len(t) :
                  t[m] = IF m < l \/ m > Len(t) + 1 - l THEN s[m] ELSE s[Len(s) + 1 - m]

NumberAt(c, k, x, a, o, q, v, b, t, l) ==
  /\ IsNumber(c[k]) /\ b = Base(c[k])
  /\ x = Len(Upto(c, "format", k))
  /\ a = Len(Upto(c, "args", k)) + 1
  /\ o = Upto(c, "text", k - 1) \o Prefix(c[k])
  /\ Writing(Figures(c[k]), c[k].args[1] % WORD, b, q, v, t, l)

Scanning(c, x, a, o) ==
  \/ \E k \in 1 .. Len(c) : \E j \in 0 .. Len(c[k].format) - 1 : TextAt(c, k, j, x, a, o)
  \/ DoneAt(c, Len(c), x, a, o)

IInv ==
  /\ call \in Calls
  /\ \/ pc = "scan" /\ Scanning(call, i, arg, out)
     \/ \E k \in 1 .. Len(call) : NumberAt(call, k, i, arg, out, pc, num, base, str, start)
     \/ pc = "return" /\ DoneAt(call, Len(call), i, arg, out)

-----------------------------------------------------------------------------
(* uitoa *)

LEMMA NumberPiece ==
  ASSUME NEW p, Piece(p), IsNumber(p)
  PROVE  /\ Base(p) \in {10, 16} /\ Figures(p) \in Seq(Chars)
         /\ Positional(Figures(p), p.args[1] % WORD, Base(p))
         /\ Prefix(p) \in Seq(Chars) /\ Prefix(p) \o Figures(p) = p.text
         /\ p.args[1] % WORD \in Nat /\ Len(p.args) = 1 /\ Len(p.format) = 2
<1>1. p.text \in Seq(Chars) /\ WORD \in Nat \ {0}
  BY CallsAssumption DEF Piece
<1>2. /\ p.args[1] \in Int /\ Len(p.args) = 1 /\ Len(p.format) = 2
  BY Zenon DEF IsNumber, Decimal, Hexadecimal, OneArgument, Of
<1>3. p.args[1] % WORD \in Nat
  BY <1>1, <1>2
<1>4. CASE Decimal(p)
  <2>1. p.format[2] \in {"d", "u"} /\ Positional(p.text, p.args[1] % WORD, 10)
    BY <1>4 DEF Decimal, OneArgument, Of
  <2>2. Base(p) = 10 /\ Prefix(p) = <<>> /\ Figures(p) = p.text
    BY <2>1, Zenon DEF Base, Prefix, Figures
  <2>3. <<>> \in Seq(Chars) /\ <<>> \o p.text = p.text
    BY <1>1, EmptySeq, ConcatEmptySeq
  <2> QED  BY <1>1, <1>2, <1>3, <2>1, <2>2, <2>3
<1>5. CASE Hexadecimal(p)
  <2>1. /\ p.format[2] \in {"x", "p"} /\ Len(p.text) > 2 /\ p.text[1] = "0" /\ p.text[2] = "x"
        /\ Positional(SubSeq(p.text, 3, Len(p.text)), p.args[1] % WORD, 16)
    BY <1>5 DEF Hexadecimal, OneArgument, Of
  <2>2. /\ Base(p) = 16 /\ Prefix(p) = <<"0", "x">>
        /\ Figures(p) = SubSeq(p.text, 3, Len(p.text))
    <3>1. p.format[2] \notin {"d", "u"}
      BY <2>1
    <3> QED  BY <3>1, Zenon DEF Base, Prefix, Figures
  <2> DEFINE t == p.text
  <2>3. Len(t) \in Nat /\ \A k \in 1 .. Len(t) : t[k] \in Chars
    BY <1>1
  <2>4. SubSeq(t, 3, Len(t)) \in Seq(Chars) /\ <<"0", "x">> \in Seq(Chars)
    <3>1. \A k \in 3 .. Len(t) : t[k] \in Chars
      BY <2>3
    <3>2. "0" \in Chars /\ "x" \in Chars
      BY <2>1, <2>3
    <3> QED  BY <2>3, <3>1, <3>2, SubSeqProperties
  <2>5. <<"0", "x">> \o SubSeq(t, 3, Len(t)) = t
    <3>1. <<"0", "x">> = SubSeq(t, 1, 2)
      BY <1>1, <2>1
    <3>2. SubSeq(t, 1, 2) \o SubSeq(t, 2 + 1, Len(t)) = SubSeq(t, 1, Len(t))
      BY <1>1, <2>1, <2>3, ConcatAdjacentSubSeq
    <3>3. SubSeq(t, 1, Len(t)) = t
      BY <1>1, SubSeqFull
    <3> QED  BY <3>1, <3>2, <3>3
  <2> QED  BY <1>2, <1>3, <2>1, <2>2, <2>4, <2>5
<1> QED  BY <1>4, <1>5 DEF IsNumber

(* uitoa is called with an empty buffer. *)
LEMMA WritingStarts ==
  ASSUME NEW s \in Seq(Chars), NEW n, NEW b \in {10, 16}, Positional(s, n, b)
  PROVE  Writing(s, n, b, "digits", n, <<>>, 1)
<1>1. PICK V : ValuesOf(s, n, b, V)
  BY PositionalValues DEF ValuesOf
<1>2. <<>> \in Seq(Chars) /\ Len(<<>>) = 0 /\ Len(s) \in Nat /\ Len(s) - 0 = Len(s)
  BY EmptySeq
<1>3. V[Len(s)] = n
  BY <1>1 DEF ValuesOf
<1> QED  BY <1>1, <1>2, <1>3 DEF Writing

(* rem is the lowest digit, and num / base what is left without it. *)
LEMMA LowestDigit ==
  ASSUME NEW b \in {10, 16}, NEW q \in Nat, NEW d \in 0 .. b - 1
  PROVE  (q * b + d) % b = d /\ (q * b + d) \div b = q
<1>1. \A x \in Nat, y \in 0 .. 9 : (x * 10 + y) % 10 = y /\ (x * 10 + y) \div 10 = x
  OBVIOUS
<1>2. \A x \in Nat, y \in 0 .. 15 : (x * 16 + y) % 16 = y /\ (x * 16 + y) \div 16 = x
  OBVIOUS
<1>3. CASE b = 10
  <2>1. d \in 0 .. 9
    BY <1>3
  <2> QED  BY <1>1, <1>3, <2>1
<1>4. CASE b = 16
  <2>1. d \in 0 .. 15
    BY <1>4
  <2> QED  BY <1>2, <1>4, <2>1
<1> QED  BY <1>3, <1>4

(* The next digit in the buffer is the next figure from the right. *)
LEMMA DigitWritten ==
  ASSUME NEW s \in Seq(Chars), s # <<>>, NEW n, NEW b \in {10, 16},
         NEW v, NEW t, NEW l, Writing(s, n, b, "digits", v, t, l),
         v # 0 \/ t = <<>>
  PROVE  Writing(s, n, b, "digits", v \div b, Append(t, Numeral(v % b)), l)
<1> DEFINE w == Append(t, Numeral(v % b))
<1>1. PICK V : /\ ValuesOf(s, n, b, V) /\ l = 1 /\ Len(t) <= Len(s) /\ v = V[Len(s) - Len(t)]
               /\ \A m \in 1 .. Len(t) : t[m] = s[Len(s) + 1 - m]
  BY DEF Writing
<1>2. t \in Seq(Chars) /\ Len(t) \in Nat /\ Len(s) \in Nat /\ Len(s) > 0
  BY DEF Writing
<1>3. V \in [0 .. Len(s) -> Nat] /\ V[0] = 0
  BY <1>1 DEF ValuesOf, IsValues
<1>4. Len(t) < Len(s)
  <2> SUFFICES ASSUME Len(t) = Len(s) PROVE FALSE
    BY <1>1, <1>2
  <2>1. v = 0
    BY <1>1, <1>2, <1>3
  <2>2. Len(t) = 0
    BY <2>1
  <2> QED  BY <1>2, <2>2
<1> DEFINE j == Len(s) - Len(t)
<1>5. j \in 1 .. Len(s) /\ j - 1 \in 0 .. Len(s) /\ Len(s) + 1 - (Len(t) + 1) = j
      /\ j - 1 = Len(s) - (Len(t) + 1)
  BY <1>2, <1>4
<1>6. PICK d \in 0 .. b - 1 : s[j] = Numerals[d + 1] /\ Digit(s[j]) = d
  BY <1>1, <1>5 DEF ValuesOf
<1>7. V[j] = V[j - 1] * b + d /\ V[j - 1] \in Nat /\ v = V[j]
  BY <1>1, <1>3, <1>5, <1>6 DEF ValuesOf, IsValues
<1>8. v % b = d /\ v \div b = V[j - 1]
  <2> DEFINE q == V[j - 1]
  <2>1. q \in Nat /\ v = q * b + d
    BY <1>7
  <2> HIDE DEF q, j
  <2>2. (q * b + d) % b = d /\ (q * b + d) \div b = q
    BY <2>1, LowestDigit
  <2> QED  BY <2>1, <2>2 DEF q
<1>9. Numeral(v % b) = s[j] /\ s[j] \in Chars
  BY <1>5, <1>6, <1>8 DEF Numeral
<1> HIDE DEF j
<1>10. /\ w \in Seq(Chars) /\ Len(w) = Len(t) + 1
       /\ \A m \in 1 .. Len(t) : w[m] = t[m]
       /\ w[Len(t) + 1] = s[j]
  BY <1>2, <1>9, AppendProperties
<1>11. ASSUME NEW m \in 1 .. Len(w) PROVE w[m] = s[Len(s) + 1 - m]
  <2>1. CASE m = Len(t) + 1
    BY <1>5, <1>10, <2>1
  <2>2. CASE m # Len(t) + 1
    <3>1. m \in 1 .. Len(t)
      BY <1>2, <1>10, <2>2
    <3> QED  BY <1>1, <1>10, <3>1
  <2> QED  BY <2>1, <2>2
<1>12. Len(w) <= Len(s) /\ v \div b = V[Len(s) - Len(w)]
  BY <1>2, <1>4, <1>5, <1>8, <1>10
<1> HIDE DEF w
<1>13. Writing(s, n, b, "digits", v \div b, w, l)
  BY <1>1, <1>10, <1>11, <1>12 DEF Writing
<1> QED  BY <1>13 DEF w

(* No digits are left: all the figures are there, last one first. *)
LEMMA DigitsWritten ==
  ASSUME NEW s \in Seq(Chars), NEW n, NEW b \in {10, 16},
         NEW t, NEW l, Writing(s, n, b, "digits", 0, t, l), t # <<>>
  PROVE  Writing(s, n, b, "reverse", 0, t, l)
<1>1. PICK V : /\ ValuesOf(s, n, b, V) /\ l = 1 /\ Len(t) <= Len(s) /\ 0 = V[Len(s) - Len(t)]
               /\ \A m \in 1 .. Len(t) : t[m] = s[Len(s) + 1 - m]
  BY DEF Writing
<1>2. t \in Seq(Chars) /\ Len(t) \in Nat /\ Len(s) \in Nat /\ Len(t) > 0
  BY DEF Writing
<1>3. Len(t) = Len(s)
  <2> SUFFICES ASSUME Len(t) < Len(s) PROVE FALSE
    BY <1>1, <1>2
  <2>1. Len(s) > 1 /\ Len(s) - Len(t) \in 1 .. Len(s)
    BY <1>2
  <2>2. V[Len(s) - Len(t)] > 0
    BY <1>1, <2>1 DEF ValuesOf
  <2> QED  BY <1>1, <2>2
<1>4. \A m \in 1 .. Len(t) : ~(m < l \/ m > Len(t) + 1 - l)
  BY <1>1, <1>2
<1>5. \A m \in 1 .. Len(t) :
        t[m] = IF m < l \/ m > Len(t) + 1 - l THEN s[m] ELSE s[Len(s) + 1 - m]
  BY <1>1, <1>4
<1> QED  BY <1>1, <1>2, <1>3, <1>5 DEF Writing

(* A swap puts two figures where they belong. *)
LEMMA SwapWritten ==
  ASSUME NEW s \in Seq(Chars), NEW n, NEW b,
         NEW v, NEW t, NEW l, Writing(s, n, b, "reverse", v, t, l),
         NEW e, e = Len(t) + 1 - l, l < e
  PROVE  Writing(s, n, b, "reverse", v, [t EXCEPT ![l] = t[e], ![e] = t[l]], l + 1)
<1> DEFINE w == [t EXCEPT ![l] = t[e], ![e] = t[l]]
<1>1. PICK V : /\ ValuesOf(s, n, b, V) /\ v = 0 /\ Len(t) = Len(s) /\ l \in Nat \ {0}
               /\ \A m \in 1 .. Len(t) :
                    t[m] = IF m < l \/ m > Len(t) + 1 - l THEN s[m] ELSE s[Len(s) + 1 - m]
  BY DEF Writing
<1>2. t \in Seq(Chars) /\ Len(t) \in Nat
  BY DEF Writing
<1>3. /\ l \in 1 .. Len(t) /\ e \in 1 .. Len(t)
      /\ Len(t) + 1 - l = e /\ Len(t) + 1 - e = l /\ Len(t) + 1 - (l + 1) = e - 1
  BY <1>1, <1>2
<1>4. /\ w \in Seq(Chars) /\ Len(w) = Len(t)
      /\ \A m \in 1 .. Len(t) : w[m] = IF m = e THEN t[l] ELSE IF m = l THEN t[e] ELSE t[m]
  <2> DEFINE y == [t EXCEPT ![l] = t[e]]
  <2>1. t[l] \in Chars /\ t[e] \in Chars
    BY <1>2, <1>3
  <2>2. /\ y \in Seq(Chars) /\ Len(y) = Len(t)
        /\ \A m \in 1 .. Len(t) : y[m] = IF m = l THEN t[e] ELSE t[m]
    <3> DEFINE a == t[e]
    <3>1. a \in Chars
      BY <2>1
    <3> HIDE DEF w, a
    <3>2. /\ [t EXCEPT ![l] = a] \in Seq(Chars)
          /\ Len([t EXCEPT ![l] = a]) = Len(t)
          /\ \A m \in 1 .. Len(t) : [t EXCEPT ![l] = a][m] = IF m = l THEN a ELSE t[m]
      BY <1>2, <1>3, <3>1, ExceptSeq
    <3> QED  BY <3>2, Zenon DEF a
  <2>3. w = [y EXCEPT ![e] = t[l]]
    OBVIOUS
  <2> HIDE DEF y, w
  <2>4. /\ w \in Seq(Chars) /\ Len(w) = Len(y)
        /\ \A m \in 1 .. Len(y) : w[m] = IF m = e THEN t[l] ELSE y[m]
    BY <1>3, <2>1, <2>2, <2>3, ExceptSeq
  <2> QED  BY <2>2, <2>4
<1> HIDE DEF w
<1>5. t[l] = s[e] /\ t[e] = s[l]
  <2>1. ~(l < l \/ l > Len(t) + 1 - l) /\ ~(e < l \/ e > Len(t) + 1 - l)
    BY <1>1, <1>2, <1>3
  <2>2. Len(s) + 1 - l = e /\ Len(s) + 1 - e = l
    BY <1>1, <1>3
  <2>3. t[l] = s[Len(s) + 1 - l] /\ t[e] = s[Len(s) + 1 - e]
    BY <1>1, <1>3, <2>1, Zenon
  <2> QED  BY <2>2, <2>3
<1>6. ASSUME NEW m \in 1 .. Len(w)
      PROVE  w[m] = IF m < l + 1 \/ m > Len(w) + 1 - (l + 1) THEN s[m] ELSE s[Len(s) + 1 - m]
  <2>1. CASE m = e  BY <1>1, <1>2, <1>3, <1>4, <1>5, <2>1
  <2>2. CASE m = l  BY <1>1, <1>2, <1>3, <1>4, <1>5, <2>2
  <2>3. CASE m # e /\ m # l
    <3>1. w[m] = t[m]
      BY <1>4, <2>3
    <3>2. m < l + 1 \/ m > Len(w) + 1 - (l + 1) <=> m < l \/ m > Len(t) + 1 - l
      <4>1. /\ m \in Nat /\ l \in Nat /\ e \in Nat
            /\ Len(w) + 1 - (l + 1) = e - 1 /\ Len(t) + 1 - l = e
        BY <1>1, <1>2, <1>3, <1>4
      <4>2. m < l + 1 \/ m > e - 1 <=> m < l \/ m > e
        BY <2>3, <4>1
      <4> QED  BY <4>1, <4>2
    <3> QED  BY <1>1, <1>4, <3>1, <3>2
  <2> QED  BY <2>1, <2>2, <2>3
<1>7. l + 1 \in Nat \ {0}
  BY <1>1
<1>8. Writing(s, n, b, "reverse", v, w, l + 1)
  BY <1>1, <1>4, <1>6, <1>7 DEF Writing
<1> QED  BY <1>8 DEF w

(* When the indices meet, all of them are. *)
LEMMA Written ==
  ASSUME NEW s \in Seq(Chars), NEW n, NEW b,
         NEW v, NEW t, NEW l, Writing(s, n, b, "reverse", v, t, l),
         l >= Len(t) + 1 - l
  PROVE  t = s
<1>1. /\ Len(t) = Len(s) /\ l \in Nat \ {0} /\ t \in Seq(Chars) /\ Len(s) \in Nat
      /\ \A m \in 1 .. Len(t) :
           t[m] = IF m < l \/ m > Len(t) + 1 - l THEN s[m] ELSE s[Len(s) + 1 - m]
  BY DEF Writing
<1>2. ASSUME NEW m \in 1 .. Len(t) PROVE t[m] = s[m]
  <2>1. CASE m < l \/ m > Len(t) + 1 - l
    BY <1>1, <2>1
  <2>2. CASE ~(m < l \/ m > Len(t) + 1 - l)
    <3>1. Len(s) + 1 - m = m
      BY <1>1, <2>2
    <3> QED  BY <1>1, <2>2, <3>1
  <2> QED  BY <2>1, <2>2
<1> QED  BY <1>1, <1>2, SeqEqual

-----------------------------------------------------------------------------
(* The format at i. *)

LEMMA CharAt ==
  ASSUME call \in Calls, NEW k \in 1 .. Len(call), NEW j \in 0 .. Len(call[k].format) - 1,
         NEW x, x = Len(Upto(call, "format", k - 1)) + j
  PROVE  /\ format_at(x) = call[k].format[j + 1] /\ format_at(x) # NUL /\ x < Len(format)
         /\ j + 1 < Len(call[k].format) => format_at(x + 1) = call[k].format[j + 2]
         /\ x \in Nat
<1> DEFINE f == call[k].format
           u == Len(Upto(call, "format", k - 1))
           n == Len(f)
           w == Len(format)
<1>1. /\ n \in Nat /\ u \in Nat /\ w \in Nat /\ u + n <= w
      /\ \A m \in 1 .. n : format[u + m] = f[m] /\ f[m] # NUL
  BY PieceAt DEF format
<1>2. x = u + j /\ j \in 0 .. n - 1
  OBVIOUS
<1> HIDE DEF n, u, w
<1>3. /\ x \in Nat /\ x < w /\ x + 1 = u + (j + 1) /\ j + 1 \in 1 .. n
      /\ j + 1 < n => x + 1 < w /\ (x + 1) + 1 = u + (j + 2) /\ j + 2 \in 1 .. n
  <2>1. /\ n \in Nat /\ u \in Nat /\ w \in Nat /\ u + n <= w /\ x = u + j
        /\ j \in Nat /\ j < n
    BY <1>1, <1>2
  <2>2. x \in Nat /\ x < w /\ x + 1 = u + (j + 1) /\ j + 1 \in 1 .. n
    BY <2>1
  <2>3. j + 1 < n => x + 1 < w /\ (x + 1) + 1 = u + (j + 2) /\ j + 2 \in 1 .. n
    BY <2>1
  <2> QED  BY <2>2, <2>3
<1>4. format_at(x) = format[x + 1]
  BY <1>3, Zenon DEF format_at, w
<1>5. j + 1 < n => format_at(x + 1) = format[(x + 1) + 1]
  BY <1>3, Zenon DEF format_at, w
<1>6. format[x + 1] = f[j + 1] /\ f[j + 1] # NUL
  BY <1>1, <1>3
<1>7. j + 1 < n => format[(x + 1) + 1] = f[j + 2]
  BY <1>1, <1>3
<1>8. format_at(x) = f[j + 1] /\ format_at(x) # NUL
  BY <1>4, <1>6
<1>9. j + 1 < n => format_at(x + 1) = f[j + 2]
  BY <1>5, <1>7
<1> QED  BY <1>3, <1>8, <1>9 DEF f, n, w

(* After the last piece: the terminator. *)
LEMMA AtEnd ==
  ASSUME call \in Calls, DoneAt(call, Len(call), i, arg, out)
  PROVE  /\ i = Len(format) /\ i \in Nat /\ format_at(i) = NUL
         /\ arg = Len(args) + 1 /\ out = Meant
<1>1. format \in Seq(Chars) /\ i = Len(format) /\ arg = Len(args) + 1 /\ out = Meant
  BY Ends DEF DoneAt, format, args, Meant
<1>2. i \in Nat
  BY <1>1, LenProperties
<1> QED  BY <1>1, <1>2 DEF format_at

(* After a piece comes the next, or the end. *)
LEMMA NextPiece ==
  ASSUME NEW c \in Calls, NEW k \in 0 .. Len(c), NEW x, NEW a, NEW o, DoneAt(c, k, x, a, o)
  PROVE  Scanning(c, x, a, o)
<1>1. Len(c) \in Nat
  BY Parts
<1>2. CASE k = Len(c)
  BY <1>2 DEF Scanning
<1>3. CASE k # Len(c)
  <2> DEFINE m == k + 1
             f == c[m].format
  <2>1. m \in 1 .. Len(c) /\ m - 1 = k
    BY <1>1, <1>3
  <2> HIDE DEF m
  <2>2. /\ Len(f) \in Nat /\ Len(f) > 0 /\ Len(Upto(c, "format", k)) \in Nat
        /\ Upto(c, "text", k) \in Seq(Chars)
    BY <2>1, PieceAt
  <2>3. 0 \in 0 .. Len(f) - 1 /\ Len(Upto(c, "format", k)) + 0 = Len(Upto(c, "format", k))
    BY <2>2
  <2>4. SubSeq(f, 1, 0) = <<>> /\ Upto(c, "text", k) \o <<>> = Upto(c, "text", k)
    BY <2>2, SubSeqEmpty, ConcatEmptySeq
  <2>5. TextAt(c, m, 0, x, a, o)
    BY <2>1, <2>3, <2>4, Zenon DEF TextAt, DoneAt
  <2> QED  BY <2>1, <2>3, <2>5, Zenon DEF Scanning
<1> QED  BY <1>2, <1>3

(* The first character of a piece comes right behind the pieces before. *)
LEMMA TextStarts ==
  ASSUME NEW c \in Calls, NEW k \in 1 .. Len(c), NEW x, NEW a, NEW o, TextAt(c, k, 0, x, a, o)
  PROVE  DoneAt(c, k - 1, x, a, o)
<1>1. Len(Upto(c, "format", k - 1)) \in Nat /\ Upto(c, "text", k - 1) \in Seq(Chars)
  BY PieceAt
<1>2. /\ SubSeq(c[k].format, 1, 0) = <<>>
      /\ Upto(c, "text", k - 1) \o <<>> = Upto(c, "text", k - 1)
      /\ Len(Upto(c, "format", k - 1)) + 0 = Len(Upto(c, "format", k - 1))
  BY <1>1, SubSeqEmpty, ConcatEmptySeq
<1> QED  BY <1>2, Zenon DEF TextAt, DoneAt

(* A '%' and the character behind it say what is meant. *)
Kind(p) ==
  /\ Len(p.format) = 2 /\ p.format[1] = "%"
  /\ p.format[2] = "c" => Character(p)
  /\ p.format[2] = "s" => String(p)
  /\ p.format[2] \in {"d", "u"} => Decimal(p)
  /\ p.format[2] \in {"x", "p"} => Hexadecimal(p)
  /\ p.format[2] = "%" => PercentSign(p)
  /\ p.format[2] \notin {"c", "s", "d", "u", "x", "p", "%"} => NoConversion(p)

(* Only plain text has no '%' in front, and the conversions exclude one another. *)
LEMMA Kinds ==
  ASSUME NEW p, Piece(p), ~PlainText(p)
  PROVE  Kind(p)
<1>1. \/ PercentSign(p) \/ Character(p) \/ String(p)
      \/ Decimal(p) \/ Hexadecimal(p) \/ NoConversion(p)
  BY Zenon DEF Piece
<1>2. PercentSign(p) => Of(p, {"%"})
  BY Zenon DEF PercentSign
<1>3. Character(p) => Of(p, {"c"})
  BY Zenon DEF Character, OneArgument
<1>4. String(p) => Of(p, {"s"})
  BY Zenon DEF String, OneArgument
<1>5. Decimal(p) => Of(p, {"d", "u"})
  BY Zenon DEF Decimal, OneArgument
<1>6. Hexadecimal(p) => Of(p, {"x", "p"})
  BY Zenon DEF Hexadecimal, OneArgument
<1>7. NoConversion(p) => /\ Len(p.format) = 2 /\ p.format[1] = "%"
                         /\ p.format[2] \notin {"%", "c", "s", "d", "u", "x", "p"}
  BY Zenon DEF NoConversion, Of
<1> QED  BY <1>1, <1>2, <1>3, <1>4, <1>5, <1>6, <1>7 DEF Of, Kind

(* A '%' that is met is the beginning of a piece. *)
LEMMA AtConversion ==
  ASSUME call \in Calls, Scanning(call, i, arg, out), format_at(i) = "%"
  PROVE  \E k \in 1 .. Len(call) :
           /\ Kind(call[k]) /\ DoneAt(call, k - 1, i, arg, out)
           /\ format_at(i + 1) = call[k].format[2]
<1>1. ~DoneAt(call, Len(call), i, arg, out)
  <2>1. NUL # "%"
    BY DEF NUL
  <2> QED  BY <2>1, AtEnd
<1>0. PICK k \in 1 .. Len(call) :
        \E j \in 0 .. Len(call[k].format) - 1 : TextAt(call, k, j, i, arg, out)
  BY <1>1, Zenon DEF Scanning
<1>2. PICK j \in 0 .. Len(call[k].format) - 1 : TextAt(call, k, j, i, arg, out)
  BY <1>0
<1>3. Piece(call[k]) /\ DOMAIN call[k].format = 1 .. Len(call[k].format)
  <2>1. Piece(call[k]) /\ call[k].format \in Seq(Chars)
    BY PieceAt
  <2> QED  BY <2>1
<1>4. call[k].format[j + 1] = "%" /\ j + 1 \in DOMAIN call[k].format
  <2>1. i = Len(Upto(call, "format", k - 1)) + j
    BY <1>2 DEF TextAt
  <2>2. j + 1 \in DOMAIN call[k].format
    BY <1>3
  <2> QED  BY <2>1, <2>2, CharAt
<1>5. ~PlainText(call[k])
  BY <1>4, Zenon DEF PlainText
<1>6. j = 0
  BY <1>2, <1>5, Zenon DEF TextAt
<1>7. Kind(call[k])
  BY <1>3, <1>5, Kinds
<1>8. DoneAt(call, k - 1, i, arg, out)
  BY <1>2, <1>6, TextStarts
<1>9. format_at(i + 1) = call[k].format[2]
  <2>1. i = Len(Upto(call, "format", k - 1)) + 0 /\ 0 + 1 < Len(call[k].format) /\ 0 + 2 = 2
    BY <1>2, <1>6, <1>7 DEF TextAt, Kind
  <2>2. 0 \in 0 .. Len(call[k].format) - 1
    BY <1>6
  <2>3. format_at(i + 1) = call[k].format[0 + 2]
    BY <2>1, <2>2, CharAt
  <2> QED  BY <2>1, <2>3
<1> QED  BY <1>7, <1>8, <1>9

(* The k-th piece, a conversion, is done with. *)
LEMMA PieceDone ==
  ASSUME NEW c \in Calls, NEW k \in 1 .. Len(c), NEW x, NEW a, NEW o,
         DoneAt(c, k - 1, x, a, o)
  PROVE  /\ DoneAt(c, k, x + Len(c[k].format), a + Len(c[k].args), o \o c[k].text)
         /\ x + Len(c[k].format) = Len(Upto(c, "format", k))
         /\ a + Len(c[k].args) = Len(Upto(c, "args", k)) + 1
         /\ a \in Nat /\ o \in Seq(Chars)
<1> DEFINE g == Len(Upto(c, "args", k - 1))
           h == Len(c[k].args)
<1>1. /\ Len(Upto(c, "format", k)) = Len(Upto(c, "format", k - 1)) + Len(c[k].format)
      /\ Len(Upto(c, "args", k)) = g + h
      /\ g \in Nat /\ h \in Nat
      /\ Upto(c, "text", k) = Upto(c, "text", k - 1) \o c[k].text
      /\ Upto(c, "text", k - 1) \in Seq(Chars)
  BY PieceAt
<1>2. x = Len(Upto(c, "format", k - 1)) /\ a = g + 1 /\ o = Upto(c, "text", k - 1)
  BY DEF DoneAt
<1> HIDE DEF g, h
<1>3. a + h = (g + h) + 1 /\ a \in Nat
  BY <1>1, <1>2
<1> QED  BY <1>1, <1>2, <1>3 DEF DoneAt, h

-----------------------------------------------------------------------------
(* The steps. *)

LEMMA Where ==
  ASSUME IInv
  PROVE  /\ call \in Calls
         /\ pc = "scan" => Scanning(call, i, arg, out)
         /\ pc \in {"digits", "reverse"} =>
              \E k \in 1 .. Len(call) : NumberAt(call, k, i, arg, out, pc, num, base, str, start)
         /\ pc = "return" => DoneAt(call, Len(call), i, arg, out)
         /\ pc \in {"scan", "digits", "reverse", "return"}
<1>1. ASSUME NEW k, NumberAt(call, k, i, arg, out, pc, num, base, str, start)
      PROVE  pc \in {"digits", "reverse"}
  BY <1>1 DEF NumberAt, Writing
<1> QED  BY <1>1 DEF IInv

(* Init establishes the invariant; each action below keeps it. *)
LEMMA InitInv == Init => IInv
<1> SUFFICES ASSUME Init PROVE IInv
  OBVIOUS
<1>1. call \in Calls /\ pc = "scan" /\ i = 0 /\ arg = 1 /\ out = <<>>
  BY DEF Init
<1>2. Len(call) \in Nat /\ 0 \in 0 .. Len(call)
  BY <1>1, Parts
<1>3. DoneAt(call, 0, i, arg, out)
  <2>1. /\ Upto(call, "format", 0) = <<>> /\ Upto(call, "args", 0) = <<>>
        /\ Upto(call, "text", 0) = <<>>
    BY <1>1, Ends
  <2> QED  BY <1>1, <2>1 DEF DoneAt
<1>4. Scanning(call, i, arg, out)
  BY <1>1, <1>2, <1>3, NextPiece
<1> QED  BY <1>1, <1>4 DEF IInv

LEMMA LiteralInv == IInv /\ literal => IInv'
<1> SUFFICES ASSUME IInv, literal PROVE IInv'
  OBVIOUS
<1>1. /\ pc = "scan" /\ format_at(i) \notin {NUL, "%"} /\ out' = out \o <<format_at(i)>>
      /\ i' = i + 1 /\ call' = call /\ pc' = pc /\ arg' = arg
  BY DEF literal, kprint
<1>2. call \in Calls /\ Scanning(call, i, arg, out)
  BY <1>1, Where
<1>3. ~DoneAt(call, Len(call), i, arg, out)
  BY <1>1, <1>2, AtEnd
<1>4. PICK k \in 1 .. Len(call) :
        \E j \in 0 .. Len(call[k].format) - 1 : TextAt(call, k, j, i, arg, out)
  BY <1>2, <1>3, Zenon DEF Scanning
<1>5. PICK j \in 0 .. Len(call[k].format) - 1 : TextAt(call, k, j, i, arg, out)
  BY <1>4
<1> DEFINE p == call[k]
           f == p.format
           n == Len(f)
           u == Len(Upto(call, "format", k - 1))
           t == Upto(call, "text", k - 1)
<1>6. /\ Piece(p) /\ f \in Seq(Chars) /\ n \in Nat /\ n > 0 /\ u \in Nat /\ t \in Seq(Chars)
      /\ \A m \in 1 .. n : f[m] \in Chars
  <2>1. /\ Piece(p) /\ f \in Seq(Chars) /\ n \in Nat /\ n > 0 /\ u \in Nat /\ t \in Seq(Chars)
    BY <1>2, PieceAt
  <2> QED  BY <2>1
<1>7. i = u + j /\ (j = 0 \/ PlainText(p)) /\ out = t \o SubSeq(f, 1, j)
      /\ arg = Len(Upto(call, "args", k - 1)) + 1
  BY <1>5 DEF TextAt
<1>8. format_at(i) = f[j + 1]
  BY <1>2, <1>7, CharAt
<1>9. PlainText(p)
  <2> SUFFICES ASSUME ~PlainText(p) PROVE FALSE
    OBVIOUS
  <2>1. j + 1 = 1 /\ f[1] = "%"
    BY <1>6, <1>7, Kinds DEF Kind
  <2> QED  BY <1>1, <1>8, <2>1
<1> HIDE DEF p, f, n, u, t
<1>10. out' = t \o SubSeq(f, 1, j + 1)
  <2>1. j + 1 \in 1 .. n /\ (j + 1) - 1 = j /\ 1 \in 1 .. n /\ j \in Int
    BY <1>5, <1>6 DEF n, f, p
  <2>2. SubSeq(f, 1, j + 1) = SubSeq(f, 1, j) \o <<f[j + 1]>>
    <3> DEFINE z == j + 1
    <3>1. z \in 1 .. Len(f) /\ 1 \in 1 .. Len(f) /\ z \in Nat /\ z - 1 = j
      BY <2>1 DEF n
    <3> HIDE DEF z
    <3>2. SubSeq(f, 1, z) = SubSeq(f, 1, z - 1) \o <<f[z]>>
      BY <1>6, <3>1, SubSeqRecursiveSecond
    <3> QED  BY <3>1, <3>2 DEF z
  <2>3. SubSeq(f, 1, j) \in Seq(Chars) /\ <<f[j + 1]>> \in Seq(Chars)
    <3>1. \A m \in 1 .. j : f[m] \in Chars
      BY <1>6, <2>1
    <3>2. SubSeq(f, 1, j) \in Seq(Chars)
      BY <2>1, <3>1, SubSeqProperties
    <3>3. f[j + 1] \in Chars
      BY <1>6, <2>1
    <3> QED  BY <3>2, <3>3
  <2>4. (t \o SubSeq(f, 1, j)) \o <<f[j + 1]>> = t \o (SubSeq(f, 1, j) \o <<f[j + 1]>>)
    <3> DEFINE y == SubSeq(f, 1, j)
               z == <<f[j + 1]>>
    <3>1. y \in Seq(Chars) /\ z \in Seq(Chars) /\ t \in Seq(Chars)
      BY <1>6, <2>3
    <3> HIDE DEF y, z
    <3>2. (t \o y) \o z = t \o (y \o z)
      BY <3>1, ConcatAssociative
    <3> QED  BY <3>2 DEF y, z
  <2>5. out' = (t \o SubSeq(f, 1, j)) \o <<f[j + 1]>>
    BY <1>1, <1>7, <1>8, Zenon
  <2> QED  BY <2>2, <2>4, <2>5, Zenon
<1>11. Scanning(call, i', arg', out')
  <2>1. i' = u + (j + 1) /\ j + 1 <= n /\ j + 1 \in Nat
    <3>1. i' = i + 1 /\ i = u + j /\ u \in Nat /\ n \in Nat
      BY <1>1, <1>6, <1>7
    <3>2. j \in 0 .. n - 1
      BY DEF n, f, p
    <3> QED  BY <3>1, <3>2
  <2>2. CASE j + 1 < n
    <3>1. j + 1 \in 0 .. n - 1
      BY <1>6, <2>1, <2>2
    <3>2. TextAt(call, k, j + 1, i', arg', out')
      BY <1>1, <1>7, <1>9, <1>10, <2>1, Zenon DEF TextAt, u, t, f, p
    <3> QED  BY <3>1, <3>2, Zenon DEF Scanning, n, f, p
  <2>3. CASE j + 1 = n
    <3>1. SubSeq(f, 1, n) = f
      BY <1>6, SubSeqFull DEF n
    <3>2. p.args = <<>> /\ p.text = f
      BY <1>9, Zenon DEF PlainText, Itself, f
    <3>3. /\ Len(Upto(call, "format", k)) = u + n
          /\ Len(Upto(call, "args", k)) = Len(Upto(call, "args", k - 1)) + Len(p.args)
          /\ Len(Upto(call, "args", k - 1)) \in Nat
          /\ Upto(call, "text", k) = t \o p.text
      BY <1>2, PieceAt DEF n, f, p, u, t
    <3>4. out' = t \o f
      BY <1>10, <2>3, <3>1, Zenon
    <3>5. Len(Upto(call, "args", k)) = Len(Upto(call, "args", k - 1))
      <4>1. Len(p.args) = 0
        BY <3>2
      <4> QED  BY <3>3, <4>1
    <3>6. DoneAt(call, k, i', arg', out')
      BY <1>1, <1>7, <2>1, <2>3, <3>2, <3>3, <3>4, <3>5, Zenon DEF DoneAt
    <3>7. k \in 0 .. Len(call)
      BY <1>2, Parts
    <3> QED  BY <1>2, <3>6, <3>7, NextPiece
  <2> QED  BY <1>6, <2>1, <2>2, <2>3
<1> QED  BY <1>1, <1>2, <1>11 DEF IInv

(* A conversion that prints all of its piece at once. *)
LEMMA WholePiece ==
  ASSUME IInv, pc = "scan", format_at(i) = "%",
         NEW k \in 1 .. Len(call), DoneAt(call, k - 1, i, arg, out),
         Len(call[k].format) = 2,
         i' = i + 2, arg' = arg + Len(call[k].args), out' = out \o call[k].text,
         call' = call, pc' = pc
  PROVE  IInv'
<1>1. call \in Calls
  BY Where
<1>2. DoneAt(call, k, i', arg', out')
  <2>1. DoneAt(call, k, i + Len(call[k].format), arg + Len(call[k].args), out \o call[k].text)
    BY <1>1, PieceDone
  <2> QED  BY <2>1, Zenon
<1>3. k \in 0 .. Len(call)
  BY <1>1, Parts
<1>4. Scanning(call, i', arg', out')
  BY <1>1, <1>2, <1>3, NextPiece
<1> QED  BY <1>1, <1>4 DEF IInv

(* The next argument is the piece's. *)
LEMMA ArgAt ==
  ASSUME call \in Calls, NEW k \in 1 .. Len(call), DoneAt(call, k - 1, i, arg, out),
         Len(call[k].args) = 1
  PROVE  args[arg] = call[k].args[1]
<1>1. /\ 1 \in 1 .. Len(call[k].args) /\ arg = Len(Upto(call, "args", k - 1)) + 1
  BY DEF DoneAt
<1> QED  BY <1>1, PieceAt DEF args

(* A conversion for one of S is the beginning of a piece that asks for one of S. *)
LEMMA ConversionInv ==
  ASSUME IInv, NEW S, Conversion(S)
  PROVE  \E k \in 1 .. Len(call) :
           /\ Piece(call[k]) /\ Kind(call[k]) /\ call[k].format[2] \in S
           /\ DoneAt(call, k - 1, i, arg, out)
           /\ call[k].format[2] = format_at(i + 1)
<1>1. call \in Calls /\ Scanning(call, i, arg, out) /\ format_at(i) = "%" /\ format_at(i + 1) \in S
  BY Where DEF Conversion
<1>2. PICK k \in 1 .. Len(call) :
        /\ Kind(call[k]) /\ DoneAt(call, k - 1, i, arg, out)
        /\ format_at(i + 1) = call[k].format[2]
  BY <1>1, AtConversion
<1>3. Piece(call[k])
  BY <1>1, PieceAt
<1> QED  BY <1>1, <1>2, <1>3

LEMMA ConversionCInv == IInv /\ conversion_c => IInv'
<1> SUFFICES ASSUME IInv, conversion_c PROVE IInv'
  OBVIOUS
<1>1. /\ Conversion({"c"}) /\ i' = i + 2 /\ arg' = arg + 1 /\ out' = out \o <<args[arg]>>
      /\ call' = call /\ pc' = pc
  BY DEF conversion_c, Moves, Takes, kprint
<1>2. PICK k \in 1 .. Len(call) :
        /\ Piece(call[k]) /\ Kind(call[k]) /\ call[k].format[2] \in {"c"}
        /\ DoneAt(call, k - 1, i, arg, out)
  BY <1>1, ConversionInv
<1>3. /\ Len(call[k].format) = 2 /\ Len(call[k].args) = 1 /\ call[k].text = <<call[k].args[1]>>
  BY <1>2 DEF Kind, Character, OneArgument
<1>4. args[arg] = call[k].args[1]
  BY <1>2, <1>3, ArgAt, Where
<1>5. pc = "scan" /\ format_at(i) = "%"
  BY <1>1 DEF Conversion
<1> QED  BY <1>1, <1>2, <1>3, <1>4, <1>5, WholePiece

LEMMA ConversionSInv == IInv /\ conversion_s => IInv'
<1> SUFFICES ASSUME IInv, conversion_s PROVE IInv'
  OBVIOUS
<1>1. /\ Conversion({"s"}) /\ i' = i + 2 /\ arg' = arg + 1 /\ out' = out \o TextOf(args[arg])
      /\ call' = call /\ pc' = pc
  BY DEF conversion_s, Moves, Takes, kprint
<1>2. PICK k \in 1 .. Len(call) :
        /\ Piece(call[k]) /\ Kind(call[k]) /\ call[k].format[2] \in {"s"}
        /\ DoneAt(call, k - 1, i, arg, out)
  BY <1>1, ConversionInv
<1>3. String(call[k]) /\ Len(call[k].format) = 2
  BY <1>2 DEF Kind
<1>4. /\ Len(call[k].args) = 1 /\ call[k].text = TextOf(call[k].args[1])
  BY <1>3, Zenon DEF String, OneArgument, TextOf
<1>5. args[arg] = call[k].args[1]
  BY <1>2, <1>4, ArgAt, Where
<1>6. pc = "scan" /\ format_at(i) = "%"
  BY <1>1 DEF Conversion
<1> QED  BY <1>1, <1>2, <1>3, <1>4, <1>5, <1>6, WholePiece

LEMMA PercentInv == IInv /\ percent => IInv'
<1> SUFFICES ASSUME IInv, percent PROVE IInv'
  OBVIOUS
<1>1. /\ Conversion({"%"}) /\ i' = i + 2 /\ arg' = arg + 0 /\ out' = out \o <<"%">>
      /\ call' = call /\ pc' = pc
  BY DEF percent, Moves, Takes, kprint
<1>2. PICK k \in 1 .. Len(call) :
        /\ Piece(call[k]) /\ Kind(call[k]) /\ call[k].format[2] \in {"%"}
        /\ DoneAt(call, k - 1, i, arg, out)
  BY <1>1, ConversionInv
<1>3. PercentSign(call[k]) /\ Len(call[k].format) = 2
  BY <1>2 DEF Kind
<1>4. Len(call[k].args) = 0 /\ call[k].text = <<"%">>
  BY <1>3 DEF PercentSign
<1>5. pc = "scan" /\ format_at(i) = "%"
  BY <1>1 DEF Conversion
<1> QED  BY <1>1, <1>2, <1>3, <1>4, <1>5, WholePiece

LEMMA UnknownInv == IInv /\ unknown => IInv'
<1> SUFFICES ASSUME IInv, unknown PROVE IInv'
  OBVIOUS
<1> DEFINE c == format_at(i + 1)
<1>1. /\ Conversion({c}) /\ c \notin {"c", "s", "d", "u", "x", "p", "%"}
      /\ i' = i + 2 /\ arg' = arg + 0 /\ out' = out \o <<"%", c>>
      /\ call' = call /\ pc' = pc
  BY DEF unknown, Conversion, Moves, Takes, kprint
<1> HIDE DEF c
<1>2. PICK k \in 1 .. Len(call) :
        /\ Piece(call[k]) /\ Kind(call[k]) /\ call[k].format[2] \in {c}
        /\ DoneAt(call, k - 1, i, arg, out)
  BY <1>1, ConversionInv
<1> DEFINE f == call[k].format
<1>3. NoConversion(call[k]) /\ Len(f) = 2 /\ f[1] = "%" /\ f[2] = c
  BY <1>1, <1>2 DEF Kind
<1>4. Len(call[k].args) = 0 /\ call[k].text = f
  BY <1>3 DEF NoConversion, Itself
<1>5. f = <<"%", c>>
  <2>1. f \in Seq(Chars \ {NUL})
    BY <1>2 DEF Piece
  <2> HIDE DEF f
  <2> QED  BY <1>3, <2>1
<1>6. pc = "scan" /\ format_at(i) = "%"
  BY <1>1 DEF Conversion
<1> QED  BY <1>1, <1>2, <1>3, <1>4, <1>5, <1>6, WholePiece

(* The number of the piece goes to uitoa. *)
LEMMA NumberInv ==
  ASSUME IInv, NEW k \in 1 .. Len(call), Piece(call[k]), IsNumber(call[k]),
         DoneAt(call, k - 1, i, arg, out),
         NEW b, b = Base(call[k]), NEW r, r = Prefix(call[k]), Number(b, r)
  PROVE  IInv'
<1> DEFINE p == call[k]
<1>1. /\ i' = i + 2 /\ arg' = arg + 1 /\ out' = out \o r /\ num' = args[arg] % WORD /\ base' = b
      /\ str' = <<>> /\ start' = 1 /\ pc' = "digits" /\ call' = call
  BY DEF Number, Moves, Takes, kprint
<1>2. /\ b \in {10, 16} /\ Figures(p) \in Seq(Chars) /\ Positional(Figures(p), p.args[1] % WORD, b)
      /\ Len(p.args) = 1 /\ Len(p.format) = 2
  BY NumberPiece
<1>3. args[arg] = p.args[1] /\ call \in Calls
  BY <1>2, ArgAt, Where
<1>4. Writing(Figures(p), p.args[1] % WORD, b, "digits", num', str', start')
  BY <1>1, <1>2, <1>3, WritingStarts, Zenon
<1>5. /\ i + Len(p.format) = Len(Upto(call, "format", k))
      /\ arg + Len(p.args) = Len(Upto(call, "args", k)) + 1
      /\ out = Upto(call, "text", k - 1)
  BY <1>3, PieceDone DEF DoneAt
<1>6. NumberAt(call, k, i', arg', out', "digits", num', b, str', start')
  BY <1>1, <1>2, <1>4, <1>5, Zenon DEF NumberAt
<1> QED  BY <1>1, <1>3, <1>6 DEF IInv

LEMMA ConversionDInv == IInv /\ conversion_d => IInv'
<1> SUFFICES ASSUME IInv, conversion_d PROVE IInv'
  OBVIOUS
<1>1. Conversion({"d", "u"}) /\ Number(10, <<>>)
  BY DEF conversion_d
<1>2. PICK k \in 1 .. Len(call) :
        /\ Piece(call[k]) /\ Kind(call[k]) /\ call[k].format[2] \in {"d", "u"}
        /\ DoneAt(call, k - 1, i, arg, out)
  BY <1>1, ConversionInv
<1>3. IsNumber(call[k])
  BY <1>2 DEF Kind, IsNumber
<1>4. 10 = Base(call[k]) /\ <<>> = Prefix(call[k])
  BY <1>2, Zenon DEF Base, Prefix
<1> QED  BY <1>1, <1>2, <1>3, <1>4, NumberInv

LEMMA ConversionXInv == IInv /\ conversion_x => IInv'
<1> SUFFICES ASSUME IInv, conversion_x PROVE IInv'
  OBVIOUS
<1>1. Conversion({"p", "x"}) /\ Number(16, <<"0", "x">>)
  BY DEF conversion_x
<1>2. PICK k \in 1 .. Len(call) :
        /\ Piece(call[k]) /\ Kind(call[k]) /\ call[k].format[2] \in {"p", "x"}
        /\ DoneAt(call, k - 1, i, arg, out)
  BY <1>1, ConversionInv
<1>3. IsNumber(call[k]) /\ call[k].format[2] \notin {"d", "u"}
  BY <1>2 DEF Kind, IsNumber
<1>4. 16 = Base(call[k]) /\ <<"0", "x">> = Prefix(call[k])
  BY <1>3, Zenon DEF Base, Prefix
<1> QED  BY <1>1, <1>2, <1>3, <1>4, NumberInv

LEMMA ReturnInv == IInv /\ kprintf_return => IInv'
<1> SUFFICES ASSUME IInv, kprintf_return PROVE IInv'
  OBVIOUS
<1>1. /\ pc = "scan" /\ i >= Len(format) /\ pc' = "return"
      /\ call' = call /\ i' = i /\ arg' = arg /\ out' = out
  BY DEF kprintf_return
<1>2. call \in Calls /\ Scanning(call, i, arg, out)
  BY <1>1, Where
<1>3. DoneAt(call, Len(call), i, arg, out)
  <2>1. ASSUME NEW k \in 1 .. Len(call), NEW j \in 0 .. Len(call[k].format) - 1,
               TextAt(call, k, j, i, arg, out)
        PROVE  FALSE
    <3>1. i = Len(Upto(call, "format", k - 1)) + j
      BY <2>1 DEF TextAt
    <3>2. i < Len(format) /\ i \in Nat /\ Len(format) \in Nat
      <4>1. i < Len(format) /\ i \in Nat
        BY <1>2, <3>1, CharAt
      <4> QED  BY <1>2, <4>1, PieceAt DEF format
    <3> QED  BY <1>1, <3>2
  <2> QED  BY <1>2, <2>1, Zenon DEF Scanning
<1> QED  BY <1>1, <1>2, <1>3 DEF IInv

(* A number on its way: what a step of uitoa has to keep. *)
LEMMA NumberStays ==
  ASSUME IInv, pc \in {"digits", "reverse"},
         NEW k \in 1 .. Len(call), NumberAt(call, k, i, arg, out, pc, num, base, str, start),
         Writing(Figures(call[k]), call[k].args[1] % WORD, base, pc', num', str', start'),
         call' = call, i' = i, arg' = arg, out' = out, base' = base
  PROVE  IInv'
<1>1. NumberAt(call, k, i', arg', out', pc', num', base', str', start')
  BY Zenon DEF NumberAt
<1>2. call \in Calls
  BY Where
<1> QED  BY <1>1, <1>2 DEF IInv

(* In uitoa: whose figures they are. *)
LEMMA NumberIs ==
  ASSUME IInv, pc \in {"digits", "reverse"}
  PROVE  \E k \in 1 .. Len(call) :
           /\ Piece(call[k]) /\ NumberAt(call, k, i, arg, out, pc, num, base, str, start)
           /\ Figures(call[k]) \in Seq(Chars) /\ Figures(call[k]) # <<>> /\ base \in {10, 16}
           /\ Positional(Figures(call[k]), call[k].args[1] % WORD, base)
           /\ Writing(Figures(call[k]), call[k].args[1] % WORD, base, pc, num, str, start)
<1>1. PICK k \in 1 .. Len(call) : NumberAt(call, k, i, arg, out, pc, num, base, str, start)
  BY Where
<1>2. Piece(call[k])
  BY Where, PieceAt
<1>3. IsNumber(call[k]) /\ base = Base(call[k])
  BY <1>1 DEF NumberAt
<1>4. /\ base \in {10, 16} /\ Figures(call[k]) \in Seq(Chars)
      /\ Positional(Figures(call[k]), call[k].args[1] % WORD, base)
  BY <1>2, <1>3, NumberPiece
<1>5. Figures(call[k]) # <<>>
  BY <1>4, Zenon DEF Positional
<1>6. Writing(Figures(call[k]), call[k].args[1] % WORD, base, pc, num, str, start)
  BY <1>1, Zenon DEF NumberAt
<1> QED  BY <1>1, <1>2, <1>4, <1>5, <1>6

LEMMA DigitInv == IInv /\ uitoa_digit => IInv'
<1> SUFFICES ASSUME IInv, uitoa_digit PROVE IInv'
  OBVIOUS
<1>1. /\ pc = "digits" /\ (num # 0 \/ str = <<>>)
      /\ str' = Append(str, Numeral(num % base)) /\ num' = num \div base
      /\ call' = call /\ pc' = pc /\ i' = i /\ arg' = arg /\ base' = base /\ start' = start
      /\ out' = out
  BY DEF uitoa_digit
<1>2. PICK k \in 1 .. Len(call) :
        /\ Piece(call[k]) /\ NumberAt(call, k, i, arg, out, pc, num, base, str, start)
        /\ Figures(call[k]) \in Seq(Chars) /\ Figures(call[k]) # <<>> /\ base \in {10, 16}
        /\ Writing(Figures(call[k]), call[k].args[1] % WORD, base, pc, num, str, start)
  BY <1>1, NumberIs
<1> DEFINE s == Figures(call[k])
           n == call[k].args[1] % WORD
<1>3. s \in Seq(Chars) /\ s # <<>> /\ Writing(s, n, base, "digits", num, str, start)
  BY <1>1, <1>2
<1> HIDE DEF s, n
<1>4. Writing(s, n, base, "digits", num \div base, Append(str, Numeral(num % base)), start)
  BY <1>1, <1>2, <1>3, DigitWritten
<1>5. Writing(s, n, base, pc', num', str', start')
  BY <1>1, <1>4, Zenon
<1> QED  BY <1>1, <1>2, <1>5, NumberStays DEF s, n

LEMMA DigitsDoneInv == IInv /\ uitoa_digits_done => IInv'
<1> SUFFICES ASSUME IInv, uitoa_digits_done PROVE IInv'
  OBVIOUS
<1>1. /\ pc = "digits" /\ num = 0 /\ str # <<>> /\ pc' = "reverse"
      /\ call' = call /\ i' = i /\ arg' = arg /\ num' = num /\ base' = base /\ str' = str
      /\ start' = start /\ out' = out
  BY DEF uitoa_digits_done, uitoa_vars
<1>2. PICK k \in 1 .. Len(call) :
        /\ Piece(call[k]) /\ NumberAt(call, k, i, arg, out, pc, num, base, str, start)
        /\ Figures(call[k]) \in Seq(Chars) /\ base \in {10, 16}
        /\ Writing(Figures(call[k]), call[k].args[1] % WORD, base, pc, num, str, start)
  BY <1>1, NumberIs
<1> DEFINE s == Figures(call[k])
           n == call[k].args[1] % WORD
<1>3. s \in Seq(Chars) /\ Writing(s, n, base, "digits", 0, str, start)
  BY <1>1, <1>2, Zenon
<1> HIDE DEF s, n
<1>4. Writing(s, n, base, "reverse", 0, str, start)
  BY <1>1, <1>2, <1>3, DigitsWritten
<1>5. Writing(s, n, base, pc', num', str', start')
  BY <1>1, <1>4, Zenon
<1> QED  BY <1>1, <1>2, <1>5, NumberStays DEF s, n

LEMMA SwapInv == IInv /\ reverse_swap => IInv'
<1> SUFFICES ASSUME IInv, reverse_swap PROVE IInv'
  OBVIOUS
<1> DEFINE e == Len(str) + 1 - start
<1>1. /\ pc = "reverse" /\ start < e
      /\ str' = [str EXCEPT ![start] = str[e], ![e] = str[start]] /\ start' = start + 1
      /\ call' = call /\ pc' = pc /\ i' = i /\ arg' = arg /\ num' = num /\ base' = base
      /\ out' = out
  BY DEF reverse_swap, End
<1>2. PICK k \in 1 .. Len(call) :
        /\ Piece(call[k]) /\ NumberAt(call, k, i, arg, out, pc, num, base, str, start)
        /\ Figures(call[k]) \in Seq(Chars)
        /\ Writing(Figures(call[k]), call[k].args[1] % WORD, base, pc, num, str, start)
  BY <1>1, NumberIs
<1> DEFINE s == Figures(call[k])
           n == call[k].args[1] % WORD
<1>3. s \in Seq(Chars) /\ Writing(s, n, base, "reverse", num, str, start)
  BY <1>1, <1>2, Zenon
<1>4. e = Len(str) + 1 - start
  OBVIOUS
<1> HIDE DEF s, n, e
<1>5. Writing(s, n, base, "reverse", num,
              [str EXCEPT ![start] = str[e], ![e] = str[start]], start + 1)
  BY <1>1, <1>3, <1>4, SwapWritten
<1>6. Writing(s, n, base, pc', num', str', start')
  BY <1>1, <1>5, Zenon
<1> QED  BY <1>1, <1>2, <1>6, NumberStays DEF s, n

(* The buffer holds the figures when they have been swapped. *)
LEMMA Reversed ==
  ASSUME IInv, pc = "reverse", start >= Len(str) + 1 - start
  PROVE  \E k \in 1 .. Len(call) :
           /\ Piece(call[k]) /\ NumberAt(call, k, i, arg, out, pc, num, base, str, start)
           /\ str = Figures(call[k])
           /\ Positional(str, call[k].args[1] % WORD, base)
<1>1. PICK k \in 1 .. Len(call) :
        /\ Piece(call[k]) /\ NumberAt(call, k, i, arg, out, pc, num, base, str, start)
        /\ Figures(call[k]) \in Seq(Chars)
        /\ Positional(Figures(call[k]), call[k].args[1] % WORD, base)
        /\ Writing(Figures(call[k]), call[k].args[1] % WORD, base, pc, num, str, start)
  BY NumberIs
<1> DEFINE s == Figures(call[k])
           n == call[k].args[1] % WORD
<1>2. s \in Seq(Chars) /\ Writing(s, n, base, "reverse", num, str, start)
  BY <1>1, Zenon
<1> HIDE DEF s, n
<1>3. str = s
  BY <1>2, Written
<1> QED  BY <1>1, <1>3, Zenon DEF s

LEMMA PrintNumberInv == IInv /\ print_number => IInv'
<1> SUFFICES ASSUME IInv, print_number PROVE IInv'
  OBVIOUS
<1>1. /\ pc = "reverse" /\ start >= Len(str) + 1 - start /\ out' = out \o str /\ pc' = "scan"
      /\ call' = call /\ i' = i /\ arg' = arg
  BY DEF print_number, kprint, End
<1>2. PICK k \in 1 .. Len(call) :
        /\ Piece(call[k]) /\ NumberAt(call, k, i, arg, out, pc, num, base, str, start)
        /\ str = Figures(call[k])
  BY <1>1, Reversed
<1>3. call \in Calls
  BY Where
<1> DEFINE p == call[k]
           t == Upto(call, "text", k - 1)
           x == Prefix(p)
           s == Figures(p)
<1>4. /\ IsNumber(p) /\ i = Len(Upto(call, "format", k)) /\ arg = Len(Upto(call, "args", k)) + 1
      /\ out = t \o x
  BY <1>2, Zenon DEF NumberAt
<1>5. x \in Seq(Chars) /\ s \in Seq(Chars) /\ x \o s = p.text
  BY <1>2, <1>4, NumberPiece
<1>6. t \in Seq(Chars) /\ Upto(call, "text", k) = t \o p.text
  BY <1>3, PieceAt
<1>7. out' = (t \o x) \o s
  BY <1>1, <1>2, <1>4, Zenon
<1> HIDE DEF p, t, x, s
<1>8. (t \o x) \o s = t \o (x \o s)
  <2>1. t \in Seq(Chars) /\ x \in Seq(Chars) /\ s \in Seq(Chars)
    BY <1>5, <1>6
  <2> QED  BY <2>1, ConcatAssociative
<1>9. out' = Upto(call, "text", k)
  BY <1>5, <1>6, <1>7, <1>8, Zenon
<1>10. DoneAt(call, k, i', arg', out') /\ k \in 0 .. Len(call)
  <2>1. k \in 0 .. Len(call)
    BY <1>3, Parts
  <2> QED  BY <1>1, <1>4, <1>9, <2>1, Zenon DEF DoneAt
<1>11. Scanning(call, i', arg', out')
  BY <1>3, <1>10, NextPiece
<1> QED  BY <1>1, <1>3, <1>11 DEF IInv

LEMMA NextInv == IInv /\ [Next]_vars => IInv'
<1>1. IInv /\ UNCHANGED vars => IInv'
  BY Zenon DEF IInv, vars
<1>2. IInv /\ Over => IInv'
  BY <1>1 DEF Over
<1> QED  BY <1>1, <1>2, LiteralInv, ConversionCInv, ConversionSInv, ConversionDInv,
            ConversionXInv, PercentInv, UnknownInv, ReturnInv, DigitInv, DigitsDoneInv,
            SwapInv, PrintNumberInv, Zenon DEF Next

LEMMA SpecInv == Spec => []IInv
BY InitInv, NextInv, PTL DEF Spec

-----------------------------------------------------------------------------
(* What the invariant means. *)

LEMMA Associative ==
  \A r, s, t \in Seq(Chars) : (r \o s) \o t = r \o (s \o t)
BY ConcatAssociative

(* What is printed of the k-th piece, y, is the beginning of its text. *)
LEMMA Stretch ==
  ASSUME NEW c \in Calls, NEW k \in 1 .. Len(c), NEW y \in Seq(Chars), NEW z \in Seq(Chars),
         y \o z = c[k].text
  PROVE  /\ Upto(c, "text", k - 1) \o y \in Seq(Chars)
         /\ Begins(Upto(c, "text", k - 1) \o y, FlattenField(c, "text"))
<1> DEFINE t == Upto(c, "text", k - 1)
           w == Upto(c, "text", k)
           M == FlattenField(c, "text")
           x == c[k].text
<1>1. t \in Seq(Chars) /\ M \in Seq(Chars) /\ w \in Seq(Chars) /\ w = t \o x /\ Begins(w, M)
  BY PieceAt
<1>2. y \o z = x
  OBVIOUS
<1> HIDE DEF t, w, M, x
<1> DEFINE o == t \o y
<1>3. o \in Seq(Chars)
  BY <1>1, BeginsConcat
<1>4. w = o \o z
  <2>1. (t \o y) \o z = t \o (y \o z)
    <3>1. y \in Seq(Chars) /\ z \in Seq(Chars)
      OBVIOUS
    <3> QED  BY <1>1, <3>1, Associative, Zenon
  <2> QED  BY <1>1, <1>2, <2>1
<1> HIDE DEF o
<1>5. Begins(o, w)
  BY <1>3, <1>4, BeginsConcat
<1>6. Len(o) \in Nat /\ Len(w) \in Nat /\ Len(M) \in Nat
  BY <1>1, <1>3, LenProperties
<1>7. Begins(o, M)
  <2>1. Len(o) <= Len(M)
    BY <1>1, <1>5, <1>6 DEF Begins
  <2>2. ASSUME NEW j \in 1 .. Len(o) PROVE M[j] = o[j]
    <3>1. j \in 1 .. Len(w)
      BY <1>5, <1>6 DEF Begins
    <3> QED  BY <1>1, <1>5, <3>1 DEF Begins
  <2> QED  BY <2>1, <2>2 DEF Begins
<1> QED  BY <1>3, <1>7 DEF o, t, M

(* The first k texts are how the meant text begins. *)
LEMMA StartOfPiece ==
  ASSUME NEW c \in Calls, NEW k \in 0 .. Len(c)
  PROVE  Upto(c, "text", k) \in Seq(Chars) /\ Begins(Upto(c, "text", k), FlattenField(c, "text"))
<1>1. Len(c) \in Nat
  BY Parts
<1>2. CASE k = Len(c)
  BY <1>2, Ends, BeginsConcat
<1>3. CASE k # Len(c)
  <2> DEFINE m == k + 1
  <2>1. m \in 1 .. Len(c) /\ m - 1 = k
    BY <1>1, <1>3
  <2> HIDE DEF m
  <2>2. <<>> \in Seq(Chars) /\ c[m].text \in Seq(Chars) /\ <<>> \o c[m].text = c[m].text
    BY <2>1, PieceAt, EmptySeq, ConcatEmptySeq
  <2>3. Upto(c, "text", k) \in Seq(Chars) /\ Upto(c, "text", k) \o <<>> = Upto(c, "text", k)
    BY <2>1, PieceAt, ConcatEmptySeq
  <2>4. Begins(Upto(c, "text", m - 1) \o <<>>, FlattenField(c, "text"))
    BY <2>1, <2>2, Stretch
  <2> QED  BY <2>1, <2>3, <2>4
<1> QED  BY <1>2, <1>3

(* What has been printed is how the meant text begins. *)
LEMMA OutBegins ==
  ASSUME IInv
  PROVE  out \in Seq(Chars) /\ Meant \in Seq(Chars) /\ Begins(out, Meant)
<1>1. call \in Calls /\ Len(call) \in Nat /\ Meant = FlattenField(call, "text")
  BY Where, Parts DEF Meant
<1>2. Meant \in Seq(Chars)
  BY <1>1, Ends
<1>3. ASSUME NEW k \in 0 .. Len(call), DoneAt(call, k, i, arg, out)
      PROVE  out \in Seq(Chars) /\ Begins(out, Meant)
  <2>1. out = Upto(call, "text", k)
    BY <1>3 DEF DoneAt
  <2> QED  BY <1>1, <2>1, StartOfPiece
<1>4. ASSUME NEW k \in 1 .. Len(call), NEW j \in 0 .. Len(call[k].format) - 1,
             TextAt(call, k, j, i, arg, out)
      PROVE  out \in Seq(Chars) /\ Begins(out, Meant)
  <2>1. CASE j = 0
    <3>1. DoneAt(call, k - 1, i, arg, out) /\ k - 1 \in 0 .. Len(call)
      BY <1>1, <1>4, <2>1, TextStarts
    <3> QED  BY <1>3, <3>1
  <2>2. CASE j # 0
    <3> DEFINE f == call[k].format
               n == Len(f)
               y == SubSeq(f, 1, j)
               z == SubSeq(f, j + 1, n)
    <3>1. PlainText(call[k]) /\ out = Upto(call, "text", k - 1) \o y
      BY <1>4, <2>2, Zenon DEF TextAt
    <3>2. call[k].text = f
      BY <3>1, Zenon DEF PlainText, Itself
    <3>3. f \in Seq(Chars) /\ n \in Nat
      BY <1>1, PieceAt
    <3>4. j \in Nat /\ j <= n /\ \A m \in 1 .. n : f[m] \in Chars
      BY <3>3
    <3>5. y \in Seq(Chars) /\ z \in Seq(Chars)
      <4> HIDE DEF f, n
      <4>1. (\A m \in 1 .. j : f[m] \in Chars) /\ (\A m \in (j + 1) .. n : f[m] \in Chars)
        BY <3>3, <3>4
      <4>2. j + 1 \in Int /\ j \in Int /\ n \in Int
        BY <3>3, <3>4
      <4>3. y \in Seq(Chars)
        BY <4>1, <4>2, SubSeqProperties
      <4> DEFINE r == j + 1
      <4>4. r \in Int /\ \A m \in r .. n : f[m] \in Chars
        BY <4>1, <4>2
      <4> HIDE DEF r
      <4>5. SubSeq(f, r, n) \in Seq(Chars)
        BY <4>2, <4>4, SubSeqProperties
      <4> QED  BY <4>3, <4>5 DEF r
    <3>6. y \o z = f
      <4>1. 1 \in 1 .. Len(f) + 1 /\ j \in 1 - 1 .. Len(f) /\ Len(f) \in j .. Len(f)
        BY <3>3, <3>4
      <4>2. SubSeq(f, 1, j) \o SubSeq(f, j + 1, Len(f)) = SubSeq(f, 1, Len(f))
        BY <3>3, <4>1, ConcatAdjacentSubSeq
      <4> QED  BY <3>3, <4>2, SubSeqFull
    <3> HIDE DEF f, n, y, z
    <3> QED  BY <1>1, <3>1, <3>2, <3>5, <3>6, Stretch
  <2> QED  BY <2>1, <2>2
<1>5. ASSUME NEW k \in 1 .. Len(call), NumberAt(call, k, i, arg, out, pc, num, base, str, start)
      PROVE  out \in Seq(Chars) /\ Begins(out, Meant)
  <2>1. IsNumber(call[k]) /\ out = Upto(call, "text", k - 1) \o Prefix(call[k])
    BY <1>5, Zenon DEF NumberAt
  <2>2. Piece(call[k])
    BY <1>1, PieceAt
  <2>3. /\ Prefix(call[k]) \in Seq(Chars) /\ Figures(call[k]) \in Seq(Chars)
        /\ Prefix(call[k]) \o Figures(call[k]) = call[k].text
    BY <2>1, <2>2, NumberPiece
  <2> QED  BY <1>1, <2>1, <2>3, Stretch
<1>6. Len(call) \in 0 .. Len(call)
  BY <1>1
<1>7. CASE Scanning(call, i, arg, out)
  <2>1. CASE DoneAt(call, Len(call), i, arg, out)
    BY <1>2, <1>3, <1>6, <2>1
  <2>2. CASE \E k \in 1 .. Len(call) : \E j \in 0 .. Len(call[k].format) - 1 :
               TextAt(call, k, j, i, arg, out)
    <3>1. PICK k \in 1 .. Len(call) :
            \E j \in 0 .. Len(call[k].format) - 1 : TextAt(call, k, j, i, arg, out)
      BY <2>2
    <3>2. PICK j \in 0 .. Len(call[k].format) - 1 : TextAt(call, k, j, i, arg, out)
      BY <3>1
    <3> QED  BY <1>2, <1>4, <3>2
  <2> QED  BY <1>7, <2>1, <2>2, Zenon DEF Scanning
<1>8. \/ Scanning(call, i, arg, out) \/ DoneAt(call, Len(call), i, arg, out)
      \/ \E k \in 1 .. Len(call) : NumberAt(call, k, i, arg, out, pc, num, base, str, start)
  BY Zenon DEF IInv
<1> QED  BY <1>2, <1>3, <1>5, <1>6, <1>7, <1>8

(* What the interpreter prints that it was not given. *)
Added == {"0", "1", "2", "3", "4", "5", "6", "7", "8", "9",
          "a", "b", "c", "d", "e", "f", "x", "(", "n", "u", "l", ")", "%"}

(* None of it has the box, or no ink at all, for a glyph.                   *)
LEMMA AddedSeen == \A c \in Added : Visible(c)
<1> SUFFICES ASSUME NEW c \in Added PROVE c \in Legible
  BY DEF Visible
<1>1. c \in Digits \/ c \in Letters \/ c \in Signs
  BY DEF Added, Digits, Letters, Signs
<1>2. /\ c \in Chars /\ c \notin Controls \cup Delete \cup Blank
      /\ c # "box" /\ c # "empty"
  <2>1. c \in Chars
    BY <1>1 DEF Chars
  <2>2. c \notin Controls /\ c \notin Delete \cup Blank /\ c # "box" /\ c # "empty"
    BY DEF Added, Controls, Delete, Blank, NUL
  <2> QED  BY <2>1, <2>2
<1>3. ASSUME NEW d \in Chars, ascii_font[d] = ascii_font[c] PROVE d = c
  BY <1>2, <1>3 DEF ascii_font
<1> QED  BY <1>2, <1>3 DEF Legible

LEMMA NumeralsSeen ==
  ASSUME NEW s \in Seq(Chars), NEW n, NEW b \in {10, 16}, Positional(s, n, b)
  PROVE  AllVisible(s)
<1>1. ASSUME NEW d \in 1 .. 16 PROVE Visible(Numerals[d])
  <2>1. Numerals[d] \in Added
    BY DEF Numerals, Added
  <2> QED  BY <2>1, AddedSeen
<1>2. ASSUME NEW j \in 1 .. Len(s) PROVE Visible(s[j])
  <2>1. \A k \in DOMAIN s : \E d \in 1 .. b : s[k] = Numerals[d]
    BY Zenon DEF Positional
  <2>2. PICK d \in 1 .. b : s[j] = Numerals[d]
    BY <2>1
  <2>3. d \in 1 .. 16
    OBVIOUS
  <2> QED  BY <1>1, <2>2, <2>3
<1> QED  BY <1>2 DEF AllVisible

(* What comes of a piece can be seen if what is given with it can.          *)
LEMMA PieceSeen ==
  ASSUME NEW p, Piece(p)
  PROVE  AllVisible(p.text)
<1>1. p.text \in Seq(Chars) /\ AllVisible(p.format)
  BY Zenon DEF Piece
<1>2. \/ Itself(p) \/ PercentSign(p) \/ Character(p) \/ String(p) \/ Decimal(p) \/ Hexadecimal(p)
  BY Zenon DEF Piece, PlainText, NoConversion
<1>3. CASE Itself(p)
  BY <1>1, <1>3 DEF Itself
<1>4. CASE PercentSign(p)
  <2>1. p.text = <<"%">> /\ Visible("%")
    BY <1>4, AddedSeen DEF PercentSign, Added
  <2> QED  BY <2>1 DEF AllVisible
<1>5. CASE Character(p)
  <2> DEFINE x == p.args[1]
  <2>1. p.text = <<x>> /\ Visible(x)
    BY <1>5, Zenon DEF Character
  <2> HIDE DEF x
  <2> QED  BY <2>1 DEF AllVisible
<1>6. CASE String(p)
  <2>1. CASE p.args[1] # NULL
    <3>1. p.text = p.args[1] /\ AllVisible(p.args[1])
      BY <1>6, <2>1, Zenon DEF String
    <3> QED  BY <3>1
  <2>2. CASE p.args[1] = NULL
    <3>1. p.text = <<"(", "n", "u", "l", "l", ")">>
      BY <1>6, <2>2, Zenon DEF String
    <3>2. Len(p.text) = 6 /\ \A j \in 1 .. 6 : p.text[j] \in Added
      BY <3>1 DEF Added
    <3> QED  BY <3>2, AddedSeen DEF AllVisible
  <2> QED  BY <2>1, <2>2
<1>7. CASE Decimal(p)
  <2>1. Positional(p.text, p.args[1] % WORD, 10)
    BY <1>7, Zenon DEF Decimal
  <2> QED  BY <1>1, <2>1, NumeralsSeen
<1>8. CASE Hexadecimal(p)
  <2> DEFINE t == p.text
             u == SubSeq(t, 3, Len(t))
  <2>1. Len(t) > 2 /\ t[1] = "0" /\ t[2] = "x" /\ Positional(u, p.args[1] % WORD, 16)
    BY <1>8, Zenon DEF Hexadecimal
  <2>2. t \in Seq(Chars) /\ Len(t) \in Nat /\ \A k \in 1 .. Len(t) : t[k] \in Chars
    BY <1>1, LenProperties
  <2>3. /\ u \in Seq(Chars) /\ Len(u) = IF 3 <= Len(t) THEN Len(t) - 3 + 1 ELSE 0
        /\ \A j \in 1 .. Len(t) - 3 + 1 : u[j] = t[3 + j - 1]
    <3>1. \A k \in 3 .. Len(t) : t[k] \in Chars
      BY <2>2
    <3> QED  BY <2>2, <3>1, SubSeqProperties
  <2>4. AllVisible(u)
    BY <2>1, <2>3, NumeralsSeen
  <2> HIDE DEF t, u
  <2>5. ASSUME NEW j \in 1 .. Len(t) PROVE Visible(t[j])
    <3>1. CASE j = 1 \/ j = 2
      <4>1. Visible("0") /\ Visible("x")
        BY AddedSeen DEF Added
      <4> QED  BY <2>1, <3>1, <4>1
    <3>2. CASE j > 2
      <4>1. j - 2 \in 1 .. Len(u) /\ u[j - 2] = t[j]
        <5>1. j - 2 \in 1 .. Len(t) - 3 + 1 /\ 3 + (j - 2) - 1 = j /\ Len(u) = Len(t) - 3 + 1
          BY <2>1, <2>2, <2>3, <3>2
        <5> QED  BY <2>3, <5>1
      <4> QED  BY <2>4, <4>1 DEF AllVisible
    <3> QED  BY <2>2, <3>1, <3>2
  <2> QED  BY <2>5 DEF AllVisible, t
<1> QED  BY <1>2, <1>3, <1>4, <1>5, <1>6, <1>7, <1>8

(* All of what is meant can be seen. *)
LEMMA MeantSeen ==
  ASSUME NEW c \in Calls
  PROVE  AllVisible(FlattenField(c, "text"))
<1> DEFINE G(k) == Upto(c, "text", k)
           T == {k \in 0 .. Len(c) : AllVisible(G(k))}
<1>1. Len(c) \in Nat /\ G(0) = <<>> /\ G(Len(c)) = FlattenField(c, "text")
  BY Ends
<1>2. 0 \in T
  <2>1. Len(<<>>) = 0
    OBVIOUS
  <2>2. AllVisible(G(0))
    BY <1>1, <2>1 DEF AllVisible
  <2> QED  BY <1>1, <2>2
<1>3. ASSUME NEW k \in 1 .. Len(c), k - 1 \in T PROVE k \in T
  <2> DEFINE t == G(k - 1)
             x == c[k].text
  <2>1. t \in Seq(Chars) /\ x \in Seq(Chars) /\ G(k) = t \o x /\ Piece(c[k])
    BY PieceAt
  <2>2. AllVisible(t) /\ AllVisible(x)
    BY <1>3, <2>1, PieceSeen
  <2> HIDE DEF G, t, x
  <2>3. /\ Len(t \o x) = Len(t) + Len(x) /\ Len(t) \in Nat /\ Len(x) \in Nat
        /\ \A j \in 1 .. Len(t) + Len(x) : (t \o x)[j] = IF j <= Len(t) THEN t[j] ELSE x[j - Len(t)]
    BY <2>1, ConcatProperties, LenProperties
  <2>4. ASSUME NEW j \in 1 .. Len(t \o x) PROVE Visible((t \o x)[j])
    <3>1. CASE j <= Len(t)
      <4>1. (t \o x)[j] = t[j] /\ j \in 1 .. Len(t)
        BY <2>3, <3>1
      <4> QED  BY <2>2, <4>1 DEF AllVisible
    <3>2. CASE ~(j <= Len(t))
      <4>1. (t \o x)[j] = x[j - Len(t)] /\ j - Len(t) \in 1 .. Len(x)
        BY <2>3, <3>2
      <4> QED  BY <2>2, <4>1 DEF AllVisible
    <3> QED  BY <3>1, <3>2
  <2>5. AllVisible(G(k))
    BY <2>1, <2>4 DEF AllVisible
  <2> QED  BY <2>5
<1> HIDE DEF T
<1>4. 0 .. Len(c) \subseteq T
  BY <1>1, <1>2, <1>3, Induction
<1>5. Len(c) \in T
  BY <1>1, <1>4
<1> QED  BY <1>1, <1>5 DEF T

(* The invariant implies each conjunct of the property. *)
LEMMA InvMeans ==
  ASSUME IInv
  PROVE  PrintsWhatIsMeant
<1>1. /\ call \in Calls /\ out \in Seq(Chars) /\ Meant \in Seq(Chars) /\ Begins(out, Meant)
      /\ Len(out) \in Nat /\ Len(Meant) \in Nat /\ Len(out) <= Len(Meant)
  <2>1. call \in Calls /\ out \in Seq(Chars) /\ Meant \in Seq(Chars) /\ Begins(out, Meant)
    BY Where, OutBegins
  <2> QED  BY <2>1, LenProperties DEF Begins
<1>2. IsPrefix(out, Meant)
  <2> DEFINE n == Len(out)
             y == SubSeq(out, 1, n)
             z == SubSeq(Meant, 1, n)
  <2>1. /\ n \in Nat
        /\ \A j \in 1 .. n : out[j] \in Chars /\ Meant[j] \in Chars /\ Meant[j] = out[j]
    BY <1>1 DEF Begins
  <2> HIDE DEF n
  <2>2. /\ y \in Seq(Chars) /\ Len(y) = IF 1 <= n THEN n - 1 + 1 ELSE 0
        /\ \A j \in 1 .. n - 1 + 1 : y[j] = out[1 + j - 1]
    BY <2>1, SubSeqProperties
  <2>3. /\ z \in Seq(Chars) /\ Len(z) = IF 1 <= n THEN n - 1 + 1 ELSE 0
        /\ \A j \in 1 .. n - 1 + 1 : z[j] = Meant[1 + j - 1]
    BY <2>1, SubSeqProperties
  <2> HIDE DEF y, z
  <2>4. Len(y) = n /\ Len(z) = n /\ \A j \in 1 .. n : y[j] = out[j] /\ z[j] = Meant[j]
    <3>1. n - 1 + 1 = n /\ \A j \in 1 .. n : 1 + j - 1 = j
      BY <2>1
    <3> QED  BY <2>1, <2>2, <2>3, <3>1
  <2>5. \A j \in 1 .. Len(y) : y[j] = z[j]
    BY <2>1, <2>4
  <2>6. y = z
    BY <2>2, <2>3, <2>4, <2>5, SeqEqual
  <2> QED  BY <1>1, <2>6, Zenon DEF IsPrefix, y, z, n
<1>3. ASSUME pc = "return" PROVE out = Meant /\ arg = Len(args) + 1
  BY <1>1, <1>3, Where, AtEnd
<1>4. ASSUME pc = "reverse", start >= End PROVE Positional(str, args[arg - 1] % WORD, base)
  <2>1. PICK k \in 1 .. Len(call) :
          /\ Piece(call[k]) /\ NumberAt(call, k, i, arg, out, pc, num, base, str, start)
          /\ Positional(str, call[k].args[1] % WORD, base)
    BY <1>4, Reversed DEF End
  <2>2. IsNumber(call[k]) /\ arg = Len(Upto(call, "args", k)) + 1
    BY <2>1, Zenon DEF NumberAt
  <2>3. Len(call[k].args) = 1
    BY <2>1, <2>2, NumberPiece
  <2>4. /\ Len(Upto(call, "args", k - 1)) \in Nat
        /\ Len(Upto(call, "args", k)) = Len(Upto(call, "args", k - 1)) + 1
        /\ args[Len(Upto(call, "args", k - 1)) + 1] = call[k].args[1]
    <3>1. 1 \in 1 .. Len(call[k].args)
      BY <2>3
    <3> QED  BY <1>1, <2>3, <3>1, PieceAt DEF args
  <2>5. args[arg - 1] = call[k].args[1]
    <3>1. arg - 1 = Len(Upto(call, "args", k - 1)) + 1
      BY <2>2, <2>4
    <3> QED  BY <2>4, <3>1
  <2> QED  BY <2>1, <2>5
<1>5. AllVisible(out)
  <2>1. ASSUME NEW k \in 1 .. Len(out) PROVE Visible(out[k])
    <3>1. k \in 1 .. Len(Meant) /\ Meant[k] = out[k]
      BY <1>1 DEF Begins
    <3>2. AllVisible(Meant)
      BY <1>1, MeantSeen DEF Meant
    <3>3. Visible(Meant[k])
      BY <3>1, <3>2 DEF AllVisible
    <3> QED  BY <3>1, <3>3
  <2> QED  BY <2>1 DEF AllVisible
<1> QED  BY <1>2, <1>3, <1>4, <1>5 DEF PrintsWhatIsMeant

(* The safety half of StopsAtTerminator. *)
InsideFormat == i <= Len(format)

(* i is inside the format, in every piece and at the end. *)
LEMMA InvInside ==
  ASSUME IInv
  PROVE  InsideFormat
<1>1. call \in Calls /\ format \in Seq(Chars) /\ Len(format) \in Nat
  BY Where, Ends, LenProperties DEF format
<1>2. ASSUME DoneAt(call, Len(call), i, arg, out) PROVE i <= Len(format)
  BY <1>1, <1>2, AtEnd
<1>3. ASSUME NEW k \in 1 .. Len(call), NEW j \in 0 .. Len(call[k].format) - 1,
             TextAt(call, k, j, i, arg, out)
      PROVE  i <= Len(format)
  <2>1. i = Len(Upto(call, "format", k - 1)) + j
    BY <1>3 DEF TextAt
  <2>2. i < Len(format) /\ i \in Nat
    BY <1>1, <2>1, CharAt
  <2> QED  BY <1>1, <2>2
<1>4. ASSUME NEW k \in 1 .. Len(call), NumberAt(call, k, i, arg, out, pc, num, base, str, start)
      PROVE  i <= Len(format)
  <2>1. i = Len(Upto(call, "format", k))
    BY <1>4, Zenon DEF NumberAt
  <2> QED  BY <1>1, <2>1, PieceAt DEF format
<1>5. CASE Scanning(call, i, arg, out)
  <2>1. CASE DoneAt(call, Len(call), i, arg, out)
    BY <1>2, <2>1 DEF InsideFormat
  <2>2. CASE \E k \in 1 .. Len(call) : \E j \in 0 .. Len(call[k].format) - 1 :
               TextAt(call, k, j, i, arg, out)
    <3>1. PICK k \in 1 .. Len(call) :
            \E j \in 0 .. Len(call[k].format) - 1 : TextAt(call, k, j, i, arg, out)
      BY <2>2
    <3>2. PICK j \in 0 .. Len(call[k].format) - 1 : TextAt(call, k, j, i, arg, out)
      BY <3>1
    <3> QED  BY <1>3, <3>2 DEF InsideFormat
  <2> QED  BY <1>5, <2>1, <2>2, Zenon DEF Scanning
<1>6. \/ Scanning(call, i, arg, out) \/ DoneAt(call, Len(call), i, arg, out)
      \/ \E k \in 1 .. Len(call) : NumberAt(call, k, i, arg, out, pc, num, base, str, start)
  BY Zenon DEF IInv
<1> QED  BY <1>2, <1>4, <1>5, <1>6 DEF InsideFormat

(***************************************************************************)
(* Whatever pieces a format is put together from, kprintf takes it apart   *)
(* into the same ones: it prints the beginning of what is meant, in the    *)
(* end all of it, has used every argument once, and writes each number in  *)
(* positional notation (src/serial.c:28, 70).                              *)
(***************************************************************************)
THEOREM PrintsMeant == Spec => []PrintsWhatIsMeant
<1>1. IInv => PrintsWhatIsMeant
  BY InvMeans
<1> QED  BY <1>1, SpecInv, PTL

(* It never steps over the terminator of the format (src/serial.c:75). *)
THEOREM StaysInFormat == Spec => []InsideFormat
<1>1. IInv => InsideFormat
  BY InvInside
<1> QED  BY <1>1, SpecInv, PTL

-----------------------------------------------------------------------------
(* The buffer. *)

LEMMA FiveDigits ==
  ASSUME NEW s, Len(s) \in Nat, NEW b \in {10, 16}, NEW V, IsValues(s, b, V),
         \A k \in 1 .. Len(s) : Digit(s[k]) \in Nat,
         NEW k \in 5 .. Len(s)
  PROVE  V[k] >= 100000 * V[k - 5]
<1>1. ASSUME NEW m \in 1 .. Len(s) PROVE V[m] >= 10 * V[m - 1] /\ V[m] \in Nat /\ V[m - 1] \in Nat
  <2>1. V[m] = V[m - 1] * b + Digit(s[m]) /\ V[m] \in Nat /\ V[m - 1] \in Nat /\ Digit(s[m]) \in Nat
    BY DEF IsValues
  <2> DEFINE x == V[m - 1]
             d == Digit(s[m])
  <2>2. x \in Nat /\ d \in Nat /\ V[m] = x * b + d
    BY <2>1
  <2> HIDE DEF x, d
  <2>3. CASE b = 10  BY <2>1, <2>2, <2>3 DEF x
  <2>4. CASE b = 16  BY <2>1, <2>2, <2>4 DEF x
  <2> QED  BY <2>3, <2>4
<1> DEFINE v0 == V[k]
           v1 == V[k - 1]
           v2 == V[k - 2]
           v3 == V[k - 3]
           v4 == V[k - 4]
           v5 == V[k - 5]
<1>2. v0 >= 10 * v1 /\ v0 \in Nat /\ v1 \in Nat
  BY <1>1
<1>3. v1 >= 10 * v2 /\ v2 \in Nat
  <2>1. k - 1 \in 1 .. Len(s) /\ (k - 1) - 1 = k - 2
    OBVIOUS
  <2> QED  BY <1>1, <2>1
<1>4. v2 >= 10 * v3 /\ v3 \in Nat
  <2>1. k - 2 \in 1 .. Len(s) /\ (k - 2) - 1 = k - 3
    OBVIOUS
  <2> QED  BY <1>1, <2>1
<1>5. v3 >= 10 * v4 /\ v4 \in Nat
  <2>1. k - 3 \in 1 .. Len(s) /\ (k - 3) - 1 = k - 4
    OBVIOUS
  <2> QED  BY <1>1, <2>1
<1>6. v4 >= 10 * v5 /\ v5 \in Nat
  <2>1. k - 4 \in 1 .. Len(s) /\ (k - 4) - 1 = k - 5
    OBVIOUS
  <2> QED  BY <1>1, <2>1
<1> HIDE DEF v0, v1, v2, v3, v4, v5
<1>7. v0 >= 100000 * v5
  BY <1>2, <1>3, <1>4, <1>5, <1>6
<1> QED  BY <1>7 DEF v0, v5

(* A word that is less than 10^20 has at most twenty digits. *)
LEMMA TwentyDigits ==
  ASSUME NEW s \in Seq(Chars), NEW n \in Nat, NEW b \in {10, 16}, Positional(s, n, b),
         n < 100000 * 100000 * 100000 * 100000
  PROVE  Len(s) <= 20
<1> DEFINE L == Len(s)
<1>1. PICK V : ValuesOf(s, n, b, V)
  BY PositionalValues DEF ValuesOf
<1>2. /\ L \in Nat /\ IsValues(s, b, V) /\ V[L] = n
      /\ \A k \in 1 .. L : Digit(s[k]) \in Nat
      /\ L > 1 => \A k \in 1 .. L : V[k] > 0
  <2>1. L \in Nat
    OBVIOUS
  <2> QED  BY <1>1, <2>1 DEF ValuesOf
<1> SUFFICES ASSUME L > 20 PROVE FALSE
  BY <1>2
<1>3. \A k \in 5 .. L : V[k] >= 100000 * V[k - 5]
  BY <1>2, FiveDigits
<1>4. \A k \in 0 .. L : V[k] \in Nat
  BY <1>2 DEF IsValues
<1> HIDE DEF L
<1> DEFINE v1 == V[L - 5]
           v2 == V[L - 10]
           v3 == V[L - 15]
           v4 == V[L - 20]
<1>5. n >= 100000 * v1 /\ v1 \in Nat
  BY <1>2, <1>3, <1>4
<1>6. v1 >= 100000 * v2 /\ v2 \in Nat
  <2>1. L - 5 \in 5 .. L /\ (L - 5) - 5 = L - 10 /\ L - 10 \in 0 .. L
    BY <1>2
  <2> QED  BY <1>3, <1>4, <2>1
<1>7. v2 >= 100000 * v3 /\ v3 \in Nat
  <2>1. L - 10 \in 5 .. L /\ (L - 10) - 5 = L - 15 /\ L - 15 \in 0 .. L
    BY <1>2
  <2> QED  BY <1>3, <1>4, <2>1
<1>8. v3 >= 100000 * v4 /\ v4 \in Nat /\ v4 > 0
  <2>1. L - 15 \in 5 .. L /\ (L - 15) - 5 = L - 20 /\ L - 20 \in 1 .. L /\ L - 20 \in 0 .. L
    BY <1>2
  <2> QED  BY <1>2, <1>3, <1>4, <2>1
<1> HIDE DEF v1, v2, v3, v4
<1>9. n >= 100000 * 100000 * 100000 * 100000
  BY <1>5, <1>6, <1>7, <1>8
<1> QED  BY <1>9

(* What uitoa writes are the figures of a word. *)
LEMMA WritesWord ==
  ASSUME IInv, pc \in {"digits", "reverse"}
  PROVE  \E s \in Seq(Chars), n \in Nat :
           /\ n < WORD /\ base \in {10, 16} /\ Positional(s, n, base)
           /\ Len(str) \in Nat /\ Len(s) \in Nat /\ Len(str) <= Len(s)
<1>1. PICK k \in 1 .. Len(call) :
        /\ Piece(call[k]) /\ NumberAt(call, k, i, arg, out, pc, num, base, str, start)
        /\ Figures(call[k]) \in Seq(Chars) /\ base \in {10, 16}
        /\ Positional(Figures(call[k]), call[k].args[1] % WORD, base)
        /\ Writing(Figures(call[k]), call[k].args[1] % WORD, base, pc, num, str, start)
  BY NumberIs
<1> DEFINE s == Figures(call[k])
           n == call[k].args[1] % WORD
<1>2. IsNumber(call[k])
  BY <1>1, Zenon DEF NumberAt
<1>3. call[k].args[1] \in Int /\ WORD \in Nat \ {0}
  BY <1>2, CallsAssumption, Zenon DEF IsNumber, Decimal, Hexadecimal
<1>4. n \in Nat /\ n < WORD
  BY <1>3
<1>5. s \in Seq(Chars) /\ Positional(s, n, base) /\ Writing(s, n, base, pc, num, str, start)
  BY <1>1
<1> HIDE DEF s, n
<1>6. Len(str) \in Nat /\ Len(str) <= Len(s) /\ Len(s) \in Nat
  BY <1>5 DEF Writing
<1> QED  BY <1>1, <1>4, <1>5, <1>6

(* There is room for the digits and the terminator. *)
FitsBuffer == pc \in {"digits", "reverse"} => Len(str) + 1 <= 24

(***************************************************************************)
(* The buffers of kprintf and kprint_ui have 24 bytes.  However far uitoa  *)
(* and reverse are, no digit and no terminator is written behind them:     *)
(* 2^64 is less than 10^20, the bound below (src/serial.c:32, 68).         *)
(***************************************************************************)
THEOREM BufferSuffices ==
  ASSUME WORD <= 100000 * 100000 * 100000 * 100000
  PROVE  Spec => []FitsBuffer
<1>1. ASSUME IInv PROVE FitsBuffer
  <2> SUFFICES ASSUME pc \in {"digits", "reverse"} PROVE Len(str) + 1 <= 24
    BY DEF FitsBuffer
  <2>1. PICK s \in Seq(Chars), n \in Nat :
          /\ n < WORD /\ base \in {10, 16} /\ Positional(s, n, base)
          /\ Len(str) \in Nat /\ Len(s) \in Nat /\ Len(str) <= Len(s)
    BY <1>1, WritesWord
  <2>2. n < 100000 * 100000 * 100000 * 100000
    BY <2>1, CallsAssumption
  <2>3. Len(s) <= 20
    BY <2>1, <2>2, TwentyDigits
  <2> QED  BY <2>1, <2>3
<1> QED  BY <1>1, SpecInv, PTL

=============================================================================
