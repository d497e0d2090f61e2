------------------------- MODULE OrderListingProofs -------------------------
(***************************************************************************)
(* Proofs about OrderListing for any orders, times, ranges and limits: a   *)
(* walk through the pages shows no order twice, misses none, keeps the     *)
(* order of the listing and has full pages, under the conditions that the  *)
(* code needs for it.                                                      *)
(***************************************************************************)
EXTENDS OrderListing, FiniteSetTheorems, SequenceTheorems, NaturalsInduction, TLAPS

-----------------------------------------------------------------------------
(* Sequences of pages. *)

(* The concatenations of the first 1, 2, ..., n sequences of s *)
IsFlat(F, s, n) ==
    F = [i \in 1..n |-> IF i = 1 THEN s[i] ELSE F[i - 1] \o s[i]]

Flat(s, n) == CHOOSE F : IsFlat(F, s, n)

(* A set of natural numbers has a least member: induction, as a fact about
   sets. *)
LEMMA LeastNumber ==
    ASSUME NEW B \in SUBSET Nat, B # {}
    PROVE  \E n \in B : \A m \in B : n <= m
<1>1. IsWellFoundedOn(OpToRel(<, Nat), Nat)
  BY NatLessThanWellFounded
<1>2. PICK n \in B : \A m \in B : <<m, n>> \notin OpToRel(<, Nat)
  BY <1>1, WFMin
<1>3. ASSUME NEW m \in B PROVE n <= m
  <2>1. ~ (m < n)
    <3>1. <<m, n>> \notin {ss \in Nat \X Nat : ss[1] < ss[2]}
      BY <1>2, Zenon DEF OpToRel
    <3> QED
      BY <3>1
  <2> QED
    BY <2>1
<1> QED
  BY <1>3

(* Two such functions agree where both are defined, when the sequences do. *)
LEMMA FlatUnique ==
    ASSUME NEW m \in Nat, NEW n \in Nat, m <= n,
           NEW s, NEW t, \A i \in 1..m : s[i] = t[i],
           NEW F, IsFlat(F, s, m), NEW G, IsFlat(G, t, n)
    PROVE  \A i \in 1..m : F[i] = G[i]
<1> DEFINE B == {i \in 1..m : F[i] # G[i]}
<1>1. SUFFICES ASSUME B # {} PROVE FALSE
  OBVIOUS
<1>2. \E i \in B : \A j \in B : i <= j
  <2>1. B \in SUBSET Nat
    OBVIOUS
  <2> HIDE DEF B
  <2> QED
    BY <1>1, <2>1, LeastNumber
<1>3. PICK i \in B : \A j \in B : i <= j
  BY <1>2
<1>4. i \in 1..m /\ i \in 1..n /\ s[i] = t[i]
  OBVIOUS
<1>5. F[i] = (IF i = 1 THEN s[i] ELSE F[i - 1] \o s[i])
  BY <1>4 DEF IsFlat
<1>6. G[i] = (IF i = 1 THEN t[i] ELSE G[i - 1] \o t[i])
  BY <1>4 DEF IsFlat
<1>7. i # 1 => F[i - 1] = G[i - 1]
  <2>1. i # 1 => i - 1 \in 1..m /\ i - 1 \notin B
    BY <1>3, <1>4
  <2> QED
    BY <2>1
<1> QED
  BY <1>3, <1>4, <1>5, <1>6, <1>7

(* There is one for every n. *)
LEMMA FlatExists ==
    ASSUME NEW s, NEW n \in Nat
    PROVE  IsFlat(Flat(s, n), s, n)
<1> DEFINE B == {m \in Nat : ~ \E F : IsFlat(F, s, m)}
<1>1. SUFFICES ASSUME B # {} PROVE FALSE
  BY DEF Flat
<1>2. \E m \in B : \A k \in B : m <= k
  <2>1. B \in SUBSET Nat
    OBVIOUS
  <2> HIDE DEF B
  <2> QED
    BY <1>1, <2>1, LeastNumber
<1>3. PICK m \in B : \A k \in B : m <= k
  BY <1>2
<1>4. CASE m = 0
  <2>1. IsFlat([i \in 1..0 |-> s[i]], s, 0)
    BY DEF IsFlat
  <2> QED
    BY <1>4, <2>1
<1>5. CASE m # 0
  <2>1. m - 1 \in Nat /\ m - 1 \notin B
    BY <1>3, <1>5
  <2>2. PICK F : IsFlat(F, s, m - 1)
    BY <2>1
  <2> DEFINE G == [i \in 1..m |->
                     IF i = m THEN (IF m = 1 THEN s[m] ELSE F[m - 1] \o s[m]) ELSE F[i]]
  <2>3. \A i \in 1..m : G[i] = (IF i = 1 THEN s[i] ELSE G[i - 1] \o s[i])
    <3> SUFFICES ASSUME NEW i \in 1..m
                 PROVE  G[i] = (IF i = 1 THEN s[i] ELSE G[i - 1] \o s[i])
      OBVIOUS
    <3>1. CASE i = m
      BY <3>1
    <3>2. CASE i # m
      <4>1. i \in 1..(m - 1) /\ (i # 1 => i - 1 \in 1..m /\ i - 1 # m)
        BY <3>2
      <4>2. F[i] = (IF i = 1 THEN s[i] ELSE F[i - 1] \o s[i])
        BY <2>2, <4>1 DEF IsFlat
      <4> QED
        BY <3>2, <4>1, <4>2
    <3> QED
      BY <3>1, <3>2
  <2>4. IsFlat(G, s, m)
    <3>1. G = [i \in 1..m |-> G[i]]
      OBVIOUS
    <3> HIDE DEF G
    <3> QED
      BY <2>3, <3>1 DEF IsFlat
  <2> QED
    BY <1>3, <2>4
<1> QED
  BY <1>4, <1>5

(* FlattenSeq without its local function *)
LEMMA FlattenIsFlat ==
    ASSUME NEW s, Len(s) \in Nat, Len(s) # 0
    PROVE  FlattenSeq(s) = Flat(s, Len(s))[Len(s)]
BY DEF FlattenSeq, Flat, IsFlat

(* Its recursion, from one sequence to the next *)
LEMMA FlattenFirst ==
    ASSUME NEW t, Len(t) = 1
    PROVE  FlattenSeq(t) = t[1]
<1>1. IsFlat(Flat(t, 1), t, 1)
  BY FlatExists
<1>2. Flat(t, 1)[1] = t[1]
  BY <1>1 DEF IsFlat
<1>3. FlattenSeq(t) = Flat(t, 1)[1]
  <2>1. Len(t) \in Nat /\ Len(t) # 0
    OBVIOUS
  <2>2. FlattenSeq(t) = Flat(t, Len(t))[Len(t)]
    BY <2>1, FlattenIsFlat
  <2> QED
    BY <2>2
<1> QED
  BY <1>2, <1>3

LEMMA FlattenNext ==
    ASSUME NEW n \in Nat, n # 0, NEW s, NEW t, Len(s) = n, Len(t) = n + 1,
           \A i \in 1..n : s[i] = t[i]
    PROVE  FlattenSeq(t) = FlattenSeq(s) \o t[n + 1]
<1>1. PICK F : F = Flat(s, n)
  OBVIOUS
<1>2. PICK G : G = Flat(t, n + 1)
  OBVIOUS
<1>3. IsFlat(F, s, n)
  BY <1>1, FlatExists
<1>4. n + 1 \in Nat /\ n <= n + 1 /\ n + 1 # 0 /\ n \in 1..n
  OBVIOUS
<1>5. IsFlat(G, t, n + 1)
  BY <1>2, <1>4, FlatExists
<1>6. F[n] = G[n]
  BY <1>3, <1>4, <1>5, FlatUnique
<1>7. G[n + 1] = G[n] \o t[n + 1]
  <2>1. n + 1 \in 1..(n + 1) /\ n + 1 # 1 /\ (n + 1) - 1 = n
    BY <1>4
  <2>2. G[n + 1] = G[(n + 1) - 1] \o t[n + 1]
    BY <1>5, <2>1 DEF IsFlat
  <2> QED
    BY <2>1, <2>2
<1>8. FlattenSeq(s) = F[n]
  BY <1>1, FlattenIsFlat
<1>9. FlattenSeq(t) = G[n + 1]
  BY <1>2, <1>4, FlattenIsFlat
<1> QED
  BY <1>6, <1>7, <1>8, <1>9

(* One more page is shown after the others. *)
LEMMA FlattenAppend ==
    ASSUME NEW S, NEW s \in Seq(Seq(S)), NEW r \in Seq(S)
    PROVE  FlattenSeq(Append(s, r)) = IF s = <<>> THEN r ELSE FlattenSeq(s) \o r
<1>1. PICK t : t = Append(s, r)
  OBVIOUS
<1>2. PICK n : n = Len(s)
  OBVIOUS
<1>3. n \in Nat /\ Len(t) = n + 1 /\ (\A i \in 1..n : s[i] = t[i]) /\ t[n + 1] = r
  BY <1>1, <1>2, AppendProperties, LenProperties
<1>4. CASE s = <<>>
  BY <1>1, <1>2, <1>3, <1>4, FlattenFirst
<1>5. CASE s # <<>>
  <2>1. n # 0
    BY <1>2, <1>5, EmptySeq
  <2>2. FlattenSeq(t) = FlattenSeq(s) \o t[n + 1]
    BY <1>2, <1>3, <2>1, FlattenNext
  <2> QED
    BY <1>1, <1>3, <1>5, <2>2
<1> QED
  BY <1>4, <1>5

-----------------------------------------------------------------------------
(* Permutations of a finite set. *)

Distinct(s) == \A i, j \in DOMAIN s : i # j => s[i] # s[j]

(* A permutation shows every element of the set, once. *)
LEMMA PermutationOfSet ==
    ASSUME NEW S, IsFiniteSet(S), NEW s \in SetToSeqs(S)
    PROVE  /\ s \in Seq(S) /\ Len(s) = Cardinality(S) /\ DOMAIN s = 1..Len(s)
           /\ Distinct(s)
           /\ ToSet(s) = S
<1>1. PICK n : n = Cardinality(S)
  OBVIOUS
<1>2. n \in Nat
  BY <1>1, FS_CardinalityType
<1>3. s \in [1..n -> S] /\ (\A i, j \in 1..n : i # j => s[i] # s[j])
  BY <1>1 DEF SetToSeqs
<1>4. s \in Seq(S) /\ Len(s) = n /\ DOMAIN s = 1..n
  BY <1>2, <1>3
<1>5. s \in Injection(1..n, S)
  BY <1>3 DEF Injection, IsInjective
<1>6. Cardinality(1..n) = n
  BY <1>2, FS_Interval
<1>7. s \in Surjection(1..n, S)
  BY <1>1, <1>5, <1>6, FS_Injection
<1>8. \A x \in S : \E i \in 1..n : s[i] = x
  BY <1>7 DEF Surjection
<1>9. ToSet(s) = S
  BY <1>3, <1>4, <1>8 DEF ToSet
<1> QED
  BY <1>1, <1>3, <1>4, <1>9 DEF Distinct

(* A sequence without repetitions has as many entries as elements. *)
LEMMA DistinctLength ==
    ASSUME NEW S, NEW s \in Seq(S), Distinct(s)
    PROVE  IsFiniteSet(ToSet(s)) /\ Cardinality(ToSet(s)) = Len(s)
<1>1. PICK n : n = Len(s)
  OBVIOUS
<1>2. n \in Nat /\ DOMAIN s = 1..n /\ s \in [1..n -> S]
  BY <1>1, LenProperties
<1>3. s \in [1..n -> ToSet(s)]
  BY <1>2 DEF ToSet
<1>4. s \in Bijection(1..n, ToSet(s))
  BY <1>2, <1>3 DEF Distinct, ToSet, Bijection, Injection, Surjection, IsInjective
<1>5. ExistsBijection(1..n, ToSet(s))
  BY <1>4 DEF ExistsBijection
<1>6. IsFiniteSet(1..n) /\ Cardinality(1..n) = n
  BY <1>2, FS_Interval
<1> QED
  BY <1>1, <1>5, <1>6, FS_Bijection

(* The first i entries of a sequence without repetitions are i elements. *)
LEMMA PrefixCount ==
    ASSUME NEW S, NEW s \in Seq(S), Distinct(s), NEW i \in 1..Len(s)
    PROVE  Cardinality({s[j] : j \in 1..i}) = i
<1> DEFINE T == {s[j] : j \in 1..i}
           t == [j \in 1..i |-> s[j]]
<1>1. Len(s) \in Nat /\ DOMAIN s = 1..Len(s) /\ i \in Nat /\ \A j \in 1..i : j \in 1..Len(s)
  BY LenProperties
<1>2. t \in [1..i -> T]
  OBVIOUS
<1>3. t \in Bijection(1..i, T)
  BY <1>1, <1>2 DEF Distinct, Bijection, Injection, Surjection, IsInjective
<1>4. ExistsBijection(1..i, T)
  BY <1>3 DEF ExistsBijection
<1>5. IsFiniteSet(1..i) /\ Cardinality(1..i) = i
  BY <1>1, FS_Interval
<1> HIDE DEF T, t
<1>6. Cardinality(T) = i
  BY <1>4, <1>5, FS_Bijection
<1> QED
  BY <1>6 DEF T

-----------------------------------------------------------------------------
(* The place of an order in the listing. *)

(* The order by which the query of the ids sorts *)
Before(p, o) ==
    \/ createdAt[p] > createdAt[o]
    \/ createdAt[p] = createdAt[o] /\ p < o

Upto(o) == {p \in Matching(want) : p = o \/ Before(p, o)}

Rank(o) == Cardinality(Upto(o))

LEMMA MatchingFinite ==
    /\ IsFiniteSet(Matching(want)) /\ Matching(want) \subseteq Orders
    /\ \A o : IsFiniteSet(Upto(o)) /\ Rank(o) \in Nat
<1>1. Matching(want) \in SUBSET Orders
  BY DEF Matching
<1>2. IsFiniteSet(Matching(want))
  BY <1>1, ListingAssumption, FS_Subset
<1>3. ASSUME NEW o PROVE IsFiniteSet(Upto(o)) /\ Rank(o) \in Nat
  <2>1. Upto(o) \in SUBSET Matching(want)
    BY DEF Upto
  <2> QED
    BY <1>2, <2>1, FS_Subset, FS_CardinalityType DEF Rank
<1> QED
  BY <1>1, <1>2, <1>3

(* The answer to the query of the ids, without OFFSET and LIMIT, has every
   matching order at its rank. *)
LEMMA RankIsPlace ==
    ASSUME createdAt \in [Orders -> Times \cup {0}],
           NEW s \in IdOrders(Matching(want))
    PROVE  /\ s \in Seq(Orders) /\ DOMAIN s = 1..Len(s)
           /\ Len(s) = Cardinality(Matching(want))
           /\ Distinct(s) /\ ToSet(s) = Matching(want) /\ NewestFirst(s)
           /\ \A i \in 1..Len(s) : Rank(s[i]) = i
<1>1. s \in SetToSeqs(Matching(want)) /\ NewestFirst(s)
  BY DEF IdOrders, RowOrders
<1>2. /\ s \in Seq(Matching(want)) /\ DOMAIN s = 1..Len(s)
      /\ Len(s) = Cardinality(Matching(want))
      /\ Distinct(s) /\ ToSet(s) = Matching(want)
  BY <1>1, MatchingFinite, PermutationOfSet
<1>3. s \in Seq(Orders) /\ Len(s) \in Nat
  BY <1>2, MatchingFinite, SeqMonotonic, LenProperties
<1>4. \A i \in 1..Len(s) : s[i] \in Nat /\ s[i] \in Matching(want) /\ createdAt[s[i]] \in Nat
  <2>1. \A i \in 1..Len(s) : s[i] \in Matching(want) /\ s[i] \in Orders
    BY <1>2, MatchingFinite, ElementOfSeq
  <2>2. Orders \subseteq Nat /\ Times \cup {0} \subseteq Nat
    BY ListingAssumption
  <2>3. \A o \in Orders : o \in Nat /\ createdAt[o] \in Nat
    BY <2>2
  <2> QED
    BY <2>1, <2>3
<1>5. ASSUME NEW i \in 1..Len(s), NEW j \in 1..Len(s), i < j
      PROVE  Before(s[i], s[j]) /\ ~ Before(s[j], s[i]) /\ s[i] # s[j]
  <2>1. createdAt[s[i]] >= createdAt[s[j]]
    BY <1>1, <1>2, <1>5 DEF NewestFirst
  <2>2. createdAt[s[i]] = createdAt[s[j]] => s[i] < s[j]
    BY <1>2, <1>5 DEF IdOrders
  <2>3. s[i] # s[j]
    BY <1>2, <1>5 DEF Distinct
  <2> QED
    BY <1>4, <2>1, <2>2, <2>3 DEF Before
<1>6. ASSUME NEW i \in 1..Len(s) PROVE Rank(s[i]) = i
  <2>1. Upto(s[i]) \subseteq {s[j] : j \in 1..i}
    <3> SUFFICES ASSUME NEW p \in Upto(s[i]) PROVE p \in {s[j] : j \in 1..i}
      OBVIOUS
    <3>1. p \in Matching(want) /\ (p = s[i] \/ Before(p, s[i]))
      BY DEF Upto
    <3>2. PICK j \in 1..Len(s) : p = s[j]
      BY <1>2, <3>1 DEF ToSet
    <3>3. ~ (i < j)
      BY <1>5, <3>1, <3>2
    <3> QED
      BY <1>3, <3>2, <3>3
  <2>2. {s[j] : j \in 1..i} \subseteq Upto(s[i])
    <3> SUFFICES ASSUME NEW j \in 1..i PROVE s[j] \in Upto(s[i])
      OBVIOUS
    <3>1. j \in 1..Len(s) /\ (j = i \/ j < i)
      BY <1>3
    <3> QED
      BY <1>4, <1>5, <3>1 DEF Upto
  <2>3. Upto(s[i]) = {s[j] : j \in 1..i}
    BY <2>1, <2>2
  <2> QED
    BY <1>2, <1>3, <2>3, PrefixCount DEF Rank
<1> QED
  BY <1>1, <1>2, <1>3, <1>6

(* A page of ids holds the orders whose ranks lie between OFFSET and
   OFFSET + LIMIT; a short one is the last. *)
LEMMA SliceIsPage ==
    ASSUME createdAt \in [Orders -> Times \cup {0}], want.limit \in Nat \ {0},
           Skip(want) \in Nat, NEW s \in IdOrders(Matching(want))
    PROVE  /\ Slice(s, want) \in Seq(Orders) /\ Len(Slice(s, want)) <= want.limit
           /\ Distinct(Slice(s, want))
           /\ ToSet(Slice(s, want)) =
                {o \in Matching(want) : Skip(want) < Rank(o) /\ Rank(o) <= Skip(want) + want.limit}
           /\ Len(Slice(s, want)) < want.limit =>
                \A o \in Matching(want) : Rank(o) <= Skip(want) + want.limit
<1>1. PICK k \in Nat : k = Skip(want)
  OBVIOUS
<1>2. PICK l \in Nat \ {0} : l = want.limit
  OBVIOUS
<1>3. PICK n : n = Len(s)
  OBVIOUS
<1>4. /\ s \in Seq(Orders) /\ n \in Nat /\ DOMAIN s = 1..n /\ Distinct(s)
      /\ ToSet(s) = Matching(want)
      /\ \A i \in 1..n : s[i] \in Orders /\ Rank(s[i]) = i
  BY <1>3, RankIsPlace, LenProperties, ElementOfSeq
<1>5. PICK e : e = Least(k + l, n)
  OBVIOUS
<1>6. e \in Nat /\ e <= n /\ e <= k + l /\ (e = n \/ e = k + l)
  BY <1>4, <1>5 DEF Least
<1>7. PICK w : w = SubSeq(s, k + 1, e)
  OBVIOUS
<1>8. w = Slice(s, want)
  BY <1>1, <1>2, <1>3, <1>5, <1>7 DEF Slice
<1>9. /\ w \in Seq(Orders)
      /\ Len(w) = IF k + 1 <= e THEN e - k ELSE 0
      /\ \A i \in 1..(e - k) : w[i] = s[k + i]
  <2>1. k + 1 \in Int /\ e \in Int /\ \A i \in (k + 1)..e : s[i] \in Orders
    BY <1>4, <1>6
  <2>2. /\ SubSeq(s, k + 1, e) \in Seq(Orders)
        /\ Len(SubSeq(s, k + 1, e)) = IF k + 1 <= e THEN e - (k + 1) + 1 ELSE 0
        /\ \A i \in 1..(e - (k + 1) + 1) : SubSeq(s, k + 1, e)[i] = s[k + 1 + i - 1]
    BY <2>1, SubSeqProperties
  <2>3. e - (k + 1) + 1 = e - k /\ \A i \in Int : k + 1 + i - 1 = k + i
    BY <1>6
  <2>4. ASSUME NEW i \in 1..(e - k) PROVE w[i] = s[k + i]
    <3>1. i \in 1..(e - (k + 1) + 1) /\ k + 1 + i - 1 = k + i
      BY <1>6
    <3>2. SubSeq(s, k + 1, e)[i] = s[k + 1 + i - 1]
      BY <2>2, <3>1
    <3> QED
      BY <1>7, <3>1, <3>2
  <2> QED
    BY <1>7, <2>2, <2>3, <2>4
<1>10. DOMAIN w = 1..Len(w)
  BY <1>9, LenProperties
<1>11. Len(w) <= l /\ (Len(w) < l => n <= k + l)
  BY <1>4, <1>6, <1>9
<1>12. \A i \in DOMAIN w : k + i \in 1..n /\ k + i <= e /\ w[i] = s[k + i]
  BY <1>4, <1>6, <1>9, <1>10
<1>13. Distinct(w)
  <2> SUFFICES ASSUME NEW i \in DOMAIN w, NEW j \in DOMAIN w, i # j
               PROVE  w[i] # w[j]
    BY DEF Distinct
  <2>1. i \in Int /\ j \in Int
    BY <1>9, <1>10
  <2>2. k + i # k + j
    BY <2>1
  <2> QED
    BY <1>4, <1>12, <2>2 DEF Distinct
<1>14. ASSUME NEW o \in ToSet(w)
       PROVE  o \in Matching(want) /\ k < Rank(o) /\ Rank(o) <= k + l
  <2>1. PICK i \in DOMAIN w : o = w[i]
    BY <1>14 DEF ToSet
  <2>2. i \in Nat \ {0}
    BY <1>9, <1>10, <2>1
  <2>3. o = s[k + i] /\ k + i \in 1..n /\ k + i <= k + l
    BY <1>6, <1>12, <2>1, <2>2
  <2> QED
    BY <1>4, <2>2, <2>3 DEF ToSet
<1>15. ASSUME NEW o \in Matching(want)
       PROVE  Rank(o) \in 1..n /\ (k < Rank(o) /\ Rank(o) <= k + l => o \in ToSet(w))
  <2>1. PICK i \in 1..n : o = s[i]
    BY <1>4, <1>15 DEF ToSet
  <2>2. Rank(o) = i
    BY <1>4, <2>1
  <2>3. ASSUME k < i, i <= k + l PROVE o \in ToSet(w)
    <3>1. i <= e /\ i - k \in 1..(e - k) /\ k + (i - k) = i
      BY <1>4, <1>6, <2>1, <2>3
    <3>2. i - k \in DOMAIN w /\ w[i - k] = o
      BY <1>6, <1>9, <1>10, <2>1, <3>1
    <3> QED
      BY <3>2 DEF ToSet
  <2> QED
    BY <2>1, <2>2, <2>3
<1>16. Len(w) < l => \A o \in Matching(want) : Rank(o) <= k + l
  BY <1>4, <1>11, <1>15
<1>17. ToSet(w) = {o \in Matching(want) : k < Rank(o) /\ Rank(o) <= k + l}
  BY <1>14, <1>15
<1> QED
  BY <1>1, <1>2, <1>8, <1>9, <1>11, <1>13, <1>16, <1>17

(* What one more page adds to what was shown *)
LEMMA OnePageMore ==
    ASSUME pages \in Seq(Seq(Orders)), Seen \in Seq(Orders),
           NEW rows \in Seq(Orders), Respond(rows)
    PROVE  /\ pages' \in Seq(Seq(Orders)) /\ Len(pages') = Len(pages) + 1
           /\ pages' # <<>> /\ pages'[Len(pages')] = rows
           /\ DOMAIN pages' = 1..Len(pages') /\ Len(pages) \in Nat
           /\ \A i \in DOMAIN pages' : (i \in DOMAIN pages /\ pages'[i] = pages[i]) \/ pages'[i] = rows
           /\ Seen' = Seen \o rows
           /\ Seen' \in Seq(Orders) /\ ToSet(Seen') = ToSet(Seen) \cup ToSet(rows)
           /\ Len(Seen) \in Nat /\ Len(rows) \in Nat
           /\ DOMAIN Seen = 1..Len(Seen) /\ DOMAIN rows = 1..Len(rows)
           /\ DOMAIN Seen' = 1..(Len(Seen) + Len(rows))
           /\ \A i \in 1..Len(Seen) : Seen'[i] = Seen[i]
           /\ \A i \in 1..Len(rows) : Seen'[Len(Seen) + i] = rows[i]
<1>1. pages' = Append(pages, rows)
  BY DEF Respond
<1>2. /\ pages' \in Seq(Seq(Orders)) /\ Len(pages') = Len(pages) + 1 /\ pages' # <<>>
      /\ (\A i \in 1..Len(pages) : pages'[i] = pages[i]) /\ pages'[Len(pages) + 1] = rows
  BY <1>1, AppendProperties
<1>3. /\ DOMAIN pages = 1..Len(pages) /\ DOMAIN pages' = 1..Len(pages')
      /\ Len(pages) \in Nat
  BY <1>2, LenProperties
<1>4. Seen' = Seen \o rows
  <2>1. Seen' = IF pages = <<>> THEN rows ELSE Seen \o rows
    BY <1>1, FlattenAppend DEF Seen
  <2>2. pages = <<>> => Seen = <<>>
    BY EmptySeq DEF Seen, FlattenSeq
  <2> QED
    BY <2>1, <2>2, ConcatEmptySeq
<1>5. PICK t : t = Seen
  OBVIOUS
<1>6. PICK u : u = Seen'
  OBVIOUS
<1>7. PICK a \in Nat : a = Len(t)
  BY <1>5, LenProperties
<1>8. PICK b \in Nat : b = Len(rows)
  BY LenProperties
<1>9. /\ t \in Seq(Orders) /\ u = t \o rows /\ u \in Seq(Orders) /\ Len(u) = a + b
      /\ \A i \in 1..(a + b) : u[i] = IF i <= a THEN t[i] ELSE rows[i - a]
  BY <1>4, <1>5, <1>6, <1>7, <1>8, ConcatProperties
<1>10. DOMAIN t = 1..a /\ DOMAIN rows = 1..b /\ DOMAIN u = 1..(a + b)
  BY <1>7, <1>8, <1>9, LenProperties
<1>11. (\A i \in 1..a : u[i] = t[i]) /\ (\A i \in 1..b : u[a + i] = rows[i])
  <2>1. ASSUME NEW i \in 1..a PROVE u[i] = t[i]
    BY <1>9
  <2>2. ASSUME NEW i \in 1..b PROVE u[a + i] = rows[i]
    <3>1. a + i \in 1..(a + b) /\ ~ (a + i <= a) /\ (a + i) - a = i
      OBVIOUS
    <3> QED
      BY <1>9, <3>1
  <2> QED
    BY <2>1, <2>2
<1>12. ToSet(u) = ToSet(t) \cup ToSet(rows)
  <2>1. ASSUME NEW i \in 1..(a + b) PROVE u[i] \in ToSet(t) \cup ToSet(rows)
    <3>1. CASE i <= a
      <4>1. u[i] = t[i] /\ i \in DOMAIN t
        BY <1>9, <1>10, <3>1
      <4> QED
        BY <4>1 DEF ToSet
    <3>2. CASE ~ (i <= a)
      <4>1. i - a \in 1..b
        BY <3>2
      <4>2. u[i] = rows[i - a]
        BY <1>9, <3>2
      <4>3. rows[i - a] \in ToSet(rows)
        BY <1>10, <4>1 DEF ToSet
      <4> QED
        BY <4>2, <4>3
    <3> QED
      BY <3>1, <3>2
  <2>2. ASSUME NEW i \in 1..a PROVE t[i] \in ToSet(u)
    <3>1. i \in 1..(a + b)
      OBVIOUS
    <3> QED
      BY <1>10, <1>11, <3>1 DEF ToSet
  <2>3. ASSUME NEW i \in 1..b PROVE rows[i] \in ToSet(u)
    <3>1. a + i \in 1..(a + b)
      OBVIOUS
    <3> QED
      BY <1>10, <1>11, <3>1 DEF ToSet
  <2> QED
    BY <1>10, <2>1, <2>2, <2>3 DEF ToSet
<1>13. \A i \in DOMAIN pages' : (i \in DOMAIN pages /\ pages'[i] = pages[i]) \/ pages'[i] = rows
  BY <1>2, <1>3
<1> QED
  BY <1>2, <1>3, <1>4, <1>5, <1>6, <1>7, <1>8, <1>9, <1>10, <1>11, <1>12, <1>13

-----------------------------------------------------------------------------
(* The inductive invariant. *)

(* How many of the listing the pages so far should have shown *)
Done == IF pc = "answered" THEN Skip(want) + want.limit ELSE Skip(want)

(* The walk began at page 1. *)
FromFirst ==
    IF pc = "answered" THEN want.page = Len(pages) ELSE want.page = Len(pages) + 1

(* What a request holds at each point *)
Shape ==
    /\ Seen \in Seq(Orders)
    /\ pc = "idle" => pages = <<>> /\ ids = <<>> /\ stayed = {} /\ ~entered /\ left = {}
    /\ pc = "rows" =>
          want.limit > 0 /\ Skip(want) >= 0 /\ Len(ids) <= want.limit /\ Distinct(ids)
    /\ pc # "rows" => ids = <<>>
    /\ pc = "answered" => pages # <<>> /\ want.limit >= 0 /\ Skip(want) >= 0
    /\ pc # "idle" => stayed \subseteq Matching(want)
    /\ left # {} => want.status = "created"

(* While none began to match, what was shown and matches still lies before the
   next page: orders only move up. *)
ShownOnce ==
    want.limit > 0 /\ ~entered =>
        /\ Distinct(Seen)
        /\ \A o \in ToSet(Seen) \cap Matching(want) : Rank(o) <= Done
        /\ \A o \in ToSet(ids) \cap Matching(want) :
              o \notin ToSet(Seen) /\ Rank(o) <= Skip(want) + want.limit

(* While none ceased to match, what lies before the next page was shown: orders
   only move down.  A short page was the last. *)
Covered ==
    want.limit > 0 /\ left = {} /\ FromFirst =>
        /\ ToSet(Seen) \cup ToSet(ids) \subseteq Matching(want)
        /\ \A o \in stayed : Rank(o) <= Done => o \in ToSet(Seen)
        /\ pc = "rows" =>
              /\ \A o \in stayed :
                    Rank(o) <= Skip(want) + want.limit => o \in ToSet(Seen) \cup ToSet(ids)
              /\ Len(ids) < want.limit => stayed \subseteq ToSet(Seen) \cup ToSet(ids)
        /\ pc = "answered" /\ Len(pages[Len(pages)]) < want.limit =>
              stayed \subseteq ToSet(Seen)

(* The same of a listing without pages *)
Whole ==
    want.limit = 0 =>
        /\ pages # <<>> => stayed \subseteq ToSet(Seen)
        /\ left = {} => ToSet(Seen) \subseteq Matching(want)

(* While nothing changed, the pages so far and the next are in order. *)
Sorted ==
    ~entered /\ left = {} =>
        /\ pc # "idle" => stayed = Matching(want)
        /\ want.limit > 0 /\ FromFirst =>
              /\ NewestFirst(Seen)
              /\ \A o \in ToSet(ids), q \in ToSet(Seen) : createdAt[q] >= createdAt[o]

IInv == TypeOK /\ Shape /\ ShownOnce /\ Covered /\ Whole /\ Sorted

-----------------------------------------------------------------------------
(* Ranks and offsets. *)

LEMMA SkipType ==
    ASSUME want \in Filters
    PROVE  /\ Skip(want) \in Int /\ want.limit \in Int /\ want.page \in Int
           /\ want.page = 1 => Skip(want) = 0
           /\ want.limit = 0 => Skip(want) = 0
<1>1. want.limit \in Int /\ want.page \in Int
  BY ListingAssumption DEF Filters
<1>2. PICK p \in Int : p = want.page
  BY <1>1
<1>3. PICK l \in Int : l = want.limit
  BY <1>1
<1>4. (p - 1) * l \in Int /\ (p = 1 => (p - 1) * l = 0) /\ (l = 0 => (p - 1) * l = 0)
  OBVIOUS
<1> QED
  BY <1>1, <1>2, <1>3, <1>4 DEF Skip

LEMMA SkipNext ==
    ASSUME want \in Filters, want' = [want EXCEPT !.page = @ + 1]
    PROVE  /\ want' \in Filters /\ Skip(want') = Skip(want) + want.limit
           /\ want'.limit = want.limit /\ want'.status = want.status
           /\ want'.range = want.range /\ want'.page = want.page + 1
<1>1. /\ want' \in Filters
      /\ want'.limit = want.limit /\ want'.status = want.status
      /\ want'.range = want.range /\ want'.page = want.page + 1
  BY DEF Filters
<1>2. PICK p \in Int : p = want.page
  BY SkipType
<1>3. PICK l \in Int : l = want.limit
  BY SkipType
<1>4. (p + 1 - 1) * l = (p - 1) * l + l
  OBVIOUS
<1> QED
  BY <1>1, <1>2, <1>3, <1>4 DEF Skip

(* The rank of a matching order is at least 1. *)
LEMMA RankPositive ==
    ASSUME NEW o \in Matching(want)
    PROVE  Rank(o) >= 1
<1>1. o \in Upto(o)
  BY DEF Upto
<1>2. IsFiniteSet(Upto(o)) /\ Cardinality(Upto(o)) \in Nat
  BY MatchingFinite DEF Rank
<1>3. Cardinality(Upto(o)) # 0
  BY <1>1, <1>2, FS_EmptySet
<1> QED
  BY <1>2, <1>3 DEF Rank

(* The number of the page is no part of what matches. *)
LEMMA SameListing ==
    ASSUME UNCHANGED orders, want'.status = want.status, want'.range = want.range
    PROVE  /\ Matching(want)' = Matching(want)
           /\ \A o : Rank(o)' = Rank(o)
           /\ createdAt' = createdAt
BY DEF orders, Matching, Matches, Rank, Upto, Before

(* What an order that is placed or processed does to the listing: those that
   matched keep their times, and a processed one stays. *)
LEMMA OrderMoves ==
    ASSUME TypeOK, NEW o \in Orders, Place(o) \/ Process(o)
    PROVE  /\ status' \in [Orders -> Statuses \cup {"none"}]
           /\ createdAt' \in [Orders -> Times \cup {0}]
           /\ want' = want
           /\ \A p \in Matching(want) : createdAt'[p] = createdAt[p]
           /\ want.status = "processed" => Matching(want) \subseteq Matching(want)'
<1>1. CASE Place(o)
  <2>1. /\ status[o] = "none" /\ status' = [status EXCEPT ![o] = "created"] /\ want' = want
        /\ \E t \in Times : createdAt' = [createdAt EXCEPT ![o] = t]
    BY <1>1 DEF Place, Remember, request
  <2>2. PICK t \in Times : createdAt' = [createdAt EXCEPT ![o] = t]
    BY <2>1
  <2>3. want.status \in Statuses
    BY DEF TypeOK, Filters
  <2>4. status' \in [Orders -> Statuses \cup {"none"}]
    BY <2>1 DEF TypeOK, Statuses
  <2>5. createdAt' \in [Orders -> Times \cup {0}]
    BY <2>2 DEF TypeOK
  <2>6. \A p \in Orders : p # o => status'[p] = status[p] /\ createdAt'[p] = createdAt[p]
    BY <2>1, <2>2 DEF TypeOK
  <2>7. o \notin Matching(want)
    BY <2>1, <2>3 DEF Matching, Matches, Statuses
  <2>8. \A p \in Matching(want) : p \in Orders /\ p # o
    BY <2>7 DEF Matching
  <2>9. Matching(want) \subseteq Matching(want)'
    BY <2>1, <2>6, <2>8 DEF Matching, Matches
  <2> QED
    BY <2>1, <2>4, <2>5, <2>6, <2>8, <2>9
<1>2. CASE Process(o)
  <2>1. /\ status[o] = "created" /\ status' = [status EXCEPT ![o] = "processed"] /\ want' = want
        /\ createdAt' = createdAt
    BY <1>2 DEF Process, Remember, request
  <2>2. status' \in [Orders -> Statuses \cup {"none"}]
    BY <2>1 DEF TypeOK, Statuses
  <2>3. \A p \in Orders : status[p] = "processed" => status'[p] = "processed"
    BY <2>1 DEF TypeOK
  <2>4. want.status = "processed" => Matching(want) \subseteq Matching(want)'
    BY <2>1, <2>3 DEF Matching, Matches
  <2> QED
    BY <2>1, <2>2, <2>4 DEF TypeOK
<1> QED
  BY <1>1, <1>2

(* When none began to match, the others are at their place or moved up; when
   none ceased to, they are at their place or moved down. *)
LEMMA RanksMove ==
    ASSUME TypeOK, NEW o \in Orders, Place(o) \/ Process(o)
    PROVE  /\ Matching(want)' \subseteq Matching(want) =>
                \A p \in Matching(want)' : Rank(p)' <= Rank(p)
           /\ Matching(want) \subseteq Matching(want)' =>
                \A p \in Matching(want) : Rank(p) <= Rank(p)'
<1>1. \A p \in Matching(want) : createdAt'[p] = createdAt[p]
  BY OrderMoves
<1>2. IsFiniteSet(Matching(want)') /\ \A p : IsFiniteSet(Upto(p)') /\ IsFiniteSet(Upto(p))
  <2>1. Matching(want)' \in SUBSET Orders /\ \A p : Upto(p)' \in SUBSET Matching(want)'
    BY DEF Matching, Upto
  <2>2. IsFiniteSet(Matching(want)')
    BY <2>1, ListingAssumption, FS_Subset
  <2> QED
    BY <2>1, <2>2, FS_Subset, MatchingFinite
<1>3. ASSUME Matching(want)' \subseteq Matching(want), NEW p \in Matching(want)'
      PROVE  Rank(p)' <= Rank(p)
  <2>1. Upto(p)' \in SUBSET Upto(p)
    BY <1>1, <1>3 DEF Upto, Before
  <2> QED
    BY <1>2, <2>1, FS_Subset DEF Rank
<1>4. ASSUME Matching(want) \subseteq Matching(want)', NEW p \in Matching(want)
      PROVE  Rank(p) <= Rank(p)'
  <2>1. Upto(p) \in SUBSET Upto(p)'
    BY <1>1, <1>4 DEF Upto, Before
  <2> QED
    BY <1>2, <2>1, FS_Subset DEF Rank
<1> QED
  BY <1>3, <1>4

-----------------------------------------------------------------------------
(* The steps. *)

LEMMA NothingShown == FlattenSeq(<<>>) = <<>> /\ ToSet(<<>>) = {} /\ Distinct(<<>>)
BY EmptySeq DEF FlattenSeq, ToSet, Distinct

LEMMA InitInv == Init => IInv
<1> SUFFICES ASSUME Init PROVE IInv
  OBVIOUS
<1>1. pages = <<>> /\ ids = <<>> /\ Seen = <<>> /\ ToSet(ids) = {} /\ ToSet(Seen) = {}
  BY NothingShown DEF Init, Seen
<1>2. TypeOK
  <2>1. want \in Filters
    BY ListingAssumption DEF Init, Filters
  <2>2. ids \in Seq(Orders) /\ pages \in Seq(Seq(Orders)) /\ DOMAIN pages = {}
    BY <1>1
  <2>3. /\ status \in [Orders -> Statuses \cup {"none"}]
        /\ createdAt \in [Orders -> Times \cup {0}]
    BY DEF Init
  <2> QED
    BY <2>1, <2>2, <2>3 DEF Init, TypeOK
<1>3. Shape
  BY <1>1 DEF Init, Shape
<1>4. ShownOnce
  BY <1>1, NothingShown DEF Init, ShownOnce
<1>5. Covered
  BY <1>1 DEF Init, Covered
<1>6. Whole
  BY <1>1 DEF Init, Whole
<1>7. Sorted
  BY <1>1 DEF Init, Sorted, NewestFirst
<1> QED
  BY <1>2, <1>3, <1>4, <1>5, <1>6, <1>7 DEF IInv

(* The walk begins: every matching order is still to be shown. *)
LEMMA AskKeeps == ASSUME IInv, Ask PROVE IInv'
<1>1. /\ pc = "idle" /\ pc' = "ask" /\ stayed' = Matching(want) /\ UNCHANGED orders
      /\ want' = want /\ ids' = ids /\ pages' = pages /\ entered' = entered /\ left' = left
  BY DEF Ask
<1>2. pages = <<>> /\ ids = <<>> /\ ~entered /\ left = {}
  BY <1>1 DEF IInv, Shape
<1>3. Seen' = <<>> /\ ids' = <<>> /\ ToSet(Seen') = {} /\ ToSet(ids') = {}
  BY <1>1, <1>2, NothingShown DEF Seen
<1>4. Matching(want)' = Matching(want) /\ (\A o : Rank(o)' = Rank(o))
  BY <1>1, SameListing
<1>5. want \in Filters
  BY DEF IInv, TypeOK
<1>6. TypeOK'
  <2>1. stayed' \subseteq Orders
    BY <1>1, MatchingFinite
  <2> QED
    BY <1>1, <2>1 DEF IInv, TypeOK, orders
<1>7. Shape'
  BY <1>1, <1>2, <1>3, <1>4 DEF IInv, Shape
<1>8. ShownOnce'
  BY <1>3, NothingShown DEF ShownOnce
<1>9. Covered'
  <2>1. FromFirst' => Skip(want)' = 0 /\ Done' = 0
    <3>1. Len(pages') = 0
      BY <1>1, <1>2
    <3>2. FromFirst' => want.page = 1
      BY <1>1, <3>1 DEF FromFirst
    <3> QED
      BY <1>1, <1>5, <3>2, SkipType DEF Done
  <2>2. \A o \in stayed' : ~ (Rank(o)' <= 0)
    BY <1>1, <1>4, RankPositive, MatchingFinite
  <2> QED
    BY <1>1, <1>3, <2>1, <2>2 DEF Covered
<1>10. Whole'
  BY <1>1, <1>2, <1>3 DEF Whole
<1>11. Sorted'
  BY <1>1, <1>3, <1>4 DEF Sorted, NewestFirst
<1> QED
  BY <1>6, <1>7, <1>8, <1>9, <1>10, <1>11 DEF IInv

LEMMA RefuseKeeps == ASSUME IInv, Refuse PROVE IInv'
<1>1. /\ pc = "ask" /\ pc' = "refused" /\ UNCHANGED orders /\ UNCHANGED history
      /\ want' = want /\ ids' = ids /\ pages' = pages
  BY DEF Refuse
<1>2. stayed' = stayed /\ entered' = entered /\ left' = left /\ Seen' = Seen
  BY <1>1 DEF history, Seen
<1>3. /\ Matching(want)' = Matching(want) /\ (\A o : Rank(o)' = Rank(o))
      /\ createdAt' = createdAt /\ Skip(want)' = Skip(want)
  BY <1>1, SameListing DEF Skip
<1>4. Done' = Done /\ (FromFirst' <=> FromFirst)
  BY <1>1, <1>3 DEF Done, FromFirst
<1>5. TypeOK'
  BY <1>1, <1>2 DEF IInv, TypeOK, orders
<1>6. Shape'
  BY <1>1, <1>2, <1>3 DEF IInv, Shape
<1>7. ShownOnce'
  BY <1>1, <1>2, <1>3, <1>4 DEF IInv, ShownOnce
<1>8. Covered'
  BY <1>1, <1>2, <1>3, <1>4 DEF IInv, Covered
<1>9. Whole'
  BY <1>1, <1>2, <1>3 DEF IInv, Whole
<1>10. Sorted'
  BY <1>1, <1>2, <1>3, <1>4 DEF IInv, Sorted, NewestFirst
<1> QED
  BY <1>5, <1>6, <1>7, <1>8, <1>9, <1>10 DEF IInv

(* The next request: what was before the end of the last page is before the
   begin of this one. *)
LEMMA NextPageKeeps == ASSUME IInv, NextPage PROVE IInv'
<1>1. /\ pc = "answered" /\ pc' = "ask" /\ UNCHANGED orders /\ UNCHANGED history
      /\ want' = [want EXCEPT !.page = @ + 1] /\ ids' = ids /\ pages' = pages
  BY DEF NextPage
<1>2. stayed' = stayed /\ entered' = entered /\ left' = left /\ Seen' = Seen
  BY <1>1 DEF history, Seen
<1>3. want \in Filters
  BY DEF IInv, TypeOK
<1>4. /\ want' \in Filters /\ Skip(want') = Skip(want) + want.limit
      /\ want'.limit = want.limit /\ want'.status = want.status
      /\ want'.range = want.range /\ want'.page = want.page + 1
  BY <1>1, <1>3, SkipNext
<1>5. /\ Matching(want)' = Matching(want) /\ (\A o : Rank(o)' = Rank(o))
      /\ createdAt' = createdAt
  BY <1>1, <1>4, SameListing
<1>6. Done' = Done
  BY <1>1, <1>4 DEF Done
<1>7. FromFirst' <=> FromFirst
  <2>1. want.page \in Int /\ Len(pages) \in Nat
    BY <1>3, SkipType, LenProperties DEF IInv, TypeOK
  <2> QED
    BY <1>1, <1>4, <2>1 DEF FromFirst
<1>8. ids = <<>> /\ ToSet(ids) = {}
  BY <1>1, NothingShown DEF IInv, Shape
<1>9. TypeOK'
  BY <1>1, <1>2, <1>4 DEF IInv, TypeOK, orders
<1>10. Shape'
  BY <1>1, <1>2, <1>4, <1>5 DEF IInv, Shape
<1>11. ShownOnce'
  BY <1>1, <1>2, <1>4, <1>5, <1>6, <1>8 DEF IInv, ShownOnce
<1>12. Covered'
  BY <1>1, <1>2, <1>4, <1>5, <1>6, <1>7, <1>8 DEF IInv, Covered
<1>13. Whole'
  BY <1>1, <1>2, <1>4, <1>5 DEF IInv, Whole
<1>14. Sorted'
  BY <1>1, <1>2, <1>4, <1>5, <1>7, <1>8 DEF IInv, Sorted, NewestFirst
<1> QED
  BY <1>9, <1>10, <1>11, <1>12, <1>13, <1>14 DEF IInv

(* What every answer leaves as it should be, whatever its rows *)
LEMMA RespondKeeps ==
    ASSUME IInv, NEW rows \in Seq(Orders), Respond(rows),
           UNCHANGED <<orders, want, history>>, pc # "idle",
           want.limit >= 0, Skip(want) >= 0, want.limit > 0 => Len(rows) <= want.limit
    PROVE  TypeOK' /\ Shape'
<1>1. /\ pc' = "answered" /\ ids' = <<>> /\ UNCHANGED orders /\ want' = want
      /\ stayed' = stayed /\ entered' = entered /\ left' = left
  BY DEF Respond, history
<1>2. pages \in Seq(Seq(Orders)) /\ Seen \in Seq(Orders)
  BY DEF IInv, TypeOK, Shape
<1>3. /\ pages' \in Seq(Seq(Orders)) /\ pages' # <<>> /\ Seen' \in Seq(Orders)
      /\ \A i \in DOMAIN pages' : (i \in DOMAIN pages /\ pages'[i] = pages[i]) \/ pages'[i] = rows
  BY <1>2, OnePageMore
<1>4. Matching(want)' = Matching(want) /\ Skip(want)' = Skip(want)
  BY <1>1, SameListing DEF Skip
<1>5. want.limit > 0 => \A i \in DOMAIN pages' : Len(pages'[i]) <= want.limit
  <2> SUFFICES ASSUME want.limit > 0, NEW i \in DOMAIN pages'
               PROVE  Len(pages'[i]) <= want.limit
    OBVIOUS
  <2>1. CASE i \in DOMAIN pages /\ pages'[i] = pages[i]
    BY <2>1 DEF IInv, TypeOK
  <2>2. CASE pages'[i] = rows
    BY <2>2
  <2> QED
    BY <1>3, <2>1, <2>2
<1>6. ids' \in Seq(Orders)
  BY <1>1
<1>7. TypeOK'
  BY <1>1, <1>3, <1>5, <1>6 DEF IInv, TypeOK, orders
<1>8. Shape'
  BY <1>1, <1>3, <1>4 DEF IInv, Shape
<1> QED
  BY <1>7, <1>8

(* One query for every row *)
LEMMA SelectAllKeeps == ASSUME IInv, SelectAll PROVE IInv'
<1>1. /\ pc = "ask" /\ Unlimited(want) /\ UNCHANGED <<orders, want, history>>
      /\ \E rows \in RowOrders(Matching(want)) : Respond(rows)
  BY DEF SelectAll
<1>2. PICK rows \in RowOrders(Matching(want)) : Respond(rows)
  BY <1>1
<1>3. want.limit = 0 /\ Skip(want) = 0
  BY <1>1 DEF Unlimited
<1>4. rows \in Seq(Matching(want)) /\ ToSet(rows) = Matching(want)
  BY MatchingFinite, PermutationOfSet DEF RowOrders
<1>5. rows \in Seq(Orders)
  BY <1>4, MatchingFinite, SeqMonotonic
<1>6. TypeOK' /\ Shape'
  BY <1>1, <1>2, <1>3, <1>5, RespondKeeps
<1>7. /\ pages \in Seq(Seq(Orders)) /\ Seen \in Seq(Orders)
      /\ stayed \subseteq Matching(want)
  BY <1>1 DEF IInv, TypeOK, Shape
<1>8. ToSet(Seen') = ToSet(Seen) \cup Matching(want)
  BY <1>2, <1>4, <1>5, <1>7, OnePageMore
<1>9. /\ want' = want /\ stayed' = stayed /\ entered' = entered /\ left' = left
      /\ UNCHANGED orders
  BY <1>1 DEF history
<1>10. Matching(want)' = Matching(want)
  BY <1>9, SameListing
<1>11. ShownOnce' /\ Covered'
  BY <1>3, <1>9 DEF ShownOnce, Covered
<1>12. Whole'
  BY <1>3, <1>7, <1>8, <1>9, <1>10 DEF IInv, Whole
<1>13. Sorted'
  BY <1>1, <1>3, <1>9, <1>10 DEF IInv, Sorted
<1> QED
  BY <1>6, <1>11, <1>12, <1>13 DEF IInv

(* The ids of a page that is not empty *)
LEMMA SelectIdsKeeps ==
    ASSUME IInv, pc = "ask", ~Negative(want), ~Unlimited(want),
           NEW s \in IdOrders(Matching(want)), Slice(s, want) # <<>>,
           ids' = Slice(s, want), pc' = "rows", UNCHANGED pages,
           UNCHANGED <<orders, want, history>>
    PROVE  IInv'
<1>1. want \in Filters /\ createdAt \in [Orders -> Times \cup {0}]
  BY DEF IInv, TypeOK
<1>2. want.limit \in Nat \ {0} /\ Skip(want) \in Nat
  BY <1>1, SkipType DEF Negative, Unlimited
<1>3. PICK w : w = Slice(s, want)
  OBVIOUS
<1>4. /\ w \in Seq(Orders) /\ Len(w) <= want.limit /\ Distinct(w)
      /\ \A o : o \in ToSet(w) <=>
            o \in Matching(want) /\ Skip(want) < Rank(o) /\ Rank(o) <= Skip(want) + want.limit
      /\ Len(w) < want.limit => \A o \in Matching(want) : Rank(o) <= Skip(want) + want.limit
  BY <1>1, <1>2, <1>3, SliceIsPage
<1>5. /\ ids' = w /\ pages' = pages /\ Seen' = Seen /\ want' = want /\ UNCHANGED orders
      /\ stayed' = stayed /\ entered' = entered /\ left' = left
  BY <1>3 DEF history, Seen
<1>6. /\ Matching(want)' = Matching(want) /\ (\A o : Rank(o)' = Rank(o))
      /\ createdAt' = createdAt /\ Skip(want)' = Skip(want)
  BY <1>5, SameListing DEF Skip
<1>7. /\ Done = Skip(want) /\ Done' = Skip(want) /\ (FromFirst' <=> FromFirst)
  BY <1>5, <1>6 DEF Done, FromFirst
<1>8. stayed \subseteq Matching(want) /\ \A o \in Matching(want) : Rank(o) \in Nat
  BY MatchingFinite DEF IInv, Shape
<1>9. TypeOK'
  BY <1>4, <1>5 DEF IInv, TypeOK, orders
<1>10. Shape'
  BY <1>2, <1>4, <1>5, <1>6 DEF IInv, Shape
<1>11. ShownOnce'
  <2> SUFFICES ASSUME want.limit > 0, ~entered PROVE ShownOnce'
    BY <1>5 DEF ShownOnce
  <2>1. Distinct(Seen) /\ \A o \in ToSet(Seen) \cap Matching(want) : Rank(o) <= Skip(want)
    BY <1>7 DEF IInv, ShownOnce
  <2>2. \A o \in ToSet(w) \cap Matching(want) :
           o \notin ToSet(Seen) /\ Rank(o) <= Skip(want) + want.limit
    BY <1>2, <1>4, <1>8, <2>1
  <2> QED
    BY <1>5, <1>6, <1>7, <2>1, <2>2 DEF ShownOnce
<1>12. Covered'
  <2> SUFFICES ASSUME want.limit > 0, left = {}, FromFirst PROVE Covered'
    BY <1>5, <1>7 DEF Covered
  <2>1. /\ ToSet(Seen) \subseteq Matching(want)
        /\ \A o \in stayed : Rank(o) <= Skip(want) => o \in ToSet(Seen)
    BY <1>7 DEF IInv, Covered
  <2>2. \A o \in stayed :
           Rank(o) <= Skip(want) + want.limit => o \in ToSet(Seen) \cup ToSet(w)
    BY <1>2, <1>4, <1>8, <2>1
  <2>3. Len(w) < want.limit => stayed \subseteq ToSet(Seen) \cup ToSet(w)
    BY <1>4, <1>8, <2>2
  <2>4. ToSet(w) \subseteq Matching(want)
    BY <1>4
  <2> QED
    BY <1>5, <1>6, <1>7, <2>1, <2>2, <2>3, <2>4 DEF Covered
<1>13. Whole'
  BY <1>2, <1>5 DEF Whole
<1>14. Sorted'
  <2> SUFFICES ASSUME ~entered, left = {} PROVE Sorted'
    BY <1>5 DEF Sorted
  <2>1. stayed = Matching(want)
    BY DEF IInv, Sorted
  <2>2. ASSUME FromFirst PROVE NewestFirst(Seen)
    BY <1>2, <2>2 DEF IInv, Sorted
  <2>3. ASSUME FromFirst, NEW o \in ToSet(w), NEW q \in ToSet(Seen)
        PROVE  createdAt[q] >= createdAt[o]
    <3>1. q \in Matching(want) /\ Rank(q) <= Skip(want)
      BY <1>2, <1>7, <2>3 DEF IInv, Covered, ShownOnce
    <3>2. o \in Matching(want) /\ Skip(want) < Rank(o)
      BY <1>4
    <3>3. /\ DOMAIN s = 1..Len(s) /\ ToSet(s) = Matching(want) /\ NewestFirst(s)
          /\ \A i \in 1..Len(s) : Rank(s[i]) = i
      BY <1>1, RankIsPlace
    <3>4. PICK i \in DOMAIN s, j \in DOMAIN s : q = s[i] /\ o = s[j]
      BY <3>1, <3>2, <3>3 DEF ToSet
    <3>5. Rank(q) = i /\ Rank(o) = j /\ i \in Nat /\ j \in Nat
      BY <1>8, <3>1, <3>2, <3>3, <3>4
    <3>6. i < j
      BY <1>2, <3>1, <3>2, <3>5
    <3> QED
      BY <3>3, <3>4, <3>6 DEF NewestFirst
  <2> QED
    BY <1>5, <1>6, <1>7, <2>1, <2>2, <2>3 DEF Sorted, NewestFirst
<1> QED
  BY <1>9, <1>10, <1>11, <1>12, <1>13, <1>14 DEF IInv

(* A page past the end *)
LEMMA SelectNoIdsKeeps ==
    ASSUME IInv, pc = "ask", ~Negative(want), ~Unlimited(want),
           NEW s \in IdOrders(Matching(want)), Slice(s, want) = <<>>,
           Respond(<<>>), UNCHANGED <<orders, want, history>>
    PROVE  IInv'
<1>1. want \in Filters /\ createdAt \in [Orders -> Times \cup {0}]
  BY DEF IInv, TypeOK
<1>2. want.limit \in Nat \ {0} /\ Skip(want) \in Nat
  BY <1>1, SkipType DEF Negative, Unlimited
<1>3. <<>> \in Seq(Orders) /\ Len(<<>>) = 0 /\ ToSet(<<>>) = {}
  BY NothingShown
<1>4. \A o \in Matching(want) : Rank(o) <= Skip(want)
  <2>1. /\ {o \in Matching(want) : Skip(want) < Rank(o) /\ Rank(o) <= Skip(want) + want.limit} = {}
        /\ \A o \in Matching(want) : Rank(o) <= Skip(want) + want.limit
    BY <1>1, <1>2, <1>3, SliceIsPage
  <2> QED
    BY <1>2, <2>1, MatchingFinite
<1>5. /\ pages \in Seq(Seq(Orders)) /\ Seen \in Seq(Orders)
      /\ stayed \subseteq Matching(want) /\ ToSet(ids) = {}
  BY <1>3 DEF IInv, TypeOK, Shape
<1>6. /\ Len(pages') = Len(pages) + 1 /\ pages'[Len(pages')] = <<>>
      /\ Len(pages) \in Nat /\ Seen' = Seen \o <<>>
  BY <1>3, <1>5, OnePageMore
<1>7. Seen' = Seen
  BY <1>5, <1>6, ConcatEmptySeq
<1>8. /\ pc' = "answered" /\ ids' = <<>> /\ want' = want /\ UNCHANGED orders
      /\ stayed' = stayed /\ entered' = entered /\ left' = left
  BY DEF Respond, history
<1>9. /\ Matching(want)' = Matching(want) /\ (\A o : Rank(o)' = Rank(o))
      /\ createdAt' = createdAt /\ Skip(want)' = Skip(want)
  BY <1>8, SameListing DEF Skip
<1>10. Done = Skip(want) /\ Done' = Skip(want) + want.limit /\ (FromFirst' <=> FromFirst)
  BY <1>6, <1>8, <1>9 DEF Done, FromFirst
<1>11. TypeOK' /\ Shape'
  <2>1. PICK rows \in Seq(Orders) : rows = <<>> /\ Len(rows) = 0 /\ Respond(rows)
    BY <1>3
  <2>2. pc # "idle" /\ want.limit >= 0 /\ Skip(want) >= 0 /\ Len(rows) <= want.limit
    BY <1>2, <2>1
  <2> QED
    BY <2>1, <2>2, RespondKeeps
<1>12. ShownOnce'
  <2> SUFFICES ASSUME want.limit > 0, ~entered PROVE ShownOnce'
    BY <1>8 DEF ShownOnce
  <2>1. Distinct(Seen)
    BY DEF IInv, ShownOnce
  <2>2. \A o \in Matching(want) : Rank(o) <= Skip(want) + want.limit
    BY <1>2, <1>4, MatchingFinite
  <2> QED
    BY <1>3, <1>7, <1>8, <1>9, <1>10, <2>1, <2>2 DEF ShownOnce
<1>13. Covered'
  <2> SUFFICES ASSUME want.limit > 0, left = {}, FromFirst PROVE Covered'
    BY <1>8, <1>10 DEF Covered
  <2>1. ToSet(Seen) \subseteq Matching(want) /\ stayed \subseteq ToSet(Seen)
    BY <1>4, <1>5, <1>10 DEF IInv, Covered
  <2> QED
    BY <1>3, <1>7, <1>8, <1>9, <2>1 DEF Covered
<1>14. Whole'
  BY <1>2, <1>8 DEF Whole
<1>15. Sorted'
  BY <1>3, <1>7, <1>8, <1>9, <1>10 DEF IInv, Sorted, NewestFirst
<1> QED
  BY <1>11, <1>12, <1>13, <1>14, <1>15 DEF IInv

(* The rows of a page: those of its ids that still match *)
LEMMA SelectRowsKeeps == ASSUME IInv, SelectRows PROVE IInv'
<1>1. PICK rows \in RowOrders(Matching(want) \cap ToSet(ids)) : Respond(rows)
  BY DEF SelectRows
<1>2. /\ pc = "rows" /\ UNCHANGED <<orders, want, history>>
  BY DEF SelectRows
<1>3. want.limit \in Nat \ {0} /\ Skip(want) \in Nat
  BY <1>2, SkipType DEF IInv, TypeOK, Shape
<1>4. /\ pages \in Seq(Seq(Orders)) /\ Seen \in Seq(Orders) /\ ids \in Seq(Orders)
      /\ Distinct(ids) /\ Len(ids) <= want.limit /\ Len(ids) \in Nat
      /\ stayed \subseteq Matching(want)
  BY <1>2, LenProperties DEF IInv, TypeOK, Shape
<1>5. PICK S : S = Matching(want) \cap ToSet(ids)
  OBVIOUS
<1>6. IsFiniteSet(S) /\ Cardinality(S) <= Len(ids) /\ (S = ToSet(ids) => Cardinality(S) = Len(ids))
  <2>1. IsFiniteSet(ToSet(ids)) /\ Cardinality(ToSet(ids)) = Len(ids)
    BY <1>4, DistinctLength
  <2>2. S \in SUBSET ToSet(ids)
    BY <1>5
  <2> QED
    BY <2>1, <2>2, FS_Subset
<1>7. /\ rows \in Seq(S) /\ Len(rows) = Cardinality(S)
      /\ Distinct(rows) /\ ToSet(rows) = S /\ NewestFirst(rows)
  BY <1>1, <1>5, <1>6, PermutationOfSet DEF RowOrders
<1>8. rows \in Seq(Orders) /\ Len(rows) \in Nat /\ Len(rows) <= want.limit
  <2>1. S \subseteq Orders
    BY <1>5, MatchingFinite
  <2> QED
    BY <1>3, <1>4, <1>6, <1>7, <2>1, SeqMonotonic, LenProperties
<1>9. TypeOK' /\ Shape'
  BY <1>1, <1>2, <1>3, <1>8, RespondKeeps
<1>10. /\ pc' = "answered" /\ ids' = <<>> /\ want' = want /\ UNCHANGED orders
       /\ stayed' = stayed /\ entered' = entered /\ left' = left
       /\ ToSet(ids') = {}
  BY <1>1, <1>2, NothingShown DEF Respond, history
<1>11. /\ Matching(want)' = Matching(want) /\ (\A o : Rank(o)' = Rank(o))
       /\ createdAt' = createdAt /\ Skip(want)' = Skip(want)
  BY <1>10, SameListing DEF Skip
<1>12. PICK a \in Nat : a = Len(Seen)
  BY <1>4, LenProperties
<1>13. PICK b \in Nat : b = Len(rows)
  BY <1>8
<1>14. /\ Len(pages') = Len(pages) + 1 /\ pages'[Len(pages')] = rows /\ Len(pages) \in Nat
       /\ ToSet(Seen') = ToSet(Seen) \cup S
       /\ DOMAIN Seen = 1..a /\ DOMAIN rows = 1..b /\ DOMAIN Seen' = 1..(a + b)
       /\ (\A i \in 1..a : Seen'[i] = Seen[i]) /\ (\A i \in 1..b : Seen'[a + i] = rows[i])
  BY <1>1, <1>4, <1>7, <1>8, <1>12, <1>13, OnePageMore
<1>15. ASSUME NEW i \in DOMAIN Seen'
       PROVE  \/ i \in 1..a /\ Seen'[i] = Seen[i] /\ Seen[i] \in ToSet(Seen)
              \/ /\ i > a /\ i - a \in 1..b /\ Seen'[i] = rows[i - a]
                 /\ rows[i - a] \in S
  <2>1. CASE i <= a
    <3>1. i \in 1..a
      BY <1>14, <2>1
    <3> QED
      BY <1>14, <3>1 DEF ToSet
  <2>2. CASE ~ (i <= a)
    <3>1. i - a \in 1..b /\ a + (i - a) = i
      BY <1>14, <2>2
    <3>2. Seen'[i] = rows[i - a]
      BY <1>14, <3>1
    <3>3. rows[i - a] \in ToSet(rows)
      BY <1>14, <3>1 DEF ToSet
    <3> QED
      BY <1>7, <1>14, <2>2, <3>1, <3>2, <3>3
  <2> QED
    BY <2>1, <2>2
<1>16. Done = Skip(want) /\ Done' = Skip(want) + want.limit /\ (FromFirst' <=> FromFirst)
  BY <1>2, <1>10, <1>11, <1>14 DEF Done, FromFirst
<1>17. ShownOnce'
  <2> SUFFICES ASSUME ~entered PROVE ShownOnce'
    BY <1>10 DEF ShownOnce
  <2>1. /\ Distinct(Seen)
        /\ \A o \in ToSet(Seen) \cap Matching(want) : Rank(o) <= Skip(want)
        /\ \A o \in S : o \notin ToSet(Seen) /\ Rank(o) <= Skip(want) + want.limit
    BY <1>3, <1>5, <1>16 DEF IInv, ShownOnce
  <2>2. Distinct(Seen')
    <3> SUFFICES ASSUME NEW i \in DOMAIN Seen', NEW j \in DOMAIN Seen', i # j
                 PROVE  Seen'[i] # Seen'[j]
      BY DEF Distinct
    <3>1. CASE i \in 1..a /\ j \in 1..a
      BY <1>14, <2>1, <3>1 DEF Distinct
    <3>2. CASE i \notin 1..a /\ j \notin 1..a
      <4>1. i - a \in DOMAIN rows /\ j - a \in DOMAIN rows /\ i - a # j - a
        BY <1>14, <1>15, <3>2
      <4> QED
        BY <1>7, <1>15, <3>2, <4>1 DEF Distinct
    <3>3. CASE i \in 1..a /\ j \notin 1..a
      BY <1>15, <2>1, <3>3
    <3>4. CASE i \notin 1..a /\ j \in 1..a
      BY <1>15, <2>1, <3>4
    <3> QED
      BY <3>1, <3>2, <3>3, <3>4
  <2>3. \A o \in ToSet(Seen') \cap Matching(want) : Rank(o) <= Skip(want) + want.limit
    BY <1>3, <1>14, <2>1, MatchingFinite
  <2> QED
    BY <1>10, <1>11, <1>16, <2>2, <2>3 DEF ShownOnce
<1>18. Covered'
  <2> SUFFICES ASSUME left = {}, FromFirst PROVE Covered'
    BY <1>10, <1>16 DEF Covered
  <2>1. /\ ToSet(Seen) \cup ToSet(ids) \subseteq Matching(want)
        /\ \A o \in stayed :
              Rank(o) <= Skip(want) + want.limit => o \in ToSet(Seen) \cup ToSet(ids)
        /\ Len(ids) < want.limit => stayed \subseteq ToSet(Seen) \cup ToSet(ids)
    BY <1>2, <1>3 DEF IInv, Covered
  <2>2. S = ToSet(ids) /\ Len(rows) = Len(ids)
    BY <1>5, <1>6, <1>7, <2>1
  <2> QED
    BY <1>10, <1>11, <1>14, <1>16, <2>1, <2>2 DEF Covered
<1>19. Whole'
  BY <1>3, <1>10 DEF Whole
<1>20. Sorted'
  <2> SUFFICES ASSUME ~entered, left = {} PROVE Sorted'
    BY <1>10 DEF Sorted
  <2>1. stayed = Matching(want)
    BY <1>2 DEF IInv, Sorted
  <2>2. ASSUME FromFirst PROVE NewestFirst(Seen')
    <3>1. /\ NewestFirst(Seen)
          /\ \A o \in S, q \in ToSet(Seen) : createdAt[q] >= createdAt[o]
      BY <1>3, <1>5, <2>2 DEF IInv, Sorted
    <3> SUFFICES ASSUME NEW i \in DOMAIN Seen', NEW j \in DOMAIN Seen', i < j
                 PROVE  createdAt[Seen'[i]] >= createdAt[Seen'[j]]
      BY DEF NewestFirst
    <3>2. i \in Int /\ j \in Int
      BY <1>14
    <3>3. CASE j \in 1..a
      <4>1. i \in 1..a
        BY <1>14, <3>2, <3>3
      <4> QED
        BY <1>14, <3>1, <3>3, <4>1 DEF NewestFirst
    <3>4. CASE i \in 1..a /\ j \notin 1..a
      BY <1>15, <3>1, <3>4
    <3>5. CASE i \notin 1..a /\ j \notin 1..a
      <4>1. i - a \in DOMAIN rows /\ j - a \in DOMAIN rows /\ i - a < j - a
        BY <1>14, <1>15, <3>2, <3>5
      <4> QED
        BY <1>7, <1>15, <3>5, <4>1 DEF NewestFirst
    <3> QED
      BY <3>3, <3>4, <3>5
  <2> QED
    BY <1>10, <1>11, <1>16, <2>1, <2>2 DEF Sorted, NewestFirst
<1> QED
  BY <1>9, <1>17, <1>18, <1>19, <1>20 DEF IInv

(* The first query: ids, or a page past the end *)
LEMMA SelectIdsInv == ASSUME IInv, SelectIds PROVE IInv'
<1>1. /\ pc = "ask" /\ ~Negative(want) /\ ~Unlimited(want)
      /\ UNCHANGED <<orders, want, history>>
  BY DEF SelectIds
<1>2. PICK s \in IdOrders(Matching(want)) :
         \/ Slice(s, want) # <<>> /\ ids' = Slice(s, want) /\ pc' = "rows" /\ UNCHANGED pages
         \/ Slice(s, want) = <<>> /\ Respond(<<>>)
  BY DEF SelectIds
<1>3. CASE Slice(s, want) # <<>> /\ ids' = Slice(s, want) /\ pc' = "rows" /\ UNCHANGED pages
  BY <1>1, <1>3, SelectIdsKeeps
<1>4. CASE Slice(s, want) = <<>> /\ Respond(<<>>)
  BY <1>1, <1>4, SelectNoIdsKeeps
<1> QED
  BY <1>2, <1>3, <1>4

(* An order is placed or processed meanwhile. *)
LEMMA MeanwhileKeeps ==
    ASSUME IInv, NEW o \in Orders, Place(o) \/ Process(o)
    PROVE  IInv'
<1>1. UNCHANGED request /\ Remember
  BY DEF Place, Process, Remember
<1>2. /\ pc' = pc /\ want' = want /\ ids' = ids /\ pages' = pages /\ Seen' = Seen
  BY <1>1 DEF request, Seen
<1>3. TypeOK
  BY DEF IInv
<1>4. /\ status' \in [Orders -> Statuses \cup {"none"}]
      /\ createdAt' \in [Orders -> Times \cup {0}]
      /\ \A p \in Matching(want) : createdAt'[p] = createdAt[p]
      /\ want.status = "processed" => Matching(want) \subseteq Matching(want)'
  BY <1>3, OrderMoves
<1>5. /\ Matching(want)' \subseteq Matching(want) =>
           \A p \in Matching(want)' : Rank(p)' <= Rank(p)
      /\ Matching(want) \subseteq Matching(want)' =>
           \A p \in Matching(want) : Rank(p) <= Rank(p)'
  BY <1>3, RanksMove
<1>6. /\ Skip(want)' = Skip(want) /\ Done' = Done /\ (FromFirst' <=> FromFirst)
      /\ Skip(want) \in Int /\ want.limit \in Int /\ Done \in Int
  BY <1>2, <1>3, SkipType DEF Skip, Done, FromFirst, TypeOK
<1>7. want.status \in {"created", "processed"}
  BY DEF IInv, TypeOK, Filters, Statuses
<1>8. \A p \in Orders : Rank(p) \in Nat /\ Rank(p)' \in Nat
  <2>1. Matching(want)' \in SUBSET Orders /\ \A p : Upto(p)' \in SUBSET Matching(want)'
    BY DEF Matching, Upto
  <2>2. \A p : IsFiniteSet(Upto(p)')
    BY <2>1, ListingAssumption, FS_Subset
  <2> QED
    BY <2>2, MatchingFinite, FS_CardinalityType DEF Rank
<1>9. Matching(want) \subseteq Orders /\ Matching(want)' \subseteq Orders
  BY DEF Matching
<1>10. CASE pc = "idle"
  <2>1. /\ pages = <<>> /\ ids = <<>> /\ stayed = {} /\ ~entered /\ left = {}
        /\ Seen = <<>> /\ ToSet(Seen) = {} /\ ToSet(ids) = {}
    BY <1>10, NothingShown DEF IInv, Shape, Seen
  <2>2. stayed' = stayed /\ entered' = entered /\ left' = left
    BY <1>1, <1>10 DEF Remember, history
  <2>3. TypeOK'
    BY <1>2, <1>4, <2>2 DEF IInv, TypeOK
  <2>4. Shape'
    BY <1>2, <1>10, <2>1, <2>2 DEF IInv, Shape
  <2>5. ShownOnce'
    BY <1>2, <2>1, NothingShown DEF ShownOnce
  <2>6. Covered'
    BY <1>2, <1>10, <2>1, <2>2 DEF Covered
  <2>7. Whole'
    BY <1>2, <2>1, <2>2 DEF Whole
  <2>8. Sorted'
    BY <1>2, <1>10, <2>1 DEF Sorted, NewestFirst
  <2> QED
    BY <2>3, <2>4, <2>5, <2>6, <2>7, <2>8 DEF IInv
<1>11. CASE pc # "idle"
  <2>1. /\ stayed' = stayed \cap Matching(want)'
        /\ entered' = (entered \/ ~(Matching(want)' \subseteq Matching(want)))
        /\ left' = left \cup (Matching(want) \ Matching(want)')
    BY <1>1, <1>11 DEF Remember
  <2>2. stayed \subseteq Matching(want)
    BY <1>11 DEF IInv, Shape
  <2>3. TypeOK'
    <3>1. stayed' \subseteq Orders /\ entered' \in BOOLEAN /\ left' \subseteq Orders
      BY <1>9, <2>1 DEF IInv, TypeOK
    <3> QED
      BY <1>2, <1>4, <3>1 DEF IInv, TypeOK
  <2>4. Shape'
    <3>1. left' # {} => want.status = "created"
      BY <1>4, <1>7, <2>1 DEF IInv, Shape
    <3> QED
      BY <1>2, <1>6, <1>11, <2>1, <3>1 DEF IInv, Shape
  <2>5. ShownOnce'
    <3> SUFFICES ASSUME want.limit > 0, ~entered' PROVE ShownOnce'
      BY <1>2 DEF ShownOnce
    <3>1. ~entered /\ Matching(want)' \subseteq Matching(want)
      BY <2>1
    <3>2. /\ Distinct(Seen)
          /\ \A p \in ToSet(Seen) \cap Matching(want) : Rank(p) <= Done
          /\ \A p \in ToSet(ids) \cap Matching(want) :
                p \notin ToSet(Seen) /\ Rank(p) <= Skip(want) + want.limit
      BY <3>1 DEF IInv, ShownOnce
    <3>3. \A p \in Matching(want)' : p \in Matching(want) /\ Rank(p)' <= Rank(p)
      BY <1>5, <3>1
    <3>4. \A p \in ToSet(Seen) \cap Matching(want)' : Rank(p)' <= Done
      BY <1>6, <1>8, <1>9, <3>2, <3>3
    <3>5. \A p \in ToSet(ids) \cap Matching(want)' :
             p \notin ToSet(Seen) /\ Rank(p)' <= Skip(want) + want.limit
      BY <1>6, <1>8, <1>9, <3>2, <3>3
    <3> QED
      BY <1>2, <1>6, <3>2, <3>4, <3>5 DEF ShownOnce
  <2>6. Covered'
    <3> SUFFICES ASSUME want.limit > 0, left' = {}, FromFirst PROVE Covered'
      BY <1>2, <1>6 DEF Covered
    <3>1. left = {} /\ Matching(want) \subseteq Matching(want)'
      BY <2>1
    <3>2. /\ ToSet(Seen) \cup ToSet(ids) \subseteq Matching(want)
          /\ \A p \in stayed : Rank(p) <= Done => p \in ToSet(Seen)
          /\ pc = "rows" =>
                /\ \A p \in stayed :
                      Rank(p) <= Skip(want) + want.limit => p \in ToSet(Seen) \cup ToSet(ids)
                /\ Len(ids) < want.limit => stayed \subseteq ToSet(Seen) \cup ToSet(ids)
          /\ pc = "answered" /\ Len(pages[Len(pages)]) < want.limit =>
                stayed \subseteq ToSet(Seen)
      BY <3>1 DEF IInv, Covered
    <3>3. stayed' \subseteq stayed /\ \A p \in stayed' : p \in stayed /\ Rank(p) <= Rank(p)'
      BY <1>5, <2>1, <2>2, <3>1
    <3>4. \A p \in stayed' : Rank(p)' <= Done => p \in ToSet(Seen)
      BY <1>6, <1>8, <1>9, <2>2, <3>2, <3>3
    <3>5. pc = "rows" => \A p \in stayed' :
             Rank(p)' <= Skip(want) + want.limit => p \in ToSet(Seen) \cup ToSet(ids)
      BY <1>6, <1>8, <1>9, <2>2, <3>2, <3>3
    <3>6. ToSet(Seen) \cup ToSet(ids) \subseteq Matching(want)'
      BY <3>1, <3>2
    <3>7. /\ pc = "rows" /\ Len(ids) < want.limit => stayed' \subseteq ToSet(Seen) \cup ToSet(ids)
          /\ pc = "answered" /\ Len(pages[Len(pages)]) < want.limit => stayed' \subseteq ToSet(Seen)
      BY <3>2, <3>3
    <3> QED
      BY <1>2, <1>6, <3>4, <3>5, <3>6, <3>7 DEF Covered
  <2>7. Whole'
    BY <1>2, <2>1 DEF IInv, Whole
  <2>8. Sorted'
    <3> SUFFICES ASSUME ~entered', left' = {} PROVE Sorted'
      BY DEF Sorted
    <3>1. ~entered /\ left = {} /\ Matching(want)' = Matching(want)
      BY <2>1
    <3>2. stayed' = Matching(want)'
      BY <1>11, <2>1, <3>1 DEF IInv, Sorted
    <3>3. ASSUME want.limit > 0, FromFirst
          PROVE  /\ NewestFirst(Seen)'
                 /\ \A p \in ToSet(ids), q \in ToSet(Seen) : createdAt'[q] >= createdAt'[p]
      <4>1. /\ NewestFirst(Seen)
            /\ \A p \in ToSet(ids), q \in ToSet(Seen) : createdAt[q] >= createdAt[p]
        BY <3>1, <3>3 DEF IInv, Sorted
      <4>2. \A p \in ToSet(Seen) \cup ToSet(ids) : createdAt'[p] = createdAt[p]
        BY <1>4, <3>1, <3>3 DEF IInv, Covered
      <4>3. \A i \in DOMAIN Seen : Seen[i] \in ToSet(Seen)
        BY DEF ToSet
      <4>4. \A i \in DOMAIN Seen : createdAt'[Seen[i]] = createdAt[Seen[i]]
        BY <4>2, <4>3
      <4>5. NewestFirst(Seen)'
        BY <1>2, <4>1, <4>4 DEF NewestFirst
      <4> QED
        BY <4>1, <4>2, <4>5
    <3> QED
      BY <1>2, <1>6, <3>2, <3>3 DEF Sorted
  <2> QED
    BY <2>3, <2>4, <2>5, <2>6, <2>7, <2>8 DEF IInv
<1> QED
  BY <1>10, <1>11

LEMMA StutterKeeps == ASSUME IInv, UNCHANGED vars PROVE IInv'
<1>1. /\ UNCHANGED orders /\ want' = want /\ pc' = pc /\ ids' = ids /\ pages' = pages
      /\ stayed' = stayed /\ entered' = entered /\ left' = left
  BY DEF vars, request, history
<1>2. Seen' = Seen /\ Skip(want)' = Skip(want) /\ createdAt' = createdAt
  BY <1>1 DEF Seen, Skip, orders
<1>3. Matching(want)' = Matching(want) /\ (\A o : Rank(o)' = Rank(o))
  BY <1>1, SameListing
<1>4. Done' = Done /\ (FromFirst' <=> FromFirst)
  BY <1>1, <1>2 DEF Done, FromFirst
<1>5. TypeOK' /\ Shape'
  BY <1>1, <1>2, <1>3 DEF IInv, TypeOK, Shape, orders
<1>6. ShownOnce' /\ Covered'
  BY <1>1, <1>2, <1>3, <1>4 DEF IInv, ShownOnce, Covered
<1>7. Whole' /\ Sorted'
  BY <1>1, <1>2, <1>3, <1>4 DEF IInv, Whole, Sorted, NewestFirst
<1> QED
  BY <1>5, <1>6, <1>7 DEF IInv

LEMMA NextKeeps == ASSUME IInv, [Next]_vars PROVE IInv'
<1>1. CASE Ask
  BY <1>1, AskKeeps
<1>2. CASE Refuse
  BY <1>2, RefuseKeeps
<1>3. CASE SelectAll
  BY <1>3, SelectAllKeeps
<1>4. CASE SelectIds
  BY <1>4, SelectIdsInv
<1>5. CASE SelectRows
  BY <1>5, SelectRowsKeeps
<1>6. CASE NextPage
  BY <1>6, NextPageKeeps
<1>7. ASSUME NEW o \in Orders, Place(o) \/ Process(o) PROVE IInv'
  BY <1>7, MeanwhileKeeps
<1>8. CASE Quiescent \/ UNCHANGED vars
  BY <1>8, StutterKeeps DEF Quiescent
<1> QED
  BY <1>1, <1>2, <1>3, <1>4, <1>5, <1>6, <1>7, <1>8 DEF Next

-----------------------------------------------------------------------------
(* What the pages lack. *)

(* The orders of the listing up to here are on the pages so far and the ids. *)
End == IF pc \in {"rows", "answered"} THEN Skip(want) + want.limit ELSE Skip(want)

(* Ids of the page that have ceased to match before their rows are read *)
Gone == ToSet(ids) \ Matching(want)

Lacking == Len(pages) * want.limit - Len(Seen)

(* While none began to match and the listing goes on beyond the ids, those are as
   many as the limit, and for each order that is lacking one has ceased to match. *)
FullInv ==
    ~entered =>
        /\ left \cap Matching(want) = {}
        /\ want.limit > 0 /\ Cardinality(Matching(want)) > End =>
              /\ Lacking + Cardinality(Gone) <= Cardinality(left)
              /\ pc = "rows" => Len(ids) = want.limit

LEMMA LackingType ==
    ASSUME IInv
    PROVE  /\ IsFiniteSet(Gone) /\ Cardinality(Gone) \in Nat
           /\ IsFiniteSet(left) /\ Cardinality(left) \in Nat
           /\ Cardinality(Matching(want)) \in Nat
           /\ want.limit \in Int /\ Skip(want) \in Int /\ End \in Int
           /\ Len(pages) \in Nat /\ Len(Seen) \in Nat /\ Lacking \in Int
           /\ pages = <<>> => Lacking = 0
           /\ ids = <<>> => Gone = {} /\ Cardinality(Gone) = 0
<1>1. ToSet(ids) \in SUBSET Orders
  BY ElementOfSeq, LenProperties DEF ToSet, IInv, TypeOK
<1>2. Gone \in SUBSET Orders /\ left \in SUBSET Orders
  BY <1>1 DEF Gone, IInv, TypeOK
<1>3. /\ IsFiniteSet(Gone) /\ Cardinality(Gone) \in Nat
      /\ IsFiniteSet(left) /\ Cardinality(left) \in Nat
  BY <1>2, ListingAssumption, FS_Subset, FS_CardinalityType
<1>4. Cardinality(Matching(want)) \in Nat
  BY MatchingFinite, FS_CardinalityType
<1>5. want.limit \in Int /\ Skip(want) \in Int
  BY SkipType DEF IInv, TypeOK
<1>6. Len(pages) \in Nat /\ Len(Seen) \in Nat
  BY LenProperties DEF IInv, TypeOK, Shape
<1>7. PICK n \in Nat : n = Len(pages)
  BY <1>6
<1>8. PICK l \in Int : l = want.limit
  BY <1>5
<1>9. n * l \in Int /\ (n = 0 => n * l = 0)
  OBVIOUS
<1>10. pages = <<>> => Len(pages) = 0 /\ Len(Seen) = 0
  BY NothingShown DEF Seen
<1>11. ids = <<>> => Gone = {} /\ Cardinality(Gone) = 0
  BY NothingShown, FS_EmptySet DEF Gone
<1>12. End \in Int
  BY <1>5 DEF End
<1>13. PICK m \in Nat : m = Len(Seen)
  BY <1>6
<1>14. Lacking = n * l - m
  BY <1>7, <1>8, <1>13 DEF Lacking
<1>15. Lacking \in Int
  BY <1>9, <1>14
<1>16. pages = <<>> => Lacking = 0
  BY <1>7, <1>9, <1>10, <1>13, <1>14
<1> QED
  BY <1>3, <1>4, <1>5, <1>6, <1>11, <1>12, <1>15, <1>16

(* Before the first page nothing is lacking. *)
NoPages == pages = <<>> /\ ids = <<>> /\ pc # "rows" /\ left = {}

LEMMA NoPagesFull == IInv /\ NoPages => FullInv
BY LackingType DEF FullInv, NoPages

(* Where the orders, the listing and the pages stay as they are *)
LEMMA FullStays ==
    ASSUME FullInv, UNCHANGED <<orders, ids, pages, history>>, pc # "rows", pc' # "rows",
           want'.limit = want.limit, want'.status = want.status,
           want'.range = want.range, End' = End
    PROVE  FullInv'
<1>1. /\ status' = status /\ createdAt' = createdAt /\ ids' = ids /\ pages' = pages
      /\ entered' = entered
  BY DEF orders, history
<1>2. Matching(want)' = Matching(want)
  BY SameListing
<1>3. Seen' = Seen /\ Lacking' = Lacking
  BY <1>1 DEF Seen, Lacking
<1>4. Gone' = Gone /\ left' = left
  BY <1>1, <1>2 DEF Gone, history
<1> QED
  BY <1>1, <1>2, <1>3, <1>4 DEF FullInv

(* A page of ids is full when the listing goes on after it. *)
LEMMA FullSlice ==
    ASSUME createdAt \in [Orders -> Times \cup {0}], want.limit \in Nat \ {0},
           Skip(want) \in Nat, NEW s \in IdOrders(Matching(want)),
           Cardinality(Matching(want)) > Skip(want) + want.limit
    PROVE  Len(Slice(s, want)) = want.limit
<1>1. /\ Slice(s, want) \in Seq(Orders) /\ Len(Slice(s, want)) <= want.limit
      /\ Len(Slice(s, want)) < want.limit =>
            \A o \in Matching(want) : Rank(o) <= Skip(want) + want.limit
  BY SliceIsPage
<1>2. Len(Slice(s, want)) \in Nat
  BY <1>1, LenProperties
<1>3. PICK n : n = Cardinality(Matching(want))
  OBVIOUS
<1>4. n \in Nat /\ Len(s) = n /\ n \in 1..n
  BY <1>3, MatchingFinite, FS_CardinalityType, RankIsPlace
<1>5. s[n] \in Matching(want) /\ Rank(s[n]) = n
  BY <1>4, RankIsPlace DEF ToSet
<1> QED
  BY <1>1, <1>2, <1>3, <1>4, <1>5

LEMMA SelectIdsFull == ASSUME IInv, FullInv, SelectIds PROVE FullInv'
<1>1. /\ pc = "ask" /\ ~Negative(want) /\ ~Unlimited(want)
      /\ UNCHANGED <<orders, want, history>>
  BY DEF SelectIds
<1>2. PICK s \in IdOrders(Matching(want)) :
         \/ Slice(s, want) # <<>> /\ ids' = Slice(s, want) /\ pc' = "rows" /\ UNCHANGED pages
         \/ Slice(s, want) = <<>> /\ Respond(<<>>)
  BY DEF SelectIds
<1>3. /\ want' = want /\ entered' = entered
      /\ Matching(want)' = Matching(want) /\ left' = left /\ Skip(want)' = Skip(want)
  BY <1>1, SameListing DEF orders, history, Skip
<1>4. want.limit \in Nat \ {0} /\ Skip(want) \in Nat /\ createdAt \in [Orders -> Times \cup {0}]
  BY <1>1, SkipType DEF IInv, TypeOK, Negative, Unlimited
<1>5. pc' \in {"rows", "answered"} /\ End' = Skip(want) + want.limit /\ End = Skip(want)
  BY <1>1, <1>2, <1>3 DEF Respond, End
<1> SUFFICES ASSUME ~entered, Cardinality(Matching(want)) > Skip(want) + want.limit
             PROVE  /\ Lacking' + Cardinality(Gone') <= Cardinality(left)
                    /\ pc' = "rows" => Len(ids') = want.limit
  BY <1>3, <1>5 DEF FullInv
<1>6. Len(Slice(s, want)) = want.limit
  BY <1>4, FullSlice
<1>7. Slice(s, want) # <<>>
  BY <1>4, <1>6
<1>8. ids' = Slice(s, want) /\ pc' = "rows" /\ pages' = pages /\ Seen' = Seen
  BY <1>2, <1>7 DEF Seen
<1>9. ids = <<>>
  BY <1>1 DEF IInv, Shape
<1>10. Lacking <= Cardinality(left)
  BY <1>4, <1>5, <1>9, LackingType DEF FullInv
<1>11. Gone' = {} /\ Cardinality(Gone') = 0
  <2>1. ToSet(Slice(s, want)) \subseteq Matching(want)
    BY <1>4, SliceIsPage
  <2> QED
    BY <1>3, <1>8, <2>1, FS_EmptySet DEF Gone
<1>12. Lacking' = Lacking
  BY <1>3, <1>8 DEF Lacking
<1> QED
  BY <1>6, <1>8, <1>10, <1>11, <1>12, LackingType

(* The rows of a page are fewer than its ids by those that are gone. *)
LEMMA SelectRowsFull == ASSUME IInv, FullInv, SelectRows PROVE FullInv'
<1>1. PICK rows \in RowOrders(Matching(want) \cap ToSet(ids)) : Respond(rows)
  BY DEF SelectRows
<1>2. pc = "rows" /\ pc' = "answered" /\ ids' = <<>> /\ UNCHANGED <<orders, want, history>>
  BY <1>1 DEF SelectRows, Respond
<1>3. /\ want' = want /\ entered' = entered
      /\ Matching(want)' = Matching(want) /\ left' = left /\ Skip(want)' = Skip(want)
  BY <1>2, SameListing DEF orders, history, Skip
<1>4. End' = End
  BY <1>2, <1>3 DEF End
<1> SUFFICES ASSUME want.limit > 0, ~entered, Cardinality(Matching(want)) > End
             PROVE  Lacking' + Cardinality(Gone') <= Cardinality(left)
  BY <1>2, <1>3, <1>4 DEF FullInv
<1>5. Lacking + Cardinality(Gone) <= Cardinality(left) /\ Len(ids) = want.limit
  BY <1>2 DEF FullInv
<1>6. /\ pages \in Seq(Seq(Orders)) /\ Seen \in Seq(Orders) /\ ids \in Seq(Orders)
      /\ Distinct(ids)
  BY <1>2 DEF IInv, TypeOK, Shape
<1>7. PICK S : S = Matching(want) \cap ToSet(ids)
  OBVIOUS
<1>8. /\ IsFiniteSet(ToSet(ids)) /\ Cardinality(ToSet(ids)) = want.limit
  BY <1>5, <1>6, DistinctLength
<1>9. S \in SUBSET ToSet(ids) /\ S \in SUBSET Orders /\ IsFiniteSet(S)
  BY <1>7, <1>8, MatchingFinite, FS_Subset
<1>10. rows \in Seq(S) /\ Len(rows) = Cardinality(S)
  BY <1>1, <1>7, <1>9, PermutationOfSet DEF RowOrders
<1>11. rows \in Seq(Orders)
  BY <1>9, <1>10, SeqMonotonic
<1>12. Cardinality(Gone) = want.limit - Len(rows)
  <2>1. Cardinality(ToSet(ids) \ Matching(want)) =
          Cardinality(ToSet(ids)) - Cardinality(ToSet(ids) \cap Matching(want))
    BY <1>8, FS_Difference
  <2>2. ToSet(ids) \cap Matching(want) = S
    BY <1>7
  <2> QED
    BY <1>8, <1>10, <2>1, <2>2 DEF Gone
<1>13. /\ Len(pages') = Len(pages) + 1
       /\ Seen' = Seen \o rows /\ Len(rows) \in Nat
  BY <1>1, <1>6, <1>11, OnePageMore
<1>14. Len(Seen') = Len(Seen) + Len(rows)
  BY <1>6, <1>11, <1>13, ConcatProperties
<1>15. Lacking' = Lacking + want.limit - Len(rows)
  <2>1. PICK n \in Nat : n = Len(pages)
    BY LackingType
  <2>2. PICK l \in Int : l = want.limit
    BY LackingType
  <2>3. PICK a \in Nat, b \in Nat : a = Len(Seen) /\ b = Len(rows)
    BY <1>13, LackingType
  <2>4. (n + 1) * l - (a + b) = (n * l - a) + l - b
    OBVIOUS
  <2>5. Lacking = n * l - a
    BY <2>1, <2>2, <2>3 DEF Lacking
  <2>6. Lacking' = (n + 1) * l - (a + b)
    BY <1>3, <1>13, <1>14, <2>1, <2>2, <2>3 DEF Lacking
  <2> QED
    BY <2>2, <2>3, <2>4, <2>5, <2>6
<1>16. Gone' = {} /\ Cardinality(Gone') = 0
  BY <1>2, NothingShown, FS_EmptySet DEF Gone
<1> QED
  <2>1. PICK a \in Int, b \in Nat : a = Lacking /\ b = Cardinality(Gone)
    BY LackingType
  <2>2. PICK c \in Nat, l \in Int, n \in Nat :
           c = Cardinality(left) /\ l = want.limit /\ n = Len(rows)
    BY <1>13, LackingType
  <2>3. a + b <= c /\ b = l - n
    BY <1>5, <1>12, <2>1, <2>2
  <2>4. a + l - n + 0 <= c
    BY <2>3
  <2> QED
    BY <1>15, <1>16, <2>1, <2>2, <2>4

(* Each order that goes from the ids is one more that has ceased to match. *)
LEMMA GoneLeaves ==
    ASSUME IInv, left \cap Matching(want) = {}, want' = want, ids' = ids,
           left' = left \cup (Matching(want) \ Matching(want)')
    PROVE  \E x \in Nat : /\ Cardinality(Gone') <= Cardinality(Gone) + x
                         /\ Cardinality(left') = Cardinality(left) + x
                         /\ Cardinality(Gone') \in Nat
<1>1. PICK D : D = Matching(want) \ Matching(want)'
  OBVIOUS
<1>2. IsFiniteSet(D) /\ Cardinality(D) \in Nat
  <2>1. D \in SUBSET Matching(want)
    BY <1>1
  <2> QED
    BY <2>1, MatchingFinite, FS_Subset, FS_CardinalityType
<1>3. /\ IsFiniteSet(Gone) /\ Cardinality(Gone) \in Nat
      /\ IsFiniteSet(left) /\ Cardinality(left) \in Nat
  BY LackingType
<1>4. Cardinality(left') = Cardinality(left) + Cardinality(D)
  <2>1. left' = left \cup D /\ left \cap D = {}
    BY <1>1
  <2>2. Cardinality(left \cup D) = Cardinality(left) + Cardinality(D) - Cardinality(left \cap D)
    BY <1>2, <1>3, FS_Union
  <2>3. Cardinality(left \cap D) = 0
    BY <2>1, FS_EmptySet
  <2>4. Cardinality(left') = Cardinality(left \cup D)
    BY <2>1
  <2> QED
    BY <1>2, <1>3, <2>2, <2>3, <2>4
<1>5. /\ IsFiniteSet(Gone \cup D)
      /\ Cardinality(Gone \cup D) = Cardinality(Gone) + Cardinality(D) - Cardinality(Gone \cap D)
  BY <1>2, <1>3, FS_Union
<1>6. Gone' \in SUBSET (Gone \cup D)
  BY <1>1 DEF Gone
<1>7. Cardinality(Gone') \in Nat /\ Cardinality(Gone') <= Cardinality(Gone \cup D)
  BY <1>5, <1>6, FS_Subset, FS_CardinalityType
<1>8. Cardinality(Gone \cap D) \in Nat
  <2>1. Gone \cap D \in SUBSET D
    OBVIOUS
  <2> QED
    BY <1>2, <2>1, FS_Subset, FS_CardinalityType
<1> QED
  BY <1>2, <1>3, <1>4, <1>5, <1>7, <1>8

LEMMA MeanwhileFull ==
    ASSUME IInv, FullInv, NEW o \in Orders, Place(o) \/ Process(o)
    PROVE  FullInv'
<1>1. /\ UNCHANGED request /\ Remember /\ IInv'
  BY MeanwhileKeeps DEF Place, Process, Remember
<1>2. /\ pc' = pc /\ want' = want /\ ids' = ids /\ pages' = pages
  BY <1>1 DEF request
<1>3. CASE pc = "idle"
  <2>1. NoPages'
    BY <1>1, <1>2, <1>3 DEF IInv, Shape, NoPages, Remember, history
  <2> QED
    BY <1>1, <2>1, NoPagesFull, PTL
<1>4. CASE pc # "idle"
  <2> SUFFICES ASSUME ~entered' PROVE FullInv'
    BY DEF FullInv
  <2>1. /\ ~entered /\ Matching(want)' \subseteq Matching(want)
        /\ left' = left \cup (Matching(want) \ Matching(want)')
    BY <1>1, <1>4 DEF Remember
  <2>2. left \cap Matching(want) = {} /\ left' \cap Matching(want)' = {}
    BY <2>1 DEF FullInv
  <2> SUFFICES ASSUME want.limit > 0, Cardinality(Matching(want)') > End'
               PROVE  /\ Lacking' + Cardinality(Gone') <= Cardinality(left')
                      /\ pc = "rows" => Len(ids) = want.limit
    BY <1>2, <2>2 DEF FullInv
  <2>3. End' = End /\ Lacking' = Lacking
    BY <1>2 DEF End, Skip, Lacking, Seen
  <2>4. Cardinality(Matching(want)') \in Nat /\ Cardinality(Matching(want)') <= Cardinality(Matching(want))
    <3>1. Matching(want)' \in SUBSET Matching(want)
      BY <2>1
    <3> QED
      BY <3>1, MatchingFinite, FS_Subset, FS_CardinalityType
  <2>5. Cardinality(Matching(want)) > End
    BY <2>3, <2>4, LackingType
  <2>6. /\ Lacking + Cardinality(Gone) <= Cardinality(left)
        /\ pc = "rows" => Len(ids) = want.limit
    BY <2>1, <2>5 DEF FullInv
  <2>7. PICK x \in Nat : /\ Cardinality(Gone') <= Cardinality(Gone) + x
                         /\ Cardinality(left') = Cardinality(left) + x
                         /\ Cardinality(Gone') \in Nat
    BY <1>2, <2>1, <2>2, GoneLeaves
  <2>8. Lacking' + Cardinality(Gone') <= Cardinality(left')
    <3>1. PICK a \in Int, b \in Nat, c \in Nat :
             a = Lacking /\ b = Cardinality(Gone) /\ c = Cardinality(left)
      BY LackingType
    <3>2. PICK d \in Nat, e \in Nat : d = Cardinality(Gone') /\ e = Cardinality(left')
      BY <2>7, <3>1
    <3>3. a + b <= c /\ d <= b + x /\ e = c + x
      BY <2>6, <2>7, <3>1, <3>2
    <3>4. a + d <= e
      BY <3>3
    <3> QED
      BY <2>3, <3>1, <3>2, <3>4
  <2> QED
    BY <2>6, <2>8
<1> QED
  BY <1>3, <1>4

LEMMA FullKeeps == ASSUME IInv, FullInv, [Next]_vars PROVE FullInv'
<1>1. CASE Ask
  <2>1. NoPages' /\ IInv'
    BY <1>1, AskKeeps DEF Ask, IInv, Shape, NoPages
  <2> QED
    BY <2>1, NoPagesFull, PTL
<1>2. CASE Refuse
  <2>1. End' = End /\ want' = want /\ pc # "rows" /\ pc' # "rows"
        /\ UNCHANGED <<orders, ids, pages, history>>
    BY <1>2 DEF Refuse, End, Skip
  <2> QED
    BY <2>1, FullStays
<1>3. CASE SelectAll
  <2>1. want.limit = 0 /\ want' = want /\ entered' = entered /\ left' = left /\ UNCHANGED orders
    BY <1>3 DEF SelectAll, Unlimited, history
  <2>2. Matching(want)' = Matching(want)
    BY <2>1, SameListing
  <2> QED
    BY <2>1, <2>2 DEF FullInv
<1>4. CASE SelectIds
  BY <1>4, SelectIdsFull
<1>5. CASE SelectRows
  BY <1>5, SelectRowsFull
<1>6. CASE NextPage
  <2>1. /\ pc = "answered" /\ pc' = "ask" /\ UNCHANGED <<orders, ids, pages, history>>
        /\ want' = [want EXCEPT !.page = @ + 1]
    BY <1>6 DEF NextPage
  <2>2. /\ Skip(want') = Skip(want) + want.limit /\ want'.limit = want.limit
        /\ want'.status = want.status /\ want'.range = want.range
    BY <2>1, SkipNext DEF IInv, TypeOK
  <2>3. End' = End
    BY <2>1, <2>2 DEF End
  <2> QED
    BY <2>1, <2>2, <2>3, FullStays
<1>7. ASSUME NEW o \in Orders, Place(o) \/ Process(o) PROVE FullInv'
  BY <1>7, MeanwhileFull
<1>8. CASE Quiescent \/ UNCHANGED vars
  <2>1. UNCHANGED vars
    BY <1>8 DEF Quiescent
  <2>2. /\ UNCHANGED <<orders, ids, pages, history>> /\ want' = want /\ pc' = pc
        /\ status' = status /\ createdAt' = createdAt /\ entered' = entered /\ left' = left
    BY <2>1 DEF vars, request, orders, history
  <2>3. /\ Matching(want)' = Matching(want) /\ Seen' = Seen /\ End' = End /\ ids' = ids /\ pages' = pages
    BY <2>2, SameListing DEF Seen, End, Skip
  <2>4. Gone' = Gone /\ Lacking' = Lacking
    BY <2>2, <2>3 DEF Gone, Lacking
  <2> QED
    BY <2>2, <2>3, <2>4 DEF FullInv
<1> QED
  BY <1>1, <1>2, <1>3, <1>4, <1>5, <1>6, <1>7, <1>8 DEF Next

-----------------------------------------------------------------------------
(* The theorems. *)

(* The inductive invariant holds of every walk, whatever is placed and
   processed meanwhile. *)
THEOREM ListingInvariant == Spec => []IInv
<1>1. IInv /\ [Next]_vars => IInv'
  BY NextKeeps
<1> QED
  BY <1>1, InitInv, PTL DEF Spec

(* Every variable has its type, and no page that GET /api/orders answers is
   longer than its limit. *)
THEOREM ListingTypeCorrect == Spec => []TypeOK
<1>1. IInv => TypeOK
  BY DEF IInv
<1> QED
  BY <1>1, ListingInvariant, PTL

(* No order is on two pages of a walk, or twice on one, unless one began to
   match meanwhile. *)
THEOREM WalkRepeatsNothing == Spec => []NothingRepeated
<1>1. IInv => NothingRepeated
  <2> SUFFICES ASSUME IInv, want.limit > 0, ~entered, NEW o \in Orders
               PROVE  TimesSeen(o) <= 1
    BY DEF NothingRepeated
  <2>1. Distinct(Seen)
    BY DEF IInv, ShownOnce
  <2>2. PICK P : P = {i \in DOMAIN Seen : Seen[i] = o}
    OBVIOUS
  <2>3. \A i, j \in P : i = j
    BY <2>1, <2>2 DEF Distinct
  <2>4. CASE P = {}
    BY <2>2, <2>4, FS_EmptySet DEF TimesSeen
  <2>5. CASE P # {}
    <3>1. PICK i \in P : TRUE
      BY <2>5
    <3>2. P = {i}
      BY <2>3, <3>1
    <3>3. Cardinality(P) = 1
      BY <3>2, FS_Singleton
    <3> QED
      BY <2>2, <3>3 DEF TimesSeen
  <2> QED
    BY <2>4, <2>5
<1> QED
  BY <1>1, ListingInvariant, PTL

(* A walk that began at page 1 and came to a short page has shown every order
   that matched throughout, if none ceased to match, as processed ones never
   do. *)
THEOREM WalkMissesNothing == Spec => []NothingMissed
<1>1. IInv => NothingMissed
  <2> SUFFICES ASSUME IInv, Complete, left # {} => want.status = "processed"
               PROVE  stayed \subseteq ToSet(Seen)
    BY DEF NothingMissed
  <2>1. left = {}
    BY DEF IInv, Shape
  <2>2. pc = "answered" /\ FromFirst /\ pages # <<>> /\ want.limit >= 0
    BY DEF Complete, FromFirst, IInv, Shape
  <2>3. CASE want.limit = 0
    BY <2>2, <2>3 DEF IInv, Whole
  <2>4. CASE want.limit # 0
    <3>1. want.limit \in Int /\ want.limit > 0
      BY <2>2, <2>4, SkipType DEF IInv, TypeOK
    <3>2. Len(pages[Len(pages)]) < want.limit
      BY <2>4 DEF Complete
    <3> QED
      BY <2>1, <2>2, <3>1, <3>2 DEF IInv, Covered
  <2> QED
    BY <2>3, <2>4
<1> QED
  BY <1>1, ListingInvariant, PTL

(* The pages of a complete walk during which nothing changed are the listing,
   cut in pieces. *)
THEOREM WalkIsListing == Spec => []QuietWalk
<1>1. IInv => QuietWalk
  <2> SUFFICES ASSUME IInv, Complete, ~entered, left = {}
               PROVE  /\ ToSet(Seen) = Matching(want)
                      /\ want.limit > 0 => Len(Seen) = Cardinality(Matching(want))
                      /\ want.limit > 0 => NewestFirst(Seen)
    BY DEF QuietWalk
  <2>1. pc = "answered" /\ FromFirst /\ pages # <<>> /\ want.limit >= 0
    BY DEF Complete, FromFirst, IInv, Shape
  <2>2. stayed = Matching(want)
    BY <2>1 DEF IInv, Sorted
  <2>3. want.limit = 0 \/ want.limit > 0
    BY <2>1, SkipType DEF IInv, TypeOK
  <2>4. stayed \subseteq ToSet(Seen)
    <3>1. CASE want.limit = 0
      BY <2>1, <3>1 DEF IInv, Whole
    <3>2. CASE want.limit > 0
      <4>1. Len(pages[Len(pages)]) < want.limit
        BY <3>2, SkipType DEF Complete, IInv, TypeOK
      <4> QED
        BY <2>1, <3>2, <4>1 DEF IInv, Covered
    <3> QED
      BY <2>3, <3>1, <3>2
  <2>5. ToSet(Seen) \subseteq Matching(want)
    BY <2>1, <2>3 DEF IInv, Whole, Covered
  <2>6. ToSet(Seen) = Matching(want)
    BY <2>2, <2>4, <2>5
  <2>7. want.limit > 0 => Len(Seen) = Cardinality(Matching(want))
    <3>1. want.limit > 0 => Distinct(Seen)
      BY DEF IInv, ShownOnce
    <3>2. Seen \in Seq(Orders)
      BY DEF IInv, Shape
    <3> QED
      BY <2>6, <3>1, <3>2, DistinctLength
  <2>8. want.limit > 0 => NewestFirst(Seen)
    BY <2>1 DEF IInv, Sorted
  <2> QED
    BY <2>6, <2>7, <2>8
<1> QED
  BY <1>1, ListingInvariant, PTL

(* For any orders, times, limits and pages: as long as the listing goes on and
   nothing began to match, the pages so far lack no more orders than have ceased
   to match since the walk began, by being processed between the two queries of
   a page. *)
THEOREM PagesLackFewOnly == Spec => []PagesFull
<1>1. Init => FullInv
  <2> SUFFICES ASSUME Init PROVE FullInv
    OBVIOUS
  <2>1. IInv /\ NoPages
    BY InitInv DEF Init, NoPages
  <2> QED
    BY <2>1, NoPagesFull
<1>2. IInv /\ FullInv /\ [Next]_vars => FullInv'
  BY FullKeeps
<1>3. IInv /\ FullInv => PagesFull
  <2> SUFFICES ASSUME IInv, FullInv, want.limit > 0, ~entered, Continues
               PROVE  Lacking <= Cardinality(left)
    BY DEF PagesFull, Lacking
  <2>1. pc = "answered" /\ Cardinality(Matching(want)) > want.page * want.limit
    BY DEF Continues
  <2>2. PICK p \in Int : p = want.page
    BY SkipType DEF IInv, TypeOK
  <2>3. PICK l \in Int : l = want.limit
    BY LackingType
  <2>4. (p - 1) * l + l = p * l
    OBVIOUS
  <2>5. End = want.page * want.limit
    BY <2>1, <2>2, <2>3, <2>4 DEF End, Skip
  <2>6. Lacking + Cardinality(Gone) <= Cardinality(left)
    BY <2>1, <2>5 DEF FullInv
  <2> QED
    BY <2>6, LackingType
<1> QED
  BY <1>1, <1>2, <1>3, ListingInvariant, PTL DEF Spec
=============================================================================
