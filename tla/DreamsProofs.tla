---------------------------- MODULE DreamsProofs ----------------------------
(***************************************************************************)
(* Lemmas about the operators of Dreams: what the conversion of a node to  *)
(* an array, the sort and removeAll(where:) return.                        *)
(***************************************************************************)
EXTENDS Dreams, FiniteSetTheorems, WellFoundedInduction, TLAPS

-----------------------------------------------------------------------------
(* Finite sets of naturals. *)

\* A set of naturals that is not empty has a least element.
LEMMA LeastNatural ==
    ASSUME NEW T \in SUBSET Nat, T # {}
    PROVE  \E x \in T : \A y \in T : x <= y
<1>1. PICK x \in T : \A y \in T : ~(<<y, x>> \in OpToRel(<, Nat))
  BY NatLessThanWellFounded, WFMin
<1>2. \A y \in T : ~(y < x)
  BY <1>1 DEF OpToRel
<1> QED
  BY <1>2

\* A set of positions that is not empty has a last one.
LEMMA LastPosition ==
    ASSUME NEW n \in Nat, NEW I \in SUBSET (1 .. n), I # {}
    PROVE  \E i \in I : \A j \in I : j <= i
<1> DEFINE T == {n - i : i \in I}
<1>a. \A i \in I : n - i \in Nat
  OBVIOUS
<1>1. T \in SUBSET Nat /\ T # {}
  BY <1>a
<1>2. PICK x \in T : \A y \in T : x <= y
  BY <1>1, LeastNatural
<1>3. PICK i \in I : x = n - i
  OBVIOUS
<1>4. \A j \in I : n - j \in T
  OBVIOUS
<1>5. \A j \in I : j <= i
  BY <1>2, <1>3, <1>4
<1> QED
  BY <1>5
-----------------------------------------------------------------------------
(* What the conversions of Dreams return. *)

\* A node the forced cast accepts has the keys 0 .. m - 1, and no others.
LEMMA ReadableKeys ==
    ASSUME NEW n \in Node, CastSucceeds(n)
    PROVE  \E m \in 0 .. MaxKey + 1 :
              /\ Present(n) = 0 .. m - 1
              /\ Cardinality(Present(n)) = m
<1> USE MaxKeyAssumption
<1> DEFINE T == Nat \ Present(n)
<1>1. MaxKey + 1 \in T
  BY DEF Present, Keys
<1>2. PICK m \in T : \A y \in T : m <= y
  <2>1. T \in SUBSET Nat /\ T # {}
    BY <1>1
  <2> QED
    BY <2>1, LeastNatural
<1>3. m \in 0 .. MaxKey + 1
  BY <1>1, <1>2
<1>4. \A k \in Present(n) : k < m
  <2> SUFFICES ASSUME NEW k \in Present(n), m <= k
               PROVE  FALSE
    BY <1>3 DEF Present, Keys
  <2>1. m \in 0 .. k /\ m \in Keys
    BY <1>3 DEF Present, Keys
  <2>2. n[m] # None
    BY <2>1 DEF CastSucceeds, HasHole
  <2> QED
    BY <2>1, <2>2 DEF Present
<1>5. \A k \in 0 .. m - 1 : k \in Present(n)
  <2> TAKE k \in 0 .. m - 1
  <2>1. k \in Nat /\ k < m
    BY <1>3
  <2> QED
    BY <2>1, <1>2, <1>3
<1>6. Present(n) = 0 .. m - 1
  BY <1>3, <1>4, <1>5 DEF Present, Keys
<1>7. Cardinality(0 .. m - 1) = m
  BY <1>3, FS_Interval
<1> QED
  BY <1>3, <1>6, <1>7

\* The array of a readable node holds dreams, and no more than there are keys.
LEMMA AsArrayType ==
    ASSUME NEW n \in Node, CastSucceeds(n)
    PROVE  AsArray(n) \in Seq(Dream) /\ Len(AsArray(n)) <= MaxKey + 1
<1> USE MaxKeyAssumption
<1>1. PICK m \in 0 .. MaxKey + 1 :
         Present(n) = 0 .. m - 1 /\ Cardinality(Present(n)) = m
  BY ReadableKeys
<1>2. \A i \in 1 .. m : n[i - 1] \in Dream
  <2> TAKE i \in 1 .. m
  <2>1. i - 1 \in Present(n)
    BY <1>1
  <2> QED
    BY <2>1 DEF Present, Node
<1>3. AsArray(n) = [i \in 1 .. m |-> n[i - 1]]
  BY <1>1 DEF AsArray
<1> QED
  BY <1>1, <1>2, <1>3

\* A reordering has the same length and elements of the same kind.
LEMMA ReorderingType ==
    ASSUME NEW S, NEW s \in Seq(S), NEW t \in Reorderings(s)
    PROVE  t \in Seq(S) /\ Len(t) = Len(s)
<1>1. PICK p \in [DOMAIN s -> DOMAIN s] : t = [i \in DOMAIN s |-> s[p[i]]]
  BY DEF Reorderings, Bijection, Injection
<1>2. DOMAIN s = 1 .. Len(s) /\ Len(s) \in Nat
  OBVIOUS
<1>3. \A i \in 1 .. Len(s) : s[p[i]] \in S
  BY <1>1, <1>2
<1>4. t = [i \in 1 .. Len(s) |-> s[p[i]]]
  BY <1>1, <1>2
<1> QED
  BY <1>2, <1>3, <1>4

\* What fetchContainers leaves in the container.
LEMMA ContainersType ==
    ASSUME NEW n \in Node, CastSucceeds(n), NEW s \in Containers(n)
    PROVE  s \in Seq(Dream) /\ Len(s) <= MaxKey + 1
<1>1. AsArray(n) \in Seq(Dream) /\ Len(AsArray(n)) <= MaxKey + 1
  BY AsArrayType
<1>2. s \in Reorderings(AsArray(n))
  BY DEF Containers, ascendingOrder
<1> QED
  BY <1>1, <1>2, ReorderingType

\* A reordering has the elements of the array.
LEMMA ReorderingRange ==
    ASSUME NEW S, NEW s \in Seq(S), NEW t \in Reorderings(s)
    PROVE  Range(t) = Range(s)
<1>1. PICK p \in Bijection(DOMAIN s, DOMAIN s) : t = [i \in DOMAIN s |-> s[p[i]]]
  BY DEF Reorderings
<1>2. p \in [DOMAIN s -> DOMAIN s] /\ \A j \in DOMAIN s : \E i \in DOMAIN s : p[i] = j
  BY DEF Bijection, Injection, Surjection
<1>3. DOMAIN t = DOMAIN s /\ \A i \in DOMAIN s : t[i] = s[p[i]]
  BY <1>1
<1>4. ASSUME NEW i \in DOMAIN t PROVE t[i] \in Range(s)
  BY <1>2, <1>3 DEF Range
<1>5. ASSUME NEW j \in DOMAIN s PROVE s[j] \in Range(t)
  <2>1. PICK i \in DOMAIN s : p[i] = j
    BY <1>2
  <2> QED
    BY <2>1, <1>3 DEF Range
<1> QED
  BY <1>4, <1>5 DEF Range

\* A container has the dreams of its node, and as many.
LEMMA ContainersAre ==
    ASSUME NEW n \in Node, CastSucceeds(n), NEW s \in Containers(n)
    PROVE  Len(s) = Len(AsArray(n)) /\ Range(s) = Range(AsArray(n))
<1>1. AsArray(n) \in Seq(Dream)
  BY AsArrayType
<1>2. s \in Reorderings(AsArray(n))
  BY DEF Containers, ascendingOrder
<1> QED
  BY <1>1, <1>2, ReorderingType, ReorderingRange

\* Every dream of a node is in its array.
LEMMA PresentInArray ==
    ASSUME NEW n \in Node, CastSucceeds(n), NEW k \in Present(n)
    PROVE  n[k] \in Range(AsArray(n))
<1>1. PICK m \in 0 .. MaxKey + 1 : Present(n) = 0 .. m - 1 /\ Cardinality(Present(n)) = m
  BY ReadableKeys
<1>2. k + 1 \in 1 .. m /\ (k + 1) - 1 = k
  BY <1>1, MaxKeyAssumption
<1>3. AsArray(n) = [i \in 1 .. m |-> n[i - 1]]
  BY <1>1 DEF AsArray
<1>4. k + 1 \in DOMAIN AsArray(n) /\ AsArray(n)[k + 1] = n[k]
  BY <1>2, <1>3
<1> QED
  BY <1>4 DEF Range

\* A part of an array, and the positions its elements come from.
LEMMA SubarrayIs ==
    ASSUME NEW S, NEW s \in Seq(S), NEW I \in SUBSET DOMAIN s, NEW t \in Subarrays(s, I)
    PROVE  /\ t \in Seq(S) /\ Len(t) = Cardinality(I) /\ Len(t) <= Len(s)
           /\ \E f \in [1 .. Len(t) -> I] :
                 /\ \A i \in 1 .. Len(t) : t[i] = s[f[i]]
                 /\ \A i, j \in 1 .. Len(t) : i < j => f[i] < f[j]
<1> DEFINE c == Cardinality(I)
<1>1. DOMAIN s = 1 .. Len(s) /\ Len(s) \in Nat
  OBVIOUS
<1>2. IsFiniteSet(1 .. Len(s)) /\ Cardinality(1 .. Len(s)) = Len(s)
  <2>1. \A m \in Nat : IsFiniteSet(1 .. m) /\ Cardinality(1 .. m) = m
    BY FS_Interval
  <2> QED
    BY <2>1, <1>1
<1>3. c \in Nat /\ c <= Len(s)
  <2>1. IsFiniteSet(I) /\ c <= Len(s)
    BY <1>1, <1>2, FS_Subset
  <2> QED
    BY <2>1, FS_CardinalityType
<1>4. PICK f \in [1 .. c -> I] :
        t = [i \in 1 .. c |-> s[f[i]]] /\ \A i, j \in 1 .. c : i < j => f[i] < f[j]
  BY DEF Subarrays
<1>5. \A i \in 1 .. c : s[f[i]] \in S
  BY <1>1, <1>4
<1> HIDE DEF c
<1>6. t \in Seq(S) /\ Len(t) = c /\ \A i \in 1 .. c : t[i] = s[f[i]]
  BY <1>3, <1>4, <1>5
<1> QED
  BY <1>3, <1>4, <1>6 DEF c

\* Every position asked for has its element in the part: an increasing
\* enumeration of as many positions as there are leaves none out.
LEMMA SubarrayAll ==
    ASSUME NEW S, NEW s \in Seq(S), NEW I \in SUBSET DOMAIN s, NEW t \in Subarrays(s, I), NEW j \in I
    PROVE  s[j] \in Range(t)
<1> DEFINE T == 1 .. Len(t)
<1>1. t \in Seq(S) /\ Len(t) = Cardinality(I) /\ Len(t) \in Nat /\ DOMAIN t = T
  BY SubarrayIs
<1>2. PICK f \in [T -> I] : /\ \A i \in T : t[i] = s[f[i]]
                            /\ \A i, h \in T : i < h => f[i] < f[h]
  BY SubarrayIs
<1>3. IsFiniteSet(T) /\ Cardinality(T) = Len(t)
  <2>1. \A m \in Nat : IsFiniteSet(1 .. m) /\ Cardinality(1 .. m) = m
    BY FS_Interval
  <2> QED
    BY <1>1, <2>1
<1>4. IsFiniteSet(I)
  <2>1. \A m \in Nat : IsFiniteSet(1 .. m)
    BY FS_Interval
  <2>2. DOMAIN s = 1 .. Len(s) /\ Len(s) \in Nat
    OBVIOUS
  <2> QED
    BY <2>1, <2>2, FS_Subset
<1>5. f \in Injection(T, I)
  <2>1. ASSUME NEW i \in T, NEW h \in T, i # h PROVE f[i] # f[h]
    <3>1. i \in Nat /\ h \in Nat /\ f[i] \in Nat /\ f[h] \in Nat
      BY <1>1
    <3> QED
      BY <1>2, <2>1, <3>1
  <2> QED
    BY <2>1 DEF Injection, IsInjective
<1> HIDE DEF T
<1>6. f \in Surjection(T, I)
  BY <1>1, <1>3, <1>4, <1>5, FS_Injection
<1>7. PICK i \in T : f[i] = j
  BY <1>6 DEF Surjection
<1>8. t[i] = s[j] /\ i \in DOMAIN t
  BY <1>1, <1>2, <1>7
<1> QED
  BY <1>8 DEF Range

\* removeAll(where:) keeps dreams only, at most as many as there were.
LEMMA WithoutDateType ==
    ASSUME NEW s \in Seq(Dream), NEW date, NEW t \in WithoutDate(s, date)
    PROVE  t \in Seq(Dream) /\ Len(t) <= Len(s)
BY SubarrayIs DEF WithoutDate

\* removeAll(where:) keeps every dream of another date.
LEMMA WithoutDateKeeps ==
    ASSUME NEW s \in Seq(Dream), NEW date, NEW t \in WithoutDate(s, date),
           NEW x \in Range(s), x.writedDate # date
    PROVE  x \in Range(t)
<1> DEFINE I == {i \in DOMAIN s : s[i].writedDate # date}
<1>1. t \in Subarrays(s, I) /\ I \in SUBSET DOMAIN s
  BY DEF WithoutDate
<1>2. PICK j \in DOMAIN s : s[j] = x
  BY DEF Range
<1>3. j \in I
  BY <1>2
<1> HIDE DEF I
<1> QED
  BY <1>1, <1>2, <1>3, SubarrayAll
=============================================================================
