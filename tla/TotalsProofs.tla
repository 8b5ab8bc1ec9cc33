---------------------------- MODULE TotalsProofs ----------------------------
(***************************************************************************)
(* What a total is for every finite set of keys: a number that adds up     *)
(* over disjoint sets and grows with what the keys have.                   *)
(***************************************************************************)
EXTENDS Totals, FiniteSetTheorems, TLAPS

LEMMA UnitsFinite ==
    ASSUME NEW keys, IsFiniteSet(keys), NEW f, \A k \in keys : f[k] \in Nat
    PROVE  IsFiniteSet(Units(f, keys))
<1> DEFINE of(k) == {k} \X (1..f[k])
           family == {of(k) : k \in keys}
           each == [k \in keys |-> of(k)]
<1>1. each \in Surjection(keys, family)
  BY DEF Surjection
<1>2. IsFiniteSet(family)
  BY <1>1, FS_Surjection
<1>3. ASSUME NEW k \in keys PROVE IsFiniteSet(of(k))
  <2>1. IsFiniteSet({k})
    BY FS_Singleton
  <2>2. IsFiniteSet(1..f[k])
    BY FS_Interval
  <2>3. QED
    BY <2>1, <2>2, FS_Product
<1>4. \A s \in family : IsFiniteSet(s)
  BY <1>3
<1>5. QED
  BY <1>2, <1>4, FS_UNION DEF Units

\* A total is a number.
LEMMA TotalType ==
    ASSUME NEW keys, IsFiniteSet(keys), NEW f, \A k \in keys : f[k] \in Nat
    PROVE  Total(f, keys) \in Nat
BY UnitsFinite, FS_CardinalityType DEF Total

\* Only what the keys have counts.
LEMMA TotalSame ==
    ASSUME NEW keys, NEW f, NEW g, \A k \in keys : f[k] = g[k]
    PROVE  Total(f, keys) = Total(g, keys)
<1>1. Units(f, keys) = Units(g, keys)
  BY DEF Units
<1>2. QED
  BY <1>1 DEF Total

LEMMA TotalZero ==
    ASSUME NEW keys, NEW f, \A k \in keys : f[k] = 0
    PROVE  Total(f, keys) = 0
<1>1. Units(f, keys) = {}
  BY DEF Units
<1>2. QED
  BY <1>1, FS_EmptySet DEF Total

\* Totals of disjoint sets add up.
LEMMA TotalUnion ==
    ASSUME NEW some, IsFiniteSet(some), NEW others, IsFiniteSet(others), some \cap others = {},
           NEW f, \A k \in some \cup others : f[k] \in Nat
    PROVE  Total(f, some \cup others) = Total(f, some) + Total(f, others)
<1>1. Units(f, some \cup others) = Units(f, some) \cup Units(f, others)
  BY DEF Units
<1>2. Units(f, some) \cap Units(f, others) = {}
  BY DEF Units
<1>3. IsFiniteSet(Units(f, some)) /\ IsFiniteSet(Units(f, others))
  BY UnitsFinite
<1>4. Cardinality(Units(f, some)) \in Nat /\ Cardinality(Units(f, others)) \in Nat
  BY <1>3, FS_CardinalityType
<1>5. Cardinality(Units(f, some) \cup Units(f, others))
        = Cardinality(Units(f, some)) + Cardinality(Units(f, others)) - Cardinality({})
  BY <1>2, <1>3, FS_Union
<1>6. QED
  BY <1>1, <1>4, <1>5, FS_EmptySet DEF Total

\* A total grows with what the keys have, and with the keys.
LEMMA TotalMonotone ==
    ASSUME NEW keys, IsFiniteSet(keys), NEW some \in SUBSET keys, NEW f, NEW g,
           \A k \in keys : g[k] \in Nat,
           \A k \in some : f[k] \in Nat /\ f[k] <= g[k]
    PROVE  Total(f, some) <= Total(g, keys)
<1>1. \A k \in some : 1..f[k] \subseteq 1..g[k]
  OBVIOUS
<1>2. Units(f, some) \subseteq Units(g, keys)
  BY <1>1 DEF Units
<1>3. IsFiniteSet(Units(g, keys))
  BY UnitsFinite
<1>4. QED
  BY <1>2, <1>3, FS_Subset DEF Total

\* What one key has is no more than the total.
LEMMA TotalCovers ==
    ASSUME NEW keys, IsFiniteSet(keys), NEW f, \A k \in keys : f[k] \in Nat, NEW k \in keys
    PROVE  f[k] <= Total(f, keys)
<1>1. {k} \X (1..f[k]) \subseteq Units(f, keys)
  BY DEF Units
<1>2. IsFiniteSet({k}) /\ Cardinality({k}) = 1
  BY FS_Singleton
<1>3. IsFiniteSet(1..f[k]) /\ Cardinality(1..f[k]) = f[k]
  <2>1. f[k] \in Nat /\ 1 \in Int
    OBVIOUS
  <2>2. IsFiniteSet(1..f[k]) /\ Cardinality(1..f[k]) = IF 1 > f[k] THEN 0 ELSE f[k] - 1 + 1
    BY <2>1, FS_Interval
  <2>3. QED
    BY <2>1, <2>2
<1>4. Cardinality({k} \X (1..f[k])) = 1 * f[k]
  BY <1>2, <1>3, FS_Product
<1>5. Cardinality({k} \X (1..f[k])) <= Cardinality(Units(f, keys))
  BY <1>1, UnitsFinite, FS_Subset
<1>6. QED
  BY <1>4, <1>5 DEF Total

-----------------------------------------------------------------------------
(* Least and greatest numbers                                              *)

LEMMA LeastExists ==
    ASSUME NEW numbers \in SUBSET Nat, numbers # {}
    PROVE  \E n \in numbers : \A m \in numbers : n <= m
<1> DEFINE less == OpToRel(<, Nat)
<1>1. \A n, m \in Nat : <<n, m>> \in less <=> n < m
  BY DEF OpToRel
<1>2. IsWellFoundedOn(less, Nat)
  BY NatLessThanWellFounded
<1> HIDE DEF less
<1>3. PICK n \in numbers : \A m \in numbers : ~(<<m, n>> \in less)
  BY <1>2, WFMin
<1>4. ASSUME NEW m \in numbers PROVE n <= m
  <2>1. n \in Nat /\ m \in Nat /\ ~(m < n)
    BY <1>1, <1>3
  <2>2. QED
    BY <2>1
<1>5. QED
  BY <1>4

\* The total of a finite set bounds it, so the distances to it have a least.
LEMMA GreatestExists ==
    ASSUME NEW numbers \in SUBSET Nat, IsFiniteSet(numbers), numbers # {}
    PROVE  \E n \in numbers : \A m \in numbers : m <= n
<1> DEFINE bound == Total([n \in numbers |-> n], numbers)
           distances == {bound - n : n \in numbers}
<1>1. bound \in Nat /\ \A n \in numbers : n <= bound
  <2>1. \A n \in numbers : [m \in numbers |-> m][n] \in Nat
    OBVIOUS
  <2>2. QED
    BY <2>1, TotalType, TotalCovers
<1> HIDE DEF bound
<1>2. distances \in SUBSET Nat /\ distances # {}
  <2>1. ASSUME NEW n \in numbers PROVE bound - n \in Nat
    BY <1>1, <2>1
  <2>2. \A d \in distances : d \in Nat
    BY <2>1
  <2>3. PICK n \in numbers : TRUE
    OBVIOUS
  <2>4. bound - n \in distances
    BY <2>3
  <2> HIDE DEF distances
  <2>5. QED
    BY <2>2, <2>4
<1>3. PICK d \in distances : \A e \in distances : d <= e
  BY <1>2, LeastExists
<1>4. PICK n \in numbers : d = bound - n
  OBVIOUS
<1>5. ASSUME NEW m \in numbers PROVE m <= n
  <2>1. bound - n <= bound - m /\ n \in Nat /\ m \in Nat
    BY <1>3, <1>4
  <2>2. QED
    BY <1>1, <2>1
<1>6. QED
  BY <1>5
=============================================================================
