------------------------ MODULE VolumeGeometryProofs ------------------------
(***************************************************************************)
(* Facts about block arithmetic, about the least and the last of a set of  *)
(* numbers, and about sorting, that the proofs of the other modules cite.  *)
(***************************************************************************)
EXTENDS VolumeGeometry, FiniteSetsExt, Functions, FiniteSetTheorems, FunctionTheorems,
        WellFoundedInduction, TLAPS

\* A multiple of a larger number is larger (the prover has no such fact).
LEMMA MultipleMonotone ==
  ASSUME NEW x \in Nat, NEW y \in Nat, x <= y
  PROVE  x * BlockSize <= y * BlockSize
<1>1. PICK d \in Nat : y = x + d
  BY y = x + (y - x)
<1>2. BlockSize \in Nat
  BY GeometryAssumption
<1>3. d * BlockSize \in Nat
  BY <1>2
<1>4. y * BlockSize = x * BlockSize + d * BlockSize
  BY <1>1, <1>2
<1>5. QED
  BY <1>2, <1>3, <1>4

\* The block that holds off starts at or before it and ends after it.
LEMMA BlockBaseHolds ==
  ASSUME NEW off \in Nat
  PROVE  /\ off \div BlockSize \in Nat
         /\ BlockBase(off) \in Nat
         /\ BlockBase(off) <= off
         /\ off < BlockBase(off) + BlockSize
  BY GeometryAssumption DEF BlockBase

\* No other block holds off.
LEMMA BlockUnique ==
  ASSUME NEW off \in Nat, NEW q \in Nat,
         q * BlockSize <= off, off < q * BlockSize + BlockSize
  PROVE  off \div BlockSize = q
<1> DEFINE p == off \div BlockSize
<1>1. /\ p \in Nat
      /\ p * BlockSize <= off
      /\ off < p * BlockSize + BlockSize
  BY BlockBaseHolds DEF BlockBase
<1>2. BlockSize \in Nat
  BY GeometryAssumption
<1>3. ~(p < q)
  <2>1. SUFFICES ASSUME p < q PROVE FALSE
    OBVIOUS
  <2>2. (p + 1) * BlockSize <= q * BlockSize
    BY <1>1, <2>1, MultipleMonotone
  <2>3. (p + 1) * BlockSize = p * BlockSize + BlockSize
    BY <1>1, <1>2
  <2>4. QED
    BY <1>1, <1>2, <2>2, <2>3
<1>4. ~(q < p)
  <2>1. SUFFICES ASSUME q < p PROVE FALSE
    OBVIOUS
  <2>2. (q + 1) * BlockSize <= p * BlockSize
    BY <1>1, <2>1, MultipleMonotone
  <2>3. (q + 1) * BlockSize = q * BlockSize + BlockSize
    BY <1>2
  <2>4. QED
    BY <1>1, <1>2, <2>2, <2>3
<1>5. QED
  BY <1>1, <1>3, <1>4

\* Addresses of one block have one base.
LEMMA SameBlock ==
  ASSUME NEW off \in Nat, NEW a \in Nat,
         BlockBase(off) <= a, a < BlockBase(off) + BlockSize
  PROVE  BlockBase(a) = BlockBase(off)
<1>1. off \div BlockSize \in Nat
  BY BlockBaseHolds
<1>2. a \div BlockSize = off \div BlockSize
  BY <1>1, BlockUnique DEF BlockBase
<1>3. QED
  BY <1>2 DEF BlockBase

\* The last block of the u64 range is a whole one.
LEMMA BlockWithinU64 ==
  ASSUME NEW off \in Offsets
  PROVE  BlockBase(off) + BlockSize - 1 <= MaxU64
<1> DEFINE q == off \div BlockSize
           m == (MaxU64 + 1) \div BlockSize
<1>1. off \in Nat /\ MaxU64 \in Nat /\ BlockSize \in Nat /\ off <= MaxU64
  BY GeometryAssumption DEF Offsets
<1>2. /\ q \in Nat
      /\ q * BlockSize <= off
  BY <1>1, BlockBaseHolds DEF BlockBase
<1>3. m \in Nat /\ MaxU64 + 1 = m * BlockSize
  BY GeometryAssumption
<1>4. q < m
  <2>1. SUFFICES ASSUME m <= q PROVE FALSE
    BY <1>2, <1>3
  <2>2. m * BlockSize <= q * BlockSize
    BY <1>2, <1>3, <2>1, MultipleMonotone
  <2>3. QED
    BY <1>1, <1>2, <1>3, <2>2
<1>5. (q + 1) * BlockSize <= m * BlockSize
  BY <1>2, <1>3, <1>4, MultipleMonotone
<1>6. (q + 1) * BlockSize = q * BlockSize + BlockSize
  BY <1>1, <1>2
<1>7. QED
  BY <1>1, <1>2, <1>3, <1>5, <1>6 DEF BlockBase

\* The guard in front of a read says that the whole block is in the volume.
LEMMA BlockInRangeMeaning ==
  ASSUME NEW off \in Int
  PROVE  BlockInRange(off) <=> off + BlockSize <= VolumeSize
  BY GeometryAssumption DEF BlockInRange

\* A nonempty set of naturals has a least element.
LEMMA LeastExists ==
  ASSUME NEW T, T \subseteq Nat, T # {}
  PROVE  \E x \in T : \A y \in T : x <= y
<1>1. IsWellFoundedOn(OpToRel(<, Nat), Nat)
  BY NatLessThanWellFounded
<1>2. PICK x \in T : \A y \in T : <<y, x>> \notin OpToRel(<, Nat)
  BY <1>1, WFMin, Zenon
<1>3. \A y \in T : ~(y < x)
  BY <1>2 DEF OpToRel
<1>4. QED
  BY <1>3

\* A nonempty set of indices has a last one, and Max names it.
LEMMA LastExists ==
  ASSUME NEW n \in Nat, NEW S, S \subseteq 1 .. n, S # {}
  PROVE  Max(S) \in S /\ \A y \in S : Max(S) >= y
<1> DEFINE T == {n - i : i \in S}
<1>1. T \subseteq Nat /\ T # {}
  OBVIOUS
<1>2. PICK x \in T : \A y \in T : x <= y
  BY <1>1, LeastExists
<1>3. PICK m \in S : x = n - m
  BY <1>2
<1>4. \A y \in S : m >= y
  <2>1. TAKE y \in S
  <2>2. n - m <= n - y
    BY <1>2, <1>3
  <2>3. m \in Int /\ y \in Int
    OBVIOUS
  <2>4. QED
    BY <2>2, <2>3
<1>5. \E z \in S : \A y \in S : z >= y
  BY <1>4
<1>6. QED
  BY <1>5 DEF Max

\* There is only one.
LEMMA LastIs ==
  ASSUME NEW n \in Nat, NEW S, S \subseteq 1 .. n, NEW m \in S, \A y \in S : m >= y
  PROVE  Max(S) = m
<1>1. Max(S) \in S /\ Max(S) >= m
  BY LastExists
<1>2. m >= Max(S)
  BY <1>1
<1>3. m \in 1 .. n
  OBVIOUS
<1>4. Max(S) \in 1 .. n
  BY <1>1
<1>5. QED
  BY <1>1, <1>2, <1>3, <1>4

-----------------------------------------------------------------------------
(* Sorting.                                                                *)

\* The k-th number comes before the l-th when numbers are sorted and equal ones
\* keep their order.
Precedes(ns, k, l) == ns[k] < ns[l] \/ (ns[k] = ns[l] /\ k < l)

\* Numbers can be sorted so: by how many come before each.
LEMMA OrderExists ==
  ASSUME NEW n \in Nat, NEW ns \in [1 .. n -> Nat]
  PROVE  \E p \in Bijection(1 .. n, 1 .. n) :
           \A i, j \in 1 .. n : i < j => Precedes(ns, p[i], p[j])
<1> DEFINE places    == 1 .. n
           before(k) == {j \in places : ns[j] < ns[k] \/ (ns[j] = ns[k] /\ j < k)}
           rank      == [k \in places |-> Cardinality(before(k)) + 1]
           p         == Inverse(rank, places, places)
<1>1. IsFiniteSet(places) /\ Cardinality(places) = n
  BY FS_Interval
<1>2. ASSUME NEW k \in places
      PROVE  IsFiniteSet(before(k)) /\ Cardinality(before(k)) \in 0 .. n - 1
  <2>1. before(k) \in SUBSET (places \ {k})
    OBVIOUS
  <2>2. IsFiniteSet(places \ {k}) /\ Cardinality(places \ {k}) = n - 1
    BY <1>1, FS_RemoveElement
  <2> HIDE DEF before, places
  <2>3. IsFiniteSet(before(k)) /\ Cardinality(before(k)) <= n - 1
    BY <2>1, <2>2, FS_Subset
  <2>4. QED
    BY <2>3, FS_CardinalityType
<1>3. ASSUME NEW k \in places, NEW l \in places, k \in before(l)
      PROVE  Cardinality(before(k)) < Cardinality(before(l))
  <2>1. before(k) \in SUBSET before(l) /\ k \notin before(k)
    BY <1>3
  <2> HIDE DEF before, places
  <2>2. /\ Cardinality(before(k)) <= Cardinality(before(l))
        /\ Cardinality(before(k)) # Cardinality(before(l))
    BY <1>2, <1>3, <2>1, FS_Subset
  <2>3. QED
    BY <1>2, <2>2
<1>4. \A k, l \in places : k = l \/ k \in before(l) \/ l \in before(k)
  OBVIOUS
<1> HIDE DEF before
<1>5. rank \in [places -> places]
  BY <1>2
<1>6. \A k, l \in places : rank[k] = rank[l] => k = l
  <2> SUFFICES ASSUME NEW k \in places, NEW l \in places, k # l
               PROVE  rank[k] # rank[l]
    OBVIOUS
  <2>1. Cardinality(before(k)) # Cardinality(before(l))
    <3>1. Cardinality(before(k)) \in Nat /\ Cardinality(before(l)) \in Nat
      BY <1>2
    <3>2. CASE k \in before(l)
      BY <1>3, <3>1, <3>2
    <3>3. CASE l \in before(k)
      BY <1>3, <3>1, <3>3
    <3>4. QED
      BY <1>4, <3>2, <3>3
  <2>2. QED
    BY <1>2, <2>1
<1> HIDE DEF rank, p, places
<1>7. rank \in Bijection(places, places)
  <2>1. rank \in Injection(places, places)
    BY <1>5, <1>6 DEF Injection, IsInjective
  <2>2. rank \in Surjection(places, places)
    BY <1>1, <2>1, FS_Injection
  <2>3. QED
    BY <2>1, <2>2 DEF Bijection
<1>8. p \in Bijection(places, places) /\ \A k \in places : p[rank[k]] = k
  BY <1>7, Fun_BijInverse DEF p
<1>9. \A i \in places : p[i] \in places /\ rank[p[i]] = i
  BY <1>7, <1>8, Fun_BijectionProperties
<1>10. ASSUME NEW i \in places, NEW j \in places, i < j
       PROVE  Precedes(ns, p[i], p[j])
  <2>1. PICK k \in places, l \in places : k = p[i] /\ l = p[j] /\ rank[k] = i /\ rank[l] = j
    BY <1>9
  <2>2. l \notin before(k)
    <3>1. CASE l \in before(k)
      <4>1. Cardinality(before(l)) < Cardinality(before(k))
        BY <1>3, <3>1
      <4>2. rank[l] < rank[k]
        BY <1>2, <4>1 DEF rank
      <4>3. QED
        BY <1>10, <2>1, <4>2 DEF places
    <3>2. QED
      BY <3>1
  <2>3. k # l
    BY <1>10, <2>1 DEF places
  <2>4. ns[k] \in Nat /\ ns[l] \in Nat /\ k \in Nat /\ l \in Nat
    BY DEF places
  <2>5. QED
    BY <2>1, <2>2, <2>3, <2>4 DEF before, places, Precedes
<1>11. QED
  BY <1>8, <1>10 DEF places
=============================================================================
