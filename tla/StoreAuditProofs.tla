-------------------------- MODULE StoreAuditProofs --------------------------
(***************************************************************************)
(* What the auditor reports, proved for every volume, every number of      *)
(* stores and every behaviour of the device.                               *)
(***************************************************************************)
EXTENDS StoreAudit, VolumeGeometryProofs

-----------------------------------------------------------------------------
(* The order of the sequence numbers.                                      *)

\* Sorting keeps the numbers and puts them in order.
LEMMA SortedHolds ==
  ASSUME NEW n \in Nat, NEW ns \in [1 .. n -> Nat]
  PROVE  /\ Sorted(ns) \in [1 .. n -> Nat]
         /\ \A i, j \in 1 .. n : i < j => Sorted(ns)[i] <= Sorted(ns)[j]
         /\ \A i \in 1 .. n : \E k \in 1 .. n : Sorted(ns)[i] = ns[k]
         /\ \A k \in 1 .. n : \E i \in 1 .. n : Sorted(ns)[i] = ns[k]
<1> DEFINE Ordered(p) == \A i, j \in 1 .. n : i < j => ns[p[i]] <= ns[p[j]]
           order == CHOOSE p \in Bijection(1 .. n, 1 .. n) : Ordered(p)
<1>1. order \in Bijection(1 .. n, 1 .. n) /\ Ordered(order)
  <2>1. \E p \in Bijection(1 .. n, 1 .. n) : Ordered(p)
    <3>1. PICK p \in Bijection(1 .. n, 1 .. n) : \A i, j \in 1 .. n : i < j => Precedes(ns, p[i], p[j])
      BY OrderExists
    <3>2. p \in [1 .. n -> 1 .. n]
      BY <3>1 DEF Bijection, Injection
    <3>3. \A i \in 1 .. n : p[i] \in 1 .. n /\ ns[p[i]] \in Nat
      BY <3>2
    <3>4. QED
      BY <3>1, <3>3 DEF Precedes
  <2> HIDE DEF Ordered
  <2>2. QED
    BY <2>1
<1>2. DOMAIN ns = 1 .. n
  OBVIOUS
<1>3. Sorted(ns) = [i \in 1 .. n |-> ns[order[i]]]
  BY <1>2 DEF Sorted
<1> HIDE DEF order
<1>4. order \in [1 .. n -> 1 .. n] /\ \A k \in 1 .. n : \E i \in 1 .. n : order[i] = k
  <2> DEFINE places == 1 .. n
  <2>1. order \in Bijection(places, places)
    BY <1>1
  <2> HIDE DEF places
  <2>2. order \in [places -> places] /\ \A k \in places : \E i \in places : order[i] = k
    BY <2>1, Fun_BijectionProperties
  <2>3. QED
    BY <2>2 DEF places
<1>5. \A i, j \in 1 .. n : i < j => Sorted(ns)[i] <= Sorted(ns)[j]
  BY <1>1, <1>3
<1>6. Sorted(ns) \in [1 .. n -> Nat]
  BY <1>3, <1>4
<1>7. \A i \in 1 .. n : Sorted(ns)[i] = ns[order[i]] /\ order[i] \in 1 .. n
  BY <1>3, <1>4
<1>8. QED
  BY <1>4, <1>5, <1>6, <1>7

-----------------------------------------------------------------------------
(* The gaps.                                                               *)

\* A number that is not in an ascending sequence but between two of its elements
\* is between one pair of neighbours, and no other.
LEMMA BetweenNeighbours ==
  ASSUME NEW m \in Nat, NEW s \in [1 .. m -> Nat],
         \A i, j \in 1 .. m : i < j => s[i] <= s[j],
         NEW x \in Nat, \A i \in 1 .. m : s[i] # x,
         \E i \in 1 .. m : s[i] < x, \E i \in 1 .. m : x < s[i]
  PROVE  \E k \in 1 .. m - 1 :
           /\ s[k] < x /\ x < s[k + 1]
           /\ \A j \in 1 .. m - 1 : s[j] < x /\ x < s[j + 1] => j = k
<1> DEFINE below == {i \in 1 .. m : s[i] < x}
           k == Max(below)
<1>1. below \subseteq 1 .. m /\ below # {}
  OBVIOUS
<1>2. k \in below /\ \A i \in below : k >= i
  BY <1>1, LastExists
<1>3. k \in 1 .. m /\ s[k] < x /\ \A i \in 1 .. m : s[i] < x => i <= k
  BY <1>2
<1> HIDE DEF k, below
<1>4. PICK l \in 1 .. m : x < s[l]
  OBVIOUS
<1>5. k < l
  <2>1. s[k] \in Nat /\ s[l] \in Nat
    BY <1>3
  <2>2. CASE l < k
    <3>1. s[l] <= s[k]
      BY <1>3, <2>2
    <3>2. QED
      BY <1>3, <1>4, <2>1, <3>1
  <2>3. CASE l = k
    BY <1>3, <1>4, <2>1, <2>3
  <2>4. QED
    BY <1>3, <2>2, <2>3
<1>6. k \in 1 .. m - 1 /\ k + 1 \in 1 .. m
  BY <1>3, <1>5
<1>7. x < s[k + 1]
  <2>1. s[k + 1] \in Nat /\ s[k + 1] # x /\ ~(k + 1 <= k)
    BY <1>6
  <2>2. ~(s[k + 1] < x)
    BY <1>3, <1>6, <2>1
  <2>3. QED
    BY <2>1, <2>2
<1>8. ASSUME NEW j \in 1 .. m - 1, s[j] < x, x < s[j + 1]
      PROVE  j = k
  <2>1. j \in 1 .. m /\ j + 1 \in 1 .. m /\ j <= k
    BY <1>3, <1>8
  <2>2. CASE j < k
    <3>1. s[j + 1] <= s[k]
      <4>1. CASE j + 1 = k
        BY <1>3, <4>1
      <4>2. CASE j + 1 < k
        BY <1>3, <2>1, <4>2
      <4>3. QED
        BY <1>3, <2>1, <2>2, <4>1, <4>2
    <3>2. s[j + 1] \in Nat /\ s[k] \in Nat
      BY <1>3, <2>1
    <3>3. QED
      BY <1>3, <1>8, <3>1, <3>2
  <2>3. QED
    BY <1>3, <2>1, <2>2
<1>9. QED
  BY <1>3, <1>6, <1>7, <1>8

\* And a number between two neighbours is not in the sequence.
LEMMA NeighboursHaveNone ==
  ASSUME NEW m \in Nat, NEW s \in [1 .. m -> Nat],
         \A i, j \in 1 .. m : i < j => s[i] <= s[j],
         NEW k \in 1 .. m - 1, NEW x \in Nat, s[k] < x, x < s[k + 1], NEW i \in 1 .. m
  PROVE  s[i] # x
<1>1. k \in 1 .. m /\ k + 1 \in 1 .. m /\ s[k] \in Nat /\ s[k + 1] \in Nat /\ s[i] \in Nat
  OBVIOUS
<1>2. CASE i = k \/ i = k + 1
  BY <1>1, <1>2
<1>3. CASE i < k
  <2>1. s[i] <= s[k]
    BY <1>1, <1>3
  <2>2. QED
    BY <1>1, <2>1
<1>4. CASE k + 1 < i
  <2>1. s[k + 1] <= s[i]
    BY <1>1, <1>4
  <2>2. QED
    BY <1>1, <2>1
<1>5. QED
  BY <1>2, <1>3, <1>4

\* What the gaps are made of.
LEMMA GapsHold ==
  ASSUME IsImage(image)
  PROVE  \E m \in Nat : \E s \in [1 .. m -> Offsets] :
           /\ \A i, j \in 1 .. m : i < j => s[i] <= s[j]
           /\ Numbers = {s[i] : i \in 1 .. m}
           /\ Gaps = {Gap(s[k], s[k + 1]) : k \in {j \in 1 .. m - 1 : s[j + 1] > SatAdd(s[j], 1)}}
<1> DEFINE m == Len(Stores)
           ns == [k \in DOMAIN Stores |-> Stores[k].sequence]
           s == Sorted(ns)
<1>1. Stores \in Seq(StoreDescriptor) /\ m \in Nat /\ DOMAIN Stores = 1 .. m
  BY DEF IsImage, Stores
<1>2. \A k \in 1 .. m : Stores[k].sequence \in Offsets
  <2>1. \A k \in 1 .. m : Stores[k] \in StoreDescriptor
    BY <1>1
  <2>2. QED
    BY <2>1 DEF StoreDescriptor
<1>3. Offsets \subseteq Nat
  BY GeometryAssumption DEF Offsets
<1>4. ns \in [1 .. m -> Nat] /\ \A k \in 1 .. m : ns[k] = Stores[k].sequence
  BY <1>1, <1>2, <1>3
<1>5. Numbers = {ns[k] : k \in 1 .. m}
  BY <1>1, <1>4 DEF Numbers
<1> HIDE DEF m, ns
<1>6. /\ s \in [1 .. m -> Nat]
      /\ \A i, j \in 1 .. m : i < j => s[i] <= s[j]
      /\ \A i \in 1 .. m : \E k \in 1 .. m : s[i] = ns[k]
      /\ \A k \in 1 .. m : \E i \in 1 .. m : s[i] = ns[k]
  BY <1>1, <1>4, SortedHolds
<1> HIDE DEF s
<1>7. s \in [1 .. m -> Offsets]
  <2>1. \A i \in 1 .. m : s[i] \in Offsets
    BY <1>2, <1>4, <1>6
  <2>2. QED
    BY <1>6, <2>1
<1>8. Numbers = {s[i] : i \in 1 .. m}
  <2>1. \A x : x \in {ns[k] : k \in 1 .. m} <=> \E k \in 1 .. m : x = ns[k]
    OBVIOUS
  <2>2. \A x : x \in {s[i] : i \in 1 .. m} <=> \E i \in 1 .. m : x = s[i]
    OBVIOUS
  <2>3. \A x : x \in Numbers <=> x \in {s[i] : i \in 1 .. m}
    <3>1. TAKE x
    <3>2. (\E k \in 1 .. m : x = ns[k]) <=> \E i \in 1 .. m : x = s[i]
      BY <1>6
    <3>3. QED
      BY <1>5, <2>1, <2>2, <3>2
  <2>4. QED
    BY <2>3
<1>9. Len(s) = m
  BY <1>1, <1>6
<1>10. Gaps = {Gap(s[k], s[k + 1]) : k \in {j \in 1 .. m - 1 : s[j + 1] > SatAdd(s[j], 1)}}
  <2>1. Gaps = {Gap(s[k], s[k + 1]) : k \in {j \in 1 .. Len(s) - 1 : s[j + 1] > SatAdd(s[j], 1)}}
    BY DEF Gaps, s, ns
  <2>2. QED
    BY <1>9, <2>1
<1>11. QED
  BY <1>1, <1>6, <1>7, <1>8, <1>10

\* The next number of one that is not the last: the addition does not saturate.
LEMMA NextNumber ==
  ASSUME NEW x \in Offsets, NEW y \in Offsets
  PROVE  /\ x \in Nat /\ y \in Nat
         /\ y > SatAdd(x, 1) <=> x + 1 < y
         /\ x < y => x + 1 \in Offsets
  BY GeometryAssumption DEF Offsets, SatAdd

\* The gaps are the runs of missing numbers.
LEMMA GapsMean ==
  ASSUME IsImage(image)
  PROVE  /\ \A g \in Gaps : /\ g = Gap(g.previous, g.next)
                            /\ g.previous \in Offsets /\ g.next \in Offsets
         /\ \A x \in Offsets :
              LET around == {g \in Gaps : g.previous < x /\ x < g.next}
              IN  /\ Missing(x) => \E g : around = {g}
                  /\ around # {} => Missing(x)
         /\ \A g \in Gaps : \E x \in Offsets : Missing(x)
<1>1. PICK m \in Nat : \E s \in [1 .. m -> Offsets] :
           /\ \A i, j \in 1 .. m : i < j => s[i] <= s[j]
           /\ Numbers = {s[i] : i \in 1 .. m}
           /\ Gaps = {Gap(s[k], s[k + 1]) : k \in {j \in 1 .. m - 1 : s[j + 1] > SatAdd(s[j], 1)}}
  BY GapsHold
<1>2. PICK s \in [1 .. m -> Offsets] :
           /\ \A i, j \in 1 .. m : i < j => s[i] <= s[j]
           /\ Numbers = {s[i] : i \in 1 .. m}
           /\ Gaps = {Gap(s[k], s[k + 1]) : k \in {j \in 1 .. m - 1 : s[j + 1] > SatAdd(s[j], 1)}}
  BY <1>1
<1>3. /\ Offsets \subseteq Nat
      /\ \A k \in 1 .. m - 1 : /\ k \in 1 .. m /\ k + 1 \in 1 .. m
                              /\ s[k] \in Offsets /\ s[k + 1] \in Offsets
      /\ s \in [1 .. m -> Nat]
  <2>1. Offsets \subseteq Nat
    BY GeometryAssumption DEF Offsets
  <2>2. \A k \in 1 .. m - 1 : k \in 1 .. m /\ k + 1 \in 1 .. m
    OBVIOUS
  <2>3. QED
    BY <2>1, <2>2
<1>4. ASSUME NEW g \in Gaps
      PROVE  \E k \in 1 .. m - 1 : g = Gap(s[k], s[k + 1]) /\ s[k] + 1 < s[k + 1]
  <2>1. PICK k \in {j \in 1 .. m - 1 : s[j + 1] > SatAdd(s[j], 1)} : g = Gap(s[k], s[k + 1])
    BY <1>2
  <2>2. QED
    BY <1>3, <2>1, NextNumber
<1>5. \A x, y : Gap(x, y).previous = x /\ Gap(x, y).next = y
  BY DEF Gap
<1>6. ASSUME NEW g \in Gaps
      PROVE  /\ g = Gap(g.previous, g.next)
             /\ g.previous \in Offsets /\ g.next \in Offsets
  <2>1. PICK k \in 1 .. m - 1 : g = Gap(s[k], s[k + 1])
    BY <1>4
  <2>2. g.previous = s[k] /\ g.next = s[k + 1]
    BY <1>5, <2>1
  <2>3. QED
    BY <1>3, <2>1, <2>2
<1>7. ASSUME NEW g \in Gaps, NEW x \in Offsets, g.previous < x, x < g.next
      PROVE  Missing(x)
  <2>1. PICK k \in 1 .. m - 1 : g = Gap(s[k], s[k + 1])
    BY <1>4
  <2>2. s[k] < x /\ x < s[k + 1] /\ x \in Nat
    BY <1>3, <1>5, <1>7, <2>1
  <2>3. \A i \in 1 .. m : s[i] # x
    BY <1>2, <1>3, <2>2, NeighboursHaveNone
  <2>4. s[k] \in Numbers /\ s[k + 1] \in Numbers /\ x \notin Numbers
    BY <1>2, <1>3, <2>3
  <2>5. QED
    BY <2>2, <2>4 DEF Missing
<1>8. ASSUME NEW x \in Offsets, Missing(x)
      PROVE  \E g : {h \in Gaps : h.previous < x /\ x < h.next} = {g}
  <2>1. /\ x \in Nat /\ \A i \in 1 .. m : s[i] # x
        /\ \E i \in 1 .. m : s[i] < x
        /\ \E i \in 1 .. m : x < s[i]
    BY <1>2, <1>3, <1>8 DEF Missing
  <2>2. PICK k \in 1 .. m - 1 :
           /\ s[k] < x /\ x < s[k + 1]
           /\ \A j \in 1 .. m - 1 : s[j] < x /\ x < s[j + 1] => j = k
    BY <1>2, <1>3, <2>1, BetweenNeighbours
  <2>3. s[k] + 1 < s[k + 1]
    BY <1>3, <2>1, <2>2
  <2>4. Gap(s[k], s[k + 1]) \in Gaps
    <3>1. s[k + 1] > SatAdd(s[k], 1)
      BY <1>3, <2>3, NextNumber
    <3>2. QED
      BY <1>2, <3>1
  <2>5. ASSUME NEW h \in Gaps, h.previous < x, x < h.next
        PROVE  h = Gap(s[k], s[k + 1])
    <3>1. PICK j \in 1 .. m - 1 : h = Gap(s[j], s[j + 1])
      BY <1>4
    <3>2. s[j] < x /\ x < s[j + 1]
      BY <1>5, <2>5, <3>1
    <3>3. QED
      BY <2>2, <3>1, <3>2
  <2>6. PICK g : g = Gap(s[k], s[k + 1])
    OBVIOUS
  <2>7. g \in Gaps /\ g.previous < x /\ x < g.next
    BY <1>5, <2>2, <2>4, <2>6
  <2>8. {h \in Gaps : h.previous < x /\ x < h.next} = {g}
    BY <2>5, <2>6, <2>7
  <2>9. QED
    BY <2>8
<1>9. ASSUME NEW g \in Gaps
      PROVE  \E x \in Offsets : Missing(x)
  <2>1. PICK k \in 1 .. m - 1 : g = Gap(s[k], s[k + 1]) /\ s[k] + 1 < s[k + 1]
    BY <1>4
  <2>2. /\ s[k] + 1 \in Offsets
        /\ s[k] < s[k] + 1
    BY <1>3, <2>1, NextNumber
  <2>3. g.previous < s[k] + 1 /\ s[k] + 1 < g.next
    BY <1>5, <2>1, <2>2
  <2>4. QED
    BY <1>7, <2>2, <2>3
<1>10. QED
  BY <1>6, <1>7, <1>8, <1>9

-----------------------------------------------------------------------------
(* Information that is cut short.                                          *)

\* A part of a beginning is that part of the whole.
LEMMA PartOfPrefix ==
  ASSUME NEW cells \in Seq(Nat), NEW len \in 0 .. Len(cells),
         NEW at \in Nat, NEW n \in Nat, at + n <= len
  PROVE  /\ Len(SubSeq(cells, 1, len)) = len
         /\ SubSeq(SubSeq(cells, 1, len), at + 1, at + n) = SubSeq(cells, at + 1, at + n)
<1> DEFINE prefix == SubSeq(cells, 1, len)
<1>1. Len(cells) \in Nat /\ len \in Nat /\ len <= Len(cells)
  OBVIOUS
<1>2. Len(prefix) = len /\ \A i \in 1 .. len : prefix[i] = cells[i]
  BY <1>1
<1>3. SubSeq(cells, at + 1, at + n) = [i \in 1 .. n |-> cells[i + at]]
  BY <1>1
<1>4. prefix \in Seq(Nat)
  BY <1>1
<1> HIDE DEF prefix
<1>5. SubSeq(prefix, at + 1, at + n) = [i \in 1 .. n |-> prefix[i + at]]
  BY <1>1, <1>2, <1>4
<1>6. \A i \in 1 .. n : i + at \in 1 .. len
  BY <1>1
<1>7. SubSeq(prefix, at + 1, at + n) = SubSeq(cells, at + 1, at + n)
  BY <1>2, <1>3, <1>5, <1>6
<1>8. QED
  BY <1>2, <1>7 DEF prefix

\* What is read of a beginning: a field or a name is that of the whole, or absent.
LEMMA PartsOfPrefix ==
  ASSUME NEW cells \in Seq(Nat), NEW len \in 0 .. Len(cells), NEW at \in Nat, NEW n \in Nat
  PROVE  /\ Field(SubSeq(cells, 1, len), at, n) =
              IF at + n <= len THEN Field(cells, at, n) ELSE [k \in 1 .. n |-> 0]
         /\ Text(SubSeq(cells, 1, len), at, n) =
              IF at + n <= len THEN Text(cells, at, n) ELSE << >>
<1>1. Len(cells) \in Nat /\ len \in Nat /\ len <= Len(cells)
  OBVIOUS
<1>2. Len(SubSeq(cells, 1, len)) = len
  BY <1>1
<1>3. CASE at + n <= len
  <2>1. at + n <= Len(cells)
    BY <1>1, <1>3
  <2>2. SubSeq(SubSeq(cells, 1, len), at + 1, at + n) = SubSeq(cells, at + 1, at + n)
    BY <1>3, PartOfPrefix
  <2>3. QED
    BY <1>2, <1>3, <2>1, <2>2 DEF Field, Text
<1>4. CASE ~(at + n <= len)
  BY <1>2, <1>4 DEF Field, Text
<1>5. QED
  BY <1>3, <1>4

\* A field has its length, and is zero when there is nothing to read.
LEMMA FieldType ==
  ASSUME NEW buf \in Seq(Nat), NEW at \in Nat, NEW n \in Nat
  PROVE  /\ Field(buf, at, n) \in [1 .. n -> Nat]
         /\ Field(<< >>, at, n) = [k \in 1 .. n |-> 0]
<1>1. Field(buf, at, n) \in [1 .. n -> Nat]
  <2>1. Len(buf) \in Nat
    OBVIOUS
  <2>2. CASE at + n <= Len(buf)
    <3>1. SubSeq(buf, at + 1, at + n) = [k \in 1 .. n |-> buf[k + at]]
      BY <2>1
    <3>2. \A k \in 1 .. n : k + at \in 1 .. Len(buf)
      BY <2>1, <2>2
    <3>3. \A k \in 1 .. n : buf[k + at] \in Nat
      BY <3>2
    <3>4. QED
      BY <2>2, <3>1, <3>3 DEF Field
  <2>3. CASE ~(at + n <= Len(buf))
    BY <2>3 DEF Field
  <2>4. QED
    BY <2>2, <2>3
<1>2. Field(<< >>, at, n) = [k \in 1 .. n |-> 0]
  <2>1. CASE at + n <= 0
    <3>1. at = 0 /\ n = 0
      BY <2>1
    <3>2. SubSeq(<< >>, 1, 0) = << >> /\ [k \in 1 .. 0 |-> 0] = << >>
      OBVIOUS
    <3>3. QED
      BY <3>1, <3>2 DEF Field
  <2>2. CASE ~(at + n <= 0)
    BY <2>2 DEF Field
  <2>3. QED
    BY <2>1, <2>2
<1>3. QED
  BY <1>1, <1>2

\* Cut short anywhere, store information is read field by field as it is or as if
\* it were not there; a name is not read at a place its length does not say.
LEMMA InformationCutShort ==
  ASSUME NEW cells \in Seq(Nat), NEW len \in 0 .. Len(cells)
  PROVE  LET cut == Parse(SubSeq(cells, 1, len))
         IN  /\ \A f \in DOMAIN cut : cut[f] \in {Parse(cells)[f], Parse(<< >>)[f]}
             /\ cut.attributes \in [1 .. AttributesLen -> Nat]
             /\ AttributesEnd <= len => cut.attributes = Parse(cells).attributes
<1> DEFINE prefix == SubSeq(cells, 1, len)
           Length(buf) == Field(buf, MachinesAt, 1)[1]
           name == MachinesAt + 1
           Service(buf) == name + Length(buf)
           Second(buf) == Field(buf, Service(buf), 1)[1]
<1>1. /\ IdAt \in Nat /\ IdLen \in Nat /\ AttributesAt \in Nat /\ AttributesLen \in Nat
      /\ MachinesAt \in Nat /\ name \in Nat /\ AttributesEnd = AttributesAt + AttributesLen
  BY LayoutAssumption DEF AttributesEnd
<1>2. prefix \in Seq(Nat) /\ << >> \in Seq(Nat) /\ len \in Nat
  OBVIOUS
<1> HIDE DEF prefix
<1>3. ASSUME NEW buf \in Seq(Nat)
      PROVE  /\ Length(buf) \in Nat /\ Service(buf) \in Nat /\ Second(buf) \in Nat
             /\ Parse(buf) =
                  [shadow_copy_id    |-> Field(buf, IdAt, IdLen),
                   attributes        |-> Field(buf, AttributesAt, AttributesLen),
                   operating_machine |-> Text(buf, name, Length(buf)),
                   service_machine   |-> Text(buf, Service(buf) + 1, Second(buf))]
  <2>1. ASSUME NEW at \in Nat
        PROVE  Field(buf, at, 1)[1] \in Nat
    <3>1. Field(buf, at, 1) \in [1 .. 1 -> Nat]
      BY FieldType
    <3>2. QED
      BY <3>1
  <2>2. Length(buf) \in Nat /\ Service(buf) \in Nat
    BY <1>1, <2>1
  <2>3. Second(buf) \in Nat
    BY <2>1, <2>2
  <2>4. QED
    BY <2>2, <2>3 DEF Parse
<1>4. ASSUME NEW at \in Nat, NEW n \in Nat
      PROVE  /\ Field(prefix, at, n) = IF at + n <= len THEN Field(cells, at, n) ELSE Field(<< >>, at, n)
             /\ Text(prefix, at, n) = IF at + n <= len THEN Text(cells, at, n) ELSE << >>
  <2>1. Field(<< >>, at, n) = [k \in 1 .. n |-> 0]
    BY <1>2, FieldType
  <2>2. QED
    BY <2>1, PartsOfPrefix DEF prefix
<1>5. \A at \in Nat : Field(<< >>, at, 1)[1] = 0
  BY <1>2, FieldType
<1>6. ASSUME NEW at \in Nat \ {0}
      PROVE  Text(<< >>, at, 0) = << >>
  BY <1>6 DEF Text
<1>7. Length(<< >>) = 0 /\ Second(<< >>) = 0
  BY <1>1, <1>2, <1>3, <1>5
<1>8. Text(<< >>, name, Length(<< >>)) = << >>
  BY <1>1, <1>6, <1>7
<1>9. Text(<< >>, Service(<< >>) + 1, Second(<< >>)) = << >>
  BY <1>1, <1>6, <1>7
<1>10. /\ Text(prefix, name, Length(prefix)) \in {Text(cells, name, Length(cells)), << >>}
       /\ Text(prefix, Service(prefix) + 1, Second(prefix)) \in
             {Text(cells, Service(cells) + 1, Second(cells)), << >>}
  <2>1. CASE name <= len
    <3>1. Length(prefix) = Length(cells) /\ Service(prefix) = Service(cells)
      BY <1>1, <1>4, <2>1
    <3>2. Text(prefix, name, Length(prefix)) \in {Text(cells, name, Length(cells)), << >>}
      BY <1>1, <1>3, <1>4, <3>1
    <3>3. PICK v \in Nat : v = Service(cells)
      BY <1>3
    <3>4. CASE v + 1 <= len
      <4>1. Second(prefix) = Second(cells)
        BY <1>4, <3>1, <3>3, <3>4
      <4>2. QED
        BY <1>3, <1>4, <3>1, <3>2, <3>3, <4>1
    <3>5. CASE ~(v + 1 <= len)
      <4>1. Second(prefix) = 0
        BY <1>4, <1>5, <3>1, <3>3, <3>5
      <4>2. Text(prefix, v + 1, 0) = << >>
        BY <1>4, <3>5
      <4>3. QED
        BY <3>1, <3>2, <3>3, <4>1, <4>2
    <3>6. QED
      BY <3>4, <3>5
  <2>2. CASE ~(name <= len)
    <3>1. Length(prefix) = 0 /\ Service(prefix) = name
      BY <1>1, <1>4, <1>5, <2>2
    <3>2. Second(prefix) = 0
      BY <1>1, <1>2, <1>4, <1>5, <2>2, <3>1
    <3>3. Text(prefix, name, 0) = << >> /\ Text(prefix, name + 1, 0) = << >>
      BY <1>1, <1>2, <1>4, <2>2
    <3>4. QED
      BY <3>1, <3>2, <3>3
  <2>3. QED
    BY <2>1, <2>2
<1> HIDE DEF Length, Service, Second, name
<1>11. ASSUME NEW buf \in Seq(Nat)
       PROVE  /\ Parse(buf).shadow_copy_id = Field(buf, IdAt, IdLen)
              /\ Parse(buf).attributes = Field(buf, AttributesAt, AttributesLen)
              /\ Parse(buf).operating_machine = Text(buf, name, Length(buf))
              /\ Parse(buf).service_machine = Text(buf, Service(buf) + 1, Second(buf))
              /\ DOMAIN Parse(buf) =
                   {"shadow_copy_id", "attributes", "operating_machine", "service_machine"}
  BY <1>3
<1>12. Parse(prefix).shadow_copy_id \in {Parse(cells).shadow_copy_id, Parse(<< >>).shadow_copy_id}
  <2>1. Field(prefix, IdAt, IdLen) \in {Field(cells, IdAt, IdLen), Field(<< >>, IdAt, IdLen)}
    BY <1>1, <1>4
  <2>2. QED
    BY <1>2, <1>11, <2>1
<1>13. /\ Parse(prefix).attributes \in {Parse(cells).attributes, Parse(<< >>).attributes}
       /\ AttributesEnd <= len => Parse(prefix).attributes = Parse(cells).attributes
       /\ Parse(prefix).attributes \in [1 .. AttributesLen -> Nat]
  <2> DEFINE attributes(buf) == Field(buf, AttributesAt, AttributesLen)
  <2>1. /\ attributes(prefix) \in {attributes(cells), attributes(<< >>)}
        /\ AttributesEnd <= len => attributes(prefix) = attributes(cells)
    BY <1>1, <1>4
  <2>2. attributes(prefix) \in [1 .. AttributesLen -> Nat]
    BY <1>1, <1>2, FieldType
  <2> HIDE DEF attributes
  <2>3. \A buf \in Seq(Nat) : Parse(buf).attributes = attributes(buf)
    BY <1>11 DEF attributes
  <2>4. QED
    BY <1>2, <2>1, <2>2, <2>3
<1>14. /\ Parse(prefix).operating_machine \in
             {Parse(cells).operating_machine, Parse(<< >>).operating_machine}
       /\ Parse(prefix).service_machine \in
             {Parse(cells).service_machine, Parse(<< >>).service_machine}
  BY <1>2, <1>8, <1>9, <1>10, <1>11
<1>15. QED
  BY <1>2, <1>11, <1>12, <1>13, <1>14 DEF prefix

-----------------------------------------------------------------------------
(* How much information is read.                                           *)

\* The least number of a set.
LEMMA LeastIs ==
  ASSUME NEW S, S \subseteq Nat, S # {}
  PROVE  Min(S) \in S /\ \A y \in S : Min(S) <= y
<1>1. \E x \in S : \A y \in S : x <= y
  BY LeastExists
<1>2. QED
  BY <1>1 DEF Min

\* The stores of a volume that is audited.
LEMMA StoresHold ==
  ASSUME IsImage(image), NEW k \in DOMAIN Stores
  PROVE  /\ Len(Stores) \in Nat /\ DOMAIN Stores = 1 .. Len(Stores)
         /\ Stores[k].sequence \in Offsets
         /\ Stores[k].creation_time \in Offsets
         /\ Stores[k].header \in Offsets \cup {None}
         /\ \A o \in Headers : image.info[o] \in InfoAt(o)
<1>1. Stores \in Seq(StoreDescriptor)
  BY DEF IsImage, Stores
<1>2. Stores[k] \in StoreDescriptor
  BY <1>1
<1>3. QED
  BY <1>1, <1>2 DEF IsImage, StoreDescriptor

\* The information read is on the volume, no longer than its size field says and
\* than the cap, and as long as these let it be.
LEMMA InfoLenHolds ==
  ASSUME IsImage(image), index \in DOMAIN Stores, HeaderInRange
  PROVE  /\ HeaderOffset \in Headers
         /\ Info.store_information_size \in Nat
         /\ Info.cells \in Seq(Nat) /\ Len(Info.cells) = Remaining
         /\ Remaining \in 0 .. VolumeSize
         /\ InfoLen \in 0 .. MaxInfoLen /\ InfoLen <= RemainingUsize
         /\ RemainingUsize \in 0 .. Remaining
         /\ InfoLen <= Info.store_information_size
         /\ \A n \in Nat : /\ n <= Info.store_information_size /\ n <= MaxInfoLen
                           /\ n <= RemainingUsize
                           => n <= InfoLen
<1>1. /\ VolumeSize \in Nat /\ MaxUsize \in Nat /\ MaxInfoLen \in Nat /\ HeaderLen \in Nat
      /\ MaxInfoLen <= MaxUsize /\ Offsets \subseteq Nat
  BY GeometryAssumption, AuditAssumption DEF Offsets
<1>2. HeaderOffset \in Offsets /\ HeaderOffset \in Headers
  BY StoresHold DEF HeaderOffset, HeaderInRange, Headers
<1>3. Info \in InfoAt(HeaderOffset)
  BY <1>2, StoresHold DEF Info
<1>4. Remaining \in 0 .. VolumeSize
  BY <1>1, <1>2 DEF Remaining, Headers
<1>5. /\ Info.store_information_size \in Nat
      /\ Info.cells \in [1 .. Remaining -> Nat]
  BY <1>1, <1>3 DEF InfoAt, Remaining
<1>6. Info.cells \in Seq(Nat) /\ Len(Info.cells) = Remaining
  BY <1>4, <1>5
<1>7. RemainingUsize \in 0 .. Remaining
  BY <1>1, <1>4 DEF RemainingUsize
<1> DEFINE size == Info.store_information_size
<1>8. Wanted \in {size, MaxUsize} /\ Wanted <= size /\ Wanted <= MaxUsize
  BY <1>1, <1>5, LeastIs DEF Wanted
<1>9. /\ InfoLen \in {Wanted, MaxInfoLen, RemainingUsize}
      /\ InfoLen <= Wanted /\ InfoLen <= MaxInfoLen /\ InfoLen <= RemainingUsize
  <2> DEFINE limits == {Wanted, MaxInfoLen, RemainingUsize}
  <2>1. limits \subseteq Nat /\ limits # {}
    BY <1>1, <1>5, <1>7, <1>8
  <2>2. Min(limits) \in limits /\ \A y \in limits : Min(limits) <= y
    BY <2>1, LeastIs
  <2>3. QED
    BY <2>2 DEF InfoLen
<1>10. InfoLen \in Nat
  BY <1>1, <1>5, <1>7, <1>8, <1>9
<1>11. \A n \in Nat : n <= size /\ n <= MaxInfoLen /\ n <= RemainingUsize => n <= InfoLen
  BY <1>1, <1>5, <1>8, <1>9
<1>12. QED
  BY <1>1, <1>2, <1>4, <1>5, <1>6, <1>7, <1>8, <1>9, <1>10, <1>11

\* What store_info returns has attributes, as they are on the volume when they are read.
LEMMA StoreInfoHolds ==
  ASSUME IsImage(image), index \in DOMAIN Stores, HeaderInRange,
         info_len \in Nat, ~EndOfVolume
  PROVE  /\ \A f \in DOMAIN StoreInfo : StoreInfo[f] \in {Parse(Info.cells)[f], Parse(<< >>)[f]}
         /\ StoreInfo.attributes \in [1 .. AttributesLen -> Nat]
         /\ AttributesEnd <= info_len =>
              StoreInfo.attributes = Parse(Info.cells).attributes
<1>1. /\ Info.cells \in Seq(Nat) /\ Len(Info.cells) = Remaining /\ Remaining \in Nat
  BY InfoLenHolds
<1>2. info_len \in 0 .. Len(Info.cells)
  BY <1>1 DEF EndOfVolume
<1>3. QED
  BY <1>1, <1>2, InformationCutShort DEF StoreInfo

-----------------------------------------------------------------------------
(* The invariant.                                                          *)

\* An anomaly is of one kind, and says which store it is about.
LEMMA KindsHold ==
  /\ [kind |-> "NoShadowCopies"].kind = "NoShadowCopies"
  /\ \A k : Present(k).kind = "StorePresent" /\ Present(k).store = k
  /\ \A p, n : Gap(p, n).kind = "SequenceGap"
  /\ \A k, flags : /\ NonPersistent(k, flags).kind = "StoreNonPersistent"
                   /\ NonPersistent(k, flags).store = k
                   /\ NonPersistent(k, flags).attribute_flags = flags
  BY DEF Present, Gap, NonPersistent

\* Nothing the audit does changes the volume.
LEMMA ImageKept ==
  ASSUME [Next]_vars
  PROVE  /\ image' = image
         /\ Stores' = Stores
         /\ Gaps' = Gaps
         /\ \A a : IsAnomaly(a) => IsAnomaly(a)'
<1>1. image' = image
  BY DEF Next, vars, NoStores, ListStores, NoHeader, SeekHeader, ReadHeader, ReadInformation,
         ReadFails, Finish
<1>2. Stores' = Stores
  BY <1>1 DEF Stores
<1>3. Gaps' = Gaps
  BY <1>2 DEF Gaps
<1>4. \A a : IsAnomaly(a) => IsAnomaly(a)'
  BY <1>2 DEF IsAnomaly, Present, NonPersistent, Gap
<1>5. QED
  BY <1>1, <1>2, <1>3, <1>4

\* What is said of the volume as a whole stays when a store that lacks the
\* persistent bit is added, or nothing is.
LEMMA ListKept ==
  ASSUME ListInv, pc # "start", [Next]_vars,
         NEW k, NEW flags, out' \in {out, out \cup {NonPersistent(k, flags)}}
  PROVE  ListInv'
<1>1. Reported' = Reported
  BY KindsHold DEF Reported
<1>2. [kind |-> "NoShadowCopies"] \in out' <=> [kind |-> "NoShadowCopies"] \in out
  BY KindsHold
<1>3. QED
  BY <1>1, <1>2, ImageKept DEF ListInv

\* Going on to the next store, with what is reported so far and perhaps this one.
LEMMA NextStore ==
  ASSUME IInv, [Next]_vars, pc \in {"store", "header", "information"}, index <= Len(Stores),
         pc' = "store", index' = index + 1, info_len' = info_len, faults' \in 0 .. MaxFaults,
         NEW flags \in [1 .. AttributesLen -> Nat],
         out' \in {out, out \cup {NonPersistent(index, flags)}}
  PROVE  IInv'
<1>1. IsImage(image) /\ index \in 1 .. Len(Stores) + 1 /\ Stores \in Seq(StoreDescriptor)
  BY DEF IInv, TypeOK, IsImage, Stores
<1>2. index \in DOMAIN Stores
  BY <1>1
<1>3. IsAnomaly(NonPersistent(index, flags))
  BY <1>2, KindsHold DEF IsAnomaly
<1>4. \A a \in out' : IsAnomaly(a)'
  BY <1>3, ImageKept DEF IInv, TypeOK
<1>5. TypeOK'
  <2>1. index' \in 1 .. Len(Stores') + 1
    BY <1>1, ImageKept
  <2>2. QED
    BY <1>1, <1>4, <2>1, ImageKept DEF IInv, TypeOK
<1>6. ListInv'
  BY ListKept DEF IInv
<1>7. ReadingInv'
  BY DEF ReadingInv
<1>8. QED
  BY <1>5, <1>6, <1>7 DEF IInv

\* The inductive invariant of the auditor.
\* Code behaviour: audit lists the stores and the gaps before it asks for any
\* store's information, and store_info reads within the volume.
LEMMA AuditInvariantHolds == Spec => []IInv
<1>1. Init => IInv
  <2> SUFFICES ASSUME Init PROVE IInv
    OBVIOUS
  <2>1. IsImage(image)
    BY AuditAssumption DEF Init
  <2>2. Len(Stores) \in Nat
    BY <2>1 DEF IsImage, Stores
  <2>3. TypeOK
    BY <2>1, <2>2, AuditAssumption DEF Init, TypeOK
  <2>4. QED
    BY <2>3 DEF Init, IInv, ReadingInv, ListInv
<1>2. IInv /\ [Next]_vars => IInv'
  <2> SUFFICES ASSUME IInv, [Next]_vars PROVE IInv'
    OBVIOUS
  <2>1. /\ IsImage(image) /\ Len(Stores) \in Nat /\ DOMAIN Stores = 1 .. Len(Stores)
        /\ MaxFaults \in Nat
    BY AuditAssumption DEF IInv, TypeOK, IsImage, Stores
  <2>2. PICK flags \in [1 .. AttributesLen -> Nat] : TRUE
    <3>1. [k \in 1 .. AttributesLen |-> 0] \in [1 .. AttributesLen -> Nat]
      OBVIOUS
    <3>2. QED
      BY <3>1
  <2>3. CASE NoStores
    <3>1. Gaps = {}
      <4>1. PICK m \in Nat : \E s \in [1 .. m -> Offsets] :
               /\ Numbers = {s[i] : i \in 1 .. m}
               /\ Gaps = {Gap(s[k], s[k + 1]) : k \in {j \in 1 .. m - 1 : s[j + 1] > SatAdd(s[j], 1)}}
        BY <2>1, GapsHold
      <4>2. Numbers = {}
        BY <2>3 DEF NoStores, Numbers
      <4>3. \A k \in 1 .. m - 1 : FALSE
        <5>1. 1 .. m = {}
          BY <4>1, <4>2
        <5>2. QED
          BY <5>1
      <4>4. QED
        BY <4>1, <4>3
    <3>2. TypeOK'
      <4>1. \A a \in out' : IsAnomaly(a)'
        BY <2>3 DEF NoStores, IsAnomaly
      <4>2. QED
        BY <2>3, <4>1, ImageKept DEF NoStores, IInv, TypeOK
    <3>3. ListInv'
      <4>1. Reported' = {}
        BY <2>3, KindsHold DEF NoStores, Reported
      <4>2. QED
        BY <2>3, <3>1, <4>1, ImageKept DEF NoStores, ListInv
    <3>4. QED
      BY <2>3, <3>2, <3>3 DEF NoStores, IInv, ReadingInv
  <2>4. CASE ListStores
    <3> DEFINE present == {Present(k) : k \in DOMAIN Stores}
    <3>1. out' = present \cup Gaps
      BY <2>4 DEF ListStores
    <3>2. \A a \in present : a.kind = "StorePresent" /\ IsAnomaly(a)
      BY KindsHold DEF IsAnomaly
    <3>3. \A a \in Gaps : a.kind = "SequenceGap" /\ IsAnomaly(a)
      BY <2>1, GapsMean, KindsHold DEF IsAnomaly
    <3> HIDE DEF present
    <3>4. TypeOK'
      <4>1. \A a \in out' : IsAnomaly(a)'
        BY <3>1, <3>2, <3>3, ImageKept
      <4>2. QED
        BY <2>4, <4>1, ImageKept DEF ListStores, IInv, TypeOK
    <3>5. ListInv'
      <4>1. Reported' = Gaps
        BY <3>1, <3>2, <3>3 DEF Reported
      <4>2. [kind |-> "NoShadowCopies"] \notin out'
        BY <3>1, <3>2, <3>3, KindsHold
      <4>3. QED
        BY <2>4, <4>1, <4>2, ImageKept DEF ListStores, ListInv
    <3>6. QED
      BY <2>4, <3>4, <3>5 DEF ListStores, IInv, ReadingInv
  <2>5. CASE NoHeader
    BY <2>2, <2>5, NextStore DEF NoHeader, Skipped, IInv, TypeOK
  <2>6. CASE SeekHeader
    <3>1. TypeOK'
      BY <2>6, ImageKept DEF SeekHeader, IInv, TypeOK
    <3>2. ListInv'
      BY <2>6, ListKept DEF SeekHeader, IInv
    <3>3. ReadingInv'
      BY <2>6, ImageKept DEF SeekHeader, ReadingInv, HeaderInRange, HeaderOffset
    <3>4. QED
      BY <3>1, <3>2, <3>3 DEF IInv
  <2>7. CASE ReadHeader
    <3>1. index \in DOMAIN Stores /\ HeaderInRange
      BY <2>1, <2>7 DEF ReadHeader, IInv, TypeOK, ReadingInv
    <3>2. InfoLen \in 0 .. MaxInfoLen
      BY <2>1, <3>1, InfoLenHolds
    <3>3. TypeOK'
      BY <2>7, <3>2, ImageKept DEF ReadHeader, IInv, TypeOK
    <3>4. ListInv'
      BY <2>7, ListKept DEF ReadHeader, IInv
    <3>5. InfoLen' = InfoLen /\ HeaderInRange'
      BY <2>7, <3>1, ImageKept DEF ReadHeader, InfoLen, Wanted, RemainingUsize, Remaining, Info,
                                   HeaderOffset, HeaderInRange
    <3>6. ReadingInv'
      BY <2>7, <3>5, ImageKept DEF ReadHeader, IInv, ReadingInv
    <3>7. QED
      BY <3>3, <3>4, <3>6 DEF IInv
  <2>8. CASE ReadInformation
    <3>1. index \in DOMAIN Stores /\ HeaderInRange /\ info_len \in Nat /\ index <= Len(Stores)
      BY <2>1, <2>8, AuditAssumption DEF ReadInformation, IInv, TypeOK, ReadingInv
    <3>2. StoreInfo.attributes \in [1 .. AttributesLen -> Nat]
      BY <2>1, <2>8, <3>1, StoreInfoHolds DEF ReadInformation
    <3>3. out' \in {out, out \cup {NonPersistent(index, StoreInfo.attributes)}}
      BY <2>8 DEF ReadInformation
    <3>4. PICK read \in [1 .. AttributesLen -> Nat] : read = StoreInfo.attributes
      BY <3>2
    <3>5. QED
      BY <2>8, <3>1, <3>3, <3>4, NextStore DEF ReadInformation, IInv, TypeOK
  <2>9. CASE ReadFails
    <3>1. pc \in {"header", "information"} /\ index <= Len(Stores)
      BY <2>9 DEF ReadFails, IInv, ReadingInv
    <3>2. faults' \in 0 .. MaxFaults
      BY <2>1, <2>9 DEF ReadFails, IInv, TypeOK
    <3>3. QED
      BY <2>2, <2>9, <3>1, <3>2, NextStore DEF ReadFails, Skipped
  <2>10. CASE Finish
    <3>1. TypeOK'
      BY <2>10, ImageKept DEF Finish, IInv, TypeOK
    <3>2. ListInv'
      BY <2>10, ListKept DEF Finish, IInv
    <3>3. QED
      BY <2>10, <3>1, <3>2 DEF Finish, IInv, ReadingInv
  <2>11. CASE UNCHANGED vars
    <3>1. TypeOK'
      BY <2>11, ImageKept DEF vars, IInv, TypeOK
    <3>2. ReadingInv'
      BY <2>11 DEF vars, IInv, ReadingInv, InfoLen, Wanted, RemainingUsize, Remaining, Info,
                   HeaderOffset, HeaderInRange, Stores
    <3>3. ListInv'
      BY <2>11, ImageKept DEF vars, IInv, ListInv, Reported
    <3>4. QED
      BY <3>1, <3>2, <3>3 DEF IInv
  <2>12. QED
    BY <2>3, <2>4, <2>5, <2>6, <2>7, <2>8, <2>9, <2>10, <2>11 DEF Next
<1>3. QED
  BY <1>1, <1>2, PTL DEF Spec

\* Type correctness, and with it the bound on what is allocated.
\* Code behaviour: store_info cuts the length it reads to MAX_STORE_INFO_LEN.
THEOREM AuditTypeCorrect == Spec => []TypeOK
<1>1. IInv => TypeOK
  BY DEF IInv
<1>2. QED
  BY <1>1, AuditInvariantHolds, PTL

-----------------------------------------------------------------------------
(* What the report says of the volume.                                     *)

\* The gaps reported are the runs of missing sequence numbers.
\* Code behaviour: audit sorts the sequence numbers and compares neighbours.
THEOREM GapsExact == Spec => []GapsAreTheMissingNumbers
<1>1. IInv => GapsAreTheMissingNumbers
  <2> SUFFICES ASSUME IInv, pc # "start", NEW n \in Offsets
               PROVE  LET around == {g \in Reported : g.previous < n /\ n < g.next}
                      IN  /\ Missing(n) => Cardinality(around) = 1
                          /\ around # {} => Missing(n)
    BY DEF GapsAreTheMissingNumbers
  <2>1. IsImage(image) /\ Reported = Gaps
    BY DEF IInv, TypeOK, ListInv
  <2> DEFINE around == {g \in Gaps : g.previous < n /\ n < g.next}
  <2>2. /\ Missing(n) => \E g : around = {g}
        /\ around # {} => Missing(n)
    BY <2>1, GapsMean
  <2> HIDE DEF around
  <2>3. Missing(n) => Cardinality(around) = 1
    BY <2>2, FS_Singleton
  <2>4. QED
    BY <2>1, <2>2, <2>3 DEF around
<1>2. QED
  BY <1>1, AuditInvariantHolds, PTL

\* The report cites T1490 when, and only when, stores are missing.
\* Code behaviour: audit and AnomalyKind::mitre.
THEOREM DeletionCited == Spec => []CitesDeletionOnOccasion
<1>1. IInv => CitesDeletionOnOccasion
  <2> SUFFICES ASSUME IInv, pc # "start"
               PROVE  (\E f \in Report : "T1490" \in f.mitre) <=>
                        \/ image.has_vss_header /\ Stores = << >>
                        \/ \E n \in Offsets : Missing(n)
    BY DEF CitesDeletionOnOccasion
  <2> DEFINE none == [kind |-> "NoShadowCopies"]
  <2>1. /\ IsImage(image) /\ Reported = Gaps
        /\ none \in out <=> image.has_vss_header /\ Stores = << >>
        /\ \A a \in out : IsAnomaly(a)
    BY DEF IInv, TypeOK, ListInv
  <2>2. \A a : "T1490" \in Finding(a).mitre <=> a.kind \in {"NoShadowCopies", "SequenceGap"}
    BY DEF Finding, Mitre
  <2>3. (\E f \in Report : "T1490" \in f.mitre)
          <=> \E a \in out : a.kind \in {"NoShadowCopies", "SequenceGap"}
    BY <2>2 DEF Report
  <2>4. (\E a \in out : a.kind = "NoShadowCopies") <=> none \in out
    BY <2>1, KindsHold DEF IsAnomaly
  <2>5. (\E a \in out : a.kind = "SequenceGap") <=> Gaps # {}
    BY <2>1 DEF Reported
  <2>6. Gaps # {} <=> \E n \in Offsets : Missing(n)
    <3>1. ASSUME Gaps # {} PROVE \E n \in Offsets : Missing(n)
      BY <2>1, <3>1, GapsMean
    <3>2. ASSUME NEW n \in Offsets, Missing(n) PROVE Gaps # {}
      <4>1. PICK g : {h \in Gaps : h.previous < n /\ n < h.next} = {g}
        BY <2>1, <3>2, GapsMean
      <4>2. QED
        BY <4>1
    <3>3. QED
      BY <3>1, <3>2
  <2>7. QED
    BY <2>1, <2>3, <2>4, <2>5, <2>6
<1>2. QED
  BY <1>1, AuditInvariantHolds, PTL

-----------------------------------------------------------------------------
(* Dates.                                                                  *)

\* Later in ticks is later in nanoseconds.
LEMMA NanosGrow ==
  ASSUME NEW x \in Nat, NEW y \in Nat, EpochDiff <= x, x < y
  PROVE  Nanos(x) \in Nat /\ Nanos(y) \in Nat /\ Nanos(x) < Nanos(y)
<1>1. EpochDiff \in Nat /\ NanosPerTick \in Nat \ {0}
  BY TimeAssumption
<1>2. PICK b \in Nat, d \in Nat : x = EpochDiff + b /\ y = x + (d + 1)
  <2>1. x - EpochDiff \in Nat /\ y - x - 1 \in Nat
    BY <1>1
  <2>2. x = EpochDiff + (x - EpochDiff) /\ y = x + ((y - x - 1) + 1)
    BY <1>1
  <2>3. QED
    BY <2>1, <2>2
<1>3. b * NanosPerTick \in Nat /\ d * NanosPerTick \in Nat
  BY <1>1
<1>4. Nanos(x) = b * NanosPerTick
  <2>1. x - EpochDiff = b
    BY <1>1, <1>2
  <2>2. QED
    BY <2>1 DEF Nanos
<1>5. Nanos(y) = b * NanosPerTick + d * NanosPerTick + NanosPerTick
  <2>1. y - EpochDiff = b + d + 1
    BY <1>1, <1>2
  <2>2. (b + d + 1) * NanosPerTick = b * NanosPerTick + d * NanosPerTick + NanosPerTick
    BY <1>1
  <2>3. QED
    BY <2>1, <2>2 DEF Nanos
<1>6. QED
  BY <1>1, <1>3, <1>4, <1>5

\* A time that has a date has one, and what is younger has a later one.
LEMMA DatesHold ==
  ASSUME NEW x \in Nat, NEW y \in Nat, x < y
  PROVE  /\ Dates(x) # {} /\ Dates(y) # {} => Min(Dates(x)) < Min(Dates(y))
         /\ \A z \in Nat : Dates(x) # {} /\ Dates(z) # {} /\ y < z => Dates(y) # {}
<1>1. EpochDiff \in Nat /\ MaxNanos \in Nat
  BY TimeAssumption
<1>2. ASSUME NEW t \in Nat, Dates(t) # {}
      PROVE  Dates(t) = {Nanos(t)} /\ EpochDiff <= t /\ t # 0 /\ ~(Nanos(t) > MaxNanos)
  BY <1>1, <1>2 DEF Dates
<1>3. \A v : Min({v}) = v \/ ~(v \in Nat)
  BY LeastIs
<1>4. ASSUME Dates(x) # {}, Dates(y) # {}
      PROVE  Min(Dates(x)) < Min(Dates(y))
  <2>1. /\ Dates(x) = {Nanos(x)} /\ Dates(y) = {Nanos(y)} /\ EpochDiff <= x
    BY <1>2, <1>4
  <2>2. Nanos(x) \in Nat /\ Nanos(y) \in Nat /\ Nanos(x) < Nanos(y)
    BY <2>1, NanosGrow
  <2>3. QED
    BY <1>3, <2>1, <2>2
<1>5. ASSUME NEW z \in Nat, Dates(x) # {}, Dates(z) # {}, y < z
      PROVE  Dates(y) # {}
  <2>1. EpochDiff <= x /\ ~(Nanos(z) > MaxNanos)
    BY <1>2, <1>5
  <2>2. EpochDiff <= y
    BY <1>1, <2>1
  <2>3. Nanos(y) \in Nat /\ Nanos(z) \in Nat /\ Nanos(y) < Nanos(z)
    BY <1>5, <2>2, NanosGrow
  <2>4. ~(Nanos(y) > MaxNanos) /\ ~(y = 0) /\ ~(y < EpochDiff)
    BY <1>1, <2>1, <2>2, <2>3
  <2>5. QED
    BY <2>4 DEF Dates
<1>6. QED
  BY <1>4, <1>5

\* The dates of the report are in the order of the creation times.
\* Code behaviour: AnomalyKind::timestamps and filetime_to_rfc3339.
THEOREM DatesInOrder == Spec => []DatesKeepOrder
<1>1. IInv => DatesKeepOrder
  <2> SUFFICES ASSUME IInv PROVE DatesKeepOrder
    OBVIOUS
  <2> DEFINE created == {f \in Report : f.code = "StorePresent"}
             dated == {f \in created : f.timestamps # {}}
             Time(f) == f.evidence.creation_time
  <2>1. ASSUME NEW f \in created
        PROVE  Time(f) \in Nat /\ f.timestamps = Dates(Time(f))
    <3>1. PICK a \in out : f = Finding(a)
      BY DEF Report
    <3>2. a.kind = "StorePresent"
      BY <3>1 DEF Finding
    <3>3. PICK k \in DOMAIN Stores : a = Present(k)
      BY <3>2, KindsHold DEF IInv, TypeOK, IsAnomaly
    <3>4. /\ "creation_time" \in DOMAIN a \ {"kind", "store"}
          /\ a.creation_time = Stores[k].creation_time
      BY <3>3 DEF Present
    <3>5. Stores[k].creation_time \in Nat
      <4>1. Stores[k].creation_time \in Offsets
        BY StoresHold DEF IInv, TypeOK
      <4>2. QED
        BY <4>1, GeometryAssumption DEF Offsets
    <3>6. Time(f) = a.creation_time
      <4>1. f.evidence = [x \in DOMAIN a \ {"kind", "store"} |-> a[x]]
        BY <3>1 DEF Finding, Evidence
      <4>2. QED
        BY <3>4, <4>1
    <3>7. f.timestamps = Dates(a.creation_time)
      BY <3>1, <3>2 DEF Finding, Timestamps
    <3>8. QED
      BY <3>4, <3>5, <3>6, <3>7
  <2>2. ASSUME NEW f \in dated, NEW g \in dated, Time(f) < Time(g)
        PROVE  Min(f.timestamps) < Min(g.timestamps)
    BY <2>1, <2>2, DatesHold
  <2>3. ASSUME NEW f \in created \ dated, NEW g \in dated, NEW h \in dated,
               Time(g) < Time(f), Time(f) < Time(h)
        PROVE  FALSE
    BY <2>1, <2>3, DatesHold
  <2>4. QED
    BY <2>2, <2>3 DEF DatesKeepOrder
<1>2. QED
  BY <1>1, AuditInvariantHolds, PTL

-----------------------------------------------------------------------------
(* What the report says of a store.                                        *)

\* Store information is read field by field as it is, or as if it were not there.
\* Code behaviour: store_info reads a part, and StoreInfo::parse checks each end.
THEOREM FieldsWhole == Spec => []FieldsWholeOrAbsent
<1>1. IInv => FieldsWholeOrAbsent
  <2> SUFFICES ASSUME IInv, pc = "information", ~EndOfVolume
               PROVE  \A f \in DOMAIN StoreInfo :
                        StoreInfo[f] \in {Parse(Info.cells)[f], Parse(<< >>)[f]}
    BY DEF FieldsWholeOrAbsent
  <2>1. /\ IsImage(image) /\ index \in DOMAIN Stores /\ HeaderInRange
        /\ info_len \in Nat
    BY AuditAssumption DEF IInv, TypeOK, ReadingInv, IsImage, Stores
  <2>2. QED
    BY <2>1, StoreInfoHolds
<1>2. QED
  BY <1>1, AuditInvariantHolds, PTL

\* Attributes that are not there lack the persistent bit.
LEMMA NothingIsNotPersistent == ~IsPersistent(Parse(<< >>).attributes)
<1>1. AttributesAt \in Nat /\ AttributesLen \in Nat \ {0}
  BY LayoutAssumption
<1>2. Parse(<< >>).attributes = [k \in 1 .. AttributesLen |-> 0]
  BY <1>1 DEF Parse, Field
<1>3. Parse(<< >>).attributes[1] = 0
  BY <1>1, <1>2
<1>4. QED
  BY <1>3 DEF IsPersistent

\* Stores before the one at hand that lack the persistent bit and are not reported.
Missed ==
  {k \in 1 .. index - 1 : HasAttributes(k) /\ ~IsPersistentOnDisk(k) /\ ~ReportedNonPersistent(k)}

\* With the checks, the audit begins with the first store.
ChecksInv ==
  /\ pc = "start" => index = 1
  /\ \A k \in DOMAIN Stores :
       HasAttributes(k) /\ InUsize(k) /\ IsPersistentOnDisk(k) => ~ReportedNonPersistent(k)
  /\ Cardinality(Missed) <= faults

\* Nothing a step can do, other than to report, changes a check.
LEMMA ChecksKept ==
  ASSUME [Next]_vars
  PROVE  \A k : /\ HasAttributes(k)' <=> HasAttributes(k)
                /\ InUsize(k)' <=> InUsize(k)
                /\ IsPersistentOnDisk(k)' <=> IsPersistentOnDisk(k)
<1>1. TAKE k
<1>2. image' = image /\ Stores' = Stores
  BY ImageKept
<1>3. HasAttributes(k)' <=> HasAttributes(k)
  BY <1>2 DEF HasAttributes
<1>4. IsPersistentOnDisk(k)' <=> IsPersistentOnDisk(k)
  BY <1>2 DEF IsPersistentOnDisk
<1>5. InUsize(k)' <=> InUsize(k)
  BY <1>2 DEF InUsize
<1>6. QED
  BY <1>3, <1>4, <1>5

\* One more fault excuses one more store.
LEMMA MissedGrows ==
  ASSUME IInv, ChecksInv,
         \/ Missed' \subseteq Missed /\ faults' = faults
         \/ \E k : Missed' \subseteq Missed \cup {k} /\ faults' = faults + 1
  PROVE  Cardinality(Missed') <= faults'
<1>1. IsFiniteSet(Missed)
  <2>1. index - 1 \in Int
    BY DEF IInv, TypeOK, IsImage, Stores
  <2>2. IsFiniteSet(1 .. index - 1) /\ Missed \in SUBSET (1 .. index - 1)
    BY <2>1, FS_Interval DEF Missed
  <2>3. QED
    BY <2>2, FS_Subset
<1>2. faults \in Nat /\ Cardinality(Missed) \in Nat /\ Cardinality(Missed) <= faults
  BY <1>1, AuditAssumption, FS_CardinalityType DEF IInv, TypeOK, ChecksInv
<1> PICK after : after = Missed'
  OBVIOUS
<1>3. CASE Missed' \subseteq Missed /\ faults' = faults
  <2>1. after \in SUBSET Missed
    BY <1>3
  <2>2. Cardinality(after) <= Cardinality(Missed) /\ Cardinality(after) \in Nat
    BY <1>1, <2>1, FS_Subset, FS_CardinalityType
  <2>3. QED
    BY <1>2, <1>3, <2>2
<1>4. CASE \E k : Missed' \subseteq Missed \cup {k} /\ faults' = faults + 1
  <2>1. PICK k : after \in SUBSET (Missed \cup {k})
    BY <1>4
  <2>2. /\ IsFiniteSet(Missed \cup {k})
        /\ Cardinality(Missed \cup {k}) \in {Cardinality(Missed), Cardinality(Missed) + 1}
    BY <1>1, FS_AddElement
  <2>3. Cardinality(after) <= Cardinality(Missed \cup {k}) /\ Cardinality(after) \in Nat
    BY <2>1, <2>2, FS_Subset, FS_CardinalityType
  <2>4. QED
    BY <1>2, <1>4, <2>2, <2>3
<1>5. QED
  BY <1>3, <1>4

\* The attribute check is right for every store that is read, on a machine with
\* any usize, except where the size of the volume after a header is cut to one that
\* does not reach the attributes.
\* Code behaviour: audit passes over a store whose information cannot be read, and
\* store_info reads no further than the volume goes.
THEOREM AttributeChecks == Spec => []AttributeChecksExact
<1>1. Init => ChecksInv
  <2> SUFFICES ASSUME Init PROVE ChecksInv
    OBVIOUS
  <2>1. index = 1 /\ faults = 0 /\ out = {}
    BY DEF Init
  <2>2. Missed = {}
    BY <2>1 DEF Missed
  <2>3. QED
    BY <2>1, <2>2, FS_EmptySet DEF ChecksInv, ReportedNonPersistent
<1>2. IInv /\ ChecksInv /\ [Next]_vars => ChecksInv'
  <2> SUFFICES ASSUME IInv, ChecksInv, [Next]_vars PROVE ChecksInv'
    OBVIOUS
  <2>1. /\ IsImage(image) /\ Len(Stores) \in Nat /\ DOMAIN Stores = 1 .. Len(Stores)
        /\ index \in 1 .. Len(Stores) + 1 /\ faults \in Nat
    BY AuditAssumption DEF IInv, TypeOK, IsImage, Stores
  <2>2. Stores' = Stores
    BY ImageKept
  \* A step that reports no store and stays, or passes over one with a fault or
  \* without attributes.
  <2>3. ASSUME \A k : ReportedNonPersistent(k)' <=> ReportedNonPersistent(k),
               pc' # "start",
               \/ index' = index /\ faults' = faults
               \/ index' = index + 1 /\ faults' = faults + 1
               \/ index' = index + 1 /\ faults' = faults /\ ~HasAttributes(index)
        PROVE  ChecksInv'
    <3>1. \A k : k \in Missed' <=>
             k \in 1 .. index' - 1 /\ HasAttributes(k) /\ ~IsPersistentOnDisk(k)
               /\ ~ReportedNonPersistent(k)
      BY <2>3, ChecksKept DEF Missed
    <3>2. index' = index + 1 => \A k : k \in 1 .. index' - 1 <=> k \in 1 .. index - 1 \/ k = index
      BY <2>1
    <3>3. \/ Missed' \subseteq Missed /\ faults' = faults
          \/ \E k : Missed' \subseteq Missed \cup {k} /\ faults' = faults + 1
      BY <2>3, <3>1, <3>2 DEF Missed
    <3>4. Cardinality(Missed') <= faults'
      BY <3>3, MissedGrows
    <3>5. QED
      BY <2>2, <2>3, <3>4, ChecksKept DEF ChecksInv
  \* A step that gives the volume as a whole its report.
  <2>4. ASSUME pc = "start", pc' # "start", index' = index, faults' = faults,
               \A a \in out' : a.kind # "StoreNonPersistent"
        PROVE  ChecksInv'
    <3>1. \A k : ~ReportedNonPersistent(k)'
      BY <2>4 DEF ReportedNonPersistent
    <3>2. Missed' \subseteq Missed
      BY <2>4 DEF Missed, ChecksInv
    <3>3. Cardinality(Missed') <= faults'
      BY <2>4, <3>2, MissedGrows
    <3>4. QED
      BY <2>4, <3>1, <3>3 DEF ChecksInv
  <2>5. CASE NoStores
    BY <2>4, <2>5, KindsHold DEF NoStores
  <2>6. CASE ListStores
    <3>1. \A a \in Gaps : a.kind = "SequenceGap"
      BY <2>1, GapsMean, KindsHold
    <3>2. \A a \in out' : a.kind # "StoreNonPersistent"
      BY <2>6, <3>1, KindsHold DEF ListStores
    <3>3. QED
      BY <2>4, <2>6, <3>2 DEF ListStores
  <2>7. ASSUME out' = out
        PROVE  \A k : ReportedNonPersistent(k)' <=> ReportedNonPersistent(k)
    BY <2>7 DEF ReportedNonPersistent
  <2>8. CASE NoHeader
    <3>1. ~HasAttributes(index)
      <4>1. HeaderOffset \notin Headers
        BY <2>8, AuditAssumption DEF NoHeader, HeaderInRange, Headers
      <4>2. QED
        BY <4>1 DEF HasAttributes, HeaderOffset
    <3>2. QED
      BY <2>3, <2>7, <2>8, <3>1 DEF NoHeader, Skipped
  <2>9. CASE SeekHeader
    BY <2>3, <2>7, <2>9 DEF SeekHeader
  <2>10. CASE ReadHeader
    BY <2>3, <2>7, <2>10 DEF ReadHeader
  \* Of a store that is read, what there is on the volume.
  <2>11. ASSUME pc = "information"
         PROVE  /\ index \in DOMAIN Stores /\ HeaderInRange /\ info_len \in Nat
                /\ ~EndOfVolume
                /\ IsPersistent(StoreInfo.attributes) => IsPersistentOnDisk(index)
                /\ HasAttributes(index) /\ InUsize(index) /\ IsPersistentOnDisk(index) =>
                     IsPersistent(StoreInfo.attributes)
    <3>1. /\ index \in DOMAIN Stores /\ HeaderInRange /\ info_len = InfoLen
      BY <2>1, <2>11 DEF IInv, ReadingInv
    <3>2. /\ HeaderOffset \in Headers
          /\ Info.store_information_size \in Nat /\ Remaining \in Nat
          /\ InfoLen \in Nat /\ InfoLen <= RemainingUsize /\ RemainingUsize \in 0 .. Remaining
          /\ \A n \in Nat : /\ n <= Info.store_information_size /\ n <= MaxInfoLen
                            /\ n <= RemainingUsize
                            => n <= InfoLen
      <4>1. MaxInfoLen \in Nat /\ VolumeSize \in Nat
        BY AuditAssumption, GeometryAssumption
      <4>2. QED
        BY <2>1, <3>1, <4>1, InfoLenHolds
    <3>3. ~EndOfVolume /\ info_len \in Nat
      BY <3>1, <3>2 DEF EndOfVolume
    <3>4. ASSUME HasAttributes(index), InUsize(index)
          PROVE  AttributesEnd <= info_len
      <4>1. AttributesEnd \in Nat /\ AttributesEnd <= MaxInfoLen /\ HeaderLen \in Nat
        BY LayoutAssumption, AuditAssumption DEF AttributesEnd
      <4>2. /\ Info.store_information_size >= AttributesEnd
        BY <3>4 DEF HasAttributes, Info, HeaderOffset
      <4>3. AttributesEnd <= RemainingUsize
        BY <3>4 DEF InUsize, RemainingUsize, Remaining, HeaderOffset
      <4>4. QED
        BY <3>1, <3>2, <4>1, <4>2, <4>3
    <3>5. HasAttributes(index) /\ InUsize(index) =>
             StoreInfo.attributes = Parse(Info.cells).attributes
      BY <2>1, <3>1, <3>3, <3>4, StoreInfoHolds
    <3>6. StoreInfo.attributes \in {Parse(Info.cells).attributes, Parse(<< >>).attributes}
      <4>1. \A f \in DOMAIN StoreInfo : StoreInfo[f] \in {Parse(Info.cells)[f], Parse(<< >>)[f]}
        BY <2>1, <3>1, <3>3, StoreInfoHolds
      <4>2. "attributes" \in DOMAIN StoreInfo
        BY DEF StoreInfo, Parse
      <4>3. QED
        BY <4>1, <4>2
    <3>7. ~IsPersistent(Parse(<< >>).attributes)
      BY NothingIsNotPersistent
    <3>8. QED
      BY <3>1, <3>3, <3>5, <3>6, <3>7 DEF IsPersistentOnDisk, Info, HeaderOffset
  <2>12. CASE ReadInformation
    <3>1. /\ index \in DOMAIN Stores
          /\ IsPersistent(StoreInfo.attributes) => IsPersistentOnDisk(index)
          /\ HasAttributes(index) /\ InUsize(index) /\ IsPersistentOnDisk(index) =>
               IsPersistent(StoreInfo.attributes)
      BY <2>11, <2>12 DEF ReadInformation
    <3>2. \A k : /\ k # index => (ReportedNonPersistent(k)' <=> ReportedNonPersistent(k))
                 /\ ReportedNonPersistent(k) => ReportedNonPersistent(k)'
      BY <2>12, KindsHold DEF ReadInformation, ReportedNonPersistent
    <3>3. CASE IsPersistent(StoreInfo.attributes)
      <4>1. out' = out
        BY <2>12, <3>3 DEF ReadInformation
      <4>2. \A k \in 1 .. index' - 1 : k \in 1 .. index - 1 \/ k = index
        BY <2>1, <2>12 DEF ReadInformation
      <4>3. Missed' \subseteq Missed
        BY <2>7, <3>1, <3>3, <4>1, <4>2, ChecksKept DEF Missed
      <4>4. Cardinality(Missed') <= faults'
        BY <2>12, <4>3, MissedGrows DEF ReadInformation
      <4>5. QED
        BY <2>2, <2>7, <2>12, <4>1, <4>4, ChecksKept DEF ChecksInv, ReadInformation
    <3>4. CASE ~IsPersistent(StoreInfo.attributes)
      <4>1. PICK i : i = index
        OBVIOUS
      <4>2. ReportedNonPersistent(i)'
        <5>1. NonPersistent(index, StoreInfo.attributes) \in out'
          BY <2>12, <3>4 DEF ReadInformation
        <5>2. PICK a \in out' : a.kind = "StoreNonPersistent" /\ a.store = i
          BY <4>1, <5>1, KindsHold
        <5>3. QED
          BY <5>2 DEF ReportedNonPersistent
      <4>3. HasAttributes(i) /\ InUsize(i) => ~IsPersistentOnDisk(i)
        BY <3>1, <3>4, <4>1
      <4>4. \A k \in 1 .. index' - 1 : k \in 1 .. index - 1 \/ k = i
        BY <2>1, <2>12, <4>1 DEF ReadInformation
      <4>5. Missed' \subseteq Missed
        BY <3>2, <4>1, <4>2, <4>4, ChecksKept DEF Missed
      <4>6. Cardinality(Missed') <= faults'
        BY <2>12, <4>5, MissedGrows DEF ReadInformation
      <4>7. \A k \in DOMAIN Stores :
               HasAttributes(k) /\ InUsize(k) /\ IsPersistentOnDisk(k) =>
                 ~ReportedNonPersistent(k)'
        BY <3>2, <4>1, <4>3 DEF ChecksInv
      <4>8. QED
        BY <2>2, <2>12, <4>6, <4>7, ChecksKept DEF ChecksInv, ReadInformation
    <3>5. QED
      BY <3>3, <3>4
  <2>13. CASE ReadFails
    <3>1. index' = index + 1 /\ out' = out /\ pc' # "start" /\ faults' = faults + 1
      BY <2>11, <2>13 DEF ReadFails, Skipped
    <3>2. QED
      BY <2>3, <2>7, <3>1
  <2>14. CASE Finish
    BY <2>3, <2>7, <2>14 DEF Finish
  <2>15. CASE UNCHANGED vars
    <3>1. Missed' = Missed /\ \A k : ReportedNonPersistent(k)' <=> ReportedNonPersistent(k)
      BY <2>15, ChecksKept DEF vars, Missed, ReportedNonPersistent
    <3>2. QED
      BY <2>2, <2>15, <3>1, ChecksKept DEF vars, ChecksInv
  <2>16. QED
    BY <2>5, <2>6, <2>8, <2>9, <2>10, <2>12, <2>13, <2>14, <2>15 DEF Next
<1>3. ChecksInv => AttributeChecksExact
  BY DEF ChecksInv, AttributeChecksExact, Missed
<1>4. QED
  BY <1>1, <1>2, <1>3, AuditInvariantHolds, PTL DEF Spec
=============================================================================
