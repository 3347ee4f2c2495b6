------------------------- MODULE CatalogEntriesProofs -------------------------
(***************************************************************************)
(* What one more entry does to the stores of a list of catalog entries:    *)
(* the reading of the list as brackets, entry by entry.                    *)
(***************************************************************************)
EXTENDS CatalogEntries, VolumeGeometryProofs

-----------------------------------------------------------------------------
(* Places in order.                                                        *)

\* Places are numbered from 1, in order, each once.
LEMMA NthHolds ==
  ASSUME NEW n \in Nat, NEW P, P \subseteq 1 .. n
  PROVE  /\ IsFiniteSet(P) /\ Cardinality(P) \in Nat
         /\ \A k \in 1 .. Cardinality(P) :
              Nth(P, k) \in P /\ Cardinality({t \in P : t <= Nth(P, k)}) = k
         /\ \A s \in P : /\ Cardinality({t \in P : t <= s}) \in 1 .. Cardinality(P)
                         /\ Nth(P, Cardinality({t \in P : t <= s})) = s
         /\ \A j, k \in 1 .. Cardinality(P) : j < k <=> Nth(P, j) < Nth(P, k)
<1> DEFINE upTo(s) == {t \in P : t <= s}
           count(s) == Cardinality(upTo(s))
           c == Cardinality(P)
           rank == [s \in P |-> count(s)]
           numbers == 1 .. c
<1>1. IsFiniteSet(P) /\ c \in Nat
  <2>1. IsFiniteSet(1 .. n) /\ P \in SUBSET (1 .. n)
    BY FS_Interval
  <2>2. QED
    BY <2>1, FS_Subset, FS_CardinalityType
<1>2. ASSUME NEW s \in P
      PROVE  IsFiniteSet(upTo(s)) /\ count(s) \in 1 .. c
  <2>1. upTo(s) \in SUBSET P /\ s \in upTo(s)
    OBVIOUS
  <2> HIDE DEF upTo
  <2>2. IsFiniteSet(upTo(s)) /\ count(s) <= c /\ count(s) # 0 /\ count(s) \in Nat
    BY <1>1, <2>1, FS_Subset, FS_EmptySet, FS_CardinalityType
  <2>3. QED
    BY <1>1, <2>2
<1>3. ASSUME NEW s \in P, NEW t \in P, s < t
      PROVE  count(s) < count(t)
  <2>1. upTo(s) \in SUBSET upTo(t) /\ t \in upTo(t) /\ t \notin upTo(s)
    <3>1. s \in Nat /\ t \in Nat /\ \A u \in P : u \in Nat
      OBVIOUS
    <3>2. \A u \in P : u <= s => u <= t
      BY <1>3, <3>1
    <3>3. \A u \in upTo(s) : u \in upTo(t)
      BY <3>2
    <3>4. t \in upTo(t) /\ ~(t <= s)
      BY <1>3, <3>1
    <3>5. QED
      BY <3>3, <3>4
  <2> HIDE DEF upTo
  <2>2. count(s) <= count(t) /\ count(s) # count(t)
    BY <1>2, <2>1, FS_Subset
  <2>3. QED
    BY <1>1, <1>2, <2>2
<1>4. ASSUME NEW s \in P, NEW t \in P
      PROVE  /\ count(s) = count(t) <=> s = t
             /\ count(s) < count(t) <=> s < t
  <2>1. s < t \/ s = t \/ t < s
    OBVIOUS
  <2>2. count(s) \in Nat /\ count(t) \in Nat /\ s \in Nat /\ t \in Nat
    BY <1>1, <1>2
  <2>3. s < t => count(s) < count(t)
    BY <1>3
  <2>4. t < s => count(t) < count(s)
    BY <1>3
  <2> HIDE DEF count
  <2>5. QED
    BY <2>1, <2>2, <2>3, <2>4
<1> HIDE DEF upTo, count
<1>5. rank \in Injection(P, numbers)
  <2>1. rank \in [P -> numbers]
    BY <1>2
  <2>2. \A s, t \in P : rank[s] = rank[t] => s = t
    BY <1>4
  <2> HIDE DEF rank, numbers
  <2>3. QED
    BY <2>1, <2>2 DEF Injection, IsInjective
<1>6. \A k \in numbers : \E s \in P : count(s) = k
  <2>1. IsFiniteSet(numbers) /\ Cardinality(numbers) = c
    BY <1>1, FS_Interval
  <2>2. rank \in Surjection(P, numbers)
    <3> HIDE DEF rank, numbers
    <3>1. QED
      BY <1>5, <2>1, FS_Injection
  <2>3. \A k \in numbers : \E s \in P : rank[s] = k
    <3> HIDE DEF rank, numbers
    <3>1. QED
      BY <2>2 DEF Surjection
  <2>4. QED
    BY <2>3
<1>7. \A k \in numbers : Nth(P, k) \in P /\ count(Nth(P, k)) = k
  BY <1>6 DEF Nth, count, upTo
<1>8. \A s \in P : count(s) \in numbers /\ Nth(P, count(s)) = s
  BY <1>2, <1>4, <1>7
<1>9. ASSUME NEW j \in numbers, NEW k \in numbers
      PROVE  j < k <=> Nth(P, j) < Nth(P, k)
  <2>1. PICK s \in P, t \in P : s = Nth(P, j) /\ t = Nth(P, k) /\ count(s) = j /\ count(t) = k
    BY <1>7
  <2>2. QED
    BY <1>4, <2>1
<1>10. QED
  BY <1>1, <1>7, <1>8, <1>9 DEF count, upTo

\* A later place does not renumber those before it.
LEMMA NthGrows ==
  ASSUME NEW n \in Nat, NEW P, P \subseteq 1 .. n
  PROVE  /\ Cardinality(P \cup {n + 1}) = Cardinality(P) + 1
         /\ \A k \in 1 .. Cardinality(P) : Nth(P \cup {n + 1}, k) = Nth(P, k)
         /\ Nth(P \cup {n + 1}, Cardinality(P) + 1) = n + 1
<1> DEFINE Q == P \cup {n + 1}
<1>1. IsFiniteSet(P) /\ Cardinality(P) \in Nat
  BY NthHolds
<1>2. Cardinality(Q) = Cardinality(P) + 1
  <2>1. n + 1 \notin P
    OBVIOUS
  <2>2. QED
    BY <1>1, <2>1, FS_AddElement
<1>3. \A s \in Q : Nth(Q, Cardinality({t \in Q : t <= s})) = s
  <2>1. Q \subseteq 1 .. n + 1 /\ n + 1 \in Nat
    OBVIOUS
  <2> HIDE DEF Q
  <2>2. QED
    BY <2>1, NthHolds
<1>4. ASSUME NEW k \in 1 .. Cardinality(P)
      PROVE  Nth(Q, k) = Nth(P, k)
  <2>1. PICK s \in P : s = Nth(P, k) /\ Cardinality({t \in P : t <= s}) = k
    BY NthHolds
  <2>2. {t \in Q : t <= s} = {t \in P : t <= s}
    OBVIOUS
  <2>3. s \in Q
    OBVIOUS
  <2> HIDE DEF Q
  <2>4. QED
    BY <1>3, <2>1, <2>2, <2>3
<1>5. Nth(Q, Cardinality(P) + 1) = n + 1
  <2>1. {t \in Q : t <= n + 1} = Q /\ n + 1 \in Q
    <3>1. \A t \in Q : t <= n + 1
      OBVIOUS
    <3>2. QED
      BY <3>1
  <2> HIDE DEF Q
  <2>2. QED
    BY <1>2, <1>3, <2>1
<1>6. QED
  BY <1>2, <1>4, <1>5

-----------------------------------------------------------------------------
(* One more entry.                                                         *)

\* The list f is e, of n entries, and x after it.
OneMore(f, e, x, n) ==
  /\ DOMAIN e = 1 .. n /\ DOMAIN f = 1 .. n + 1
  /\ f[n + 1] = x /\ \A k \in 1 .. n : f[k] = e[k]

LEMMA AppendIsOneMore ==
  ASSUME NEW E, NEW e \in Seq(E), NEW x \in E
  PROVE  Len(e) \in Nat /\ Append(e, x) \in Seq(E) /\ OneMore(Append(e, x), e, x, Len(e))
  BY DEF OneMore

\* Where the entries of a kind are then.
LEMMA OneMoreSnapshot ==
  ASSUME NEW n \in Nat, NEW e, NEW x, NEW f, OneMore(f, e, x, n)
  PROVE  /\ SnapshotPlaces(e) \subseteq 1 .. n
         /\ \A k : k \in SnapshotPlaces(f) <=>
                   \/ k \in SnapshotPlaces(e)
                   \/ k = n + 1 /\ x.kind = "snapshot"
<1>1. \A k : k \in 1 .. n + 1 <=> k \in 1 .. n \/ k = n + 1
  OBVIOUS
<1>2. QED
  BY <1>1 DEF OneMore, SnapshotPlaces

LEMMA OneMorePlace ==
  ASSUME NEW n \in Nat, NEW e, NEW x, NEW f, OneMore(f, e, x, n), NEW kind, NEW id
  PROVE  /\ PlacesOf(e, kind, id) \subseteq 1 .. n
         /\ \A k : k \in PlacesOf(f, kind, id) <=>
                   \/ k \in PlacesOf(e, kind, id)
                   \/ k = n + 1 /\ x.kind = kind /\ x.store_id = id
<1>1. \A k : k \in 1 .. n + 1 <=> k \in 1 .. n \/ k = n + 1
  OBVIOUS
<1>2. QED
  BY <1>1 DEF OneMore, PlacesOf

\* It counts for the entries before it, and changes no count up to it.
LEMMA BetweenNext ==
  ASSUME NEW n \in Nat, NEW e, NEW x, NEW f, OneMore(f, e, x, n), NEW kind, NEW id, NEW s \in 1 .. n
  PROVE  /\ \A q \in 1 .. n + 1 : Between(f, kind, id, s, q) = Between(e, kind, id, s, q)
         /\ Cardinality(Between(e, kind, id, s, n + 1)) \in Nat
         /\ x.kind = kind /\ x.store_id = id =>
              Cardinality(Between(f, kind, id, s, n + 2))
                = Cardinality(Between(e, kind, id, s, n + 1)) + 1
         /\ ~(x.kind = kind /\ x.store_id = id) =>
              Between(f, kind, id, s, n + 2) = Between(e, kind, id, s, n + 1)
<1>1. /\ PlacesOf(e, kind, id) \subseteq 1 .. n
      /\ \A k : k \in PlacesOf(f, kind, id) <=>
                \/ k \in PlacesOf(e, kind, id)
                \/ k = n + 1 /\ x.kind = kind /\ x.store_id = id
  BY OneMorePlace
<1>2. s < n + 1 /\ n + 1 < n + 2 /\ \A k \in 1 .. n : k < n + 1 /\ k < n + 2
  OBVIOUS
<1>3. \A q \in 1 .. n + 1 : Between(f, kind, id, s, q) = Between(e, kind, id, s, q)
  BY <1>1 DEF Between
<1> DEFINE B == Between(e, kind, id, s, n + 1)
<1>4. B \in SUBSET (1 .. n) /\ IsFiniteSet(1 .. n) /\ n + 1 \notin B
  BY <1>1, FS_Interval DEF Between
<1>5. Between(f, kind, id, s, n + 2) =
        IF x.kind = kind /\ x.store_id = id THEN B \cup {n + 1} ELSE B
  BY <1>1, <1>2 DEF Between
<1> HIDE DEF B
<1>6. IsFiniteSet(B) /\ Cardinality(B) \in Nat /\ Cardinality(B \cup {n + 1}) = Cardinality(B) + 1
  BY <1>4, FS_Subset, FS_CardinalityType, FS_AddElement
<1>7. QED
  BY <1>3, <1>5, <1>6 DEF B

LEMMA BalanceNext ==
  ASSUME NEW n \in Nat, NEW e, NEW x, NEW f, OneMore(f, e, x, n), NEW s \in 1 .. n
  PROVE  /\ \A q \in 1 .. n + 1 : Balance(f, s, q) = Balance(e, s, q)
         /\ Balance(e, s, n + 1) \in Int
         /\ x.store_id # e[s].store_id => Balance(f, s, n + 2) = Balance(e, s, n + 1)
         /\ x.kind \notin {"snapshot", "pointer"} => Balance(f, s, n + 2) = Balance(e, s, n + 1)
         /\ x.store_id = e[s].store_id /\ x.kind = "snapshot" =>
              Balance(f, s, n + 2) = Balance(e, s, n + 1) + 1
         /\ x.store_id = e[s].store_id /\ x.kind = "pointer" =>
              Balance(f, s, n + 2) = Balance(e, s, n + 1) - 1
<1>1. PICK id : id = e[s].store_id /\ id = f[s].store_id
  BY DEF OneMore
<1> DEFINE Opened(l, q) == Between(l, "snapshot", id, s, q)
           Closed(l, q) == Between(l, "pointer", id, s, q)
<1>2. \A q : /\ Balance(e, s, q) = Cardinality(Opened(e, q)) - Cardinality(Closed(e, q))
             /\ Balance(f, s, q) = Cardinality(Opened(f, q)) - Cardinality(Closed(f, q))
  BY <1>1 DEF Balance
<1>3. ASSUME NEW kind
      PROVE  /\ \A q \in 1 .. n + 1 : Between(f, kind, id, s, q) = Between(e, kind, id, s, q)
             /\ Cardinality(Between(e, kind, id, s, n + 1)) \in Nat
             /\ x.kind = kind /\ x.store_id = id =>
                  Cardinality(Between(f, kind, id, s, n + 2))
                    = Cardinality(Between(e, kind, id, s, n + 1)) + 1
             /\ ~(x.kind = kind /\ x.store_id = id) =>
                  Between(f, kind, id, s, n + 2) = Between(e, kind, id, s, n + 1)
  BY BetweenNext, Z3
<1>4. \A q \in 1 .. n + 1 : Balance(f, s, q) = Balance(e, s, q)
  BY <1>2, <1>3
<1>5. /\ Cardinality(Opened(e, n + 1)) \in Nat /\ Cardinality(Closed(e, n + 1)) \in Nat
      /\ Cardinality(Opened(f, n + 2)) =
           IF x.kind = "snapshot" /\ x.store_id = id THEN Cardinality(Opened(e, n + 1)) + 1
           ELSE Cardinality(Opened(e, n + 1))
      /\ Cardinality(Closed(f, n + 2)) =
           IF x.kind = "pointer" /\ x.store_id = id THEN Cardinality(Closed(e, n + 1)) + 1
           ELSE Cardinality(Closed(e, n + 1))
  BY <1>3
<1> HIDE DEF Opened, Closed
<1>6. QED
  BY <1>1, <1>2, <1>4, <1>5

-----------------------------------------------------------------------------
(* Which snapshots are closed.                                             *)

\* Which pointers of the list close a snapshot of it, and when the new entry does.
LEMMA ClosesNext ==
  ASSUME NEW n \in Nat, NEW e, NEW x, NEW f, OneMore(f, e, x, n), NEW s \in 1 .. n
  PROVE  /\ \A p \in 1 .. n : Closes(f, p, s) <=> Closes(e, p, s)
         /\ Closes(f, n + 1, s) <=>
              /\ x.kind = "pointer" /\ x.store_id = e[s].store_id
              /\ Balance(e, s, n + 1) = 0
              /\ \A q \in PlacesOf(e, "pointer", e[s].store_id) : s < q => Balance(e, s, q) > 0
<1>1. PICK id : id = e[s].store_id /\ id = f[s].store_id
  BY DEF OneMore
<1>2. /\ PlacesOf(e, "pointer", id) \subseteq 1 .. n
      /\ \A k : k \in PlacesOf(f, "pointer", id) <=>
                \/ k \in PlacesOf(e, "pointer", id)
                \/ k = n + 1 /\ x.kind = "pointer" /\ x.store_id = id
  BY OneMorePlace
<1>3. \A q \in 1 .. n + 1 : Balance(f, s, q) = Balance(e, s, q)
  BY BalanceNext
<1>4. \A l, p : (l = e \/ l = f) =>
        (Closes(l, p, s) <=>
           /\ p \in PlacesOf(l, "pointer", id)
           /\ s < p
           /\ Balance(l, s, p) = 0
           /\ \A q \in PlacesOf(l, "pointer", id) : s < q /\ q < p => Balance(l, s, q) > 0)
  BY <1>1 DEF Closes
<1>5. ASSUME NEW p \in 1 .. n + 1
      PROVE  (\A q \in PlacesOf(f, "pointer", id) : s < q /\ q < p => Balance(f, s, q) > 0)
         <=> (\A q \in PlacesOf(e, "pointer", id) : s < q /\ q < p => Balance(e, s, q) > 0)
  BY <1>2, <1>3
<1>6. \A p \in 1 .. n : Closes(f, p, s) <=> Closes(e, p, s)
  <2>1. TAKE p \in 1 .. n
  <2>2. p \in PlacesOf(f, "pointer", id) <=> p \in PlacesOf(e, "pointer", id)
    BY <1>2
  <2>3. Balance(f, s, p) = Balance(e, s, p) /\ p \in 1 .. n + 1
    BY <1>3
  <2>4. QED
    BY <1>4, <1>5, <2>2, <2>3
<1>7. /\ n + 1 \in PlacesOf(f, "pointer", id) <=> x.kind = "pointer" /\ x.store_id = id
      /\ s < n + 1 /\ n + 1 \in 1 .. n + 1
      /\ \A q \in PlacesOf(e, "pointer", id) : q < n + 1
  BY <1>2
<1>8. (\A q \in PlacesOf(f, "pointer", id) : s < q /\ q < n + 1 => Balance(f, s, q) > 0)
         <=> (\A q \in PlacesOf(e, "pointer", id) : s < q => Balance(e, s, q) > 0)
  BY <1>5, <1>7
<1>9. Balance(f, s, n + 1) = Balance(e, s, n + 1)
  BY <1>3, <1>7
<1>10. QED
  BY <1>1, <1>4, <1>6, <1>7, <1>8, <1>9

\* Nothing closes the new entry.
LEMMA NewIsOpen ==
  ASSUME NEW n \in Nat, NEW e, NEW x, NEW f, OneMore(f, e, x, n)
  PROVE  /\ \A p \in 1 .. n + 1 : ~Closes(f, p, n + 1)
         /\ Balance(f, n + 1, n + 2) = 0
<1>1. ASSUME NEW kind, NEW id
      PROVE  Between(f, kind, id, n + 1, n + 2) = {}
  BY DEF Between, PlacesOf, OneMore
<1>2. Balance(f, n + 1, n + 2) = 0
  BY <1>1, FS_EmptySet DEF Balance
<1>3. QED
  BY <1>2 DEF Closes

\* The snapshots that wait for a pointer, and those of them after one.
IsOpen(e, s) == s \in SnapshotPlaces(e) /\ \A p \in DOMAIN e : ~Closes(e, p, s)

OpenAfter(e, s) ==
  {t \in SnapshotPlaces(e) : e[t].store_id = e[s].store_id /\ s < t /\ IsOpen(e, t)}

\* A snapshot waits as long as it is short of pointers, and for one more than
\* wait after it.
Balanced(e, n) ==
  \A s \in SnapshotPlaces(e) :
    IsOpen(e, s) =>
      /\ Balance(e, s, n + 1) = Cardinality(OpenAfter(e, s))
      /\ \A q \in PlacesOf(e, "pointer", e[s].store_id) : s < q => Balance(e, s, q) > 0

\* The new entry closes the last snapshot that waits for it.
LEMMA ClosesLast ==
  ASSUME NEW n \in Nat, NEW e, NEW x, NEW f, OneMore(f, e, x, n), Balanced(e, n),
         NEW s \in SnapshotPlaces(e)
  PROVE  /\ IsFiniteSet(OpenAfter(e, s)) /\ OpenAfter(e, s) \subseteq 1 .. n
         /\ Closes(f, n + 1, s) <=>
              /\ x.kind = "pointer" /\ x.store_id = e[s].store_id
              /\ IsOpen(e, s) /\ OpenAfter(e, s) = {}
         /\ IsOpen(f, s) <=> IsOpen(e, s) /\ ~Closes(f, n + 1, s)
<1>1. s \in 1 .. n /\ SnapshotPlaces(e) \subseteq 1 .. n
  BY OneMoreSnapshot
<1>2. IsFiniteSet(OpenAfter(e, s)) /\ OpenAfter(e, s) \subseteq 1 .. n
  <2>1. OpenAfter(e, s) \in SUBSET (1 .. n) /\ IsFiniteSet(1 .. n)
    BY <1>1, FS_Interval DEF OpenAfter
  <2>2. QED
    BY <2>1, FS_Subset
<1>3. Cardinality(OpenAfter(e, s)) = 0 <=> OpenAfter(e, s) = {}
  BY <1>2, FS_EmptySet
<1>4. ASSUME Closes(f, n + 1, s)
      PROVE  /\ x.kind = "pointer" /\ x.store_id = e[s].store_id
             /\ IsOpen(e, s) /\ OpenAfter(e, s) = {}
  <2>1. /\ x.kind = "pointer" /\ x.store_id = e[s].store_id
        /\ Balance(e, s, n + 1) = 0
        /\ \A q \in PlacesOf(e, "pointer", e[s].store_id) : s < q => Balance(e, s, q) > 0
    BY <1>1, <1>4, ClosesNext
  <2>2. ASSUME NEW p, Closes(e, p, s)
        PROVE  FALSE
    <3>1. p \in PlacesOf(e, "pointer", e[s].store_id) /\ s < p /\ Balance(e, s, p) = 0
      BY <2>2 DEF Closes
    <3>2. QED
      BY <2>1, <3>1
  <2>3. IsOpen(e, s)
    BY <2>2 DEF IsOpen
  <2>4. QED
    BY <1>3, <2>1, <2>3 DEF Balanced
<1>5. ASSUME x.kind = "pointer", x.store_id = e[s].store_id,
             IsOpen(e, s), OpenAfter(e, s) = {}
      PROVE  Closes(f, n + 1, s)
  <2>1. /\ Balance(e, s, n + 1) = 0
        /\ \A q \in PlacesOf(e, "pointer", e[s].store_id) : s < q => Balance(e, s, q) > 0
    BY <1>3, <1>5 DEF Balanced
  <2>2. QED
    BY <1>1, <1>5, <2>1, ClosesNext
<1>6. IsOpen(f, s) <=> IsOpen(e, s) /\ ~Closes(f, n + 1, s)
  <2>1. /\ \A p \in 1 .. n : Closes(f, p, s) <=> Closes(e, p, s)
    BY <1>1, ClosesNext
  <2>2. DOMAIN e = 1 .. n /\ DOMAIN f = 1 .. n + 1 /\ s \in SnapshotPlaces(f)
    BY OneMoreSnapshot DEF OneMore
  <2>3. \A p : p \in 1 .. n + 1 <=> p \in 1 .. n \/ p = n + 1
    OBVIOUS
  <2>4. QED
    BY <2>1, <2>2, <2>3 DEF IsOpen
<1>7. QED
  BY <1>2, <1>4, <1>5, <1>6

\* Which snapshots wait after an older one, with the new entry.
LEMMA OpenAfterNext ==
  ASSUME NEW n \in Nat, NEW e, NEW x, NEW f, OneMore(f, e, x, n), Balanced(e, n),
         NEW s \in SnapshotPlaces(e)
  PROVE  \A t : t \in OpenAfter(f, s) <=>
           \/ t \in OpenAfter(e, s) /\ ~Closes(f, n + 1, t)
           \/ t = n + 1 /\ x.kind = "snapshot" /\ x.store_id = e[s].store_id
<1>1. /\ SnapshotPlaces(e) \subseteq 1 .. n
      /\ \A k : k \in SnapshotPlaces(f) <=>
                \/ k \in SnapshotPlaces(e)
                \/ k = n + 1 /\ x.kind = "snapshot"
  BY OneMoreSnapshot
<1>2. f[s] = e[s] /\ f[n + 1] = x /\ s < n + 1 /\ n + 1 \notin SnapshotPlaces(e)
  BY <1>1 DEF OneMore
<1>3. \A t : t \in OpenAfter(f, s) <=>
        t \in SnapshotPlaces(f) /\ f[t].store_id = e[s].store_id /\ s < t /\ IsOpen(f, t)
  BY <1>2 DEF OpenAfter
<1>4. \A t \in SnapshotPlaces(e) : f[t] = e[t] /\ (IsOpen(f, t) <=> IsOpen(e, t) /\ ~Closes(f, n + 1, t))
  <2>1. TAKE t \in SnapshotPlaces(e)
  <2>2. f[t] = e[t]
    BY <1>1 DEF OneMore
  <2>3. QED
    BY <2>2, ClosesLast
<1>5. x.kind = "snapshot" => IsOpen(f, n + 1)
  BY <1>1, NewIsOpen DEF IsOpen, OneMore
<1>6. \A t \in SnapshotPlaces(e) : t \in OpenAfter(f, s) <=> t \in OpenAfter(e, s) /\ ~Closes(f, n + 1, t)
  BY <1>1, <1>3, <1>4 DEF OpenAfter
<1>7. n + 1 \in OpenAfter(f, s) <=> x.kind = "snapshot" /\ x.store_id = e[s].store_id
  BY <1>1, <1>2, <1>3, <1>5
<1>8. \A t : t \in OpenAfter(f, s) => t \in SnapshotPlaces(e) \/ t = n + 1
  BY <1>1, <1>3
<1>9. \A t : t \in OpenAfter(e, s) => t \in SnapshotPlaces(e)
  BY DEF OpenAfter
<1>10. QED
  BY <1>2, <1>6, <1>7, <1>8, <1>9

LEMMA OpenAfterCount ==
  ASSUME NEW n \in Nat, NEW e, NEW x, NEW f, OneMore(f, e, x, n), Balanced(e, n),
         NEW s \in SnapshotPlaces(e), IsOpen(f, s)
  PROVE  /\ Cardinality(OpenAfter(e, s)) \in Nat
         /\ x.store_id # e[s].store_id => OpenAfter(f, s) = OpenAfter(e, s)
         /\ x.kind \notin {"snapshot", "pointer"} => OpenAfter(f, s) = OpenAfter(e, s)
         /\ x.store_id = e[s].store_id /\ x.kind = "snapshot" =>
              Cardinality(OpenAfter(f, s)) = Cardinality(OpenAfter(e, s)) + 1
         /\ x.store_id = e[s].store_id /\ x.kind = "pointer" =>
              /\ Cardinality(OpenAfter(e, s)) > 0
              /\ Cardinality(OpenAfter(f, s)) = Cardinality(OpenAfter(e, s)) - 1
<1> DEFINE A == OpenAfter(e, s)
<1>1. /\ IsFiniteSet(A) /\ A \subseteq 1 .. n /\ Cardinality(A) \in Nat /\ n + 1 \notin A
      /\ \A t \in A : t \in SnapshotPlaces(e) /\ e[t].store_id = e[s].store_id /\ s < t /\ IsOpen(e, t)
  <2>1. IsFiniteSet(A) /\ A \subseteq 1 .. n
    BY ClosesLast
  <2>2. QED
    BY <2>1, FS_CardinalityType DEF OpenAfter
<1>2. \A t : t \in OpenAfter(f, s) <=>
        \/ t \in A /\ ~Closes(f, n + 1, t)
        \/ t = n + 1 /\ x.kind = "snapshot" /\ x.store_id = e[s].store_id
  BY OpenAfterNext
<1>3. \A t \in A : Closes(f, n + 1, t) <=>
        x.kind = "pointer" /\ x.store_id = e[s].store_id /\ OpenAfter(e, t) = {}
  BY <1>1, ClosesLast
<1>4. ASSUME x.store_id # e[s].store_id \/ x.kind \notin {"snapshot", "pointer"}
      PROVE  OpenAfter(f, s) = A
  BY <1>2, <1>3, <1>4
<1>5. ASSUME x.store_id = e[s].store_id, x.kind = "snapshot"
      PROVE  Cardinality(OpenAfter(f, s)) = Cardinality(A) + 1
  <2>1. OpenAfter(f, s) = A \cup {n + 1}
    BY <1>2, <1>3, <1>5
  <2> HIDE DEF A
  <2>2. QED
    BY <1>1, <2>1, FS_AddElement
<1>6. ASSUME x.store_id = e[s].store_id, x.kind = "pointer"
      PROVE  Cardinality(A) > 0 /\ Cardinality(OpenAfter(f, s)) = Cardinality(A) - 1
  <2>1. A # {}
    BY <1>6, ClosesLast
  <2>2. PICK m \in A : \A t \in A : m >= t
    <3> HIDE DEF A
    <3>1. QED
      BY <1>1, <2>1, LastExists
  <2>3. \A t \in A : m \in OpenAfter(e, t) <=> t # m
    BY <1>1, <2>2 DEF OpenAfter
  <2>4. OpenAfter(e, m) = {}
    <3>1. SnapshotPlaces(e) \subseteq 1 .. n /\ s < m /\ e[m].store_id = e[s].store_id
      BY <1>1, OneMoreSnapshot
    <3>2. \A t \in OpenAfter(e, m) : t \in A /\ m < t
      BY <3>1 DEF OpenAfter
    <3>3. QED
      BY <1>1, <2>2, <3>2
  <2>5. \A t \in A : Closes(f, n + 1, t) <=> t = m
    BY <1>3, <1>6, <2>3, <2>4
  <2>6. OpenAfter(f, s) = A \ {m}
    BY <1>2, <1>6, <2>5
  <2> HIDE DEF A
  <2>7. Cardinality(A) # 0
    BY <1>1, <2>1, FS_EmptySet
  <2>8. Cardinality(A \ {m}) = Cardinality(A) - 1
    BY <1>1, FS_RemoveElement
  <2>9. QED
    BY <1>1, <2>6, <2>7, <2>8
<1>7. QED
  BY <1>1, <1>4, <1>5, <1>6

\* So the reading stays right, entry by entry.
LEMMA BalancedNext ==
  ASSUME NEW n \in Nat, NEW e, NEW x, NEW f, OneMore(f, e, x, n), Balanced(e, n)
  PROVE  Balanced(f, n + 1)
<1>1. /\ SnapshotPlaces(e) \subseteq 1 .. n
      /\ \A k : k \in SnapshotPlaces(f) =>
                \/ k \in SnapshotPlaces(e)
                \/ k = n + 1 /\ x.kind = "snapshot"
  BY OneMoreSnapshot
<1>2. \A kind, id : PlacesOf(f, kind, id) \subseteq 1 .. n + 1
  BY DEF OneMore, PlacesOf
<1>3. n + 1 + 1 = n + 2
  OBVIOUS
<1> SUFFICES ASSUME NEW s \in SnapshotPlaces(f), IsOpen(f, s)
             PROVE  /\ Balance(f, s, n + 2) = Cardinality(OpenAfter(f, s))
                    /\ \A q \in PlacesOf(f, "pointer", f[s].store_id) : s < q => Balance(f, s, q) > 0
  BY <1>3 DEF Balanced
<1>4. CASE s = n + 1
  <2>1. OpenAfter(f, s) = {}
    BY <1>4 DEF OpenAfter, SnapshotPlaces, OneMore
  <2>2. \A q \in PlacesOf(f, "pointer", f[s].store_id) : ~(s < q)
    BY <1>2, <1>4
  <2>3. QED
    BY <1>4, <2>1, <2>2, NewIsOpen, FS_EmptySet
<1>5. CASE s \in SnapshotPlaces(e)
  <2>1. s \in 1 .. n /\ f[s] = e[s]
    BY <1>1, <1>5 DEF OneMore
  <2>2. IsOpen(e, s)
    BY <1>5, ClosesLast
  <2>3. /\ Balance(e, s, n + 1) = Cardinality(OpenAfter(e, s))
        /\ \A q \in PlacesOf(e, "pointer", e[s].store_id) : s < q => Balance(e, s, q) > 0
    BY <1>5, <2>2 DEF Balanced
  <2>4. /\ Cardinality(OpenAfter(e, s)) \in Nat
        /\ x.store_id # e[s].store_id => OpenAfter(f, s) = OpenAfter(e, s)
        /\ x.kind \notin {"snapshot", "pointer"} => OpenAfter(f, s) = OpenAfter(e, s)
        /\ x.store_id = e[s].store_id /\ x.kind = "snapshot" =>
             Cardinality(OpenAfter(f, s)) = Cardinality(OpenAfter(e, s)) + 1
        /\ x.store_id = e[s].store_id /\ x.kind = "pointer" =>
             /\ Cardinality(OpenAfter(e, s)) > 0
             /\ Cardinality(OpenAfter(f, s)) = Cardinality(OpenAfter(e, s)) - 1
    BY <1>5, OpenAfterCount
  <2>5. /\ \A q \in 1 .. n + 1 : Balance(f, s, q) = Balance(e, s, q)
        /\ x.store_id # e[s].store_id => Balance(f, s, n + 2) = Balance(e, s, n + 1)
        /\ x.kind \notin {"snapshot", "pointer"} => Balance(f, s, n + 2) = Balance(e, s, n + 1)
        /\ x.store_id = e[s].store_id /\ x.kind = "snapshot" =>
             Balance(f, s, n + 2) = Balance(e, s, n + 1) + 1
        /\ x.store_id = e[s].store_id /\ x.kind = "pointer" =>
             Balance(f, s, n + 2) = Balance(e, s, n + 1) - 1
    BY <2>1, BalanceNext
  <2>6. Balance(f, s, n + 2) = Cardinality(OpenAfter(f, s))
    BY <2>3, <2>4, <2>5
  <2>7. ASSUME NEW q \in PlacesOf(f, "pointer", f[s].store_id), s < q
        PROVE  Balance(f, s, q) > 0
    <3>1. q \in 1 .. n + 1 /\ Balance(f, s, q) = Balance(e, s, q)
      BY <1>2, <2>5
    <3>2. \/ q \in PlacesOf(e, "pointer", e[s].store_id)
          \/ q = n + 1 /\ x.kind = "pointer" /\ x.store_id = e[s].store_id
      BY <2>1, OneMorePlace
    <3>3. QED
      BY <2>3, <2>4, <2>7, <3>1, <3>2
  <2>8. QED
    BY <2>6, <2>7
<1>6. QED
  BY <1>1, <1>4, <1>5

LEMMA BalancedEmpty == Balanced(<< >>, 0)
  BY DEF Balanced, SnapshotPlaces

-----------------------------------------------------------------------------
(* What becomes of the stores.                                             *)

\* A snapshot that waits has no offsets, one that is closed has a pointer's.
LEMMA StoreOffsets ==
  ASSUME NEW n \in Nat, NEW e, DOMAIN e = 1 .. n, NEW s \in SnapshotPlaces(e),
         \A k \in 1 .. n : e[k].kind = "pointer" => e[k].header # None
  PROVE  /\ StoreAt(e, s).store_id = e[s].store_id
         /\ IsOpen(e, s) => StoreAt(e, s) = [store_id |-> e[s].store_id, header |-> None, bitmap |-> None]
         /\ StoreAt(e, s).header = None <=> IsOpen(e, s)
<1> DEFINE closing == {p \in DOMAIN e : Closes(e, p, s)}
           last == CHOOSE p \in closing : TRUE
<1>1. IsOpen(e, s) <=> closing = {}
  BY DEF IsOpen
<1>2. closing = {} => StoreAt(e, s) = [store_id |-> e[s].store_id, header |-> None, bitmap |-> None]
  BY DEF StoreAt
<1>3. closing # {} =>
        StoreAt(e, s) = [store_id |-> e[s].store_id, header |-> e[last].header, bitmap |-> e[last].bitmap]
  BY DEF StoreAt
<1>4. closing # {} => e[last].header # None
  <2>1. closing # {} => last \in closing
    OBVIOUS
  <2>2. \A p \in closing : p \in 1 .. n /\ e[p].kind = "pointer"
    BY DEF Closes, PlacesOf
  <2>3. QED
    BY <2>1, <2>2
<1> HIDE DEF closing, last
<1>5. QED
  BY <1>1, <1>2, <1>3, <1>4

\* An entry gives its offsets to the snapshot it closes, and changes no other.
LEMMA StoreAtNext ==
  ASSUME NEW n \in Nat, NEW e, NEW x, NEW f, OneMore(f, e, x, n), Balanced(e, n),
         NEW s \in SnapshotPlaces(e)
  PROVE  /\ ~Closes(f, n + 1, s) => StoreAt(f, s) = StoreAt(e, s)
         /\ Closes(f, n + 1, s) =>
              StoreAt(f, s) = [store_id |-> e[s].store_id, header |-> x.header, bitmap |-> x.bitmap]
<1>1. s \in 1 .. n /\ f[s] = e[s]
  BY OneMoreSnapshot DEF OneMore
<1>2. \A p \in 1 .. n : f[p] = e[p] /\ (Closes(f, p, s) <=> Closes(e, p, s))
  BY <1>1, ClosesNext DEF OneMore
<1>3. ASSUME ~Closes(f, n + 1, s)
      PROVE  StoreAt(f, s) = StoreAt(e, s)
  <2> DEFINE closing == {p \in DOMAIN e : Closes(e, p, s)}
             last == CHOOSE p \in closing : TRUE
  <2>1. {p \in DOMAIN f : Closes(f, p, s)} = closing
    <3>1. \A p : p \in DOMAIN f <=> p \in DOMAIN e \/ p = n + 1
      BY DEF OneMore
    <3>2. DOMAIN e = 1 .. n
      BY DEF OneMore
    <3>3. QED
      BY <1>2, <1>3, <3>1, <3>2
  <2>2. closing # {} => f[last] = e[last]
    <3>1. closing # {} => last \in closing
      OBVIOUS
    <3>2. \A p \in closing : p \in 1 .. n
      BY DEF OneMore
    <3>3. QED
      BY <1>2, <3>1, <3>2
  <2> DEFINE offsets(l, C) == IF C = {} THEN [header |-> None, bitmap |-> None]
                              ELSE l[CHOOSE p \in C : TRUE]
             store(id, o) == [store_id |-> id, header |-> o.header, bitmap |-> o.bitmap]
  <2>3. /\ StoreAt(f, s) = store(f[s].store_id, offsets(f, {p \in DOMAIN f : Closes(f, p, s)}))
        /\ StoreAt(e, s) = store(e[s].store_id, offsets(e, closing))
    BY DEF StoreAt
  <2>4. offsets(f, closing) = offsets(e, closing)
    BY <2>2
  <2> HIDE DEF closing, last, offsets, store
  <2>5. QED
    BY <1>1, <2>1, <2>3, <2>4
<1>4. ASSUME Closes(f, n + 1, s)
      PROVE  StoreAt(f, s) = [store_id |-> e[s].store_id, header |-> x.header, bitmap |-> x.bitmap]
  <2>1. IsOpen(e, s)
    BY <1>4, ClosesLast
  <2>2. \A p \in DOMAIN f : Closes(f, p, s) <=> p = n + 1
    <3>1. \A p \in 1 .. n : ~Closes(f, p, s)
      BY <1>2, <2>1 DEF IsOpen, OneMore
    <3>2. \A p \in DOMAIN f : p \in 1 .. n \/ p = n + 1
      BY DEF OneMore
    <3>3. QED
      BY <1>4, <3>1, <3>2
  <2>3. n + 1 \in DOMAIN f /\ f[n + 1] = x
    BY DEF OneMore
  <2>4. {p \in DOMAIN f : Closes(f, p, s)} = {n + 1}
    BY <2>2, <2>3
  <2>5. (CHOOSE p \in {n + 1} : TRUE) = n + 1
    OBVIOUS
  <2>6. QED
    BY <1>1, <2>3, <2>4, <2>5 DEF StoreAt
<1>5. QED
  BY <1>3, <1>4

\* The stores are numbered by their places.
LEMMA StoresPlaces ==
  ASSUME NEW n \in Nat, NEW e, DOMAIN e = 1 .. n
  PROVE  /\ Cardinality(SnapshotPlaces(e)) \in Nat
         /\ DOMAIN StoresOf(e) = 1 .. Cardinality(SnapshotPlaces(e))
         /\ StoresOf(e) = [k \in 1 .. Cardinality(SnapshotPlaces(e)) |-> StoresOf(e)[k]]
         /\ \A k \in 1 .. Cardinality(SnapshotPlaces(e)) :
              /\ Nth(SnapshotPlaces(e), k) \in SnapshotPlaces(e)
              /\ StoresOf(e)[k] = StoreAt(e, Nth(SnapshotPlaces(e), k))
<1> DEFINE P == SnapshotPlaces(e)
<1>1. P \subseteq 1 .. n
  BY DEF SnapshotPlaces
<1>2. StoresOf(e) = [k \in 1 .. Cardinality(P) |-> StoreAt(e, Nth(P, k))]
  BY DEF StoresOf
<1> HIDE DEF P
<1>3. Cardinality(P) \in Nat /\ \A k \in 1 .. Cardinality(P) : Nth(P, k) \in P
  BY <1>1, NthHolds
<1>4. QED
  BY <1>2, <1>3 DEF P

\* A snapshot entry adds a store without offsets.
LEMMA SnapshotAddsStore ==
  ASSUME NEW n \in Nat, NEW e, NEW x, NEW f, OneMore(f, e, x, n), Balanced(e, n), x.kind = "snapshot"
  PROVE  OneMore(StoresOf(f), StoresOf(e), [store_id |-> x.store_id, header |-> None, bitmap |-> None],
                 Cardinality(SnapshotPlaces(e)))
<1> DEFINE P == SnapshotPlaces(e)
           c == Cardinality(P)
<1>1. P \subseteq 1 .. n /\ SnapshotPlaces(f) = P \cup {n + 1}
  BY OneMoreSnapshot
<1>2. DOMAIN e = 1 .. n /\ DOMAIN f = 1 .. n + 1 /\ f[n + 1] = x /\ n + 1 \in Nat
  BY DEF OneMore
<1>3. /\ c \in Nat /\ DOMAIN StoresOf(e) = 1 .. c
      /\ \A k \in 1 .. c : Nth(P, k) \in P /\ StoresOf(e)[k] = StoreAt(e, Nth(P, k))
  BY <1>2, StoresPlaces
<1>4. /\ Cardinality(P \cup {n + 1}) = c + 1
      /\ \A k \in 1 .. c : Nth(P \cup {n + 1}, k) = Nth(P, k)
      /\ Nth(P \cup {n + 1}, c + 1) = n + 1
  <2> HIDE DEF P
  <2>1. QED
    BY <1>1, NthGrows
<1>5. /\ DOMAIN StoresOf(f) = 1 .. c + 1
      /\ \A k \in 1 .. c + 1 : StoresOf(f)[k] = StoreAt(f, Nth(P \cup {n + 1}, k))
  BY <1>1, <1>2, <1>4, StoresPlaces
<1>6. \A s \in P : StoreAt(f, s) = StoreAt(e, s)
  <2>1. TAKE s \in P
  <2>2. ~Closes(f, n + 1, s)
    BY ClosesLast
  <2>3. QED
    BY <2>2, StoreAtNext
<1>7. StoreAt(f, n + 1) = [store_id |-> x.store_id, header |-> None, bitmap |-> None]
  <2>1. {p \in DOMAIN f : Closes(f, p, n + 1)} = {}
    BY <1>2, NewIsOpen
  <2>2. QED
    BY <1>2, <2>1 DEF StoreAt
<1> HIDE DEF P, c
<1>8. c + 1 \in 1 .. c + 1 /\ \A k \in 1 .. c : k \in 1 .. c + 1
  BY <1>3
<1>9. \A k \in 1 .. c : StoresOf(f)[k] = StoresOf(e)[k]
  BY <1>3, <1>4, <1>5, <1>6, <1>8
<1>10. StoresOf(f)[c + 1] = [store_id |-> x.store_id, header |-> None, bitmap |-> None]
  BY <1>4, <1>5, <1>7, <1>8
<1>11. QED
  BY <1>3, <1>5, <1>9, <1>10 DEF OneMore, P, c

\* An entry of no meaning changes no store.
LEMMA OtherKeepsStores ==
  ASSUME NEW n \in Nat, NEW e, NEW x, NEW f, OneMore(f, e, x, n), Balanced(e, n),
         x.kind \notin {"snapshot", "pointer"}
  PROVE  StoresOf(f) = StoresOf(e)
<1> DEFINE P == SnapshotPlaces(e)
<1>1. P \subseteq 1 .. n /\ SnapshotPlaces(f) = P
  BY OneMoreSnapshot
<1>2. \A s \in P : StoreAt(f, s) = StoreAt(e, s)
  <2>1. TAKE s \in P
  <2>2. ~Closes(f, n + 1, s)
    BY ClosesLast
  <2>3. QED
    BY <2>2, StoreAtNext
<1>3. \A k \in 1 .. Cardinality(P) : Nth(P, k) \in P
  <2> HIDE DEF P
  <2>1. QED
    BY <1>1, NthHolds
<1>4. QED
  BY <1>1, <1>2, <1>3 DEF StoresOf

\* The stores of one identifier that have no header offset.
WaitingOf(e, id) ==
  {k \in 1 .. Cardinality(SnapshotPlaces(e)) :
     StoresOf(e)[k].store_id = id /\ StoresOf(e)[k].header = None}

\* The stores of f are those of e, and the last that waits has the offsets of x.
GoesToLast(f, e, x) ==
  /\ DOMAIN StoresOf(f) = DOMAIN StoresOf(e)
  /\ WaitingOf(e, x.store_id) = {} => StoresOf(f) = StoresOf(e)
  /\ \A k \in 1 .. Cardinality(SnapshotPlaces(e)) :
       /\ WaitingOf(e, x.store_id) # {} /\ k = Max(WaitingOf(e, x.store_id)) =>
            StoresOf(f)[k] = [store_id |-> x.store_id, header |-> x.header, bitmap |-> x.bitmap]
       /\ WaitingOf(e, x.store_id) # {} /\ k # Max(WaitingOf(e, x.store_id)) =>
            StoresOf(f)[k] = StoresOf(e)[k]

\* A pointer goes to the last of the stores of its identifier that wait, if any does.
LEMMA PointerGoesToLast ==
  ASSUME NEW n \in Nat, NEW e, NEW x, NEW f, OneMore(f, e, x, n), Balanced(e, n), x.kind = "pointer",
         \A k \in 1 .. n : e[k].kind = "pointer" => e[k].header # None
  PROVE  GoesToLast(f, e, x)
<1> DEFINE P == SnapshotPlaces(e)
           c == Cardinality(P)
           W == WaitingOf(e, x.store_id)
           m == Max(W)
<1>1. P \subseteq 1 .. n /\ SnapshotPlaces(f) = P
  BY OneMoreSnapshot
<1>2. DOMAIN e = 1 .. n /\ DOMAIN f = 1 .. n + 1 /\ n + 1 \in Nat
  BY DEF OneMore
<1>3. /\ c \in Nat /\ DOMAIN StoresOf(e) = 1 .. c
      /\ StoresOf(e) = [k \in 1 .. c |-> StoresOf(e)[k]]
      /\ \A k \in 1 .. c : Nth(P, k) \in P /\ StoresOf(e)[k] = StoreAt(e, Nth(P, k))
  BY <1>2, StoresPlaces
<1>4. /\ DOMAIN StoresOf(f) = 1 .. c
      /\ StoresOf(f) = [k \in 1 .. c |-> StoresOf(f)[k]]
      /\ \A k \in 1 .. c : StoresOf(f)[k] = StoreAt(f, Nth(P, k))
  BY <1>1, <1>2, StoresPlaces
<1>5. /\ \A s \in P : \E k \in 1 .. c : Nth(P, k) = s
      /\ \A j, k \in 1 .. c : j < k <=> Nth(P, j) < Nth(P, k)
  <2> HIDE DEF P
  <2>1. /\ \A s \in P : /\ Cardinality({t \in P : t <= s}) \in 1 .. c
                        /\ Nth(P, Cardinality({t \in P : t <= s})) = s
        /\ \A j, k \in 1 .. c : j < k <=> Nth(P, j) < Nth(P, k)
    BY <1>1, NthHolds
  <2> HIDE DEF c
  <2>2. QED
    BY <2>1
<1>6. \A s \in P : /\ StoreAt(e, s).store_id = e[s].store_id
                   /\ StoreAt(e, s).header = None <=> IsOpen(e, s)
  BY <1>2, StoreOffsets
<1>7. \A s \in P : Closes(f, n + 1, s) <=>
        e[s].store_id = x.store_id /\ IsOpen(e, s) /\ OpenAfter(e, s) = {}
  BY ClosesLast
<1>8. \A s \in P : /\ ~Closes(f, n + 1, s) => StoreAt(f, s) = StoreAt(e, s)
                   /\ Closes(f, n + 1, s) =>
                        StoreAt(f, s) = [store_id |-> e[s].store_id, header |-> x.header, bitmap |-> x.bitmap]
  BY StoreAtNext
<1>9. \A s, t \in P : t \in OpenAfter(e, s) <=> e[t].store_id = e[s].store_id /\ s < t /\ IsOpen(e, t)
  BY DEF OpenAfter
<1>10. \A s, t : t \in OpenAfter(e, s) => t \in P
  BY DEF OpenAfter
<1>11. W \subseteq 1 .. c
  BY DEF WaitingOf
<1>12. \A k \in 1 .. c : k \in W <=> e[Nth(P, k)].store_id = x.store_id /\ IsOpen(e, Nth(P, k))
  BY <1>3, <1>6 DEF WaitingOf
<1> HIDE DEF P, c, W
<1>13. W # {} => m \in W /\ \A k \in W : m >= k
  BY <1>3, <1>11, LastExists
<1> HIDE DEF m
<1>14. ASSUME W = {}
       PROVE  StoresOf(f) = StoresOf(e)
  <2>1. \A k \in 1 .. c : ~Closes(f, n + 1, Nth(P, k))
    BY <1>3, <1>7, <1>12, <1>14
  <2>2. \A k \in 1 .. c : StoresOf(f)[k] = StoresOf(e)[k]
    BY <1>3, <1>4, <1>8, <2>1
  <2>3. QED
    BY <1>3, <1>4, <2>2
<1>15. ASSUME W # {}
       PROVE  \A k \in 1 .. c : Closes(f, n + 1, Nth(P, k)) <=> k = m
  <2>1. m \in 1 .. c /\ m \in W /\ Nth(P, m) \in P /\ \A k \in W : m >= k
    BY <1>3, <1>11, <1>13, <1>15
  <2>2. OpenAfter(e, Nth(P, m)) = {}
    <3>1. ASSUME NEW t \in OpenAfter(e, Nth(P, m))
          PROVE  FALSE
      <4>1. PICK j \in 1 .. c : Nth(P, j) = t
        BY <1>5, <1>10
      <4>2. e[Nth(P, j)].store_id = x.store_id /\ Nth(P, m) < Nth(P, j) /\ IsOpen(e, Nth(P, j))
        BY <1>9, <1>10, <1>12, <2>1, <4>1
      <4>3. j \in W /\ m < j
        BY <1>5, <1>12, <2>1, <4>2
      <4>4. QED
        BY <2>1, <4>3
    <3>2. QED
      BY <3>1
  <2>3. Closes(f, n + 1, Nth(P, m))
    BY <1>7, <1>12, <2>1, <2>2
  <2>4. ASSUME NEW k \in 1 .. c, Closes(f, n + 1, Nth(P, k))
        PROVE  k = m
    <3>1. k \in W /\ OpenAfter(e, Nth(P, k)) = {} /\ Nth(P, k) \in P
      BY <1>3, <1>7, <1>12, <2>4
    <3>2. ~(Nth(P, k) < Nth(P, m))
      BY <1>9, <1>12, <2>1, <3>1
    <3>3. ~(k < m)
      BY <1>5, <2>1, <3>2
    <3>4. QED
      BY <2>1, <3>1, <3>3
  <2>5. QED
    BY <2>3, <2>4
<1>16. ASSUME W # {}, NEW k \in 1 .. c
       PROVE  /\ k = m => StoresOf(f)[k] = [store_id |-> x.store_id, header |-> x.header, bitmap |-> x.bitmap]
              /\ k # m => StoresOf(f)[k] = StoresOf(e)[k]
  <2>1. Nth(P, k) \in P /\ StoresOf(f)[k] = StoreAt(f, Nth(P, k)) /\ StoresOf(e)[k] = StoreAt(e, Nth(P, k))
    BY <1>3, <1>4
  <2>2. Closes(f, n + 1, Nth(P, k)) <=> k = m
    BY <1>15, <1>16
  <2>3. k = m => e[Nth(P, k)].store_id = x.store_id
    BY <1>7, <2>1, <2>2
  <2>4. QED
    BY <1>8, <2>1, <2>2, <2>3
<1>17. QED
  BY <1>3, <1>4, <1>14, <1>16 DEF GoesToLast, P, c, W, m

-----------------------------------------------------------------------------
(* Lists put together.                                                     *)

\* Two lists put together, an operator of its own for the provers.
Joined(a, b) == a \o b

\* g holds the first lists of s, put together: what FlattenSeq computes.
Flat(g, s, n) == g = [i \in 1 .. n |-> IF i = 1 THEN s[i] ELSE Joined(g[i - 1], s[i])]

LEMMA FlatExists ==
  ASSUME NEW E, NEW s, NEW n \in Nat, \A i \in 1 .. n : s[i] \in Seq(E)
  PROVE  \E g : Flat(g, s, n) /\ \A i \in 1 .. n : g[i] \in Seq(E)
<1> DEFINE Ok(l) == \E g : Flat(g, s, l) /\ \A i \in 1 .. l : g[i] \in Seq(E)
           T == {l \in 0 .. n : ~Ok(l)}
<1> SUFFICES ASSUME ~Ok(n) PROVE FALSE
  OBVIOUS
<1>1. T \subseteq Nat /\ T # {}
  <2>1. n \in 0 .. n
    OBVIOUS
  <2> HIDE DEF Ok
  <2>2. QED
    BY <2>1
<1>2. PICK l \in T : \A k \in T : l <= k
  <2> HIDE DEF T
  <2>1. QED
    BY <1>1, LeastExists
<1>3. l # 0
  <2>1. Flat([i \in 1 .. 0 |-> IF i = 1 THEN s[i] ELSE << >>], s, 0)
    BY DEF Flat
  <2>2. QED
    BY <1>2, <2>1
<1>4. l \in 1 .. n /\ l - 1 \in 0 .. n /\ l - 1 \notin T
  BY <1>2, <1>3
<1>5. PICK g : Flat(g, s, l - 1) /\ \A i \in 1 .. l - 1 : g[i] \in Seq(E)
  BY <1>4
<1> DEFINE last == IF l = 1 THEN s[l] ELSE Joined(g[l - 1], s[l])
           h == [i \in 1 .. l |-> IF i = l THEN last ELSE g[i]]
<1>6. last \in Seq(E)
  BY <1>4, <1>5 DEF Joined
<1>7. \A i \in 1 .. l : i = l \/ i \in 1 .. l - 1
  BY <1>4
<1>8. \A i \in 1 .. l : h[i] \in Seq(E)
  BY <1>5, <1>6, <1>7
<1>9. \A i \in 1 .. l - 1 : g[i] = IF i = 1 THEN s[i] ELSE Joined(g[i - 1], s[i])
  <2>1. g = [i \in 1 .. l - 1 |-> IF i = 1 THEN s[i] ELSE Joined(g[i - 1], s[i])]
    BY <1>5 DEF Flat
  <2>2. QED
    BY <2>1
<1>10. \A i \in 1 .. l : h[i] = IF i = 1 THEN s[i] ELSE Joined(h[i - 1], s[i])
  <2>1. \A i \in 1 .. l : i # 1 => i - 1 \in 1 .. l /\ i - 1 # l
    BY <1>4
  <2>2. \A i \in 1 .. l : i # 1 => h[i - 1] = g[i - 1]
    BY <2>1
  <2>3. h[l] = IF l = 1 THEN s[l] ELSE Joined(h[l - 1], s[l])
    BY <1>4, <2>2
  <2>4. \A i \in 1 .. l - 1 : h[i] = IF i = 1 THEN s[i] ELSE Joined(h[i - 1], s[i])
    BY <1>4, <1>9, <2>2
  <2> HIDE DEF h
  <2>5. QED
    BY <1>7, <2>3, <2>4
<1>11. h = [i \in 1 .. l |-> h[i]]
  OBVIOUS
<1> HIDE DEF h
<1>12. h = [i \in 1 .. l |-> IF i = 1 THEN s[i] ELSE Joined(h[i - 1], s[i])]
  BY <1>10, <1>11
<1>13. Ok(l)
  BY <1>8, <1>12 DEF Flat
<1>14. QED
  BY <1>2, <1>13

\* Lists that start alike are put together alike.
LEMMA FlatAgree ==
  ASSUME NEW s, NEW t, NEW n \in Nat, NEW m \in Nat, n <= m, NEW g, NEW h,
         \A i \in 1 .. n : s[i] = t[i], Flat(g, s, n), Flat(h, t, m)
  PROVE  \A i \in 1 .. n : g[i] = h[i]
<1> DEFINE T == {i \in 1 .. n : g[i] # h[i]}
<1> SUFFICES ASSUME T # {} PROVE FALSE
  OBVIOUS
<1>1. T \subseteq Nat
  OBVIOUS
<1>2. PICK l \in T : \A k \in T : l <= k
  <2> HIDE DEF T
  <2>1. QED
    BY <1>1, LeastExists
<1>3. l \in 1 .. n /\ l \in 1 .. m /\ g[l] # h[l]
  OBVIOUS
<1>4. g[l] = IF l = 1 THEN s[l] ELSE Joined(g[l - 1], s[l])
  <2>1. g = [i \in 1 .. n |-> IF i = 1 THEN s[i] ELSE Joined(g[i - 1], s[i])]
    BY DEF Flat
  <2>2. QED
    BY <1>3, <2>1
<1>5. h[l] = IF l = 1 THEN t[l] ELSE Joined(h[l - 1], t[l])
  <2>1. h = [i \in 1 .. m |-> IF i = 1 THEN t[i] ELSE Joined(h[i - 1], t[i])]
    BY DEF Flat
  <2>2. QED
    BY <1>3, <2>1
<1>6. l # 1 => g[l - 1] = h[l - 1]
  <2>1. l # 1 => l - 1 \in 1 .. n /\ ~(l <= l - 1)
    BY <1>3
  <2>2. QED
    BY <1>2, <2>1
<1>7. QED
  BY <1>3, <1>4, <1>5, <1>6

LEMMA FlattenEmpty == FlattenSeq(<< >>) = << >>
  BY DEF FlattenSeq

\* n lists of entries of E.
Lists(s, E, n) == s \in Seq(Seq(E)) /\ Len(s) = n

LEMMA ListsNext ==
  ASSUME NEW E, NEW s, NEW u, NEW t \in Seq(E), NEW l \in Nat, OneMore(u, s, t, l), Lists(s, E, l),
         u = [i \in DOMAIN u |-> u[i]]
  PROVE  Lists(u, E, l + 1)
<1>1. /\ \A i \in 1 .. l : s[i] \in Seq(E)
      /\ DOMAIN u = 1 .. l + 1 /\ u[l + 1] = t /\ \A k \in 1 .. l : u[k] = s[k]
  BY DEF OneMore, Lists
<1>2. l + 1 \in Nat /\ \A i \in 1 .. l + 1 : i \in 1 .. l \/ i = l + 1
  OBVIOUS
<1>3. \A i \in 1 .. l + 1 : u[i] \in Seq(E)
  BY <1>1, <1>2
<1>4. u \in [1 .. l + 1 -> Seq(E)]
  BY <1>1, <1>3
<1>5. u \in Seq(Seq(E)) /\ Len(u) = l + 1
  BY <1>2, <1>4
<1>6. QED
  BY <1>5 DEF Lists

\* FlattenSeq, without recursion.
LEMMA FlattenIs ==
  ASSUME NEW E, NEW s, NEW n \in Nat, Lists(s, E, n)
  PROVE  /\ n = 0 => FlattenSeq(s) = << >>
         /\ n # 0 => \E g : /\ Flat(g, s, n) /\ \A i \in 1 .. n : g[i] \in Seq(E)
                            /\ FlattenSeq(s) = g[n]
<1>1. s \in Seq(Seq(E)) /\ Len(s) = n
  BY DEF Lists
<1>2. ASSUME n = 0
      PROVE  FlattenSeq(s) = << >>
  <2>1. s = << >>
    BY <1>1, <1>2
  <2>2. QED
    BY <2>1 DEF FlattenSeq
<1>3. ASSUME n # 0
      PROVE  \E g : /\ Flat(g, s, n) /\ \A i \in 1 .. n : g[i] \in Seq(E)
                    /\ FlattenSeq(s) = g[n]
  <2> DEFINE f == CHOOSE h : Flat(h, s, n)
  <2>1. \A i \in 1 .. n : s[i] \in Seq(E)
    BY <1>1
  <2>2. PICK g : Flat(g, s, n) /\ \A i \in 1 .. n : g[i] \in Seq(E)
    BY <2>1, FlatExists
  <2>3. FlattenSeq(s) = f[n]
    BY <1>1, <1>3 DEF FlattenSeq, Flat, Joined
  <2>4. Flat(f, s, n)
    BY <2>2
  <2> HIDE DEF f
  <2>5. \A i \in 1 .. n : f[i] = g[i]
    <3>1. n <= n
      OBVIOUS
    <3>2. Flat(g, s, n)
      BY <2>2
    <3>3. QED
      BY <2>4, <3>1, <3>2, FlatAgree
  <2>6. FlattenSeq(s) = g[n]
    BY <1>3, <2>3, <2>5
  <2>7. QED
    BY <2>2, <2>6
<1>4. QED
  BY <1>2, <1>3

LEMMA FlattenType ==
  ASSUME NEW E, NEW s, NEW n \in Nat, Lists(s, E, n)
  PROVE  FlattenSeq(s) \in Seq(E)
<1>1. CASE n = 0
  <2>1. << >> \in Seq(E)
    OBVIOUS
  <2>2. QED
    BY <1>1, <2>1, FlattenIs, Zenon
<1>2. CASE n # 0
  <2>1. PICK g : (\A i \in 1 .. n : g[i] \in Seq(E)) /\ FlattenSeq(s) = g[n]
    BY <1>2, FlattenIs
  <2>2. QED
    BY <1>2, <2>1
<1>3. QED
  BY <1>1, <1>2

\* A list after the others comes after what they make.
LEMMA FlatNext ==
  ASSUME NEW s, NEW u, NEW t, NEW l \in Nat, OneMore(u, s, t, l), NEW h, NEW g,
         Flat(h, s, l), Flat(g, u, l + 1)
  PROVE  /\ l = 0 => g[l + 1] = t
         /\ l # 0 => g[l + 1] = Joined(h[l], t)
<1>1. /\ l + 1 \in Nat /\ l <= l + 1 /\ l + 1 \in 1 .. l + 1 /\ (l + 1) - 1 = l
      /\ l # 0 => l \in 1 .. l
  OBVIOUS
<1>2. \A i \in 1 .. l : s[i] = u[i]
  BY DEF OneMore
<1>3. \A i \in 1 .. l : h[i] = g[i]
  BY <1>1, <1>2, FlatAgree
<1>4. g = [i \in 1 .. l + 1 |-> IF i = 1 THEN u[i] ELSE Joined(g[i - 1], u[i])]
  BY DEF Flat
<1>5. u[l + 1] = t
  BY DEF OneMore
<1>6. g[l + 1] = IF l + 1 = 1 THEN u[l + 1] ELSE Joined(g[(l + 1) - 1], u[l + 1])
  BY <1>1, <1>4
<1>7. l + 1 = 1 <=> l = 0
  OBVIOUS
<1>8. QED
  BY <1>1, <1>3, <1>5, <1>6, <1>7

LEMMA FlattenNext ==
  ASSUME NEW E, NEW s, NEW u, NEW t, NEW l \in Nat,
         OneMore(u, s, t, l), Lists(s, E, l), Lists(u, E, l + 1)
  PROVE  FlattenSeq(u) = Joined(FlattenSeq(s), t)
<1>1. l + 1 \in Nat /\ l + 1 # 0
  OBVIOUS
<1>2. PICK g : Flat(g, u, l + 1) /\ FlattenSeq(u) = g[l + 1]
  BY <1>1, FlattenIs
<1>3. CASE l = 0
  <2>1. Flat([i \in 1 .. 0 |-> IF i = 1 THEN s[i] ELSE << >>], s, 0)
    BY DEF Flat
  <2>2. g[l + 1] = t
    BY <1>2, <1>3, <2>1, FlatNext
  <2>3. FlattenSeq(s) = << >>
    BY <1>3, FlattenIs
  <2>4. Joined(<< >>, t) = t
    <3>1. t \in Seq(E)
      BY <1>3 DEF OneMore, Lists
    <3>2. QED
      BY <3>1 DEF Joined
  <2>5. QED
    BY <1>2, <2>2, <2>3, <2>4
<1>4. CASE l # 0
  <2>1. PICK h : Flat(h, s, l) /\ FlattenSeq(s) = h[l]
    BY <1>4, FlattenIs
  <2>2. Flat(g, u, l + 1) /\ Flat(h, s, l)
    BY <1>2, <2>1
  <2>3. g[l + 1] = Joined(h[l], t)
    BY <1>4, <2>2, FlatNext
  <2>4. QED
    BY <1>2, <2>1, <2>3
<1>5. QED
  BY <1>3, <1>4

LEMMA JoinedEmpty ==
  ASSUME NEW E, NEW a \in Seq(E)
  PROVE  Joined(a, << >>) = a
  BY DEF Joined

\* One more entry of the second list is one more of both together.
LEMMA JoinedNext ==
  ASSUME NEW E, NEW a \in Seq(E), NEW b \in Seq(E), NEW c \in Seq(E), NEW x,
         OneMore(c, b, x, Len(b))
  PROVE  /\ Joined(a, b) \in Seq(E) /\ Joined(a, c) \in Seq(E)
         /\ Len(Joined(a, b)) \in Nat
         /\ OneMore(Joined(a, c), Joined(a, b), x, Len(Joined(a, b)))
<1>1. Len(a) \in Nat /\ Len(b) \in Nat /\ DOMAIN c = 1 .. Len(b) + 1 /\ c[Len(b) + 1] = x
      /\ \A k \in 1 .. Len(b) : c[k] = b[k]
  BY DEF OneMore
<1>2. Len(c) = Len(b) + 1
  BY <1>1
<1>3. \A d \in Seq(E) :
        /\ Joined(a, d) \in Seq(E)
        /\ Len(Joined(a, d)) = Len(a) + Len(d)
        /\ \A k \in 1 .. Len(a) + Len(d) :
             Joined(a, d)[k] = IF k <= Len(a) THEN a[k] ELSE d[k - Len(a)]
  BY DEF Joined
<1>4. PICK l \in Nat, m \in Nat : l = Len(a) /\ m = Len(b)
  BY <1>1
<1>5. PICK v \in Seq(E), w \in Seq(E) : v = Joined(a, b) /\ w = Joined(a, c)
  BY <1>3
<1>6. Len(v) = l + m /\ \A k \in 1 .. l + m : v[k] = IF k <= l THEN a[k] ELSE b[k - l]
  BY <1>3, <1>4, <1>5, Zenon
<1>7. /\ Len(w) = l + (m + 1)
      /\ \A k \in 1 .. l + (m + 1) : w[k] = IF k <= l THEN a[k] ELSE c[k - l]
  BY <1>2, <1>3, <1>4, <1>5, Zenon
<1>8. DOMAIN v = 1 .. l + m /\ DOMAIN w = 1 .. l + m + 1
  BY <1>6, <1>7
<1>9. w[l + m + 1] = x
  <2>1. l + m + 1 \in 1 .. l + (m + 1) /\ ~(l + m + 1 <= l) /\ (l + m + 1) - l = m + 1
    OBVIOUS
  <2>2. w[l + m + 1] = c[(l + m + 1) - l]
    BY <1>7, <2>1
  <2>3. QED
    BY <1>1, <1>4, <2>1, <2>2
<1>10. \A k \in 1 .. l + m : w[k] = v[k]
  <2>1. TAKE k \in 1 .. l + m
  <2>2. k \in 1 .. l + (m + 1) /\ (~(k <= l) => k - l \in 1 .. m)
    OBVIOUS
  <2>3. QED
    BY <1>1, <1>4, <1>6, <1>7, <2>2
<1>11. OneMore(w, v, x, l + m)
  BY <1>8, <1>9, <1>10 DEF OneMore
<1>12. QED
  BY <1>3, <1>5, <1>6, <1>11
=============================================================================
