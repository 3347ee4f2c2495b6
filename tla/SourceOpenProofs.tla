-------------------------- MODULE SourceOpenProofs --------------------------
(***************************************************************************)
(* Opening a source gives the snapshot that the disk describes.            *)
(***************************************************************************)
EXTENDS SourceOpen, CatalogWalkProofs

-----------------------------------------------------------------------------
(* Chains.                                                                 *)

\* g is a chain up to each of its blocks, without the recursion.
UpTo(g, b, type, first, n) ==
  g = [i \in 0 .. n |-> IF i = 0 THEN << >> ELSE Opening!Grown(b, type, first, g[i - 1])]

LEMMA UpToExists ==
  ASSUME NEW b, NEW type, NEW first, NEW n \in Nat
  PROVE  \E g : UpTo(g, b, type, first, n)
<1> DEFINE Ok(l) == \E g : UpTo(g, b, type, first, l)
           T == {l \in 0 .. n : ~Ok(l)}
<1> SUFFICES ASSUME ~Ok(n) PROVE FALSE
  OBVIOUS
<1>1. T \subseteq Nat /\ T # {}
  <2>1. n \in 0 .. n
    OBVIOUS
  <2> HIDE DEF Ok
  <2>2. QED
    BY <2>1
<1>2. PICK l \in T : \A k \in T : l <= k
  <2> HIDE DEF T
  <2>1. QED
    BY <1>1, LeastExists
<1>3. l # 0
  <2>1. UpTo([i \in 0 .. 0 |-> << >>], b, type, first, 0)
    BY DEF UpTo
  <2>2. QED
    BY <1>2, <2>1
<1>4. l \in 1 .. n /\ l - 1 \in 0 .. n /\ l - 1 \notin T
  BY <1>2, <1>3
<1>5. PICK g : UpTo(g, b, type, first, l - 1)
  BY <1>4
<1> DEFINE h == [i \in 0 .. l |-> IF i = l THEN Opening!Grown(b, type, first, g[l - 1]) ELSE g[i]]
<1>6. \A i \in 0 .. l - 1 : g[i] = IF i = 0 THEN << >> ELSE Opening!Grown(b, type, first, g[i - 1])
  <2>1. g = [i \in 0 .. l - 1 |-> IF i = 0 THEN << >> ELSE Opening!Grown(b, type, first, g[i - 1])]
    BY <1>5 DEF UpTo
  <2>2. QED
    BY <2>1
<1>7. \A i \in 0 .. l : h[i] = IF i = 0 THEN << >> ELSE Opening!Grown(b, type, first, h[i - 1])
  <2>1. \A i \in 0 .. l : i = l \/ i \in 0 .. l - 1
    BY <1>4
  <2>2. \A i \in 0 .. l : i # 0 => i - 1 \in 0 .. l /\ i - 1 # l
    BY <1>4
  <2>3. \A i \in 0 .. l : i # 0 => h[i - 1] = g[i - 1]
    BY <2>2
  <2>4. l \in 0 .. l /\ h[l] = Opening!Grown(b, type, first, h[l - 1])
    BY <1>4, <2>3
  <2>5. \A i \in 0 .. l - 1 : h[i] = g[i]
    BY <1>4
  <2> HIDE DEF h
  <2>6. QED
    BY <1>3, <1>6, <2>1, <2>3, <2>4, <2>5
<1>8. h = [i \in 0 .. l |-> h[i]]
  OBVIOUS
<1> HIDE DEF h
<1>9. h = [i \in 0 .. l |-> IF i = 0 THEN << >> ELSE Opening!Grown(b, type, first, h[i - 1])]
  BY <1>7, <1>8
<1>10. QED
  BY <1>2, <1>9 DEF UpTo

LEMMA UpToAgree ==
  ASSUME NEW b, NEW type, NEW first, NEW n \in Nat, NEW m \in Nat, n <= m, NEW g, NEW h,
         UpTo(g, b, type, first, n), UpTo(h, b, type, first, m)
  PROVE  \A i \in 0 .. n : g[i] = h[i]
<1> DEFINE T == {i \in 0 .. n : g[i] # h[i]}
<1> SUFFICES ASSUME T # {} PROVE FALSE
  OBVIOUS
<1>1. T \subseteq Nat
  OBVIOUS
<1>2. PICK l \in T : \A k \in T : l <= k
  <2> HIDE DEF T
  <2>1. QED
    BY <1>1, LeastExists
<1>3. l \in 0 .. n /\ l \in 0 .. m /\ g[l] # h[l]
  OBVIOUS
<1>4. g[l] = IF l = 0 THEN << >> ELSE Opening!Grown(b, type, first, g[l - 1])
  <2>1. g = [i \in 0 .. n |-> IF i = 0 THEN << >> ELSE Opening!Grown(b, type, first, g[i - 1])]
    BY DEF UpTo
  <2>2. QED
    BY <1>3, <2>1
<1>5. h[l] = IF l = 0 THEN << >> ELSE Opening!Grown(b, type, first, h[l - 1])
  <2>1. h = [i \in 0 .. m |-> IF i = 0 THEN << >> ELSE Opening!Grown(b, type, first, h[i - 1])]
    BY DEF UpTo
  <2>2. QED
    BY <1>3, <2>1
<1>6. l # 0 => g[l - 1] = h[l - 1]
  <2>1. l # 0 => l - 1 \in 0 .. n /\ ~(l <= l - 1)
    BY <1>3
  <2>2. QED
    BY <1>2, <2>1
<1>7. QED
  BY <1>3, <1>4, <1>5, <1>6

\* ChainOf, without recursion.
LEMMA ChainIs ==
  ASSUME NEW b, NEW type, NEW first, NEW n \in Nat
  PROVE  \E g : UpTo(g, b, type, first, n) /\ Opening!ChainOf(b, type, first, n) = g[n]
<1> DEFINE g == CHOOSE h : UpTo(h, b, type, first, n)
<1>1. UpTo(g, b, type, first, n)
  BY UpToExists
<1>2. Opening!ChainOf(b, type, first, n) = g[n]
  BY DEF Opening!ChainOf, UpTo
<1>3. QED
  BY <1>1, <1>2

\* A chain grows block by block.
LEMMA ChainGrows ==
  ASSUME NEW b, NEW type, NEW first
  PROVE  /\ Opening!ChainOf(b, type, first, 0) = << >>
         /\ \A n \in Nat : Opening!ChainOf(b, type, first, n + 1)
                             = Opening!Grown(b, type, first, Opening!ChainOf(b, type, first, n))
<1>1. Opening!ChainOf(b, type, first, 0) = << >>
  <2>1. PICK g : UpTo(g, b, type, first, 0) /\ Opening!ChainOf(b, type, first, 0) = g[0]
    BY ChainIs
  <2>2. g = [i \in 0 .. 0 |-> IF i = 0 THEN << >> ELSE Opening!Grown(b, type, first, g[i - 1])]
    BY <2>1 DEF UpTo
  <2>3. g[0] = << >>
    BY <2>2
  <2>4. QED
    BY <2>1, <2>3
<1>2. ASSUME NEW n \in Nat
      PROVE  Opening!ChainOf(b, type, first, n + 1)
               = Opening!Grown(b, type, first, Opening!ChainOf(b, type, first, n))
  <2>1. PICK m \in Nat : m = n + 1
    OBVIOUS
  <2>2. PICK g : UpTo(g, b, type, first, n) /\ Opening!ChainOf(b, type, first, n) = g[n]
    BY ChainIs
  <2>3. PICK h : UpTo(h, b, type, first, m) /\ Opening!ChainOf(b, type, first, m) = h[m]
    BY ChainIs
  <2>4. n <= m /\ n \in 0 .. n /\ m \in 0 .. m /\ m # 0 /\ m - 1 = n
    BY <2>1
  <2>5. g[n] = h[n]
    BY <2>2, <2>3, <2>4, UpToAgree
  <2>6. h = [i \in 0 .. m |-> IF i = 0 THEN << >> ELSE Opening!Grown(b, type, first, h[i - 1])]
    BY <2>3 DEF UpTo
  <2>7. h[m] = Opening!Grown(b, type, first, h[m - 1])
    BY <2>4, <2>6
  <2>8. QED
    BY <2>1, <2>2, <2>3, <2>4, <2>5, <2>7
<1>3. QED
  BY <1>1, <1>2

\* A chain that does not grow any more is complete.
LEMMA ChainStops ==
  ASSUME NEW b, NEW type, NEW first, NEW n \in Nat, NEW cap \in Nat, n <= cap,
         Opening!Grown(b, type, first, Opening!ChainOf(b, type, first, n))
           = Opening!ChainOf(b, type, first, n)
  PROVE  Opening!ChainOf(b, type, first, cap) = Opening!ChainOf(b, type, first, n)
<1> DEFINE Chain(k) == Opening!ChainOf(b, type, first, k)
           T == {k \in n .. cap : Chain(k) # Chain(n)}
<1>0. \A k \in Nat : Chain(k + 1) = Opening!Grown(b, type, first, Chain(k))
  BY ChainGrows
<1> HIDE DEF Chain
<1>1. SUFFICES ASSUME T # {} PROVE FALSE
  BY DEF Chain
<1>2. T \subseteq Nat
  OBVIOUS
<1>3. PICK l \in T : \A k \in T : l <= k
  <2> HIDE DEF T
  <2>1. QED
    BY <1>1, <1>2, LeastExists
<1>4. l # n /\ l \in n .. cap
  OBVIOUS
<1>5. l - 1 \in n .. cap /\ ~(l <= l - 1) /\ l - 1 \in Nat /\ (l - 1) + 1 = l
  BY <1>4
<1>6. Chain(l - 1) = Chain(n)
  BY <1>3, <1>5
<1>7. Chain(l) = Opening!Grown(b, type, first, Chain(l - 1))
  BY <1>0, <1>5
<1>8. Chain(l) = Chain(n)
  BY <1>6, <1>7 DEF Chain
<1>9. QED
  BY <1>8

-----------------------------------------------------------------------------
(* Descriptors by offset.                                                  *)

\* Where the descriptors for an offset are in a list, and what they are.
For(e, o) == {i \in DOMAIN e : e[i].original_offset = o}
ListFor(e, o) == [k \in 1 .. Cardinality(For(e, o)) |-> e[Nth(For(e, o), k)]]

\* ByOffset, with the counting of this module.
LEMMA ByOffsetIs ==
  ASSUME NEW e
  PROVE  Opening!ByOffset(e) = [o \in {e[i].original_offset : i \in DOMAIN e} |-> ListFor(e, o)]
<1>1. \A S : Opening!Cardinality(S) = Cardinality(S)
  BY DEF Opening!Cardinality, Cardinality
<1>2. \A S, k : Opening!Nth(S, k) = Nth(S, k)
  BY <1>1 DEF Opening!Nth, Nth
<1>3. QED
  BY <1>1, <1>2 DEF Opening!ByOffset, ListFor, For

LEMMA ByOffsetEmpty == Opening!ByOffset(<< >>) = << >>
<1>1. {<< >>[i].original_offset : i \in DOMAIN << >>} = {}
  OBVIOUS
<1>2. Opening!ByOffset(<< >>) = [o \in {} |-> ListFor(<< >>, o)]
  BY <1>1, ByOffsetIs
<1>3. QED
  BY <1>2

\* One more descriptor at the end of a list comes last of those for its offset.
LEMMA ForNext ==
  ASSUME NEW R, NEW n \in Nat, NEW e, NEW d \in R, NEW f, OneMore(f, e, d, n), e \in Seq(R)
  PROVE  /\ ListFor(e, d.original_offset) \in Seq(R)
         /\ ListFor(f, d.original_offset) = Append(ListFor(e, d.original_offset), d)
         /\ \A o : o # d.original_offset => ListFor(f, o) = ListFor(e, o)
         /\ \A o : For(e, o) = {} => ListFor(e, o) = << >>
<1>1. /\ DOMAIN e = 1 .. n /\ DOMAIN f = 1 .. n + 1 /\ f[n + 1] = d
      /\ \A i \in 1 .. n : f[i] = e[i]
  BY DEF OneMore
<1>1a. \A i \in 1 .. n : e[i] \in R
  BY <1>1
<1>2. \A o : For(e, o) \subseteq 1 .. n
  BY <1>1 DEF For
<1>3. ASSUME NEW o, o # d.original_offset
      PROVE  ListFor(f, o) = ListFor(e, o)
  <2>1. For(f, o) = For(e, o)
    BY <1>1, <1>3 DEF For
  <2>2. \A k \in 1 .. Cardinality(For(e, o)) : Nth(For(e, o), k) \in 1 .. n
    BY <1>2, NthHolds
  <2>3. \A k \in 1 .. Cardinality(For(e, o)) : f[Nth(For(e, o), k)] = e[Nth(For(e, o), k)]
    BY <1>1, <2>2
  <2>4. QED
    BY <2>1, <2>3 DEF ListFor
<1>4. ASSUME NEW o, For(e, o) = {}
      PROVE  ListFor(e, o) = << >>
  <2>1. Cardinality(For(e, o)) = 0
    BY <1>4, FS_EmptySet
  <2>2. QED
    BY <2>1 DEF ListFor
<1>5. PICK P : P = For(e, d.original_offset)
  OBVIOUS
<1>6. P \subseteq 1 .. n
  BY <1>2, <1>5
<1>6a. PICK c \in Nat : c = Cardinality(P)
  BY <1>6, NthHolds
<1>7. For(f, d.original_offset) = P \cup {n + 1}
  BY <1>1, <1>5 DEF For
<1>8. /\ Cardinality(P \cup {n + 1}) = c + 1
      /\ \A k \in 1 .. c : Nth(P \cup {n + 1}, k) = Nth(P, k) /\ Nth(P, k) \in 1 .. n
      /\ Nth(P \cup {n + 1}, c + 1) = n + 1
  <2>1. /\ Cardinality(P \cup {n + 1}) = Cardinality(P) + 1
        /\ \A k \in 1 .. Cardinality(P) : Nth(P \cup {n + 1}, k) = Nth(P, k)
        /\ Nth(P \cup {n + 1}, Cardinality(P) + 1) = n + 1
    BY <1>6, NthGrows
  <2>2. \A k \in 1 .. Cardinality(P) : Nth(P, k) \in P
    BY <1>6, NthHolds
  <2>3. QED
    BY <1>6, <1>6a, <2>1, <2>2
<1>9. PICK s, t : s = ListFor(e, d.original_offset) /\ t = ListFor(f, d.original_offset)
  OBVIOUS
<1>10. s = [k \in 1 .. c |-> e[Nth(P, k)]]
  BY <1>5, <1>6a, <1>9 DEF ListFor
<1>11. t = [k \in 1 .. c + 1 |-> f[Nth(P \cup {n + 1}, k)]]
  BY <1>7, <1>8, <1>9 DEF ListFor
<1>12. s \in Seq(R) /\ Len(s) = c
  <2>1. \A k \in 1 .. c : e[Nth(P, k)] \in R
    BY <1>1a, <1>8
  <2>2. QED
    BY <1>10, <2>1
<1>13. /\ \A k \in 1 .. c : t[k] = s[k]
       /\ t[c + 1] = d
  <2>0. \A k \in 1 .. c : k \in 1 .. c + 1
    OBVIOUS
  <2>1. \A k \in 1 .. c : t[k] = f[Nth(P, k)]
    BY <1>8, <1>11, <2>0
  <2>2. c + 1 \in 1 .. c + 1
    OBVIOUS
  <2>3. t[c + 1] = f[n + 1]
    BY <1>8, <1>11, <2>2
  <2>4. QED
    BY <1>1, <1>8, <1>10, <2>1, <2>3
<1>14. t = [k \in 1 .. c + 1 |-> t[k]]
  BY <1>11
<1>15. t = Append(s, d)
  <2>1. Append(s, d) \in Seq(R) /\ Len(Append(s, d)) = c + 1
    BY <1>12
  <2>2. \A k \in 1 .. c : Append(s, d)[k] = s[k]
    BY <1>12
  <2>3. Append(s, d)[c + 1] = d
    BY <1>12
  <2>4. \A k \in 1 .. c + 1 : k \in 1 .. c \/ k = c + 1
    OBVIOUS
  <2>5. \A k \in 1 .. c + 1 : Append(s, d)[k] = t[k]
    BY <1>13, <2>2, <2>3, <2>4
  <2>6. PICK u : u = Append(s, d)
    OBVIOUS
  <2>7. u = [k \in 1 .. c + 1 |-> u[k]]
    <3>1. u \in Seq(R) /\ Len(u) = c + 1
      BY <2>1, <2>6
    <3>2. QED
      BY <3>1
  <2>8. u = t
    BY <1>14, <2>5, <2>6, <2>7
  <2>9. QED
    BY <2>6, <2>8
<1>16. QED
  BY <1>3, <1>4, <1>9, <1>12, <1>15

LEMMA ByOffsetNext ==
  ASSUME NEW R, NEW n \in Nat, NEW e, NEW d \in R, NEW f, OneMore(f, e, d, n), e \in Seq(R)
  PROVE  Opening!ByOffset(f) = Build!Filed(Opening!ByOffset(e), d)
<1> DEFINE offsets(l) == {l[i].original_offset : i \in DOMAIN l}
<1>0. /\ ListFor(f, d.original_offset) = Append(ListFor(e, d.original_offset), d)
      /\ \A o : o # d.original_offset => ListFor(f, o) = ListFor(e, o)
      /\ \A o : For(e, o) = {} => ListFor(e, o) = << >>
  BY ForNext
<1>1. PICK a : a = d.original_offset
  OBVIOUS
<1>2. /\ ListFor(f, a) = Append(ListFor(e, a), d)
      /\ \A o : o # a => ListFor(f, o) = ListFor(e, o)
      /\ \A o : For(e, o) = {} => ListFor(e, o) = << >>
  BY <1>0, <1>1
<1>3. offsets(f) = offsets(e) \cup {a}
  BY <1>1 DEF OneMore
<1>4. \A o : o \notin offsets(e) => For(e, o) = {}
  BY DEF For
<1>5. PICK map : map = Opening!ByOffset(e)
  OBVIOUS
<1>6. map = [o \in offsets(e) |-> ListFor(e, o)]
  BY <1>5, ByOffsetIs
<1>7. Opening!ByOffset(f) = [o \in offsets(e) \cup {a} |-> ListFor(f, o)]
  BY <1>3, ByOffsetIs
<1> HIDE DEF offsets
<1>8. DOMAIN map = offsets(e)
  BY <1>6
<1>9. ASSUME NEW o \in offsets(e) \cup {a}
      PROVE  ListFor(f, o) = LET ds == IF o \in DOMAIN map THEN map[o] ELSE << >>
                             IN  IF o = a THEN Append(ds, d) ELSE ds
  <2>1. ListFor(e, o) = IF o \in DOMAIN map THEN map[o] ELSE << >>
    BY <1>2, <1>4, <1>6, <1>8
  <2>2. QED
    BY <1>2, <2>1
<1>10. Build!Filed(map, d) = [o \in offsets(e) \cup {a} |->
                               LET ds == IF o \in DOMAIN map THEN map[o] ELSE << >>
                               IN  IF o = a THEN Append(ds, d) ELSE ds]
  BY <1>1, <1>8 DEF Build!Filed
<1>11. QED
  BY <1>5, <1>7, <1>9, <1>10

-----------------------------------------------------------------------------
(* Lists of lists.                                                         *)

\* An empty list at the end changes nothing.
LEMMA EmptyAdds ==
  ASSUME NEW E, NEW l \in Nat, NEW p, NEW q, Lists(p, E, l), OneMore(q, p, << >>, l),
         q = [i \in DOMAIN q |-> q[i]]
  PROVE  Lists(q, E, l + 1) /\ FlattenSeq(q) = FlattenSeq(p)
<1>1. << >> \in Seq(E)
  OBVIOUS
<1>2. Lists(q, E, l + 1)
  BY <1>1, ListsNext
<1>3. FlattenSeq(q) = Joined(FlattenSeq(p), << >>)
  BY <1>2, FlattenNext
<1>4. FlattenSeq(p) \in Seq(E)
  BY FlattenType
<1>5. QED
  BY <1>2, <1>3, <1>4, JoinedEmpty

\* The last list of several grows, and so do they all together.
LEMMA LastGrows ==
  ASSUME NEW E, NEW l \in Nat, NEW p, NEW q, Lists(p, E, l + 1), Lists(q, E, l + 1),
         \A i \in 1 .. l : q[i] = p[i], NEW x, OneMore(q[l + 1], p[l + 1], x, Len(p[l + 1]))
  PROVE  /\ FlattenSeq(p) \in Seq(E) /\ FlattenSeq(q) \in Seq(E)
         /\ OneMore(FlattenSeq(q), FlattenSeq(p), x, Len(FlattenSeq(p)))
<1> DEFINE before == [i \in 1 .. l |-> p[i]]
<1>1. PICK m \in Nat : m = l + 1
  OBVIOUS
<1>2. /\ p \in Seq(Seq(E)) /\ q \in Seq(Seq(E)) /\ Len(p) = m /\ Len(q) = m
  BY <1>1 DEF Lists
<1>3. \A i \in 1 .. m : p[i] \in Seq(E) /\ q[i] \in Seq(E)
  BY <1>2
<1>4. m \in 1 .. m /\ \A i \in 1 .. l : i \in 1 .. m
  BY <1>1
<1>5. PICK a \in Seq(E), c \in Seq(E) : a = p[m] /\ c = q[m]
  BY <1>3, <1>4
<1>6. Lists(before, E, l)
  <2>1. \A i \in 1 .. l : p[i] \in Seq(E)
    BY <1>3, <1>4
  <2>2. before \in Seq(Seq(E)) /\ Len(before) = l
    BY <2>1
  <2>3. QED
    BY <2>2 DEF Lists
<1>7. DOMAIN p = 1 .. l + 1 /\ DOMAIN q = 1 .. l + 1
  BY <1>1, <1>2
<1>8. DOMAIN before = 1 .. l /\ \A i \in 1 .. l : before[i] = p[i]
  OBVIOUS
<1> HIDE DEF before
<1>9. OneMore(p, before, a, l) /\ OneMore(q, before, c, l)
  BY <1>1, <1>5, <1>7, <1>8 DEF OneMore
<1>10. /\ FlattenSeq(p) = Joined(FlattenSeq(before), a)
       /\ FlattenSeq(q) = Joined(FlattenSeq(before), c)
  BY <1>6, <1>9, FlattenNext
<1>11. FlattenSeq(before) \in Seq(E)
  BY <1>6, FlattenType
<1>12. OneMore(c, a, x, Len(a))
  BY <1>1, <1>5
<1>13. /\ Joined(FlattenSeq(before), a) \in Seq(E) /\ Joined(FlattenSeq(before), c) \in Seq(E)
       /\ OneMore(Joined(FlattenSeq(before), c), Joined(FlattenSeq(before), a), x,
                  Len(Joined(FlattenSeq(before), a)))
  BY <1>11, <1>12, JoinedNext
<1>14. QED
  BY <1>10, <1>13

\* The records of a block end in front of the first zero record, or with the block.
LEMMA RecordsEnd ==
  ASSUME NEW R, NEW b, NEW m \in Nat, b.records \in Seq(R), Len(b.records) = m
  PROVE  /\ Opening!Records(b) \in Seq(R)
         /\ \A k \in 1 .. m + 1 :
              /\ \A j \in 1 .. k - 1 : b.records[j] # ZeroRecord
              /\ k <= m => b.records[k] = ZeroRecord
              => Opening!Records(b) = SubSeq(b.records, 1, k - 1)
<1>1. PICK s \in Seq(R) : s = b.records /\ Len(s) = m
  OBVIOUS
<1> DEFINE zeros == {k \in DOMAIN s : s[k] = ZeroRecord}
<1>2. DOMAIN s = 1 .. m /\ zeros \subseteq Nat
  BY <1>1
<1>3. Opening!Records(b) = IF zeros = {} THEN s ELSE SubSeq(s, 1, Opening!Min(zeros) - 1)
  BY <1>1 DEF Opening!Records
<1>4. ASSUME NEW k \in zeros, \A j \in zeros : k <= j
      PROVE  Opening!Min(zeros) = k
  <2>1. \A x \in zeros : (\A j \in zeros : x <= j) => x = k
    BY <1>2, <1>4
  <2> HIDE DEF zeros
  <2>2. QED
    BY <1>4, <2>1 DEF Opening!Min
<1>5. Opening!Records(b) \in Seq(R)
  <2>1. CASE zeros = {}
    BY <1>3, <2>1
  <2>2. CASE zeros # {}
    <3>1. PICK k \in zeros : \A j \in zeros : k <= j
      <4> HIDE DEF zeros
      <4>1. QED
        BY <1>2, <2>2, LeastExists
    <3>2. k \in 1 .. Len(s) + 1 /\ Opening!Min(zeros) = k
      BY <1>1, <1>2, <1>4, <3>1
    <3>3. SubSeq(s, 1, k - 1) \in Seq(R)
      BY <3>2, FirstEntries
    <3>4. QED
      BY <1>3, <2>2, <3>2, <3>3
  <2>3. QED
    BY <2>1, <2>2
<1>6. ASSUME NEW k \in 1 .. m + 1, \A j \in 1 .. k - 1 : s[j] # ZeroRecord,
             k <= m => s[k] = ZeroRecord
      PROVE  Opening!Records(b) = SubSeq(s, 1, k - 1)
  <2>1. CASE k = m + 1
    <3>1. zeros = {}
      BY <1>2, <1>6, <2>1
    <3>2. k \in 1 .. Len(s) + 1 /\ k = Len(s) + 1
      BY <1>1, <2>1
    <3>3. SubSeq(s, 1, k - 1) = s
      BY <3>2, FirstEntries
    <3>4. QED
      BY <1>3, <3>1, <3>3
  <2>2. CASE k <= m
    <3>1. k \in zeros
      BY <1>2, <1>6, <2>2
    <3>2. \A j \in zeros : k <= j
      <4>1. ASSUME NEW j \in 1 .. m, j < k PROVE j \in 1 .. k - 1
        BY <4>1
      <4>2. QED
        BY <1>2, <1>6, <4>1
    <3>3. Opening!Min(zeros) = k
      BY <1>4, <3>1, <3>2
    <3>4. QED
      BY <1>3, <3>1, <3>3
  <2>3. QED
    BY <2>1, <2>2
<1>7. QED
  BY <1>1, <1>5, <1>6

-----------------------------------------------------------------------------
(* The bitmap.                                                             *)

Sorts(ns, p, n) == \A i, j \in 1 .. n : i < j => Precedes(ns, p[i], p[j])

\* In sorted order, as many numbers come before the k-th as there are places.
LEMMA SortedRank ==
  ASSUME NEW n \in Nat, NEW ns, NEW p \in Bijection(1 .. n, 1 .. n),
         ns \in [1 .. n -> Nat], Sorts(ns, p, n), NEW k \in 1 .. n
  PROVE  /\ p[k] \in 1 .. n
         /\ Cardinality({j \in 1 .. n : Precedes(ns, j, p[k])}) = k - 1
<1>00. PICK m \in Nat : k = m + 1
  OBVIOUS
<1> DEFINE before == {j \in 1 .. n : Precedes(ns, j, p[k])}
           f == [i \in 1 .. m |-> p[i]]
<1>0. /\ \A i \in 1 .. n : ns[i] \in Nat
      /\ \A i, j \in 1 .. n : i < j => Precedes(ns, p[i], p[j])
  BY DEF Sorts
<1>1. PICK S : S = 1 .. n
  OBVIOUS
<1>2. p \in [S -> S] /\ (\A a, b \in S : p[a] = p[b] => a = b) /\ \A b \in S : \E a \in S : p[a] = b
  <2>1. p \in Bijection(S, S)
    BY <1>1
  <2>2. p \in Injection(S, S) /\ p \in Surjection(S, S)
    BY <2>1 DEF Bijection
  <2>3. QED
    BY <2>2 DEF Injection, IsInjective, Surjection
<1>3. \A i \in S : p[i] \in S /\ p[i] \in Nat /\ ns[p[i]] \in Nat
  BY <1>1, <1>2
<1>4. \A i \in 1 .. m : i \in S /\ i < k
  BY <1>00, <1>1
<1>5. \A i \in 1 .. m : p[i] \in before
  <2>1. ASSUME NEW i \in S, i < k PROVE p[i] \in before
    BY <1>0, <1>1, <1>3, <2>1
  <2>2. QED
    BY <1>4, <2>1
<1>6. \A j \in before : \E i \in 1 .. m : p[i] = j
  <2>1. TAKE j \in before
  <2>2. PICK i \in S : p[i] = j
    BY <1>1, <1>2
  <2>3. Precedes(ns, p[i], p[k])
    BY <2>2
  <2>4. ~(i = k)
    BY <1>3, <2>3 DEF Precedes
  <2>5. ~(k < i)
    <3>1. ~Precedes(ns, p[k], p[i])
      BY <1>1, <1>3, <2>3 DEF Precedes
    <3>2. Sorts(ns, p, n) /\ i \in 1 .. n /\ k \in 1 .. n
      BY <1>1
    <3>3. k < i => Precedes(ns, p[k], p[i])
      BY <3>2 DEF Sorts
    <3>4. QED
      BY <3>1, <3>3
  <2>6. i \in 1 .. m
    BY <1>00, <1>1, <2>4, <2>5
  <2>7. QED
    BY <2>2, <2>6
<1> HIDE DEF before
<1>7. f \in Bijection(1 .. m, before)
  <2>1. f \in [1 .. m -> before]
    BY <1>5
  <2>2. \A a, b \in 1 .. m : f[a] = f[b] => a = b
    BY <1>2, <1>4
  <2>3. \A b \in before : \E a \in 1 .. m : f[a] = b
    BY <1>6
  <2> HIDE DEF f
  <2>4. QED
    BY <2>1, <2>2, <2>3 DEF Bijection, Injection, IsInjective, Surjection
<1>8. IsFiniteSet(1 .. m) /\ Cardinality(1 .. m) = m
  BY FS_Interval
<1> HIDE DEF f
<1>9. Cardinality(before) = m
  <2>1. ExistsBijection(1 .. m, before)
    BY <1>7 DEF ExistsBijection
  <2>2. QED
    BY <1>8, <2>1, FS_Bijection
<1>10. m = k - 1
  BY <1>00
<1>11. QED
  BY <1>1, <1>3, <1>9, <1>10 DEF before

\* The pieces of a list of blocks.
PiecesOf(b, t) == [i \in 1 .. Len(t) |-> Build!PieceOf(b[t[i]])]

\* Pieces joined by rank are pieces joined in sorted order.
LEMMA BitmapIsJoined ==
  ASSUME NEW b, NEW first, NEW S, NEW t \in Seq(S),
         \A o \in S : b[o].relative_offset \in Nat,
         t = Opening!ChainOf(b, "bitmap", first, MaxStoreBlocks)
  PROVE  Opening!Bitmap(b, first) = Build!Joined(PiecesOf(b, t))
<1>1. PICK n \in Nat : n = Len(t) /\ DOMAIN t = 1 .. n
  OBVIOUS
<1>2. PICK ns : ns = [i \in 1 .. n |-> b[t[i]].relative_offset]
  OBVIOUS
<1>3. \A i \in 1 .. n : ns[i] = b[t[i]].relative_offset /\ ns[i] \in Nat
  BY <1>1, <1>2
<1>3a. ns \in [1 .. n -> Nat]
  BY <1>2, <1>3
<1> DEFINE order == CHOOSE p \in Bijection(1 .. n, 1 .. n) : Sorts(ns, p, n)
<1>4. order \in Bijection(1 .. n, 1 .. n) /\ Sorts(ns, order, n)
  <2>1. \E p \in Bijection(1 .. n, 1 .. n) : Sorts(ns, p, n)
    BY <1>3a, OrderExists DEF Sorts
  <2>2. QED
    BY <2>1
<1> DEFINE c == Opening!ChainOf(b, "bitmap", first, MaxStoreBlocks)
           Right(p) == \A i, j \in DOMAIN c : i < j =>
                         \/ b[c[p[i]]].relative_offset < b[c[p[j]]].relative_offset
                         \/ b[c[p[i]]].relative_offset = b[c[p[j]]].relative_offset /\ p[i] < p[j]
<1>5. \A p : p \in Bijection(1 .. n, 1 .. n) /\ Sorts(ns, p, n)
              <=> p \in Opening!Bijection(DOMAIN c, DOMAIN c) /\ Right(p)
  <2>1. Opening!Bijection(DOMAIN c, DOMAIN c) = Bijection(1 .. n, 1 .. n)
    <3>1. DOMAIN c = 1 .. n
      BY <1>1
    <3>2. \A T : Opening!Bijection(T, T) = Bijection(T, T)
      BY DEF Opening!Bijection, Opening!Injection, Opening!Surjection, Opening!IsInjective,
             Bijection, Injection, Surjection, IsInjective
    <3>3. QED
      BY <3>1, <3>2
  <2>2. ASSUME NEW p \in Bijection(1 .. n, 1 .. n)
        PROVE  Sorts(ns, p, n) <=> Right(p)
    <3>1. \A i \in 1 .. n : p[i] \in 1 .. n
      BY DEF Bijection, Injection
    <3>2. \A i, j \in 1 .. n : Precedes(ns, p[i], p[j]) <=>
               \/ b[t[p[i]]].relative_offset < b[t[p[j]]].relative_offset
               \/ b[t[p[i]]].relative_offset = b[t[p[j]]].relative_offset /\ p[i] < p[j]
      BY <1>3, <3>1 DEF Precedes
    <3>3. DOMAIN c = 1 .. n /\ c = t
      BY <1>1
    <3> DEFINE Kept(i, j) ==
                 \/ b[t[p[i]]].relative_offset < b[t[p[j]]].relative_offset
                 \/ b[t[p[i]]].relative_offset = b[t[p[j]]].relative_offset /\ p[i] < p[j]
    <3> HIDE DEF c
    <3>4. Right(p) <=> \A i, j \in 1 .. n : i < j => Kept(i, j)
      BY ONLY <3>3 DEF Right, Kept
    <3>5. \A i, j \in 1 .. n : Precedes(ns, p[i], p[j]) <=> Kept(i, j)
      BY <3>2
    <3> HIDE DEF Right, Kept
    <3>6. QED
      BY ONLY <3>4, <3>5 DEF Sorts
  <2> HIDE DEF Right, c
  <2>3. QED
    BY <2>1, <2>2
<1>6. order = CHOOSE p \in Opening!Bijection(DOMAIN c, DOMAIN c) : Right(p)
  <2> HIDE DEF Right, c
  <2>1. QED
    BY <1>5
<1>7. Opening!Bitmap(b, first)
        = UNION {{(k - 1) * PieceBits + x : x \in b[t[order[k]]].bits} : k \in 1 .. n}
  <2>1. Opening!Bitmap(b, first)
          = UNION {{(k - 1) * PieceBits + x : x \in b[c[order[k]]].bits} : k \in DOMAIN c}
    <3> HIDE DEF order
    <3>1. QED
      BY <1>6 DEF Opening!Bitmap
  <2>2. DOMAIN c = 1 .. n /\ c = t
    BY <1>1
  <2> HIDE DEF order, c
  <2>3. QED
    BY <2>1, <2>2
<1> HIDE DEF order
<1>8. PICK ps : ps = PiecesOf(b, t)
  OBVIOUS
<1>9. /\ DOMAIN ps = 1 .. n
      /\ \A i \in 1 .. n : ps[i].relative = ns[i] /\ ps[i].bits = b[t[i]].bits
  BY <1>1, <1>3, <1>8 DEF PiecesOf, Build!PieceOf
<1>10. \A i \in 1 .. n : Build!Ahead(ps, i) = {j \in 1 .. n : Precedes(ns, j, i)}
  BY <1>9 DEF Build!Ahead, Precedes
<1>11. \A s : Build!Cardinality(s) = Cardinality(s)
  BY DEF Build!Cardinality, Cardinality
<1>12. \A k \in 1 .. n : order[k] \in 1 .. n /\ Build!Cardinality(Build!Ahead(ps, order[k])) = k - 1
  <2>1. TAKE k \in 1 .. n
  <2>2. order[k] \in 1 .. n /\ Cardinality({j \in 1 .. n : Precedes(ns, j, order[k])}) = k - 1
    BY <1>3a, <1>4, SortedRank
  <2>3. QED
    BY <1>10, <1>11, <2>2
<1>13. \A i \in 1 .. n : \E k \in 1 .. n : order[k] = i
  BY <1>4 DEF Bijection, Surjection
<1>14. Build!Joined(ps)
         = UNION {{Build!Cardinality(Build!Ahead(ps, i)) * PieceBits + x : x \in b[t[i]].bits} : i \in 1 .. n}
  BY <1>9 DEF Build!Joined
<1> DEFINE part(i) == {Build!Cardinality(Build!Ahead(ps, i)) * PieceBits + x : x \in b[t[i]].bits}
           step(k) == {(k - 1) * PieceBits + x : x \in b[t[order[k]]].bits}
<1>15. \A k \in 1 .. n : step(k) = part(order[k])
  BY <1>12
<1>16. Opening!Bitmap(b, first) = UNION {step(k) : k \in 1 .. n}
  BY <1>7
<1>17. Build!Joined(ps) = UNION {part(i) : i \in 1 .. n}
  BY <1>14
<1> HIDE DEF part, step
<1>18. {step(k) : k \in 1 .. n} = {part(i) : i \in 1 .. n}
  BY <1>12, <1>13, <1>15
<1>19. QED
  BY <1>8, <1>16, <1>17, <1>18

-----------------------------------------------------------------------------
(* The catalog.                                                            *)

\* Opening walks the catalog as CatalogWalk does, one step or none at a time.
LEMMA OpensAsCatalogWalk == OpenSpec => Spec
<1>1. OpenInit => Init
  BY OpenAssumption DEF OpenInit, Init
<1>2. [OpenNext]_<<vars, disk, asked, buildVars>> => [Next]_vars
  BY DEF OpenNext, OpenVolume, MakeSnapshot
<1>3. QED
  BY <1>1, <1>2, PTL DEF OpenSpec, Spec

StoreRecord == Build!BlockDescriptor \cup {ZeroRecord}

\* The disk as the walk of the catalog and those of the store see it.
LEMMA DiskTypes ==
  ASSUME OpeningInv, IInv
  PROVE  \A o \in WholeBlocks :
           /\ disk.blocks[o].next_offset \in Offsets
           /\ disk.blocks[o].relative_offset \in Offsets
           /\ disk.blocks[o].records \in [1 .. RecordsPerBlock -> StoreRecord]
           /\ image.blocks[o].entries = disk.blocks[o].entries
           /\ image.blocks[o].next = disk.blocks[o].next_offset
           /\ image.blocks[o].catalog <=> disk.blocks[o].vss /\ disk.blocks[o].record_type = "catalog"
<1>1. image = CatalogView(disk) /\ IsDisk(disk) /\ TypeOK
  BY DEF OpeningInv, IInv
<1>2. TAKE o \in WholeBlocks
<1>3. image.blocks[o] = [catalog |-> disk.blocks[o].vss /\ disk.blocks[o].record_type = "catalog",
                         next |-> disk.blocks[o].next_offset, entries |-> disk.blocks[o].entries]
  BY <1>1 DEF CatalogView
<1>4. image.blocks[o].next \in Offsets
  BY <1>1, ImageTypes
<1>5. /\ disk.blocks[o].relative_offset \in Offsets
      /\ disk.blocks[o].records \in [1 .. RecordsPerBlock -> StoreRecord]
  BY <1>1 DEF IsDisk, StoreRecord
<1>6. /\ image.blocks[o].entries = disk.blocks[o].entries
      /\ image.blocks[o].next = disk.blocks[o].next_offset
      /\ image.blocks[o].catalog = (disk.blocks[o].vss /\ disk.blocks[o].record_type = "catalog")
  BY <1>3
<1>7. QED
  BY <1>4, <1>5, <1>6

\* A chain goes on to a whole block of the volume that has its type and is new.
LEMMA GrownIs ==
  ASSUME NEW b, NEW type, NEW first, NEW t \in Seq(WholeBlocks), NEW ahead,
         ahead = Opening!LeadsTo(b, first, t)
  PROVE  /\ /\ ahead # 0 /\ ahead + BlockSize <= VolumeSize /\ b[ahead].record_type = type
            /\ type = "catalog" => b[ahead].vss
            /\ \A i \in 1 .. Len(t) : t[i] # ahead
            => Opening!Grown(b, type, first, t) = Append(t, ahead)
         /\ \/ ahead = 0 \/ ~(ahead + BlockSize <= VolumeSize) \/ b[ahead].record_type # type
            \/ type = "catalog" /\ ~b[ahead].vss
            \/ \E i \in 1 .. Len(t) : t[i] = ahead
            => Opening!Grown(b, type, first, t) = t
<1>1. Opening!Contains(t, ahead) <=> \E i \in 1 .. Len(t) : t[i] = ahead
  BY DEF Opening!Contains
<1>2. QED
  BY <1>1 DEF Opening!Grown, Opening!Fits

\* The catalog leads where CatalogWalk says.
LEMMA CatalogLeads ==
  ASSUME OpeningInv, IInv
  PROVE  Opening!LeadsTo(disk.blocks, First, taken) = Ahead
<1>1. taken \in Seq(WholeBlocks)
  BY DEF IInv, TypeOK
<1>2. CASE taken = << >>
  BY <1>2 DEF Opening!LeadsTo, Ahead
<1>3. CASE taken # << >>
  <2>1. taken[Len(taken)] \in WholeBlocks
    BY <1>1, <1>3
  <2>2. Opening!Last(taken) = taken[Len(taken)]
    BY DEF Opening!Last
  <2>3. QED
    BY <1>3, <2>1, <2>2, DiskTypes DEF Opening!LeadsTo, Ahead
<1>4. QED
  BY <1>2, <1>3

\* t is the beginning of a chain.
Begins(t, b, type, first) == t = Opening!ChainOf(b, type, first, Len(t))

\* The block at `ahead` goes on a chain t.
GoesOn(t, b, type, ahead) ==
  /\ ahead # 0 /\ ahead + BlockSize <= VolumeSize /\ b[ahead].record_type = type
  /\ type = "catalog" => b[ahead].vss
  /\ \A i \in 1 .. Len(t) : t[i] # ahead

\* The beginning of a chain with the block ahead is its beginning.
LEMMA ChainTakes ==
  ASSUME NEW b, NEW type, NEW first, NEW t \in Seq(WholeBlocks), Begins(t, b, type, first),
         NEW ahead, ahead = Opening!LeadsTo(b, first, t), GoesOn(t, b, type, ahead)
  PROVE  Begins(Append(t, ahead), b, type, first)
<1>1. PICK n \in Nat : n = Len(t)
  OBVIOUS
<1>2. Opening!Grown(b, type, first, t) = Append(t, ahead)
  BY GrownIs DEF GoesOn
<1>3. t = Opening!ChainOf(b, type, first, n)
  BY <1>1 DEF Begins
<1>4. Opening!ChainOf(b, type, first, n + 1)
        = Opening!Grown(b, type, first, Opening!ChainOf(b, type, first, n))
  BY ChainGrows
<1>5. Len(Append(t, ahead)) = n + 1
  <2>1. ahead \in {ahead} \cup WholeBlocks /\ t \in Seq({ahead} \cup WholeBlocks)
    OBVIOUS
  <2>2. QED
    BY <1>1, <2>1
<1>6. QED
  BY <1>2, <1>3, <1>4, <1>5 DEF Begins

\* A beginning that has reached the cap, or that the block ahead does not go on, is
\* the chain.
LEMMA ChainEnds ==
  ASSUME NEW b, NEW type, NEW first, NEW t \in Seq(WholeBlocks), Begins(t, b, type, first),
         NEW ahead, ahead = Opening!LeadsTo(b, first, t),
         NEW cap \in Nat, Len(t) <= cap, Len(t) = cap \/ ~GoesOn(t, b, type, ahead)
  PROVE  t = Opening!ChainOf(b, type, first, cap)
<1>1. CASE Len(t) = cap
  BY <1>1 DEF Begins
<1>2. CASE ~GoesOn(t, b, type, ahead)
  <2>1. PICK n \in Nat : n = Len(t)
    OBVIOUS
  <2>2. Opening!Grown(b, type, first, t) = t
    BY <1>2, GrownIs DEF GoesOn
  <2>3. t = Opening!ChainOf(b, type, first, n) /\ n <= cap
    BY <2>1 DEF Begins
  <2>4. Opening!Grown(b, type, first, Opening!ChainOf(b, type, first, n))
          = Opening!ChainOf(b, type, first, n)
    BY <2>2, <2>3
  <2>5. Opening!ChainOf(b, type, first, cap) = Opening!ChainOf(b, type, first, n)
    BY <2>3, <2>4, ChainStops
  <2>6. QED
    BY <2>3, <2>5
<1>3. QED
  BY <1>1, <1>2

\* Where the walk of the catalog ends, the catalog does.
LEMMA CatalogEnds ==
  ASSUME OpeningInv, IInv, EndLoop \/ (ReadBlock /\ ~image.blocks[next].catalog)
  PROVE  taken = Opening!ChainOf(disk.blocks, "catalog", First, MaxCatalogBlocks)
<1>1. /\ taken \in Seq(WholeBlocks) /\ blocks \in Nat /\ blocks <= MaxCatalogBlocks
      /\ MaxCatalogBlocks \in Nat /\ next \in Offsets
  BY CatalogAssumption DEF IInv, TypeOK
<1>2. next = Ahead /\ Len(taken) = blocks
  BY DEF EndLoop, ReadBlock, IInv, WalkInv
<1>3. next = Opening!LeadsTo(disk.blocks, First, taken)
  BY <1>2, CatalogLeads
<1>4. Begins(taken, disk.blocks, "catalog", First)
  BY DEF OpeningInv, CatalogInv, Begins
<1>5. Len(taken) = MaxCatalogBlocks \/ ~GoesOn(taken, disk.blocks, "catalog", next)
  <2>1. CASE EndLoop
    <3>1. visited = Taken /\ LoopEnds(next, visited, blocks, MaxCatalogBlocks)
      BY <2>1 DEF EndLoop, IInv, WalkInv
    <3>2. next \in Taken => \E i \in 1 .. Len(taken) : taken[i] = next
      BY DEF Taken
    <3>3. BlockInRange(next) <=> next + BlockSize <= VolumeSize
      BY <1>1, BlockInRangeMeaning DEF Offsets
    <3>4. QED
      BY <1>1, <1>2, <3>1, <3>2, <3>3 DEF LoopEnds, GoesOn
  <2>2. CASE ReadBlock /\ ~image.blocks[next].catalog
    <3>1. next \in WholeBlocks
      BY <2>2, NoEndOfVolume DEF ReadBlock
    <3>2. ~(disk.blocks[next].vss /\ disk.blocks[next].record_type = "catalog")
      BY <2>2, <3>1, DiskTypes
    <3>3. QED
      BY <3>2 DEF GoesOn
  <2>3. QED
    BY <2>1, <2>2
<1>6. Len(taken) <= MaxCatalogBlocks
  BY <1>1, <1>2
<1>7. QED
  BY <1>1, <1>3, <1>4, <1>5, <1>6, ChainEnds

openVars == <<vars, disk, asked, buildVars>>

\* The blocks of the catalog taken are its beginning.
LEMMA StepCatalog ==
  ASSUME OpeningInv, IInv, [OpenNext]_openVars
  PROVE  CatalogInv'
<1>1. disk' = disk /\ image' = image /\ First' = First
  BY DEF OpenNext, OpenVolume, MakeSnapshot, openVars, vars, Next, Step, ReadHeader, EndLoop, EnterBlock,
         ReadBlock, TakeSnapshot, TakePointer, SkipEntry, LeaveBlock, ReadFails, First
<1>2. /\ Begins(taken, disk.blocks, "catalog", First)
      /\ pc = "done" => taken = Opening!ChainOf(disk.blocks, "catalog", First, MaxCatalogBlocks)
      /\ faults > 0 => pc = "failed"
  BY DEF OpeningInv, CatalogInv, Begins
<1>3. ASSUME taken' = taken, pc' = "done" => pc = "done", faults' > 0 => pc' = "failed"
      PROVE  CatalogInv'
  BY <1>1, <1>2, <1>3 DEF CatalogInv, Begins
<1>4. ASSUME taken = Opening!ChainOf(disk.blocks, "catalog", First, MaxCatalogBlocks),
             taken' = taken, faults' = faults, pc # "failed"
      PROVE  CatalogInv'
  BY <1>1, <1>2, <1>4 DEF CatalogInv, Begins
<1>5. CASE ReadHeader
  <2>1. CASE pc' = "done"
    <3>1. taken = << >> /\ taken' = taken /\ First = 0
      BY <1>5, <2>1 DEF ReadHeader, IInv, WalkInv, First
    <3>2. taken \in Seq(WholeBlocks) /\ Len(taken) <= MaxCatalogBlocks /\ MaxCatalogBlocks \in Nat
      BY <3>1, CatalogAssumption
    <3>3. 0 = Opening!LeadsTo(disk.blocks, First, taken)
      BY <3>1 DEF Opening!LeadsTo
    <3>4. ~GoesOn(taken, disk.blocks, "catalog", 0)
      BY DEF GoesOn
    <3>5. taken = Opening!ChainOf(disk.blocks, "catalog", First, MaxCatalogBlocks)
      BY <1>2, <3>2, <3>3, <3>4, ChainEnds
    <3>6. QED
      BY <1>4, <1>5, <3>1, <3>5 DEF ReadHeader
  <2>2. CASE pc' # "done"
    BY <1>2, <1>3, <1>5, <2>2 DEF ReadHeader
  <2>3. QED
    BY <2>1, <2>2
<1>6. CASE EndLoop
  BY <1>4, <1>6, CatalogEnds DEF EndLoop
<1>7. CASE ReadBlock
  <2>1. CASE ~image.blocks[next].catalog
    BY <1>4, <1>7, <2>1, CatalogEnds DEF ReadBlock
  <2>2. CASE image.blocks[next].catalog
    <3>1. /\ taken \in Seq(WholeBlocks) /\ next \in WholeBlocks /\ next \notin Taken /\ next # 0
          /\ next = Ahead
      BY <1>7, NoEndOfVolume DEF ReadBlock, IInv, TypeOK, WalkInv
    <3>2. next = Opening!LeadsTo(disk.blocks, First, taken)
      BY <3>1, CatalogLeads
    <3>3. disk.blocks[next].vss /\ disk.blocks[next].record_type = "catalog"
      BY <2>2, <3>1, DiskTypes
    <3>4. GoesOn(taken, disk.blocks, "catalog", next)
      BY <3>1, <3>3 DEF GoesOn, Taken, WholeBlocks
    <3>5. Begins(Append(taken, next), disk.blocks, "catalog", First)
      BY <1>2, <3>1, <3>2, <3>4, ChainTakes
    <3>6. taken' = Append(taken, next) /\ pc' = "entries" /\ faults' = faults /\ pc = "read"
      BY <1>7, <2>2 DEF ReadBlock
    <3>7. QED
      BY <1>1, <1>2, <3>5, <3>6 DEF CatalogInv, Begins
  <2>3. QED
    BY <2>1, <2>2
<1>8. CASE EnterBlock \/ TakeSnapshot \/ TakePointer \/ SkipEntry \/ LeaveBlock
  BY <1>2, <1>3, <1>8 DEF EnterBlock, TakeSnapshot, TakePointer, SkipEntry, LeaveBlock
<1>9. CASE ReadFails
  BY <1>3, <1>9 DEF ReadFails
<1>10. CASE UNCHANGED vars
  BY <1>2, <1>3, <1>10 DEF vars
<1>11. QED
  BY <1>5, <1>6, <1>7, <1>8, <1>9, <1>10 DEF OpenNext, OpenVolume, MakeSnapshot, openVars, Next, Step

-----------------------------------------------------------------------------
(* The walks of the store, as StoreWalk has them.                          *)

LEMMA SameGeometry ==
  /\ Build!Offsets = Offsets /\ Build!WholeBlocks = WholeBlocks
  /\ \A x, y : Build!SatAdd(x, y) = SatAdd(x, y)
  /\ \A off, seen, n, cap : Build!LoopEnds(off, seen, n, cap) <=> LoopEnds(off, seen, n, cap)
  BY DEF Build!Offsets, Offsets, Build!WholeBlocks, WholeBlocks, Build!SatAdd, SatAdd,
         Build!LoopEnds, LoopEnds, Build!BlockInRange, BlockInRange

\* The store asked for, when it is there and has its pointers.
LEMMA StoreFound ==
  ASSUME OpeningInv, IInv
  PROVE  /\ Build!InRange <=> asked \in DOMAIN stores
         /\ Build!Found <=> /\ asked \in DOMAIN stores
                            /\ stores[asked].header # None /\ stores[asked].bitmap # None
         /\ Build!Found => stores[asked].header \in Offsets /\ stores[asked].bitmap \in Offsets
<1>1. asked \in Nat \ {0} /\ stores \in Seq(Store)
  BY OpenAssumption DEF OpeningInv, IInv, TypeOK
<1>2. Build!InRange <=> asked \in DOMAIN stores
  BY <1>1 DEF Build!InRange
<1>3. asked \in DOMAIN stores => stores[asked] \in Store
  BY <1>1
<1>4. QED
  BY <1>2, <1>3 DEF Build!Found, Store

\* No read of the walks runs off the volume.
LEMMA BuildReads ==
  ASSUME OpeningInv, IInv, building = "read"
  PROVE  block_next \in WholeBlocks /\ ~Build!EndOfVolume /\ block_next \notin Build!Taken(walking)
         /\ block_next # 0 /\ block_count < MaxStoreBlocks
<1>1. block_next \in Offsets /\ ~LoopEnds(block_next, Build!Taken(walking), block_count, MaxStoreBlocks)
      /\ block_count \in Nat /\ MaxStoreBlocks \in Nat
  BY OpenAssumption, SameGeometry DEF OpeningInv, BuildTypes, Build!WalkInv
<1>2. BlockInRange(block_next) /\ block_next # 0 /\ block_next \notin Build!Taken(walking)
      /\ block_count < MaxStoreBlocks
  BY <1>1 DEF LoopEnds
<1>3. block_next \in WholeBlocks
  BY <1>1, <1>2, InRangeIsWhole
<1>4. QED
  BY <1>2, <1>3, GeometryAssumption DEF WholeBlocks, Offsets, Build!EndOfVolume

\* The record at hand is a descriptor, unless the block is at its end.
LEMMA BuildRecord ==
  ASSUME OpeningInv, IInv, building = "records"
  PROVE  /\ block_next \in WholeBlocks
         /\ Build!Here = disk.blocks[block_next]
         /\ ~Build!AtEnd => /\ record \in 1 .. RecordsPerBlock
                            /\ Build!Here.records[record] \in Build!BlockDescriptor
<1>1. block_next \in WholeBlocks /\ record \in 1 .. RecordsPerBlock + 1 /\ RecordsPerBlock \in Nat
  BY OpenAssumption, SameGeometry DEF OpeningInv, Build!WalkInv, BuildTypes
<1>2. Build!Here = disk.blocks[block_next]
  BY DEF Build!Here
<1>3. disk.blocks[block_next].records \in [1 .. RecordsPerBlock -> StoreRecord]
  BY <1>1, DiskTypes
<1>4. ASSUME ~Build!AtEnd
      PROVE  record \in 1 .. RecordsPerBlock /\ Build!Here.records[record] # ZeroRecord
  BY <1>1, <1>4 DEF Build!AtEnd
<1>5. QED
  BY <1>1, <1>2, <1>3, <1>4 DEF StoreRecord

\* A step of the walks leaves what they read alone.
LEMMA BuildKeeps ==
  ASSUME OpeningInv, MakeSnapshot
  PROVE  /\ pc = "done" /\ disk' = disk /\ asked' = asked /\ stores' = stores /\ faults' = faults
         /\ Build!Found' = Build!Found
         /\ \A c : ChainStart(c)' = ChainStart(c)
  BY DEF MakeSnapshot, vars, Build!Found, Build!InRange, ChainStart

\* The blocks taken of a chain, when one more is.
LEMMA BuildTakes ==
  ASSUME BuildTypes, NEW c \in Build!Chains, NEW b,
         block_taken' = [block_taken EXCEPT ![c] = Append(@, b)]
  PROVE  /\ Build!Taken(c)' = Build!Taken(c) \cup {b}
         /\ Len(block_taken[c]) \in Nat
         /\ block_taken'[c] = Append(block_taken[c], b)
         /\ Len(block_taken'[c]) = Len(block_taken[c]) + 1
         /\ block_taken'[c][Len(block_taken[c]) + 1] = b
         /\ \A i \in 1 .. Len(block_taken[c]) : block_taken'[c][i] = block_taken[c][i]
         /\ \A d \in Build!Chains \ {c} : block_taken'[d] = block_taken[d]
<1>1. block_taken[c] \in Seq(WholeBlocks) /\ Len(block_taken[c]) \in Nat
  BY DEF BuildTypes
<1>2. /\ block_taken'[c] = Append(block_taken[c], b)
      /\ \A d \in Build!Chains \ {c} : block_taken'[d] = block_taken[d]
  BY DEF BuildTypes
<1>3. /\ Len(block_taken'[c]) = Len(block_taken[c]) + 1
      /\ block_taken'[c][Len(block_taken[c]) + 1] = b
      /\ \A i \in 1 .. Len(block_taken[c]) : block_taken'[c][i] = block_taken[c][i]
  BY <1>1, <1>2
<1>4. Build!Taken(c)' = {block_taken'[c][i] : i \in 1 .. Len(block_taken[c]) + 1}
  BY <1>3 DEF Build!Taken
<1>5. 1 .. Len(block_taken[c]) + 1 = (1 .. Len(block_taken[c])) \cup {Len(block_taken[c]) + 1}
  BY <1>1
<1>6. QED
  BY <1>1, <1>2, <1>3, <1>4, <1>5 DEF Build!Taken

LEMMA StepTypes ==
  ASSUME OpeningInv, IInv, MakeSnapshot
  PROVE  BuildTypes'
<1> USE DEF Build!walk, Build!built, Build!Refused, Build!Ended, Build!Chains
<1>0. BuildTypes
  BY DEF OpeningInv
<1>1. CASE Build!Begin
  <2>1. stores[asked].header \in Offsets /\ block_next' = SatAdd(stores[asked].header, BlockSize)
    BY <1>1, StoreFound, SameGeometry DEF Build!Begin
  <2>2. SatAdd(stores[asked].header, BlockSize) \in Offsets
    BY <2>1, GeometryAssumption DEF SatAdd, Offsets
  <2>3. QED
    BY <1>0, <1>1, <2>1, <2>2 DEF Build!Begin, BuildTypes
<1>2. CASE Build!RefuseIndex \/ Build!RefuseStore
  BY <1>0, <1>2 DEF Build!RefuseIndex, Build!RefuseStore, BuildTypes
<1>3. CASE Build!EndLoop \/ Build!ReadForeign
  <2>1. /\ building \in {"loop", "read"} /\ Build!EndWalk
        /\ UNCHANGED <<record, block_taken, block_faults>>
    BY <1>3 DEF Build!EndLoop, Build!ReadForeign
  <2>2. CASE walking = "diff"
    <3>1. stores[asked].bitmap \in Offsets
      BY <2>1, <2>2, StoreFound DEF OpeningInv, Build!WalkInv
    <3>2. 0 \in 0 .. MaxStoreBlocks
      BY OpenAssumption
    <3>3. QED
      BY <1>0, <2>1, <2>2, <3>1, <3>2 DEF Build!EndWalk, BuildTypes
  <2>3. CASE walking = "bitmap"
    BY <1>0, <2>1, <2>3 DEF Build!EndWalk, BuildTypes
  <2>4. QED
    BY <1>0, <2>2, <2>3 DEF BuildTypes
<1>4. CASE Build!EnterBlock
  BY <1>0, <1>4 DEF Build!EnterBlock, BuildTypes
<1>5. CASE Build!ReadDescriptors
  <2>1. block_next \in WholeBlocks
    BY <1>5, BuildReads DEF Build!ReadDescriptors
  <2>2. block_taken' \in [Build!Chains -> Seq(WholeBlocks)]
    <3>1. Append(block_taken["diff"], block_next) \in Seq(WholeBlocks)
      BY <1>0, <2>1 DEF BuildTypes
    <3>2. QED
      BY <1>0, <1>5, <3>1 DEF Build!ReadDescriptors, BuildTypes
  <2>3. record' \in 1 .. RecordsPerBlock + 1
    BY <1>5, OpenAssumption DEF Build!ReadDescriptors
  <2>4. QED
    BY <1>0, <1>5, <2>2, <2>3 DEF Build!ReadDescriptors, BuildTypes
<1>6. CASE Build!ReadPiece
  <2>1. block_next \in WholeBlocks /\ block_count < MaxStoreBlocks
    BY <1>6, BuildReads DEF Build!ReadPiece
  <2>2. block_taken' \in [Build!Chains -> Seq(WholeBlocks)]
    <3>1. Append(block_taken["bitmap"], block_next) \in Seq(WholeBlocks)
      BY <1>0, <2>1 DEF BuildTypes
    <3>2. QED
      BY <1>0, <1>6, <3>1 DEF Build!ReadPiece, BuildTypes
  <2>3. block_next' \in Offsets
    BY <1>6, <2>1, DiskTypes DEF Build!ReadPiece, Build!Here
  <2>4. block_count' \in 0 .. MaxStoreBlocks
    BY <1>0, <1>6, <2>1, OpenAssumption DEF Build!ReadPiece, BuildTypes
  <2>5. QED
    BY <1>0, <1>6, <2>2, <2>3, <2>4 DEF Build!ReadPiece, BuildTypes
<1>7. CASE Build!FileDescriptor
  <2>1. record \in 1 .. RecordsPerBlock
    BY <1>7, BuildRecord DEF Build!FileDescriptor
  <2>2. record' \in 1 .. RecordsPerBlock + 1
    BY <1>7, <2>1, OpenAssumption DEF Build!FileDescriptor
  <2>3. QED
    BY <1>0, <1>7, <2>2 DEF Build!FileDescriptor, BuildTypes
<1>8. CASE Build!LeaveBlock
  <2>1. block_next \in WholeBlocks /\ block_count < MaxStoreBlocks
    BY <1>8, BuildRecord DEF Build!LeaveBlock, OpeningInv, Build!WalkInv
  <2>2. block_next' \in Offsets
    BY <1>8, <2>1, DiskTypes DEF Build!LeaveBlock, Build!Here
  <2>3. block_count' \in 0 .. MaxStoreBlocks
    BY <1>0, <1>8, <2>1, OpenAssumption DEF Build!LeaveBlock, BuildTypes
  <2>4. QED
    BY <1>0, <1>8, <2>2, <2>3 DEF Build!LeaveBlock, BuildTypes
<1>9. CASE Build!ReadFails
  <2>1. block_faults' \in 0 .. MaxFaults
    BY <1>0, <1>9, CatalogAssumption DEF Build!ReadFails, BuildTypes
  <2>2. QED
    BY <1>0, <1>9, <2>1 DEF Build!ReadFails, BuildTypes
<1>10. QED
  BY <1>1, <1>2, <1>3, <1>4, <1>5, <1>6, <1>7, <1>8, <1>9 DEF MakeSnapshot, Build!Next, Build!Step

\* The end of a walk, from the loop head or from a foreign block.
LEMMA BuildEndsWalk ==
  ASSUME OpeningInv, Build!EndWalk, building \in {"loop", "read"}, UNCHANGED <<block_taken, disk, asked, stores>>
  PROVE  Build!WalkInv'
<1>1. Build!Found /\ Build!Found'
  BY DEF OpeningInv, Build!WalkInv, Build!Found, Build!InRange, Build!Refused
<1>2. CASE walking = "diff"
  <2>1. /\ walking' = "bitmap" /\ building' = "loop" /\ block_visited' = {} /\ block_count' = 0
        /\ block_next' = stores[asked].bitmap
    BY <1>2 DEF Build!EndWalk
  <2>2. block_taken["bitmap"] = << >>
    BY <1>2 DEF OpeningInv, Build!WalkInv
  <2>3. /\ Build!Taken("bitmap")' = {} /\ Build!AheadIn("bitmap")' = block_next'
        /\ Len(block_taken'["bitmap"]) = 0
    BY <2>1, <2>2 DEF Build!Taken, Build!AheadIn, Build!FirstOf
  <2>4. QED
    BY <1>1, <2>1, <2>3 DEF Build!WalkInv, Build!Refused
<1>3. CASE walking = "bitmap"
  <2>1. walking' = "bitmap" /\ building' = "done"
    BY <1>3 DEF Build!EndWalk
  <2>2. QED
    BY <1>1, <2>1 DEF Build!WalkInv, Build!Refused
<1>4. QED
  BY <1>2, <1>3 DEF OpeningInv, BuildTypes, Build!Chains

LEMMA StepBuildWalk ==
  ASSUME OpeningInv, IInv, MakeSnapshot
  PROVE  Build!WalkInv'
<1> USE DEF Build!walk, Build!built, Build!Refused
<1>0. disk' = disk /\ asked' = asked /\ stores' = stores /\ Build!Found' = Build!Found
  BY BuildKeeps
<1>00. Build!WalkInv /\ BuildTypes
  BY DEF OpeningInv
<1>1. CASE Build!Begin
  <2>1. /\ walking = "diff" /\ walking' = "diff" /\ building' = "loop" /\ block_taken' = block_taken
        /\ Build!Found /\ block_visited' = {} /\ block_count' = 0
        /\ block_taken["diff"] = << >> /\ block_taken["bitmap"] = << >>
    BY <1>00, <1>1 DEF Build!Begin, Build!WalkInv
  <2>2. /\ Build!Taken("diff")' = {} /\ Build!AheadIn("diff")' = block_next'
        /\ Len(block_taken'["diff"]) = 0
    BY <1>0, <1>1, <2>1 DEF Build!Begin, Build!Taken, Build!AheadIn, Build!FirstOf
  <2>3. QED
    BY <1>0, <2>1, <2>2 DEF Build!WalkInv
<1>2. CASE Build!RefuseIndex \/ Build!RefuseStore
  BY <1>0, <1>00, <1>2 DEF Build!RefuseIndex, Build!RefuseStore, Build!WalkInv
<1>3. CASE Build!EndLoop
  BY <1>0, <1>3, BuildEndsWalk DEF Build!EndLoop
<1>4. CASE Build!EnterBlock
  <2>1. /\ UNCHANGED <<walking, block_next, block_count, block_taken>>
        /\ building = "loop" /\ building' = "read" /\ block_visited' = block_visited \cup {block_next}
    BY <1>4 DEF Build!EnterBlock
  <2>2. /\ block_visited = Build!Taken(walking) /\ block_next = Build!AheadIn(walking)
        /\ Len(block_taken[walking]) = block_count
    BY <1>00, <2>1 DEF Build!WalkInv
  <2>3. ~Build!LoopEnds(block_next, Build!Taken(walking), block_count, MaxStoreBlocks)
    BY <1>4, <2>2 DEF Build!EnterBlock
  <2>4. Build!Taken(walking)' = Build!Taken(walking) /\ Build!AheadIn(walking)' = Build!AheadIn(walking)
    BY <1>0, <2>1 DEF Build!Taken, Build!AheadIn, Build!FirstOf
  <2>5. Build!Found /\ (walking = "diff" => block_taken["bitmap"] = << >>)
    BY <1>00, <2>1 DEF Build!WalkInv
  <2>6. QED
    BY <1>0, <2>1, <2>2, <2>3, <2>4, <2>5, SameGeometry DEF Build!WalkInv, LoopEnds
<1>5. CASE Build!ReadForeign
  BY <1>0, <1>5, BuildEndsWalk DEF Build!ReadForeign
<1>6. CASE Build!ReadDescriptors
  <2>1. /\ UNCHANGED <<block_next, walking, block_visited, block_count>>
        /\ building = "read" /\ building' = "records" /\ walking = "diff"
        /\ block_taken' = [block_taken EXCEPT !["diff"] = Append(@, block_next)]
    BY <1>6 DEF Build!ReadDescriptors
  <2>2. /\ block_visited = Build!Taken("diff") \cup {block_next}
        /\ Len(block_taken["diff"]) = block_count
        /\ block_next \in WholeBlocks /\ block_count < MaxStoreBlocks /\ Build!Found
        /\ block_taken["bitmap"] = << >>
    BY <1>00, <2>1, BuildReads DEF Build!WalkInv
  <2>3. /\ Build!Taken("diff")' = Build!Taken("diff") \cup {block_next}
        /\ Len(block_taken'["diff"]) = block_count + 1
        /\ block_taken'["diff"][block_count + 1] = block_next /\ block_taken'["bitmap"] = << >>
    BY <1>00, <2>1, <2>2, BuildTakes DEF Build!Chains
  <2>4. QED
    BY <1>0, <2>1, <2>2, <2>3, SameGeometry DEF Build!WalkInv
<1>7. CASE Build!ReadPiece
  <2>1. /\ UNCHANGED <<walking, block_visited>> /\ building = "read" /\ building' = "loop"
        /\ walking = "bitmap"
        /\ block_count' = block_count + 1 /\ block_next' = disk.blocks[block_next].next_offset
        /\ block_taken' = [block_taken EXCEPT !["bitmap"] = Append(@, block_next)]
    BY <1>7 DEF Build!ReadPiece, Build!Here
  <2>2. /\ block_visited = Build!Taken("bitmap") \cup {block_next}
        /\ Len(block_taken["bitmap"]) = block_count /\ Build!Found
    BY <1>00, <2>1 DEF Build!WalkInv
  <2>3. /\ Build!Taken("bitmap")' = Build!Taken("bitmap") \cup {block_next}
        /\ Len(block_taken'["bitmap"]) = block_count + 1
        /\ block_taken'["bitmap"][block_count + 1] = block_next /\ block_count \in Nat
    BY <1>00, <2>1, <2>2, BuildTakes DEF Build!Chains
  <2>4. block_next' = Build!AheadIn("bitmap")'
    BY <1>0, <2>1, <2>3 DEF Build!AheadIn
  <2>5. QED
    BY <1>0, <2>1, <2>2, <2>3, <2>4 DEF Build!WalkInv
<1>8. CASE Build!FileDescriptor
  BY <1>0, <1>00, <1>8 DEF Build!FileDescriptor, Build!WalkInv, Build!Taken
<1>9. CASE Build!LeaveBlock
  <2>1. /\ walking = "diff" /\ block_visited = Build!Taken("diff")
        /\ Len(block_taken["diff"]) = block_count + 1
        /\ block_next = block_taken["diff"][block_count + 1] /\ Build!Found
        /\ block_taken["bitmap"] = << >> /\ block_count \in Nat
    BY <1>00, <1>9, OpenAssumption DEF Build!LeaveBlock, Build!WalkInv, BuildTypes
  <2>2. /\ UNCHANGED <<walking, block_visited, block_taken>> /\ building' = "loop"
        /\ block_count' = block_count + 1 /\ block_next' = disk.blocks[block_next].next_offset
    BY <1>9 DEF Build!LeaveBlock, Build!Here
  <2>3. block_taken["diff"] # << >>
    BY <2>1
  <2>4. block_next' = Build!AheadIn("diff")' /\ Build!Taken("diff")' = Build!Taken("diff")
    BY <1>0, <2>1, <2>2, <2>3 DEF Build!AheadIn, Build!Taken
  <2>5. QED
    BY <1>0, <2>1, <2>2, <2>4 DEF Build!WalkInv
<1>10. CASE Build!ReadFails
  BY <1>0, <1>00, <1>10 DEF Build!ReadFails, Build!WalkInv
<1>11. QED
  BY <1>1, <1>2, <1>3, <1>4, <1>5, <1>6, <1>7, <1>8, <1>9, <1>10 DEF MakeSnapshot, Build!Next, Build!Step

LEMMA StepBuildRecord ==
  ASSUME OpeningInv, IInv, MakeSnapshot
  PROVE  Build!RecordInv'
<1> USE DEF Build!walk, Build!built
<1>0. disk' = disk
  BY BuildKeeps
<1>1. CASE Build!ReadDescriptors
  BY <1>1 DEF Build!ReadDescriptors, Build!RecordInv
<1>2. CASE Build!FileDescriptor
  <2>1. /\ UNCHANGED block_next /\ record' = record + 1 /\ building = "records" /\ ~Build!AtEnd
        /\ \A k \in 1 .. record - 1 : Build!Here.records[k] # ZeroRecord
    BY <1>2 DEF Build!FileDescriptor, OpeningInv, Build!RecordInv
  <2>2. Build!Here.records[record] # ZeroRecord /\ record \in Nat
    BY <2>1, OpenAssumption DEF Build!AtEnd, OpeningInv, BuildTypes
  <2>3. \A k \in 1 .. record' - 1 : k \in 1 .. record - 1 \/ k = record
    BY <2>1, <2>2
  <2>4. QED
    BY <1>0, <2>1, <2>2, <2>3 DEF Build!RecordInv, Build!Here
<1>3. CASE building' # "records"
  BY <1>3 DEF Build!RecordInv
<1>4. QED
  BY <1>1, <1>2, <1>3 DEF MakeSnapshot, Build!Next, Build!Step, Build!Begin, Build!RefuseIndex,
     Build!RefuseStore, Build!EndLoop, Build!EndWalk, Build!EnterBlock, Build!ReadForeign,
     Build!ReadPiece, Build!LeaveBlock, Build!ReadFails

LEMMA StepBuildFault ==
  ASSUME OpeningInv, IInv, MakeSnapshot
  PROVE  /\ Build!FaultInv'
         /\ Build!ReadFails => block_faults = 0 /\ block_faults' = 1 /\ block_faults < MaxFaults
                               /\ building' = "failed"
<1>0. Build!FaultInv /\ BuildTypes
  BY DEF OpeningInv
<1>1. ASSUME Build!ReadFails
      PROVE  block_faults = 0 /\ block_faults' = 1 /\ block_faults < MaxFaults /\ building' = "failed"
  <2>1. ~Build!EndOfVolume
    BY <1>1, BuildReads DEF Build!ReadFails
  <2>2. block_faults = 0
    BY <1>0, <1>1, CatalogAssumption DEF Build!ReadFails, Build!FaultInv, BuildTypes
  <2>3. QED
    BY <1>1, <2>1, <2>2 DEF Build!ReadFails
<1>2. CASE Build!Step
  <2>1. building # "failed" /\ building' # "failed" /\ block_faults' = block_faults
    BY <1>2 DEF Build!Step, Build!Begin, Build!RefuseIndex, Build!RefuseStore, Build!EndLoop,
       Build!EndWalk, Build!EnterBlock, Build!ReadForeign, Build!ReadDescriptors, Build!ReadPiece,
       Build!FileDescriptor, Build!LeaveBlock
  <2>2. QED
    BY <1>0, <1>1, <2>1 DEF Build!FaultInv
<1>3. CASE Build!ReadFails
  BY <1>1, <1>3 DEF Build!FaultInv
<1>4. QED
  BY <1>1, <1>2, <1>3 DEF MakeSnapshot, Build!Next

\* The list with the block at the end of a chain has its piece at the end.
LEMMA PiecesNext ==
  ASSUME NEW b, NEW t \in Seq(WholeBlocks), NEW o \in WholeBlocks
  PROVE  PiecesOf(b, Append(t, o)) = Append(PiecesOf(b, t), Build!PieceOf(b[o]))
<1>1. PICK n \in Nat : n = Len(t)
  OBVIOUS
<1>2. PICK Q : Q = {Build!PieceOf(b[w]) : w \in WholeBlocks}
  OBVIOUS
<1>3. PICK ps : ps = PiecesOf(b, t)
  OBVIOUS
<1>4. ps = [i \in 1 .. n |-> Build!PieceOf(b[t[i]])] /\ \A i \in 1 .. n : t[i] \in WholeBlocks
  BY <1>1, <1>3 DEF PiecesOf
<1>5. ps \in Seq(Q) /\ Len(ps) = n
  <2>1. \A i \in 1 .. n : Build!PieceOf(b[t[i]]) \in Q
    BY <1>2, <1>4
  <2>2. QED
    BY <1>4, <2>1
<1>6. PICK q \in Q : q = Build!PieceOf(b[o])
  BY <1>2
<1>7. Append(ps, q) = [i \in 1 .. n + 1 |-> IF i = n + 1 THEN q ELSE ps[i]]
  <2>1. PICK s \in Seq(Q) : s = ps /\ Len(s) = n
    BY <1>5
  <2>2. PICK u \in Seq(Q) : u = Append(s, q) /\ Len(u) = n + 1
    <3>1. s \in Seq(Q) /\ q \in Q /\ Len(s) = n
      BY <1>6, <2>1
    <3>2. Append(s, q) \in Seq(Q) /\ Len(Append(s, q)) = n + 1
      BY <3>1
    <3>3. QED
      BY <3>2
  <2>3. \A i \in 1 .. n + 1 : u[i] = IF i = n + 1 THEN q ELSE s[i]
    <3>1. u[n + 1] = q /\ \A i \in 1 .. n : u[i] = s[i]
      BY <1>6, <2>1, <2>2
    <3>2. \A i \in 1 .. n + 1 : i \in 1 .. n \/ i = n + 1
      OBVIOUS
    <3>3. QED
      BY <3>1, <3>2
  <2>4. u = [i \in 1 .. n + 1 |-> u[i]]
    <3>1. u \in Seq(Q) /\ Len(u) = n + 1
      BY <2>2
    <3>2. QED
      BY <3>1
  <2>5. QED
    BY <2>1, <2>2, <2>3, <2>4
<1>8. /\ Len(Append(t, o)) = n + 1 /\ Append(t, o)[n + 1] = o
      /\ \A i \in 1 .. n : Append(t, o)[i] = t[i]
  BY <1>1
<1>9. PiecesOf(b, Append(t, o)) = [i \in 1 .. n + 1 |-> Build!PieceOf(b[Append(t, o)[i]])]
  BY <1>8 DEF PiecesOf
<1>10. \A i \in 1 .. n + 1 : Build!PieceOf(b[Append(t, o)[i]]) = IF i = n + 1 THEN q ELSE ps[i]
  <2>1. TAKE i \in 1 .. n + 1
  <2>2. i \in 1 .. n \/ i = n + 1
    OBVIOUS
  <2>3. CASE i = n + 1
    BY <1>6, <1>8, <2>3
  <2>4. CASE i \in 1 .. n
    <3>1. i # n + 1 /\ Append(t, o)[i] = t[i]
      BY <1>8, <2>4
    <3>2. QED
      BY <1>4, <2>4, <3>1
  <2>5. QED
    BY <2>2, <2>3, <2>4
<1>11. QED
  BY <1>3, <1>6, <1>7, <1>9, <1>10

LEMMA StepBuildPiece ==
  ASSUME OpeningInv, IInv, MakeSnapshot
  PROVE  Build!PieceInv'
<1> USE DEF Build!walk, Build!built
<1>0. disk' = disk
  BY BuildKeeps
<1>1. pieces = PiecesOf(disk.blocks, block_taken["bitmap"])
  BY DEF OpeningInv, Build!PieceInv, PiecesOf
<1>2. ASSUME block_taken'["bitmap"] = block_taken["bitmap"], pieces' = pieces,
             building' = "done" => bitmap' = Build!Joined(pieces)
      PROVE  Build!PieceInv'
  BY <1>0, <1>1, <1>2 DEF Build!PieceInv, PiecesOf
<1>3. CASE Build!ReadPiece
  <2>1. /\ block_taken' = [block_taken EXCEPT !["bitmap"] = Append(@, block_next)]
        /\ building = "read" /\ building' = "loop"
        /\ pieces' = Append(pieces, Build!PieceOf(disk.blocks[block_next]))
    BY <1>3 DEF Build!ReadPiece, Build!Here, Build!PieceOf
  <2>2. block_taken'["bitmap"] = Append(block_taken["bitmap"], block_next)
    BY <2>1, BuildTakes DEF OpeningInv, Build!Chains
  <2>3. block_taken["bitmap"] \in Seq(WholeBlocks) /\ block_next \in WholeBlocks
    BY <2>1, BuildReads DEF OpeningInv, BuildTypes, Build!Chains
  <2>4. pieces' = PiecesOf(disk.blocks, block_taken'["bitmap"])
    BY <1>1, <2>1, <2>2, <2>3, PiecesNext
  <2>5. QED
    BY <1>0, <2>1, <2>4 DEF Build!PieceInv, PiecesOf
<1>4. CASE Build!EndLoop \/ Build!ReadForeign
  BY <1>2, <1>4 DEF Build!EndLoop, Build!ReadForeign, Build!EndWalk
<1>5. CASE Build!ReadDescriptors
  <2>1. block_taken'["bitmap"] = block_taken["bitmap"]
    BY <1>5, BuildTakes DEF Build!ReadDescriptors, OpeningInv, Build!Chains
  <2>2. QED
    BY <1>2, <1>5, <2>1 DEF Build!ReadDescriptors
<1>6. CASE Build!Begin \/ Build!RefuseIndex \/ Build!RefuseStore \/ Build!EnterBlock
           \/ Build!FileDescriptor \/ Build!LeaveBlock \/ Build!ReadFails
  BY <1>2, <1>6 DEF Build!Begin, Build!RefuseIndex, Build!RefuseStore, Build!EnterBlock,
     Build!FileDescriptor, Build!LeaveBlock, Build!ReadFails
<1>7. QED
  BY <1>3, <1>4, <1>5, <1>6 DEF MakeSnapshot, Build!Next, Build!Step

-----------------------------------------------------------------------------
(* The chains of the store.                                                *)

\* A chain of the store leads where StoreWalk says, except where that saturates at
\* the end of u64: there neither has a whole block ahead.
LEMMA StoreLeads ==
  ASSUME OpeningInv, IInv, Build!Found, NEW c \in Build!Chains, NEW ahead,
         ahead = Opening!LeadsTo(disk.blocks, ChainStart(c), block_taken[c])
  PROVE  \/ ahead = Build!AheadIn(c)
         \/ ~(ahead + BlockSize <= VolumeSize) /\ Build!AheadIn(c) \notin WholeBlocks
<1>1. block_taken[c] \in Seq(WholeBlocks)
  BY DEF OpeningInv, BuildTypes
<1>2. CASE block_taken[c] = << >> /\ c = "diff"
  <2>1. stores[asked].header \in Nat
    BY StoreFound, GeometryAssumption DEF Offsets
  <2>2. MaxU64 \notin WholeBlocks
    BY GeometryAssumption DEF WholeBlocks, Offsets
  <2>3. ahead = stores[asked].header + BlockSize
    BY <1>2 DEF Opening!LeadsTo, ChainStart
  <2>4. Build!AheadIn(c) = SatAdd(stores[asked].header, BlockSize)
    BY <1>2, SameGeometry DEF Build!AheadIn, Build!FirstOf
  <2>5. QED
    BY <2>1, <2>2, <2>3, <2>4, GeometryAssumption DEF SatAdd
<1>3. CASE block_taken[c] = << >> /\ c = "bitmap"
  BY <1>3 DEF Opening!LeadsTo, ChainStart, Build!AheadIn, Build!FirstOf
<1>4. CASE block_taken[c] # << >>
  <2>1. Opening!Last(block_taken[c]) = block_taken[c][Len(block_taken[c])]
    BY DEF Opening!Last
  <2>2. QED
    BY <1>4, <2>1 DEF Opening!LeadsTo, Build!AheadIn
<1>5. QED
  BY <1>2, <1>3, <1>4 DEF Build!Chains

\* Where a walk ends, its chain does.
LEMMA StoreEnds ==
  ASSUME OpeningInv, IInv, Build!EndLoop \/ Build!ReadForeign
  PROVE  block_taken[walking] = Opening!ChainOf(disk.blocks, walking, ChainStart(walking), MaxStoreBlocks)
<1>1. /\ walking \in Build!Chains /\ walking # "catalog" /\ block_taken[walking] \in Seq(WholeBlocks)
      /\ block_count \in Nat /\ block_count <= MaxStoreBlocks /\ MaxStoreBlocks \in Nat
      /\ block_next \in Offsets
  BY OpenAssumption DEF OpeningInv, BuildTypes, Build!Chains
<1>2. /\ Build!Found /\ block_next = Build!AheadIn(walking)
      /\ Len(block_taken[walking]) = block_count
  BY DEF Build!EndLoop, Build!ReadForeign, OpeningInv, Build!WalkInv, Build!Refused
<1>3. PICK ahead : ahead = Opening!LeadsTo(disk.blocks, ChainStart(walking), block_taken[walking])
  OBVIOUS
<1>4. ahead = block_next \/ ~(ahead + BlockSize <= VolumeSize)
  BY <1>1, <1>2, <1>3, StoreLeads
<1>5. Begins(block_taken[walking], disk.blocks, walking, ChainStart(walking))
  BY <1>1 DEF OpeningInv, ChainsInv, Begins
<1>6. \/ Len(block_taken[walking]) = MaxStoreBlocks
      \/ ~GoesOn(block_taken[walking], disk.blocks, walking, ahead)
  <2>1. CASE Build!EndLoop
    <3>1. /\ block_visited = Build!Taken(walking)
          /\ LoopEnds(block_next, block_visited, block_count, MaxStoreBlocks)
      BY <2>1, SameGeometry DEF Build!EndLoop, OpeningInv, Build!WalkInv
    <3>2. block_next \in Build!Taken(walking) =>
            \E i \in 1 .. Len(block_taken[walking]) : block_taken[walking][i] = block_next
      BY DEF Build!Taken
    <3>3. BlockInRange(block_next) <=> block_next + BlockSize <= VolumeSize
      BY <1>1, BlockInRangeMeaning DEF Offsets
    <3>4. QED
      BY <1>1, <1>2, <1>4, <3>1, <3>2, <3>3 DEF LoopEnds, GoesOn
  <2>2. CASE Build!ReadForeign
    <3>1. ~(disk.blocks[block_next].record_type = walking)
      BY <2>2 DEF Build!ReadForeign, Build!OfChain, Build!Here
    <3>2. QED
      BY <1>4, <3>1 DEF GoesOn
  <2>3. QED
    BY <2>1, <2>2
<1>7. Len(block_taken[walking]) <= MaxStoreBlocks
  BY <1>1, <1>2
<1>8. QED
  BY <1>1, <1>3, <1>5, <1>6, <1>7, ChainEnds

\* A block of a chain that is read goes on the beginning taken.
LEMMA StoreTakes ==
  ASSUME OpeningInv, IInv, building = "read", Build!OfChain(Build!Here)
  PROVE  Begins(Append(block_taken[walking], block_next), disk.blocks, walking, ChainStart(walking))
<1>1. walking \in Build!Chains /\ walking # "catalog" /\ block_taken[walking] \in Seq(WholeBlocks)
  BY DEF OpeningInv, BuildTypes, Build!Chains
<1>2. /\ Build!Found /\ block_next = Build!AheadIn(walking)
      /\ block_next \in WholeBlocks /\ block_next \notin Build!Taken(walking) /\ block_next # 0
  BY BuildReads DEF OpeningInv, Build!WalkInv, Build!Refused
<1>3. PICK ahead : ahead = Opening!LeadsTo(disk.blocks, ChainStart(walking), block_taken[walking])
  OBVIOUS
<1>4. ahead = block_next
  BY <1>1, <1>2, <1>3, StoreLeads
<1>5. disk.blocks[block_next].record_type = walking
  BY DEF Build!OfChain, Build!Here
<1>6. GoesOn(block_taken[walking], disk.blocks, walking, block_next)
  BY <1>1, <1>2, <1>5 DEF GoesOn, Build!Taken, WholeBlocks
<1>7. Begins(block_taken[walking], disk.blocks, walking, ChainStart(walking))
  BY <1>1 DEF OpeningInv, ChainsInv, Begins
<1>8. QED
  BY <1>1, <1>3, <1>4, <1>6, <1>7, ChainTakes

-----------------------------------------------------------------------------
(* The map of descriptors.                                                 *)

ReadLists == [i \in DOMAIN block_taken["diff"] |-> RecordsRead(i)]

\* What the records of a block are, read from its first to the one at hand or to
\* its end.
LEMMA ReadTypes ==
  ASSUME OpeningInv, IInv
  PROVE  /\ Len(block_taken["diff"]) \in Nat
         /\ DOMAIN ReadLists = 1 .. Len(block_taken["diff"])
         /\ Lists(ReadLists, StoreRecord, Len(block_taken["diff"]))
         /\ block_map = Opening!ByOffset(FlattenSeq(ReadLists))
         /\ building = "records" =>
              /\ block_taken["diff"][Len(block_taken["diff"])] = block_next
              /\ block_next \in WholeBlocks
              /\ Len(block_taken["diff"]) = block_count + 1
<1>1. /\ block_taken["diff"] \in Seq(WholeBlocks) /\ Len(block_taken["diff"]) \in Nat
      /\ DOMAIN block_taken["diff"] = 1 .. Len(block_taken["diff"])
  BY DEF OpeningInv, BuildTypes, Build!Chains
<1>2. ASSUME building = "records"
      PROVE  /\ block_taken["diff"][Len(block_taken["diff"])] = block_next
             /\ block_next \in WholeBlocks /\ Len(block_taken["diff"]) = block_count + 1
  BY <1>2, SameGeometry DEF OpeningInv, Build!WalkInv
<1>3. /\ RecordsPerBlock \in Nat
      /\ building = "records" => record \in 1 .. RecordsPerBlock + 1
  BY OpenAssumption DEF OpeningInv, BuildTypes
<1>4. ASSUME NEW i \in 1 .. Len(block_taken["diff"])
      PROVE  RecordsRead(i) \in Seq(StoreRecord)
  <2>1. block_taken["diff"][i] \in WholeBlocks
    BY <1>1
  <2>2. PICK block : block = disk.blocks[block_taken["diff"][i]]
    OBVIOUS
  <2>3. block.records \in Seq(StoreRecord) /\ Len(block.records) = RecordsPerBlock
    <3>1. block.records \in [1 .. RecordsPerBlock -> StoreRecord]
      BY <2>1, <2>2, DiskTypes
    <3>2. QED
      BY <1>3, <3>1
  <2>4. Opening!Records(block) \in Seq(StoreRecord)
    BY <1>3, <2>3, RecordsEnd
  <2>5. building = "records" => SubSeq(block.records, 1, record - 1) \in Seq(StoreRecord)
    BY <1>3, <2>3, FirstEntries
  <2>6. QED
    BY <2>2, <2>4, <2>5 DEF RecordsRead
<1>5. /\ DOMAIN ReadLists = 1 .. Len(block_taken["diff"])
      /\ ReadLists \in Seq(Seq(StoreRecord)) /\ Len(ReadLists) = Len(block_taken["diff"])
  BY <1>1, <1>4 DEF ReadLists
<1>6. Lists(ReadLists, StoreRecord, Len(block_taken["diff"]))
  BY <1>5 DEF Lists
<1>7. block_map = Opening!ByOffset(FlattenSeq(ReadLists))
  BY DEF OpeningInv, ChainsInv, ReadLists
<1>8. QED
  BY <1>1, <1>2, <1>5, <1>6, <1>7

\* A step that takes no block of descriptors and reads no record.
LEMMA OtherLists ==
  ASSUME OpeningInv, IInv, disk' = disk, block_taken'["diff"] = block_taken["diff"],
         \/ building # "records" /\ building' # "records"
         \/ building' = building /\ record' = record
  PROVE  ReadLists' = ReadLists
  BY DEF ReadLists, RecordsRead

\* A block that is begun has given no record yet.
LEMMA BlockBegun ==
  ASSUME OpeningInv, IInv, MakeSnapshot, Build!ReadDescriptors
  PROVE  FlattenSeq(ReadLists') = FlattenSeq(ReadLists)
<1>1. /\ building = "read" /\ building' = "records" /\ record' = 1 /\ disk' = disk
      /\ block_taken' = [block_taken EXCEPT !["diff"] = Append(@, block_next)]
  BY BuildKeeps DEF Build!ReadDescriptors
<1>2. PICK l \in Nat : l = Len(block_taken["diff"])
  BY ReadTypes
<1>3. /\ DOMAIN block_taken["diff"] = 1 .. l
      /\ Len(block_taken'["diff"]) = l + 1 /\ DOMAIN block_taken'["diff"] = 1 .. l + 1
      /\ block_taken'["diff"][l + 1] = block_next
      /\ \A i \in 1 .. l : block_taken'["diff"][i] = block_taken["diff"][i]
  <2>1. /\ block_taken["diff"] \in Seq(WholeBlocks) /\ block_next \in WholeBlocks
        /\ block_taken'["diff"] = Append(block_taken["diff"], block_next)
    BY <1>1, BuildReads, BuildTakes DEF OpeningInv, BuildTypes, Build!Chains
  <2>2. QED
    BY <1>2, <2>1
<1>4. l + 1 \in 1 .. l + 1 /\ \A i \in 1 .. l : i \in 1 .. l + 1 /\ i # l + 1
  OBVIOUS
<1>5. \A i \in 1 .. l : RecordsRead(i)' = RecordsRead(i)
  BY <1>1, <1>3, <1>4 DEF RecordsRead
<1>6. RecordsRead(l + 1)' = << >>
  <2>1. RecordsRead(l + 1)' = SubSeq(disk.blocks[block_next].records, 1, 1 - 1)
    BY <1>1, <1>3 DEF RecordsRead
  <2>2. disk.blocks[block_next].records \in Seq(StoreRecord)
    <3>1. disk.blocks[block_next].records \in [1 .. RecordsPerBlock -> StoreRecord]
          /\ RecordsPerBlock \in Nat
      BY <1>1, BuildReads, DiskTypes, OpenAssumption
    <3>2. QED
      BY <3>1
  <2>3. QED
    BY <2>1, <2>2, FirstEntries
<1>7. PICK p, q : p = ReadLists /\ q = ReadLists'
  OBVIOUS
<1>8. OneMore(q, p, << >>, l)
  <2>1. DOMAIN p = 1 .. l /\ \A i \in 1 .. l : p[i] = RecordsRead(i)
    BY <1>3, <1>7 DEF ReadLists
  <2>2. DOMAIN q = 1 .. l + 1 /\ \A i \in 1 .. l + 1 : q[i] = RecordsRead(i)'
    BY <1>3, <1>7 DEF ReadLists
  <2>3. QED
    BY <1>4, <1>5, <1>6, <2>1, <2>2 DEF OneMore
<1>9. q = [i \in DOMAIN q |-> q[i]]
  BY <1>7 DEF ReadLists
<1>10. Lists(p, StoreRecord, l)
  BY <1>2, <1>7, ReadTypes
<1>11. QED
  BY <1>7, <1>8, <1>9, <1>10, EmptyAdds

\* A descriptor that is filed is one more in the list of its block, which is the
\* last list.
LEMMA RecordFiled ==
  ASSUME OpeningInv, IInv, MakeSnapshot, Build!FileDescriptor
  PROVE  block_map' = Opening!ByOffset(FlattenSeq(ReadLists'))
<1>1. /\ building = "records" /\ building' = "records" /\ record' = record + 1 /\ disk' = disk
      /\ block_taken' = block_taken /\ ~Build!AtEnd
      /\ block_map' = Build!Filed(block_map, Build!Here.records[record])
  BY BuildKeeps DEF Build!FileDescriptor
<1>2. /\ Len(block_taken["diff"]) = block_count + 1 /\ block_count \in Nat
      /\ block_taken["diff"][Len(block_taken["diff"])] = block_next
      /\ DOMAIN block_taken["diff"] = 1 .. Len(block_taken["diff"])
  BY <1>1, ReadTypes, OpenAssumption DEF OpeningInv, BuildTypes, Build!Chains
<1>3. PICK l \in Nat : l = block_count
  BY <1>2
<1>4. PICK s : s = disk.blocks[block_next].records
  OBVIOUS
<1>5. s \in Seq(StoreRecord) /\ Len(s) = RecordsPerBlock
  <2>1. s \in [1 .. RecordsPerBlock -> StoreRecord] /\ RecordsPerBlock \in Nat
    BY <1>1, <1>4, BuildRecord, DiskTypes, OpenAssumption
  <2>2. QED
    BY <2>1
<1>6. record \in 1 .. Len(s) /\ Build!Here.records[record] = s[record]
  BY <1>1, <1>4, <1>5, BuildRecord
<1>7. PICK x : x = s[record]
  OBVIOUS
<1>8. x \in StoreRecord
  BY <1>5, <1>6, <1>7
<1>9. OneMore(SubSeq(s, 1, record), SubSeq(s, 1, record - 1), x, record - 1)
  BY <1>5, <1>6, <1>7, OneMoreFirst
<1>10. PICK p, q : p = ReadLists /\ q = ReadLists'
  OBVIOUS
<1>11. /\ p[l + 1] = SubSeq(s, 1, record - 1) /\ q[l + 1] = SubSeq(s, 1, record)
       /\ \A i \in 1 .. l : q[i] = p[i]
       /\ DOMAIN p = 1 .. l + 1 /\ DOMAIN q = 1 .. l + 1
  <2>1. DOMAIN block_taken["diff"] = 1 .. l + 1 /\ Len(block_taken["diff"]) = l + 1
    BY <1>2, <1>3
  <2>2. /\ p = [i \in 1 .. l + 1 |-> RecordsRead(i)]
        /\ q = [i \in 1 .. l + 1 |-> RecordsRead(i)']
    BY <1>1, <1>10, <2>1 DEF ReadLists
  <2>3. l + 1 \in 1 .. l + 1 /\ \A i \in 1 .. l : i \in 1 .. l + 1 /\ i # l + 1
    OBVIOUS
  <2>4. \A i \in 1 .. l : RecordsRead(i)' = RecordsRead(i)
    BY <1>1, <2>1, <2>3 DEF RecordsRead
  <2>5. RecordsRead(l + 1) = SubSeq(s, 1, record - 1)
    BY <1>1, <1>2, <1>4, <2>1 DEF RecordsRead
  <2>6. RecordsRead(l + 1)' = SubSeq(s, 1, record)
    <3>1. RecordsRead(l + 1)' = SubSeq(s, 1, record' - 1)
      BY <1>1, <1>2, <1>4, <2>1 DEF RecordsRead
    <3>2. record' - 1 = record
      BY <1>1, <1>6
    <3>3. QED
      BY <3>1, <3>2
  <2>7. QED
    BY <2>2, <2>3, <2>4, <2>5, <2>6
<1>12. /\ SubSeq(s, 1, record - 1) \in Seq(StoreRecord) /\ Len(SubSeq(s, 1, record - 1)) = record - 1
       /\ SubSeq(s, 1, record) \in Seq(StoreRecord)
  BY <1>5, <1>6
<1>13. Lists(p, StoreRecord, l + 1)
  BY <1>2, <1>3, <1>10, ReadTypes
<1>14. Lists(q, StoreRecord, l + 1)
  <2>1. \A i \in 1 .. l + 1 : p[i] \in Seq(StoreRecord)
    BY <1>13 DEF Lists
  <2>2. \A i \in 1 .. l + 1 : i \in 1 .. l \/ i = l + 1
    OBVIOUS
  <2>3. \A i \in 1 .. l + 1 : q[i] \in Seq(StoreRecord)
    BY <1>11, <1>12, <2>1, <2>2
  <2>4. q = [i \in 1 .. l + 1 |-> q[i]]
    BY <1>10, <1>11 DEF ReadLists
  <2>5. q \in Seq(Seq(StoreRecord)) /\ Len(q) = l + 1
    BY <2>3, <2>4
  <2>6. QED
    BY <2>5 DEF Lists
<1>15. OneMore(q[l + 1], p[l + 1], x, Len(p[l + 1]))
  BY <1>9, <1>11, <1>12
<1>16. PICK e, f : e = FlattenSeq(p) /\ f = FlattenSeq(q)
  OBVIOUS
<1>17. e \in Seq(StoreRecord) /\ OneMore(f, e, x, Len(e))
  BY <1>11, <1>13, <1>14, <1>15, <1>16, LastGrows
<1>18. PICK n \in Nat : n = Len(e)
  BY <1>17
<1>19. Opening!ByOffset(f) = Build!Filed(Opening!ByOffset(e), x)
  BY <1>8, <1>17, <1>18, ByOffsetNext
<1>20. block_map = Opening!ByOffset(e)
  BY <1>10, <1>16, ReadTypes
<1>21. QED
  BY <1>1, <1>6, <1>7, <1>10, <1>16, <1>19, <1>20

\* A block that is left has given all of its records.
LEMMA BlockLeft ==
  ASSUME OpeningInv, IInv, MakeSnapshot, Build!LeaveBlock
  PROVE  ReadLists' = ReadLists
<1>1. /\ building = "records" /\ building' = "loop" /\ disk' = disk /\ block_taken' = block_taken
      /\ Build!AtEnd
  BY BuildKeeps DEF Build!LeaveBlock
<1>2. PICK l : l = Len(block_taken["diff"])
  OBVIOUS
<1>3. block_taken["diff"][l] = block_next /\ block_next \in WholeBlocks
  BY <1>1, <1>2, ReadTypes
<1>4. PICK block : block = disk.blocks[block_next]
  OBVIOUS
<1>5. block.records \in Seq(StoreRecord) /\ Len(block.records) = RecordsPerBlock
      /\ RecordsPerBlock \in Nat /\ record \in 1 .. RecordsPerBlock + 1
  <2>1. block.records \in [1 .. RecordsPerBlock -> StoreRecord] /\ RecordsPerBlock \in Nat
    BY <1>3, <1>4, DiskTypes, OpenAssumption
  <2>2. QED
    BY <2>1 DEF OpeningInv, BuildTypes
<1>6. /\ \A k \in 1 .. record - 1 : block.records[k] # ZeroRecord
      /\ record <= RecordsPerBlock => block.records[record] = ZeroRecord
  BY <1>1, <1>4 DEF OpeningInv, Build!RecordInv, Build!AtEnd, Build!Here
<1>7. Opening!Records(block) = SubSeq(block.records, 1, record - 1)
  BY <1>5, <1>6, RecordsEnd
<1>8. \A i \in DOMAIN block_taken["diff"] : RecordsRead(i)' = RecordsRead(i)
  BY <1>1, <1>2, <1>3, <1>4, <1>7 DEF RecordsRead
<1>9. QED
  BY <1>1, <1>8 DEF ReadLists

\* The map is that of the records read.
LEMMA StepMap ==
  ASSUME OpeningInv, IInv, MakeSnapshot
  PROVE  block_map' = Opening!ByOffset(FlattenSeq(ReadLists'))
<1> USE DEF Build!walk, Build!built
<1>0. disk' = disk /\ block_map = Opening!ByOffset(FlattenSeq(ReadLists))
  BY BuildKeeps, ReadTypes
<1>1. CASE Build!ReadDescriptors
  BY <1>0, <1>1, BlockBegun DEF Build!ReadDescriptors
<1>2. CASE Build!FileDescriptor
  BY <1>2, RecordFiled
<1>3. CASE Build!LeaveBlock
  BY <1>0, <1>3, BlockLeft DEF Build!LeaveBlock
<1>4. ASSUME block_map' = block_map, block_taken'["diff"] = block_taken["diff"],
             building # "records", building' # "records"
      PROVE  block_map' = Opening!ByOffset(FlattenSeq(ReadLists'))
  BY <1>0, <1>4, OtherLists
<1>5. CASE Build!Begin \/ Build!RefuseIndex \/ Build!RefuseStore \/ Build!EnterBlock \/ Build!ReadFails
  BY <1>4, <1>5 DEF Build!Begin, Build!RefuseIndex, Build!RefuseStore, Build!EnterBlock, Build!ReadFails
<1>6. CASE Build!EndLoop \/ Build!ReadForeign
  BY <1>4, <1>6 DEF Build!EndLoop, Build!ReadForeign, Build!EndWalk
<1>7. CASE Build!ReadPiece
  <2>1. block_taken'["diff"] = block_taken["diff"]
    BY <1>7, BuildTakes DEF Build!ReadPiece, OpeningInv, Build!Chains
  <2>2. QED
    BY <1>4, <1>7, <2>1 DEF Build!ReadPiece
<1>8. QED
  BY <1>1, <1>2, <1>3, <1>5, <1>6, <1>7 DEF MakeSnapshot, Build!Next, Build!Step

\* The blocks taken of each chain are its beginning, and at the end all of it.
LEMMA StepChains ==
  ASSUME OpeningInv, IInv, MakeSnapshot
  PROVE  ChainsInv'
<1> USE DEF Build!walk, Build!built
<1> DEFINE Whole(c) == Opening!ChainOf(disk.blocks, c, ChainStart(c), MaxStoreBlocks)
<1>0. /\ disk' = disk /\ ChainStart("diff")' = ChainStart("diff")
      /\ ChainStart("bitmap")' = ChainStart("bitmap")
  BY BuildKeeps
<1>1. /\ Begins(block_taken["diff"], disk.blocks, "diff", ChainStart("diff"))
      /\ Begins(block_taken["bitmap"], disk.blocks, "bitmap", ChainStart("bitmap"))
      /\ building = "done" \/ walking = "bitmap" => block_taken["diff"] = Whole("diff")
      /\ building = "done" => block_taken["bitmap"] = Whole("bitmap")
  BY DEF OpeningInv, ChainsInv, Begins, Build!Chains
<1>2. walking \in {"diff", "bitmap"}
  BY DEF OpeningInv, BuildTypes, Build!Chains
<1>3. ASSUME Begins(block_taken'["diff"], disk.blocks, "diff", ChainStart("diff")),
             Begins(block_taken'["bitmap"], disk.blocks, "bitmap", ChainStart("bitmap")),
             building' = "done" \/ walking' = "bitmap" => block_taken'["diff"] = Whole("diff"),
             building' = "done" => block_taken'["bitmap"] = Whole("bitmap")
      PROVE  ChainsInv'
  <2>1. block_map' = Opening!ByOffset(FlattenSeq([i \in DOMAIN block_taken["diff"] |-> RecordsRead(i)]))'
    BY StepMap DEF ReadLists
  <2>2. ASSUME NEW c \in Build!Chains
        PROVE  /\ block_taken'[c] = Opening!ChainOf(disk'.blocks, c, ChainStart(c)', Len(block_taken'[c]))
               /\ building' = "done" \/ (c = "diff" /\ walking' = "bitmap") =>
                    block_taken'[c] = Opening!ChainOf(disk'.blocks, c, ChainStart(c)', MaxStoreBlocks)
    <3>1. CASE c = "diff"
      BY <1>0, <1>3, <3>1 DEF Begins
    <3>2. CASE c = "bitmap"
      BY <1>0, <1>3, <3>2 DEF Begins
    <3>3. QED
      BY <3>1, <3>2 DEF Build!Chains
  <2>3. QED
    BY <2>1, <2>2 DEF ChainsInv
<1> HIDE DEF Whole
<1>4. CASE Build!Begin \/ Build!RefuseIndex \/ Build!RefuseStore \/ Build!EnterBlock
           \/ Build!FileDescriptor \/ Build!LeaveBlock \/ Build!ReadFails
  <2>1. block_taken' = block_taken /\ walking' = walking /\ building' # "done"
    BY <1>4 DEF Build!Begin, Build!RefuseIndex, Build!RefuseStore, Build!EnterBlock,
       Build!FileDescriptor, Build!LeaveBlock, Build!ReadFails
  <2>2. QED
    BY <1>1, <1>3, <2>1
<1>5. CASE Build!EndLoop \/ Build!ReadForeign
  <2>1. /\ block_taken' = block_taken /\ block_taken[walking] = Whole(walking)
        /\ building' = "done" => walking = "bitmap"
    BY <1>5, StoreEnds DEF Build!EndLoop, Build!ReadForeign, Build!EndWalk, Whole
  <2>2. CASE walking = "diff"
    BY <1>1, <1>3, <2>1, <2>2
  <2>3. CASE walking = "bitmap"
    BY <1>1, <1>3, <2>1, <2>3
  <2>4. QED
    BY <1>2, <2>2, <2>3
<1>6. CASE Build!ReadDescriptors
  <2>1. /\ building = "read" /\ building' = "records" /\ walking = "diff" /\ walking' = "diff"
        /\ Build!OfChain(Build!Here)
        /\ block_taken' = [block_taken EXCEPT !["diff"] = Append(@, block_next)]
    BY <1>6 DEF Build!ReadDescriptors
  <2>2. /\ block_taken'["diff"] = Append(block_taken["diff"], block_next)
        /\ block_taken'["bitmap"] = block_taken["bitmap"]
    BY <2>1, BuildTakes DEF OpeningInv, Build!Chains
  <2>3. Begins(Append(block_taken["diff"], block_next), disk.blocks, "diff", ChainStart("diff"))
    BY <2>1, StoreTakes
  <2>4. QED
    BY <1>1, <1>3, <2>1, <2>2, <2>3
<1>7. CASE Build!ReadPiece
  <2>1. /\ building = "read" /\ building' = "loop" /\ walking = "bitmap" /\ walking' = "bitmap"
        /\ Build!OfChain(Build!Here)
        /\ block_taken' = [block_taken EXCEPT !["bitmap"] = Append(@, block_next)]
    BY <1>7 DEF Build!ReadPiece
  <2>2. /\ block_taken'["bitmap"] = Append(block_taken["bitmap"], block_next)
        /\ block_taken'["diff"] = block_taken["diff"]
    BY <2>1, BuildTakes DEF OpeningInv, Build!Chains
  <2>3. Begins(Append(block_taken["bitmap"], block_next), disk.blocks, "bitmap", ChainStart("bitmap"))
    BY <2>1, StoreTakes
  <2>4. QED
    BY <1>1, <1>3, <2>1, <2>2, <2>3
<1>8. QED
  BY <1>4, <1>5, <1>6, <1>7 DEF MakeSnapshot, Build!Next, Build!Step

-----------------------------------------------------------------------------
(* The invariant.                                                          *)

\* A snapshot that is not begun.
NotBegun ==
  /\ building = "start" /\ walking = "diff" /\ block_visited = {} /\ block_count = 0
  /\ block_taken["diff"] = << >> /\ block_taken["bitmap"] = << >>
  /\ pieces = << >> /\ block_map = << >> /\ block_faults = 0

\* What the walks of the store maintain.
BuildInv == Build!WalkInv /\ Build!RecordInv /\ Build!PieceInv /\ Build!FaultInv /\ ChainsInv

LEMMA NotBegunInv == NotBegun => BuildInv
<1> USE DEF NotBegun
<1> SUFFICES ASSUME NotBegun PROVE BuildInv
  OBVIOUS
<1>1. Build!WalkInv /\ Build!RecordInv /\ Build!FaultInv
  BY DEF Build!WalkInv, Build!RecordInv, Build!FaultInv, Build!Refused
<1>2. Build!PieceInv
  <2>1. [i \in 1 .. Len(<< >>) |-> Build!PieceOf(disk.blocks[<< >>[i]])] = << >>
    OBVIOUS
  <2>2. QED
    BY <2>1 DEF Build!PieceInv
<1>3. ChainsInv
  <2>1. \A c \in Build!Chains : block_taken[c] = << >> /\ Len(block_taken[c]) = 0
    BY DEF Build!Chains
  <2>2. \A c : Opening!ChainOf(disk.blocks, c, ChainStart(c), 0) = << >>
    BY ChainGrows
  <2>3. [i \in DOMAIN block_taken["diff"] |-> RecordsRead(i)] = << >>
    OBVIOUS
  <2>4. block_map = Opening!ByOffset(FlattenSeq(<< >>))
    BY FlattenEmpty, ByOffsetEmpty
  <2>5. QED
    BY <2>1, <2>2, <2>3, <2>4 DEF ChainsInv
<1>4. QED
  BY <1>1, <1>2, <1>3 DEF BuildInv

\* The same of the next state.
LEMMA NextNotBegunInv == NotBegun' => BuildInv'
  BY NotBegunInv, PTL

LEMMA OpeningInit == OpenInit => OpeningInv
<1> SUFFICES ASSUME OpenInit PROVE OpeningInv
  OBVIOUS
<1>1. IsDisk(disk) /\ asked \in Indices /\ image = CatalogView(disk)
  BY OpenAssumption DEF OpenInit
<1>2. CatalogInv
  <2>1. taken = << >> /\ pc = "header" /\ faults = 0 /\ Len(<< >>) = 0
    BY DEF OpenInit, Unopened
  <2>2. Opening!ChainOf(disk.blocks, "catalog", First, 0) = << >>
    BY ChainGrows
  <2>3. QED
    BY <2>1, <2>2 DEF CatalogInv
<1>3. /\ building = "start" /\ walking = "diff" /\ block_visited = {} /\ block_count = 0
      /\ block_next = 0 /\ record = 1 /\ block_taken = [c \in Build!Chains |-> << >>]
      /\ pieces = << >> /\ block_map = << >> /\ block_faults = 0
  BY DEF OpenInit, Build!Fresh
<1>4. BuildTypes
  <2>1. 0 \in Offsets /\ 0 \in 0 .. MaxStoreBlocks /\ 0 \in 0 .. MaxFaults
        /\ 1 \in 1 .. RecordsPerBlock + 1 /\ << >> \in Seq(WholeBlocks)
    BY OpenAssumption, CatalogAssumption, GeometryAssumption DEF Offsets
  <2>2. QED
    BY <1>3, <2>1 DEF BuildTypes, Build!Chains
<1>5. block_taken["diff"] = << >> /\ block_taken["bitmap"] = << >>
  BY <1>3 DEF Build!Chains
<1>6. BuildInv
  BY <1>3, <1>5, NotBegunInv DEF NotBegun
<1>7. QED
  BY <1>1, <1>2, <1>3, <1>4, <1>6 DEF OpeningInv, BuildInv

\* While the volume is opened no snapshot is begun.
LEMMA StepVolume ==
  ASSUME OpeningInv, IInv, OpenVolume
  PROVE  OpeningInv'
<1>1. pc # "done" /\ image' = image
  BY DEF OpenVolume, Next, Step, ReadHeader, EndLoop, EnterBlock, ReadBlock, TakeSnapshot, TakePointer,
         SkipEntry, LeaveBlock, ReadFails
<1>2. building = "start" /\ BuildTypes
  BY <1>1 DEF OpeningInv
<1>3. /\ disk' = disk /\ asked' = asked /\ building' = building /\ walking' = walking
      /\ block_next' = block_next /\ block_visited' = block_visited /\ block_count' = block_count
      /\ record' = record /\ block_map' = block_map /\ pieces' = pieces
      /\ block_taken' = block_taken /\ block_faults' = block_faults
  BY DEF OpenVolume, buildVars
<1>4. CatalogInv'
  BY StepCatalog DEF OpenNext
<1>5. BuildTypes'
  BY <1>2, <1>3 DEF BuildTypes
<1>6. BuildInv'
  <2>1. /\ walking = "diff" /\ block_visited = {} /\ block_count = 0
        /\ block_taken["diff"] = << >> /\ block_taken["bitmap"] = << >>
    BY <1>2 DEF OpeningInv, Build!WalkInv, Build!Refused
  <2>2. block_faults = 0
    BY <1>2, CatalogAssumption DEF OpeningInv, Build!FaultInv, BuildTypes
  <2>3. pieces = << >>
    BY <2>1 DEF OpeningInv, Build!PieceInv
  <2>4. block_map = << >>
    <3>1. [i \in DOMAIN block_taken["diff"] |-> RecordsRead(i)] = << >>
      BY <2>1
    <3>2. block_map = Opening!ByOffset(FlattenSeq(<< >>))
      BY <3>1 DEF OpeningInv, ChainsInv
    <3>3. QED
      BY <3>2, FlattenEmpty, ByOffsetEmpty
  <2>5. NotBegun'
    BY <1>2, <1>3, <2>1, <2>2, <2>3, <2>4 DEF NotBegun
  <2>6. QED
    BY <2>5, NextNotBegunInv
<1>7. (IsDisk(disk) /\ asked \in Indices /\ image = CatalogView(disk))'
  BY <1>1, <1>3 DEF OpeningInv, IsDisk, CatalogView, WholeBlocks, Offsets
<1>8. QED
  BY <1>2, <1>3, <1>4, <1>5, <1>6, <1>7 DEF OpeningInv, BuildInv

LEMMA StepSnapshot ==
  ASSUME OpeningInv, IInv, MakeSnapshot
  PROVE  OpeningInv'
<1>1. /\ disk' = disk /\ asked' = asked /\ image' = image /\ pc = "done" /\ pc' = "done"
  BY DEF MakeSnapshot, vars
<1>2. (IsDisk(disk) /\ asked \in Indices /\ image = CatalogView(disk))'
  BY <1>1 DEF OpeningInv, IsDisk, CatalogView, WholeBlocks, Offsets
<1>3. CatalogInv'
  BY StepCatalog DEF OpenNext
<1>4. (Build!WalkInv /\ Build!RecordInv /\ Build!PieceInv /\ Build!FaultInv /\ ChainsInv)'
  BY StepBuildWalk, StepBuildRecord, StepBuildPiece, StepBuildFault, StepChains
<1>5. QED
  BY <1>1, <1>2, <1>3, <1>4, StepTypes DEF OpeningInv

LEMMA StepNone ==
  ASSUME OpeningInv, IInv, UNCHANGED openVars
  PROVE  OpeningInv'
<1>1. /\ disk' = disk /\ asked' = asked /\ image' = image /\ pc' = pc /\ stores' = stores
      /\ building' = building /\ walking' = walking
      /\ block_next' = block_next /\ block_visited' = block_visited /\ block_count' = block_count
      /\ record' = record /\ block_map' = block_map /\ pieces' = pieces /\ bitmap' = bitmap
      /\ block_taken' = block_taken /\ block_faults' = block_faults
  BY DEF openVars, vars, buildVars
<1>2. (IsDisk(disk) /\ asked \in Indices /\ image = CatalogView(disk))'
  BY <1>1 DEF OpeningInv, IsDisk, CatalogView, WholeBlocks, Offsets
<1>3. CatalogInv'
  BY StepCatalog
<1>4. Build!WalkInv' /\ BuildTypes'
  BY <1>1 DEF OpeningInv, BuildTypes, Build!WalkInv, Build!Found, Build!InRange, Build!Taken, Build!AheadIn,
     Build!FirstOf
<1>5. Build!RecordInv' /\ Build!PieceInv' /\ Build!FaultInv'
  BY <1>1 DEF OpeningInv, Build!RecordInv, Build!PieceInv, Build!FaultInv, Build!Here
<1>6. ChainsInv'
  <2>1. ReadLists' = ReadLists
    BY <1>1, OtherLists
  <2>2. \A c : ChainStart(c)' = ChainStart(c)
    BY <1>1 DEF ChainStart
  <2>3. QED
    BY <1>1, <2>1, <2>2 DEF OpeningInv, ChainsInv, ReadLists
<1>7. QED
  BY <1>1, <1>2, <1>3, <1>4, <1>5, <1>6 DEF OpeningInv

\* What opening maintains on every disk: a snapshot is begun only of a volume that
\* is open, the blocks taken of the three chains are their beginnings, and what is
\* built is what those blocks hold.
THEOREM OpeningInvariantHolds == OpenSpec => []OpeningInv
<1>1. OpeningInv /\ IInv /\ [OpenNext]_openVars => OpeningInv'
  BY StepVolume, StepSnapshot, StepNone DEF OpenNext
<1>2. OpenSpec <=> OpenInit /\ [][OpenNext]_openVars
  BY DEF OpenSpec, openVars
<1>3. QED
  BY <1>1, <1>2, OpeningInit, OpensAsCatalogWalk, WalkInvariantHolds, PTL

-----------------------------------------------------------------------------
(* Opening implements SnapshotOpening.                                     *)

\* The instance reads the entries of a catalog as CatalogEntries does.
LEMMA SameReading ==
  /\ \A e : Opening!StoresOf(e) = StoresOf(e)
  /\ \A e : Opening!FlattenSeq(e) = FlattenSeq(e)
<1>1. \A S : Opening!Cardinality(S) = Cardinality(S)
  BY DEF Opening!Cardinality, Cardinality
<1>2. \A S, k : Opening!Nth(S, k) = Nth(S, k)
  BY <1>1 DEF Opening!Nth, Nth
<1>3. \A e, kind, id : Opening!PlacesOf(e, kind, id) = PlacesOf(e, kind, id)
  BY DEF Opening!PlacesOf, PlacesOf
<1>4. \A e, kind, id, s, q : Opening!Between(e, kind, id, s, q) = Between(e, kind, id, s, q)
  BY <1>3 DEF Opening!Between, Between
<1>5. \A e, s, q : Opening!Balance(e, s, q) = Balance(e, s, q)
  BY <1>1, <1>4 DEF Opening!Balance, Balance
<1>6. \A e, p, s : Opening!Closes(e, p, s) <=> Closes(e, p, s)
  BY <1>3, <1>5 DEF Opening!Closes, Closes
<1>7. \A e, s : Opening!StoreAt(e, s) = StoreAt(e, s)
  <2>1. TAKE e, s
  <2> DEFINE theirs == {p \in DOMAIN e : Opening!Closes(e, p, s)}
             ours == {p \in DOMAIN e : Closes(e, p, s)}
             their == CHOOSE p \in theirs : TRUE
             our == CHOOSE p \in ours : TRUE
  <2>2. /\ theirs = {} => Opening!StoreAt(e, s)
                           = [store_id |-> e[s].store_id, header |-> None, bitmap |-> None]
        /\ theirs # {} => Opening!StoreAt(e, s)
             = [store_id |-> e[s].store_id, header |-> e[their].header, bitmap |-> e[their].bitmap]
    BY DEF Opening!StoreAt
  <2>3. /\ ours = {} => StoreAt(e, s) = [store_id |-> e[s].store_id, header |-> None, bitmap |-> None]
        /\ ours # {} => StoreAt(e, s)
             = [store_id |-> e[s].store_id, header |-> e[our].header, bitmap |-> e[our].bitmap]
    BY DEF StoreAt
  <2>4. theirs = ours
    BY <1>6
  <2>5. their = our
    <3> HIDE DEF theirs, ours
    <3>1. QED
      BY <2>4
  <2> HIDE DEF theirs, ours, their, our
  <2>6. QED
    BY <2>2, <2>3, <2>4, <2>5
<1>8. \A e : Opening!SnapshotPlaces(e) = SnapshotPlaces(e)
  BY DEF Opening!SnapshotPlaces, SnapshotPlaces
<1>9. \A e : Opening!StoresOf(e) = StoresOf(e)
  BY <1>1, <1>2, <1>7, <1>8 DEF Opening!StoresOf, StoresOf
<1>10. \A e : Opening!FlattenSeq(e) = FlattenSeq(e)
  BY DEF Opening!FlattenSeq, FlattenSeq
<1>11. QED
  BY <1>9, <1>10

\* The stores of a volume that is open are those of its disk.
LEMMA StoresAreRight ==
  ASSUME OpeningInv, IInv, StoresOwnTheirPointers, pc = "done"
  PROVE  stores = Opening!Stores
<1>1. taken = Opening!ChainOf(disk.blocks, "catalog", First, MaxCatalogBlocks)
  BY DEF OpeningInv, CatalogInv
<1>2. taken \in Seq(WholeBlocks)
  BY DEF IInv, TypeOK
<1>3. \A i \in DOMAIN taken : image.blocks[taken[i]].entries = disk.blocks[taken[i]].entries
  BY <1>2, DiskTypes
<1>4. Decoded = FlattenSeq([i \in DOMAIN taken |-> disk.blocks[taken[i]].entries])
  BY <1>3 DEF Decoded
<1>5. First = IF VolumeSize >= HeaderEnd /\ disk.vss THEN disk.catalog_offset ELSE 0
  BY DEF First, OpeningInv, CatalogView
<1>6. Opening!Stores = StoresOf(Decoded)
  BY <1>1, <1>4, <1>5, SameReading DEF Opening!Stores
<1>7. QED
  BY <1>6 DEF StoresOwnTheirPointers

\* What is built in the end is the answer.
AnswerIsRight == building = "done" => Outcome = Opening!RightAnswer

LEMMA DoneIsRight == OpeningInv /\ IInv /\ StoresOwnTheirPointers => AnswerIsRight
<1> USE DEF AnswerIsRight
<1> SUFFICES ASSUME OpeningInv, IInv, StoresOwnTheirPointers, building = "done"
             PROVE  Outcome = Opening!RightAnswer
  OBVIOUS
<1>1. pc = "done" /\ Build!Found
  BY DEF OpeningInv, Build!WalkInv, Build!Refused
<1>2. stores = Opening!Stores
  BY <1>1, StoresAreRight
<1>3. /\ asked \in DOMAIN stores /\ stores[asked].header # None /\ stores[asked].bitmap # None
  BY <1>1, StoreFound
<1>4. /\ block_taken["diff"]
           = Opening!ChainOf(disk.blocks, "diff", stores[asked].header + BlockSize, MaxStoreBlocks)
      /\ block_taken["bitmap"]
           = Opening!ChainOf(disk.blocks, "bitmap", stores[asked].bitmap, MaxStoreBlocks)
  BY DEF OpeningInv, ChainsInv, Build!Chains, ChainStart
<1>5. block_map = Opening!BlockMap(disk.blocks, stores[asked].header)
  <2>1. block_map = Opening!ByOffset(FlattenSeq(
                      [i \in DOMAIN block_taken["diff"] |->
                         Opening!Records(disk.blocks[block_taken["diff"][i]])]))
    <3>1. \A i \in DOMAIN block_taken["diff"] :
            RecordsRead(i) = Opening!Records(disk.blocks[block_taken["diff"][i]])
      BY DEF RecordsRead
    <3>2. QED
      BY <3>1 DEF OpeningInv, ChainsInv
  <2>2. QED
    BY <1>4, <2>1, SameReading DEF Opening!BlockMap
<1>6. bitmap = Opening!Bitmap(disk.blocks, stores[asked].bitmap)
  <2>1. bitmap = Build!Joined(PiecesOf(disk.blocks, block_taken["bitmap"]))
    BY DEF OpeningInv, Build!PieceInv, PiecesOf
  <2>2. block_taken["bitmap"] \in Seq(WholeBlocks)
    BY DEF OpeningInv, BuildTypes, Build!Chains
  <2>3. \A o \in WholeBlocks : disk.blocks[o].relative_offset \in Nat
    BY DiskTypes, GeometryAssumption DEF Offsets
  <2>4. QED
    BY <1>4, <2>1, <2>2, <2>3, BitmapIsJoined
<1>7. Opening!RightAnswer
        = Opening!Ok([block_map |-> Opening!BlockMap(disk.blocks, stores[asked].header),
                      bitmap |-> Opening!Bitmap(disk.blocks, stores[asked].bitmap)])
  BY <1>2, <1>3 DEF Opening!RightAnswer
<1>8. Outcome = [kind |-> "Ok", state |-> [block_map |-> block_map, bitmap |-> bitmap]]
  BY <1>1 DEF Outcome
<1>9. QED
  BY <1>5, <1>6, <1>7, <1>8 DEF Opening!Ok

\* A store that is not there or has no pointers is refused as it should be.
LEMMA RefusedIsRight ==
  ASSUME OpeningInv, IInv, StoresOwnTheirPointers, MakeSnapshot,
         Build!RefuseIndex \/ Build!RefuseStore
  PROVE  Outcome' = Opening!RightAnswer
<1>1. /\ pc = "done" /\ pc' = "done" /\ stores' = stores /\ stores = Opening!Stores
  BY StoresAreRight DEF MakeSnapshot, vars
<1>2. asked \in Nat \ {0} /\ stores \in Seq(Store)
  BY OpenAssumption DEF OpeningInv, IInv, TypeOK
<1>3. CASE Build!RefuseIndex
  <2>1. building' = "out_of_range" /\ asked \notin DOMAIN stores
    BY <1>3, StoreFound DEF Build!RefuseIndex
  <2>2. Outcome' = [kind |-> "StoreIndexOutOfRange", count |-> Len(stores)]
    BY <1>1, <2>1 DEF Outcome
  <2>3. QED
    BY <1>1, <2>1, <2>2 DEF Opening!RightAnswer, Opening!StoreIndexOutOfRange
<1>4. CASE Build!RefuseStore
  <2>1. /\ building' = "unavailable" /\ asked \in DOMAIN stores
        /\ stores[asked].header = None \/ stores[asked].bitmap = None
    BY <1>4, StoreFound DEF Build!RefuseStore
  <2>2. Outcome' = [kind |-> "StoreInfoUnavailable"]
    BY <1>1, <2>1 DEF Outcome
  <2>3. QED
    BY <1>1, <2>1, <2>2 DEF Opening!RightAnswer, Opening!StoreInfoUnavailable
<1>5. QED
  BY <1>3, <1>4

\* The answer depends on the disk and the index alone.
LEMMA SameAnswer ==
  ASSUME disk' = disk, asked' = asked
  PROVE  Opening!RightAnswer' = Opening!RightAnswer
  BY DEF Opening!RightAnswer, Opening!Stores

LEMMA OpeningBegins == OpenInit => Opening!Init
<1> SUFFICES ASSUME OpenInit PROVE Opening!Init
  OBVIOUS
<1>1. asked \in Nat \ {0}
  BY OpenAssumption DEF OpenInit
<1>2. pc = "header" /\ faults = 0 /\ building = "start" /\ block_faults = 0
  BY DEF OpenInit, Unopened, Build!Fresh
<1>3. Outcome = [kind |-> "Pending"]
  BY <1>2 DEF Outcome
<1>4. QED
  BY <1>1, <1>2, <1>3 DEF Opening!Init, Opening!Pending

\* While the volume is opened nothing is answered; only the device makes it fail.
LEMMA VolumePromise ==
  ASSUME OpeningInv, IInv, OpenVolume
  PROVE  [Opening!Next]_Opening!vars
<1>1. /\ disk' = disk /\ asked' = asked /\ building' = building /\ block_faults' = block_faults
      /\ Next
  BY DEF OpenVolume, buildVars
<1>2. building = "start" /\ pc # "done" /\ pc # "failed" /\ faults = 0 /\ block_faults = 0
  <2>1. pc # "done" /\ pc # "failed"
    BY <1>1 DEF Next, Step, ReadHeader, EndLoop, EnterBlock, ReadBlock, TakeSnapshot, TakePointer,
           SkipEntry, LeaveBlock, ReadFails
  <2>2. faults = 0
    BY <2>1, CatalogAssumption DEF OpeningInv, CatalogInv, IInv, TypeOK
  <2>3. building = "start" /\ block_faults = 0
    BY <2>1, CatalogAssumption DEF OpeningInv, Build!FaultInv, BuildTypes
  <2>4. QED
    BY <2>1, <2>2, <2>3
<1>3. Outcome = [kind |-> "Pending"]
  BY <1>2 DEF Outcome
<1>4. CASE ReadFails
  <2>1. faults' = 1 /\ faults < MaxFaults /\ pc' = "failed"
    <3>1. pc = "read" => ~EndOfVolume
      BY NoEndOfVolume
    <3>2. QED
      BY <1>2, <1>4, <3>1 DEF ReadFails
  <2>2. Outcome' = [kind |-> "Io"]
    BY <1>1, <1>2, <2>1 DEF Outcome
  <2>3. Opening!Fail
    BY <1>1, <1>2, <1>3, <2>1, <2>2, CatalogAssumption DEF Opening!Fail, Opening!Pending, Opening!Io
  <2>4. QED
    BY <2>3 DEF Opening!Next
<1>5. CASE Step
  <2>1. pc' # "failed" /\ faults' = faults
    BY <1>5 DEF Step, ReadHeader, EndLoop, EnterBlock, ReadBlock, TakeSnapshot, TakePointer,
           SkipEntry, LeaveBlock
  <2>2. Outcome' = [kind |-> "Pending"]
    BY <1>1, <1>2, <2>1 DEF Outcome
  <2>3. QED
    BY <1>1, <1>3, <2>1, <2>2 DEF Opening!vars
<1>6. QED
  BY <1>1, <1>4, <1>5 DEF Next

\* A step of the walks answers when they end or refuse, and rightly; a fault ends the
\* call; the other steps answer nothing.
LEMMA SnapshotPromise ==
  ASSUME OpeningInv, IInv, StoresOwnTheirPointers, AnswerIsRight', MakeSnapshot
  PROVE  [Opening!Next]_Opening!vars
<1> USE DEF Build!walk, Build!built
<1>1. /\ disk' = disk /\ asked' = asked /\ pc = "done" /\ pc' = "done" /\ faults' = faults
  BY DEF MakeSnapshot, vars
<1>2. faults = 0 /\ faults \in Nat /\ block_faults \in Nat
  BY <1>1, CatalogAssumption DEF OpeningInv, CatalogInv, IInv, TypeOK, BuildTypes
<1>3. building \in {"start", "loop", "read", "records"}
  BY DEF MakeSnapshot, Build!Next, Build!Step, Build!Begin, Build!RefuseIndex, Build!RefuseStore,
         Build!EndLoop, Build!EnterBlock, Build!ReadForeign, Build!ReadDescriptors, Build!ReadPiece,
         Build!FileDescriptor, Build!LeaveBlock, Build!ReadFails
<1>4. Outcome = [kind |-> "Pending"]
  BY <1>1, <1>3 DEF Outcome
<1>5. ASSUME building' \in {"loop", "read", "records"}, block_faults' = block_faults
      PROVE  UNCHANGED Opening!vars
  <2>1. Outcome' = [kind |-> "Pending"]
    BY <1>1, <1>5 DEF Outcome
  <2>2. QED
    BY <1>1, <1>4, <1>5, <2>1 DEF Opening!vars
<1>6. ASSUME Outcome' = Opening!RightAnswer, block_faults' = block_faults
      PROVE  Opening!Succeed
  BY <1>1, <1>4, <1>6 DEF Opening!Succeed, Opening!Pending
<1>7. CASE Build!Begin \/ Build!EnterBlock \/ Build!ReadDescriptors \/ Build!ReadPiece
           \/ Build!FileDescriptor \/ Build!LeaveBlock
  BY <1>5, <1>7 DEF Build!Begin, Build!EnterBlock, Build!ReadDescriptors, Build!ReadPiece,
     Build!FileDescriptor, Build!LeaveBlock
<1>8. CASE Build!EndLoop \/ Build!ReadForeign
  <2>1. (building' = "loop" \/ building' = "done") /\ block_faults' = block_faults
    BY <1>8 DEF Build!EndLoop, Build!ReadForeign, Build!EndWalk
  <2>2. CASE building' = "loop"
    BY <1>5, <2>1, <2>2
  <2>3. CASE building' = "done"
    <3>1. Outcome' = Opening!RightAnswer'
      BY <2>3 DEF AnswerIsRight
    <3>2. Opening!RightAnswer' = Opening!RightAnswer
      BY <1>1, SameAnswer
    <3>3. QED
      BY <1>6, <2>1, <3>1, <3>2 DEF Opening!Next
  <2>4. QED
    BY <2>1, <2>2, <2>3
<1>9. CASE Build!RefuseIndex \/ Build!RefuseStore
  <2>1. block_faults' = block_faults
    BY <1>9 DEF Build!RefuseIndex, Build!RefuseStore
  <2>2. QED
    BY <1>6, <1>9, <2>1, RefusedIsRight DEF Opening!Next
<1>10. CASE Build!ReadFails
  <2>1. block_faults = 0 /\ block_faults' = 1 /\ block_faults < MaxFaults /\ building' = "failed"
    BY <1>10, StepBuildFault
  <2>2. Outcome' = [kind |-> "Io"]
    BY <2>1 DEF Outcome
  <2>3. Opening!Fail
    BY <1>1, <1>2, <1>4, <2>1, <2>2 DEF Opening!Fail, Opening!Pending, Opening!Io
  <2>4. QED
    BY <2>3 DEF Opening!Next
<1>11. QED
  BY <1>7, <1>8, <1>9, <1>10 DEF MakeSnapshot, Build!Next, Build!Step

\* Opening gives the snapshot that the disk describes, or the error that the disk
\* deserves, or fails because the device did: on every disk, whatever its chains.
THEOREM OpeningIsRight == OpenSpec => OpeningImplements
<1>1. OpeningInv /\ IInv /\ StoresOwnTheirPointers /\ AnswerIsRight' /\ [OpenNext]_openVars
        => [Opening!Next]_Opening!vars
  <2>1. ASSUME UNCHANGED openVars PROVE UNCHANGED Opening!vars
    <3>1. /\ disk' = disk /\ asked' = asked /\ pc' = pc /\ building' = building /\ stores' = stores
          /\ block_map' = block_map /\ bitmap' = bitmap /\ faults' = faults
          /\ block_faults' = block_faults
      BY <2>1 DEF openVars, vars, buildVars
    <3>2. QED
      BY <3>1 DEF Opening!vars, Outcome
  <2>2. QED
    BY <2>1, VolumePromise, SnapshotPromise DEF OpenNext
<1>2. OpenSpec => [](OpeningInv /\ IInv /\ StoresOwnTheirPointers)
  BY OpeningInvariantHolds, OpensAsCatalogWalk, WalkInvariantHolds, PointersAreOwned, PTL
<1>3. OpenSpec => []AnswerIsRight
  BY <1>2, DoneIsRight, PTL
<1>4. OpenSpec <=> OpenInit /\ [][OpenNext]_openVars
  BY DEF OpenSpec, openVars
<1>5. OpenSpec => Opening!Spec
  BY <1>1, <1>2, <1>3, <1>4, OpeningBegins, PTL DEF Opening!Spec
<1>6. QED
  BY <1>5 DEF OpeningImplements
=============================================================================
