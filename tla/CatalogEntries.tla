--------------------------- MODULE CatalogEntries ---------------------------
(***************************************************************************)
(* What a list of catalog entries says: which stores there are, and which  *)
(* pointer is whose.  Read the entries of one identifier as brackets, a    *)
(* snapshot opening and a pointer closing: a pointer belongs to the        *)
(* snapshot it closes, and one that closes nothing belongs to nobody.      *)
(***************************************************************************)
EXTENDS Integers, SequencesExt

CONSTANT None  \* an offset that is not there

\* The places in e of the entries of one kind and identifier.
PlacesOf(e, kind, id) == {k \in DOMAIN e : e[k].kind = kind /\ e[k].store_id = id}

SnapshotPlaces(e) == {k \in DOMAIN e : e[k].kind = "snapshot"}

Between(e, kind, id, s, q) == {k \in PlacesOf(e, kind, id) : s < k /\ k < q}

\* Among the entries between s and q with the identifier of s, how many more are
\* snapshots than pointers.
Balance(e, s, q) ==
  LET Count(kind) == Cardinality(Between(e, kind, e[s].store_id, s, q))
  IN  Count("snapshot") - Count("pointer")

\* The pointer at p closes the snapshot at s.
Closes(e, p, s) ==
  LET pointers == PlacesOf(e, "pointer", e[s].store_id)
  IN  /\ p \in pointers
      /\ s < p
      /\ Balance(e, s, p) = 0
      /\ \A q \in pointers : s < q /\ q < p => Balance(e, s, q) > 0

\* The store of the snapshot entry at s, with both offsets of its pointer.
StoreAt(e, s) ==
  LET closing == {p \in DOMAIN e : Closes(e, p, s)}
      offsets == IF closing = {} THEN [header |-> None, bitmap |-> None]
                 ELSE e[CHOOSE p \in closing : TRUE]
  IN  [store_id |-> e[s].store_id, header |-> offsets.header, bitmap |-> offsets.bitmap]

\* The k-th of a set of places.
Nth(places, k) == CHOOSE s \in places : Cardinality({t \in places : t <= s}) = k

\* The stores of a catalog: its snapshot entries, in order.
StoresOf(e) ==
  LET places == SnapshotPlaces(e)
  IN  [k \in 1 .. Cardinality(places) |-> StoreAt(e, Nth(places, k))]
=============================================================================
