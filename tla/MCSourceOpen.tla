---------------------------- MODULE MCSourceOpen ----------------------------
(***************************************************************************)
(* Small instances of SourceOpen: blocks of two cells on a volume of       *)
(* eight, so that a block may start at an unaligned offset, run off the    *)
(* end, or be named by the block before it, by itself or by a later one.   *)
(***************************************************************************)
EXTENDS SourceOpen

S(id) == [kind |-> "snapshot", store_id |-> id]
P(id, header, bits) ==
  [kind |-> "pointer", store_id |-> id, header |-> header, bitmap |-> bits]
O(id) == [kind |-> "other", store_id |-> id]

Lists(pool, n) == UNION {[1 .. k -> pool] : k \in 0 .. n}

D(o) == [original_offset |-> o, store_offset |-> 4, flags |-> {}, allocation_bitmap |-> {}]

NoRecords == [k \in 1 .. RecordsPerBlock |-> ZeroRecord]

Foreign ==
  [vss |-> TRUE, record_type |-> "other", next_offset |-> 0, relative_offset |-> 0,
   entries |-> << >>, records |-> NoRecords, bits |-> {}]

Block(entries, n) ==
  [Foreign EXCEPT !.record_type = "catalog", !.entries = entries, !.next_offset = n]
Diff(records, n) ==
  [Foreign EXCEPT !.record_type = "diff", !.records = records, !.next_offset = n]
Piece(set, relative, n) ==
  [Foreign EXCEPT !.record_type = "bitmap", !.bits = set, !.relative_offset = relative,
                  !.next_offset = n]

\* A volume with the blocks of f and foreign ones elsewhere.
Volume(start, f) ==
  [vss |-> TRUE, catalog_offset |-> start,
   blocks |-> f @@ [o \in WholeBlocks |-> Foreign]]

\* Every order of the entries of a store with two pointers, next to another
\* store, in one block; what a second block adds to it; and shorter lists of
\* every kind of entry.
EntryDisks ==
  {Volume(2, [o \in {2, 4} |-> IF o = 2 THEN Block(l, 4) ELSE Block(m, 0)]) :
     l \in Lists({S("a"), P("a", 2, 4), P("a", 6, 0), S("b")}, 4),
     m \in {<< >>, <<S("a")>>, <<P("a", 4, 4)>>}}
  \cup
  {Volume(2, [o \in {2, 4} |-> IF o = 2 THEN Block(l, 4) ELSE Block(m, 0)]) :
     l \in Lists({S("a"), S("b"), P("a", 2, 4), P("b", 4, 6), O("a")}, 2),
     m \in Lists({S("a"), P("a", 0, 2), P("b", 4, 6), O("b")}, 1)}

\* Every shape of three blocks of the catalog: chains, cycles, blocks of another
\* type or without the identifier, and pointers to unaligned offsets, off the
\* volume, and to the end of u64.
Targets == {0, 2, 4, 6, 3, 7, 15}

ChainDisks ==
  {Volume(start, [o \in {2, 4, 6} |->
      [Block(IF o = 6 THEN <<O("a")>> ELSE <<S("a")>>,
             CASE o = 2 -> x [] o = 4 -> y [] o = 6 -> z)
         EXCEPT !.record_type = IF o = foreign /\ o = 4 THEN "other" ELSE @,
                !.vss = ~(o = foreign /\ o = 6)]]) :
     start \in {2, 15}, x, y, z \in Targets, foreign \in {0, 4, 6}}
  \cup {[Volume(2, << >>) EXCEPT !.vss = FALSE], Volume(0, << >>)}

\* A catalog of one block and two stores, whose chains share the blocks at 4 and
\* 6: of either type, in either order, into each other and into the catalog. The
\* first store has no descriptors, the second those of 4 or 6 or, past the end of
\* u64, none.
SnapshotDisks ==
  {Volume(2, [o \in {2, 4, 6} |->
      CASE o = 2 -> Block(<<S("a"), S("b"), P("a", 0, start), P("b", header, 6)>>, 0)
        [] o = 4 -> IF t[1] THEN Diff(<<D(0), D(2)>>, x) ELSE Piece({1}, r, x)
        [] o = 6 -> IF t[2] THEN Diff(<<D(0), ZeroRecord>>, y) ELSE Piece({0}, 2, y)]) :
     start \in {4, 6}, header \in {2, 4, 15}, r \in {0, 2, 4}, t \in [1 .. 2 -> BOOLEAN],
     x, y \in {0, 2, 4, 6}}

MCDisks == EntryDisks \cup ChainDisks \cup SnapshotDisks

EntryImages == {CatalogView(d) : d \in EntryDisks}
CatalogImages == {CatalogView(d) : d \in MCDisks}
=============================================================================
