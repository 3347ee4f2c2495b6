----------------------------- MODULE MCStoreWalk -----------------------------
(***************************************************************************)
(* Small instances of StoreWalk on a volume of eight or ten cells, with    *)
(* blocks of two cells that hold two records or two bits.                  *)
(***************************************************************************)
EXTENDS StoreWalk

\* A plain descriptor, and one flagged as an overlay, for the block at o.
D(o) == [original_offset |-> o, store_offset |-> 4, flags |-> {}, allocation_bitmap |-> {}]
E(o) == [D(o) EXCEPT !.flags = {"overlay"}, !.allocation_bitmap = {0}]

NoRecords == [k \in 1 .. RecordsPerBlock |-> ZeroRecord]

Block(type, n, relative, records, bits) ==
  [vss |-> TRUE, record_type |-> type, next_offset |-> n, relative_offset |-> relative,
   records |-> records, bits |-> bits]

Foreign == Block("other", 0, 0, NoRecords, {})

Diff(records, n) == Block("diff", n, 0, records, {})
Piece(bits, n, relative) == Block("bitmap", n, relative, NoRecords, bits)

Volume(header, bits, f) ==
  [stores |-> <<[header |-> header, bitmap |-> bits]>>,
   blocks |-> [o \in WholeBlocks |-> IF o \in DOMAIN f THEN f[o] ELSE Foreign]]

\* What two blocks of descriptors and two pieces may hold: records in every
\* order with and without a terminator, pieces in and out of order, of the same
\* relative offset, counted from 0 and from further on, one and two blocks apart.
RecordLists == [1 .. RecordsPerBlock -> {D(0), E(0), D(2), ZeroRecord}]

ContentImages ==
  {Volume(0, 6, [o \in {2, 4, 6} |->
      CASE o = 2 -> Diff(l, 4) [] o = 4 -> Diff(m, 0) [] o = 6 -> Piece({0}, 0, 0)]) :
     l, m \in RecordLists}
  \cup
  {Volume(0, 4, [o \in {4, 6} |->
      IF o = 4 THEN Piece(x, 6, i) ELSE Piece({1}, 0, j)]) :
     x \in SUBSET {0, 1}, i, j \in {0, 2, 4}}

\* Every shape of the chain of descriptors and of the bitmap's: cycles, blocks
\* of the wrong type, the two chains running into each other, pointers off the
\* volume, unaligned, and at the end of u64; and stores without pointers.
Targets == {0, 2, 4, 6, 7, 15}

ShapeImages ==
  {Volume(header, start, [o \in {1, 2, 4, 6} |->
      CASE o = 1 -> Diff(NoRecords, 0)
        [] o = 2 -> Block(types[1], x, 0, <<D(0), ZeroRecord>>, {0})
        [] o = 4 -> Block(types[2], y, 2, NoRecords, {1})
        [] o = 6 -> Block(types[3], 2, 4, NoRecords, {0})]) :
     header \in {0, 15}, start \in {4, 7}, x, y \in Targets,
     types \in [1 .. 3 -> {"diff", "bitmap"}]}
  \cup {Volume(None, None, << >>), Volume(13, 15, << >>)}

\* Blocks whose type is right and whose identifier is not.
UnmarkedImages ==
  {Volume(0, 4, [o \in {2, 4} |->
      [(IF o = 2 THEN Diff(<<D(0), ZeroRecord>>, 0) ELSE Piece({0}, 0, 0))
         EXCEPT !.vss = o # unmarked]]) : unmarked \in {2, 4}}

StoreImages == ContentImages \cup ShapeImages
=============================================================================
