-------------------------- MODULE MCSnapshotSource --------------------------
(***************************************************************************)
(* Small instances of SnapshotSource: blocks of two one-cell sub-blocks,   *)
(* every cell of the volume different from every other and from zero, so   *)
(* that a cell taken from the wrong place shows.                           *)
(***************************************************************************)
EXTENDS SnapshotSource

MCDisk == [a \in 0 .. VolumeSize - 1 |-> a + 1]
MCCellValues == 0 .. VolumeSize

D(original, store, flags, bits) ==
  [original_offset |-> original, store_offset |-> store, flags |-> flags,
   allocation_bitmap |-> bits]

\* The map that build_block_map makes of a list of descriptors.
Filed(list) ==
  [o \in {list[i].original_offset : i \in DOMAIN list} |->
     SelectSeq(list, LAMBDA d : d.original_offset = o)]

State(list, bits) == [block_map |-> Filed(list), bitmap |-> bits]

\* Every kind of descriptor, for the block at `o`: plain and overlay in and out
\* of range, forwarders, unused ones, and the combinations the flags allow.
Kinds(o) ==
  {D(o, 2, {}, {}), D(o, 4, {}, {0}), D(o, 2, {"overlay"}, {0}),
   D(o, 4, {"overlay"}, {1}), D(o, 4, {"overlay"}, {0, 1}),
   D(o, 14, {"overlay"}, {0}), D(o, 14, {}, {}), D(o, 4, {"forwarder"}, {}),
   D(o, 2, {"not_used"}, {1}), D(o, 4, {"overlay", "not_used"}, {0}),
   D(o, 2, {"forwarder", "overlay"}, {1})}

Few(o) ==
  {D(o, 2, {}, {}), D(o, 4, {}, {}), D(o, 2, {"overlay"}, {1}),
   D(o, 4, {"overlay"}, {0})}

\* All lists of up to two descriptors of every kind, of three of a few kinds,
\* for the first block; block 1 is unallocated, block 0 in half of them.
EveryView ==
  {State(l, b) :
     l \in {<< >>} \cup {<<x>> : x \in Kinds(0)}
           \cup {<<x, y>> : x, y \in Kinds(0)}
           \cup {<<x, y, z>> : x, y, z \in Few(0)},
     b \in {{1}, {0, 1}}}
  \cup {State(<<D(8, 4, {}, {})>>, {}), State(<<D(14, 2, {}, {})>>, {1})}

\* Reads that start and end anywhere in the blocks, that cross the end of the
\* volume, and that would pass u64::MAX.
EveryRead ==
  {[offset |-> 0, len |-> 0], [offset |-> 0, len |-> 3],
   [offset |-> 1, len |-> 4], [offset |-> 5, len |-> 4],
   [offset |-> 13, len |-> 5]}

\* For threads: a block with a base and an overlay, and an unallocated one.
ThreadViews ==
  {State(<<D(0, 4, {}, {}), D(0, 2, {"overlay"}, {1})>>, {2}),
   State(<< >>, {})}

ThreadReads ==
  {[offset |-> 0, len |-> 1], [offset |-> 1, len |-> 2], [offset |-> 5, len |-> 3],
   [offset |-> 8, len |-> 1]}
=============================================================================
