---------------------------- MODULE SnapshotView ----------------------------
(***************************************************************************)
(* What a reconstructed snapshot is (SnapshotState in reconstruct.rs) and  *)
(* which cell of the volume each of its cells is promised to be.           *)
(*                                                                         *)
(* View is the promise, stated without the steps that compute it and       *)
(* without the helpers of the code: SnapshotSource computes it block by    *)
(* block through a shared cursor and is checked, and proved, to return it. *)
(***************************************************************************)
EXTENDS VolumeGeometry, Sequences, FiniteSetsExt

CONSTANTS
  SubBlockSize, \* SUB_BLOCK_SIZE (512 bytes), in cells
  Zero,         \* a zeroed cell
  CellValues    \* what a cell can hold

ASSUME ViewAssumption ==
  /\ SubBlockSize \in Nat \ {0}
  /\ BlockSize % SubBlockSize = 0
  /\ Zero \in CellValues

SubBlocks == 0 .. (BlockSize \div SubBlockSize) - 1

\* The three flag bits the reader knows; it ignores the others.
Flags == {"forwarder", "overlay", "not_used"}

(***************************************************************************)
(* A block descriptor.  relative_store_offset is decoded by the source but *)
(* no code reads it; the allocation bitmap is the set of its bits.         *)
(***************************************************************************)
BlockDescriptor ==
  [original_offset: Offsets, store_offset: Offsets,
   flags: SUBSET Flags, allocation_bitmap: SUBSET SubBlocks]

(***************************************************************************)
(* SnapshotState: the descriptors by original offset, and the block        *)
(* numbers whose bit of the store bitmap is set.                           *)
(***************************************************************************)
IsSnapshotState(s) ==
  /\ s = [block_map |-> s.block_map, bitmap |-> s.bitmap]
  /\ DOMAIN s.block_map \subseteq Offsets
  /\ \A base \in DOMAIN s.block_map : s.block_map[base] \in Seq(BlockDescriptor)
  /\ s.bitmap \subseteq Nat

\* mutant: the block found is the one before
DescriptorsAt_Below(snap, base) ==
  IF base - BlockSize \in DOMAIN snap.block_map THEN snap.block_map[base - BlockSize] ELSE << >>

\* block_map.get(base): an absent key and an empty list are treated alike.
DescriptorsAt(snap, base) ==
  IF base \in DOMAIN snap.block_map THEN snap.block_map[base] ELSE << >>

\* is_unallocated: a block number past the end of the bitmap is allocated.
IsUnallocated(snap, base) == (base \div BlockSize) \in snap.bitmap

-----------------------------------------------------------------------------
(***************************************************************************)
(* The promise (docs/RECONSTRUCTION.md, "Reconstruction of one block").    *)
(***************************************************************************)
Readable(off) == off + BlockSize <= VolumeSize

StoredCell(disk, off, c) == IF Readable(off) THEN disk[off + c] ELSE Zero

\* Descriptors with none of the three flags: candidates for the base data.
Plains(ds) == {i \in DOMAIN ds : ds[i].flags = {}}

\* Overlays whose store block exists and whose bitmap selects cell c.
OverlaysOver(ds, c) ==
  {i \in DOMAIN ds :
     /\ "overlay" \in ds[i].flags
     /\ "not_used" \notin ds[i].flags
     /\ Readable(ds[i].store_offset)
     /\ c \div SubBlockSize \in ds[i].allocation_bitmap}

\* Where the base data of a block comes from.
ViewBase(ds, base) ==
  IF Plains(ds) = {} THEN base ELSE ds[Max(Plains(ds))].store_offset

ViewCell(disk, snap, base, c) ==
  LET ds == DescriptorsAt(snap, base)
      over == OverlaysOver(ds, c)
  IN  IF over # {} THEN disk[ds[Max(over)].store_offset + c]
      ELSE IF ds = << >> /\ base \div BlockSize \in snap.bitmap THEN Zero
      ELSE StoredCell(disk, ViewBase(ds, base), c)

\* The cell of the snapshot at address a.
View(disk, snap, a) == ViewCell(disk, snap, BlockBase(a), a - BlockBase(a))
=============================================================================
