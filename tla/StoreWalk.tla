------------------------------ MODULE StoreWalk ------------------------------
(***************************************************************************)
(* Making a snapshot: VssVolume::snapshot_state of reconstruct.rs, with    *)
(* build_block_map and build_bitmap and the block headers of store.rs.     *)
(*                                                                         *)
(* Two chains are walked one after the other, with the same loop and the   *)
(* same reader: the block descriptors, filed by the offset they are for,   *)
(* and the pieces of the bitmap, put in order once all are read.  What is  *)
(* built is a state SnapshotSource starts from.                            *)
(***************************************************************************)
EXTENDS BlockChain, SnapshotView

CONSTANTS
  Images,           \* the open volumes: [stores, blocks]
  None,             \* an offset the catalog did not bring
  ZeroRecord,       \* 32 zero bytes
  RecordsPerBlock,  \* (BLOCK_SIZE - STORE_BLOCK_HEADER_LEN) / 32
  PieceBits,        \* bits in the payload of a bitmap block
  MaxStoreBlocks,   \* MAX_STORE_BLOCKS
  MaxFaults         \* bound on the faults of the device

WholeBlocks == {o \in Offsets : o + BlockSize <= VolumeSize}

\* Where the two chains of a store begin, as walk_catalog left it.
StorePointers == [header: Offsets \cup {None}, bitmap: Offsets \cup {None}]

\* A store block: its header (vss: the identifier is there) and its payload,
\* which is 32-byte records or bits depending on who reads it.
StoreBlock ==
  [vss: BOOLEAN, record_type: {"diff", "bitmap", "other"},
   next_offset: Offsets, relative_offset: Offsets,
   records: [1 .. RecordsPerBlock -> BlockDescriptor \cup {ZeroRecord}],
   bits: SUBSET (0 .. PieceBits - 1)]

IsImage(v) ==
  /\ v = [stores |-> v.stores, blocks |-> v.blocks]
  /\ v.stores \in Seq(StorePointers)
  /\ DOMAIN v.blocks = WholeBlocks
  /\ \A o \in WholeBlocks : v.blocks[o] \in StoreBlock

ASSUME StoreAssumption ==
  /\ \A v \in Images : IsImage(v)
  /\ None \notin Offsets
  /\ ZeroRecord \notin BlockDescriptor
  /\ RecordsPerBlock \in Nat \ {0}
  /\ PieceBits \in Nat \ {0}
  /\ MaxStoreBlocks \in Nat
  /\ MaxFaults \in Nat

Chains == {"diff", "bitmap"}

VARIABLES
  image, index,   \* the open volume, and the store asked for (from 1)
  pc,             \* "start", "loop", "read", "records", or how the call ended:
                  \* "done", "out_of_range", "unavailable" or "failed"
  walking,        \* the chain being walked
  next, visited, blocks,
  record,         \* index of the next record of the block at hand
  block_map, pieces, bitmap,
  taken,          \* history: the blocks of each chain that were decoded
  faults

walk  == <<next, visited, blocks>>
built == <<block_map, pieces, bitmap>>
vars  == <<image, index, pc, walking, walk, record, built, taken, faults>>

InRange == index <= Len(image.stores)

\* The index is good and the catalog brought both pointers.
Found ==
  /\ InRange
  /\ image.stores[index].header # None
  /\ image.stores[index].bitmap # None

Here == image.blocks[next]

\* Nothing is read and nothing is built.
Fresh ==
  /\ pc = "start"
  /\ walking = "diff"
  /\ next = 0
  /\ visited = {}
  /\ blocks = 0
  /\ record = 1
  /\ block_map = << >>
  /\ pieces = << >>
  /\ bitmap = {}
  /\ taken = [c \in Chains |-> << >>]
  /\ faults = 0

Init ==
  /\ image \in Images
  /\ index \in 1 .. Len(image.stores) + 1
  /\ Fresh

\* The descriptor list is the block after the store header.
Begin ==
  /\ pc = "start"
  /\ Found
  /\ next' = SatAdd(image.stores[index].header, BlockSize)
  /\ pc' = "loop"
  /\ UNCHANGED <<image, index, walking, visited, blocks, record, built, taken, faults>>

\* StoreIndexOutOfRange: asked before anything of the store is looked at.
RefuseIndex ==
  /\ pc = "start"
  /\ ~InRange
  /\ pc' = "out_of_range"
  /\ UNCHANGED <<image, index, walking, walk, record, built, taken, faults>>

\* StoreInfoUnavailable.
RefuseStore ==
  /\ pc = "start"
  /\ InRange /\ ~Found
  /\ pc' = "unavailable"
  /\ UNCHANGED <<image, index, walking, walk, record, built, taken, faults>>

\* mutant: pieces are joined in the order of the chain
Ahead_InChain(ps, i) == {j \in DOMAIN ps : j < i}

\* The pieces sort_by_key puts before the i-th: it is stable, so pieces of one
\* relative offset stay in chain order.
Ahead(ps, i) ==
  {j \in DOMAIN ps :
     \/ ps[j].relative < ps[i].relative
     \/ ps[j].relative = ps[i].relative /\ j < i}

\* The sorted pieces end to end, as the set of the bits that are set.
Joined(ps) ==
  UNION {{Cardinality(Ahead(ps, i)) * PieceBits + b : b \in ps[i].bits} : i \in DOMAIN ps}

\* A walk ends: the bitmap's follows the descriptors', and then all is built.
EndWalk ==
  \/ /\ walking = "diff"
     /\ walking' = "bitmap"
     /\ next' = image.stores[index].bitmap
     /\ visited' = {}
     /\ blocks' = 0
     /\ pc' = "loop"
     /\ UNCHANGED bitmap
  \/ /\ walking = "bitmap"
     /\ bitmap' = Joined(pieces)
     /\ pc' = "done"
     /\ UNCHANGED <<walking, walk>>

EndLoop ==
  /\ pc = "loop"
  /\ LoopEnds(next, visited, blocks, MaxStoreBlocks)
  /\ EndWalk
  /\ UNCHANGED <<image, index, record, block_map, pieces, taken, faults>>

EnterBlock ==
  /\ pc = "loop"
  /\ ~LoopEnds(next, visited, blocks, MaxStoreBlocks)
  /\ visited' = visited \cup {next}
  /\ pc' = "read"
  /\ UNCHANGED <<image, index, walking, next, blocks, record, built, taken, faults>>

EndOfVolume == next + BlockSize > VolumeSize

\* mutant: any store block is taken for one of the chain
OfChain_Any(block) == block.record_type \in Chains

OfChain(block) == block.record_type = walking

\* A block of another type ends the walk.
ReadForeign ==
  /\ pc = "read"
  /\ ~EndOfVolume
  /\ ~OfChain(Here)
  /\ EndWalk
  /\ UNCHANGED <<image, index, record, block_map, pieces, taken, faults>>

ReadDescriptors ==
  /\ pc = "read"
  /\ walking = "diff"
  /\ ~EndOfVolume
  /\ OfChain(Here)
  /\ record' = 1
  /\ taken' = [taken EXCEPT !["diff"] = Append(@, next)]
  /\ pc' = "records"
  /\ UNCHANGED <<image, index, walking, walk, built, faults>>

ReadPiece ==
  /\ pc = "read"
  /\ walking = "bitmap"
  /\ ~EndOfVolume
  /\ OfChain(Here)
  /\ pieces' = Append(pieces, [relative |-> Here.relative_offset, bits |-> Here.bits])
  /\ taken' = [taken EXCEPT !["bitmap"] = Append(@, next)]
  /\ blocks' = blocks + 1
  /\ next' = Here.next_offset
  /\ pc' = "loop"
  /\ UNCHANGED <<image, index, walking, visited, record, block_map, bitmap, faults>>

\* VssError::Io.
ReadFails ==
  /\ pc = "read"
  /\ ~EndOfVolume => faults < MaxFaults
  /\ faults' = IF EndOfVolume THEN faults ELSE faults + 1
  /\ pc' = "failed"
  /\ UNCHANGED <<image, index, walking, walk, record, built, taken>>

\* mutant: a later descriptor of a block replaces the earlier ones
Filed_Replaces(map, d) ==
  [o \in DOMAIN map \cup {d.original_offset} |->
     IF o = d.original_offset THEN <<d>> ELSE map[o]]

\* map.entry(d.original_offset).or_default().push(d)
Filed(map, d) ==
  [o \in DOMAIN map \cup {d.original_offset} |->
     LET ds == IF o \in DOMAIN map THEN map[o] ELSE << >>
     IN  IF o = d.original_offset THEN Append(ds, d) ELSE ds]

\* The block's descriptors end with a zero record or with the block.
AtEnd == record <= RecordsPerBlock => Here.records[record] = ZeroRecord

FileDescriptor ==
  /\ pc = "records"
  /\ ~AtEnd
  /\ block_map' = Filed(block_map, Here.records[record])
  /\ record' = record + 1
  /\ UNCHANGED <<image, index, pc, walking, walk, pieces, bitmap, taken, faults>>

\* mutant: the zero record is neither taken nor left (continue for break)
LeaveBlock_Full ==
  /\ pc = "records"
  /\ record > RecordsPerBlock
  /\ blocks' = blocks + 1
  /\ next' = Here.next_offset
  /\ pc' = "loop"
  /\ UNCHANGED <<image, index, walking, visited, record, built, taken, faults>>

LeaveBlock ==
  /\ pc = "records"
  /\ AtEnd
  /\ blocks' = blocks + 1
  /\ next' = Here.next_offset
  /\ pc' = "loop"
  /\ UNCHANGED <<image, index, walking, visited, record, built, taken, faults>>

Step ==
  \/ Begin
  \/ RefuseIndex
  \/ RefuseStore
  \/ EndLoop
  \/ EnterBlock
  \/ ReadForeign
  \/ ReadDescriptors
  \/ ReadPiece
  \/ FileDescriptor
  \/ LeaveBlock

Next == Step \/ ReadFails

Spec == Init /\ [][Next]_vars

\* snapshot_state is one call that keeps running; no fault has to happen.
FairSpec == Spec /\ WF_vars(Step)

-----------------------------------------------------------------------------
(***************************************************************************)
(* Properties.                                                             *)
(***************************************************************************)

Refused == {"out_of_range", "unavailable"}
Ended   == {"done", "failed"} \cup Refused

\* Type correctness.  What a call that ends well has built is a state the
\* reader of SnapshotSource starts from, whatever the volume holds.
TypeOK ==
  /\ IsImage(image)
  /\ index \in 1 .. Len(image.stores) + 1
  /\ pc \in {"start", "loop", "read", "records"} \cup Ended
  /\ walking \in Chains
  /\ next \in Offsets
  /\ visited \subseteq Offsets
  /\ blocks \in 0 .. MaxStoreBlocks
  /\ record \in 1 .. RecordsPerBlock + 1
  /\ pieces \in Seq([relative: Offsets, bits: SUBSET (0 .. PieceBits - 1)])
  /\ taken \in [Chains -> Seq(WholeBlocks)]
  /\ faults \in 0 .. MaxFaults
  /\ IsSnapshotState([block_map |-> block_map, bitmap |-> bitmap])

(***************************************************************************)
(* The map, stated on the volume: a record counts when no record before it *)
(* in its block is zero, and the descriptors of one offset are in the      *)
(* order of the chain.                                                     *)
(***************************************************************************)
Counted(b) ==
  {k \in 1 .. RecordsPerBlock : \A j \in 1 .. k : b.records[j] # ZeroRecord}

\* The records decoded so far: block of the chain, index in it.
Places ==
  {p \in (DOMAIN taken["diff"]) \X (1 .. RecordsPerBlock) :
     /\ p[2] \in Counted(image.blocks[taken["diff"][p[1]]])
     /\ (pc = "records" /\ p[1] = Len(taken["diff"])) => p[2] < record}

At(p) == image.blocks[taken["diff"][p[1]]].records[p[2]]

PlacesAt(o) == {p \in Places : At(p).original_offset = o}

Before(p, q) ==
  \/ p[1] < q[1]
  \/ p[1] = q[1] /\ p[2] < q[2]

\* Every descriptor of the chain is filed once, under the offset it is for, in
\* the order the later ones override the earlier ones; nothing else is filed.
FilesEveryDescriptor ==
  /\ DOMAIN block_map = {At(p).original_offset : p \in Places}
  /\ \A o \in DOMAIN block_map :
       /\ Len(block_map[o]) = Cardinality(PlacesAt(o))
       /\ \A p \in PlacesAt(o) :
            block_map[o][1 + Cardinality({q \in PlacesAt(o) : Before(q, p)})] = At(p)

\* A piece of the bitmap has its place when the pieces below it, whatever their
\* order in the chain, lie `unit` apart from `start` on, and it comes next.  The
\* offsets count from anywhere in the store, and in blocks or in payloads of blocks.
HasItsPlace(i, start, unit) ==
  LET chain == taken["bitmap"]
      relative(j) == image.blocks[chain[j]].relative_offset
      below == {j \in DOMAIN chain : relative(j) < relative(i)}
  IN  /\ relative(i) = start + Cardinality(below) * unit
      /\ {relative(j) : j \in below} = {start + n * unit : n \in 0 .. Cardinality(below) - 1}
      /\ \A j \in 1 .. i - 1 : relative(j) # relative(i)

\* "Bit b corresponds to volume block b" (docs/RECONSTRUCTION.md): the bits of a
\* piece that has its place stand for the blocks its relative offset says, and no
\* gap or repetition further up the bitmap can disturb them.
BitmapAnswersForBlocks ==
  pc = "done" =>
    \A i \in DOMAIN taken["bitmap"], start \in Offsets, unit \in Offsets \ {0} :
      LET piece == image.blocks[taken["bitmap"][i]]
          first == ((piece.relative_offset - start) \div unit) * PieceBits
      IN  HasItsPlace(i, start, unit) =>
            \A b \in 0 .. PieceBits - 1 : first + b \in bitmap <=> b \in piece.bits

\* No volume makes a read of it fail by what it holds; VssError::Io is the device's.
\* A store is refused for what the volume holds only where it has no pointers.
NoErrorWithoutFault == pc = "failed" => faults > 0

-----------------------------------------------------------------------------
(***************************************************************************)
(* What the walks maintain on the way, and FilesEveryDescriptor and the    *)
(* others rest on.                                                         *)
(***************************************************************************)
Taken(c) == {taken[c][i] : i \in 1 .. Len(taken[c])}

FirstOf(c) ==
  IF c = "diff" THEN SatAdd(image.stores[index].header, BlockSize)
  ELSE image.stores[index].bitmap

AheadIn(c) ==
  IF taken[c] = << >> THEN FirstOf(c) ELSE image.blocks[taken[c][Len(taken[c])]].next_offset

\* At the loop head the offsets visited are those of the blocks of the chain
\* taken, `next` is where the last of them points and the counter is their number;
\* between the loop head and the read the tests of the head still hold.  The
\* bitmap's chain is not begun before the other is done.
WalkInv ==
  /\ pc \notin {"start"} \cup Refused => Found
  /\ pc \in {"start"} \cup Refused =>
       walking = "diff" /\ visited = {} /\ blocks = 0 /\ taken["diff"] = << >>
  /\ pc = "done" => walking = "bitmap"
  /\ walking = "diff" => taken["bitmap"] = << >>
  /\ pc = "loop" =>
       /\ visited = Taken(walking)
       /\ next = AheadIn(walking)
       /\ Len(taken[walking]) = blocks
  /\ pc = "read" =>
       /\ visited = Taken(walking) \cup {next}
       /\ next = AheadIn(walking)
       /\ Len(taken[walking]) = blocks
       /\ ~LoopEnds(next, Taken(walking), blocks, MaxStoreBlocks)
  /\ pc = "records" =>
       /\ walking = "diff"
       /\ visited = Taken("diff")
       /\ Len(taken["diff"]) = blocks + 1
       /\ next = taken["diff"][blocks + 1]
       /\ next \in WholeBlocks
       /\ blocks < MaxStoreBlocks

\* Inside a block, no record passed was the zero record.
RecordInv ==
  pc = "records" => \A k \in 1 .. record - 1 : Here.records[k] # ZeroRecord

PieceOf(block) == [relative |-> block.relative_offset, bits |-> block.bits]

\* The pieces are those of the blocks taken, and the bitmap is made of them.
PieceInv ==
  /\ pieces = [i \in 1 .. Len(taken["bitmap"]) |-> PieceOf(image.blocks[taken["bitmap"][i]])]
  /\ pc = "done" => bitmap = Joined(pieces)

\* A fault ends the call, and nothing else makes it fail.
FaultInv == pc = "failed" <=> faults > 0

\* The inductive invariant of the call: it gives back a prefix of each chain, and
\* what it files and joins is what those blocks hold.
IInv == TypeOK /\ WalkInv /\ RecordInv /\ PieceInv /\ FaultInv /\ FilesEveryDescriptor

-----------------------------------------------------------------------------
\* What both walks promise.
Chain(type) ==
  [o \in WholeBlocks |->
     [fits |-> image.blocks[o].record_type = type, next |-> image.blocks[o].next_offset]]

DiffPromise == INSTANCE ChainWalk WITH
  Cap <- MaxStoreBlocks,
  first <- IF Found THEN image.stores[index].header + BlockSize ELSE 0,
  chain <- Chain("diff"),
  taken <- taken["diff"],
  status <- IF walking = "bitmap" \/ pc \in Refused THEN "done"
            ELSE IF pc = "failed" THEN "failed" ELSE "walking",
  faults <- IF walking = "bitmap" THEN 0 ELSE faults

BitmapPromise == INSTANCE ChainWalk WITH
  Cap <- MaxStoreBlocks,
  first <- IF Found THEN image.stores[index].bitmap ELSE 0,
  chain <- Chain("bitmap"),
  taken <- taken["bitmap"],
  status <- IF pc \in {"done"} \cup Refused THEN "done"
            ELSE IF pc = "failed" THEN "failed" ELSE "walking"

\* build_block_map walks the chain of descriptors as ChainWalk promises.
DiffImplements == DiffPromise!Spec

\* build_bitmap walks the chain of the bitmap as ChainWalk promises.
BitmapImplements == BitmapPromise!Spec

\* Making a snapshot ends, whatever cycles the chains have.
Builds == <>(pc \in Ended)

\* "The VSS identifier GUID ... matched at offset 0 of the volume header, every
\* catalog block header, and every store block" (docs/decisions/0004).
IdentifierChecked ==
  \A c \in Chains : \A i \in DOMAIN taken[c] : image.blocks[taken[c][i]].vss
=============================================================================
