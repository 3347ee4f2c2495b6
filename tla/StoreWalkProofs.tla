--------------------------- MODULE StoreWalkProofs ---------------------------
(***************************************************************************)
(* Making a snapshot, for every volume: both chains are walked as          *)
(* ChainWalk promises, every descriptor is filed in its order, every bit   *)
(* of a piece that has its place answers for its block, and only the       *)
(* device makes the call fail.                                             *)
(***************************************************************************)
EXTENDS StoreWalk, VolumeGeometryProofs

\* What the type of the image says of its stores and blocks.
LEMMA ImageTypes ==
  ASSUME TypeOK
  PROVE  /\ Found => /\ image.stores[index].header \in Offsets
                     /\ image.stores[index].bitmap \in Offsets
         /\ \A o \in WholeBlocks :
              /\ image.blocks[o] \in StoreBlock
              /\ image.blocks[o].next_offset \in Offsets
              /\ image.blocks[o].relative_offset \in Offsets
              /\ image.blocks[o].bits \in SUBSET (0 .. PieceBits - 1)
              /\ image.blocks[o].records \in [1 .. RecordsPerBlock -> BlockDescriptor \cup {ZeroRecord}]
<1>1. IsImage(image)
  BY DEF TypeOK
<1>2. \A o \in WholeBlocks : image.blocks[o] \in StoreBlock
  BY <1>1 DEF IsImage
<1>3. ASSUME Found
      PROVE  /\ image.stores[index].header \in Offsets
             /\ image.stores[index].bitmap \in Offsets
  <2>1. index \in 1 .. Len(image.stores) /\ image.stores \in Seq(StorePointers)
    BY <1>1, <1>3 DEF IsImage, TypeOK, Found, InRange
  <2>2. image.stores[index] \in StorePointers
    BY <2>1
  <2>3. QED
    BY <1>3, <2>2 DEF Found, StorePointers
<1>4. QED
  BY <1>2, <1>3 DEF StoreBlock

\* The loop goes on only to whole blocks of the volume.
LEMMA InRangeIsWhole ==
  ASSUME NEW off \in Offsets
  PROVE  BlockInRange(off) <=> off \in WholeBlocks
  BY GeometryAssumption DEF BlockInRange, WholeBlocks, Offsets

\* So no read of the walks runs off the volume.
LEMMA NoEndOfVolume ==
  ASSUME IInv, pc = "read"
  PROVE  next \in WholeBlocks /\ ~EndOfVolume /\ next \notin Taken(walking)
         /\ next # 0 /\ blocks < MaxStoreBlocks
<1>1. next \in Offsets /\ ~LoopEnds(next, Taken(walking), blocks, MaxStoreBlocks)
      /\ blocks \in Nat /\ MaxStoreBlocks \in Nat
  BY StoreAssumption DEF IInv, TypeOK, WalkInv
<1>2. BlockInRange(next) /\ next # 0 /\ next \notin Taken(walking) /\ blocks < MaxStoreBlocks
  BY <1>1 DEF LoopEnds
<1>3. next \in WholeBlocks
  BY <1>1, <1>2, InRangeIsWhole
<1>4. QED
  BY <1>2, <1>3, GeometryAssumption DEF WholeBlocks, Offsets, EndOfVolume

\* The record at hand is a descriptor, unless the block is at its end.
LEMMA RecordIsDescriptor ==
  ASSUME IInv, pc = "records", ~AtEnd
  PROVE  /\ next \in WholeBlocks
         /\ record \in 1 .. RecordsPerBlock
         /\ Here.records[record] \in BlockDescriptor
         /\ Here.records[record].original_offset \in Offsets
<1>1. next \in WholeBlocks /\ TypeOK
  BY DEF IInv, WalkInv
<1>2. Here.records \in [1 .. RecordsPerBlock -> BlockDescriptor \cup {ZeroRecord}]
  BY <1>1, ImageTypes DEF Here
<1>3. record \in 1 .. RecordsPerBlock /\ Here.records[record] # ZeroRecord
  BY <1>1, StoreAssumption DEF AtEnd, TypeOK
<1>4. Here.records[record] \in BlockDescriptor
  BY <1>2, <1>3
<1>5. QED
  BY <1>1, <1>3, <1>4 DEF BlockDescriptor

Piece == [relative: Offsets, bits: SUBSET (0 .. PieceBits - 1)]

\* What is joined are bits of the bitmap.
LEMMA JoinedType ==
  ASSUME NEW ps \in Seq(Piece)
  PROVE  Joined(ps) \subseteq Nat
<1>1. \A i \in DOMAIN ps : Cardinality(Ahead(ps, i)) \in Nat
  <2>1. TAKE i \in DOMAIN ps
  <2>2. IsFiniteSet(DOMAIN ps)
    <3>1. DOMAIN ps = 1 .. Len(ps) /\ Len(ps) \in Nat
      OBVIOUS
    <3>2. QED
      BY <3>1, FS_Interval
  <2>3. Ahead(ps, i) \in SUBSET DOMAIN ps
    BY DEF Ahead
  <2>4. QED
    BY <2>2, <2>3, FS_Subset, FS_CardinalityType
<1>2. \A i \in DOMAIN ps : ps[i].bits \subseteq Nat
  <2>1. TAKE i \in DOMAIN ps
  <2>2. ps[i] \in Piece
    OBVIOUS
  <2>3. QED
    BY <2>2, StoreAssumption DEF Piece
<1>3. PieceBits \in Nat
  BY StoreAssumption
<1>4. \A i \in DOMAIN ps : {Cardinality(Ahead(ps, i)) * PieceBits + b : b \in ps[i].bits} \subseteq Nat
  BY <1>1, <1>2, <1>3
<1>5. QED
  BY <1>4 DEF Joined

\* Filing keeps the map a map of descriptor lists.
LEMMA FiledType ==
  ASSUME NEW map, NEW d \in BlockDescriptor, NEW bits,
         IsSnapshotState([block_map |-> map, bitmap |-> bits])
  PROVE  IsSnapshotState([block_map |-> Filed(map, d), bitmap |-> bits])
<1>1. DOMAIN map \subseteq Offsets /\ \A o \in DOMAIN map : map[o] \in Seq(BlockDescriptor)
  BY DEF IsSnapshotState
<1>2. d.original_offset \in Offsets
  BY DEF BlockDescriptor
<1>3. DOMAIN Filed(map, d) = DOMAIN map \cup {d.original_offset}
  BY DEF Filed
<1>4. \A o \in DOMAIN Filed(map, d) : Filed(map, d)[o] \in Seq(BlockDescriptor)
  <2>1. TAKE o \in DOMAIN Filed(map, d)
  <2>2. << >> \in Seq(BlockDescriptor)
    OBVIOUS
  <2>3. (IF o \in DOMAIN map THEN map[o] ELSE << >>) \in Seq(BlockDescriptor)
    BY <1>1, <2>2
  <2>4. QED
    BY <1>3, <2>3 DEF Filed
<1>5. QED
  BY <1>1, <1>2, <1>3, <1>4 DEF IsSnapshotState

-----------------------------------------------------------------------------
(* The invariant.                                                          *)

LEMMA InitTyped == Init => TypeOK
<1> SUFFICES ASSUME Init PROVE TypeOK
  OBVIOUS
<1>1. IsImage(image)
  BY StoreAssumption DEF Init
<1>2. 0 \in Offsets /\ 0 \in 0 .. MaxStoreBlocks /\ 0 \in 0 .. MaxFaults
      /\ 1 \in 1 .. RecordsPerBlock + 1
  BY StoreAssumption, GeometryAssumption DEF Offsets
<1>3. << >> \in Seq(Piece) /\ << >> \in Seq(WholeBlocks)
  OBVIOUS
<1>4. IsSnapshotState([block_map |-> << >>, bitmap |-> {}])
  BY DEF IsSnapshotState
<1>5. taken \in [Chains -> Seq(WholeBlocks)] /\ visited \subseteq Offsets
  BY <1>3 DEF Init, Fresh
<1>6. IsSnapshotState([block_map |-> block_map, bitmap |-> bitmap])
  BY <1>4 DEF Init, Fresh
<1>7. index \in 1 .. Len(image.stores) + 1 /\ walking \in Chains /\ pieces \in Seq(Piece)
  BY <1>3 DEF Init, Fresh, Chains
<1>8. pc = "start" /\ next = 0 /\ blocks = 0 /\ record = 1 /\ faults = 0
  BY DEF Init, Fresh
<1>9. QED
  BY <1>1, <1>2, <1>5, <1>6, <1>7, <1>8 DEF TypeOK, Piece

\* The counter, the offsets and the pieces of a walk stay in their range.
LEMMA StepType ==
  ASSUME IInv, [Next]_vars
  PROVE  TypeOK'
<1> USE DEF IInv, TypeOK, walk, built, Refused, Ended, Chains
<1>1. CASE Begin
  <2>1. image.stores[index].header \in Offsets
    BY <1>1, ImageTypes DEF Begin
  <2> HIDE DEF IInv, TypeOK
  <2>2. SatAdd(image.stores[index].header, BlockSize) \in Offsets
    BY <2>1, GeometryAssumption DEF SatAdd, Offsets
  <2>3. QED
    BY <1>1, <2>2 DEF Begin, IInv, TypeOK
<1>2. CASE RefuseIndex \/ RefuseStore
  BY <1>2 DEF RefuseIndex, RefuseStore
<1>3. ASSUME EndWalk, UNCHANGED <<image, index, record, block_map, pieces, taken, faults>>,
             pc \in {"loop", "read"}
      PROVE  TypeOK'
  <2>1. CASE walking = "diff"
    <3>1. image.stores[index].bitmap \in Offsets
      BY <1>3, ImageTypes DEF WalkInv
    <3>2. 0 \in 0 .. MaxStoreBlocks
      BY StoreAssumption
    <3>3. QED
      BY <1>3, <2>1, <3>1, <3>2 DEF EndWalk
  <2>2. CASE walking = "bitmap"
    <3>1. bitmap' \subseteq Nat
      BY <1>3, <2>2, JoinedType DEF EndWalk, Piece
    <3>2. IsSnapshotState([block_map |-> block_map, bitmap |-> bitmap])'
      BY <1>3, <3>1 DEF IsSnapshotState
    <3>3. QED
      BY <1>3, <2>2, <3>2 DEF EndWalk
  <2>3. QED
    BY <2>1, <2>2
<1>4. CASE EndLoop
  BY <1>3, <1>4 DEF EndLoop
<1>5. CASE EnterBlock
  BY <1>5 DEF EnterBlock
<1>6. CASE ReadForeign
  BY <1>3, <1>6 DEF ReadForeign
<1>7. CASE ReadDescriptors
  <2>1. next \in WholeBlocks
    BY <1>7, NoEndOfVolume DEF ReadDescriptors
  <2>2. taken' \in [Chains -> Seq(WholeBlocks)]
    <3>1. Append(taken["diff"], next) \in Seq(WholeBlocks)
      BY <2>1
    <3>2. QED
      BY <1>7, <3>1 DEF ReadDescriptors
  <2>3. record' \in 1 .. RecordsPerBlock + 1
    BY <1>7, StoreAssumption DEF ReadDescriptors
  <2>4. QED
    BY <1>7, <2>2, <2>3 DEF ReadDescriptors
<1>8. CASE ReadPiece
  <2>1. next \in WholeBlocks /\ blocks < MaxStoreBlocks
    BY <1>8, NoEndOfVolume DEF ReadPiece
  <2>2. taken' \in [Chains -> Seq(WholeBlocks)]
    <3>1. Append(taken["bitmap"], next) \in Seq(WholeBlocks)
      BY <2>1
    <3>2. QED
      BY <1>8, <3>1 DEF ReadPiece
  <2>3. next' \in Offsets
    BY <1>8, <2>1, ImageTypes DEF ReadPiece, Here
  <2>4. pieces' \in Seq(Piece)
    <3>1. [relative |-> Here.relative_offset, bits |-> Here.bits] \in Piece
      BY <2>1, ImageTypes DEF Here, Piece
    <3>2. pieces \in Seq(Piece)
      BY DEF Piece
    <3>3. QED
      BY <1>8, <3>1, <3>2 DEF ReadPiece
  <2>5. blocks' \in 0 .. MaxStoreBlocks
    BY <1>8, <2>1, StoreAssumption DEF ReadPiece
  <2>6. QED
    BY <1>8, <2>2, <2>3, <2>4, <2>5 DEF ReadPiece, Piece
<1>9. CASE FileDescriptor
  <2>1. record \in 1 .. RecordsPerBlock /\ Here.records[record] \in BlockDescriptor
    BY <1>9, RecordIsDescriptor DEF FileDescriptor
  <2>2. IsSnapshotState([block_map |-> block_map, bitmap |-> bitmap])'
    BY <1>9, <2>1, FiledType DEF FileDescriptor
  <2>3. record' \in 1 .. RecordsPerBlock + 1
    BY <1>9, <2>1, StoreAssumption DEF FileDescriptor
  <2>4. QED
    BY <1>9, <2>2, <2>3 DEF FileDescriptor
<1>10. CASE LeaveBlock
  <2>1. next \in WholeBlocks /\ blocks < MaxStoreBlocks
    BY <1>10 DEF LeaveBlock, WalkInv
  <2>2. next' \in Offsets
    BY <1>10, <2>1, ImageTypes DEF LeaveBlock, Here
  <2>3. blocks' \in 0 .. MaxStoreBlocks
    BY <1>10, <2>1, StoreAssumption DEF LeaveBlock
  <2>4. QED
    BY <1>10, <2>2, <2>3 DEF LeaveBlock
<1>11. CASE ReadFails
  <2>1. faults' \in 0 .. MaxFaults
    BY <1>11, StoreAssumption DEF ReadFails
  <2>2. QED
    BY <1>11, <2>1 DEF ReadFails
<1>12. CASE UNCHANGED vars
  BY <1>12 DEF vars
<1>13. QED
  BY <1>1, <1>2, <1>4, <1>5, <1>6, <1>7, <1>8, <1>9, <1>10, <1>11, <1>12 DEF Next, Step

\* The blocks taken of a chain, when one more is.
LEMMA TakenGrows ==
  ASSUME TypeOK, NEW c \in Chains, NEW b, taken' = [taken EXCEPT ![c] = Append(@, b)]
  PROVE  /\ Taken(c)' = Taken(c) \cup {b}
         /\ Len(taken[c]) \in Nat
         /\ Len(taken'[c]) = Len(taken[c]) + 1
         /\ taken'[c][Len(taken[c]) + 1] = b
         /\ \A i \in 1 .. Len(taken[c]) : taken'[c][i] = taken[c][i]
         /\ \A d \in Chains \ {c} : taken'[d] = taken[d]
<1>1. taken[c] \in Seq(WholeBlocks) /\ Len(taken[c]) \in Nat
  BY DEF TypeOK
<1>2. taken'[c] = Append(taken[c], b) /\ \A d \in Chains \ {c} : taken'[d] = taken[d]
  BY DEF TypeOK
<1>3. /\ Len(taken'[c]) = Len(taken[c]) + 1
      /\ taken'[c][Len(taken[c]) + 1] = b
      /\ \A i \in 1 .. Len(taken[c]) : taken'[c][i] = taken[c][i]
  BY <1>1, <1>2
<1>4. Taken(c)' = {taken'[c][i] : i \in 1 .. Len(taken[c]) + 1}
  BY <1>3 DEF Taken
<1>5. 1 .. Len(taken[c]) + 1 = (1 .. Len(taken[c])) \cup {Len(taken[c]) + 1}
  BY <1>1
<1>6. QED
  BY <1>1, <1>2, <1>3, <1>4, <1>5 DEF Taken

\* The end of a walk, from the loop head or from a foreign block.
LEMMA EndWalkKeeps ==
  ASSUME IInv, EndWalk, pc \in {"loop", "read"}, UNCHANGED <<image, index, taken>>
  PROVE  WalkInv'
<1>1. Found /\ Found'
  BY DEF IInv, WalkInv, Found, InRange, Refused
<1>2. CASE walking = "diff"
  <2>1. /\ walking' = "bitmap" /\ pc' = "loop" /\ visited' = {} /\ blocks' = 0
        /\ next' = image.stores[index].bitmap
    BY <1>2 DEF EndWalk
  <2>2. taken["bitmap"] = << >>
    BY <1>2 DEF IInv, WalkInv
  <2>3. Taken("bitmap")' = {} /\ AheadIn("bitmap")' = next' /\ Len(taken'["bitmap"]) = 0
    BY <2>1, <2>2 DEF Taken, AheadIn, FirstOf
  <2>4. QED
    BY <1>1, <2>1, <2>3 DEF WalkInv, Refused
<1>3. CASE walking = "bitmap"
  <2>1. walking' = "bitmap" /\ pc' = "done"
    BY <1>3 DEF EndWalk
  <2>2. QED
    BY <1>1, <2>1 DEF WalkInv, Refused
<1>4. QED
  BY <1>2, <1>3 DEF IInv, TypeOK, Chains

LEMMA StepWalk ==
  ASSUME IInv, [Next]_vars
  PROVE  WalkInv'
<1> USE DEF walk, built, Refused
<1>0. image' = image /\ index' = index /\ Found' = Found
  BY DEF Next, Step, Begin, RefuseIndex, RefuseStore, EndLoop, EnterBlock, ReadForeign,
         ReadDescriptors, ReadPiece, FileDescriptor, LeaveBlock, ReadFails, vars, Found, InRange
<1>1. CASE Begin
  <2>1. /\ walking = "diff" /\ walking' = "diff" /\ pc' = "loop" /\ taken' = taken /\ Found
        /\ visited' = {} /\ blocks' = 0 /\ taken["diff"] = << >> /\ taken["bitmap"] = << >>
    BY <1>1 DEF Begin, IInv, WalkInv
  <2>2. Taken("diff")' = {} /\ AheadIn("diff")' = next' /\ Len(taken'["diff"]) = 0
    BY <1>0, <1>1, <2>1 DEF Begin, Taken, AheadIn, FirstOf
  <2>3. QED
    BY <1>0, <2>1, <2>2 DEF WalkInv
<1>2. CASE RefuseIndex \/ RefuseStore
  BY <1>0, <1>2 DEF RefuseIndex, RefuseStore, IInv, WalkInv
<1>3. CASE EndLoop
  BY <1>3, EndWalkKeeps DEF EndLoop
<1>4. CASE EnterBlock
  <2>1. /\ UNCHANGED <<image, index, walking, next, blocks, taken>> /\ pc = "loop" /\ pc' = "read"
        /\ visited' = visited \cup {next}
    BY <1>4 DEF EnterBlock
  <2>2. visited = Taken(walking) /\ next = AheadIn(walking) /\ Len(taken[walking]) = blocks
    BY <2>1 DEF IInv, WalkInv
  <2>3. ~LoopEnds(next, Taken(walking), blocks, MaxStoreBlocks)
    BY <1>4, <2>2 DEF EnterBlock
  <2>4. Taken(walking)' = Taken(walking) /\ AheadIn(walking)' = AheadIn(walking)
    BY <2>1 DEF Taken, AheadIn, FirstOf
  <2>5. Found /\ (walking = "diff" => taken["bitmap"] = << >>)
    BY <2>1 DEF IInv, WalkInv
  <2>6. QED
    BY <1>0, <2>1, <2>2, <2>3, <2>4, <2>5 DEF WalkInv, LoopEnds
<1>5. CASE ReadForeign
  BY <1>5, EndWalkKeeps DEF ReadForeign
<1>6. CASE ReadDescriptors
  <2>1. /\ UNCHANGED <<next, walking, visited, blocks>> /\ pc' = "records" /\ walking = "diff"
        /\ taken' = [taken EXCEPT !["diff"] = Append(@, next)]
    BY <1>6 DEF ReadDescriptors
  <2>2. visited = Taken("diff") \cup {next} /\ Len(taken["diff"]) = blocks
        /\ next \in WholeBlocks /\ blocks < MaxStoreBlocks /\ Found /\ taken["bitmap"] = << >>
    BY <1>6, NoEndOfVolume DEF ReadDescriptors, IInv, WalkInv
  <2>3. /\ Taken("diff")' = Taken("diff") \cup {next} /\ Len(taken'["diff"]) = blocks + 1
        /\ taken'["diff"][blocks + 1] = next /\ taken'["bitmap"] = << >>
    BY <2>1, <2>2, TakenGrows DEF IInv, Chains
  <2>4. QED
    BY <1>0, <2>1, <2>2, <2>3 DEF WalkInv
<1>7. CASE ReadPiece
  <2>1. /\ UNCHANGED <<walking, visited>> /\ pc' = "loop" /\ walking = "bitmap"
        /\ blocks' = blocks + 1 /\ next' = image.blocks[next].next_offset
        /\ taken' = [taken EXCEPT !["bitmap"] = Append(@, next)]
    BY <1>7 DEF ReadPiece, Here
  <2>2. visited = Taken("bitmap") \cup {next} /\ Len(taken["bitmap"]) = blocks /\ Found
    BY <1>7 DEF ReadPiece, IInv, WalkInv
  <2>3. /\ Taken("bitmap")' = Taken("bitmap") \cup {next} /\ Len(taken'["bitmap"]) = blocks + 1
        /\ taken'["bitmap"][blocks + 1] = next /\ blocks \in Nat
    BY <2>1, <2>2, TakenGrows DEF IInv, Chains
  <2>4. next' = AheadIn("bitmap")'
    BY <1>0, <2>1, <2>3 DEF AheadIn
  <2>5. QED
    BY <1>0, <2>1, <2>2, <2>3, <2>4 DEF WalkInv
<1>8. CASE FileDescriptor
  BY <1>0, <1>8 DEF FileDescriptor, IInv, WalkInv, Taken
<1>9. CASE LeaveBlock
  <2>1. /\ walking = "diff" /\ visited = Taken("diff") /\ Len(taken["diff"]) = blocks + 1
        /\ next = taken["diff"][blocks + 1] /\ Found /\ taken["bitmap"] = << >> /\ blocks \in Nat
    BY <1>9, StoreAssumption DEF LeaveBlock, IInv, WalkInv, TypeOK
  <2>2. /\ UNCHANGED <<walking, visited, taken>> /\ pc' = "loop"
        /\ blocks' = blocks + 1 /\ next' = image.blocks[next].next_offset
    BY <1>9 DEF LeaveBlock, Here
  <2>3. taken["diff"] # << >>
    BY <2>1
  <2>4. next' = AheadIn("diff")' /\ Taken("diff")' = Taken("diff")
    BY <1>0, <2>1, <2>2, <2>3 DEF AheadIn, Taken
  <2>5. QED
    BY <1>0, <2>1, <2>2, <2>4 DEF WalkInv
<1>10. CASE ReadFails
  BY <1>0, <1>10 DEF ReadFails, IInv, WalkInv
<1>11. CASE UNCHANGED vars
  BY <1>0, <1>11 DEF vars, IInv, WalkInv, Taken, AheadIn, FirstOf
<1>12. QED
  BY <1>1, <1>2, <1>3, <1>4, <1>5, <1>6, <1>7, <1>8, <1>9, <1>10, <1>11 DEF Next, Step

LEMMA StepRecord ==
  ASSUME IInv, [Next]_vars
  PROVE  RecordInv'
<1> USE DEF walk, built
<1>1. CASE ReadDescriptors
  BY <1>1 DEF ReadDescriptors, RecordInv
<1>2. CASE FileDescriptor
  <2>1. /\ UNCHANGED <<image, next>> /\ record' = record + 1 /\ pc = "records"
        /\ \A k \in 1 .. record - 1 : Here.records[k] # ZeroRecord
    BY <1>2 DEF FileDescriptor, IInv, RecordInv
  <2>2. Here.records[record] # ZeroRecord /\ record \in Nat
    BY <1>2, <2>1, StoreAssumption DEF FileDescriptor, AtEnd, IInv, TypeOK
  <2>3. \A k \in 1 .. record' - 1 : k \in 1 .. record - 1 \/ k = record
    BY <2>1, <2>2
  <2>4. QED
    BY <2>1, <2>2, <2>3 DEF RecordInv, Here
<1>3. CASE UNCHANGED vars
  BY <1>3 DEF vars, IInv, RecordInv, Here
<1>4. CASE pc' # "records"
  BY <1>4 DEF RecordInv
<1>5. QED
  BY <1>1, <1>2, <1>3, <1>4 DEF Next, Step, Begin, RefuseIndex, RefuseStore, EndLoop, EndWalk,
     EnterBlock, ReadForeign, ReadPiece, LeaveBlock, ReadFails

\* Only the device makes a step fail: while a block is read it is a whole one.
LEMMA FailureIsFault ==
  ASSUME IInv, ReadFails
  PROVE  faults = 0 /\ faults < MaxFaults /\ faults' = 1 /\ pc' = "failed"
<1>1. ~EndOfVolume
  BY NoEndOfVolume DEF ReadFails
<1>2. faults = 0
  BY StoreAssumption DEF ReadFails, IInv, FaultInv, TypeOK
<1>3. QED
  BY <1>1, <1>2 DEF ReadFails

LEMMA StepFault ==
  ASSUME IInv, [Next]_vars
  PROVE  FaultInv'
<1>1. CASE ReadFails
  BY <1>1, FailureIsFault DEF FaultInv
<1>2. CASE Step
  <2>1. pc # "failed" /\ pc' # "failed" /\ faults' = faults
    BY <1>2 DEF Step, Begin, RefuseIndex, RefuseStore, EndLoop, EndWalk, EnterBlock, ReadForeign,
       ReadDescriptors, ReadPiece, FileDescriptor, LeaveBlock
  <2>2. QED
    BY <2>1 DEF IInv, FaultInv
<1>3. CASE UNCHANGED vars
  BY <1>3 DEF vars, IInv, FaultInv
<1>4. QED
  BY <1>1, <1>2, <1>3 DEF Next

LEMMA StepPiece ==
  ASSUME IInv, [Next]_vars
  PROVE  PieceInv'
<1> USE DEF walk, built
<1> DEFINE PiecesOf(b) == [i \in 1 .. Len(b) |-> PieceOf(image.blocks[b[i]])]
<1>1. pieces = PiecesOf(taken["bitmap"]) /\ image' = image
  BY DEF IInv, PieceInv, Next, Step, Begin, RefuseIndex, RefuseStore, EndLoop, EnterBlock,
     ReadForeign, ReadDescriptors, ReadPiece, FileDescriptor, LeaveBlock, ReadFails, vars
<1>2. CASE ReadPiece
  <2>1. /\ taken' = [taken EXCEPT !["bitmap"] = Append(@, next)] /\ pc' = "loop"
        /\ pieces' = Append(pieces, PieceOf(image.blocks[next]))
    BY <1>2 DEF ReadPiece, Here, PieceOf
  <2>2. /\ Len(taken'["bitmap"]) = Len(taken["bitmap"]) + 1
        /\ taken'["bitmap"][Len(taken["bitmap"]) + 1] = next
        /\ \A i \in 1 .. Len(taken["bitmap"]) : taken'["bitmap"][i] = taken["bitmap"][i]
        /\ Len(taken["bitmap"]) \in Nat
    BY <2>1, TakenGrows DEF IInv, Chains
  <2>3. pieces \in Seq(Piece) /\ Len(pieces) = Len(taken["bitmap"])
    BY <1>1, <2>2 DEF IInv, TypeOK, Piece
  <2>4. pieces' = [i \in 1 .. Len(pieces) + 1 |->
                     IF i = Len(pieces) + 1 THEN PieceOf(image.blocks[next]) ELSE pieces[i]]
    BY <2>1, <2>3
  <2>5. pieces' = PiecesOf(taken'["bitmap"])
    BY <1>1, <2>2, <2>3, <2>4
  <2>6. QED
    BY <1>1, <2>1, <2>5 DEF PieceInv
<1>3. CASE taken'["bitmap"] = taken["bitmap"] /\ pieces' = pieces
           /\ (pc' = "done" => bitmap' = Joined(pieces))
  BY <1>1, <1>3 DEF PieceInv
<1>4. CASE EndLoop \/ ReadForeign
  BY <1>3, <1>4 DEF EndLoop, ReadForeign, EndWalk
<1>5. CASE ReadDescriptors
  <2>1. taken'["bitmap"] = taken["bitmap"]
    BY <1>5, TakenGrows DEF ReadDescriptors, IInv, Chains
  <2>2. QED
    BY <1>3, <1>5, <2>1 DEF ReadDescriptors
<1>6. CASE Begin \/ RefuseIndex \/ RefuseStore \/ EnterBlock \/ FileDescriptor \/ LeaveBlock \/ ReadFails
  BY <1>3, <1>6 DEF Begin, RefuseIndex, RefuseStore, EnterBlock, FileDescriptor, LeaveBlock, ReadFails
<1>7. CASE UNCHANGED vars
  BY <1>3, <1>7 DEF vars, IInv, PieceInv
<1>8. QED
  BY <1>2, <1>4, <1>5, <1>6, <1>7 DEF Next, Step

-----------------------------------------------------------------------------
(* The map of descriptors.                                                 *)

LEMMA PlacesFinite ==
  ASSUME TypeOK
  PROVE  /\ IsFiniteSet(Places)
         /\ \A o : IsFiniteSet(PlacesAt(o))
         /\ \A p \in Places : p[1] \in 1 .. Len(taken["diff"]) /\ p[2] \in 1 .. RecordsPerBlock
         /\ Len(taken["diff"]) \in Nat /\ RecordsPerBlock \in Nat
<1>1. taken["diff"] \in Seq(WholeBlocks) /\ RecordsPerBlock \in Nat
  BY StoreAssumption DEF TypeOK, Chains
<1>2. DOMAIN taken["diff"] = 1 .. Len(taken["diff"]) /\ Len(taken["diff"]) \in Nat
  BY <1>1
<1>3. Places \in SUBSET ((1 .. Len(taken["diff"])) \X (1 .. RecordsPerBlock))
  BY <1>2 DEF Places
<1>4. IsFiniteSet((1 .. Len(taken["diff"])) \X (1 .. RecordsPerBlock))
  <2>1. IsFiniteSet(1 .. Len(taken["diff"])) /\ IsFiniteSet(1 .. RecordsPerBlock)
    BY <1>1, <1>2, FS_Interval
  <2>2. QED
    BY <2>1, FS_Product
<1>5. IsFiniteSet(Places)
  BY <1>3, <1>4, FS_Subset
<1>6. \A o : IsFiniteSet(PlacesAt(o))
  <2>1. TAKE o
  <2>2. PlacesAt(o) \in SUBSET Places
    BY DEF PlacesAt
  <2>3. QED
    BY <1>5, <2>2, FS_Subset
<1>7. \A p \in Places : p[1] \in 1 .. Len(taken["diff"]) /\ p[2] \in 1 .. RecordsPerBlock
  BY <1>3
<1>8. QED
  BY <1>1, <1>2, <1>5, <1>6, <1>7

\* Filing the record at hand adds its place, behind all others.
LEMMA PlaceFiled ==
  ASSUME IInv, FileDescriptor, NEW place, place = <<Len(taken["diff"]), record>>
  PROVE  /\ Places' = Places \cup {place}
         /\ place \notin Places
         /\ \A p \in Places : Before(p, place) /\ ~Before(place, p)
         /\ ~Before(place, place)
         /\ At(place) = Here.records[record]
<1>1. /\ pc = "records" /\ pc' = "records" /\ record' = record + 1
      /\ UNCHANGED <<image, taken>> /\ ~AtEnd
  BY DEF FileDescriptor
<1>2. record \in 1 .. RecordsPerBlock /\ Here.records[record] # ZeroRecord
  BY <1>1, RecordIsDescriptor, StoreAssumption
<1> DEFINE n == Len(taken["diff"])
<1>3. n \in DOMAIN taken["diff"] /\ n \in Nat /\ taken["diff"][n] = next
  <2>1. n = blocks + 1 /\ blocks \in Nat /\ taken["diff"] \in Seq(WholeBlocks)
    BY <1>1, StoreAssumption DEF IInv, WalkInv, TypeOK, Chains
  <2>2. DOMAIN taken["diff"] = 1 .. n
    BY <2>1
  <2>3. taken["diff"][n] = next
    BY <1>1, <2>1 DEF IInv, WalkInv
  <2>4. n \in 1 .. n
    BY <2>1
  <2>5. QED
    BY <2>1, <2>2, <2>3, <2>4
<1>4. record \in Counted(image.blocks[taken["diff"][n]])
  <2>1. \A k \in 1 .. record - 1 : Here.records[k] # ZeroRecord
    BY <1>1 DEF IInv, RecordInv
  <2>2. \A k \in 1 .. record : k \in 1 .. record - 1 \/ k = record
    BY <1>2
  <2>3. QED
    BY <1>2, <1>3, <2>1, <2>2 DEF Counted, Here
<1>5. Places' = Places \cup {place}
  <2>1. ASSUME NEW p PROVE p \in Places' <=> p \in Places \cup {place}
    <3>1. CASE p \in (DOMAIN taken["diff"]) \X (1 .. RecordsPerBlock)
      <4>1. p = <<p[1], p[2]>> /\ p[2] \in 1 .. RecordsPerBlock
        BY <3>1
      <4>2. (p[1] = n => p[2] < record + 1) <=> (p[1] = n => p[2] < record) \/ p = place
        BY <1>2, <4>1
      <4>3. p = place => p[2] \in Counted(image.blocks[taken["diff"][p[1]]])
        BY <1>4
      <4>4. p \in Places <=> /\ p[2] \in Counted(image.blocks[taken["diff"][p[1]]])
                             /\ p[1] = n => p[2] < record
        BY <1>1, <3>1 DEF Places
      <4>5. p \in Places' <=> /\ p[2] \in Counted(image.blocks[taken["diff"][p[1]]])
                              /\ p[1] = n => p[2] < record + 1
        BY <1>1, <3>1 DEF Places, Counted
      <4>6. QED
        BY <4>2, <4>3, <4>4, <4>5
    <3>2. CASE p \notin (DOMAIN taken["diff"]) \X (1 .. RecordsPerBlock)
      BY <1>1, <1>2, <1>3, <3>2 DEF Places
    <3>3. QED
      BY <3>1, <3>2
  <2>2. QED
    BY <2>1
<1>6. place \notin Places
  BY <1>1, <1>2 DEF Places
<1>7. ASSUME NEW p \in Places PROVE Before(p, place) /\ ~Before(place, p)
  <2>1. p[1] \in 1 .. n /\ p[2] \in 1 .. RecordsPerBlock
    BY PlacesFinite DEF IInv
  <2>2. p[1] = n => p[2] < record
    BY <1>1 DEF Places
  <2>3. place[1] = n /\ place[2] = record
    OBVIOUS
  <2>4. QED
    BY <1>2, <1>3, <2>1, <2>2, <2>3 DEF Before
<1>8. ~Before(place, place)
  BY <1>2, <1>3 DEF Before
<1>9. At(place) = Here.records[record]
  BY <1>3 DEF At, Here
<1>10. QED
  BY <1>5, <1>6, <1>7, <1>8, <1>9

\* The map in which a descriptor was filed that comes after all others.
LEMMA FilingKeepsOrder ==
  ASSUME IInv, FileDescriptor
  PROVE  FilesEveryDescriptor'
<1> DEFINE n == Len(taken["diff"])
           place == <<n, record>>
           d == Here.records[record]
<1>1. /\ Places' = Places \cup {place}
      /\ place \notin Places
      /\ \A p \in Places : Before(p, place) /\ ~Before(place, p)
      /\ ~Before(place, place)
      /\ At(place) = d
  BY PlaceFiled
<1>2. \A p : At(p)' = At(p)
  BY DEF FileDescriptor, At
<1>3. block_map' = Filed(block_map, d)
  BY DEF FileDescriptor
<1>4. d \in BlockDescriptor
  BY RecordIsDescriptor DEF FileDescriptor
<1> HIDE DEF place, d
<1>5. /\ DOMAIN block_map = {At(p).original_offset : p \in Places}
      /\ \A o \in DOMAIN block_map :
           /\ Len(block_map[o]) = Cardinality(PlacesAt(o))
           /\ \A p \in PlacesAt(o) :
                block_map[o][1 + Cardinality({q \in PlacesAt(o) : Before(q, p)})] = At(p)
           /\ block_map[o] \in Seq(BlockDescriptor)
  BY DEF IInv, FilesEveryDescriptor, TypeOK, IsSnapshotState
<1>6. DOMAIN block_map' = {At(p)'.original_offset : p \in Places'}
  <2>1. DOMAIN block_map' = DOMAIN block_map \cup {d.original_offset}
    BY <1>3 DEF Filed
  <2>2. QED
    BY <1>1, <1>2, <1>5, <2>1
<1>7. ASSUME NEW o
      PROVE  PlacesAt(o)' = IF o = d.original_offset THEN PlacesAt(o) \cup {place} ELSE PlacesAt(o)
  BY <1>1, <1>2 DEF PlacesAt
<1>8. ASSUME NEW o \in DOMAIN block_map'
      PROVE  /\ Len(block_map'[o]) = Cardinality(PlacesAt(o)')
             /\ \A p \in PlacesAt(o)' :
                  block_map'[o][1 + Cardinality({q \in PlacesAt(o)' : Before(q, p)})] = At(p)
  <2> DEFINE ds == IF o \in DOMAIN block_map THEN block_map[o] ELSE << >>
             S == PlacesAt(o)
  <2>1. /\ ds \in Seq(BlockDescriptor)
        /\ Len(ds) = Cardinality(S)
        /\ \A p \in S : ds[1 + Cardinality({q \in S : Before(q, p)})] = At(p)
        /\ IsFiniteSet(S) /\ Cardinality(S) \in Nat
    <3>1. IsFiniteSet(S) /\ Cardinality(S) \in Nat
      BY PlacesFinite, FS_CardinalityType DEF IInv
    <3>2. CASE o \in DOMAIN block_map
      BY <1>5, <3>1, <3>2
    <3>3. CASE o \notin DOMAIN block_map
      <4>1. S = {}
        BY <1>5, <3>3 DEF PlacesAt
      <4>2. Cardinality(S) = 0
        BY <4>1, FS_EmptySet
      <4>3. QED
        BY <3>1, <3>3, <4>1, <4>2
    <3>4. QED
      BY <3>2, <3>3
  <2>2. block_map'[o] = IF o = d.original_offset THEN Append(ds, d) ELSE ds
    BY <1>3, <1>8 DEF Filed
  <2>3. S \subseteq Places
    BY DEF PlacesAt
  <2> HIDE DEF ds, S
  <2>4. CASE o # d.original_offset
    <3>1. PlacesAt(o)' = S
      BY <1>7, <2>4 DEF S
    <3>2. QED
      BY <2>1, <2>2, <2>4, <3>1
  <2>5. CASE o = d.original_offset
    <3>1. PlacesAt(o)' = S \cup {place} /\ block_map'[o] = Append(ds, d)
      BY <1>7, <2>2, <2>5 DEF S
    <3>2. Cardinality(S \cup {place}) = Cardinality(S) + 1
      BY <1>1, <2>1, <2>3, FS_AddElement
    <3>3. Len(Append(ds, d)) = Cardinality(S) + 1
          /\ Append(ds, d)[Cardinality(S) + 1] = d
          /\ \A i \in 1 .. Cardinality(S) : Append(ds, d)[i] = ds[i]
      BY <1>4, <2>1
    <3>4. ASSUME NEW p \in S
          PROVE  Append(ds, d)[1 + Cardinality({q \in S \cup {place} : Before(q, p)})] = At(p)
      <4> DEFINE B == {q \in S : Before(q, p)}
      <4>1. {q \in S \cup {place} : Before(q, p)} = B
        BY <1>1, <2>3
      <4>2. ~Before(p, p)
        <5>1. p[1] \in Nat /\ p[2] \in Nat
          BY <2>3, PlacesFinite DEF IInv
        <5>2. QED
          BY <5>1 DEF Before
      <4>3. B \in SUBSET (S \ {p}) /\ IsFiniteSet(S \ {p}) /\ Cardinality(S \ {p}) = Cardinality(S) - 1
        BY <2>1, <4>2, FS_RemoveElement
      <4>4. Cardinality(B) \in Nat /\ Cardinality(B) <= Cardinality(S) - 1
        BY <4>3, FS_Subset, FS_CardinalityType
      <4>5. 1 + Cardinality(B) \in 1 .. Cardinality(S) /\ ds[1 + Cardinality(B)] = At(p)
        BY <2>1, <4>4
      <4>6. QED
        BY <3>3, <4>1, <4>5
    <3>5. Append(ds, d)[1 + Cardinality({q \in S \cup {place} : Before(q, place)})] = At(place)
      <4>1. {q \in S \cup {place} : Before(q, place)} = S
        BY <1>1, <2>3
      <4>2. 1 + Cardinality(S) = Cardinality(S) + 1
        BY <2>1
      <4>3. QED
        BY <1>1, <3>3, <4>1, <4>2
    <3>6. QED
      BY <3>1, <3>2, <3>3, <3>4, <3>5
  <2>6. QED
    BY <2>4, <2>5
<1>9. QED
  <2>1. \A o, p, q : Before(q, p)' = Before(q, p)
    BY DEF Before
  <2>2. QED
    BY <1>2, <1>6, <1>8 DEF FilesEveryDescriptor

\* A step that leaves the map and its places alone.
LEMMA SamePlaces ==
  ASSUME FilesEveryDescriptor, UNCHANGED <<image, block_map>>, Places' = Places,
         \A p \in Places : At(p)' = At(p)
  PROVE  FilesEveryDescriptor'
<1>1. ASSUME NEW o PROVE PlacesAt(o)' = PlacesAt(o)
  BY DEF PlacesAt
<1>2. \A p, q : Before(p, q)' = Before(p, q)
  BY DEF Before
<1>3. DOMAIN block_map' = {At(p)'.original_offset : p \in Places'}
  BY DEF FilesEveryDescriptor
<1>4. ASSUME NEW o \in DOMAIN block_map'
      PROVE  /\ Len(block_map'[o]) = Cardinality(PlacesAt(o)')
             /\ \A p \in PlacesAt(o)' :
                  block_map'[o][1 + Cardinality({q \in PlacesAt(o)' : Before(q, p)'})] = At(p)'
  <2>1. /\ Len(block_map[o]) = Cardinality(PlacesAt(o))
        /\ \A p \in PlacesAt(o) :
             block_map[o][1 + Cardinality({q \in PlacesAt(o) : Before(q, p)})] = At(p)
    BY <1>4 DEF FilesEveryDescriptor
  <2>2. \A p \in PlacesAt(o) : At(p)' = At(p)
    BY DEF PlacesAt
  <2>3. QED
    BY <1>1, <1>2, <2>1, <2>2
<1>5. QED
  BY <1>3, <1>4 DEF FilesEveryDescriptor

\* A block taken into the chain has no place yet: its first record is at hand.
LEMMA PlacesOfNewBlock ==
  ASSUME IInv, ReadDescriptors
  PROVE  Places' = Places /\ \A p \in Places : At(p)' = At(p)
<1> DEFINE n == Len(taken["diff"])
<1>1. /\ taken' = [taken EXCEPT !["diff"] = Append(@, next)] /\ record' = 1 /\ image' = image
      /\ pc = "read" /\ pc' = "records"
  BY DEF ReadDescriptors
<1>2. /\ n \in Nat /\ Len(taken'["diff"]) = n + 1
      /\ \A i \in 1 .. n : taken'["diff"][i] = taken["diff"][i]
  BY <1>1, TakenGrows DEF IInv, Chains
<1>3. DOMAIN taken["diff"] = 1 .. n /\ taken["diff"] \in Seq(WholeBlocks) /\ RecordsPerBlock \in Nat
  BY StoreAssumption DEF IInv, TypeOK, Chains
<1>4. DOMAIN taken'["diff"] = 1 .. n + 1
  <2>1. taken'["diff"] = Append(taken["diff"], next)
    BY <1>1 DEF IInv, TypeOK, Chains
  <2>2. QED
    BY <1>2, <1>3, <2>1
<1>5. ASSUME NEW p PROVE p \in Places' <=> p \in Places
  <2>1. CASE p \in (1 .. n + 1) \X (1 .. RecordsPerBlock)
    <3>1. p[1] \in 1 .. n + 1 /\ p[2] \in 1 .. RecordsPerBlock
          /\ (p \in (1 .. n) \X (1 .. RecordsPerBlock) <=> p[1] \in 1 .. n)
      BY <2>1
    <3>2. CASE p[1] = n + 1
      <4>1. p \notin Places
        BY <1>2, <1>3, <3>2 DEF Places
      <4>2. p \notin Places'
        BY <1>1, <1>2, <3>1, <3>2 DEF Places
      <4>3. QED
        BY <4>1, <4>2
    <3>3. CASE p[1] \in 1 .. n
      <4>1. taken'["diff"][p[1]] = taken["diff"][p[1]] /\ p[1] # Len(taken'["diff"])
        BY <1>2, <3>3
      <4>2. p \in Places' <=> p[2] \in Counted(image.blocks[taken["diff"][p[1]]])
        BY <1>1, <1>4, <2>1, <4>1 DEF Places, Counted
      <4>3. p \in Places <=> p[2] \in Counted(image.blocks[taken["diff"][p[1]]])
        BY <1>1, <1>3, <3>1, <3>3 DEF Places
      <4>4. QED
        BY <4>2, <4>3
    <3>4. QED
      BY <1>2, <3>1, <3>2, <3>3
  <2>2. CASE p \notin (1 .. n + 1) \X (1 .. RecordsPerBlock)
    <3>1. p \notin Places'
      BY <1>4, <2>2 DEF Places
    <3>2. p \notin (1 .. n) \X (1 .. RecordsPerBlock)
      BY <1>2, <2>2
    <3>3. QED
      BY <1>3, <3>1, <3>2 DEF Places
  <2>3. QED
    BY <2>1, <2>2
<1>6. \A p \in Places : At(p)' = At(p)
  <2>1. \A p \in Places : p[1] \in 1 .. n
    BY <1>3 DEF Places
  <2>2. QED
    BY <1>1, <1>2, <2>1 DEF At
<1>7. QED
  BY <1>5, <1>6

\* At the end of a block every place of it has been passed.
LEMMA PlacesOfOldBlock ==
  ASSUME IInv, LeaveBlock
  PROVE  Places' = Places /\ \A p \in Places : At(p)' = At(p)
<1> DEFINE n == Len(taken["diff"])
<1>1. UNCHANGED <<image, taken, record>> /\ pc = "records" /\ pc' = "loop" /\ AtEnd
  BY DEF LeaveBlock
<1>2. taken["diff"][n] = next /\ record \in Nat /\ RecordsPerBlock \in Nat
  BY <1>1, StoreAssumption DEF IInv, WalkInv, TypeOK
<1>3. ASSUME NEW p \in (DOMAIN taken["diff"]) \X (1 .. RecordsPerBlock), p[1] = n,
             p[2] \in Counted(image.blocks[taken["diff"][p[1]]])
      PROVE  p[2] < record
  <2>1. p[2] \in 1 .. RecordsPerBlock /\ \A j \in 1 .. p[2] : Here.records[j] # ZeroRecord
    BY <1>2, <1>3 DEF Counted, Here
  <2>2. ~(record <= p[2])
    <3>1. SUFFICES ASSUME record <= p[2] PROVE FALSE
      OBVIOUS
    <3>2. record <= RecordsPerBlock /\ record \in 1 .. p[2]
      BY <1>2, <2>1, <3>1 DEF IInv, TypeOK
    <3>3. QED
      BY <1>1, <2>1, <3>2 DEF AtEnd
  <2>3. QED
    BY <1>2, <2>1, <2>2
<1>4. ASSUME NEW p PROVE p \in Places' <=> p \in Places
  <2>1. p \in Places' <=> /\ p \in (DOMAIN taken["diff"]) \X (1 .. RecordsPerBlock)
                          /\ p[2] \in Counted(image.blocks[taken["diff"][p[1]]])
    BY <1>1 DEF Places, Counted
  <2>2. p \in Places <=> /\ p \in (DOMAIN taken["diff"]) \X (1 .. RecordsPerBlock)
                         /\ p[2] \in Counted(image.blocks[taken["diff"][p[1]]])
                         /\ p[1] = n => p[2] < record
    BY <1>1 DEF Places
  <2>3. QED
    BY <1>3, <2>1, <2>2
<1>5. QED
  BY <1>1, <1>4 DEF At

LEMMA StepFiles ==
  ASSUME IInv, [Next]_vars
  PROVE  FilesEveryDescriptor'
<1> USE DEF walk, built
<1>1. CASE FileDescriptor
  BY <1>1, FilingKeepsOrder
<1>2. CASE ReadDescriptors
  BY <1>2, PlacesOfNewBlock, SamePlaces DEF ReadDescriptors, IInv
<1>3. CASE LeaveBlock
  BY <1>3, PlacesOfOldBlock, SamePlaces DEF LeaveBlock, IInv
<1>4. ASSUME UNCHANGED <<image, block_map>>, taken'["diff"] = taken["diff"],
             pc # "records" /\ pc' # "records"
      PROVE  FilesEveryDescriptor'
  <2>1. Places' = Places
    BY <1>4 DEF Places, Counted
  <2>2. \A p \in Places : At(p)' = At(p)
    BY <1>4 DEF At
  <2>3. QED
    BY <1>4, <2>1, <2>2, SamePlaces DEF IInv
<1>5. CASE ReadPiece
  <2>1. taken'["diff"] = taken["diff"]
    BY <1>5, TakenGrows DEF ReadPiece, IInv, Chains
  <2>2. QED
    BY <1>4, <1>5, <2>1 DEF ReadPiece
<1>6. CASE Begin \/ RefuseIndex \/ RefuseStore \/ EndLoop \/ EnterBlock \/ ReadForeign \/ ReadFails
  BY <1>4, <1>6 DEF Begin, RefuseIndex, RefuseStore, EndLoop, EndWalk, EnterBlock, ReadForeign, ReadFails
<1>7. CASE UNCHANGED vars
  <2>1. UNCHANGED <<image, block_map, taken, record, pc>>
    BY <1>7 DEF vars
  <2>2. Places' = Places
    BY <2>1 DEF Places, Counted
  <2>3. QED
    BY <2>1, <2>2, SamePlaces DEF IInv, At
<1>8. QED
  BY <1>1, <1>2, <1>3, <1>5, <1>6, <1>7 DEF Next, Step

LEMMA InitInv == Init => IInv
<1> SUFFICES ASSUME Init PROVE IInv
  OBVIOUS
<1>1. TypeOK
  BY InitTyped
<1>2. /\ pc = "start" /\ walking = "diff" /\ visited = {} /\ blocks = 0 /\ faults = 0
      /\ block_map = << >> /\ pieces = << >> /\ taken["diff"] = << >> /\ taken["bitmap"] = << >>
  BY DEF Init, Fresh, Chains
<1>3. WalkInv /\ RecordInv /\ FaultInv
  BY <1>2 DEF WalkInv, RecordInv, FaultInv, Refused
<1>4. PieceInv
  BY <1>2 DEF PieceInv
<1>5. FilesEveryDescriptor
  BY <1>2 DEF FilesEveryDescriptor, Places
<1>6. QED
  BY <1>1, <1>3, <1>4, <1>5 DEF IInv

\* The inductive invariant of making a snapshot.
THEOREM BuildInvariantHolds == Spec => []IInv
<1>1. IInv /\ [Next]_vars => IInv'
  BY StepType, StepWalk, StepRecord, StepPiece, StepFault, StepFiles DEF IInv
<1>2. QED
  BY InitInv, <1>1, PTL DEF Spec

\* What a call that ends well has built is a state that a reader may start from:
\* snapshot_state counts no further than its cap and files descriptors under u64
\* offsets, whatever the volume holds.
THEOREM BuildTypeCorrect == Spec => []TypeOK
<1>1. IInv => TypeOK
  BY DEF IInv
<1>2. QED
  BY <1>1, BuildInvariantHolds, PTL

\* What a volume holds never makes snapshot_state return VssError::Io; only the
\* device does.
THEOREM BuildErrorsAreFaults == Spec => []NoErrorWithoutFault
<1>1. IInv => NoErrorWithoutFault
  BY DEF IInv, FaultInv, NoErrorWithoutFault
<1>2. QED
  BY <1>1, BuildInvariantHolds, PTL

\* build_block_map files every descriptor of the chain once, under the offset it is
\* for, in the order the later ones override the earlier ones, and nothing else.
THEOREM DescriptorsInOrder == Spec => []FilesEveryDescriptor
<1>1. IInv => FilesEveryDescriptor
  BY DEF IInv
<1>2. QED
  BY <1>1, BuildInvariantHolds, PTL

-----------------------------------------------------------------------------
(* The bitmap.                                                             *)

\* A multiple of a larger number is larger.
LEMMA MultipleOfLarger ==
  ASSUME NEW m \in Nat, NEW x \in Nat, NEW y \in Nat, x <= y
  PROVE  x * m <= y * m
<1>1. PICK d \in Nat : y = x + d
  BY y = x + (y - x)
<1>2. d * m \in Nat
  OBVIOUS
<1>3. y * m = x * m + d * m
  BY <1>1
<1>4. QED
  BY <1>2, <1>3

\* A bit of the joined bitmap is of one piece, and has one place in it.
LEMMA BitOfOnePiece ==
  ASSUME NEW m \in Nat, NEW x \in Nat, NEW y \in Nat,
         NEW b \in 0 .. m - 1, NEW c \in 0 .. m - 1, x * m + b = y * m + c
  PROVE  x = y /\ b = c
<1>1. ASSUME NEW u \in Nat, NEW v \in Nat, NEW d \in 0 .. m - 1, NEW e \in 0 .. m - 1, u < v
      PROVE  u * m + d # v * m + e
  <2>1. (u + 1) * m <= v * m
    BY <1>1, MultipleOfLarger
  <2>2. (u + 1) * m = u * m + m
    OBVIOUS
  <2>3. u * m \in Nat /\ v * m \in Nat
    OBVIOUS
  <2>4. QED
    BY <2>1, <2>2, <2>3
<1>2. ~(x < y) /\ ~(y < x)
  BY <1>1
<1>3. x = y
  BY <1>2
<1>4. x * m \in Nat
  OBVIOUS
<1>5. QED
  BY <1>3, <1>4

\* Pieces have different places in the bitmap, whatever their relative offsets are.
LEMMA PlacesDiffer ==
  ASSUME NEW ps \in Seq(Piece), NEW i \in DOMAIN ps, NEW j \in DOMAIN ps, i # j
  PROVE  /\ Cardinality(Ahead(ps, i)) \in Nat
         /\ Cardinality(Ahead(ps, j)) # Cardinality(Ahead(ps, i))
<1>1. DOMAIN ps = 1 .. Len(ps) /\ Len(ps) \in Nat /\ \A k \in DOMAIN ps : ps[k].relative \in Nat
  <2>1. \A k \in DOMAIN ps : ps[k] \in Piece
    OBVIOUS
  <2>2. QED
    BY <2>1, GeometryAssumption DEF Piece, Offsets
<1>2. IsFiniteSet(DOMAIN ps)
  BY <1>1, FS_Interval
<1>3. ASSUME NEW k \in DOMAIN ps
      PROVE  IsFiniteSet(Ahead(ps, k)) /\ Cardinality(Ahead(ps, k)) \in Nat
  <2>1. Ahead(ps, k) \in SUBSET DOMAIN ps
    BY DEF Ahead
  <2>2. QED
    BY <1>2, <2>1, FS_Subset, FS_CardinalityType
<1>4. ASSUME NEW k \in DOMAIN ps, NEW l \in DOMAIN ps, k \in Ahead(ps, l)
      PROVE  Cardinality(Ahead(ps, k)) # Cardinality(Ahead(ps, l))
  <2>1. Ahead(ps, k) \in SUBSET Ahead(ps, l)
    BY <1>1, <1>4 DEF Ahead
  <2>2. k \notin Ahead(ps, k)
    BY <1>1 DEF Ahead
  <2>3. QED
    BY <1>3, <1>4, <2>1, <2>2, FS_Subset
<1>5. i \in Ahead(ps, j) \/ j \in Ahead(ps, i)
  BY <1>1 DEF Ahead
<1>6. QED
  BY <1>3, <1>4, <1>5

\* How many units there are in a number of them.
LEMMA UnitsIn ==
  ASSUME NEW unit \in Nat \ {0}, NEW n \in Nat
  PROVE  (n * unit) \div unit = n
  OBVIOUS

\* A piece that has its place is put there.
LEMMA PieceAtItsPlace ==
  ASSUME IInv, NEW i \in DOMAIN taken["bitmap"], NEW start \in Offsets,
         NEW unit \in Offsets \ {0}, HasItsPlace(i, start, unit)
  PROVE  /\ i \in DOMAIN pieces
         /\ pieces[i].bits = image.blocks[taken["bitmap"][i]].bits
         /\ Cardinality(Ahead(pieces, i)) \in Nat
         /\ (image.blocks[taken["bitmap"][i]].relative_offset - start) \div unit
              = Cardinality(Ahead(pieces, i))
<1> DEFINE chain == taken["bitmap"]
           relative(j) == image.blocks[chain[j]].relative_offset
           below == {j \in DOMAIN chain : relative(j) < relative(i)}
<1>1. DOMAIN chain = 1 .. Len(chain) /\ Len(chain) \in Nat /\ chain \in Seq(WholeBlocks)
  BY DEF IInv, TypeOK, Chains
<1>2. /\ DOMAIN pieces = DOMAIN chain
      /\ \A j \in DOMAIN chain : pieces[j].relative = relative(j)
      /\ pieces[i].bits = image.blocks[chain[i]].bits
  <2>1. pieces = [j \in 1 .. Len(chain) |-> PieceOf(image.blocks[chain[j]])]
    BY DEF IInv, PieceInv
  <2>2. \A j \in DOMAIN chain : pieces[j] = PieceOf(image.blocks[chain[j]])
    BY <1>1, <2>1
  <2>3. QED
    BY <1>1, <2>1, <2>2 DEF PieceOf
<1>3. \A j \in DOMAIN chain : relative(j) \in Nat
  <2>1. \A j \in DOMAIN chain : chain[j] \in WholeBlocks
    BY <1>1
  <2>2. QED
    BY <2>1, ImageTypes, GeometryAssumption DEF IInv, Offsets
<1>4. /\ relative(i) = start + Cardinality(below) * unit
      /\ \A j \in 1 .. i - 1 : relative(j) # relative(i)
  BY DEF HasItsPlace
<1> HIDE DEF relative
<1>5. Ahead(pieces, i) = below
  <2>1. \A j \in DOMAIN chain : j < i => j \in 1 .. i - 1
    BY <1>1
  <2>2. QED
    BY <1>2, <1>4, <2>1 DEF Ahead
<1>6. Cardinality(below) \in Nat
  <2>1. IsFiniteSet(DOMAIN chain) /\ below \in SUBSET DOMAIN chain
    BY <1>1, FS_Interval
  <2>2. QED
    BY <2>1, FS_Subset, FS_CardinalityType
<1>7. (relative(i) - start) \div unit = Cardinality(below)
  <2>1. start \in Nat /\ unit \in Nat \ {0}
    BY GeometryAssumption DEF Offsets
  <2> HIDE DEF below
  <2>2. Cardinality(below) * unit \in Nat
    BY <1>6, <2>1
  <2>3. relative(i) - start = Cardinality(below) * unit
    BY <1>4, <2>1, <2>2
  <2>4. (Cardinality(below) * unit) \div unit = Cardinality(below)
    BY <1>6, <2>1, UnitsIn
  <2>5. QED
    BY <2>3, <2>4
<1>8. QED
  BY <1>2, <1>5, <1>6, <1>7 DEF relative

\* build_bitmap: however the pieces come, one that has its place among them answers
\* for the blocks its relative offset says, from any start and in any unit, bit by bit, and no gap, repetition or
\* disorder of the others can disturb it.
THEOREM BitsAnswer == Spec => []BitmapAnswersForBlocks
<1>1. IInv => BitmapAnswersForBlocks
  <2>1. SUFFICES ASSUME IInv, pc = "done", NEW i \in DOMAIN taken["bitmap"],
                        NEW start \in Offsets, NEW unit \in Offsets \ {0},
                        HasItsPlace(i, start, unit), NEW b \in 0 .. PieceBits - 1
                 PROVE  LET piece == image.blocks[taken["bitmap"][i]]
                        IN  ((piece.relative_offset - start) \div unit) * PieceBits + b \in bitmap
                              <=> b \in piece.bits
    BY DEF BitmapAnswersForBlocks
  <2> DEFINE place(j) == Cardinality(Ahead(pieces, j))
             piece == image.blocks[taken["bitmap"][i]]
  <2>2. /\ i \in DOMAIN pieces /\ pieces[i].bits = piece.bits
        /\ place(i) \in Nat /\ (piece.relative_offset - start) \div unit = place(i)
    BY <2>1, PieceAtItsPlace
  <2>3. pieces \in Seq(Piece) /\ PieceBits \in Nat
    BY <2>1, StoreAssumption DEF IInv, TypeOK, Piece
  <2>4. bitmap = UNION {{place(j) * PieceBits + c : c \in pieces[j].bits} : j \in DOMAIN pieces}
    BY <2>1 DEF IInv, PieceInv, Joined
  <2> HIDE DEF place
  <2>5. ASSUME b \in piece.bits PROVE place(i) * PieceBits + b \in bitmap
    BY <2>2, <2>4, <2>5
  <2>6. ASSUME place(i) * PieceBits + b \in bitmap PROVE b \in piece.bits
    <3>0. PICK j \in DOMAIN pieces :
            place(i) * PieceBits + b \in {place(j) * PieceBits + c : c \in pieces[j].bits}
      BY <2>4, <2>6
    <3>1. PICK c \in pieces[j].bits : place(i) * PieceBits + b = place(j) * PieceBits + c
      BY <3>0
    <3>2. c \in 0 .. PieceBits - 1
      <4>1. pieces[j] \in Piece
        BY <2>3
      <4>2. QED
        BY <4>1 DEF Piece
    <3>3. place(j) \in Nat
      <4>1. CASE j = i
        BY <2>2, <4>1
      <4>2. CASE j # i
        BY <2>2, <2>3, <4>2, PlacesDiffer DEF place
      <4>3. QED
        BY <4>1, <4>2
    <3>4. place(i) = place(j) /\ b = c
      <4>1. b \in 0 .. PieceBits - 1 /\ place(i) \in Nat /\ PieceBits \in Nat
        BY <2>1, <2>2, <2>3
      <4>2. PICK x \in Nat, y \in Nat : x = place(i) /\ y = place(j)
        BY <3>3, <4>1
      <4>3. x * PieceBits + b = y * PieceBits + c
        BY <3>1, <4>2
      <4>4. x = y /\ b = c
        BY ONLY <3>2, <4>1, <4>2, <4>3, BitOfOnePiece
      <4>5. QED
        BY <4>2, <4>4
    <3>5. j = i
      BY <2>2, <2>3, <3>4, PlacesDiffer DEF place
    <3>6. QED
      BY <2>2, <3>4, <3>5
  <2>7. QED
    BY <2>2, <2>5, <2>6
<1>2. QED
  BY <1>1, BuildInvariantHolds, PTL

-----------------------------------------------------------------------------
(* Both walks implement ChainWalk.                                         *)

LEMMA ChainType ==
  ASSUME TypeOK, NEW type
  PROVE  /\ Chain(type) \in [WholeBlocks -> [fits: BOOLEAN, next: Offsets]]
         /\ \A o \in WholeBlocks : /\ Chain(type)[o].fits <=> image.blocks[o].record_type = type
                                   /\ Chain(type)[o].next = image.blocks[o].next_offset
<1>1. \A o \in WholeBlocks : image.blocks[o].next_offset \in Offsets
  BY ImageTypes
<1>2. QED
  BY <1>1 DEF Chain

LEMMA FirstTypes ==
  ASSUME TypeOK
  PROVE  /\ (IF Found THEN image.stores[index].header + BlockSize ELSE 0) \in Nat
         /\ (IF Found THEN image.stores[index].bitmap ELSE 0) \in Nat
  BY ImageTypes, GeometryAssumption DEF Offsets

LEMMA InitPromises == Init => DiffPromise!Init /\ BitmapPromise!Init
<1> SUFFICES ASSUME Init PROVE DiffPromise!Init /\ BitmapPromise!Init
  OBVIOUS
<1>1. TypeOK
  BY InitTyped
<1>2. /\ pc = "start" /\ walking = "diff" /\ faults = 0
      /\ taken["diff"] = << >> /\ taken["bitmap"] = << >>
  BY DEF Init, Fresh, Chains
<1>3. DiffPromise!Init
  <2>1. DiffPromise!WholeBlocks = WholeBlocks /\ DiffPromise!Offsets = Offsets
    BY DEF DiffPromise!WholeBlocks, WholeBlocks, DiffPromise!Offsets, Offsets
  <2>2. QED
    BY <1>1, <1>2, <2>1, ChainType, FirstTypes DEF DiffPromise!Init, Refused
<1>4. BitmapPromise!Init
  <2>1. BitmapPromise!WholeBlocks = WholeBlocks /\ BitmapPromise!Offsets = Offsets
    BY DEF BitmapPromise!WholeBlocks, WholeBlocks, BitmapPromise!Offsets, Offsets
  <2>2. QED
    BY <1>1, <1>2, <2>1, ChainType, FirstTypes DEF BitmapPromise!Init, Refused
<1>5. QED
  BY <1>3, <1>4

\* What LoopEnds says, in terms of the blocks taken.
LEMMA LoopGoesOn ==
  ASSUME IInv, NEW c \in Chains
  PROVE  ~LoopEnds(next, Taken(c), blocks, MaxStoreBlocks) <=>
           /\ next # 0 /\ next \in WholeBlocks /\ blocks < MaxStoreBlocks
           /\ \A i \in 1 .. Len(taken[c]) : taken[c][i] # next
<1>1. next \in Offsets /\ blocks \in Nat /\ MaxStoreBlocks \in Nat
  BY StoreAssumption DEF IInv, TypeOK
<1>2. BlockInRange(next) <=> next \in WholeBlocks
  BY <1>1, InRangeIsWhole
<1>3. (\A i \in 1 .. Len(taken[c]) : taken[c][i] # next) <=> next \notin Taken(c)
  BY DEF Taken
<1>4. QED
  BY <1>1, <1>2, <1>3 DEF LoopEnds

\* The promise of the descriptors is at the block the walk is at, except where the
\* walk saturates at the end of u64: there neither has a whole block ahead.
LEMMA DiffAhead ==
  ASSUME IInv, Found
  PROVE  \/ DiffPromise!Ahead = AheadIn("diff")
         \/ DiffPromise!Ahead \notin WholeBlocks /\ AheadIn("diff") \notin WholeBlocks
<1>1. CASE taken["diff"] = << >>
  <2>1. image.stores[index].header \in Nat
    BY ImageTypes, GeometryAssumption DEF IInv, Offsets
  <2>2. MaxU64 \notin WholeBlocks
    BY GeometryAssumption DEF WholeBlocks, Offsets
  <2>3. \A o : o \in WholeBlocks => o <= MaxU64
    BY DEF WholeBlocks, Offsets
  <2>4. DiffPromise!Ahead = image.stores[index].header + BlockSize
    BY <1>1 DEF DiffPromise!Ahead
  <2>5. AheadIn("diff") = SatAdd(image.stores[index].header, BlockSize)
    BY <1>1 DEF AheadIn, FirstOf
  <2>6. QED
    BY <2>1, <2>2, <2>3, <2>4, <2>5, GeometryAssumption DEF SatAdd
<1>2. CASE taken["diff"] # << >>
  <2>1. taken["diff"][Len(taken["diff"])] \in WholeBlocks
    BY <1>2 DEF IInv, TypeOK, Chains
  <2>2. QED
    BY <1>2, <2>1, ChainType DEF DiffPromise!Ahead, AheadIn, IInv
<1>3. QED
  BY <1>1, <1>2

LEMMA BitmapAhead ==
  ASSUME IInv, Found
  PROVE  BitmapPromise!Ahead = AheadIn("bitmap")
<1>1. CASE taken["bitmap"] = << >>
  BY <1>1 DEF BitmapPromise!Ahead, AheadIn, FirstOf
<1>2. CASE taken["bitmap"] # << >>
  <2>1. taken["bitmap"][Len(taken["bitmap"])] \in WholeBlocks
    BY <1>2 DEF IInv, TypeOK, Chains
  <2>2. QED
    BY <1>2, <2>1, ChainType DEF BitmapPromise!Ahead, AheadIn, IInv
<1>3. QED
  BY <1>1, <1>2

\* The promise wants the block ahead unless the loop ends there, or the block
\* is of another type.
LEMMA DiffWanted ==
  ASSUME IInv, Found, next = AheadIn("diff"), Len(taken["diff"]) = blocks
  PROVE  /\ DiffPromise!Wanted <=> /\ ~LoopEnds(next, Taken("diff"), blocks, MaxStoreBlocks)
                                   /\ image.blocks[next].record_type = "diff"
         /\ DiffPromise!Wanted => DiffPromise!Ahead = next
<1>1. DiffPromise!WholeBlocks = WholeBlocks
  BY DEF DiffPromise!WholeBlocks, WholeBlocks, DiffPromise!Offsets, Offsets
<1>2. \/ DiffPromise!Ahead = next
      \/ DiffPromise!Ahead \notin WholeBlocks /\ next \notin WholeBlocks
  BY DiffAhead
<1>3. ~LoopEnds(next, Taken("diff"), blocks, MaxStoreBlocks) <=>
        /\ next # 0 /\ next \in WholeBlocks /\ blocks < MaxStoreBlocks
        /\ \A i \in 1 .. Len(taken["diff"]) : taken["diff"][i] # next
  BY LoopGoesOn DEF Chains
<1>4. next \in WholeBlocks => (Chain("diff")[next].fits <=> image.blocks[next].record_type = "diff")
  BY ChainType DEF IInv
<1>5. QED
  BY <1>1, <1>2, <1>3, <1>4 DEF DiffPromise!Wanted

LEMMA BitmapWanted ==
  ASSUME IInv, Found, next = AheadIn("bitmap"), Len(taken["bitmap"]) = blocks
  PROVE  /\ BitmapPromise!Wanted <=> /\ ~LoopEnds(next, Taken("bitmap"), blocks, MaxStoreBlocks)
                                     /\ image.blocks[next].record_type = "bitmap"
         /\ BitmapPromise!Wanted => BitmapPromise!Ahead = next
<1>1. BitmapPromise!WholeBlocks = WholeBlocks
  BY DEF BitmapPromise!WholeBlocks, WholeBlocks, BitmapPromise!Offsets, Offsets
<1>2. BitmapPromise!Ahead = next
  BY BitmapAhead
<1>3. ~LoopEnds(next, Taken("bitmap"), blocks, MaxStoreBlocks) <=>
        /\ next # 0 /\ next \in WholeBlocks /\ blocks < MaxStoreBlocks
        /\ \A i \in 1 .. Len(taken["bitmap"]) : taken["bitmap"][i] # next
  BY LoopGoesOn DEF Chains
<1>4. next \in WholeBlocks => (Chain("bitmap")[next].fits <=> image.blocks[next].record_type = "bitmap")
  BY ChainType DEF IInv
<1>5. QED
  BY <1>1, <1>2, <1>3, <1>4 DEF BitmapPromise!Wanted

\* Where a walk ends, from the loop head or at a foreign block, it was at the
\* block ahead and that is not wanted.
LEMMA EndOfChain ==
  ASSUME IInv, EndLoop \/ ReadForeign
  PROVE  /\ pc \in {"loop", "read"} /\ Found /\ next = AheadIn(walking) /\ Len(taken[walking]) = blocks
         /\ ~(/\ ~LoopEnds(next, Taken(walking), blocks, MaxStoreBlocks)
              /\ image.blocks[next].record_type = walking)
         /\ EndWalk /\ UNCHANGED <<image, index, taken, faults>>
<1>1. CASE EndLoop
  BY <1>1 DEF EndLoop, IInv, WalkInv, Refused
<1>2. CASE ReadForeign
  BY <1>2 DEF ReadForeign, IInv, WalkInv, OfChain, Here, Refused
<1>3. QED
  BY <1>1, <1>2

\* A block that is read and is of the chain is the one ahead, and wanted.
LEMMA TakeOfChain ==
  ASSUME IInv, pc = "read", OfChain(Here)
  PROVE  /\ Found /\ next = AheadIn(walking) /\ Len(taken[walking]) = blocks
         /\ ~LoopEnds(next, Taken(walking), blocks, MaxStoreBlocks)
         /\ image.blocks[next].record_type = walking
  BY DEF IInv, WalkInv, OfChain, Here, Refused

\* The chains and where they start are those of the volume at hand.
LEMMA SameVolume ==
  ASSUME [Next]_vars
  PROVE  /\ image' = image /\ index' = index /\ Found' = Found
         /\ \A type : Chain(type)' = Chain(type)
<1>1. image' = image /\ index' = index
  BY DEF Next, Step, Begin, RefuseIndex, RefuseStore, EndLoop, EnterBlock, ReadForeign,
         ReadDescriptors, ReadPiece, FileDescriptor, LeaveBlock, ReadFails, vars
<1>2. QED
  BY <1>1 DEF Found, InRange, Chain

\* A store that is refused has no chain.
LEMMA RefusedWantsNothing ==
  ASSUME IInv, RefuseIndex \/ RefuseStore
  PROVE  /\ ~DiffPromise!Wanted /\ ~BitmapPromise!Wanted
         /\ pc = "start" /\ pc' \in Refused /\ walking = "diff" /\ walking' = "diff"
         /\ UNCHANGED <<taken, faults>>
<1>1. /\ ~Found /\ pc = "start" /\ pc' \in Refused /\ walking' = walking
      /\ UNCHANGED <<taken, faults>>
  BY DEF RefuseIndex, RefuseStore, Refused, Found
<1>2. walking = "diff" /\ taken["diff"] = << >> /\ taken["bitmap"] = << >>
  BY <1>1 DEF IInv, WalkInv
<1>3. DiffPromise!Ahead = 0 /\ BitmapPromise!Ahead = 0
  BY <1>1, <1>2 DEF DiffPromise!Ahead, BitmapPromise!Ahead
<1>4. QED
  BY <1>1, <1>2, <1>3 DEF DiffPromise!Wanted, BitmapPromise!Wanted

LEMMA StepDiffPromise ==
  ASSUME IInv, [Next]_vars
  PROVE  [DiffPromise!Next]_DiffPromise!vars
<1> DEFINE first == IF Found THEN image.stores[index].header + BlockSize ELSE 0
           status == IF walking = "bitmap" \/ pc \in Refused THEN "done"
                     ELSE IF pc = "failed" THEN "failed" ELSE "walking"
           device == IF walking = "bitmap" THEN 0 ELSE faults
<1>1. first' = first /\ Chain("diff")' = Chain("diff")
  BY SameVolume
<1>2. pc # "failed" => faults = 0
  BY StoreAssumption DEF IInv, FaultInv, TypeOK
<1>3. ASSUME taken'["diff"] = taken["diff"], status' = status, device' = device
      PROVE  UNCHANGED DiffPromise!vars
  BY <1>1, <1>3 DEF DiffPromise!vars
<1>4. CASE RefuseIndex \/ RefuseStore
  <2>1. /\ ~DiffPromise!Wanted /\ status = "walking" /\ status' = "done"
        /\ taken' = taken /\ device' = device
    BY <1>4, RefusedWantsNothing DEF Refused
  <2>2. DiffPromise!Stop
    BY <1>1, <2>1 DEF DiffPromise!Stop
  <2>3. QED
    BY <2>2 DEF DiffPromise!Next
<1>5. CASE EndLoop \/ ReadForeign
  <2>1. pc \in {"loop", "read"} /\ EndWalk /\ UNCHANGED <<taken, faults>>
    BY <1>5, EndOfChain
  <2>2. CASE walking = "diff"
    <3>1. ~DiffPromise!Wanted
      BY <1>5, <2>2, EndOfChain, DiffWanted
    <3>2. /\ status = "walking" /\ status' = "done" /\ device = 0 /\ device' = 0
          /\ taken'["diff"] = taken["diff"]
      BY <1>2, <2>1, <2>2 DEF EndWalk, Refused
    <3>3. DiffPromise!Stop
      BY <1>1, <3>1, <3>2 DEF DiffPromise!Stop
    <3>4. QED
      BY <3>3 DEF DiffPromise!Next
  <2>3. CASE walking = "bitmap"
    <3>1. walking' = "bitmap"
      BY <2>1, <2>3 DEF EndWalk
    <3>2. status' = status /\ device' = device /\ taken'["diff"] = taken["diff"]
      BY <2>1, <2>3, <3>1
    <3>3. QED
      BY <1>3, <3>2
  <2>4. QED
    BY <2>2, <2>3 DEF IInv, TypeOK, Chains
<1>6. CASE ReadDescriptors
  <2>1. /\ pc = "read" /\ OfChain(Here) /\ walking = "diff" /\ walking' = "diff" /\ pc' = "records"
        /\ taken' = [taken EXCEPT !["diff"] = Append(@, next)] /\ faults' = faults
    BY <1>6 DEF ReadDescriptors
  <2>2. DiffPromise!Wanted /\ DiffPromise!Ahead = next
    BY <2>1, TakeOfChain, DiffWanted
  <2>3. taken'["diff"] = Append(taken["diff"], next)
    BY <2>1 DEF IInv, TypeOK, Chains
  <2>4. status = "walking" /\ status' = "walking" /\ device' = device
    BY <2>1 DEF Refused
  <2>5. DiffPromise!Take
    BY <1>1, <2>2, <2>3, <2>4 DEF DiffPromise!Take
  <2>6. QED
    BY <2>5 DEF DiffPromise!Next
<1>7. CASE ReadPiece
  <2>1. taken'["diff"] = taken["diff"]
    BY <1>7, TakenGrows DEF ReadPiece, IInv, Chains
  <2>2. walking = "bitmap" /\ walking' = "bitmap"
    BY <1>7 DEF ReadPiece
  <2>3. QED
    BY <1>3, <2>1, <2>2
<1>8. CASE ReadFails
  <2>1. /\ pc = "read" /\ walking' = walking /\ taken' = taken /\ faults < MaxFaults
        /\ faults' = faults + 1 /\ pc' = "failed"
    BY <1>8, FailureIsFault DEF ReadFails
  <2>2. CASE walking = "diff"
    <3>1. status = "walking" /\ status' = "failed" /\ device < MaxFaults /\ device' = device + 1
      BY <2>1, <2>2 DEF Refused
    <3>2. DiffPromise!Fail
      BY <1>1, <2>1, <3>1 DEF DiffPromise!Fail
    <3>3. QED
      BY <3>2 DEF DiffPromise!Next
  <2>3. CASE walking = "bitmap"
    BY <1>3, <2>1, <2>3
  <2>4. QED
    BY <2>2, <2>3 DEF IInv, TypeOK, Chains
<1>9. CASE Begin \/ EnterBlock \/ FileDescriptor \/ LeaveBlock
  <2>1. /\ pc \notin Ended /\ pc' \notin Ended /\ UNCHANGED <<walking, taken, faults>>
    BY <1>9 DEF Begin, EnterBlock, FileDescriptor, LeaveBlock, Ended, Refused
  <2>2. QED
    BY <1>3, <2>1 DEF Ended
<1>10. CASE UNCHANGED vars
  BY <1>3, <1>10 DEF vars
<1>11. QED
  BY <1>4, <1>5, <1>6, <1>7, <1>8, <1>9, <1>10 DEF Next, Step

LEMMA StepBitmapPromise ==
  ASSUME IInv, [Next]_vars
  PROVE  [BitmapPromise!Next]_BitmapPromise!vars
<1> DEFINE first == IF Found THEN image.stores[index].bitmap ELSE 0
           status == IF pc \in {"done"} \cup Refused THEN "done"
                     ELSE IF pc = "failed" THEN "failed" ELSE "walking"
<1>1. first' = first /\ Chain("bitmap")' = Chain("bitmap")
  BY SameVolume
<1>2. ASSUME taken'["bitmap"] = taken["bitmap"], status' = status, faults' = faults
      PROVE  UNCHANGED BitmapPromise!vars
  BY <1>1, <1>2 DEF BitmapPromise!vars
<1>3. CASE RefuseIndex \/ RefuseStore
  <2>1. /\ ~BitmapPromise!Wanted /\ status = "walking" /\ status' = "done"
        /\ taken' = taken /\ faults' = faults
    BY <1>3, RefusedWantsNothing DEF Refused
  <2>2. BitmapPromise!Stop
    BY <1>1, <2>1 DEF BitmapPromise!Stop
  <2>3. QED
    BY <2>2 DEF BitmapPromise!Next
<1>4. CASE EndLoop \/ ReadForeign
  <2>1. pc \in {"loop", "read"} /\ EndWalk /\ UNCHANGED <<taken, faults>>
    BY <1>4, EndOfChain
  <2>2. CASE walking = "diff"
    BY <1>2, <2>1, <2>2 DEF EndWalk, Refused
  <2>3. CASE walking = "bitmap"
    <3>1. ~BitmapPromise!Wanted
      BY <1>4, <2>3, EndOfChain, BitmapWanted
    <3>2. status = "walking" /\ status' = "done" /\ taken'["bitmap"] = taken["bitmap"]
      BY <2>1, <2>3 DEF EndWalk, Refused
    <3>3. BitmapPromise!Stop
      BY <1>1, <2>1, <3>1, <3>2 DEF BitmapPromise!Stop
    <3>4. QED
      BY <3>3 DEF BitmapPromise!Next
  <2>4. QED
    BY <2>2, <2>3 DEF IInv, TypeOK, Chains
<1>5. CASE ReadPiece
  <2>1. /\ pc = "read" /\ OfChain(Here) /\ walking = "bitmap" /\ pc' = "loop"
        /\ taken' = [taken EXCEPT !["bitmap"] = Append(@, next)] /\ faults' = faults
    BY <1>5 DEF ReadPiece
  <2>2. BitmapPromise!Wanted /\ BitmapPromise!Ahead = next
    BY <2>1, TakeOfChain, BitmapWanted
  <2>3. taken'["bitmap"] = Append(taken["bitmap"], next)
    BY <2>1 DEF IInv, TypeOK, Chains
  <2>4. status = "walking" /\ status' = "walking"
    BY <2>1 DEF Refused
  <2>5. BitmapPromise!Take
    BY <1>1, <2>1, <2>2, <2>3, <2>4 DEF BitmapPromise!Take
  <2>6. QED
    BY <2>5 DEF BitmapPromise!Next
<1>6. CASE ReadDescriptors
  <2>1. taken'["bitmap"] = taken["bitmap"]
    BY <1>6, TakenGrows DEF ReadDescriptors, IInv, Chains
  <2>2. pc = "read" /\ pc' = "records" /\ faults' = faults
    BY <1>6 DEF ReadDescriptors
  <2>3. QED
    BY <1>2, <2>1, <2>2 DEF Refused
<1>7. CASE ReadFails
  <2>1. /\ pc = "read" /\ taken' = taken /\ faults < MaxFaults
        /\ faults' = faults + 1 /\ pc' = "failed"
    BY <1>7, FailureIsFault DEF ReadFails
  <2>2. status = "walking" /\ status' = "failed"
    BY <2>1 DEF Refused
  <2>3. BitmapPromise!Fail
    BY <1>1, <2>1, <2>2 DEF BitmapPromise!Fail
  <2>4. QED
    BY <2>3 DEF BitmapPromise!Next
<1>8. CASE Begin \/ EnterBlock \/ FileDescriptor \/ LeaveBlock
  <2>1. /\ pc \notin Ended /\ pc' \notin Ended /\ UNCHANGED <<taken, faults>>
    BY <1>8 DEF Begin, EnterBlock, FileDescriptor, LeaveBlock, Ended, Refused
  <2>2. QED
    BY <1>2, <2>1 DEF Ended
<1>9. CASE UNCHANGED vars
  BY <1>2, <1>9 DEF vars
<1>10. QED
  BY <1>3, <1>4, <1>5, <1>6, <1>7, <1>8, <1>9 DEF Next, Step

\* build_block_map takes the blocks of its chain in order, each once and at most as
\* many as its cap, stops by itself and fails only for a fault of the device.
THEOREM DescriptorsImplementChain == Spec => DiffImplements
  BY InitPromises, StepDiffPromise, BuildInvariantHolds, PTL DEF Spec, DiffImplements, DiffPromise!Spec

\* So does build_bitmap, on a chain that may lead through the blocks of the other.
THEOREM BitmapImplementsChain == Spec => BitmapImplements
  BY InitPromises, StepBitmapPromise, BuildInvariantHolds, PTL
     DEF Spec, BitmapImplements, BitmapPromise!Spec
=============================================================================
