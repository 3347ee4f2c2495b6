-------------------------- MODULE CatalogWalkProofs --------------------------
(***************************************************************************)
(* The walk of the catalog, for every volume: it takes no block twice and  *)
(* no more than its cap, reads nothing off the volume, brings both         *)
(* pointers of a store or none, and is a walk as ChainWalk promises.       *)
(***************************************************************************)
EXTENDS CatalogWalk, CatalogEntriesProofs

\* What the assumption on images says of the image at hand.
LEMMA ImageTypes ==
  ASSUME TypeOK
  PROVE  /\ image.vss \in BOOLEAN
         /\ image.catalog_offset \in Offsets
         /\ DOMAIN image.blocks = WholeBlocks
         /\ \A o \in WholeBlocks :
              /\ image.blocks[o] \in CatalogBlock
              /\ image.blocks[o].catalog \in BOOLEAN
              /\ image.blocks[o].next \in Offsets
              /\ image.blocks[o].entries \in Seq(Entry)
<1>1. IsImage(image)
  BY DEF TypeOK
<1>2. \A o \in WholeBlocks : image.blocks[o] \in CatalogBlock
  BY <1>1 DEF IsImage
<1>3. QED
  BY <1>1, <1>2 DEF IsImage, CatalogBlock

\* A pointer entry brings two offsets.
LEMMA PointerEntry ==
  ASSUME NEW e \in Entry, e.kind = "pointer"
  PROVE  e.header \in Offsets /\ e.bitmap \in Offsets
  BY DEF Entry

\* The loop goes on only to whole blocks of the volume.
LEMMA InRangeIsWhole ==
  ASSUME NEW off \in Offsets
  PROVE  BlockInRange(off) <=> off \in WholeBlocks
  BY GeometryAssumption DEF BlockInRange, WholeBlocks, Offsets

\* So no read of the walk runs off the volume.
LEMMA NoEndOfVolume ==
  ASSUME IInv, pc = "read"
  PROVE  next \in WholeBlocks /\ ~EndOfVolume /\ next \notin Taken
         /\ next # 0 /\ blocks < MaxCatalogBlocks
<1>1. next \in Offsets /\ ~LoopEnds(next, Taken, blocks, MaxCatalogBlocks)
      /\ blocks \in Nat /\ MaxCatalogBlocks \in Nat
  BY CatalogAssumption DEF IInv, TypeOK, WalkInv
<1>2. BlockInRange(next) /\ next # 0 /\ next \notin Taken /\ blocks < MaxCatalogBlocks
  BY <1>1 DEF LoopEnds
<1>3. next \in WholeBlocks
  BY <1>1, <1>2, InRangeIsWhole
<1>4. QED
  BY <1>2, <1>3, GeometryAssumption DEF WholeBlocks, Offsets, EndOfVolume

\* Inside a block, the entry at hand is an entry.
LEMMA EntryTypes ==
  ASSUME IInv, pc = "entries"
  PROVE  /\ next \in WholeBlocks
         /\ Entries \in Seq(Entry)
         /\ entry <= Len(Entries) => Entries[entry] \in Entry /\ Entries[entry].store_id \in StoreIds
<1>1. next \in WholeBlocks /\ entry \in Nat \ {0} /\ TypeOK
  BY DEF IInv, WalkInv, TypeOK
<1>2. Entries \in Seq(Entry)
  BY <1>1, ImageTypes DEF Entries
<1>3. ASSUME entry <= Len(Entries) PROVE Entries[entry] \in Entry
  BY <1>1, <1>2, <1>3
<1>4. \A e \in Entry : e.store_id \in StoreIds
  BY DEF Entry
<1>5. QED
  BY <1>1, <1>2, <1>3, <1>4

\* A pointer changes at most one store, and gives it two offsets.
LEMMA PointerKeepsStores ==
  ASSUME IInv, TakePointer
  PROVE  /\ stores' \in Seq(Store)
         /\ Len(stores') = Len(stores)
         /\ \A k \in 1 .. Len(stores) :
              \/ stores'[k] = stores[k]
              \/ stores'[k].header \in Offsets /\ stores'[k].bitmap \in Offsets
<1> DEFINE e == Entries[entry]
           at == Max(Waiting(e.store_id))
<1>1. e \in Entry /\ e.kind = "pointer"
  BY EntryTypes DEF TakePointer
<1>2. e.header \in Offsets /\ e.bitmap \in Offsets
  BY <1>1, PointerEntry
<1>3. stores \in Seq(Store)
  BY DEF IInv, TypeOK
<1>4. CASE stores' = stores
  BY <1>3, <1>4
<1>5. CASE stores' = [stores EXCEPT ![at] = Paired(@, e)]
  <2>1. ASSUME NEW k \in 1 .. Len(stores)
        PROVE  /\ stores'[k] \in Store
               /\ \/ stores'[k] = stores[k]
                  \/ stores'[k].header \in Offsets /\ stores'[k].bitmap \in Offsets
    <3>1. stores[k] \in Store
      BY <1>3, <2>1
    <3>2. CASE k = at
      <4>1. stores'[k] = Paired(stores[k], e)
        BY <1>3, <1>5, <2>1, <3>2
      <4>2. QED
        BY <1>2, <3>1, <4>1 DEF Store, Paired
    <3>3. CASE k # at
      BY <1>3, <1>5, <2>1, <3>1, <3>3
    <3>4. QED
      BY <3>2, <3>3
  <2>2. stores' \in [1 .. Len(stores) -> Store]
    <3>1. DOMAIN stores = 1 .. Len(stores)
      BY <1>3
    <3>2. stores' = [k \in DOMAIN stores |-> IF k = at THEN Paired(stores[at], e) ELSE stores[k]]
      <4> HIDE DEF e, at
      <4>1. QED
        BY <1>5
    <3>3. stores' = [k \in 1 .. Len(stores) |-> stores'[k]]
      BY <3>1, <3>2
    <3>4. QED
      BY <2>1, <3>3
  <2>3. Len(stores) \in Nat
    BY <1>3
  <2>4. stores' \in Seq(Store) /\ Len(stores') = Len(stores)
    BY <2>2, <2>3
  <2>5. QED
    BY <2>1, <2>4
<1>6. QED
  BY <1>4, <1>5 DEF TakePointer

-----------------------------------------------------------------------------
(* The invariant.                                                          *)

LEMMA InitInv == Init => IInv
<1> SUFFICES ASSUME Init PROVE IInv
  OBVIOUS
<1>1. TypeOK
  <2>1. 0 \in Offsets /\ 0 \in 0 .. MaxCatalogBlocks /\ 0 \in 0 .. MaxFaults
    BY CatalogAssumption, GeometryAssumption DEF Offsets
  <2>2. << >> \in Seq(Store) /\ << >> \in Seq(WholeBlocks)
    OBVIOUS
  <2>3. has_vss_header \in BOOLEAN /\ visited \subseteq Offsets
    BY DEF Init, Unopened
  <2>4. QED
    BY <2>1, <2>2, <2>3, CatalogAssumption DEF Init, Unopened, TypeOK
<1>2. NoBlockTwice /\ PointersComeTogether
  <2>1. taken = << >> /\ stores = << >> /\ MaxCatalogBlocks \in Nat
    BY CatalogAssumption DEF Init, Unopened
  <2>2. QED
    BY <2>1 DEF NoBlockTwice, PointersComeTogether
<1>3. WalkInv /\ NoErrorWithoutFault
  BY DEF Init, Unopened, WalkInv, NoErrorWithoutFault
<1>4. QED
  BY <1>1, <1>2, <1>3 DEF IInv

LEMMA StepType ==
  ASSUME IInv, [Next]_vars
  PROVE  TypeOK'
<1> USE DEF IInv, TypeOK, walk
<1>1. CASE ReadHeader
  BY <1>1, ImageTypes, GeometryAssumption DEF ReadHeader, Offsets
<1>2. CASE EndLoop
  BY <1>2 DEF EndLoop
<1>3. CASE EnterBlock
  BY <1>3 DEF EnterBlock
<1>4. CASE ReadBlock
  BY <1>4, NoEndOfVolume DEF ReadBlock
<1>5. CASE TakeSnapshot
  <2>1. Entries[entry].store_id \in StoreIds
    BY <1>5, EntryTypes DEF TakeSnapshot
  <2>2. [store_id |-> Entries[entry].store_id, header |-> None, bitmap |-> None] \in Store
    BY <2>1 DEF Store
  <2>3. stores' \in Seq(Store)
    BY <1>5, <2>2 DEF TakeSnapshot
  <2>4. entry' \in Nat \ {0}
    BY <1>5 DEF TakeSnapshot
  <2>5. QED
    BY <1>5, <2>3, <2>4 DEF TakeSnapshot
<1>6. CASE TakePointer
  <2>1. stores' \in Seq(Store)
    BY <1>6, PointerKeepsStores DEF TakePointer
  <2>2. entry' \in Nat \ {0}
    BY <1>6 DEF TakePointer
  <2>3. QED
    BY <1>6, <2>1, <2>2 DEF TakePointer
<1>7. CASE SkipEntry
  BY <1>7 DEF SkipEntry
<1>8. CASE LeaveBlock
  <2>1. image.blocks[next].next \in Offsets
    BY <1>8, EntryTypes, ImageTypes DEF LeaveBlock
  <2>2. blocks + 1 \in 0 .. MaxCatalogBlocks
    BY <1>8, CatalogAssumption DEF LeaveBlock, WalkInv, NoBlockTwice
  <2>3. QED
    BY <1>8, <2>1, <2>2 DEF LeaveBlock
<1>9. CASE ReadFails
  <2>1. faults' \in 0 .. MaxFaults
    BY <1>9, CatalogAssumption DEF ReadFails
  <2>2. << >> \in Seq(Store)
    OBVIOUS
  <2>3. QED
    BY <1>9, <2>1, <2>2 DEF ReadFails
<1>10. CASE UNCHANGED vars
  BY <1>10 DEF vars
<1>11. QED
  BY <1>1, <1>2, <1>3, <1>4, <1>5, <1>6, <1>7, <1>8, <1>9, <1>10 DEF Next, Step

\* The blocks taken, when one more is.
LEMMA TakenGrows ==
  ASSUME TypeOK, NEW b, taken' = Append(taken, b)
  PROVE  /\ Taken' = Taken \cup {b}
         /\ Len(taken') = Len(taken) + 1
         /\ taken'[Len(taken')] = b
         /\ \A i \in 1 .. Len(taken) : taken'[i] = taken[i]
<1>1. taken \in Seq(WholeBlocks) /\ Len(taken) \in Nat
  BY DEF TypeOK
<1>2. /\ Len(taken') = Len(taken) + 1
      /\ taken'[Len(taken) + 1] = b
      /\ \A i \in 1 .. Len(taken) : taken'[i] = taken[i]
  BY <1>1
<1>3. Taken' = {taken'[i] : i \in 1 .. Len(taken) + 1}
  BY <1>2 DEF Taken
<1>4. 1 .. Len(taken) + 1 = (1 .. Len(taken)) \cup {Len(taken) + 1}
  BY <1>1
<1>5. QED
  BY <1>2, <1>3, <1>4 DEF Taken

LEMMA StepWalk ==
  ASSUME IInv, [Next]_vars
  PROVE  WalkInv'
<1> USE DEF walk
<1>1. CASE ReadHeader
  <2>1. taken' = << >> /\ visited' = {} /\ blocks' = 0 /\ image' = image
    BY <1>1 DEF ReadHeader, IInv, WalkInv
  <2>2. Taken' = {}
    BY <2>1 DEF Taken
  <2>3. pc' = "loop" => next' = Ahead'
    BY <1>1, <2>1 DEF ReadHeader, Ahead, First
  <2>4. pc' \in {"loop", "done"} /\ Len(taken') = 0
    BY <1>1, <2>1 DEF ReadHeader
  <2>5. QED
    BY <2>1, <2>2, <2>3, <2>4 DEF WalkInv
<1>2. CASE EndLoop
  BY <1>2 DEF EndLoop, WalkInv
<1>3. CASE EnterBlock
  <2>1. UNCHANGED <<image, next, blocks, taken>> /\ pc' = "read" /\ visited' = visited \cup {next}
    BY <1>3 DEF EnterBlock
  <2>2. visited = Taken /\ next = Ahead /\ Len(taken) = blocks
    BY <1>3 DEF EnterBlock, IInv, WalkInv
  <2>3. ~LoopEnds(next, Taken, blocks, MaxCatalogBlocks)
    BY <1>3, <2>2 DEF EnterBlock
  <2>4. Taken' = Taken /\ Ahead' = Ahead
    BY <2>1 DEF Taken, Ahead, First
  <2>5. QED
    BY <2>1, <2>2, <2>3, <2>4 DEF WalkInv, LoopEnds
<1>4. CASE ReadBlock
  <2>1. CASE image.blocks[next].catalog
    <3>1. /\ taken' = Append(taken, next) /\ pc' = "entries"
          /\ UNCHANGED <<image, next, visited, blocks>>
      BY <1>4, <2>1 DEF ReadBlock
    <3>2. visited = Taken \cup {next} /\ Len(taken) = blocks /\ next \in WholeBlocks
      BY <1>4, NoEndOfVolume DEF ReadBlock, IInv, WalkInv
    <3>3. Taken' = Taken \cup {next} /\ Len(taken') = blocks + 1 /\ taken'[Len(taken')] = next
      BY <3>1, <3>2, TakenGrows DEF IInv
    <3>4. WholeBlocks' = WholeBlocks
      OBVIOUS
    <3>5. QED
      BY <3>1, <3>2, <3>3, <3>4 DEF WalkInv
  <2>2. CASE ~image.blocks[next].catalog
    BY <1>4, <2>2 DEF ReadBlock, WalkInv
  <2>3. QED
    BY <2>1, <2>2
<1>5. CASE TakeSnapshot \/ TakePointer \/ SkipEntry
  <2>1. UNCHANGED <<image, pc, next, visited, blocks, taken>>
    BY <1>5 DEF TakeSnapshot, TakePointer, SkipEntry
  <2>2. QED
    BY <2>1 DEF IInv, WalkInv, Taken, Ahead, First
<1>6. CASE LeaveBlock
  <2>1. /\ visited = Taken /\ next = taken[Len(taken)] /\ Len(taken) = blocks + 1
        /\ blocks' = blocks + 1 /\ next' = image.blocks[next].next /\ pc' = "loop"
        /\ UNCHANGED <<image, visited, taken>>
    BY <1>6 DEF LeaveBlock, IInv, WalkInv
  <2>2. taken # << >>
    BY <2>1 DEF IInv, TypeOK
  <2>3. next' = Ahead' /\ Taken' = Taken
    BY <2>1, <2>2 DEF Ahead, Taken
  <2>4. QED
    BY <2>1, <2>3 DEF WalkInv
<1>7. CASE ReadFails
  BY <1>7 DEF ReadFails, WalkInv
<1>8. CASE UNCHANGED vars
  BY <1>8 DEF vars, IInv, WalkInv, Taken, Ahead, First
<1>9. QED
  BY <1>1, <1>2, <1>3, <1>4, <1>5, <1>6, <1>7, <1>8 DEF Next, Step

LEMMA StepTaken ==
  ASSUME IInv, [Next]_vars
  PROVE  NoBlockTwice'
<1>1. CASE ReadBlock /\ image.blocks[next].catalog
  <2>1. taken' = Append(taken, next) /\ next \notin Taken
    BY <1>1, NoEndOfVolume DEF ReadBlock
  <2>2. Len(taken) = blocks /\ blocks < MaxCatalogBlocks /\ blocks \in Nat /\ MaxCatalogBlocks \in Nat
    BY <1>1, NoEndOfVolume, CatalogAssumption DEF ReadBlock, IInv, WalkInv, TypeOK
  <2>3. /\ Len(taken') = Len(taken) + 1
        /\ taken'[Len(taken')] = next
        /\ \A i \in 1 .. Len(taken) : taken'[i] = taken[i]
    BY <2>1, TakenGrows DEF IInv
  <2>4. ASSUME NEW i \in 1 .. Len(taken'), NEW j \in 1 .. Len(taken'), taken'[i] = taken'[j]
        PROVE  i = j
    <3>1. \A k \in 1 .. Len(taken) : taken'[k] # next
      BY <2>1, <2>3 DEF Taken
    <3>2. \A k \in 1 .. Len(taken') : k \in 1 .. Len(taken) \/ k = Len(taken')
      BY <2>2, <2>3
    <3>3. QED
      BY <2>3, <2>4, <3>1, <3>2 DEF IInv, NoBlockTwice
  <2>5. QED
    BY <2>2, <2>3, <2>4 DEF NoBlockTwice
<1>2. CASE UNCHANGED taken
  BY <1>2 DEF IInv, NoBlockTwice
<1>3. QED
  BY <1>1, <1>2 DEF Next, Step, ReadHeader, EndLoop, EnterBlock, ReadBlock, TakeSnapshot,
                    TakePointer, SkipEntry, LeaveBlock, ReadFails, vars

LEMMA StepPointers ==
  ASSUME IInv, [Next]_vars
  PROVE  PointersComeTogether'
<1>1. stores \in Seq(Store) /\ PointersComeTogether
  BY DEF IInv, TypeOK
<1>2. CASE TakeSnapshot
  <2>1. /\ Len(stores') = Len(stores) + 1
        /\ \A k \in 1 .. Len(stores) : stores'[k] = stores[k]
        /\ stores'[Len(stores) + 1].header = None /\ stores'[Len(stores) + 1].bitmap = None
    BY <1>1, <1>2 DEF TakeSnapshot
  <2>2. Len(stores) \in Nat
    BY <1>1
  <2>3. \A k \in 1 .. Len(stores') : k \in 1 .. Len(stores) \/ k = Len(stores) + 1
    BY <2>1, <2>2
  <2>4. QED
    BY <1>1, <2>1, <2>3 DEF PointersComeTogether
<1>3. CASE TakePointer
  BY <1>1, <1>3, PointerKeepsStores, CatalogAssumption DEF PointersComeTogether
<1>4. CASE ReadFails
  <2>1. stores' = << >>
    BY <1>4 DEF ReadFails
  <2>2. QED
    BY <2>1 DEF PointersComeTogether
<1>5. CASE UNCHANGED stores
  BY <1>1, <1>5 DEF PointersComeTogether
<1>6. QED
  BY <1>2, <1>3, <1>4, <1>5 DEF Next, Step, ReadHeader, EndLoop, EnterBlock, ReadBlock,
                                SkipEntry, LeaveBlock, vars

\* Only the device makes a step fail: while a block is read it is a whole one.
LEMMA FailureIsFault ==
  ASSUME IInv, ReadFails
  PROVE  faults < MaxFaults /\ faults' = faults + 1
<1>1. ~(pc = "read" /\ EndOfVolume)
  BY NoEndOfVolume
<1>2. QED
  BY <1>1 DEF ReadFails

LEMMA StepErrors ==
  ASSUME IInv, [Next]_vars
  PROVE  NoErrorWithoutFault'
<1>1. faults \in Nat
  BY CatalogAssumption DEF IInv, TypeOK
<1>2. CASE ReadFails
  BY <1>1, <1>2, FailureIsFault DEF NoErrorWithoutFault
<1>3. CASE Step
  <2>1. pc' # "failed"
    BY <1>3 DEF Step, ReadHeader, EndLoop, EnterBlock, ReadBlock, TakeSnapshot, TakePointer,
                SkipEntry, LeaveBlock
  <2>2. QED
    BY <2>1 DEF NoErrorWithoutFault
<1>4. CASE UNCHANGED vars
  BY <1>4 DEF vars, IInv, NoErrorWithoutFault
<1>5. QED
  BY <1>2, <1>3, <1>4 DEF Next

\* The inductive invariant of the walk.
THEOREM WalkInvariantHolds == Spec => []IInv
<1>1. IInv /\ [Next]_vars => IInv'
  BY StepType, StepWalk, StepTaken, StepPointers, StepErrors DEF IInv
<1>2. QED
  BY InitInv, <1>1, PTL DEF Spec

\* The walk is type correct: it counts no further than its cap and its offsets are
\* u64, whatever the volume holds.
THEOREM WalkTypeCorrect == Spec => []TypeOK
<1>1. IInv => TypeOK
  BY DEF IInv
<1>2. QED
  BY <1>1, WalkInvariantHolds, PTL

\* However the pointers of the catalog run (cycles, wild offsets), no block is
\* decoded twice and no more than MAX_CATALOG_BLOCKS are.
THEOREM WalkIsBounded == Spec => []NoBlockTwice
<1>1. IInv => NoBlockTwice
  BY DEF IInv
<1>2. QED
  BY <1>1, WalkInvariantHolds, PTL

\* A store that has a header offset has the bitmap offset of the same entry, as
\* snapshot_state relies on.
THEOREM PointersTogether == Spec => []PointersComeTogether
<1>1. IInv => PointersComeTogether
  BY DEF IInv
<1>2. QED
  BY <1>1, WalkInvariantHolds, PTL

\* What a volume holds never makes open return VssError::Io; only the device does.
THEOREM OpenErrorsAreFaults == Spec => []NoErrorWithoutFault
<1>1. IInv => NoErrorWithoutFault
  BY DEF IInv
<1>2. QED
  BY <1>1, WalkInvariantHolds, PTL


-----------------------------------------------------------------------------
(* The walk implements ChainWalk.                                          *)

LEMMA InitPromise == Init => Promise!Init
<1> SUFFICES ASSUME Init PROVE Promise!Init
  OBVIOUS
<1>1. IInv
  BY InitInv
<1>2. First \in Nat
  BY <1>1, ImageTypes, GeometryAssumption DEF IInv, First, Offsets
<1>3. Catalog \in [Promise!WholeBlocks -> [fits: BOOLEAN, next: Promise!Offsets]]
  <2>1. Promise!WholeBlocks = WholeBlocks /\ Promise!Offsets = Offsets
    BY DEF Promise!WholeBlocks, WholeBlocks, Promise!Offsets, Offsets
  <2>2. \A o \in WholeBlocks : image.blocks[o].catalog \in BOOLEAN /\ image.blocks[o].next \in Offsets
    BY <1>1, ImageTypes DEF IInv
  <2>3. Catalog \in [WholeBlocks -> [fits: BOOLEAN, next: Offsets]]
    BY <2>2 DEF Catalog
  <2>4. QED
    BY <2>1, <2>3
<1>4. QED
  BY <1>2, <1>3 DEF Init, Unopened, Promise!Init, Status

\* While it is inside the loop, the walk is at the block the promise is at.
LEMMA SameAhead ==
  ASSUME IInv
  PROVE  Promise!Ahead = Ahead
<1>1. CASE taken = << >>
  BY <1>1 DEF Promise!Ahead, Ahead
<1>2. CASE taken # << >>
  <2>1. taken[Len(taken)] \in WholeBlocks
    BY <1>2 DEF IInv, TypeOK
  <2>2. QED
    BY <1>2, <2>1 DEF Promise!Ahead, Ahead, Catalog
<1>3. QED
  BY <1>1, <1>2

\* The promise wants the block ahead unless the loop ends there, or the block
\* is of another kind.
LEMMA WantedMeaning ==
  ASSUME IInv, next = Ahead, Len(taken) = blocks
  PROVE  Promise!Wanted <=>
           ~LoopEnds(next, Taken, blocks, MaxCatalogBlocks) /\ image.blocks[next].catalog
<1>1. next \in Offsets /\ blocks \in Nat /\ MaxCatalogBlocks \in Nat
  BY CatalogAssumption DEF IInv, TypeOK
<1>2. BlockInRange(next) <=> next \in WholeBlocks
  BY <1>1, InRangeIsWhole
<1>3. (\A i \in 1 .. Len(taken) : taken[i] # next) <=> next \notin Taken
  BY DEF Taken
<1>4. next \in WholeBlocks => Catalog[next].fits = image.blocks[next].catalog
  BY DEF Catalog
<1>5. Promise!WholeBlocks = WholeBlocks
  BY DEF Promise!WholeBlocks, WholeBlocks, Promise!Offsets, Offsets
<1>6. ~LoopEnds(next, Taken, blocks, MaxCatalogBlocks) <=>
        next # 0 /\ blocks < MaxCatalogBlocks /\ next \notin Taken /\ next \in WholeBlocks
  BY <1>1, <1>2 DEF LoopEnds
<1>7. Promise!Wanted <=>
        /\ next # 0 /\ next \in WholeBlocks
        /\ \A i \in 1 .. Len(taken) : taken[i] # next
        /\ blocks < MaxCatalogBlocks
        /\ Catalog[next].fits
  BY <1>5, SameAhead DEF Promise!Wanted
<1>8. QED
  BY <1>3, <1>4, <1>6, <1>7

LEMMA StepPromise ==
  ASSUME IInv, [Next]_vars
  PROVE  [Promise!Next]_Promise!vars
<1> USE DEF walk
<1>1. image' = image => UNCHANGED <<First, Catalog>>
  BY DEF First, Catalog
<1>2. CASE ReadHeader
  <2>1. UNCHANGED <<taken, faults>> /\ image' = image /\ pc = "header" /\ taken = << >>
    BY <1>2 DEF ReadHeader, IInv, WalkInv
  <2>2. CASE pc' = "loop"
    BY <1>1, <2>1, <2>2 DEF Promise!vars, Status
  <2>3. CASE pc' = "done"
    <3>1. First = 0
      BY <1>2, <2>3 DEF ReadHeader, First
    <3>2. ~Promise!Wanted
      BY <2>1, <3>1, SameAhead DEF Promise!Wanted, Ahead
    <3>3. QED
      BY <1>1, <2>1, <2>3, <3>2 DEF Promise!Next, Promise!Stop, Status
  <2>4. QED
    BY <1>2, <2>2, <2>3 DEF ReadHeader
<1>3. CASE EndLoop
  <2>1. pc = "loop" /\ pc' = "done" /\ UNCHANGED <<image, taken, faults>>
    BY <1>3 DEF EndLoop
  <2>2. next = Ahead /\ Len(taken) = blocks /\ visited = Taken
    BY <2>1 DEF IInv, WalkInv
  <2>3. ~Promise!Wanted
    BY <1>3, <2>2, WantedMeaning DEF EndLoop
  <2>4. QED
    BY <1>1, <2>1, <2>3 DEF Promise!Next, Promise!Stop, Status
<1>4. CASE ReadBlock
  <2>1. pc = "read" /\ UNCHANGED <<image, faults>>
    BY <1>4 DEF ReadBlock
  <2>2. next = Ahead /\ Len(taken) = blocks /\ ~LoopEnds(next, Taken, blocks, MaxCatalogBlocks)
    BY <2>1 DEF IInv, WalkInv
  <2>3. CASE image.blocks[next].catalog
    <3>1. Promise!Wanted /\ Promise!Ahead = next
      BY <2>2, <2>3, WantedMeaning, SameAhead
    <3>2. taken' = Append(taken, next) /\ pc' = "entries"
      BY <1>4, <2>3 DEF ReadBlock
    <3>3. QED
      BY <1>1, <2>1, <3>1, <3>2 DEF Promise!Next, Promise!Take, Status
  <2>4. CASE ~image.blocks[next].catalog
    <3>1. ~Promise!Wanted
      BY <2>2, <2>4, WantedMeaning
    <3>2. taken' = taken /\ pc' = "done"
      BY <1>4, <2>4 DEF ReadBlock
    <3>3. QED
      BY <1>1, <2>1, <3>1, <3>2 DEF Promise!Next, Promise!Stop, Status
  <2>5. QED
    BY <2>3, <2>4
<1>5. CASE EnterBlock \/ TakeSnapshot \/ TakePointer \/ SkipEntry \/ LeaveBlock
  <2>1. /\ UNCHANGED <<image, taken, faults>>
        /\ pc \notin {"done", "failed"} /\ pc' \notin {"done", "failed"}
    BY <1>5 DEF EnterBlock, TakeSnapshot, TakePointer, SkipEntry, LeaveBlock
  <2>2. QED
    BY <1>1, <2>1 DEF Promise!vars, Status
<1>6. CASE ReadFails
  <2>1. pc \in {"header", "read"} /\ pc' = "failed" /\ UNCHANGED <<image, taken>>
    BY <1>6 DEF ReadFails
  <2>2. faults < MaxFaults /\ faults' = faults + 1
    BY <1>6, FailureIsFault
  <2>3. QED
    BY <1>1, <2>1, <2>2 DEF Promise!Next, Promise!Fail, Status
<1>7. CASE UNCHANGED vars
  BY <1>1, <1>7 DEF vars, Promise!vars, Status
<1>8. QED
  BY <1>2, <1>3, <1>4, <1>5, <1>6, <1>7 DEF Next, Step

\* walk_catalog takes the blocks of its chain in order, stops by itself where the
\* chain, the cap, a visited or a foreign block or the volume says so, and nowhere
\* else, and fails only for a fault of the device.
THEOREM WalkImplementsPromise == Spec => Implements
  BY InitPromise, StepPromise, WalkInvariantHolds, PTL DEF Spec, Implements, Promise!Spec

-----------------------------------------------------------------------------
(* Each store has the offsets of its own pointer.                          *)

\* The entries taken of the block at i of the walk.
Piece(i) ==
  LET all == image.blocks[taken[i]].entries
  IN  IF pc = "entries" /\ i = Len(taken) THEN SubSeq(all, 1, entry - 1) ELSE all

Pieces == [i \in DOMAIN taken |-> Piece(i)]

\* The walk is inside the block at hand, the entries behind it read as brackets,
\* and the stores are what they say.
OwnInv ==
  /\ pc = "entries" => entry <= Len(Entries) + 1
  /\ pc # "failed" => Balanced(Decoded, Len(Decoded)) /\ stores = StoresOf(Decoded)

\* The first entries of a list are a list, and the next one comes after them.
LEMMA FirstEntries ==
  ASSUME NEW E, NEW s \in Seq(E), NEW k \in 1 .. Len(s) + 1
  PROVE  /\ SubSeq(s, 1, k - 1) \in Seq(E) /\ Len(SubSeq(s, 1, k - 1)) = k - 1
         /\ k = 1 => SubSeq(s, 1, k - 1) = << >>
         /\ k = Len(s) + 1 => SubSeq(s, 1, k - 1) = s
<1>1. Len(s) \in Nat /\ k - 1 \in 0 .. Len(s)
  OBVIOUS
<1>2. SubSeq(s, 1, k - 1) \in Seq(E) /\ Len(SubSeq(s, 1, k - 1)) = k - 1
  BY <1>1
<1>3. ASSUME k = 1 PROVE SubSeq(s, 1, k - 1) = << >>
  BY <1>2, <1>3
<1>4. ASSUME k = Len(s) + 1 PROVE SubSeq(s, 1, k - 1) = s
  BY <1>1, <1>2, <1>4
<1>5. QED
  BY <1>2, <1>3, <1>4

LEMMA OneMoreFirst ==
  ASSUME NEW E, NEW s \in Seq(E), NEW k \in 1 .. Len(s)
  PROVE  OneMore(SubSeq(s, 1, k), SubSeq(s, 1, k - 1), s[k], k - 1)
<1>1. Len(s) \in Nat /\ k - 1 \in 0 .. Len(s) /\ k \in 0 .. Len(s) /\ k - 1 + 1 = k
  OBVIOUS
<1>2. /\ DOMAIN SubSeq(s, 1, k) = 1 .. k /\ \A i \in 1 .. k : SubSeq(s, 1, k)[i] = s[i]
      /\ DOMAIN SubSeq(s, 1, k - 1) = 1 .. k - 1
      /\ \A i \in 1 .. k - 1 : SubSeq(s, 1, k - 1)[i] = s[i]
  BY <1>1
<1>3. k \in 1 .. k /\ \A i \in 1 .. k - 1 : i \in 1 .. k
  OBVIOUS
<1>4. QED
  BY <1>1, <1>2, <1>3 DEF OneMore

\* What is decoded is a list of entries.
LEMMA DecodedTypes ==
  ASSUME IInv, OwnInv
  PROVE  /\ Len(taken) \in Nat /\ Lists(Pieces, Entry, Len(taken))
         /\ Decoded = FlattenSeq(Pieces)
         /\ Decoded \in Seq(Entry)
         /\ Len(Decoded) \in Nat /\ DOMAIN Decoded = 1 .. Len(Decoded)
<1>1. taken \in Seq(WholeBlocks) /\ Len(taken) \in Nat /\ DOMAIN taken = 1 .. Len(taken)
  BY DEF IInv, TypeOK
<1>2. ASSUME NEW i \in 1 .. Len(taken)
      PROVE  Piece(i) \in Seq(Entry)
  <2>1. taken[i] \in WholeBlocks
    BY <1>1
  <2>2. image.blocks[taken[i]].entries \in Seq(Entry)
    BY <2>1, ImageTypes DEF IInv
  <2>3. CASE pc = "entries" /\ i = Len(taken)
    <3>1. image.blocks[taken[i]].entries = Entries /\ entry \in Nat \ {0} /\ entry <= Len(Entries) + 1
      BY <2>3 DEF IInv, WalkInv, TypeOK, OwnInv, Entries
    <3>2. entry \in 1 .. Len(Entries) + 1 /\ Entries \in Seq(Entry)
      BY <2>2, <3>1
    <3>3. SubSeq(Entries, 1, entry - 1) \in Seq(Entry)
      BY <3>2, FirstEntries
    <3>4. QED
      BY <2>3, <3>1, <3>3 DEF Piece
  <2>4. CASE ~(pc = "entries" /\ i = Len(taken))
    BY <2>2, <2>4 DEF Piece
  <2>5. QED
    BY <2>3, <2>4
<1>3. Pieces \in Seq(Seq(Entry)) /\ Len(Pieces) = Len(taken)
  BY <1>1, <1>2 DEF Pieces
<1>4. Lists(Pieces, Entry, Len(taken))
  BY <1>3 DEF Lists
<1>5. Decoded = FlattenSeq(Pieces)
  BY DEF Decoded, Pieces, Piece
<1>6. Decoded \in Seq(Entry)
  BY <1>1, <1>4, <1>5, FlattenType
<1>7. QED
  BY <1>1, <1>4, <1>5, <1>6

\* Outside the entries of a block, nothing more is decoded.
LEMMA OtherDecoded ==
  ASSUME IInv, OwnInv,
         ReadHeader \/ EndLoop \/ EnterBlock \/ ReadBlock \/ LeaveBlock \/ UNCHANGED vars
  PROVE  Decoded' = Decoded
<1> USE DEF walk
<1>1. Decoded = FlattenSeq(Pieces) /\ Decoded' = FlattenSeq(Pieces')
  BY DEF Decoded, Pieces, Piece
<1>2. CASE UNCHANGED vars
  BY <1>2 DEF vars, Decoded
<1>3. CASE \/ ReadHeader \/ EndLoop \/ EnterBlock
           \/ ReadBlock /\ ~image.blocks[next].catalog
  <2>1. UNCHANGED <<image, taken>> /\ pc # "entries" /\ pc' # "entries"
    BY <1>3 DEF ReadHeader, EndLoop, EnterBlock, ReadBlock
  <2>2. QED
    BY <1>1, <2>1 DEF Pieces, Piece
<1>4. CASE LeaveBlock
  <2>1. /\ UNCHANGED <<image, taken>> /\ pc = "entries" /\ pc' # "entries"
        /\ entry > Len(Entries) /\ entry <= Len(Entries) + 1
    BY <1>4 DEF LeaveBlock, OwnInv
  <2>2. Entries \in Seq(Entry) /\ entry \in 1 .. Len(Entries) + 1 /\ entry = Len(Entries) + 1
    BY <2>1, EntryTypes DEF IInv, TypeOK
  <2>3. SubSeq(Entries, 1, entry - 1) = Entries
    BY <2>2, FirstEntries
  <2>4. Entries = image.blocks[taken[Len(taken)]].entries
    BY <2>1 DEF Entries, IInv, WalkInv
  <2>5. Pieces' = Pieces
    BY <2>1, <2>3, <2>4 DEF Pieces, Piece
  <2>6. QED
    BY <1>1, <2>5
<1>5. CASE ReadBlock /\ image.blocks[next].catalog
  <2>0. PICK l \in Nat : l = Len(taken)
    BY DecodedTypes
  <2>1. PICK p, q : l = Len(taken) /\ p = Pieces /\ q = Pieces'
    BY <2>0
  <2>2. /\ taken' = Append(taken, next) /\ pc # "entries" /\ entry' = 1 /\ image' = image
        /\ next \in WholeBlocks
    BY <1>5, NoEndOfVolume DEF ReadBlock
  <2>3. /\ Len(taken') = l + 1 /\ taken'[l + 1] = next
        /\ \A i \in 1 .. l : taken'[i] = taken[i]
    BY <2>1, <2>2, TakenGrows DEF IInv
  <2>4. DOMAIN taken = 1 .. l /\ DOMAIN taken' = 1 .. l + 1
    BY <2>1, <2>2 DEF IInv, TypeOK
  <2>5. \A i \in 1 .. l + 1 :
          q[i] = IF pc' = "entries" /\ i = l + 1
                 THEN SubSeq(image.blocks[taken'[i]].entries, 1, 0)
                 ELSE image.blocks[taken'[i]].entries
    BY <2>1, <2>2, <2>3, <2>4 DEF Pieces, Piece
  <2>6. \A i \in 1 .. l : p[i] = image.blocks[taken[i]].entries
    BY <2>1, <2>2, <2>4 DEF Pieces, Piece
  <2>7. q[l + 1] = << >>
    <3>1. PICK s \in Seq(Entry) : s = image.blocks[next].entries
      BY <2>2, ImageTypes DEF IInv
    <3>2. SubSeq(s, 1, 0) = << >>
      OBVIOUS
    <3>3. pc' = "entries" /\ l + 1 \in 1 .. l + 1
      BY <1>5 DEF ReadBlock
    <3>4. QED
      BY <2>3, <2>5, <3>1, <3>2, <3>3
  <2>8. OneMore(q, p, << >>, l)
    <3>1. DOMAIN p = 1 .. l /\ DOMAIN q = 1 .. l + 1
      BY <2>1, <2>4 DEF Pieces
    <3>2. \A i \in 1 .. l : i \in 1 .. l + 1 /\ i # l + 1
      OBVIOUS
    <3>3. \A i \in 1 .. l : q[i] = p[i]
      BY <2>3, <2>5, <2>6, <3>2
    <3>4. QED
      BY <2>7, <3>1, <3>3 DEF OneMore
  <2>9. Lists(p, Entry, l) /\ Lists(q, Entry, l + 1)
    <3>1. Lists(p, Entry, l)
      BY <2>1, DecodedTypes
    <3>2. << >> \in Seq(Entry) /\ q = [i \in DOMAIN q |-> q[i]]
      BY <2>1 DEF Pieces
    <3>3. QED
      BY <2>8, <3>1, <3>2, ListsNext
  <2>10. FlattenSeq(q) = Joined(FlattenSeq(p), << >>)
    BY <2>8, <2>9, FlattenNext
  <2>11. FlattenSeq(p) \in Seq(Entry)
    BY <2>9, FlattenType
  <2>12. QED
    BY <1>1, <2>1, <2>10, <2>11, JoinedEmpty
<1>6. QED
  BY <1>2, <1>3, <1>4, <1>5

\* An entry step decodes the entry at hand after the others.
LEMMA EntryDecoded ==
  ASSUME IInv, OwnInv, TakeSnapshot \/ TakePointer \/ SkipEntry
  PROVE  /\ OneMore(Decoded', Decoded, Entries[entry], Len(Decoded))
         /\ Decoded' \in Seq(Entry)
<1> USE DEF walk
<1>1. /\ UNCHANGED <<image, pc, next, taken>> /\ pc = "entries"
      /\ entry' = entry + 1 /\ entry <= Len(Entries)
  BY DEF TakeSnapshot, TakePointer, SkipEntry
<1>2. Decoded = FlattenSeq(Pieces) /\ Decoded' = FlattenSeq(Pieces')
  BY DEF Decoded, Pieces, Piece
<1>3. /\ Len(taken) \in Nat /\ Len(taken) # 0 /\ DOMAIN taken = 1 .. Len(taken)
      /\ taken[Len(taken)] = next
  BY <1>1, CatalogAssumption DEF IInv, TypeOK, WalkInv
<1>4. PICK l \in Nat : Len(taken) = l + 1
  <2>1. Len(taken) - 1 \in Nat /\ (Len(taken) - 1) + 1 = Len(taken)
    BY <1>3
  <2>2. QED
    BY <2>1
<1>5. PICK p, q : p = Pieces /\ q = Pieces'
  OBVIOUS
<1>5a. PICK all \in Seq(Entry) : all = Entries
  BY <1>1, EntryTypes
<1>6. PICK k \in 1 .. Len(all) : k = entry /\ all = Entries
  <2>1. entry \in Nat \ {0} /\ Len(all) \in Nat
    BY DEF IInv, TypeOK
  <2>2. entry \in 1 .. Len(all)
    BY <1>5a, <1>1, <2>1
  <2>3. QED
    BY <1>5a, <2>2
<1> DEFINE before == [i \in 1 .. l |-> image.blocks[taken[i]].entries]
           head == SubSeq(all, 1, k - 1)
           longer == SubSeq(all, 1, k)
<1>7. Lists(before, Entry, l)
  <2>1. \A i \in 1 .. l : taken[i] \in WholeBlocks
    BY <1>4 DEF IInv, TypeOK
  <2>2. \A i \in 1 .. l : image.blocks[taken[i]].entries \in Seq(Entry)
    BY <2>1, ImageTypes DEF IInv
  <2>3. before \in Seq(Seq(Entry)) /\ Len(before) = l
    BY <2>2
  <2>4. QED
    BY <2>3 DEF Lists
<1>8. OneMore(p, before, head, l)
  <2>1. DOMAIN p = 1 .. l + 1 /\ \A i \in 1 .. l + 1 : p[i] = Piece(i)
    BY <1>3, <1>4, <1>5 DEF Pieces
  <2>2. l + 1 \in 1 .. l + 1 /\ \A i \in 1 .. l : i \in 1 .. l + 1 /\ i # l + 1
    OBVIOUS
  <2>3. Piece(l + 1) = head
    BY <1>1, <1>3, <1>4, <1>6 DEF Piece, Entries
  <2>4. \A i \in 1 .. l : Piece(i) = before[i]
    BY <1>4, <2>2 DEF Piece
  <2> HIDE DEF before, head
  <2>5. DOMAIN before = 1 .. l
    BY DEF before
  <2>6. QED
    BY <2>1, <2>2, <2>3, <2>4, <2>5 DEF OneMore
<1>9. OneMore(q, before, longer, l)
  <2>1. DOMAIN q = 1 .. l + 1 /\ \A i \in 1 .. l + 1 : q[i] = Piece(i)'
    BY <1>1, <1>3, <1>4, <1>5 DEF Pieces
  <2>2. l + 1 \in 1 .. l + 1 /\ \A i \in 1 .. l : i \in 1 .. l + 1 /\ i # l + 1
    OBVIOUS
  <2>3. Piece(l + 1)' = longer
    <3>1. entry' - 1 = k
      BY <1>1, <1>6
    <3>2. QED
      BY <1>1, <1>3, <1>4, <1>6, <3>1 DEF Piece, Entries
  <2>4. \A i \in 1 .. l : Piece(i)' = before[i]
    BY <1>1, <1>4, <2>2 DEF Piece
  <2> HIDE DEF before, longer
  <2>5. DOMAIN before = 1 .. l
    BY DEF before
  <2>6. QED
    BY <2>1, <2>2, <2>3, <2>4, <2>5 DEF OneMore
<1>10. /\ head \in Seq(Entry) /\ Len(head) = k - 1
       /\ longer \in Seq(Entry) /\ OneMore(longer, head, all[k], k - 1)
  <2>1. k \in 1 .. Len(all) + 1 /\ k + 1 \in 1 .. Len(all) + 1 /\ (k + 1) - 1 = k
    OBVIOUS
  <2>2. SubSeq(all, 1, (k + 1) - 1) \in Seq(Entry)
    BY <2>1, FirstEntries
  <2>3. QED
    BY <2>1, <2>2, FirstEntries, OneMoreFirst
<1> HIDE DEF before, head, longer
<1>11. Lists(p, Entry, l + 1) /\ Lists(q, Entry, l + 1)
  <2>1. p = [i \in DOMAIN p |-> p[i]] /\ q = [i \in DOMAIN q |-> q[i]]
    BY <1>5 DEF Pieces
  <2>2. QED
    BY <1>7, <1>8, <1>9, <1>10, <2>1, ListsNext
<1>12. /\ FlattenSeq(p) = Joined(FlattenSeq(before), head)
       /\ FlattenSeq(q) = Joined(FlattenSeq(before), longer)
  BY <1>7, <1>8, <1>9, <1>11, FlattenNext
<1>13. FlattenSeq(before) \in Seq(Entry)
  BY <1>7, FlattenType
<1>14. OneMore(longer, head, all[k], Len(head))
  BY <1>10
<1>15. /\ Joined(FlattenSeq(before), longer) \in Seq(Entry)
       /\ OneMore(Joined(FlattenSeq(before), longer), Joined(FlattenSeq(before), head), all[k],
                  Len(Joined(FlattenSeq(before), head)))
  BY <1>10, <1>13, <1>14, JoinedNext
<1>16. QED
  BY <1>2, <1>5, <1>6, <1>12, <1>15

\* Decoding starts with nothing.
LEMMA InitOwn == Init => OwnInv
<1> SUFFICES ASSUME Init PROVE OwnInv
  OBVIOUS
<1>1. pc = "header" /\ stores = << >> /\ taken = << >>
  BY DEF Init, Unopened
<1>2. Decoded = FlattenSeq(Pieces)
  BY DEF Decoded, Pieces, Piece
<1>3. Pieces = << >>
  BY <1>1 DEF Pieces
<1>4. Decoded = << >>
  BY <1>2, <1>3, FlattenEmpty
<1>5. Len(Decoded) = 0
  BY <1>4
<1>6. PICK e : e = << >> /\ e = Decoded /\ Len(e) = 0
  BY <1>4, <1>5
<1>7. Balanced(Decoded, Len(Decoded))
  BY <1>4, <1>5, BalancedEmpty
<1>8. StoresOf(Decoded) = << >>
  <2>1. SnapshotPlaces(<< >>) = {}
    BY DEF SnapshotPlaces
  <2>2. Cardinality(SnapshotPlaces(<< >>)) = 0
    BY <2>1, FS_EmptySet
  <2>3. StoresOf(<< >>) = << >>
    BY <2>2 DEF StoresOf
  <2>4. QED
    BY <1>4, <2>3
<1>9. QED
  BY <1>1, <1>7, <1>8 DEF OwnInv

LEMMA PairedIs ==
  ASSUME NEW store \in Store, NEW e
  PROVE  Paired(store, e) = [store_id |-> store.store_id, header |-> e.header, bitmap |-> e.bitmap]
<1>1. PICK id, h, b : id = store.store_id /\ h = store.header /\ b = store.bitmap
  OBVIOUS
<1> DEFINE S == [store_id: {id}, header: {h, e.header}, bitmap: {b, e.bitmap}]
<1>2. store \in S
  BY <1>1 DEF Store
<1>3. Paired(store, e) \in S /\ Paired(store, e).header = e.header /\ Paired(store, e).bitmap = e.bitmap
  BY <1>2 DEF Paired
<1>4. \A t \in S : t = [store_id |-> id, header |-> t.header, bitmap |-> t.bitmap]
  OBVIOUS
<1> HIDE DEF S
<1>5. QED
  BY <1>1, <1>3, <1>4

\* What an entry step does to the stores is what the entry does to the list's.
LEMMA EntryOwn ==
  ASSUME IInv, OwnInv, IInv', TakeSnapshot \/ TakePointer \/ SkipEntry
  PROVE  Balanced(Decoded', Len(Decoded')) /\ stores' = StoresOf(Decoded')
<1>1. PICK e, f : e = Decoded /\ f = Decoded'
  OBVIOUS
<1>2. PICK x : x = Entries[entry]
  OBVIOUS
<1>2a. PICK n \in Nat : n = Len(e)
  BY <1>1, DecodedTypes
<1>3. x \in Entry /\ pc # "failed"
  BY <1>2, EntryTypes DEF TakeSnapshot, TakePointer, SkipEntry
<1>4. OneMore(f, e, x, n) /\ f \in Seq(Entry) /\ e \in Seq(Entry)
  BY <1>2a, <1>1, <1>2, DecodedTypes, EntryDecoded
<1>5. DOMAIN e = 1 .. n /\ DOMAIN f = 1 .. n + 1 /\ Len(f) = n + 1 /\ n + 1 \in Nat
  BY <1>4 DEF OneMore
<1>6. Balanced(e, n) /\ stores = StoresOf(e)
  BY <1>2a, <1>1, <1>2, <1>3 DEF OwnInv
<1>7. Balanced(f, n + 1)
  BY <1>4, <1>6, BalancedNext
<1>8. PICK c \in Nat : c = Cardinality(SnapshotPlaces(e)) /\ DOMAIN StoresOf(e) = 1 .. c
  BY <1>5, StoresPlaces
<1>9. /\ stores \in Seq(Store) /\ stores' \in Seq(Store) /\ Len(stores) = c
  BY <1>6, <1>8 DEF IInv, TypeOK
<1>10. StoresOf(f) = [k \in DOMAIN StoresOf(f) |-> StoresOf(f)[k]]
  BY <1>5, StoresPlaces
<1>11. CASE TakeSnapshot
  <2>1. x.kind = "snapshot"
    BY <1>2, <1>11 DEF TakeSnapshot
  <2> DEFINE new == [store_id |-> x.store_id, header |-> None, bitmap |-> None]
  <2>2. stores' = Append(stores, new)
    BY <1>2, <1>11 DEF TakeSnapshot
  <2>3. OneMore(StoresOf(f), StoresOf(e), new, c)
    BY <1>4, <1>6, <1>8, <2>1, SnapshotAddsStore
  <2>4. DOMAIN stores' = 1 .. c + 1 /\ stores'[c + 1] = new /\ \A k \in 1 .. c : stores'[k] = stores[k]
    BY <1>9, <2>2
  <2>5. \A k \in 1 .. c + 1 : k \in 1 .. c \/ k = c + 1
    OBVIOUS
  <2> HIDE DEF new
  <2>6. stores' = StoresOf(f)
    <3>1. DOMAIN StoresOf(f) = 1 .. c + 1 /\ \A k \in 1 .. c + 1 : StoresOf(f)[k] = stores'[k]
      BY <1>6, <2>3, <2>4, <2>5 DEF OneMore
    <3>2. stores' = [k \in DOMAIN stores' |-> stores'[k]]
      BY <1>9
    <3>3. QED
      BY <1>10, <2>4, <3>1, <3>2
  <2>7. QED
    BY <1>1, <1>5, <1>7, <2>6
<1>12. CASE TakePointer
  <2>1. x.kind = "pointer" /\ Waiting(x.store_id) = WaitingOf(e, x.store_id)
    BY <1>2, <1>6, <1>8, <1>9, <1>12 DEF TakePointer, Waiting, WaitingOf
  <2>2. \A k \in 1 .. n : e[k].kind = "pointer" => e[k].header # None
    <3>1. \A k \in 1 .. n : e[k] \in Entry
      BY <1>4, <1>5
    <3>2. QED
      BY <3>1, PointerEntry, CatalogAssumption
  <2> DEFINE W == WaitingOf(e, x.store_id)
             m == Max(W)
  <2>3. /\ DOMAIN StoresOf(f) = 1 .. c
        /\ W = {} => StoresOf(f) = StoresOf(e)
        /\ \A k \in 1 .. c :
             /\ W # {} /\ k = m =>
                  StoresOf(f)[k] = [store_id |-> x.store_id, header |-> x.header, bitmap |-> x.bitmap]
             /\ W # {} /\ k # m => StoresOf(f)[k] = StoresOf(e)[k]
    <3>1. OneMore(f, e, x, n) /\ Balanced(e, n) /\ x.kind = "pointer"
      BY <1>4, <1>6, <2>1
    <3>2. GoesToLast(f, e, x)
      BY <2>2, <3>1, PointerGoesToLast
    <3>3. QED
      BY <1>8, <3>2 DEF GoesToLast
  <2>4. stores' = IF W = {} THEN stores ELSE [stores EXCEPT ![m] = Paired(@, x)]
    BY <1>2, <1>12, <2>1 DEF TakePointer
  <2>5. W # {} => m \in W
    <3>1. W \subseteq 1 .. c
      BY <1>8 DEF WaitingOf
    <3> HIDE DEF W
    <3>2. QED
      BY <3>1, LastExists
  <2>6. \A k \in W : stores[k] \in Store /\ stores[k].store_id = x.store_id
    BY <1>6, <1>8, <1>9 DEF WaitingOf
  <2> HIDE DEF W, m
  <2>7. CASE W = {}
    BY <1>1, <1>5, <1>6, <1>7, <2>3, <2>4, <2>7
  <2>8. CASE W # {}
    <3>1. DOMAIN stores' = 1 .. c
      BY <1>9, <2>4, <2>8
    <3>2. ASSUME NEW k \in 1 .. c
          PROVE  stores'[k] = StoresOf(f)[k]
      <4>1. CASE k = m
        <5>1. stores'[k] = Paired(stores[k], x)
          BY <1>9, <2>4, <2>8, <4>1
        <5>2. stores[k] \in Store /\ stores[k].store_id = x.store_id
          BY <2>5, <2>6, <2>8, <4>1
        <5>3. Paired(stores[k], x) = [store_id |-> x.store_id, header |-> x.header, bitmap |-> x.bitmap]
          BY <5>2, PairedIs
        <5>4. QED
          BY <2>3, <2>8, <4>1, <5>1, <5>3
      <4>2. CASE k # m
        <5>1. stores'[k] = stores[k]
          BY <1>9, <2>4, <2>8, <4>2
        <5>2. QED
          BY <1>6, <2>3, <2>8, <4>2, <5>1
      <4>3. QED
        BY <4>1, <4>2
    <3>3. stores' = [k \in DOMAIN stores' |-> stores'[k]]
      BY <1>9
    <3>4. stores' = StoresOf(f)
      BY <1>10, <2>3, <3>1, <3>2, <3>3
    <3>5. QED
      BY <1>1, <1>5, <1>7, <3>4
  <2>9. QED
    BY <2>7, <2>8
<1>13. CASE SkipEntry
  <2>1. x.kind = "other" /\ stores' = stores
    BY <1>2, <1>13 DEF SkipEntry
  <2>2. StoresOf(f) = StoresOf(e)
    BY <1>4, <1>6, <2>1, OtherKeepsStores
  <2>3. QED
    BY <1>1, <1>5, <1>6, <1>7, <2>1, <2>2
<1>14. QED
  BY <1>11, <1>12, <1>13

LEMMA StepOwn ==
  ASSUME IInv, OwnInv, [Next]_vars, IInv'
  PROVE  OwnInv'
<1> USE DEF walk
<1>1. CASE TakeSnapshot \/ TakePointer \/ SkipEntry
  <2>1. /\ UNCHANGED <<image, pc, next>> /\ entry' = entry + 1 /\ entry <= Len(Entries) /\ pc = "entries"
    BY <1>1 DEF TakeSnapshot, TakePointer, SkipEntry
  <2>2. Entries' = Entries /\ Len(Entries) \in Nat /\ entry \in Nat
    BY <2>1, EntryTypes DEF Entries, IInv, TypeOK
  <2>3. entry' <= Len(Entries') + 1
    BY <2>1, <2>2
  <2>4. QED
    BY <1>1, <2>3, EntryOwn DEF OwnInv
<1>2. CASE ReadHeader \/ EndLoop \/ EnterBlock \/ ReadBlock \/ LeaveBlock
  <2>1. Decoded' = Decoded
    BY <1>2, OtherDecoded
  <2>2. stores' = stores /\ pc # "failed"
    BY <1>2 DEF ReadHeader, EndLoop, EnterBlock, ReadBlock, LeaveBlock
  <2>3. pc' = "entries" => entry' = 1
    BY <1>2 DEF ReadHeader, EndLoop, EnterBlock, ReadBlock, LeaveBlock
  <2>4. pc' = "entries" => Len(Entries') \in Nat
    <3>1. ASSUME pc' = "entries"
          PROVE  Entries' \in Seq(Entry)
      <4>1. /\ image' = image /\ next' = next /\ next \in WholeBlocks
        BY <1>2, <3>1, NoEndOfVolume DEF ReadHeader, EndLoop, EnterBlock, ReadBlock, LeaveBlock
      <4>2. QED
        BY <4>1, ImageTypes DEF Entries, IInv
    <3>2. QED
      BY <3>1
  <2>5. pc' = "entries" => entry' <= Len(Entries') + 1
    BY <2>3, <2>4
  <2>6. QED
    BY <2>1, <2>2, <2>5 DEF OwnInv
<1>3. CASE ReadFails
  BY <1>3 DEF ReadFails, OwnInv
<1>4. CASE UNCHANGED vars
  <2>1. Decoded' = Decoded
    BY <1>4, OtherDecoded
  <2>2. UNCHANGED <<pc, entry, Entries, stores>>
    BY <1>4 DEF vars, Entries
  <2>3. QED
    BY <2>1, <2>2 DEF OwnInv
<1>5. QED
  BY <1>1, <1>2, <1>3, <1>4 DEF Next, Step

\* The stores are the snapshot entries of the catalog read, in order, and each has
\* the offsets of the pointer that closes it, whatever the order and the number of
\* the entries: giving each pointer to the newest store that waits
\* (stores.iter_mut().rev().find(..)) mixes up no two of them.
THEOREM PointersAreOwned == Spec => []StoresOwnTheirPointers
<1>1. IInv /\ OwnInv /\ [Next]_vars /\ IInv' => OwnInv'
  BY StepOwn
<1>2. OwnInv => StoresOwnTheirPointers
  BY DEF OwnInv, StoresOwnTheirPointers
<1>3. QED
  BY InitOwn, WalkInvariantHolds, <1>1, <1>2, PTL DEF Spec

=============================================================================
