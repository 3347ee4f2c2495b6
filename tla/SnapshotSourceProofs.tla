------------------------ MODULE SnapshotSourceProofs ------------------------
(***************************************************************************)
(* The reader of SnapshotSource returns what it promises, for any number   *)
(* of threads, any snapshot state, volume and block size.                  *)
(*                                                                         *)
(* IInv is the inductive invariant.  Its heart is BlockInv: the block a    *)
(* thread is putting together holds, after each source, what the sources   *)
(* so far give it, and after the last one the cells of the snapshot.  That *)
(* a seek and the read that follows meet the same cursor is LockInv's      *)
(* doing; CallInv ties the position of a read to what has been delivered.  *)
(***************************************************************************)
EXTENDS SnapshotSource, VolumeGeometryProofs

-----------------------------------------------------------------------------
(* Lemmas about the operators of the reader.                               *)

\* The descriptors of a block are a sequence of descriptors.
LEMMA DescriptorsType ==
  ASSUME NEW s, IsSnapshotState(s), NEW base
  PROVE  DescriptorsAt(s, base) \in Seq(BlockDescriptor)
  BY DEF IsSnapshotState, DescriptorsAt

\* The base of a block is read from an address of the u64 range.
LEMMA ViewBaseType ==
  ASSUME NEW ds \in Seq(BlockDescriptor), NEW base \in Offsets
  PROVE  ViewBase(ds, base) \in Offsets
<1>1. CASE Plains(ds) = {}
  BY <1>1 DEF ViewBase
<1>2. CASE Plains(ds) # {}
  <2>1. Plains(ds) \subseteq 1 .. Len(ds) /\ Len(ds) \in Nat
    BY DEF Plains
  <2>2. Max(Plains(ds)) \in 1 .. Len(ds)
    BY <1>2, <2>1, LastExists
  <2>3. ds[Max(Plains(ds))] \in BlockDescriptor
    BY <2>2
  <2>4. QED
    BY <1>2, <2>3 DEF ViewBase, BlockDescriptor
<1>3. QED
  BY <1>1, <1>2

\* What the code decides to deliver is what is promised.
LEMMA WantMeaning ==
  ASSUME NEW r \in ReadRequest
  PROVE  /\ Want(r) \in Nat
         /\ Want(r) <= r.len
         /\ Want(r) = Deliverable(r)
<1>1. r.offset \in Nat /\ r.len \in Nat /\ VolumeSize \in Nat
  BY GeometryAssumption DEF ReadRequest, Offsets
<1>2. CASE Api = "Snapshot"
  BY <1>1, <1>2 DEF Want, Deliverable
<1>3. CASE Api = "ImageSource"
  BY <1>1, <1>3 DEF Want, Min2, Deliverable
<1>4. QED
  BY <1>2, <1>3, SourceAssumption

\* The base the code reads is the base of the view.
LEMMA BaseSourceIsViewBase ==
  ASSUME NEW ds \in Seq(BlockDescriptor), NEW base
  PROVE  BaseSource(ds, base) = ViewBase(ds, base)
<1>1. {i \in 1 .. Len(ds) : IsPlain(ds[i])} = Plains(ds)
  <2>1. ASSUME NEW i \in 1 .. Len(ds)
        PROVE  IsPlain(ds[i]) <=> ds[i].flags = {}
    <3>1. ds[i] \in BlockDescriptor
      BY <2>1
    <3>2. ds[i].flags \in SUBSET Flags
      BY <3>1 DEF BlockDescriptor
    <3>3. QED
      BY <3>2 DEF IsPlain, Flags
  <2>2. DOMAIN ds = 1 .. Len(ds)
    OBVIOUS
  <2>3. QED
    BY <2>1, <2>2 DEF Plains
<1>2. QED
  BY <1>1 DEF BaseSource, ViewBase

\* The block of a thread, its descriptors, and the sources it may read.
LEMMA BlockTypes ==
  ASSUME TypeOK, NEW t \in Threads
  PROVE  /\ pos[t] \in Nat
         /\ Base(t) \in Offsets
         /\ Base(t) <= pos[t]
         /\ pos[t] < Base(t) + BlockSize
         /\ Ds(t) \in Seq(BlockDescriptor)
         /\ \A i \in 1 .. Len(Ds(t)) : Ds(t)[i] \in BlockDescriptor
         /\ source[t] \in 0 .. Len(Ds(t)) => SourceOffset(t) \in Offsets
<1>1. pos[t] \in Offsets /\ pos[t] \in Nat /\ MaxU64 \in Nat
  BY GeometryAssumption DEF TypeOK, Offsets
<1>2. Base(t) \in Nat /\ Base(t) <= pos[t] /\ pos[t] < Base(t) + BlockSize
  BY <1>1, BlockBaseHolds DEF Base
<1>3. Base(t) \in Offsets
  BY <1>1, <1>2 DEF Offsets
<1>4. Ds(t) \in Seq(BlockDescriptor)
  BY DescriptorsType, SourceAssumption DEF TypeOK, Ds
<1>5. \A i \in 1 .. Len(Ds(t)) : Ds(t)[i] \in BlockDescriptor
  BY <1>4
<1>6. ASSUME source[t] \in 0 .. Len(Ds(t))
      PROVE  SourceOffset(t) \in Offsets
  <2>1. CASE source[t] = 0
    BY <1>3, <1>4, <2>1, BaseSourceIsViewBase, ViewBaseType DEF SourceOffset
  <2>2. CASE source[t] # 0
    <3>1. Ds(t)[source[t]] \in BlockDescriptor
      BY <1>4, <1>5, <1>6, <2>2
    <3>2. QED
      BY <2>2, <3>1 DEF SourceOffset, BlockDescriptor
  <2>3. QED
    BY <2>1, <2>2
<1>7. QED
  BY <1>1, <1>2, <1>3, <1>4, <1>5, <1>6

\* A source contributes when its block is in the volume and, descriptors being
\* concerned, it is an overlay.
LEMMA ContributesMeaning ==
  ASSUME TypeOK, NEW t \in Threads, source[t] \in 0 .. Len(Ds(t))
  PROVE  Contributes(t) <=>
           /\ source[t] > 0 => /\ "overlay" \in Ds(t)[source[t]].flags
                               /\ "not_used" \notin Ds(t)[source[t]].flags
           /\ Readable(SourceOffset(t))
<1>1. SourceOffset(t) \in Int
  BY BlockTypes, GeometryAssumption DEF Offsets
<1>2. BlockInRange(SourceOffset(t)) <=> Readable(SourceOffset(t))
  BY <1>1, BlockInRangeMeaning DEF Readable
<1>3. QED
  BY <1>2 DEF Contributes, IsOverlay

\* A slice is nonempty, and stays within the block and the request.
LEMMA SliceBounds ==
  ASSUME TypeOK, NEW t \in Threads, written[t] < Want(req[t])
  PROVE  /\ Slice(t) \in Nat
         /\ Slice(t) >= 1
         /\ Slice(t) <= BlockSize - (pos[t] - Base(t))
         /\ written[t] + Slice(t) <= Want(req[t])
<1>1. /\ pos[t] \in Nat /\ Base(t) \in Nat /\ BlockSize \in Nat
      /\ Base(t) <= pos[t]
      /\ pos[t] < Base(t) + BlockSize
  BY BlockTypes, GeometryAssumption DEF Offsets
<1>2. written[t] \in Nat /\ Want(req[t]) \in Nat
  BY WantMeaning DEF TypeOK
<1>3. QED
  BY <1>1, <1>2 DEF Slice, Min2

-----------------------------------------------------------------------------
(* A cell of the block under construction, source by source.               *)

\* Before any source it is zero.
LEMMA CellAtStart ==
  ASSUME NEW ds \in Seq(BlockDescriptor), NEW base, NEW c
  PROVE  CellAfter(ds, base, 0, c) = Zero
<1>1. {i \in OverlaysOver(ds, c) : i < 0} = {}
  BY DEF OverlaysOver
<1>2. QED
  BY <1>1 DEF CellAfter

\* The base gives every cell.
LEMMA CellFromBase ==
  ASSUME NEW ds \in Seq(BlockDescriptor), NEW base, NEW c
  PROVE  CellAfter(ds, base, 1, c) = StoredCell(Disk, ViewBase(ds, base), c)
<1>1. {i \in OverlaysOver(ds, c) : i < 1} = {}
  BY DEF OverlaysOver
<1>2. QED
  BY <1>1 DEF CellAfter

\* A descriptor that does not cover the cell leaves it alone.
LEMMA CellSkipped ==
  ASSUME NEW ds \in Seq(BlockDescriptor), NEW base, NEW c,
         NEW k \in 1 .. Len(ds), k \notin OverlaysOver(ds, c)
  PROVE  CellAfter(ds, base, k + 1, c) = CellAfter(ds, base, k, c)
<1>1. OverlaysOver(ds, c) \subseteq 1 .. Len(ds)
  BY DEF OverlaysOver
<1>2. {i \in OverlaysOver(ds, c) : i < k + 1} = {i \in OverlaysOver(ds, c) : i < k}
  BY <1>1
<1>3. k + 1 > 0 /\ k > 0
  OBVIOUS
<1>4. QED
  BY <1>2, <1>3 DEF CellAfter

\* An overlay that covers the cell overwrites it.
LEMMA CellPatched ==
  ASSUME NEW ds \in Seq(BlockDescriptor), NEW base, NEW c,
         NEW k \in 1 .. Len(ds), k \in OverlaysOver(ds, c)
  PROVE  CellAfter(ds, base, k + 1, c) = Disk[ds[k].store_offset + c]
<1> DEFINE over == {i \in OverlaysOver(ds, c) : i < k + 1}
<1>1. over \subseteq 1 .. Len(ds) /\ k \in over /\ Len(ds) \in Nat
  BY DEF OverlaysOver
<1>2. \A y \in over : k >= y
  BY <1>1
<1>3. Max(over) = k
  BY <1>1, <1>2, LastIs
<1>4. over # {}
  BY <1>1
<1>5. QED
  BY <1>3, <1>4 DEF CellAfter

\* After the last descriptor it is the cell of the snapshot.
LEMMA CellAtEnd ==
  ASSUME NEW ds \in Seq(BlockDescriptor), NEW s, NEW base, NEW c,
         ds = DescriptorsAt(s, base),
         ~(ds = << >> /\ IsUnallocated(s, base))
  PROVE  CellAfter(ds, base, Len(ds) + 1, c) = ViewCell(Disk, s, base, c)
<1> DEFINE over == {i \in OverlaysOver(ds, c) : i < Len(ds) + 1}
<1>1. Len(ds) \in Nat /\ OverlaysOver(ds, c) \subseteq 1 .. Len(ds)
  BY DEF OverlaysOver
<1>2. over = OverlaysOver(ds, c)
  BY <1>1
<1>3. CASE over # {}
  BY <1>2, <1>3 DEF CellAfter, ViewCell
<1>4. CASE over = {}
  <2>1. CellAfter(ds, base, Len(ds) + 1, c) = StoredCell(Disk, ViewBase(ds, base), c)
    BY <1>1, <1>4 DEF CellAfter
  <2>2. ViewCell(Disk, s, base, c) = StoredCell(Disk, ViewBase(ds, base), c)
    BY <1>2, <1>4 DEF ViewCell, IsUnallocated
  <2>3. QED
    BY <2>1, <2>2
<1>5. QED
  BY <1>3, <1>4

\* A block without sources is zero, and so is the snapshot there.
LEMMA UnallocatedIsZero ==
  ASSUME NEW s, NEW base, NEW c,
         DescriptorsAt(s, base) = << >>, IsUnallocated(s, base)
  PROVE  ViewCell(Disk, s, base, c) = Zero
<1>1. OverlaysOver(DescriptorsAt(s, base), c) = {}
  BY DEF OverlaysOver
<1>2. QED
  BY <1>1 DEF ViewCell, IsUnallocated

\* Where a slice of the block lands in the buffer.
LEMMA SliceAddress ==
  ASSUME NEW off \in Offsets, NEW w \in Nat, NEW p \in Offsets, p = SatAdd(off, w),
         NEW i \in Nat, w <= i, i - w < BlockSize - (p - BlockBase(p))
  PROVE  /\ SatAdd(off, i) = p + (i - w)
         /\ BlockBase(SatAdd(off, i)) = BlockBase(p)
<1>1. /\ off \in Nat /\ p \in Nat /\ MaxU64 \in Nat /\ BlockSize \in Nat
      /\ off <= MaxU64 /\ p <= MaxU64
  BY GeometryAssumption DEF Offsets
<1>2. BlockBase(p) \in Nat /\ BlockBase(p) <= p /\ BlockBase(p) + BlockSize - 1 <= MaxU64
  BY <1>1, BlockBaseHolds, BlockWithinU64
<1>3. p + (i - w) \in Nat /\ p + (i - w) <= MaxU64 /\ p + (i - w) < BlockBase(p) + BlockSize
  BY <1>1, <1>2
<1>4. SatAdd(off, i) = p + (i - w)
  <2>1. CASE off + w <= MaxU64
    BY <1>1, <1>3, <2>1 DEF SatAdd
  <2>2. CASE off + w > MaxU64
    <3>1. p = MaxU64 /\ i = w
      BY <1>1, <1>3, <2>2 DEF SatAdd
    <3>2. QED
      BY <1>1, <2>2, <3>1 DEF SatAdd
  <2>3. QED
    BY <1>1, <2>1, <2>2
<1>5. BlockBase(p + (i - w)) = BlockBase(p)
  BY <1>1, <1>2, <1>3, SameBlock
<1>6. QED
  BY <1>4, <1>5

-----------------------------------------------------------------------------
(* The inductive invariant.                                                *)

LEMMA InitIInv == Init => IInv
<1> SUFFICES ASSUME Init PROVE IInv
  OBVIOUS
<1>1. 0 \in Offsets /\ 0 \in 0 .. MaxReads /\ 0 \in 0 .. MaxFaults
  BY GeometryAssumption, SourceAssumption DEF Offsets
<1>2. [offset |-> 0, len |-> 0] \in ReadRequest
  BY <1>1 DEF ReadRequest
<1>3. ZeroBlock \in [Cells -> CellValues]
  BY ViewAssumption DEF ZeroBlock
<1>4. TypeOK
  BY <1>1, <1>2, <1>3 DEF Init, TypeOK
<1>5. LockInv
  BY DEF Init, LockInv, Inside
<1>6. \A t \in Threads : req[t] \in ReadRequest /\ Want(req[t]) \in Nat
  BY <1>2, WantMeaning DEF Init
<1>7. CallInv
  BY <1>6 DEF Init, CallInv, AtBlock
<1>8. BlockInv
  BY DEF Init, BlockInv, BlockRight
<1>9. PrefixExact
  BY DEF Init, PrefixExact
<1>10. QED
  BY <1>4, <1>5, <1>7, <1>8, <1>9 DEF IInv

\* Every step keeps the variables in their types; the position of a read stays
\* in u64 because the source adds with saturation.
LEMMA TypeStep == IInv /\ [Next]_vars => TypeOK'
<1> SUFFICES ASSUME IInv, [Next]_vars PROVE TypeOK'
  OBVIOUS
<1> USE DEF IInv
<1>1. ASSUME NEW t \in Threads, Call(t) PROVE TypeOK'
  <2>1. PICK r \in Requests : req' = [req EXCEPT ![t] = r] /\ pos' = [pos EXCEPT ![t] = r.offset]
    BY <1>1 DEF Call
  <2>2. r \in ReadRequest /\ r.offset \in Offsets
    BY SourceAssumption DEF ReadRequest
  <2>3. reads' \in 0 .. MaxReads
    BY <1>1, SourceAssumption DEF Call, TypeOK
  <2>4. QED
    BY <1>1, <2>1, <2>2, <2>3 DEF Call, TypeOK, device
<1>2. ASSUME NEW t \in Threads, ReturnEmpty(t) PROVE TypeOK'
  BY <1>2 DEF ReturnEmpty, Answer, TypeOK, device, copied
<1>3. ASSUME NEW t \in Threads, Acquire(t) PROVE TypeOK'
  BY <1>3 DEF Acquire, TypeOK, call, copied
<1>4. ASSUME NEW t \in Threads, NextBlock(t) PROVE TypeOK'
  <2>1. ZeroBlock \in [Cells -> CellValues]
    BY ViewAssumption DEF ZeroBlock
  <2>2. QED
    BY <1>4, <2>1 DEF NextBlock, TypeOK, device, call, copied
<1>5. ASSUME NEW t \in Threads, SkipSource(t) PROVE TypeOK'
  BY <1>5 DEF SkipSource, TypeOK, device, call, copied
<1>6. ASSUME NEW t \in Threads, Seek(t) PROVE TypeOK'
  <2>1. source[t] \in 0 .. Len(Ds(t))
    BY <1>6 DEF Seek, BlockInv, BlockRight
  <2>2. SourceOffset(t) \in Offsets
    BY <2>1, BlockTypes
  <2>3. QED
    BY <1>6, <2>2 DEF Seek, TypeOK, call, copied
<1>7. ASSUME NEW t \in Threads, ReadExact(t) PROVE TypeOK'
  <2>1. cursor \in Nat /\ VolumeSize \in Nat /\ BlockSize \in Nat /\ cursor + BlockSize <= VolumeSize
    BY <1>7, GeometryAssumption DEF ReadExact, EndOfVolume, TypeOK, Offsets
  <2>2. cursor + BlockSize \in Offsets
    BY <2>1, GeometryAssumption DEF Offsets
  <2>3. \A c \in Cells : Disk[cursor + c] \in CellValues
    <3>1. \A c \in Cells : cursor + c \in 0 .. VolumeSize - 1
      BY <2>1 DEF Cells
    <3>2. QED
      BY <3>1, SourceAssumption
  <2>4. block' \in [Threads -> [Cells -> CellValues]]
    BY <1>7, <2>3 DEF ReadExact, TypeOK
  <2>5. QED
    BY <1>7, <2>2, <2>4 DEF ReadExact, TypeOK, call, copied
<1>8. ASSUME NEW t \in Threads, SeekFails(t) \/ ReadFails(t) PROVE TypeOK'
  <2>1. cursor' \in Offsets
    BY <1>8, GeometryAssumption DEF SeekFails, ReadFails, TypeOK, Offsets
  <2>2. faults' \in 0 .. MaxFaults
    BY <1>8, SourceAssumption DEF SeekFails, ReadFails, TypeOK
  <2>3. GiveUp(t) /\ UNCHANGED <<snap, reads, req, copied, source, block>>
    BY <1>8 DEF SeekFails, ReadFails
  <2>4. QED
    BY <2>1, <2>2, <2>3 DEF GiveUp, Answer, TypeOK, copied
<1>9. ASSUME NEW t \in Threads, BlockDone(t) PROVE TypeOK'
  BY <1>9 DEF BlockDone, TypeOK, device, call, copied
<1>10. ASSUME NEW t \in Threads, CopyOut(t) PROVE TypeOK'
  <2>1. written[t] < Want(req[t])
    BY <1>10 DEF CopyOut, CallInv, AtBlock
  <2>2. Slice(t) \in Nat /\ written[t] \in Nat
    BY <2>1, SliceBounds DEF TypeOK
  <2>3. SatAdd(pos[t], Slice(t)) \in Offsets
    BY <2>2, GeometryAssumption DEF SatAdd, TypeOK, Offsets
  <2>4. QED
    BY <1>10, <2>2, <2>3 DEF CopyOut, TypeOK, device, call
<1>11. ASSUME NEW t \in Threads, Finish(t) PROVE TypeOK'
  <2>1. Want(req[t]) \in Nat
    BY WantMeaning DEF TypeOK
  <2>2. QED
    BY <1>11, <2>1 DEF Finish, Answer, TypeOK, copied
<1>12. CASE UNCHANGED vars
  BY <1>12 DEF TypeOK, vars, device, call, copied
<1>13. QED
  BY <1>1, <1>2, <1>3, <1>4, <1>5, <1>6, <1>7, <1>8, <1>9, <1>10, <1>11, <1>12 DEF Next, Step

\* At most one thread is at the reader at a time, and it holds the mutex.
LEMMA LockStep == IInv /\ [Next]_vars => LockInv'
<1> SUFFICES ASSUME IInv, [Next]_vars, NEW q \in Threads, Inside(q)' PROVE (lock = q)'
  BY DEF LockInv
<1>1. /\ pc \in [Threads -> {"idle", "called", "loop", "source", "read", "copy"}]
      /\ \A u \in Threads : Inside(u) => lock = u
      /\ Free \notin Threads
  BY FreeAssumption DEF IInv, TypeOK, LockInv
<1>2. ASSUME NEW t \in Threads, Call(t) \/ ReturnEmpty(t) PROVE lock' = q
  BY <1>1, <1>2 DEF Call, ReturnEmpty, Answer, Inside, device
<1>3. ASSUME NEW t \in Threads, Acquire(t) PROVE lock' = q
  BY <1>1, <1>3 DEF Acquire, Inside
<1>4. ASSUME NEW t \in Threads,
             NextBlock(t) \/ SkipSource(t) \/ Seek(t) \/ ReadExact(t) \/ BlockDone(t) \/ CopyOut(t)
      PROVE lock' = q
  <2>1. Inside(t) /\ lock' = lock
    BY <1>4 DEF NextBlock, SkipSource, Seek, ReadExact, BlockDone, CopyOut, Inside, device
  <2>2. \A u \in Threads \ {t} : pc'[u] = pc[u]
    BY <1>1, <1>4 DEF NextBlock, SkipSource, Seek, ReadExact, BlockDone, CopyOut
  <2>3. QED
    BY <1>1, <2>1, <2>2 DEF Inside
<1>5. ASSUME NEW t \in Threads, SeekFails(t) \/ ReadFails(t) \/ Finish(t) PROVE lock' = q
  <2>1. Inside(t) /\ pc' = [pc EXCEPT ![t] = "idle"]
    BY <1>5 DEF SeekFails, ReadFails, Finish, GiveUp, Answer, Inside
  <2>2. q # t /\ Inside(q)
    BY <1>1, <2>1 DEF Inside
  <2>3. QED
    BY <1>1, <2>1, <2>2
<1>6. CASE UNCHANGED vars
  BY <1>1, <1>6 DEF vars, device, Inside
<1>7. QED
  BY <1>2, <1>3, <1>4, <1>5, <1>6 DEF Next, Step

\* A thread that has sought is at a whole block of the volume: the range check
\* came before the seek.
LEMMA NoEndOfVolume ==
  ASSUME IInv, NEW t \in Threads, pc[t] = "read"
  PROVE  ~EndOfVolume
<1>1. /\ TypeOK
      /\ cursor = SourceOffset(t)
      /\ Contributes(t)
      /\ source[t] \in 0 .. Len(Ds(t))
  BY DEF IInv, BlockInv, BlockRight
<1>2. Readable(cursor)
  BY <1>1, ContributesMeaning
<1>3. cursor \in Int /\ BlockSize \in Int /\ VolumeSize \in Int
  BY <1>1, GeometryAssumption DEF TypeOK, Offsets
<1>4. QED
  BY <1>2, <1>3 DEF Readable, EndOfVolume

\* A call's position follows from what it has delivered, and it ends with all
\* of it or, after a fault, with less.
LEMMA CallStep == IInv /\ [Next]_vars => CallInv'
<1> SUFFICES ASSUME IInv, [Next]_vars PROVE CallInv'
  OBVIOUS
<1> USE DEF IInv
<1>1. \A t \in Threads : Want(req[t]) \in Nat /\ written[t] \in Nat
  BY WantMeaning DEF TypeOK
<1>2. ASSUME NEW t \in Threads, Call(t) PROVE CallInv'
  <2>1. PICK r \in Requests : req' = [req EXCEPT ![t] = r] /\ pos' = [pos EXCEPT ![t] = r.offset]
    BY <1>2 DEF Call
  <2>2. r \in ReadRequest /\ Want(r) \in Nat /\ SatAdd(r.offset, 0) = r.offset
    BY SourceAssumption, GeometryAssumption, WantMeaning DEF ReadRequest, SatAdd, Offsets
  <2>3. QED
    BY <1>1, <1>2, <2>1, <2>2 DEF Call, CallInv, TypeOK, AtBlock, device
<1>3. ASSUME NEW t \in Threads, ReturnEmpty(t) PROVE CallInv'
  BY <1>1, <1>3 DEF ReturnEmpty, Answer, CallInv, TypeOK, AtBlock, device, copied
<1>4. ASSUME NEW t \in Threads, Acquire(t) PROVE CallInv'
  BY <1>1, <1>4 DEF Acquire, CallInv, TypeOK, AtBlock, call, copied
<1>5. ASSUME NEW t \in Threads, NextBlock(t) PROVE CallInv'
  BY <1>1, <1>5 DEF NextBlock, CallInv, TypeOK, AtBlock, device, call, copied
<1>6. ASSUME NEW t \in Threads, SkipSource(t) \/ Seek(t) \/ ReadExact(t) \/ BlockDone(t)
      PROVE CallInv'
  <2>1. UNCHANGED <<req, reply, faults, written, pos>>
    BY <1>6 DEF SkipSource, Seek, ReadExact, BlockDone, device, call, copied
  <2>2. /\ pc[t] \in {"source", "read"}
        /\ pc'[t] \in {"source", "read", "copy"}
        /\ \A u \in Threads \ {t} : pc'[u] = pc[u]
    BY <1>6 DEF SkipSource, Seek, ReadExact, BlockDone, TypeOK
  <2>3. QED
    BY <1>1, <2>1, <2>2 DEF CallInv, AtBlock
<1>7. ASSUME NEW t \in Threads, SeekFails(t) \/ ReadFails(t) PROVE CallInv'
  <2>1. /\ AtBlock(t)
        /\ GiveUp(t)
        /\ UNCHANGED <<req, written, pos>>
    BY <1>7 DEF SeekFails, ReadFails, AtBlock, copied
  <2>2. faults' > 0
    <3>1. CASE SeekFails(t)
      BY <3>1 DEF SeekFails, TypeOK
    <3>2. CASE ReadFails(t)
      <4>1. ~EndOfVolume
        BY <3>2, NoEndOfVolume DEF ReadFails
      <4>2. QED
        BY <3>2, <4>1 DEF ReadFails, TypeOK
    <3>3. QED
      BY <1>7, <3>1, <3>2
  <2>3. QED
    BY <1>1, <2>1, <2>2 DEF GiveUp, Answer, CallInv, TypeOK, AtBlock
<1>8. ASSUME NEW t \in Threads, CopyOut(t) PROVE CallInv'
  <2>1. written[t] < Want(req[t])
    BY <1>8 DEF CopyOut, CallInv, AtBlock
  <2>2. /\ Slice(t) \in Nat
        /\ Slice(t) >= 1
        /\ written[t] + Slice(t) <= Want(req[t])
    BY <2>1, SliceBounds
  <2>3. SatAdd(pos[t], Slice(t)) = SatAdd(req[t].offset, written[t] + Slice(t))
    <3>1. pos[t] = SatAdd(req[t].offset, written[t]) /\ req[t].offset \in Nat /\ MaxU64 \in Nat
      BY <1>8, GeometryAssumption DEF CopyOut, CallInv, TypeOK, ReadRequest, Offsets
    <3>2. QED
      BY <1>1, <2>2, <3>1 DEF SatAdd
  <2>4. QED
    BY <1>1, <1>8, <2>2, <2>3 DEF CopyOut, CallInv, TypeOK, AtBlock, device, call
<1>9. ASSUME NEW t \in Threads, Finish(t) PROVE CallInv'
  <2>1. written[t] = Want(req[t])
    BY <1>1, <1>9 DEF Finish, CallInv
  <2>2. QED
    BY <1>1, <1>9, <2>1 DEF Finish, Answer, CallInv, TypeOK, AtBlock, copied
<1>10. CASE UNCHANGED vars
  BY <1>10 DEF CallInv, AtBlock, vars, device, call, copied
<1>11. QED
  BY <1>2, <1>3, <1>4, <1>5, <1>6, <1>7, <1>8, <1>9, <1>10 DEF Next, Step

\* What another thread does leaves a thread's block right, unless it moves the
\* cursor between its seek and its read.
LEMMA BlockFrame ==
  ASSUME NEW q \in Threads, BlockRight(q),
         snap' = snap, pc'[q] = pc[q], source'[q] = source[q],
         block'[q] = block[q], pos'[q] = pos[q],
         pc[q] = "read" => cursor' = cursor
  PROVE  BlockRight(q)'
<1>1. Base(q)' = Base(q)
  BY DEF Base
<1>2. Ds(q)' = Ds(q)
  BY <1>1 DEF Ds
<1>3. SourceOffset(q)' = SourceOffset(q)
  BY <1>1, <1>2 DEF SourceOffset
<1>4. Contributes(q)' = Contributes(q)
  BY <1>2, <1>3 DEF Contributes
<1>5. Unallocated(q)' = Unallocated(q)
  BY <1>1, <1>2 DEF Unallocated
<1>6. QED
  BY <1>1, <1>2, <1>3, <1>4, <1>5 DEF BlockRight

\* Nobody moves the cursor of a thread that is about to read.
LEMMA CursorFrame ==
  ASSUME IInv, NEW t \in Threads, Step(t) \/ Call(t) \/ SeekFails(t) \/ ReadFails(t),
         NEW q \in Threads \ {t}, pc[q] = "read"
  PROVE  cursor' = cursor
<1>1. ~Inside(t)
  BY DEF IInv, LockInv, Inside
<1>2. Call(t) \/ ReturnEmpty(t) \/ Acquire(t)
  BY <1>1 DEF Step, Inside, NextBlock, SkipSource, Seek, ReadExact, BlockDone, CopyOut,
              Finish, SeekFails, ReadFails
<1>3. QED
  BY <1>2 DEF Call, ReturnEmpty, Acquire, device

\* A source that contributes nothing changes no cell.
LEMMA SkipKeepsCells ==
  ASSUME IInv, NEW t \in Threads, SkipSource(t), NEW c \in Cells
  PROVE  CellAfter(Ds(t), Base(t), source[t] + 1, c) = CellAfter(Ds(t), Base(t), source[t], c)
<1>1. TypeOK /\ source[t] \in 0 .. Len(Ds(t)) /\ ~Contributes(t)
  BY DEF SkipSource, IInv, BlockInv, BlockRight
<1>2. Ds(t) \in Seq(BlockDescriptor)
  BY <1>1, BlockTypes
<1>3. CASE source[t] = 0
  <2>1. SourceOffset(t) = ViewBase(Ds(t), Base(t))
    BY <1>2, <1>3, BaseSourceIsViewBase DEF SourceOffset
  <2>2. ~Readable(SourceOffset(t))
    BY <1>1, <1>3, ContributesMeaning
  <2>3. StoredCell(Disk, ViewBase(Ds(t), Base(t)), c) = Zero
    BY <2>1, <2>2 DEF StoredCell
  <2>4. QED
    BY <1>2, <1>3, <2>3, CellAtStart, CellFromBase
<1>4. CASE source[t] \in 1 .. Len(Ds(t))
  <2>1. SourceOffset(t) = Ds(t)[source[t]].store_offset
    BY <1>4 DEF SourceOffset
  <2>2. source[t] \notin OverlaysOver(Ds(t), c)
    BY <1>1, <1>4, <2>1, ContributesMeaning DEF OverlaysOver
  <2>3. QED
    BY <1>2, <1>4, <2>2, CellSkipped
<1>5. QED
  BY <1>1, <1>2, <1>3, <1>4

\* A source that is read patches the cells it covers.
LEMMA ReadPatchesCells ==
  ASSUME IInv, NEW t \in Threads, ReadExact(t), NEW c \in Cells
  PROVE  CellAfter(Ds(t), Base(t), source[t] + 1, c) =
           IF c \in Patched(t) THEN Disk[cursor + c]
           ELSE CellAfter(Ds(t), Base(t), source[t], c)
<1>1. /\ TypeOK
      /\ source[t] \in 0 .. Len(Ds(t))
      /\ Contributes(t)
      /\ cursor = SourceOffset(t)
  BY DEF ReadExact, IInv, BlockInv, BlockRight
<1>2. Ds(t) \in Seq(BlockDescriptor)
  BY <1>1, BlockTypes
<1>3. Readable(cursor)
  BY <1>1, ContributesMeaning
<1>4. CASE source[t] = 0
  <2>1. cursor = ViewBase(Ds(t), Base(t))
    BY <1>1, <1>2, <1>4, BaseSourceIsViewBase DEF SourceOffset
  <2>2. StoredCell(Disk, ViewBase(Ds(t), Base(t)), c) = Disk[cursor + c]
    BY <1>3, <2>1 DEF StoredCell
  <2>3. c \in Patched(t)
    BY <1>4 DEF Patched
  <2>4. QED
    BY <1>2, <1>4, <2>2, <2>3, CellFromBase
<1>5. CASE source[t] \in 1 .. Len(Ds(t))
  <2>1. cursor = Ds(t)[source[t]].store_offset
    BY <1>1, <1>5 DEF SourceOffset
  <2>2. source[t] \in OverlaysOver(Ds(t), c) <=> c \in Patched(t)
    <3>1. source[t] \in DOMAIN Ds(t) /\ source[t] # 0
      BY <1>2, <1>5
    <3>2. c \in Patched(t) <=> c \div SubBlockSize \in Ds(t)[source[t]].allocation_bitmap
      BY <3>1 DEF Patched
    <3>3. QED
      BY <1>1, <1>3, <1>5, <2>1, <3>1, <3>2, ContributesMeaning DEF OverlaysOver
  <2>3. QED
    BY <1>2, <1>5, <2>1, <2>2, CellPatched, CellSkipped
<1>6. QED
  BY <1>1, <1>2, <1>4, <1>5

\* The block under construction stays right, the reader stays at its source.
LEMMA BlockStep == IInv /\ [Next]_vars => BlockInv'
<1> SUFFICES ASSUME IInv, [Next]_vars, NEW q \in Threads PROVE BlockRight(q)'
  BY DEF BlockInv
<1> USE DEF IInv
<1>1. BlockRight(q)
  BY DEF BlockInv
<1>2. ASSUME NEW t \in Threads, t # q, Step(t) \/ Call(t) \/ SeekFails(t) \/ ReadFails(t)
      PROVE  BlockRight(q)'
  <2>1. /\ snap' = snap
        /\ pc'[q] = pc[q]
        /\ source'[q] = source[q]
        /\ block'[q] = block[q]
        /\ pos'[q] = pos[q]
    BY <1>2 DEF TypeOK, Step, Call, ReturnEmpty, Acquire, NextBlock, SkipSource, Seek, ReadExact,
                BlockDone, CopyOut, Finish, SeekFails, ReadFails, GiveUp, Answer, copied
  <2>2. pc[q] = "read" => cursor' = cursor
    BY <1>2, CursorFrame
  <2>3. QED
    BY <1>1, <2>1, <2>2, BlockFrame
<1>3. CASE Call(q) \/ ReturnEmpty(q) \/ Acquire(q) \/ CopyOut(q) \/ Finish(q)
           \/ SeekFails(q) \/ ReadFails(q)
  <2>1. pc'[q] \in {"called", "idle", "loop"}
    BY <1>3 DEF TypeOK, Call, ReturnEmpty, Acquire, CopyOut, Finish, SeekFails, ReadFails,
                GiveUp, Answer
  <2>2. QED
    BY <2>1 DEF BlockRight
<1>4. ASSUME UNCHANGED <<snap, pos>> PROVE Base(q)' = Base(q) /\ Ds(q)' = Ds(q)
  BY <1>4 DEF Base, Ds
<1>5. Ds(q) \in Seq(BlockDescriptor)
  BY BlockTypes
<1>6. CASE NextBlock(q)
  <2>1. /\ UNCHANGED <<snap, pos>>
        /\ source'[q] = 0
        /\ \A c \in Cells : block'[q][c] = Zero
        /\ pc'[q] = IF Unallocated(q) THEN "copy" ELSE "source"
    BY <1>6 DEF NextBlock, TypeOK, copied, ZeroBlock
  <2>2. Unallocated(q)' = Unallocated(q)
    BY <1>4, <2>1 DEF Unallocated
  <2>3. CASE Unallocated(q)
    <3>1. \A c \in Cells : ViewCell(Disk, snap, Base(q), c) = Zero
      BY <2>3, UnallocatedIsZero DEF Unallocated, Ds
    <3>2. QED
      BY <1>4, <2>1, <2>3, <3>1 DEF BlockRight
  <2>4. CASE ~Unallocated(q)
    <3>1. \A c \in Cells : CellAfter(Ds(q), Base(q), 0, c) = Zero
      BY <1>5, CellAtStart
    <3>2. 0 \in 0 .. Len(Ds(q)) + 1
      BY <1>5
    <3>3. QED
      BY <1>4, <2>1, <2>2, <2>4, <3>1, <3>2 DEF BlockRight
  <2>5. QED
    BY <2>3, <2>4
<1>7. CASE SkipSource(q)
  <2>1. /\ UNCHANGED <<snap, pos, block, pc>>
        /\ pc[q] = "source"
        /\ source'[q] = source[q] + 1
        /\ source[q] \in 0 .. Len(Ds(q))
    BY <1>1, <1>7 DEF SkipSource, TypeOK, copied, BlockRight
  <2>2. Unallocated(q)' = Unallocated(q)
    BY <1>4, <2>1 DEF Unallocated
  <2>3. \A c \in Cells : block[q][c] = CellAfter(Ds(q), Base(q), source[q] + 1, c)
    BY <1>1, <1>7, <2>1, SkipKeepsCells DEF BlockRight
  <2>4. source[q] + 1 \in 0 .. Len(Ds(q)) + 1
    BY <1>5, <2>1
  <2>5. QED
    BY <1>1, <1>4, <2>1, <2>2, <2>3, <2>4 DEF BlockRight
<1>8. CASE Seek(q)
  <2>1. /\ UNCHANGED <<snap, pos, block, source>>
        /\ pc[q] = "source" /\ pc'[q] = "read"
        /\ source[q] <= Len(Ds(q))
        /\ Contributes(q)
        /\ cursor' = SourceOffset(q)
    BY <1>8 DEF Seek, TypeOK, copied
  <2>2. SourceOffset(q)' = SourceOffset(q) /\ Unallocated(q)' = Unallocated(q)
    BY <1>4, <2>1 DEF SourceOffset, Unallocated
  <2>3. Contributes(q)' = Contributes(q)
    BY <1>4, <2>1, <2>2 DEF Contributes
  <2>4. QED
    BY <1>1, <1>4, <2>1, <2>2, <2>3 DEF BlockRight
<1>9. CASE ReadExact(q)
  <2>1. /\ UNCHANGED <<snap, pos>>
        /\ pc[q] = "read" /\ pc'[q] = "source"
        /\ source'[q] = source[q] + 1
        /\ source[q] \in 0 .. Len(Ds(q))
        /\ \A c \in Cells : block'[q][c] = IF c \in Patched(q) THEN Disk[cursor + c] ELSE block[q][c]
    BY <1>1, <1>9 DEF ReadExact, TypeOK, copied, BlockRight
  <2>2. Unallocated(q)' = Unallocated(q)
    BY <1>4, <2>1 DEF Unallocated
  <2>3. \A c \in Cells : block'[q][c] = CellAfter(Ds(q), Base(q), source[q] + 1, c)
    BY <1>1, <1>9, <2>1, ReadPatchesCells DEF BlockRight
  <2>4. source[q] + 1 \in 0 .. Len(Ds(q)) + 1
    BY <1>5, <2>1
  <2>5. QED
    BY <1>1, <1>4, <2>1, <2>2, <2>3, <2>4 DEF BlockRight
<1>10. CASE BlockDone(q)
  <2>1. /\ UNCHANGED <<snap, pos, block>>
        /\ pc[q] = "source" /\ pc'[q] = "copy"
        /\ source[q] > Len(Ds(q))
    BY <1>10 DEF BlockDone, TypeOK, copied
  <2>2. source[q] = Len(Ds(q)) + 1 /\ ~Unallocated(q)
    BY <1>1, <1>5, <2>1 DEF BlockRight
  <2>3. \A c \in Cells : block[q][c] = ViewCell(Disk, snap, Base(q), c)
    BY <1>1, <1>5, <2>1, <2>2, CellAtEnd DEF BlockRight, Unallocated, Ds
  <2>4. QED
    BY <1>4, <2>1, <2>3 DEF BlockRight
<1>11. CASE UNCHANGED vars
  BY <1>1, <1>11, BlockFrame DEF vars, device, copied
<1>12. QED
  BY <1>2, <1>3, <1>6, <1>7, <1>8, <1>9, <1>10, <1>11 DEF Next, Step

\* What is copied out extends the right prefix of the caller's buffer.
LEMMA PrefixStep == IInv /\ [Next]_vars => PrefixExact'
<1> SUFFICES ASSUME IInv, [Next]_vars, NEW q \in Threads, reply'[q].status # "none"
             PROVE  buf'[q] = Filled(snap', req'[q], written'[q])
  BY DEF PrefixExact, Filled
<1> USE DEF IInv
<1>1. \A t \in Threads : written[t] \in Nat /\ req[t] \in ReadRequest
  BY DEF TypeOK
<1>2. snap' = snap
  BY DEF Next, Step, Call, ReturnEmpty, Acquire, NextBlock, SkipSource, Seek, ReadExact, BlockDone,
         CopyOut, Finish, SeekFails, ReadFails, vars
<1>3. ASSUME req'[q] = req[q], written'[q] = written[q], buf'[q] = buf[q], reply[q].status # "none"
      PROVE  buf'[q] = Filled(snap', req'[q], written'[q])
  BY <1>2, <1>3 DEF PrefixExact
<1>4. ASSUME NEW t \in Threads, t # q, Step(t) \/ Call(t) \/ SeekFails(t) \/ ReadFails(t)
      PROVE  buf'[q] = Filled(snap', req'[q], written'[q])
  <2>1. req'[q] = req[q] /\ written'[q] = written[q] /\ buf'[q] = buf[q] /\ reply'[q] = reply[q]
    BY <1>4 DEF TypeOK, Step, Call, ReturnEmpty, Acquire, NextBlock, SkipSource, Seek, ReadExact,
                BlockDone, CopyOut, Finish, SeekFails, ReadFails, GiveUp, Answer, call, copied
  <2>2. QED
    BY <1>3, <2>1
<1>5. CASE Call(q)
  <2>1. PICK r \in Requests :
          req' = [req EXCEPT ![q] = r] /\ buf' = [buf EXCEPT ![q] = [i \in 0 .. r.len - 1 |-> Untouched]]
    BY <1>5 DEF Call
  <2>2. req'[q] = r /\ written'[q] = 0
    BY <1>5, <2>1 DEF Call, TypeOK
  <2>3. buf'[q] = [i \in 0 .. r.len - 1 |-> Untouched]
    BY <1>5, <2>1 DEF TypeOK
  <2>4. Filled(snap', r, 0) = [i \in 0 .. r.len - 1 |-> Untouched]
    BY DEF Filled
  <2>5. QED
    BY <2>2, <2>3, <2>4
<1>6. CASE ReturnEmpty(q) \/ Acquire(q) \/ NextBlock(q) \/ SkipSource(q) \/ Seek(q)
           \/ ReadExact(q) \/ BlockDone(q) \/ Finish(q) \/ SeekFails(q) \/ ReadFails(q)
  <2>1. req' = req /\ written' = written /\ buf' = buf
    BY <1>6 DEF ReturnEmpty, Acquire, NextBlock, SkipSource, Seek, ReadExact, BlockDone, Finish,
                SeekFails, ReadFails, call, copied
  <2>2. reply[q].status # "none"
    BY <1>6 DEF CallInv, ReturnEmpty, Acquire, NextBlock, SkipSource, Seek, ReadExact, BlockDone,
                Finish, SeekFails, ReadFails
  <2>3. QED
    BY <1>3, <2>1, <2>2
<1>7. CASE CopyOut(q)
  <2> DEFINE r == req[q]
             w == written[q]
             n == Slice(q)
  <2>1. /\ w < Want(r)
        /\ reply[q].status # "none"
        /\ pos[q] = SatAdd(r.offset, w)
        /\ \A c \in Cells : block[q][c] = ViewCell(Disk, snap, Base(q), c)
    BY <1>7 DEF CopyOut, CallInv, AtBlock, BlockInv, BlockRight
  <2>2. /\ w \in Nat
        /\ r.offset \in Offsets /\ r.len \in Nat
        /\ pos[q] \in Offsets /\ pos[q] \in Nat
        /\ n \in Nat
        /\ n <= BlockSize - (pos[q] - Base(q))
        /\ Base(q) \in Nat /\ BlockSize \in Nat /\ Base(q) <= pos[q]
    <3>1. w \in Nat /\ r.offset \in Offsets /\ r.len \in Nat /\ pos[q] \in Offsets
      BY <1>1 DEF TypeOK, ReadRequest
    <3>2. n \in Nat /\ n <= BlockSize - (pos[q] - Base(q))
      BY <2>1, SliceBounds
    <3>3. pos[q] \in Nat /\ Base(q) \in Nat /\ BlockSize \in Nat /\ Base(q) <= pos[q]
      BY BlockTypes, GeometryAssumption DEF Offsets
    <3>4. QED
      BY <3>1, <3>2, <3>3
  <2>3. buf[q] = Filled(snap, r, w)
    BY <2>1 DEF PrefixExact
  <2>4. /\ req'[q] = r
        /\ written'[q] = w + n
        /\ buf'[q] = [i \in DOMAIN buf[q] |-> IF i \in w .. w + n - 1 THEN SliceCell(q, i) ELSE buf[q][i]]
    BY <1>7 DEF CopyOut, TypeOK, call
  <2>5. DOMAIN buf[q] = 0 .. r.len - 1
    BY <2>3 DEF Filled
  <2>6. ASSUME NEW i \in 0 .. r.len - 1, i \in w .. w + n - 1
        PROVE  SliceCell(q, i) = View(Disk, snap, SatAdd(r.offset, i))
    <3> DEFINE c == pos[q] - Base(q) + (i - w)
               a == SatAdd(r.offset, i)
    <3>1. i \in Nat /\ w <= i /\ i - w < BlockSize - (pos[q] - Base(q))
      BY <2>2, <2>6
    <3>2. a = pos[q] + (i - w) /\ BlockBase(a) = Base(q)
      BY <2>1, <2>2, <3>1, SliceAddress DEF Base
    <3>3. c \in Cells /\ a - BlockBase(a) = c
      BY <2>2, <3>1, <3>2 DEF Cells
    <3>4. SliceCell(q, i) = ViewCell(Disk, snap, Base(q), c)
      BY <2>1, <3>3 DEF SliceCell
    <3>5. QED
      BY <3>2, <3>3, <3>4 DEF View
  <2>7. ASSUME NEW i \in 0 .. r.len - 1
        PROVE  buf'[q][i] = IF i < w + n THEN View(Disk, snap, SatAdd(r.offset, i)) ELSE Untouched
    <3>1. buf[q][i] = IF i < w THEN View(Disk, snap, SatAdd(r.offset, i)) ELSE Untouched
      BY <2>3 DEF Filled
    <3>2. CASE i \in w .. w + n - 1
      BY <2>2, <2>4, <2>5, <2>6, <3>2
    <3>3. CASE i \notin w .. w + n - 1
      BY <2>2, <2>4, <2>5, <3>1, <3>3
    <3>4. QED
      BY <3>2, <3>3
  <2>8. buf'[q] = [i \in 0 .. r.len - 1 |-> buf'[q][i]]
    BY <2>4, <2>5
  <2>9. buf'[q] = Filled(snap, r, w + n)
    BY <2>7, <2>8 DEF Filled
  <2>10. QED
    BY <1>2, <2>4, <2>9
<1>8. CASE UNCHANGED vars
  BY <1>3, <1>8 DEF vars, call, copied
<1>9. QED
  BY <1>4, <1>5, <1>6, <1>7, <1>8 DEF Next, Step

-----------------------------------------------------------------------------
(* Theorems.                                                               *)

LEMMA StepIInv == IInv /\ [Next]_vars => IInv'
  BY TypeStep, LockStep, CallStep, BlockStep, PrefixStep DEF IInv

\* The inductive invariant holds of every state the reader can reach.
THEOREM InvariantHolds == Spec => []IInv
  BY InitIInv, StepIInv, PTL DEF Spec

\* Type correctness: in particular the position of a read never leaves u64.
THEOREM TypeCorrect == Spec => []TypeOK
<1>1. IInv => TypeOK
  BY DEF IInv
<1>2. QED
  BY <1>1, InvariantHolds, PTL

\* The mutex in vfs.rs makes the seek and the read that follows one step: each
\* block is read from the source that was meant.
THEOREM ReadsMeetTheirSeek == Spec => []ReadsItsSource
<1>1. IInv => ReadsItsSource
  BY DEF IInv, LockInv, BlockInv, BlockRight, Inside, ReadsItsSource
<1>2. QED
  BY <1>1, InvariantHolds, PTL

\* What has been written of a buffer is right at any moment and after any error.
THEOREM PrefixesExact == Spec => []PrefixExact
<1>1. IInv => PrefixExact
  BY DEF IInv
<1>2. QED
  BY <1>1, InvariantHolds, PTL

\* A read that succeeds delivers exactly the cells of the snapshot.
THEOREM ResultsExact == Spec => []ResultExact
<1>1. IInv => ResultExact
  <2>1. SUFFICES ASSUME IInv, NEW t \in Threads, reply[t].status = "ok"
                 PROVE  /\ reply[t].count = Deliverable(req[t])
                        /\ buf[t] = Filled(snap, req[t], reply[t].count)
    BY DEF ResultExact
  <2>2. reply[t].count = Want(req[t]) /\ written[t] = Want(req[t])
    BY <2>1 DEF IInv, CallInv
  <2>3. req[t] \in ReadRequest
    BY <2>1 DEF IInv, TypeOK
  <2>4. buf[t] = Filled(snap, req[t], written[t])
    BY <2>1 DEF IInv, PrefixExact
  <2>5. QED
    BY <2>2, <2>3, <2>4, WantMeaning
<1>2. QED
  BY <1>1, InvariantHolds, PTL

\* No read fails unless the device failed.
THEOREM ErrorsAreFaults == Spec => []NoErrorWithoutFault
<1>1. IInv => NoErrorWithoutFault
  BY DEF IInv, CallInv, NoErrorWithoutFault
<1>2. QED
  BY <1>1, InvariantHolds, PTL

-----------------------------------------------------------------------------
(* Refinement: the reader is a PointInTimeSource.                          *)

\* The promise speaks of the same cells of the same snapshot.
LEMMA PromiseFilled ==
  ASSUME NEW s, NEW r, NEW n
  PROVE  Promise!Filled(s, r, n) = Filled(s, r, n)
<1>1. ASSUME NEW S PROVE Promise!Max(S) = Max(S)
  BY DEF Promise!Max, Max
<1>2. ASSUME NEW base PROVE Promise!DescriptorsAt(s, base) = DescriptorsAt(s, base)
  BY DEF Promise!DescriptorsAt, DescriptorsAt
<1>3. ASSUME NEW ds, NEW c PROVE Promise!OverlaysOver(ds, c) = OverlaysOver(ds, c)
  BY DEF Promise!OverlaysOver, OverlaysOver, Promise!Readable, Readable
<1>4. ASSUME NEW ds, NEW base PROVE Promise!ViewBase(ds, base) = ViewBase(ds, base)
  BY <1>1 DEF Promise!ViewBase, ViewBase, Promise!Plains, Plains
<1>5. ASSUME NEW off, NEW c PROVE Promise!StoredCell(Disk, off, c) = StoredCell(Disk, off, c)
  BY DEF Promise!StoredCell, StoredCell, Promise!Readable, Readable
<1>6. ASSUME NEW base, NEW c
      PROVE  Promise!ViewCell(Disk, s, base, c) = ViewCell(Disk, s, base, c)
  BY <1>1, <1>2, <1>3, <1>4, <1>5 DEF Promise!ViewCell, ViewCell
<1>7. ASSUME NEW a PROVE Promise!View(Disk, s, a) = View(Disk, s, a)
  BY <1>6 DEF Promise!View, View, Promise!BlockBase, BlockBase
<1>8. ASSUME NEW x, NEW y PROVE Promise!SatAdd(x, y) = SatAdd(x, y)
  BY DEF Promise!SatAdd, SatAdd
<1>9. QED
  BY <1>7, <1>8 DEF Promise!Filled, Filled

LEMMA PromiseDeliverable ==
  ASSUME NEW r
  PROVE  Promise!Deliverable(r) = Deliverable(r)
  BY DEF Promise!Deliverable, Deliverable

\* A thread that is idle before and after, or in a call before and after, leaves
\* what its caller holds alone; so does a thread that does not move.
LEMMA HeldFrame ==
  ASSUME NEW u \in Threads,
         \/ pc'[u] = pc[u] /\ reply'[u] = reply[u] /\ buf'[u] = buf[u]
         \/ pc'[u] # "idle" /\ pc[u] # "idle"
  PROVE  held'[u] = held[u]
  BY DEF held

\* Only what a thread does to itself shows.
LEMMA OthersHold ==
  ASSUME IInv, NEW t \in Threads, Step(t) \/ Call(t) \/ SeekFails(t) \/ ReadFails(t),
         NEW h, held'[t] = h
  PROVE  held' = [held EXCEPT ![t] = h]
<1>1. ASSUME NEW u \in Threads \ {t} PROVE held'[u] = held[u]
  <2>1. pc'[u] = pc[u] /\ reply'[u] = reply[u] /\ buf'[u] = buf[u]
    BY DEF IInv, TypeOK, Step, Call, ReturnEmpty, Acquire, NextBlock, SkipSource, Seek, ReadExact,
           BlockDone, CopyOut, Finish, SeekFails, ReadFails, GiveUp, Answer, call, copied
  <2>2. QED
    BY <2>1, HeldFrame
<1>2. held = [u \in Threads |-> held[u]] /\ held' = [u \in Threads |-> held'[u]]
  BY DEF held
<1>3. QED
  BY <1>1, <1>2

LEMMA InitPromise == Init => Promise!Init
<1> SUFFICES ASSUME Init PROVE Promise!Init
  OBVIOUS
<1>1. held = [t \in Threads |-> Promise!Nothing]
  BY DEF Init, held, Promise!Nothing
<1>2. QED
  BY <1>1 DEF Init, Promise!Init

\* An answer given with what the invariant says is in the buffer.
LEMMA AnswerIsPromised ==
  ASSUME IInv, NEW t \in Threads, pc[t] # "idle", NEW status, NEW count,
         Answer(t, status, count), buf' = buf
  PROVE  /\ held[t] = Promise!Pending
         /\ held'[t] = [status |-> status, count |-> count,
                        data |-> Promise!Filled(snap, req[t], written[t])]
<1>1. held[t] = Promise!Pending
  BY DEF held, Promise!Pending
<1>2. reply[t].status # "none"
  BY DEF IInv, CallInv
<1>3. buf[t] = Filled(snap, req[t], written[t])
  BY <1>2 DEF IInv, PrefixExact
<1>4. /\ pc'[t] = "idle"
      /\ reply'[t].status = status /\ reply'[t].count = count
  BY DEF IInv, TypeOK, Answer
<1>5. QED
  BY <1>1, <1>3, <1>4, PromiseFilled DEF held

LEMMA StepPromise == IInv /\ [Next]_vars => [Promise!Next]_(Promise!vars)
<1> SUFFICES ASSUME IInv, [Next]_vars PROVE [Promise!Next]_(Promise!vars)
  OBVIOUS
<1>1. ASSUME NEW t \in Threads, Call(t) PROVE Promise!Open(t)
  <2>1. held[t] # Promise!Pending
    BY <1>1 DEF Call, IInv, CallInv, held, Promise!Pending
  <2>2. held'[t] = Promise!Pending
    BY <1>1 DEF Call, IInv, TypeOK, held, Promise!Pending
  <2>3. held' = [held EXCEPT ![t] = Promise!Pending]
    BY <1>1, <2>2, OthersHold
  <2>4. QED
    BY <1>1, <2>1, <2>3 DEF Call, Promise!Open, device
<1>2. ASSUME NEW t \in Threads, ReturnEmpty(t) \/ Finish(t) PROVE Promise!Deliver(t)
  <2>1. /\ pc[t] # "idle"
        /\ buf' = buf
        /\ UNCHANGED <<snap, req, reads, faults>>
        /\ Answer(t, "ok", Want(req[t]))
    BY <1>2 DEF ReturnEmpty, Finish, device, copied
  <2>2. req[t] \in ReadRequest /\ written[t] \in Nat
    BY DEF IInv, TypeOK
  <2>3. written[t] = Want(req[t])
    BY <1>2, <2>2, WantMeaning DEF ReturnEmpty, Finish, IInv, CallInv
  <2>4. Want(req[t]) = Promise!Deliverable(req[t])
    BY <2>2, WantMeaning, PromiseDeliverable
  <2>5. held[t] = Promise!Pending
        /\ held'[t] = [status |-> "ok", count |-> Promise!Deliverable(req[t]),
                       data |-> Promise!Filled(snap, req[t], Promise!Deliverable(req[t]))]
    BY <2>1, <2>3, <2>4, AnswerIsPromised
  <2>6. QED
    BY <1>2, <2>1, <2>5, OthersHold DEF Promise!Deliver, Step
<1>3. ASSUME NEW t \in Threads, SeekFails(t) \/ ReadFails(t) PROVE Promise!Fail(t)
  <2>1. /\ pc[t] # "idle" /\ AtBlock(t)
        /\ buf' = buf
        /\ UNCHANGED <<snap, req, reads>>
        /\ Answer(t, "error", 0)
    BY <1>3 DEF SeekFails, ReadFails, GiveUp, AtBlock, copied
  <2>2. faults < MaxFaults /\ faults' = faults + 1
    <3>1. CASE SeekFails(t)
      BY <3>1 DEF SeekFails
    <3>2. CASE ReadFails(t)
      <4>1. ~EndOfVolume
        BY <3>2, NoEndOfVolume DEF ReadFails
      <4>2. QED
        BY <3>2, <4>1 DEF ReadFails
    <3>3. QED
      BY <1>3, <3>1, <3>2
  <2>3. req[t] \in ReadRequest /\ written[t] \in Nat /\ written[t] < Want(req[t])
    BY <2>1 DEF IInv, TypeOK, CallInv
  <2>4. written[t] \in 0 .. Promise!Deliverable(req[t]) - 1
    BY <2>3, WantMeaning, PromiseDeliverable
  <2>5. held[t] = Promise!Pending
        /\ held'[t] = [status |-> "error", count |-> 0,
                       data |-> Promise!Filled(snap, req[t], written[t])]
    BY <2>1, AnswerIsPromised
  <2>6. QED
    BY <1>3, <2>1, <2>2, <2>4, <2>5, OthersHold DEF Promise!Fail
<1>4. ASSUME NEW t \in Threads,
             Acquire(t) \/ NextBlock(t) \/ SkipSource(t) \/ Seek(t) \/ ReadExact(t) \/ BlockDone(t)
             \/ CopyOut(t)
      PROVE  UNCHANGED Promise!vars
  <2>1. pc[t] # "idle" /\ pc'[t] # "idle" /\ UNCHANGED <<snap, req, reads, faults>>
    BY <1>4 DEF IInv, TypeOK, Acquire, NextBlock, SkipSource, Seek, ReadExact, BlockDone, CopyOut,
                device, call
  <2>2. held'[t] = held[t]
    BY <2>1, HeldFrame
  <2>3. held' = [held EXCEPT ![t] = held[t]]
    BY <1>4, <2>2, OthersHold DEF Step
  <2>4. held' = held
    BY <2>3 DEF held
  <2>5. QED
    BY <2>1, <2>4 DEF Promise!vars
<1>5. CASE UNCHANGED vars
  <2>1. held' = held
    BY <1>5 DEF held, vars, call, copied
  <2>2. QED
    BY <1>5, <2>1 DEF Promise!vars, vars, device, call
<1>6. QED
  BY <1>1, <1>2, <1>3, <1>4, <1>5 DEF Next, Step, Promise!Next

\* The reader keeps its promise: whatever the threads, blocks and sources, each
\* call is answered at one moment with the cells of the snapshot, or fails for a
\* fault of the device that fails no other call.
THEOREM ReaderImplementsPromise == Spec => Implements
  BY InitPromise, StepPromise, InvariantHolds, PTL DEF Spec, Implements, Promise!Spec
=============================================================================
