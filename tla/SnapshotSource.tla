--------------------------- MODULE SnapshotSource ---------------------------
(***************************************************************************)
(* Reading a reconstructed snapshot: ImageSource::read_at of vfs.rs, and   *)
(* under it SnapshotState::read_at, read_block, apply_overlay and          *)
(* read_block_at of reconstruct.rs.                                        *)
(*                                                                         *)
(* Any number of threads share one VssSnapshotSource: the snapshot state   *)
(* is immutable, the reader and its one cursor are behind a mutex.  Every  *)
(* seek and every read_exact of the reader is a step of its own, so what   *)
(* the mutex is for is a matter of the model and not of its grain.         *)
(*                                                                         *)
(* A block is put together from its sources: number 0 is the base (the     *)
(* store block of the last plain descriptor, or the live block), number k  *)
(* is descriptor k of the block, which contributes when it is an overlay.  *)
(***************************************************************************)
EXTENDS SourceCalls

CONSTANT Free  \* the mutex when no thread holds it
ASSUME FreeAssumption == Free \notin Threads

VARIABLES
  snap,     \* SnapshotState: block map and bitmap, immutable after open
  lock,     \* who holds the mutex around the reader
  cursor,   \* the position of the shared reader
  reads,    \* calls made so far
  faults,   \* faults of the device so far
  pc,       \* where each thread is in read_at
  req,      \* its request: offset and length of its buffer
  written,  \* cells already copied into its buffer
  pos,      \* `cursor` of SnapshotState::read_at: the address of the next cell
  source,   \* the source of the current block it is at
  block,    \* the block it is putting together (`out` of read_block)
  buf,      \* its buffer
  reply     \* what read_at returned: status and count

device == <<lock, cursor, faults>>
call   == <<reads, req, reply>>
copied == <<written, pos, buf>>
vars   == <<snap, device, call, copied, pc, source, block>>

Min2(x, y) == IF x <= y THEN x ELSE y

ZeroBlock == [c \in Cells |-> Zero]

-----------------------------------------------------------------------------
(* Which store block each descriptor of a block stands for, as the code    *)
(* decides it.                                                             *)

IsPlain(d) ==
  /\ "forwarder" \notin d.flags
  /\ "overlay" \notin d.flags
  /\ "not_used" \notin d.flags

\* mutant: a descriptor that is not in use still patches the block
IsOverlay_Unused(d) == "overlay" \in d.flags

IsOverlay(d) == "overlay" \in d.flags /\ "not_used" \notin d.flags

\* mutant: `find` for `rfind`, the first plain descriptor gives the base
BaseSource_First(ds, base) ==
  LET plain == {i \in 1 .. Len(ds) : IsPlain(ds[i])}
  IN  IF plain = {} THEN base ELSE ds[Min(plain)].store_offset

BaseSource(ds, base) ==
  LET plain == {i \in 1 .. Len(ds) : IsPlain(ds[i])}
  IN  IF plain = {} THEN base ELSE ds[Max(plain)].store_offset

\* The block a thread is at, and the descriptors of that block.
Base(t) == BlockBase(pos[t])
Ds(t)   == DescriptorsAt(snap, Base(t))

SourceOffset(t) ==
  IF source[t] = 0 THEN BaseSource(Ds(t), Base(t))
  ELSE Ds(t)[source[t]].store_offset

Contributes(t) ==
  /\ source[t] > 0 => IsOverlay(Ds(t)[source[t]])
  /\ BlockInRange(SourceOffset(t))

\* The cells of the block the source at hand overwrites: all of them for the
\* base, the sub-blocks of the allocation bitmap for an overlay.
Patched(t) ==
  IF source[t] = 0 THEN Cells
  ELSE {c \in Cells : c \div SubBlockSize \in Ds(t)[source[t]].allocation_bitmap}

-----------------------------------------------------------------------------
Init ==
  /\ snap \in Snapshots
  /\ lock = Free
  /\ cursor = 0
  /\ reads = 0
  /\ faults = 0
  /\ pc = [t \in Threads |-> "idle"]
  /\ req = [t \in Threads |-> [offset |-> 0, len |-> 0]]
  /\ written = [t \in Threads |-> 0]
  /\ pos = [t \in Threads |-> 0]
  /\ source = [t \in Threads |-> 0]
  /\ block = [t \in Threads |-> ZeroBlock]
  /\ buf = [t \in Threads |-> << >>]
  /\ reply = [t \in Threads |-> [status |-> "none", count |-> 0]]

\* A thread calls read_at with a buffer of its own.
Call(t) ==
  /\ pc[t] = "idle"
  /\ reads < MaxReads
  /\ reads' = reads + 1
  /\ \E r \in Requests :
       /\ req' = [req EXCEPT ![t] = r]
       /\ pos' = [pos EXCEPT ![t] = r.offset]
       /\ buf' = [buf EXCEPT ![t] = [i \in 0 .. r.len - 1 |-> Untouched]]
  /\ written' = [written EXCEPT ![t] = 0]
  /\ reply' = [reply EXCEPT ![t] = [status |-> "pending", count |-> 0]]
  /\ pc' = [pc EXCEPT ![t] = "called"]
  /\ UNCHANGED <<snap, device, source, block>>

\* mutant: the part of the read beyond the end of the volume is not cut off
Want_Unclipped(r) == r.len

\* How much the call will deliver: len().checked_sub(offset) capped by the
\* buffer, or the whole buffer when read through Snapshot.
Want(r) ==
  IF Api = "Snapshot" THEN r.len
  ELSE IF r.offset > VolumeSize THEN 0 ELSE Min2(VolumeSize - r.offset, r.len)

Answer(t, status, count) ==
  /\ reply' = [reply EXCEPT ![t] = [status |-> status, count |-> count]]
  /\ pc' = [pc EXCEPT ![t] = "idle"]

\* Nothing to deliver: answered without the reader.
ReturnEmpty(t) ==
  /\ pc[t] = "called"
  /\ Want(req[t]) = 0
  /\ Answer(t, "ok", 0)
  /\ UNCHANGED <<snap, device, reads, req, copied, source, block>>

\* mutant: the reader is used without waiting for the mutex
Acquire_NoWait(t) ==
  /\ pc[t] = "called"
  /\ Want(req[t]) # 0
  /\ lock' = t
  /\ pc' = [pc EXCEPT ![t] = "loop"]
  /\ UNCHANGED <<snap, cursor, faults, call, copied, source, block>>

\* self.reader.lock(): through Snapshot, the exclusive borrow of the reader.
Acquire(t) ==
  /\ pc[t] = "called"
  /\ Want(req[t]) # 0
  /\ lock = Free
  /\ lock' = t
  /\ pc' = [pc EXCEPT ![t] = "loop"]
  /\ UNCHANGED <<snap, cursor, faults, call, copied, source, block>>

\* A block with no descriptor and its bitmap bit set has no source at all.
Unallocated(t) == Ds(t) = << >> /\ IsUnallocated(snap, Base(t))

\* The next block of the read: `out` starts as zeros.
NextBlock(t) ==
  /\ pc[t] = "loop"
  /\ written[t] < Want(req[t])
  /\ block' = [block EXCEPT ![t] = ZeroBlock]
  /\ source' = [source EXCEPT ![t] = 0]
  /\ pc' = [pc EXCEPT ![t] = IF Unallocated(t) THEN "copy" ELSE "source"]
  /\ UNCHANGED <<snap, device, call, copied>>

\* The descriptor is no overlay, or its source is past the end of the volume.
SkipSource(t) ==
  /\ pc[t] = "source"
  /\ source[t] <= Len(Ds(t))
  /\ ~Contributes(t)
  /\ source' = [source EXCEPT ![t] = @ + 1]
  /\ UNCHANGED <<snap, device, call, copied, pc, block>>

\* reader.seek(SeekFrom::Start(offset))
Seek(t) ==
  /\ pc[t] = "source"
  /\ source[t] <= Len(Ds(t))
  /\ Contributes(t)
  /\ cursor' = SourceOffset(t)
  /\ pc' = [pc EXCEPT ![t] = "read"]
  /\ UNCHANGED <<snap, lock, faults, call, copied, source, block>>

\* A whole block from the cursor on would run off the end of the volume.
EndOfVolume == cursor + BlockSize > VolumeSize

\* reader.read_exact(..): the block under the cursor, patched into `out`.
ReadExact(t) ==
  /\ pc[t] = "read"
  /\ ~EndOfVolume
  /\ block' = [block EXCEPT ![t] =
       [c \in Cells |-> IF c \in Patched(t) THEN Disk[cursor + c] ELSE @[c]]]
  /\ cursor' = cursor + BlockSize
  /\ source' = [source EXCEPT ![t] = @ + 1]
  /\ pc' = [pc EXCEPT ![t] = "source"]
  /\ UNCHANGED <<snap, lock, faults, call, copied>>

\* mutant: an error returns without letting the mutex go
GiveUp_Locked(t) ==
  /\ Answer(t, "error", 0)
  /\ UNCHANGED lock

\* `?`: the error is returned and the guard of the mutex dropped on the way.
GiveUp(t) ==
  /\ Answer(t, "error", 0)
  /\ lock' = Free

\* The seek fails, and may leave the cursor anywhere.
SeekFails(t) ==
  /\ pc[t] = "source"
  /\ source[t] <= Len(Ds(t))
  /\ Contributes(t)
  /\ faults < MaxFaults
  /\ faults' = faults + 1
  /\ cursor' \in {cursor, 0, VolumeSize}
  /\ GiveUp(t)
  /\ UNCHANGED <<snap, reads, req, copied, source, block>>

\* read_exact fails, for the device's fault or because the volume ended.
ReadFails(t) ==
  /\ pc[t] = "read"
  /\ ~EndOfVolume => faults < MaxFaults
  /\ faults' = IF EndOfVolume THEN faults ELSE faults + 1
  /\ cursor' \in {cursor, 0, VolumeSize}
  /\ GiveUp(t)
  /\ UNCHANGED <<snap, reads, req, copied, source, block>>

\* The last source is behind: read_block returns `out`.
BlockDone(t) ==
  /\ pc[t] = "source"
  /\ source[t] > Len(Ds(t))
  /\ pc' = [pc EXCEPT ![t] = "copy"]
  /\ UNCHANGED <<snap, device, call, copied, source, block>>

\* n of read_at: what is left of the block, or of the buffer.
Slice(t) == Min2(BlockSize - (pos[t] - Base(t)), Want(req[t]) - written[t])

\* mutant: the slice is taken from the start of the block, not from `within`
SliceCell_FromStart(t, i) == block[t][(i - written[t]) % BlockSize]

\* The cell of the block that goes to index i of the buffer.
SliceCell(t, i) == block[t][pos[t] - Base(t) + (i - written[t])]

\* buf[written..written + n].copy_from_slice(&block[within..within + n])
CopyOut(t) ==
  /\ pc[t] = "copy"
  /\ buf' = [buf EXCEPT ![t] =
       [i \in DOMAIN @ |->
          IF i \in written[t] .. written[t] + Slice(t) - 1
          THEN SliceCell(t, i) ELSE @[i]]]
  /\ written' = [written EXCEPT ![t] = @ + Slice(t)]
  /\ pos' = [pos EXCEPT ![t] = SatAdd(@, Slice(t))]
  /\ pc' = [pc EXCEPT ![t] = "loop"]
  /\ UNCHANGED <<snap, device, call, source, block>>

\* The buffer is full: Ok(want), and the guard of the mutex is dropped.
Finish(t) ==
  /\ pc[t] = "loop"
  /\ written[t] >= Want(req[t])
  /\ Answer(t, "ok", Want(req[t]))
  /\ lock' = Free
  /\ UNCHANGED <<snap, cursor, faults, reads, req, copied, source, block>>

-----------------------------------------------------------------------------
\* What a thread does once it is in a call.
Step(t) ==
  \/ ReturnEmpty(t)
  \/ Acquire(t)
  \/ NextBlock(t)
  \/ SkipSource(t)
  \/ Seek(t)
  \/ ReadExact(t)
  \/ BlockDone(t)
  \/ CopyOut(t)
  \/ Finish(t)

Next == \E t \in Threads : Call(t) \/ Step(t) \/ SeekFails(t) \/ ReadFails(t)

Spec == Init /\ [][Next]_vars

(***************************************************************************)
(* A thread inside a call is running: it is given the processor again and  *)
(* again, and takes the mutex if it finds it free often enough to matter.  *)
(* Nothing makes a thread call, and no fault has to happen.  The mutex is  *)
(* not fair, so weak fairness does not promise a thread the mutex while    *)
(* the others keep calling; that they stop is what MaxReads adds.          *)
(***************************************************************************)
Fairness == \A t \in Threads : WF_vars(Step(t))

FairSpec == Spec /\ Fairness

-----------------------------------------------------------------------------
(***************************************************************************)
(* Properties.                                                             *)
(***************************************************************************)

\* What the caller of each thread holds: nothing while read_at runs.
held ==
  [t \in Threads |->
     IF pc[t] = "idle"
     THEN [status |-> reply[t].status, count |-> reply[t].count, data |-> buf[t]]
     ELSE [status |-> "pending", count |-> 0, data |-> << >>]]

\* What the callers of this reader are promised.
Promise == INSTANCE PointInTimeSource WITH answer <- held

\* Type correctness.  In particular the position of a read never leaves u64.
TypeOK ==
  /\ snap \in Snapshots
  /\ lock \in Threads \cup {Free}
  /\ cursor \in Offsets
  /\ reads \in 0 .. MaxReads
  /\ faults \in 0 .. MaxFaults
  /\ pc \in [Threads -> {"idle", "called", "loop", "source", "read", "copy"}]
  /\ req \in [Threads -> ReadRequest]
  /\ written \in [Threads -> Nat]
  /\ pos \in [Threads -> Offsets]
  /\ source \in [Threads -> Nat]
  /\ block \in [Threads -> [Cells -> CellValues]]
  /\ DOMAIN buf = Threads
  /\ reply \in [Threads -> [status: {"none", "pending", "ok", "error"}, count: Nat]]

(***************************************************************************)
(* Between the seek and the read_exact that follows it, the cursor stays   *)
(* where the seek put it, whatever the other threads do: every block is    *)
(* read from the source that was meant.                                    *)
(***************************************************************************)
ReadsItsSource ==
  \A t \in Threads : pc[t] = "read" => lock = t /\ cursor = SourceOffset(t)

(***************************************************************************)
(* A read that returns Ok(n) delivered the n cells it should, each the     *)
(* cell the snapshot has at that address, and touched nothing else of the  *)
(* buffer: block boundaries, the order of descriptors, the end of the      *)
(* volume and the saturated end of u64 make no difference.                 *)
(***************************************************************************)
ResultExact ==
  \A t \in Threads : reply[t].status = "ok" =>
    /\ reply[t].count = Deliverable(req[t])
    /\ buf[t] = Filled(snap, req[t], reply[t].count)

(***************************************************************************)
(* The same at any moment and after any error: what has been written of a  *)
(* buffer is a prefix of the right answer.                                 *)
(***************************************************************************)
PrefixExact ==
  \A t \in Threads : reply[t].status # "none" =>
    buf[t] = Filled(snap, req[t], written[t])

(***************************************************************************)
(* No read fails unless the device below failed: the range check in front  *)
(* of every seek keeps read_exact from ever running off the volume.        *)
(***************************************************************************)
NoErrorWithoutFault ==
  \A t \in Threads : reply[t].status = "error" => faults > 0

(***************************************************************************)
(* The inductive invariant behind the properties above.                    *)
(***************************************************************************)
Inside(t)  == pc[t] \in {"loop", "source", "read", "copy"}
AtBlock(t) == pc[t] \in {"source", "read", "copy"}

\* Only the thread that holds the mutex is at the reader.
LockInv == \A t \in Threads : Inside(t) => lock = t

\* How far a call is: its position follows from what it has written.
CallInv ==
  \A t \in Threads :
    /\ pc[t] # "idle" <=> reply[t].status = "pending"
    /\ pc[t] = "called" => written[t] = 0
    /\ pc[t] # "idle" => pos[t] = SatAdd(req[t].offset, written[t])
    /\ written[t] <= Want(req[t])
    /\ AtBlock(t) => written[t] < Want(req[t])
    /\ reply[t].status = "ok" => reply[t].count = Want(req[t]) /\ written[t] = Want(req[t])
    /\ reply[t].status = "error" => written[t] < Want(req[t])
    /\ reply[t].status = "error" => faults > 0

\* The cell of a block when the sources before number k have been applied:
\* that of the last overlay among them that covers it, or of the base.
CellAfter(ds, base, k, c) ==
  LET over == {i \in OverlaysOver(ds, c) : i < k}
  IN  IF over # {} THEN Disk[ds[Max(over)].store_offset + c]
      ELSE IF k > 0 THEN StoredCell(Disk, ViewBase(ds, base), c)
      ELSE Zero

\* The block a thread is putting together holds what its sources so far give
\* it, and the reader stands at the source that comes next.
BlockRight(t) ==
  /\ pc[t] \in {"source", "read"} =>
       /\ source[t] \in 0 .. Len(Ds(t)) + 1
       /\ ~Unallocated(t)
       /\ \A c \in Cells : block[t][c] = CellAfter(Ds(t), Base(t), source[t], c)
  /\ pc[t] = "read" =>
       /\ source[t] <= Len(Ds(t))
       /\ Contributes(t)
       /\ cursor = SourceOffset(t)
  /\ pc[t] = "copy" =>
       \A c \in Cells : block[t][c] = ViewCell(Disk, snap, Base(t), c)

BlockInv == \A t \in Threads : BlockRight(t)

\* Everything a step of the reader relies on and leaves true.
IInv == TypeOK /\ LockInv /\ CallInv /\ BlockInv /\ PrefixExact

\* The reader implements its promise: a call is answered once, at one moment,
\* with the cells of the snapshot, and one fault fails at most one call.
Implements == Promise!Spec

\* Every call returns, also when another thread's call failed in mid-read.
CallsReturn == \A t \in Threads : pc[t] # "idle" ~> pc[t] = "idle"

(***************************************************************************)
(* Two claims of the documentation, stated as it makes them.               *)
(***************************************************************************)

\* "Bytes at or past the end of the volume read as zeros" (reconstruct.rs,
\* Snapshot::read_at; read_block says the same of a block past the end).
PastEndIsZero ==
  \A t \in Threads : reply[t].status = "ok" =>
    \A i \in 0 .. reply[t].count - 1 :
      SatAdd(req[t].offset, i) >= VolumeSize => buf[t][i] = Zero

\* "Descriptor set empty, bitmap bit == 0: passthrough - return the live volume
\* block" (docs/RECONSTRUCTION.md), for every cell the volume has.
PassthroughIsLive ==
  \A t \in Threads : reply[t].status = "ok" =>
    \A i \in 0 .. reply[t].count - 1 :
      LET a == SatAdd(req[t].offset, i)
      IN  /\ a < VolumeSize
          /\ DescriptorsAt(snap, BlockBase(a)) = << >>
          /\ ~IsUnallocated(snap, BlockBase(a))
          => buf[t][i] = Disk[a]
=============================================================================
