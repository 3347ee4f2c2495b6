----------------------------- MODULE SourceCalls -----------------------------
(***************************************************************************)
(* The calls of a snapshot reader: who makes them, what they ask for, and  *)
(* the two interfaces they come through.  Shared by what callers are       *)
(* promised (PointInTimeSource) and by the code (SnapshotSource).          *)
(***************************************************************************)
EXTENDS SnapshotView

CONSTANTS
  Threads,    \* the callers
  Requests,   \* the reads they may ask for: [offset, len]
  Snapshots,  \* the snapshot states the reader may have been opened on
  Disk,       \* the live volume, which nothing writes while it is examined
  Untouched,  \* a byte of the caller's buffer nobody has written
  Api,        \* "ImageSource": VssSnapshotSource::read_at, which clips a read
              \* to the volume; "Snapshot": Snapshot::read_at, which does not
  MaxReads,   \* bound on the calls made
  MaxFaults   \* bound on the faults of the device below

ReadRequest == [offset: Offsets, len: Nat]

ASSUME SourceAssumption ==
  /\ Requests \subseteq ReadRequest
  /\ \A s \in Snapshots : IsSnapshotState(s)
  /\ Disk \in [0 .. VolumeSize - 1 -> CellValues]
  /\ Untouched \notin CellValues
  /\ Api \in {"ImageSource", "Snapshot"}
  /\ MaxReads \in Nat
  /\ MaxFaults \in Nat

\* How many cells the call delivers: all it asked for, or those of the volume.
Deliverable(r) ==
  CASE Api = "Snapshot" -> r.len
    [] Api = "ImageSource" /\ r.offset + r.len <= VolumeSize -> r.len
    [] Api = "ImageSource" /\ r.offset + r.len > VolumeSize ->
         IF r.offset < VolumeSize THEN VolumeSize - r.offset ELSE 0

\* The caller's buffer with its first n cells filled with those of snapshot s.
\* An address that would pass u64::MAX stays there.
Filled(s, r, n) ==
  [i \in 0 .. r.len - 1 |->
     IF i < n THEN View(Disk, s, SatAdd(r.offset, i)) ELSE Untouched]
=============================================================================
