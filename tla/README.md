# vsc-forensic in TLA+

vsc-forensic reads Windows Volume Shadow Copies: `vsc-core` finds the stores of an
NTFS volume, decodes what they hold and reconstructs the volume as it was when a
snapshot was taken; `vsc-forensic` audits what was found. This directory models the
parts that decide anything, checks them with TLC on small instances, and proves with
TLAPS, for every size of volume and block and whatever the volume holds, that opening a
source gives the snapshot the disk describes, that reading it is correct for any team of
threads, that the auditor reports what it should, and what of an older snapshot one store
gives back.

## The system

| Part | Source | State | Operations | Hard about it |
|---|---|---|---|---|
| Catalog | `core/src/lib.rs` (`open`, `walk_catalog`), `catalog.rs` | the stores found, with the offsets of their chains | open | a chain of blocks that may cycle, lead off the volume or into anything; entries that refer to each other in any order; I/O errors |
| Store chains | `core/src/reconstruct.rs` (`snapshot_state`, `build_block_map`, `build_bitmap`), `store.rs`, `block.rs` | descriptors by offset, bitmap | snapshot | two more such chains; the order of descriptors and of bitmap pieces |
| Snapshot reader | `core/src/reconstruct.rs` (`read_block`, `read_at`, `read_block_at`, `apply_overlay`) | immutable once built; a cursor | read | several sources per block, their order, the end of the volume, the end of u64, a fault between any two of the reads a call makes |
| Source adapter | `core/src/vfs.rs` | the reader behind a mutex, the metadata it was opened with | open, len, read | three walks over one disk, any of which may lead into blocks of the others; threads sharing one seekable cursor; metadata older than the disk |
| Store information | `core/src/lib.rs` (`store_info`), `store.rs` (`StoreInfo::parse`) | none | one read | lengths that lie, information that ends anywhere |
| Auditor | `forensic/src/lib.rs` (`audit`) | the anomalies found | audit | a device that fails on one store of several |
| Findings | `forensic/src/lib.rs` (`to_finding`, `filetime_to_rfc3339`, ...) | none | what a report says of an anomaly | times that no calendar holds; what may be concluded from what |
| Byte decoding | `bytes.rs`, `guid.rs`, `error.rs` | none | none | a field out of range reads as 0, as a whole |
| Shadow-copy writer | external (Windows) | the stores on the volume | write, snapshot | several snapshots of one volume |

Calls go downwards: `VssSnapshotSource::open` opens the volume (`CatalogWalk`), builds
the state of one snapshot (`StoreWalk`) and keeps the reader; reads then go through
`SnapshotState` (`SnapshotSource`). The auditor opens a volume and calls `store_info`
for each store (`StoreAudit`). All of it is over one `Read + Seek` of the caller.

What has to be true of each part:

- *Catalog, store chains.* Whatever a damaged volume holds, a walk ends, takes the
  blocks of its chain in order, each once, at most as many as its cap, and only whole
  blocks of its kind; reading it fails only when the device does. Pointers go to the store
  they belong to; descriptors keep the order they override each other in; each bit of
  the bitmap answers for the right block.
- *Reader.* A read returns the cells of the snapshot, all that exist and no others,
  whatever other threads do; after an error the buffer holds a prefix of the answer.
- *Opening.* What is opened is the snapshot the disk describes, or an error; never part of
  a snapshot, and never without end.
- *Auditor.* The gaps it reports are the missing numbers; a fault costs one store its
  attribute check and nothing else; the report blames on deletion what gives occasion to
  and nothing more; its dates tell the stores in their order; no field is read in part.
- *All together.* A snapshot reads as the volume was.

## Modules

Addresses count *cells*: the smallest runs of bytes a model tells apart. A block is
`BlockSize` cells, a sub-block of an overlay `SubBlockSize`; u64 ends at `MaxU64`.

| Module | Models | Builds on |
|---|---|---|
| `VolumeGeometry` | address arithmetic: `SatAdd` (saturating_add), `BlockInRange` (checked_add and comparison), `BlockBase` | |
| `SnapshotView` | `SnapshotState`, `BlockDescriptor`, and `View`: the promise, which cell of the volume a cell of the snapshot is | `VolumeGeometry` |
| `SourceCalls` | what callers may ask: requests, the two public interfaces (`Api`), bounds | `SnapshotView` |
| `PointInTimeSource` | abstract source: a call is answered at one moment, from the snapshot; a fault fails one call | `SourceCalls` |
| `SnapshotSource` | the reader, step by step | `SourceCalls`; refines `PointInTimeSource` |
| `ChainWalk` | abstract walk along a chain of blocks | `VolumeGeometry` |
| `BlockChain` | the loop head the three walks share | `VolumeGeometry` |
| `CatalogEntries` | what a list of catalog entries says: entries of one identifier as brackets | |
| `CatalogWalk` | `VssVolume::open`, `walk_catalog` | `BlockChain`, `CatalogEntries`; refines `ChainWalk` |
| `StoreWalk` | `snapshot_state`, `build_block_map`, `build_bitmap` | `BlockChain`, `SnapshotView`; refines `ChainWalk` twice |
| `SnapshotOpening` | abstract opening: the answer is a function of the disk and the index | `SnapshotView`, `CatalogEntries` |
| `SourceOpen` | `VssSnapshotSource::open`: the walks above, one after the other on one disk | `CatalogWalk`, `StoreWalk` (INSTANCE); refines `SnapshotOpening` |
| `StoreInformation` | `StoreInfo::parse` over the readers of `bytes.rs` | |
| `Findings` | `to_finding`, `mitre`, `subjects`, `evidence`, `timestamps`, `filetime_to_rfc3339` | `VolumeGeometry` |
| `StoreAudit` | `audit`, `audit_findings`, `store_info` | `StoreInformation`, `Findings` |
| `CowTimeline` | the external writer, and a source opened while it writes, read through `View` | `SnapshotView` |
| `MC...` | the instances TLC checks (`CatalogWalk` is checked as part of `MCSourceOpen`) | one each |
| `SnapshotSourceProofs`, `CatalogWalkProofs`, `StoreWalkProofs`, `SourceOpenProofs`, `StoreAuditProofs`, `CowTimelineProofs` | theorems of the state machines | their module, TLAPS |
| `VolumeGeometryProofs`, `CatalogEntriesProofs` | lemmas of the operators: addresses, least and greatest elements, orders; brackets and concatenation | their module, TLAPS |

A definition named `X_Something` with a comment that starts with "mutant" is a faulty
variant of `X`: replacing `X` by it must break a property, which shows that the
property depends on what the code does there. No specification uses them.

### SnapshotSource and the code

A thread calls (`Call`), returns at once when nothing is wanted (`ReturnEmpty`, the
early returns of `vfs.rs`), takes the mutex (`Acquire`) and loops over the blocks of
the request (`NextBlock`). A block has numbered sources: 0 is the base, the store
block of the last plain descriptor or the live block; k is descriptor k, if it is an
overlay. For each, `SkipSource` is the early return of `read_block_at`, `Seek` and
`ReadExact` its two calls. `BlockDone`, `CopyOut` and `Finish` copy the slice out,
advance the saturating position and release the mutex; `SeekFails` and `ReadFails`
are the device's faults, after which the cursor is anywhere, and `GiveUp` the error
return that drops the guard. With `Api = "Snapshot"` the caller is
`Snapshot::read_at`, which clips nothing at the end of the volume; with
`"ImageSource"` it is `VssSnapshotSource`, which does.

### CatalogWalk, StoreWalk and the code

Both are loops over blocks whose head is `LoopEnds`. In `CatalogWalk`, `EnterBlock` and
`EndLoop` are the head, `ReadBlock` the read and the test of the block's type,
`TakeSnapshot`, `TakePointer` and `SkipEntry` the match on an entry, `LeaveBlock` the
end of the body. `StoreWalk` has the same shape, for two chains in turn (`walking`):
`ReadDescriptors`, `FileDescriptor` and `LeaveBlock` for descriptors, `ReadPiece` for the
bitmap, `ReadForeign` for a block of another type. `EndWalk` goes on to the bitmap or
sorts and joins its pieces. `RefuseIndex` and `RefuseStore` are the two errors that need
no device. `taken` records the blocks decoded; no step depends on it.

`SourceOpen` is their sequence: `OpenVolume` takes the steps of `CatalogWalk`, and once
that is done `MakeSnapshot` those of an instance of `StoreWalk`, whose volume is the same
disk and whose stores are the ones the catalog walk left. `CatalogView` is the disk as the first
of them reads it. `CatalogWalk` starts without a volume (`Unopened`) and `StoreWalk` with
nothing built (`Fresh`), so that they can be put together. `SnapshotOpening` says what must come of
it without a word on loops, visited sets or sorting: `ChainOf` follows pointers,
`Stores` pairs entries as brackets, `BlockMap` and `Bitmap` are put together from whole chains.

### StoreAudit and the code

`NoStores` and `ListStores` are the first half of `audit`, the loop over the stores the
second: `NoHeader` (the errors of `store_info` that need no device), `SeekHeader`,
`ReadHeader`, `ReadInformation`, and `ReadFails`, which the auditor passes over.
`InfoLen` is the least of the size field, the cap and what is left of the volume, with the
conversions to usize each goes through. What is read is decoded by `Parse`: `Field` and `Text`
are the bounds-checked readers, and the place of the second machine name depends on the
length of the first. `Report` is `audit_findings`: `Finding` turns an anomaly into what
an analyst is told; `Dates` is the text of a FILETIME, as the set of instants that have one.

### CowTimeline and the code

`TakeSnapshot`, `WriteSaving`, `WritePlain` and `Release` are the operating system.
`OpenSource` is `VssSnapshotSource::open` at any moment between them: it keeps
descriptors and bitmap, and every later read takes live blocks and saved ones from the
disk as it then is. Opening is one step here.

## What is checked

Passing runs:

| Run | Shows | Instance |
|---|---|---|
| `source_views` | `TypeOK`, `PrefixExact`, `NoErrorWithoutFault`, `IInv`: any point of any read, what is in the buffer is the right prefix | one reader; every list of up to two of eleven kinds of descriptors and of three of four kinds; volume of 3.5 blocks; reads across blocks, the end of the volume and u64::MAX; one fault |
| `source_threads` | `ReadsItsSource`, `ResultExact`, refinement `Implements`, `CallsReturn` | two threads, three calls, one fault |
| `catalog` | `OpeningImplements` (refines `SnapshotOpening`), `OpeningInv`, `Settles`; `PointersComeTogether`, `StoresOwnTheirPointers`; `TypeOK`, `NoBlockTwice`, `NoErrorWithoutFault`, `IInv`, refinement `Implements`, `Opens` | opening a source for each of three indexes: every list of up to four of four kinds of entry, and one more in a second block; every graph of three blocks with pointers in, between, past and at the end of blocks, a cap of two; two stores whose chains share two blocks of either type and lead into each other and into the catalog; one fault in each walk |
| `store` | `FilesEveryDescriptor`, `BitmapAnswersForBlocks`; `TypeOK`, `NoErrorWithoutFault`, `IInv`, refinements `DiffImplements` and `BitmapImplements`, `Builds` | every content of two blocks of two records, two pieces with every pair of relative offsets; every graph of two linked blocks of either type and two fixed ones, a header at the end of u64, a cap of two; one fault |
| `audit` | `GapsAreTheMissingNumbers`, `CitesDeletionOnOccasion`, `DatesKeepOrder`; `FieldsWholeOrAbsent`, `AttributeChecksExact`, `TypeOK`, `Audits` | up to three stores, seven numbers with both ends of u64, creation times before, on and past what has a date; two stores with information of every length around its limits and machine names of every length around theirs, one fault |
| `cow_newest` | `ExactUnlessSavedLater`: one store over the live volume is enough for all of the newest snapshot, and for what its store saved or no later one did of an older; `StaleOnlyWhereSaved`: an old source is wrong only in blocks it takes for live ones and that were saved since; `IInv` | two blocks, three snapshots, room for three saved blocks, a source opened at any moment |

Runs that refute what a document of the repository says:

| Run | Claim | What the code does |
|---|---|---|
| `source_past_end` | bytes past the end of the volume read as zeros (`reconstruct.rs:158`) | a descriptor filed under an offset past the end is found before any range check and its store block is returned |
| `source_tail` | a block with no descriptor and a clear bit is the live block (`docs/RECONSTRUCTION.md:53`) | a partial last block is refused as a whole and reads as zeros |
| `catalog_none` | a store has no header offset when the catalog has no type-0x03 entry (`catalog.rs:86`) | nor when that entry comes before the store's own |
| `store_identifier` | the VSS identifier is matched on every store block (`docs/decisions/0004`, item 5) | it is parsed and not compared |
| `audit_unread` | a store whose information cannot be read is skipped (`forensic/src/lib.rs:298`) | information cut short before the attributes is reported as "not persistent" with flags 0 |
| `cow_older` | any block can be read back as it was at snapshot time (`docs/index.md:28`) | what only a later store saved is read from the live volume |

### Bounds

*Blocks and cells.* Blocks of two cells and, in the reader, sub-blocks of one are the
least in which a read can start inside a block and an overlay can select part of one.
Every cell of the disk of the reader's instances has a value of its own, so a cell
taken from anywhere else shows.
*Volumes.* Three or four blocks hold the live block, a base, an overlay and a partial
last block; a chain of three blocks has every kind of cycle (to itself, back, to the
start). `MaxU64` is 15: the volume ends well before it, and the runs have offsets whose
block passes it.
*Caps.* `MAX_CATALOG_BLOCKS` (4096) and `MAX_STORE_BLOCKS` (2^20) are two, below
the longest chain, so that the cap is hit.
*Disks of `catalog`.* A volume of eight cells and blocks of two. The store chains of the
opening have two blocks and the cap two: that they end, whatever they are, is the
business of `store`, which has longer ones.
*Audit.* Information of five cells at least (identifier, two of attributes, two lengths of
names) on a volume of 13, so that each field may be cut. `MaxUsize` is 7, above the cap
and below the size of the volume, as on a machine of 32 bits with a volume over 4 GiB:
`RemainingUsize` may come out small for a store in the middle of the volume (`as usize` at
`lib.rs:173` cuts rather than saturates), its information is read as shorter than it is, and a
persistent store is reported as not persistent. `AttributeChecksExact` says that this
happens to no other store (`InUsize`); a usize of 64 bits holds the size of every
volume, and the exception is empty. The instance has stores that are cut before and after
their attributes and stores that are not cut.
*Bitmap.* Relative offsets count the cells from 0 or from further on, and lie one or two blocks
apart: `BitmapAnswersForBlocks` is about every start and unit, because the code uses no
more than their order. `docs/RESEARCH.md:102` counts them from the store's start, a fixture of
`core/src/tests.rs` in payloads of blocks.
*Timeline.* Values other than zero are only copied and compared, so the two there are
are symmetric.
*Faults.* One per run, one per walk when opening. A fault ends the call in the walks; in the reader and the
auditor the calls and stores after it run on what it left behind.
*Calls.* `MaxReads` bounds the calls of a run, so that it ends; the proofs hold for every value of it.
`CHECK_DEADLOCK FALSE` is set where calls are bounded or the operation ends.

### Fairness

`SnapshotSource` assumes weak fairness of each thread's own steps: a thread inside a call
is given the processor again and again. A `std::sync::Mutex` is not fair, and weak fairness
does not promise a thread the mutex while others keep taking it; `CallsReturn` holds because
`MaxReads` makes the others stop. No thread has to call. The device may fail but
need not, and each of its calls returns. `StoreWalk`, `SourceOpen` and `StoreAudit` are single
calls with weak fairness of their next step; nothing in the environment has to act, and in
`SourceOpen` (`OpenStep`) the faults of the device are left out of the fair step.

## What is proved

Every invariant, action property and refinement of the passing runs is a theorem; the runs
check it on small instances, and so they do the inductive invariants it rests on, where these say
more than what a step has just assigned. The proofs use the named assumptions of the
modules and nothing else.

### Reading

`SnapshotSourceProofs` proves of `SnapshotSource!Spec`, for every block size, volume, set of
threads, set of snapshots and bound:

| Theorem | Says |
|---|---|
| `InvariantHolds` | `IInv` |
| `TypeCorrect` | `TypeOK` |
| `ReadsMeetTheirSeek` | between a seek and its read the cursor stays where it was set |
| `PrefixesExact` | what is in a buffer is always a prefix of the right answer |
| `ResultsExact` | a call that succeeds delivered the snapshot's cells |
| `ErrorsAreFaults` | a call fails only if the device did |
| `ReaderImplementsPromise` | `SnapshotSource` refines `PointInTimeSource` |

The assumptions are those the modules name: `GeometryAssumption` (a block divides
2^64, the volume fits a u64), `ViewAssumption` (sub-blocks divide a block),
`SourceAssumption` (requests and snapshots are well-typed, the disk has one value per
cell) and `FreeAssumption`. That snapshots are well-typed is what `StoreWalk!TypeOK` says of
every snapshot the code builds.

`PrefixExact` is not inductive: it says nothing of the block being put together. `IInv`
adds what the code maintains on the way. `LockInv`: a thread inside the loop holds the
mutex. `CallInv`: how far the call has come, that the position is the saturating sum of the
offset and what was copied, and that an error means a fault. `BlockInv`: `out` is what
the sources looked at so far make of the block (`CellAfter`), and between a seek and its
read the cursor is at the source about to be read. The heart of the proof is that the
steps of the code (last plain descriptor, then overlays one by one) arrive at `View`, which
picks the last overlay that covers a cell; `VolumeGeometryProofs` has the facts about
least and greatest elements, offsets, block bases and saturation.

### The catalog

`CatalogWalkProofs` proves of `CatalogWalk!Spec`, for every set of volumes, block size and cap:

| Theorem | Says |
|---|---|
| `WalkInvariantHolds` | `IInv` |
| `WalkTypeCorrect` | `TypeOK` |
| `WalkIsBounded` | no block is decoded twice, nor more than `MaxCatalogBlocks` |
| `PointersTogether` | a store has both offsets or neither |
| `PointersAreOwned` | the stores are those the entries read describe, each with the pointer that is its own |
| `OpenErrorsAreFaults` | `open` fails only if the device did |
| `WalkImplementsPromise` | `CatalogWalk` refines `ChainWalk` |

The assumptions are `GeometryAssumption` and `CatalogAssumption` (the volumes are well-typed:
a pointer may hold any u64, a block may be anything). `NoBlockTwice` needs to know what the
code's `visited` set and its counter have to do with the blocks decoded, and that is `WalkInv`:
at the loop head the offsets visited are those of the blocks taken, `next` is where the
last of them points and the counter is their number; between the loop head and the read the
tests of the head still hold, so the block read is new, whole and within the cap
(`NoEndOfVolume`), which is why neither a cycle nor a wild pointer can do harm.

`PointersAreOwned` compares two ways of reading entries: the code keeps a list of stores and
gives a pointer to the last one of its identifier that waits; `StoresOf` pairs the entries
of an identifier as brackets, by counting. `OwnInv` says that `stores` is `StoresOf` of the
entries decoded so far. `CatalogEntriesProofs` proves what one more entry does to the
brackets: a new snapshot entry is the innermost open one and, as long as `Balanced` holds
(as many brackets are open as stores wait), a pointer closes exactly the store the
code finds. The entries decoded are the concatenation of blocks, and what `FlattenSeq` of one
more list is has to be proved of its recursive function, which is done without induction,
from the least index at which the claim would fail.

### The chains of a store

`StoreWalkProofs` proves of `StoreWalk!Spec`:

| Theorem | Says |
|---|---|
| `BuildInvariantHolds` | `IInv` |
| `BuildTypeCorrect` | `TypeOK`: what is built is a snapshot a reader may start from |
| `BuildErrorsAreFaults` | `snapshot_state` returns `VssError::Io` only if the device failed (a store that is not there, or has no pointers, is refused) |
| `DescriptorsInOrder` | every descriptor before its terminator is filed once, in chain order |
| `BitsAnswer` | the bits of a piece with no gap below it answer for the right blocks |
| `DescriptorsImplementChain`, `BitmapImplementsChain` | both walks refine `ChainWalk` |

`IInv` is `WalkInv` (as in the catalog, for the chain being walked, and what the other one
is meanwhile), `RecordInv` (no terminator behind `record`), `PieceInv` (the pieces are those of the
blocks taken), `FaultInv` and `FilesEveryDescriptor` itself, which is inductive next to
them: its places are ordered pairs of block and record, and filing adds the greatest one
(`FilingKeepsOrder`). `BitsAnswer` is of `Joined` alone: each piece has a place of its own
(`PlacesDiffer`), a bit of the whole comes from one piece (`BitOfOnePiece`), and without
a gap below it the place is what the relative offset says. `DiffAhead` deals with the end of
u64: where the start of the chain saturates, `ChainWalk` and the code both see a block that is
on no volume.

### Opening

`SourceOpenProofs` proves of `SourceOpen!OpenSpec`:

| Theorem | Says |
|---|---|
| `OpeningInvariantHolds` | `OpeningInv` |
| `OpeningIsRight` | `SourceOpen` refines `SnapshotOpening`: the answer is the one the disk deserves, or a fault |

`OpensAsCatalogWalk` shows that opening is a run of `CatalogWalk`, so that everything proved of the
catalog holds while a source is opened. `OpeningInv` adds that nothing is built before the catalog
is done, the invariants of `StoreWalk` on the disk's own stores, and how far each of the
three chains has come: the blocks taken are a beginning of `ChainOf`, which is defined by
recursion on the number of blocks, and all of it once the walk has ended (`ChainGrows`,
`ChainStops`); the map of descriptors is `ByOffset` of the records read, and one more record
extends both in the same way (`ByOffsetNext`). At the end the answer is compared with
`RightAnswer`: the stores by `PointersAreOwned`, the descriptors by `OpeningInv`, and the
bitmap, which the code sorts and `SnapshotOpening` describes as an order of the chain, by
`BitmapIsJoined`. The assumption is `OpenAssumption`: disks are well-typed; their contents and
the way their chains lead into each other are arbitrary.

### The timeline

`CowTimelineProofs` proves of `CowTimeline!Spec`, for any number of blocks, snapshots and
writes:

| Theorem | Says |
|---|---|
| `TimelineInvariantHolds` | `IInv` |
| `NewestIsExact` | `ExactUnlessSavedLater` |
| `StaleSourcesAreBounded` | `StaleOnlyWhereSaved` |

Neither property says what the stores hold, so neither is inductive. `IInv` has two parts per
store: `Answers`, that a block it has a descriptor for was saved as it was at its moment, and
one its bitmap marks was zeros; and `LiveAnswers`, that a block it leaves to the live volume
is there as it was, as long as no later store has saved it. Both are
kept because saved blocks lie beyond the live ones and are never written again.

### The auditor

`StoreAuditProofs` proves of `StoreAudit!Spec`, for any number of stores:

| Theorem | Says |
|---|---|
| `AuditTypeCorrect` | `TypeOK`: no size field makes a read longer than the cap |
| `GapsExact` | the gaps are the runs of missing numbers, each once |
| `DeletionCited` | deletion is cited exactly on occasion |
| `DatesInOrder` | dates tell the stores in the order of their times |
| `FieldsWhole` | a field of information cut short is whole or absent |
| `AttributeChecks` | a fault costs one store its check, and nothing else |

Their inductive invariant (`IInv`, proved as a lemma) says that a header being read is on the
volume and that the gaps are reported before a store is read, which is little beside what the
theorems are about: operators. The
code looks at neighbours in the sorted list and the property at the set of numbers:
`SortedHolds` makes the sorted list one that has the same numbers and grows, `BetweenNeighbours` and
`NeighboursHaveNone` relate the two. `FieldsWhole` follows the layout of the information
through `Parse`, with both names of any length. `AttributeChecks` holds for
every `MaxUsize`: one half of it excepts the stores whose attributes a usize loses (see *Audit*
under bounds), the other does not have to, for attributes that are lost read as not persistent.

### How the operators are put

Sorting and pairing are written so that they can be reasoned about: `Sorted` and
`Bitmap` take an order of places, given by what it has to satisfy, where the community modules would
sort by recursion; `Joined`, `StoresOf` and `ByOffset` number places by counting those before.
That such an order exists (`OrderExists`), and a least and a last element of a set of
places, is in `VolumeGeometryProofs`.

## What is only model-checked

Liveness: `CallsReturn`, `Opens`, `Builds`, `Settles` and `Audits`, which needs fairness and
`ENABLED` and is beyond the prover. The runs that expect a violation exhibit a
behaviour, and there is nothing to prove about them. `StoreWalk` and `SourceOpen` are
proved apart from `SnapshotSource`: that what one builds is what the other may start
from is `StoreWalk!TypeOK` and `SourceAssumption`, not a theorem about a composition.

## What is not modelled

- Severity, category, code and wording of findings, which follow from the kind of an
  anomaly alone; the text of GUIDs, dates and UTF-16 strings, on which nothing depends.
- In `StoreInfo::parse`: the second identifier and the context, which are read like the
  first and the attributes; machine names of an odd number of bytes, whose last byte
  `utf16le_string` drops and after which the second length is read one byte off the words a cell is.
- `StoreBlockRange`, which nothing calls; `relative_store_offset`, which nothing reads.
- A poisoned mutex: the code recovers it, and nothing panics under the lock.
- A volume that is written to during one call, and so metadata torn by a write; between
  opening and reading it changes in `CowTimeline`.
- A reader whose short reads are not errors (`read_exact` turns them into either).
- Forwarder descriptors contribute nothing in the code and in the model; what they
  should contribute is an open question of the project (ADR 0006).
- Fuzz targets, tests, build files and documents.

## Plan

What is left, in the order in which it says most:

1. One statement from the disk to the buffer: that the snapshots of `SourceAssumption` are among
   those `OpeningInv` gives, so that `OpeningIsRight` and `ResultsExact` combine.
2. The composition of the timeline: that a disk whose stores are those of `CowTimeline` opens
   to the metadata the writer had in mind.
3. What bounds the walks: a variant of each loop that decreases with every step, as an
   action property, from which ending follows with the fairness that is only model-checked.
