----------------------------- MODULE CatalogWalk -----------------------------
(***************************************************************************)
(* Opening a volume: VssVolume::open and walk_catalog of lib.rs, with the  *)
(* records of catalog.rs.                                                  *)
(*                                                                         *)
(* The catalog is a chain of blocks of entries.  A type-0x02 entry adds a  *)
(* store; a type-0x03 entry brings the offsets of the header and bitmap of *)
(* the store it names, and goes to the newest store of that name which has *)
(* none yet.  The volume is what a disk may hold: any block may be missing *)
(* its type, any pointer may lead anywhere, entries come in any order.     *)
(***************************************************************************)
EXTENDS BlockChain, CatalogEntries

CONSTANTS
  Images,            \* the volumes opened: [vss, catalog_offset, blocks]
  StoreIds,          \* store identifiers (GUIDs)
  HeaderEnd,         \* VSS_VOLUME_HEADER_OFFSET + CATALOG_BLOCK_HEADER_LEN
  MaxCatalogBlocks,  \* MAX_CATALOG_BLOCKS (4096)
  MaxFaults          \* bound on the faults of the device

WholeBlocks == {o \in Offsets : o + BlockSize <= VolumeSize}

\* parse_catalog_entry.  Empty slots and unknown types have no effect and are
\* one kind here.
Entry ==
  [kind: {"snapshot", "other"}, store_id: StoreIds]
  \cup [kind: {"pointer"}, store_id: StoreIds, header: Offsets, bitmap: Offsets]

\* is_catalog_block, catalog_next_block_offset and the entries of a block.
CatalogBlock == [catalog: BOOLEAN, next: Offsets, entries: Seq(Entry)]

IsImage(v) ==
  /\ v = [vss |-> v.vss, catalog_offset |-> v.catalog_offset, blocks |-> v.blocks]
  /\ v.vss \in BOOLEAN
  /\ v.catalog_offset \in Offsets
  /\ DOMAIN v.blocks = WholeBlocks
  /\ \A o \in WholeBlocks : v.blocks[o] \in CatalogBlock

ASSUME CatalogAssumption ==
  /\ \A v \in Images : IsImage(v)
  /\ None \notin Offsets
  /\ HeaderEnd \in Nat
  /\ MaxCatalogBlocks \in Nat
  /\ MaxFaults \in Nat

VARIABLES
  image,           \* the volume
  pc,              \* "header", "loop", "read", "entries", "done" or "failed"
  has_vss_header,
  catalog_offset,
  stores,          \* the StoreDescriptors found so far
  next, visited, blocks,
  entry,           \* index of the next entry of the block at hand
  taken,           \* history: the catalog blocks read, in order
  faults

walk == <<next, visited, blocks>>
vars == <<image, pc, has_vss_header, catalog_offset, stores, walk, entry, taken, faults>>

Store == [store_id: StoreIds, header: Offsets \cup {None}, bitmap: Offsets \cup {None}]

\* The entries of the block at hand.
Entries == image.blocks[next].entries

\* Nothing is read yet.
Unopened ==
  /\ pc = "header"
  /\ has_vss_header = FALSE
  /\ catalog_offset = 0
  /\ stores = << >>
  /\ next = 0
  /\ visited = {}
  /\ blocks = 0
  /\ entry = 1
  /\ taken = << >>
  /\ faults = 0

Init == image \in Images /\ Unopened

\* The volume header is read and the catalog walked if it names one.  On a volume
\* too small to hold a header there is no VSS, no store and no error.
ReadHeader ==
  /\ pc = "header"
  /\ LET room == VolumeSize >= HeaderEnd
     IN  /\ has_vss_header' = (room /\ image.vss)
         /\ catalog_offset' = IF room THEN image.catalog_offset ELSE 0
  /\ next' = catalog_offset'
  /\ pc' = IF has_vss_header' /\ catalog_offset' # 0 THEN "loop" ELSE "done"
  /\ UNCHANGED <<image, stores, visited, blocks, entry, taken, faults>>

EndLoop ==
  /\ pc = "loop"
  /\ LoopEnds(next, visited, blocks, MaxCatalogBlocks)
  /\ pc' = "done"
  /\ visited' = IF next # 0 /\ blocks < MaxCatalogBlocks THEN visited \cup {next} ELSE visited
  /\ UNCHANGED <<image, has_vss_header, catalog_offset, stores, next, blocks, entry, taken, faults>>

EnterBlock ==
  /\ pc = "loop"
  /\ ~LoopEnds(next, visited, blocks, MaxCatalogBlocks)
  /\ visited' = visited \cup {next}
  /\ pc' = "read"
  /\ UNCHANGED <<image, has_vss_header, catalog_offset, stores, next, blocks, entry, taken, faults>>

\* read_exact would run off the end of the volume.
EndOfVolume == next + BlockSize > VolumeSize

\* A block that is no catalog block ends the walk.
ReadBlock ==
  /\ pc = "read"
  /\ ~EndOfVolume
  /\ pc' = IF image.blocks[next].catalog THEN "entries" ELSE "done"
  /\ entry' = 1
  /\ taken' = IF image.blocks[next].catalog THEN Append(taken, next) ELSE taken
  /\ UNCHANGED <<image, has_vss_header, catalog_offset, stores, walk, faults>>

\* VssError::Io: the stores found so far are dropped with the error.
ReadFails ==
  /\ pc \in {"header", "read"}
  /\ LET ranOff == pc = "read" /\ EndOfVolume
     IN  /\ ~ranOff => faults < MaxFaults
         /\ faults' = IF ranOff THEN faults ELSE faults + 1
  /\ pc' = "failed"
  /\ stores' = << >>
  /\ UNCHANGED <<image, has_vss_header, catalog_offset, walk, entry, taken>>

TakeSnapshot ==
  /\ pc = "entries"
  /\ entry <= Len(Entries)
  /\ Entries[entry].kind = "snapshot"
  /\ stores' = Append(stores,
       [store_id |-> Entries[entry].store_id, header |-> None, bitmap |-> None])
  /\ entry' = entry + 1
  /\ UNCHANGED <<image, pc, has_vss_header, catalog_offset, walk, taken, faults>>

\* mutant: a store that already has its pointer takes the next one too
Waiting_Any(id) == {k \in 1 .. Len(stores) : stores[k].store_id = id}

\* The stores a pointer may still go to.
Waiting(id) == {k \in 1 .. Len(stores) : stores[k].store_id = id /\ stores[k].header = None}

\* mutant: the bitmap offset is left behind
Paired_HeaderOnly(store, e) == [store EXCEPT !.header = e.header]

\* Both offsets come from the same entry.
Paired(store, e) == [store EXCEPT !.header = e.header, !.bitmap = e.bitmap]

\* stores.iter_mut().rev().find(..): the newest that waits, if any does.
TakePointer ==
  /\ pc = "entries"
  /\ entry <= Len(Entries)
  /\ Entries[entry].kind = "pointer"
  /\ LET e == Entries[entry]
     IN  stores' = IF Waiting(e.store_id) = {} THEN stores
                   ELSE [stores EXCEPT ![Max(Waiting(e.store_id))] = Paired(@, e)]
  /\ entry' = entry + 1
  /\ UNCHANGED <<image, pc, has_vss_header, catalog_offset, walk, taken, faults>>

\* mutant: an entry without effect is not stepped past
SkipEntry_Stuck ==
  /\ pc = "entries"
  /\ entry <= Len(Entries)
  /\ Entries[entry].kind = "other"
  /\ UNCHANGED vars

SkipEntry ==
  /\ pc = "entries"
  /\ entry <= Len(Entries)
  /\ Entries[entry].kind = "other"
  /\ entry' = entry + 1
  /\ UNCHANGED <<image, pc, has_vss_header, catalog_offset, stores, walk, taken, faults>>

LeaveBlock ==
  /\ pc = "entries"
  /\ entry > Len(Entries)
  /\ blocks' = blocks + 1
  /\ next' = image.blocks[next].next
  /\ pc' = "loop"
  /\ UNCHANGED <<image, has_vss_header, catalog_offset, stores, visited, entry, taken, faults>>

Step ==
  \/ ReadHeader
  \/ EndLoop
  \/ EnterBlock
  \/ ReadBlock
  \/ TakeSnapshot
  \/ TakePointer
  \/ SkipEntry
  \/ LeaveBlock

Next == Step \/ ReadFails

Spec == Init /\ [][Next]_vars

-----------------------------------------------------------------------------
(***************************************************************************)
(* Properties.                                                             *)
(***************************************************************************)

\* Type correctness.
TypeOK ==
  /\ IsImage(image)
  /\ pc \in {"header", "loop", "read", "entries", "done", "failed"}
  /\ has_vss_header \in BOOLEAN
  /\ catalog_offset \in Offsets
  /\ stores \in Seq(Store)
  /\ next \in Offsets
  /\ visited \subseteq Offsets
  /\ blocks \in 0 .. MaxCatalogBlocks
  /\ entry \in Nat \ {0}
  /\ taken \in Seq(WholeBlocks)
  /\ faults \in 0 .. MaxFaults

\* However the pointers of the catalog run, no block is decoded twice, and no
\* more than MAX_CATALOG_BLOCKS are.
NoBlockTwice ==
  /\ Len(taken) <= MaxCatalogBlocks
  /\ \A i, j \in 1 .. Len(taken) : taken[i] = taken[j] => i = j

\* "The bitmap offset is captured from the same type-0x03 entry as the header, so
\* it is present whenever the header is" (snapshot_state in reconstruct.rs).
PointersComeTogether ==
  \A k \in 1 .. Len(stores) : (stores[k].header = None) = (stores[k].bitmap = None)

\* The entries of the walk decoded so far, in order.
Decoded ==
  FlattenSeq([i \in DOMAIN taken |->
    LET all == image.blocks[taken[i]].entries
    IN  IF pc = "entries" /\ i = Len(taken) THEN SubSeq(all, 1, entry - 1) ELSE all])

\* The stores are the snapshot entries of the walk, in order, each with the
\* offsets of the pointer that belongs to it and of no other.
StoresOwnTheirPointers == pc # "failed" => stores = StoresOf(Decoded)

\* No volume makes opening fail by what it holds: VssError::Io is the device's, and
\* open has no other error.
NoErrorWithoutFault == pc = "failed" => faults > 0

\* Where the catalog begins.
First == IF VolumeSize >= HeaderEnd /\ image.vss THEN image.catalog_offset ELSE 0

\* The block after those taken.
Ahead == IF taken = << >> THEN First ELSE image.blocks[taken[Len(taken)]].next

Taken == {taken[i] : i \in 1 .. Len(taken)}

\* What the loop keeps true of the chain behind it and the block ahead.
WalkInv ==
  /\ pc = "header" => taken = << >> /\ visited = {} /\ blocks = 0
  /\ pc = "loop" => visited = Taken /\ next = Ahead /\ Len(taken) = blocks
  /\ pc = "read" =>
       /\ visited = Taken \cup {next} /\ next = Ahead /\ Len(taken) = blocks
       /\ ~LoopEnds(next, Taken, blocks, MaxCatalogBlocks)
  /\ pc = "entries" =>
       /\ visited = Taken /\ next = taken[Len(taken)] /\ Len(taken) = blocks + 1
       /\ next \in WholeBlocks

\* Everything a step of the walk relies on and leaves true.
IInv ==
  /\ TypeOK
  /\ WalkInv
  /\ NoBlockTwice
  /\ PointersComeTogether
  /\ NoErrorWithoutFault

\* The chain as ChainWalk sees it, and how the walk stands.
Catalog ==
  [o \in WholeBlocks |-> [fits |-> image.blocks[o].catalog, next |-> image.blocks[o].next]]

Status == IF pc \in {"done", "failed"} THEN pc ELSE "walking"

\* What every walk along a chain promises.
Promise == INSTANCE ChainWalk WITH
  Cap <- MaxCatalogBlocks,
  first <- First,
  chain <- Catalog,
  status <- Status

\* walk_catalog is such a walk.
Implements == Promise!Spec

\* Opening ends, whatever cycles the catalog has.
Opens == <>(pc \in {"done", "failed"})

\* "None when the catalog has no type-0x03 entry" (StoreDescriptor in catalog.rs):
\* a store without a header offset has no pointer entry in the catalog read.
NoneMeansNoPointer ==
  pc = "done" =>
    \A k \in 1 .. Len(stores) :
      stores[k].header = None => PlacesOf(Decoded, "pointer", stores[k].store_id) = {}
=============================================================================
