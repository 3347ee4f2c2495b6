------------------------------ MODULE SourceOpen ------------------------------
(***************************************************************************)
(* VssSnapshotSource::open of vfs.rs: a reader is opened as a volume and   *)
(* the snapshot of one of its stores is made.                              *)
(*                                                                         *)
(* CatalogWalk and StoreWalk are put one after the other on one disk.  The *)
(* second starts from the stores the first found, and the blocks of either *)
(* chain may be blocks of the other's.                                     *)
(***************************************************************************)
EXTENDS CatalogWalk

CONSTANTS
  Disks,            \* what is opened: [vss, catalog_offset, blocks]
  Indices,          \* the stores asked for (from 1)
  SubBlockSize, Zero, CellValues, ZeroRecord, RecordsPerBlock, PieceBits, MaxStoreBlocks

\* A disk as open sees it: both kinds of block have the identifier, the record
\* type and the next offset in the same places of their header.
CatalogView(d) ==
  [vss |-> d.vss, catalog_offset |-> d.catalog_offset,
   blocks |-> [o \in WholeBlocks |->
     [catalog |-> d.blocks[o].vss /\ d.blocks[o].record_type = "catalog",
      next |-> d.blocks[o].next_offset, entries |-> d.blocks[o].entries]]]

VARIABLES
  disk, asked,
  \* The variables of StoreWalk, those with a name CatalogWalk uses renamed.
  building, walking, block_next, block_visited, block_count, record,
  block_map, pieces, bitmap, block_taken, block_faults

buildVars == <<building, walking, block_next, block_visited, block_count, record,
               block_map, pieces, bitmap, block_taken, block_faults>>

Build == INSTANCE StoreWalk WITH
  Images <- {},
  image <- [stores |-> stores, blocks |-> disk.blocks],
  index <- asked,
  pc <- building,
  next <- block_next, visited <- block_visited, blocks <- block_count,
  taken <- block_taken,
  faults <- block_faults

\* A block has the payload of StoreWalk's blocks next to that of CatalogWalk's.
IsDisk(d) ==
  \A o \in WholeBlocks :
    /\ d.blocks[o].relative_offset \in Offsets
    /\ d.blocks[o].records \in [1 .. RecordsPerBlock -> Build!BlockDescriptor \cup {ZeroRecord}]

ASSUME OpenAssumption ==
  /\ Images = {CatalogView(d) : d \in Disks}
  /\ \A d \in Disks : IsDisk(d)
  /\ ZeroRecord \notin Build!BlockDescriptor
  /\ RecordsPerBlock \in Nat \ {0}
  /\ MaxStoreBlocks \in Nat
  /\ Indices \subseteq Nat \ {0}

OpenInit ==
  /\ disk \in Disks
  /\ asked \in Indices
  /\ image = CatalogView(disk)
  /\ Unopened
  /\ Build!Fresh

\* let mut volume = VssVolume::open(reader)?
OpenVolume ==
  /\ Next
  /\ UNCHANGED <<disk, asked, buildVars>>

\* let state = volume.snapshot_state(index)?
MakeSnapshot ==
  /\ pc = "done"
  /\ UNCHANGED <<disk, asked, vars>>
  /\ Build!Next

OpenNext == OpenVolume \/ MakeSnapshot

OpenSpec == OpenInit /\ [][OpenNext]_<<vars, disk, asked, buildVars>>

\* open is one call that keeps running.  Its steps are named apart from the
\* faults of the device: none of those has to happen.
OpenStep ==
  \/ Step /\ UNCHANGED <<disk, asked, buildVars>>
  \/ pc = "done" /\ UNCHANGED <<disk, asked, vars>> /\ Build!Step

FairOpenSpec == OpenSpec /\ WF_<<vars, disk, asked, buildVars>>(OpenStep)

-----------------------------------------------------------------------------
(***************************************************************************)
(* Properties.                                                             *)
(***************************************************************************)

\* What the caller of open has been told.
Outcome ==
  CASE pc = "failed" \/ building = "failed" -> [kind |-> "Io"]
    [] building = "out_of_range" -> [kind |-> "StoreIndexOutOfRange", count |-> Len(stores)]
    [] building = "unavailable" -> [kind |-> "StoreInfoUnavailable"]
    [] building = "done" ->
         [kind |-> "Ok", state |-> [block_map |-> block_map, bitmap |-> bitmap]]
    [] OTHER -> [kind |-> "Pending"]

Opening == INSTANCE SnapshotOpening WITH
  outcome <- Outcome,
  faults <- faults + block_faults

\* Opening gives the snapshot that the disk describes, or the error that the disk
\* deserves, or fails because the device did; it never gives part of a snapshot.
OpeningImplements == Opening!Spec

\* Opening a source ends, whatever the three chains of the disk are.
Settles == <>(pc = "failed" \/ building \in Build!Ended)

-----------------------------------------------------------------------------
(***************************************************************************)
(* What opening maintains on the way, and OpeningImplements rests on.      *)
(***************************************************************************)
\* Where the chains of the store asked for begin.
ChainStart(c) ==
  IF c = "diff" THEN stores[asked].header + BlockSize ELSE stores[asked].bitmap

\* What follows from the i-th block of the descriptor list, as far as it is read.
RecordsRead(i) ==
  LET block == disk.blocks[block_taken["diff"][i]]
  IN  IF building = "records" /\ i = Len(block_taken["diff"])
      THEN SubSeq(block.records, 1, record - 1)
      ELSE Opening!Records(block)

\* The blocks taken are the beginning of the catalog, and all of it at the end.
CatalogInv ==
  /\ taken = Opening!ChainOf(disk.blocks, "catalog", First, Len(taken))
  /\ pc = "done" => taken = Opening!ChainOf(disk.blocks, "catalog", First, MaxCatalogBlocks)
  /\ faults > 0 => pc = "failed"

\* The same of the two chains of the store, the second begun after the first is
\* done; and the map is that of the descriptors read.
ChainsInv ==
  /\ \A c \in Build!Chains :
       /\ block_taken[c] = Opening!ChainOf(disk.blocks, c, ChainStart(c), Len(block_taken[c]))
       /\ building = "done" \/ (c = "diff" /\ walking = "bitmap") =>
            block_taken[c] = Opening!ChainOf(disk.blocks, c, ChainStart(c), MaxStoreBlocks)
  /\ block_map = Opening!ByOffset(FlattenSeq([i \in DOMAIN block_taken["diff"] |-> RecordsRead(i)]))

BuildTypes ==
  /\ building \in {"start", "loop", "read", "records"} \cup Build!Ended
  /\ walking \in Build!Chains
  /\ block_next \in Offsets
  /\ block_count \in 0 .. MaxStoreBlocks
  /\ record \in 1 .. RecordsPerBlock + 1
  /\ block_taken \in [Build!Chains -> Seq(WholeBlocks)]
  /\ block_faults \in 0 .. MaxFaults

\* The inductive invariant of open, next to that of CatalogWalk: a snapshot is made
\* only of a volume that is open, and each chain gives what the disk holds.
OpeningInv ==
  /\ IsDisk(disk) /\ asked \in Indices /\ image = CatalogView(disk)
  /\ CatalogInv
  /\ building # "start" => pc = "done"
  /\ BuildTypes
  /\ Build!WalkInv /\ Build!RecordInv /\ Build!PieceInv /\ Build!FaultInv
  /\ ChainsInv
=============================================================================
