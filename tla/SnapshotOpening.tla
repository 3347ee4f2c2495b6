--------------------------- MODULE SnapshotOpening ---------------------------
(***************************************************************************)
(* What opening one snapshot of a disk promises: VssSnapshotSource::open,  *)
(* or VssVolume::open and VssVolume::snapshot after it.                    *)
(*                                                                         *)
(* The answer is a function of the disk and of the index asked for: which  *)
(* stores the catalog names, and for a store that is there and has its     *)
(* pointers, the descriptors and the bitmap its two chains hold.  The call *)
(* gives that answer, or fails because the device did.                     *)
(***************************************************************************)
EXTENDS SnapshotView, CatalogEntries

CONSTANTS
  HeaderEnd,         \* where the VSS volume header ends
  MaxCatalogBlocks, MaxStoreBlocks,
  ZeroRecord,        \* a record of zeros
  PieceBits,         \* bits in the payload of a bitmap block
  MaxFaults          \* bound on the faults of the device

VARIABLES
  disk,     \* [vss, catalog_offset, blocks]
  asked,    \* the index asked for (from 1)
  outcome,  \* Pending, or the answer
  faults

vars == <<disk, asked, outcome, faults>>

Pending == [kind |-> "Pending"]
Io == [kind |-> "Io"]
StoreIndexOutOfRange(count) == [kind |-> "StoreIndexOutOfRange", count |-> count]
StoreInfoUnavailable == [kind |-> "StoreInfoUnavailable"]
Ok(state) == [kind |-> "Ok", state |-> state]

\* A block of a chain: a whole block of the volume, of the chain's type.
Fits(blocks, type, o) ==
  /\ o # 0 /\ o + BlockSize <= VolumeSize
  /\ blocks[o].record_type = type
  /\ type = "catalog" => blocks[o].vss

\* Where t, the beginning of a chain from `first`, leads.
LeadsTo(blocks, first, t) == IF t = << >> THEN first ELSE blocks[Last(t)].next_offset

\* The beginning t of a chain with the next block, if there is one.
Grown(blocks, type, first, t) ==
  LET ahead == LeadsTo(blocks, first, t)
  IN  IF Fits(blocks, type, ahead) /\ ~Contains(t, ahead) THEN Append(t, ahead) ELSE t

\* The blocks of a chain of one type from `first`, each once, as far as the chain
\* leads or `cap` allows.
ChainOf(blocks, type, first, cap) ==
  LET upTo[n \in 0 .. cap] == IF n = 0 THEN << >> ELSE Grown(blocks, type, first, upTo[n - 1])
  IN  upTo[cap]

\* A volume that is too small for a header, or has none, has no stores.
Stores ==
  LET catalog == IF VolumeSize >= HeaderEnd /\ disk.vss THEN disk.catalog_offset ELSE 0
      chain == ChainOf(disk.blocks, "catalog", catalog, MaxCatalogBlocks)
  IN  StoresOf(FlattenSeq([i \in DOMAIN chain |-> disk.blocks[chain[i]].entries]))

\* The records of a block in front of its first zero record.
Records(block) ==
  LET zeros == {k \in DOMAIN block.records : block.records[k] = ZeroRecord}
  IN  IF zeros = {} THEN block.records ELSE SubSeq(block.records, 1, Min(zeros) - 1)

\* A list of descriptors by the offset each is for, in the order of the list.
ByOffset(all) ==
  LET for(o) == {i \in DOMAIN all : all[i].original_offset = o}
  IN  [o \in {all[i].original_offset : i \in DOMAIN all} |->
         [k \in 1 .. Cardinality(for(o)) |-> all[Nth(for(o), k)]]]

\* The descriptor list starts one block after the store header; where that is
\* past the end of u64 there is none.
BlockMap(blocks, header) ==
  LET chain == ChainOf(blocks, "diff", header + BlockSize, MaxStoreBlocks)
  IN  ByOffset(FlattenSeq([i \in DOMAIN chain |-> Records(blocks[chain[i]])]))

\* The pieces of the bitmap, lowest relative offset first.
Bitmap(blocks, first) ==
  LET chain == ChainOf(blocks, "bitmap", first, MaxStoreBlocks)
      relative(i) == blocks[chain[i]].relative_offset
      order == CHOOSE p \in Bijection(DOMAIN chain, DOMAIN chain) :
                 \A i, j \in DOMAIN chain : i < j =>
                   \/ relative(p[i]) < relative(p[j])
                   \/ relative(p[i]) = relative(p[j]) /\ p[i] < p[j]
  IN  UNION {{(k - 1) * PieceBits + b : b \in blocks[chain[order[k]]].bits} :
               k \in DOMAIN chain}

\* What the disk says of the snapshot asked for.
RightAnswer ==
  LET stores == Stores
      store == stores[asked]
  IN  IF asked \notin DOMAIN stores THEN StoreIndexOutOfRange(Len(stores))
      ELSE IF None \in {store.header, store.bitmap} THEN StoreInfoUnavailable
      ELSE Ok([block_map |-> BlockMap(disk.blocks, store.header),
               bitmap |-> Bitmap(disk.blocks, store.bitmap)])

Init ==
  /\ asked \in Nat \ {0}
  /\ outcome = Pending
  /\ faults = 0

Succeed ==
  /\ outcome = Pending
  /\ outcome' = RightAnswer
  /\ UNCHANGED <<disk, asked, faults>>

Fail ==
  /\ outcome = Pending
  /\ faults < MaxFaults
  /\ outcome' = Io
  /\ faults' = faults + 1
  /\ UNCHANGED <<disk, asked>>

Next == Succeed \/ Fail

Spec == Init /\ [][Next]_vars
=============================================================================
