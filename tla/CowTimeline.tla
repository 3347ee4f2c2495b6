----------------------------- MODULE CowTimeline -----------------------------
(***************************************************************************)
(* Where the stores of a volume come from, and what the reader makes of    *)
(* them.  The writer is the operating system, not this repository: it is   *)
(* modelled as docs/RESEARCH.md 1.2 and 1.4 describe it and as             *)
(* reconstruct.rs takes it to be.  The reader is SnapshotView, which the   *)
(* code is checked and proved to compute: one store over the live volume.  *)
(* A source may be opened at any moment and read at any later one: its     *)
(* metadata is of the first, the disk under it of the second.              *)
(***************************************************************************)
EXTENDS SnapshotView

CONSTANTS
  LiveBlocks,   \* how many blocks the file system uses; the stores come after
  MaxSnapshots  \* bound on the snapshots taken

ASSUME TimelineAssumption ==
  /\ LiveBlocks \in Nat
  /\ LiveBlocks * BlockSize <= VolumeSize
  /\ MaxSnapshots \in Nat

VARIABLES
  disk,    \* the volume as it is
  used,    \* numbers of the live blocks in use
  states,  \* the stores, oldest first, as the reader takes them
  truth,   \* history: what the reader owes, by snapshot and address
  free,    \* where the next block is saved
  source   \* the source that was opened: its store (0: none yet) and state

vars == <<disk, used, states, truth, free, source>>

Live == 0 .. LiveBlocks - 1
LiveAddresses == 0 .. LiveBlocks * BlockSize - 1
Newest == Len(states)

Init ==
  /\ disk \in {[a \in 0 .. VolumeSize - 1 |-> IF a \in LiveAddresses THEN v ELSE Zero] :
                 v \in CellValues}
  /\ used \in SUBSET Live
  /\ states = << >>
  /\ truth = << >>
  /\ free = LiveBlocks * BlockSize
  /\ source = [store |-> 0, state |-> [block_map |-> << >>, bitmap |-> {}]]

\* A store starts empty, with the bits of the blocks not in use; those read as
\* zeros ever after.
TakeSnapshot ==
  /\ Newest < MaxSnapshots
  /\ states' = Append(states, [block_map |-> << >>, bitmap |-> Live \ used])
  /\ truth' = Append(truth,
       [a \in LiveAddresses |-> IF a \div BlockSize \in used THEN disk[a] ELSE Zero])
  /\ UNCHANGED <<disk, used, free, source>>

\* The newest store still needs the old content of block b.
NeedsCopy(b) ==
  /\ Newest > 0
  /\ b * BlockSize \notin DOMAIN states[Newest].block_map
  /\ b \notin states[Newest].bitmap

Saved(state, base, store) ==
  LET d == [original_offset |-> base, store_offset |-> store,
            flags |-> {}, allocation_bitmap |-> {}]
  IN  [state EXCEPT !.block_map =
         [o \in DOMAIN @ \cup {base} |-> IF o = base THEN <<d>> ELSE @[o]]]

\* The cells of the block at `off` are those of `content`.
Overwritten(cells, off, content) ==
  [a \in DOMAIN cells |->
     IF a \in off .. off + BlockSize - 1 THEN content[a - off] ELSE cells[a]]

\* The first write to a block since the newest snapshot saves it first.
WriteSaving(b, content) ==
  LET base == b * BlockSize
      old  == [c \in Cells |-> disk[base + c]]
  IN  /\ NeedsCopy(b)
      /\ Readable(free)
      /\ disk' = Overwritten(Overwritten(disk, free, old), base, content)
      /\ states' = [states EXCEPT ![Newest] = Saved(@, base, free)]
      /\ free' = free + BlockSize
      /\ used' = used \cup {b}
      /\ UNCHANGED <<truth, source>>

WritePlain(b, content) ==
  /\ ~NeedsCopy(b)
  /\ disk' = Overwritten(disk, b * BlockSize, content)
  /\ used' = used \cup {b}
  /\ UNCHANGED <<states, truth, free, source>>

\* The file system frees a block; its content stays.
Release(b) ==
  /\ b \in used
  /\ used' = used \ {b}
  /\ UNCHANGED <<disk, states, truth, free, source>>

\* mutant: the bitmap is that of the newest store
OpenSource_NewestBitmap(k) ==
  /\ source.store = 0
  /\ source' = [store |-> k, state |-> [states[k] EXCEPT !.bitmap = states[Newest].bitmap]]
  /\ UNCHANGED <<disk, used, states, truth, free>>

\* VssSnapshotSource::open: descriptors and bitmap are read once and kept.
OpenSource(k) ==
  /\ source.store = 0
  /\ source' = [store |-> k, state |-> states[k]]
  /\ UNCHANGED <<disk, used, states, truth, free>>

Next ==
  \/ TakeSnapshot
  \/ \E b \in Live, content \in [Cells -> CellValues] :
       WriteSaving(b, content) \/ WritePlain(b, content)
  \/ \E b \in Live : Release(b)
  \/ \E k \in 1 .. Newest : OpenSource(k)

Spec == Init /\ [][Next]_vars

-----------------------------------------------------------------------------
(***************************************************************************)
(* Properties.                                                             *)
(***************************************************************************)

\* Block b of snapshot k comes back as it was, read with this state.
Exact(k, state, b) ==
  \A c \in Cells : View(disk, state, b * BlockSize + c) = truth[k][b * BlockSize + c]

\* Some store from the l-th on has saved block b, or its bitmap says it was not in
\* use, so that nothing was saved of it when it was written.
SavedFrom(l, b) ==
  \E later \in l .. Newest :
    \/ DescriptorsAt(states[later], b * BlockSize) # << >>
    \/ b \in states[later].bitmap

\* Read with this state, block b of a store comes from the live volume.
ReadsLive(state, b) ==
  b \notin state.bitmap /\ DescriptorsAt(state, b * BlockSize) = << >>

\* One store over the live volume is enough for every block that the store
\* itself saved or gave up, or that no later store saved: for all of the newest
\* snapshot, and for part of each older one.
ExactUnlessSavedLater ==
  \A k \in 1 .. Newest, b \in Live :
    \/ Exact(k, states[k], b)
    \/ ReadsLive(states[k], b) /\ SavedFrom(k + 1, b)

\* A source that was opened while the volume is still written to goes wrong only
\* where its old metadata leaves a block to the live volume that its store, or a
\* later one, has saved by now: opening it again brings back the blocks of its
\* own store.
StaleOnlyWhereSaved ==
  source.store # 0 =>
    \A b \in Live :
      \/ Exact(source.store, source.state, b)
      \/ ReadsLive(source.state, b) /\ SavedFrom(source.store, b)

\* "reconstructs each snapshot as a point-in-time view of the volume ... so any
\* block can be read back as it was at snapshot time" (docs/index.md).
EverySnapshotExact == \A k \in 1 .. Newest, b \in Live : Exact(k, states[k], b)

-----------------------------------------------------------------------------
(***************************************************************************)
(* What every step keeps, and the two properties rest on.                  *)
(***************************************************************************)
LiveBases == {b * BlockSize : b \in Live}

IsStoreState(state) ==
  /\ state = [block_map |-> state.block_map, bitmap |-> state.bitmap]
  /\ state.block_map = [base \in DOMAIN state.block_map |-> state.block_map[base]]
  /\ DOMAIN state.block_map \subseteq LiveBases
  /\ state.bitmap \subseteq Live

\* Block b of snapshot k is where `off` is on the disk.
HeldAt(off, k, b) ==
  \A c \in Cells : disk[off + c] = truth[k][b * BlockSize + c]

\* Block b of a state is one plain descriptor, of a block saved past the live
\* ones that still holds what snapshot k owes.
SavedBlock(state, k, b) ==
  \E store \in LiveBlocks * BlockSize .. free :
    /\ store + BlockSize <= free
    /\ state.block_map[b * BlockSize] =
         <<[original_offset |-> b * BlockSize, store_offset |-> store,
            flags |-> {}, allocation_bitmap |-> {}]>>
    /\ HeldAt(store, k, b)

\* A state answers for snapshot k wherever it does not read the live volume.
Answers(state, k) ==
  /\ IsStoreState(state)
  /\ \A b \in Live :
       /\ b * BlockSize \in DOMAIN state.block_map => SavedBlock(state, k, b)
       /\ b \in state.bitmap =>
            /\ b * BlockSize \notin DOMAIN state.block_map
            /\ \A c \in Cells : truth[k][b * BlockSize + c] = Zero

\* The live volume answers for a store until a later one saves the block.
LiveAnswers(k) ==
  \A b \in Live :
    ReadsLive(states[k], b) => SavedFrom(k + 1, b) \/ HeldAt(b * BlockSize, k, b)

TypeInv ==
  /\ disk \in [0 .. VolumeSize - 1 -> CellValues]
  /\ used \subseteq Live
  /\ states \in Seq(Range(states))
  /\ truth \in Seq([LiveAddresses -> CellValues])
  /\ Len(truth) = Newest
  /\ free \in LiveBlocks * BlockSize .. VolumeSize
  /\ source.store \in 0 .. Newest

IInv ==
  /\ TypeInv
  /\ \A k \in 1 .. Newest : Answers(states[k], k) /\ LiveAnswers(k)
  /\ source.store # 0 => Answers(source.state, source.store)
=============================================================================
