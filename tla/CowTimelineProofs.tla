------------------------- MODULE CowTimelineProofs -------------------------
(***************************************************************************)
(* What one store over the live volume is enough for, proved for every     *)
(* volume, block size, number of blocks and of snapshots.                  *)
(***************************************************************************)
EXTENDS CowTimeline, VolumeGeometryProofs

LiveEnd == LiveBlocks * BlockSize

\* A live block lies before the stores, and on the volume.
LEMMA LiveBlockHolds ==
  ASSUME NEW b \in Live
  PROVE  /\ b * BlockSize \in Nat
         /\ b * BlockSize + BlockSize <= LiveEnd
         /\ LiveEnd \in Nat /\ LiveEnd <= VolumeSize
         /\ BlockSize \in Nat \ {0} /\ VolumeSize \in Nat
<1>1. /\ BlockSize \in Nat \ {0} /\ LiveBlocks \in Nat /\ VolumeSize \in Nat
      /\ LiveEnd <= VolumeSize
  BY GeometryAssumption, TimelineAssumption DEF LiveEnd
<1>2. b \in Nat /\ b + 1 \in Nat /\ b + 1 <= LiveBlocks
  BY <1>1 DEF Live
<1>3. (b + 1) * BlockSize <= LiveEnd
  BY <1>1, <1>2, MultipleMonotone DEF LiveEnd
<1>4. (b + 1) * BlockSize = b * BlockSize + BlockSize
  BY <1>1, <1>2
<1>5. b * BlockSize \in Nat /\ LiveEnd \in Nat
  BY <1>1, <1>2 DEF LiveEnd
<1>6. QED
  BY <1>1, <1>3, <1>4, <1>5

\* Live blocks do not overlap.
LEMMA LiveBlocksApart ==
  ASSUME NEW b \in Live, NEW e \in Live, b # e
  PROVE  \/ b * BlockSize + BlockSize <= e * BlockSize
         \/ e * BlockSize + BlockSize <= b * BlockSize
<1>1. BlockSize \in Nat /\ b \in Nat /\ e \in Nat
  BY GeometryAssumption DEF Live
<1>2. ASSUME NEW x \in Nat, NEW y \in Nat, x < y
      PROVE  x * BlockSize + BlockSize <= y * BlockSize
  <2>1. x + 1 \in Nat /\ x + 1 <= y
    BY <1>2
  <2>2. (x + 1) * BlockSize <= y * BlockSize
    BY <2>1, MultipleMonotone
  <2>3. (x + 1) * BlockSize = x * BlockSize + BlockSize
    BY <1>1
  <2>4. QED
    BY <2>2, <2>3
<1>3. b < e \/ e < b
  BY <1>1
<1>4. QED
  BY <1>1, <1>2, <1>3

\* Different blocks are known by different bases.
LEMMA BasesDiffer ==
  ASSUME NEW b \in Live, NEW e \in Live, b * BlockSize = e * BlockSize
  PROVE  b = e
<1>1. CASE b # e
  <2>1. b * BlockSize \in Nat /\ e * BlockSize \in Nat /\ BlockSize \in Nat \ {0}
    BY LiveBlockHolds
  <2>2. QED
    BY <1>1, <2>1, LiveBlocksApart
<1>2. QED
  BY <1>1

\* The address of a cell of a live block.
LEMMA AddressHolds ==
  ASSUME NEW b \in Live, NEW c \in Cells
  PROVE  /\ b * BlockSize + c \in LiveAddresses
         /\ b * BlockSize + c \in 0 .. VolumeSize - 1
         /\ (b * BlockSize + c) \div BlockSize = b
         /\ BlockBase(b * BlockSize + c) = b * BlockSize
<1>1. /\ b * BlockSize \in Nat /\ BlockSize \in Nat \ {0}
      /\ b * BlockSize + BlockSize <= LiveEnd /\ LiveEnd <= VolumeSize
      /\ LiveEnd \in Nat /\ VolumeSize \in Nat
  BY LiveBlockHolds
<1>2. c \in Nat /\ c < BlockSize
  BY <1>1 DEF Cells
<1>3. b \in Nat
  BY TimelineAssumption DEF Live
<1>4. (b * BlockSize + c) \div BlockSize = b
  <2>1. b * BlockSize + c \in Nat
    BY <1>1, <1>2
  <2>2. b * BlockSize <= b * BlockSize + c /\ b * BlockSize + c < b * BlockSize + BlockSize
    BY <1>1, <1>2
  <2>3. QED
    BY <1>3, <2>1, <2>2, BlockUnique
<1>5. QED
  BY <1>1, <1>2, <1>4 DEF LiveAddresses, LiveEnd, BlockBase

-----------------------------------------------------------------------------
(* What the reader makes of a state.                                       *)

\* A cell of a block is read with the descriptors of that block.
LEMMA ReadOfBlock ==
  ASSUME NEW state, NEW b \in Live, NEW c \in Cells
  PROVE  View(disk, state, b * BlockSize + c) = ViewCell(disk, state, b * BlockSize, c)
<1>1. BlockBase(b * BlockSize + c) = b * BlockSize
  BY AddressHolds
<1>2. (b * BlockSize + c) - b * BlockSize = c
  <2>1. b * BlockSize \in Nat /\ BlockSize \in Nat
    BY LiveBlockHolds
  <2>2. QED
    BY <2>1 DEF Cells
<1>3. QED
  BY <1>1, <1>2 DEF View

\* A block with one plain descriptor comes from the store.
LEMMA ReadOfSaved ==
  ASSUME NEW state, NEW base, NEW store, Readable(store), NEW c \in Cells,
         base \in DOMAIN state.block_map,
         state.block_map[base] =
           <<[original_offset |-> base, store_offset |-> store,
              flags |-> {}, allocation_bitmap |-> {}]>>
  PROVE  ViewCell(disk, state, base, c) = disk[store + c]
<1> DEFINE d  == [original_offset |-> base, store_offset |-> store,
                  flags |-> {}, allocation_bitmap |-> {}]
           ds == DescriptorsAt(state, base)
<1>1. ds = <<d>> /\ DOMAIN ds = {1} /\ ds[1] = d /\ ds # << >>
  BY DEF DescriptorsAt
<1>2. OverlaysOver(ds, c) = {}
  BY <1>1 DEF OverlaysOver
<1>3. Plains(ds) = {1}
  BY <1>1 DEF Plains
<1>4. Max(Plains(ds)) = 1
  BY <1>3, LastIs
<1>5. ViewBase(ds, base) = store
  BY <1>1, <1>3, <1>4 DEF ViewBase
<1>6. QED
  BY <1>1, <1>2, <1>5 DEF ViewCell, StoredCell

\* A block without descriptors is zero when its bit is set, and live when not.
LEMMA ReadOfOther ==
  ASSUME NEW state, NEW b \in Live, NEW c \in Cells,
         DescriptorsAt(state, b * BlockSize) = << >>
  PROVE  ViewCell(disk, state, b * BlockSize, c) =
           IF b \in state.bitmap THEN Zero ELSE disk[b * BlockSize + c]
<1> DEFINE base == b * BlockSize
<1>1. OverlaysOver(<< >>, c) = {} /\ Plains(<< >>) = {}
  BY DEF OverlaysOver, Plains
<1>2. Readable(base)
  BY LiveBlockHolds DEF Readable
<1>3. base \div BlockSize = b
  <2>1. base \in Nat /\ BlockSize \in Nat \ {0} /\ b \in Nat
    BY LiveBlockHolds, TimelineAssumption DEF Live
  <2>2. QED
    BY <2>1, BlockUnique
<1>4. ViewBase(<< >>, base) = base
  BY <1>1 DEF ViewBase
<1>5. QED
  BY <1>1, <1>2, <1>3, <1>4 DEF ViewCell, StoredCell

-----------------------------------------------------------------------------
(* What a step leaves alone.                                               *)

\* A sequence is one of its own elements.
LEMMA SequenceOfItsOwn ==
  ASSUME NEW S, NEW t \in Seq(S)
  PROVE  t \in Seq(Range(t))
<1>1. t = [i \in 1 .. Len(t) |-> t[i]] /\ Len(t) \in Nat /\ DOMAIN t = 1 .. Len(t)
  OBVIOUS
<1>2. \A i \in 1 .. Len(t) : t[i] \in Range(t)
  BY <1>1 DEF Range
<1>3. QED
  BY <1>1, <1>2

\* Taking a snapshot appends to the stores.
LEMMA Appended ==
  ASSUME NEW t, t \in Seq(Range(t)), NEW e
  PROVE  /\ Append(t, e) \in Seq(Range(Append(t, e)))
         /\ Len(Append(t, e)) = Len(t) + 1
         /\ \A i \in 1 .. Len(t) : Append(t, e)[i] = t[i]
         /\ Append(t, e)[Len(t) + 1] = e
<1> DEFINE S == Range(t) \cup {e}
<1>1. t \in Seq(S) /\ e \in S
  <2>1. \A i \in 1 .. Len(t) : t[i] \in S
    OBVIOUS
  <2>2. QED
    BY <2>1
<1>2. Append(t, e) \in Seq(S)
  BY <1>1
<1>3. Append(t, e) \in Seq(Range(Append(t, e)))
  BY <1>2, SequenceOfItsOwn
<1> HIDE DEF S
<1>4. QED
  BY <1>1, <1>3

\* Saving a block changes one of them.
LEMMA Replaced ==
  ASSUME NEW t, t \in Seq(Range(t)), NEW i \in DOMAIN t, NEW e
  PROVE  /\ [t EXCEPT ![i] = e] \in Seq(Range([t EXCEPT ![i] = e]))
         /\ Len([t EXCEPT ![i] = e]) = Len(t)
         /\ \A j \in 1 .. Len(t) : [t EXCEPT ![i] = e][j] = IF j = i THEN e ELSE t[j]
<1> DEFINE S == Range(t) \cup {e}
<1>1. t \in Seq(S) /\ e \in S
  <2>1. \A j \in 1 .. Len(t) : t[j] \in S
    OBVIOUS
  <2>2. QED
    BY <2>1
<1>2. [t EXCEPT ![i] = e] \in Seq(S)
  BY <1>1
<1>3. [t EXCEPT ![i] = e] \in Seq(Range([t EXCEPT ![i] = e]))
  BY <1>2, SequenceOfItsOwn
<1> HIDE DEF S
<1>4. QED
  BY <1>1, <1>3

\* Writing a block writes that block.
LEMMA OverwrittenHolds ==
  ASSUME NEW cells \in [0 .. VolumeSize - 1 -> CellValues],
         NEW off \in Nat, off + BlockSize <= VolumeSize,
         NEW content \in [Cells -> CellValues]
  PROVE  /\ Overwritten(cells, off, content) \in [0 .. VolumeSize - 1 -> CellValues]
         /\ \A c \in Cells : Overwritten(cells, off, content)[off + c] = content[c]
         /\ \A a \in 0 .. VolumeSize - 1 :
              a < off \/ off + BlockSize <= a => Overwritten(cells, off, content)[a] = cells[a]
<1>1. BlockSize \in Nat \ {0} /\ VolumeSize \in Nat
  BY GeometryAssumption
<1>2. \A a \in off .. off + BlockSize - 1 : a - off \in Cells
  BY <1>1 DEF Cells
<1>3. \A c \in Cells : /\ off + c \in off .. off + BlockSize - 1
                       /\ off + c \in 0 .. VolumeSize - 1
                       /\ (off + c) - off = c
  BY <1>1 DEF Cells
<1>4. \A c \in Cells : Overwritten(cells, off, content)[off + c] = content[c]
  BY <1>3 DEF Overwritten
<1>5. Overwritten(cells, off, content) \in [0 .. VolumeSize - 1 -> CellValues]
  BY <1>2 DEF Overwritten
<1>6. ASSUME NEW a \in 0 .. VolumeSize - 1, a < off \/ off + BlockSize <= a
      PROVE  Overwritten(cells, off, content)[a] = cells[a]
  <2>1. a \notin off .. off + BlockSize - 1
    BY <1>1, <1>6
  <2>2. QED
    BY <2>1 DEF Overwritten
<1>7. QED
  BY <1>4, <1>5, <1>6

\* The stores begin after the live blocks and end on the volume.
LEMMA EndsHold ==
  ASSUME TypeInv
  PROVE  /\ LiveEnd \in Nat /\ BlockSize \in Nat \ {0} /\ VolumeSize \in Nat
         /\ free \in Nat /\ LiveEnd <= free /\ free <= VolumeSize
<1>1. LiveBlocks \in Nat /\ BlockSize \in Nat \ {0} /\ VolumeSize \in Nat
  BY GeometryAssumption, TimelineAssumption
<1>2. LiveEnd \in Nat
  BY <1>1 DEF LiveEnd
<1>3. free \in LiveEnd .. VolumeSize
  BY DEF TypeInv, LiveEnd
<1>4. QED
  BY <1>1, <1>2, <1>3

\* A state goes on answering while the saved blocks and the truth stay.
LEMMA AnswersStay ==
  ASSUME TypeInv, NEW state, NEW k, Answers(state, k),
         \A a \in LiveEnd .. free - 1 : disk'[a] = disk[a],
         truth'[k] = truth[k],
         free' \in Nat, free <= free'
  PROVE  Answers(state, k)'
<1>1. LiveEnd \in Nat /\ BlockSize \in Nat \ {0} /\ free \in Nat
  BY EndsHold
<1>2. ASSUME NEW b \in Live, NEW store \in LiveEnd .. free, store + BlockSize <= free,
             HeldAt(store, k, b)
      PROVE  HeldAt(store, k, b)'
  <2>1. \A c \in Cells : store + c \in LiveEnd .. free - 1
    BY <1>1, <1>2 DEF Cells
  <2>2. QED
    BY <1>2, <2>1 DEF HeldAt
<1>3. ASSUME NEW b \in Live, SavedBlock(state, k, b)
      PROVE  SavedBlock(state, k, b)'
  <2>1. PICK store \in LiveEnd .. free :
          /\ store + BlockSize <= free
          /\ state.block_map[b * BlockSize] =
               <<[original_offset |-> b * BlockSize, store_offset |-> store,
                  flags |-> {}, allocation_bitmap |-> {}]>>
          /\ HeldAt(store, k, b)
    BY <1>3 DEF SavedBlock, LiveEnd
  <2>2. store \in LiveEnd .. free' /\ store + BlockSize <= free'
    BY <1>1, <2>1
  <2>3. HeldAt(store, k, b)'
    BY <1>2, <2>1
  <2>4. QED
    BY <2>1, <2>2, <2>3 DEF SavedBlock, LiveEnd
<1>4. QED
  BY <1>3 DEF Answers

-----------------------------------------------------------------------------
(* The inductive invariant.                                                *)

LEMMA InitInv == Init => IInv
<1> SUFFICES ASSUME Init
             PROVE  IInv
  OBVIOUS
<1>1. /\ LiveBlocks \in Nat /\ BlockSize \in Nat \ {0} /\ VolumeSize \in Nat
      /\ LiveEnd \in Nat /\ LiveEnd <= VolumeSize
  <2>1. LiveBlocks \in Nat /\ BlockSize \in Nat \ {0} /\ VolumeSize \in Nat
    BY GeometryAssumption, TimelineAssumption
  <2>2. QED
    BY <2>1, TimelineAssumption DEF LiveEnd
<1>2. disk \in [0 .. VolumeSize - 1 -> CellValues]
  BY ViewAssumption DEF Init
<1>3. free \in LiveEnd .. VolumeSize
  BY <1>1 DEF Init, LiveEnd
<1>4. states \in Seq(Range(states)) /\ Newest = 0
  <2>1. states \in Seq({})
    BY DEF Init
  <2>2. QED
    BY <2>1, SequenceOfItsOwn DEF Init, Newest
<1>5. truth \in Seq([LiveAddresses -> CellValues]) /\ Len(truth) = 0
  BY DEF Init
<1>6. TypeInv
  BY <1>2, <1>3, <1>4, <1>5 DEF Init, TypeInv, LiveEnd
<1>7. QED
  BY <1>4, <1>6 DEF Init, IInv

\* What snapshot k owes at an address of a live block.
LEMMA TruthHolds ==
  ASSUME TypeInv, NEW k \in 1 .. Newest
  PROVE  truth[k] \in [LiveAddresses -> CellValues] /\ k \in DOMAIN truth /\ Newest \in Nat
<1>1. Newest \in Nat /\ Len(truth) = Newest /\ truth \in Seq([LiveAddresses -> CellValues])
  BY DEF TypeInv, Newest
<1>2. QED
  BY <1>1

\* Taking a snapshot: the blocks in use are live, the others zero.
LEMMA TakeSnapshotKeeps ==
  ASSUME IInv, TakeSnapshot
  PROVE  IInv'
<1> DEFINE owed == [a \in LiveAddresses |-> IF a \div BlockSize \in used THEN disk[a] ELSE Zero]
<1>1. TypeInv
  BY DEF IInv
<1>2. PICK n, taken : n = Newest + 1 /\ taken = [block_map |-> << >>, bitmap |-> Live \ used]
  OBVIOUS
<1>3. /\ states' \in Seq(Range(states')) /\ Newest' = n
      /\ \A k \in 1 .. Newest : states'[k] = states[k]
      /\ states'[n] = taken
      /\ Newest \in Nat /\ n = Newest + 1
  <2>1. states \in Seq(Range(states)) /\ states' = Append(states, taken)
    BY <1>2, <1>1 DEF TypeInv, TakeSnapshot
  <2>2. QED
    BY <1>2, <2>1, Appended DEF Newest
<1>4. owed \in [LiveAddresses -> CellValues]
  <2>1. \A a \in LiveAddresses : disk[a] \in CellValues
    <3>1. LiveEnd \in Nat /\ VolumeSize \in Nat /\ LiveEnd <= VolumeSize
      BY <1>1, EndsHold
    <3>2. LiveAddresses \subseteq 0 .. VolumeSize - 1
      BY <3>1 DEF LiveAddresses, LiveEnd
    <3>3. QED
      BY <1>1, <3>2 DEF TypeInv
  <2>2. QED
    BY <2>1, ViewAssumption
<1>5. /\ truth' \in Seq([LiveAddresses -> CellValues]) /\ Len(truth') = Newest'
      /\ \A k \in 1 .. Newest : truth'[k] = truth[k]
      /\ truth'[n] = owed
  <2>1. truth' = Append(truth, owed)
    BY DEF TakeSnapshot
  <2>2. truth \in Seq([LiveAddresses -> CellValues]) /\ Len(truth) = Newest
    BY <1>1 DEF TypeInv
  <2> HIDE DEF owed
  <2>3. QED
    BY <1>3, <1>4, <2>1, <2>2
<1>6. disk' = disk /\ used' = used /\ free' = free /\ source' = source /\ free \in Nat
  BY <1>1, EndsHold DEF TakeSnapshot
<1>7. TypeInv'
  <2>1. source.store \in 0 .. Newest'
    BY <1>1, <1>3 DEF TypeInv
  <2>2. QED
    BY <1>1, <1>3, <1>5, <1>6, <2>1 DEF TypeInv
<1>8. ASSUME NEW state, NEW k \in 1 .. Newest, Answers(state, k)
      PROVE  Answers(state, k)'
  BY <1>1, <1>5, <1>6, <1>8, AnswersStay
<1>9. ASSUME NEW k \in 1 .. Newest
      PROVE  (Answers(states[k], k) /\ LiveAnswers(k))'
  <2>1. Answers(states[k], k) /\ LiveAnswers(k)
    BY DEF IInv
  <2>2. Answers(states[k], k)'
    BY <1>3, <1>8, <2>1
  <2>3. ASSUME NEW b \in Live, ReadsLive(states[k], b)'
        PROVE  SavedFrom(k + 1, b)' \/ HeldAt(b * BlockSize, k, b)'
    <3>1. ReadsLive(states[k], b)
      BY <1>3, <2>3 DEF ReadsLive, DescriptorsAt
    <3>2. CASE HeldAt(b * BlockSize, k, b)
      BY <1>5, <1>6, <3>2 DEF HeldAt
    <3>3. CASE SavedFrom(k + 1, b)
      BY <1>3, <3>3 DEF SavedFrom, DescriptorsAt
    <3>4. QED
      BY <2>1, <3>1, <3>2, <3>3 DEF LiveAnswers
  <2>4. QED
    BY <2>2, <2>3 DEF LiveAnswers
<1>10. (Answers(states[n], n) /\ LiveAnswers(n))'
  <2>1. ASSUME NEW b \in Live, NEW c \in Cells
        PROVE  owed[b * BlockSize + c] = IF b \in used THEN disk[b * BlockSize + c] ELSE Zero
    BY AddressHolds
  <2> HIDE DEF owed
  <2>2. IsStoreState(taken)
    BY <1>2 DEF IsStoreState
  <2>3. Answers(taken, n)'
    BY <1>2, <1>5, <1>6, <2>1, <2>2 DEF Answers, IsStoreState
  <2>4. ASSUME NEW b \in Live, ReadsLive(taken, b)
        PROVE  HeldAt(b * BlockSize, n, b)'
    <3>1. b \in used
      BY <1>2, <2>4 DEF ReadsLive
    <3>2. QED
      BY <1>5, <1>6, <2>1, <3>1 DEF HeldAt
  <2>5. QED
    BY <1>3, <2>3, <2>4 DEF LiveAnswers
<1>11. (source.store # 0 => Answers(source.state, source.store))'
  <2>1. CASE source.store = 0
    BY <1>6, <2>1
  <2>2. CASE source.store # 0
    <3>1. source.store \in 1 .. Newest /\ Answers(source.state, source.store)
      BY <1>1, <1>3, <2>2 DEF IInv, TypeInv
    <3>2. QED
      BY <1>6, <1>8, <3>1
  <2>3. QED
    BY <2>1, <2>2
<1>12. QED
  <2>1. ASSUME NEW k \in 1 .. Newest'
        PROVE  (Answers(states[k], k) /\ LiveAnswers(k))'
    <3>1. k \in 1 .. Newest \/ k = n
      BY <1>3
    <3>2. QED
      BY <1>9, <1>10, <3>1
  <2>2. QED
    BY <1>7, <1>11, <2>1 DEF IInv

\* The first write to a block: the newest store gets what it held, and the older
\* ones may now ask that store.
LEMMA WriteSavingKeeps ==
  ASSUME IInv, NEW b \in Live, NEW content \in [Cells -> CellValues], WriteSaving(b, content)
  PROVE  IInv'
<1>1. TypeInv
  BY DEF IInv
<1>2. PICK n, base, spot, was, saved, old :
        /\ n = Newest /\ base = b * BlockSize /\ spot = free
        /\ was = states[n] /\ saved = Saved(was, base, spot)
        /\ old = [c \in Cells |-> disk[base + c]]
  OBVIOUS
<1>3. /\ n \in Nat /\ n > 0 /\ n \in 1 .. Newest
      /\ base \notin DOMAIN states[n].block_map /\ b \notin states[n].bitmap
  BY <1>1, <1>2 DEF WriteSaving, NeedsCopy, TypeInv, Newest
<1>4. /\ states' \in Seq(Range(states')) /\ Newest' = n
      /\ \A k \in 1 .. n : states'[k] = IF k = n THEN saved ELSE states[k]
  <2>1. /\ states \in Seq(Range(states)) /\ states' = [states EXCEPT ![n] = saved]
        /\ n \in DOMAIN states
    BY <1>1, <1>2, <1>3 DEF TypeInv, WriteSaving, Newest
  <2>2. \A k \in 1 .. Len(states) : states'[k] = IF k = n THEN saved ELSE states[k]
    BY <2>1, Replaced
  <2>3. states' \in Seq(Range(states')) /\ Len(states') = Len(states)
    BY <2>1, Replaced
  <2>4. QED
    BY <1>2, <2>2, <2>3 DEF Newest
<1>5. /\ base \in Nat /\ base + BlockSize <= LiveEnd /\ LiveEnd <= free
      /\ free + BlockSize <= VolumeSize /\ free \in Nat /\ LiveEnd \in Nat
      /\ VolumeSize \in Nat /\ BlockSize \in Nat \ {0}
  BY <1>1, <1>2, LiveBlockHolds, EndsHold DEF WriteSaving, Readable
<1>6. /\ disk' \in [0 .. VolumeSize - 1 -> CellValues]
      /\ \A c \in Cells : disk'[free + c] = disk[base + c]
      /\ \A a \in LiveEnd .. free - 1 : disk'[a] = disk[a]
      /\ \A e \in Live \ {b}, c \in Cells : disk'[e * BlockSize + c] = disk[e * BlockSize + c]
  <2> DEFINE mid == Overwritten(disk, free, old)
  <2>1. old \in [Cells -> CellValues] /\ disk \in [0 .. VolumeSize - 1 -> CellValues]
    BY <1>1, <1>2, AddressHolds DEF TypeInv
  <2>2. /\ mid \in [0 .. VolumeSize - 1 -> CellValues]
        /\ \A c \in Cells : mid[free + c] = old[c]
        /\ \A a \in 0 .. VolumeSize - 1 : a < free => mid[a] = disk[a]
    BY <1>5, <2>1, OverwrittenHolds
  <2>3. disk' = Overwritten(mid, base, content)
    BY <1>2 DEF WriteSaving
  <2> HIDE DEF mid
  <2>4. /\ disk' \in [0 .. VolumeSize - 1 -> CellValues]
        /\ \A a \in 0 .. VolumeSize - 1 :
             a < base \/ base + BlockSize <= a => disk'[a] = mid[a]
    <3>1. base + BlockSize <= VolumeSize
      BY <1>5
    <3>2. QED
      BY <1>5, <2>2, <2>3, <3>1, OverwrittenHolds
  <2>5. ASSUME NEW c \in Cells
        PROVE  disk'[free + c] = disk[base + c]
    <3>1. free + c \in 0 .. VolumeSize - 1 /\ base + BlockSize <= free + c
      BY <1>5 DEF Cells
    <3>2. old[c] = disk[base + c]
      BY <1>2
    <3>3. QED
      BY <2>2, <2>4, <3>1, <3>2
  <2>6. ASSUME NEW a \in LiveEnd .. free - 1
        PROVE  disk'[a] = disk[a]
    <3>1. a \in 0 .. VolumeSize - 1 /\ base + BlockSize <= a /\ a < free
      BY <1>5
    <3>2. QED
      BY <2>2, <2>4, <3>1
  <2>7. ASSUME NEW e \in Live \ {b}, NEW c \in Cells
        PROVE  disk'[e * BlockSize + c] = disk[e * BlockSize + c]
    <3>1. /\ e * BlockSize \in Nat /\ e * BlockSize + BlockSize <= LiveEnd
          /\ e * BlockSize + BlockSize <= base \/ base + BlockSize <= e * BlockSize
      BY <1>2, LiveBlockHolds, LiveBlocksApart
    <3>2. PICK a : a = e * BlockSize
      OBVIOUS
    <3>3. /\ a + c \in 0 .. VolumeSize - 1 /\ a + c < free
          /\ a + c < base \/ base + BlockSize <= a + c
      BY <1>5, <3>1, <3>2 DEF Cells
    <3>4. QED
      BY <2>2, <2>4, <3>2, <3>3
  <2>8. QED
    BY <2>4, <2>5, <2>6, <2>7
<1>7. TypeInv'
  <2>1. truth' = truth /\ source' = source /\ used' = used \cup {b} /\ free' = free + BlockSize
    BY DEF WriteSaving
  <2>2. free' \in LiveBlocks * BlockSize .. VolumeSize
    BY <1>5, <2>1 DEF LiveEnd
  <2>3. QED
    BY <1>1, <1>2, <1>4, <1>6, <2>1, <2>2 DEF TypeInv
<1>8. ASSUME NEW state, NEW k, Answers(state, k)
      PROVE  Answers(state, k)'
  <2>1. truth' = truth /\ free' = free + BlockSize
    BY DEF WriteSaving
  <2>2. free' \in Nat /\ free <= free'
    BY <1>5, <2>1
  <2>3. QED
    BY <1>1, <1>6, <1>8, <2>1, <2>2, AnswersStay
<1>9. /\ saved.bitmap = was.bitmap
      /\ DOMAIN saved.block_map = DOMAIN was.block_map \cup {base}
      /\ saved.block_map[base] =
           <<[original_offset |-> base, store_offset |-> spot,
              flags |-> {}, allocation_bitmap |-> {}]>>
      /\ \A o \in DOMAIN was.block_map : o # base => saved.block_map[o] = was.block_map[o]
      /\ IsStoreState(saved)
  <2>1. IsStoreState(was)
    BY <1>2, <1>3 DEF IInv, Answers
  <2>2. base \in LiveBases
    BY <1>2 DEF LiveBases
  <2>3. saved = [block_map |->
                   [o \in DOMAIN was.block_map \cup {base} |->
                      IF o = base
                      THEN <<[original_offset |-> base, store_offset |-> spot,
                              flags |-> {}, allocation_bitmap |-> {}]>>
                      ELSE was.block_map[o]],
                 bitmap |-> was.bitmap]
    BY <1>2, <2>1 DEF Saved, IsStoreState
  <2>4. QED
    BY <2>1, <2>2, <2>3 DEF IsStoreState
<1>10. HeldAt(spot, n, b)'
  <2>1. ReadsLive(was, b)
    BY <1>2, <1>3 DEF ReadsLive, DescriptorsAt
  <2>2. ~SavedFrom(n + 1, b)
    BY <1>2, <1>3 DEF SavedFrom
  <2>3. HeldAt(base, n, b)
    BY <1>2, <1>3, <2>1, <2>2 DEF IInv, LiveAnswers
  <2>4. \A c \in Cells : disk'[spot + c] = truth'[n][base + c]
    BY <1>2, <1>6, <2>3 DEF HeldAt, WriteSaving
  <2>5. QED
    BY <1>2, <2>4 DEF HeldAt
<1>11. Answers(saved, n)'
  <2>1. Answers(was, n) /\ truth' = truth /\ free' = free + BlockSize
    BY <1>2, <1>3 DEF IInv, WriteSaving
  <2>2. Answers(was, n)'
    BY <1>8, <2>1
  <2>3. SavedBlock(saved, n, b)'
    <3>1. spot \in LiveBlocks * BlockSize .. free' /\ spot + BlockSize <= free'
      BY <1>2, <1>5, <2>1 DEF LiveEnd
    <3>2. QED
      BY <1>2, <1>9, <1>10, <3>1 DEF SavedBlock
  <2>4. ASSUME NEW e \in Live, e # b
        PROVE  /\ e * BlockSize \in DOMAIN saved.block_map => SavedBlock(saved, n, e)'
               /\ e \in saved.bitmap =>
                    /\ e * BlockSize \notin DOMAIN saved.block_map
                    /\ \A c \in Cells : truth'[n][e * BlockSize + c] = Zero
    <3>1. e * BlockSize # base
      BY <1>2, <2>4, BasesDiffer
    <3>2. ASSUME e * BlockSize \in DOMAIN saved.block_map, SavedBlock(was, n, e)'
          PROVE  SavedBlock(saved, n, e)'
      <4>1. saved.block_map[e * BlockSize] = was.block_map[e * BlockSize]
        BY <1>9, <3>1, <3>2
      <4>2. QED
        BY <3>2, <4>1 DEF SavedBlock
    <3>3. QED
      BY <1>9, <2>2, <3>1, <3>2 DEF Answers
  <2>5. QED
    BY <1>2, <1>3, <1>9, <2>3, <2>4 DEF Answers
<1>12. ASSUME NEW e \in Live
       PROVE  IF e = b THEN DescriptorsAt(saved, e * BlockSize) # << >>
              ELSE DescriptorsAt(saved, e * BlockSize) = DescriptorsAt(was, e * BlockSize)
  <2>1. CASE e = b
    <3>1. DescriptorsAt(saved, e * BlockSize) = saved.block_map[base]
      BY <1>2, <1>9, <2>1 DEF DescriptorsAt
    <3>2. PICK d : saved.block_map[base] = <<d>>
      BY <1>9
    <3>3. <<d>> # << >>
      OBVIOUS
    <3>4. QED
      BY <2>1, <3>1, <3>2, <3>3
  <2>2. CASE e # b
    <3>1. e * BlockSize # base
      BY <1>2, <2>2, BasesDiffer
    <3>2. QED
      BY <1>9, <2>2, <3>1 DEF DescriptorsAt
  <2>3. QED
    BY <2>1, <2>2
<1>13. ASSUME NEW k \in 1 .. n
       PROVE  Answers(states[k], k)' /\ LiveAnswers(k)'
  <2>1. Answers(states[k], k) /\ LiveAnswers(k)
    BY <1>2 DEF IInv
  <2>2. Answers(states[k], k)'
    BY <1>4, <1>8, <1>11, <2>1
  <2>3. ASSUME NEW e \in Live, NEW l \in Nat \ {0}, SavedFrom(l, e)
        PROVE  SavedFrom(l, e)'
    <3>1. PICK later \in l .. n :
            DescriptorsAt(states[later], e * BlockSize) # << >> \/ e \in states[later].bitmap
      BY <1>2, <2>3 DEF SavedFrom
    <3>2. later \in l .. Newest' /\ later \in 1 .. n
      BY <1>3, <1>4, <2>3
    <3>3. \/ DescriptorsAt(states'[later], e * BlockSize) # << >>
          \/ e \in states'[later].bitmap
      BY <1>2, <1>4, <1>9, <1>12, <3>1, <3>2
    <3>4. QED
      BY <3>2, <3>3 DEF SavedFrom
  <2>4. ASSUME NEW e \in Live, ReadsLive(states[k], e)', e = b
        PROVE  SavedFrom(k + 1, e)'
    <3>1. k # n
      BY <1>3, <1>4, <1>12, <2>4 DEF ReadsLive
    <3>2. n \in k + 1 .. Newest' /\ DescriptorsAt(states'[n], e * BlockSize) # << >>
      BY <1>3, <1>4, <1>12, <2>4, <3>1
    <3>3. QED
      BY <3>2 DEF SavedFrom
  <2>5. ASSUME NEW e \in Live, ReadsLive(states[k], e)', e # b
        PROVE  SavedFrom(k + 1, e)' \/ HeldAt(e * BlockSize, k, e)'
    <3>1. ReadsLive(states[k], e)
      BY <1>2, <1>4, <1>9, <1>12, <2>5 DEF ReadsLive
    <3>2. CASE HeldAt(e * BlockSize, k, e)
      BY <1>6, <2>5, <3>2 DEF HeldAt, WriteSaving
    <3>3. CASE SavedFrom(k + 1, e)
      BY <2>3, <3>3
    <3>4. QED
      BY <2>1, <3>1, <3>2, <3>3 DEF LiveAnswers
  <2>6. QED
    BY <2>2, <2>4, <2>5 DEF LiveAnswers
<1>14. (source.store # 0 => Answers(source.state, source.store))'
  <2>1. source' = source
    BY DEF WriteSaving
  <2>2. source.store # 0 => Answers(source.state, source.store)
    BY DEF IInv
  <2>3. QED
    BY <1>8, <2>1, <2>2
<1>15. QED
  BY <1>4, <1>7, <1>13, <1>14 DEF IInv

\* Any other write changes nothing that a store still reads there.
LEMMA WritePlainKeeps ==
  ASSUME IInv, NEW b \in Live, NEW content \in [Cells -> CellValues], WritePlain(b, content)
  PROVE  IInv'
<1>1. TypeInv
  BY DEF IInv
<1>2. PICK n, base : n = Newest /\ base = b * BlockSize /\ n \in Nat
  BY <1>1 DEF TypeInv, Newest
<1>3. /\ states' = states /\ truth' = truth /\ free' = free /\ source' = source
      /\ used' = used \cup {b} /\ disk' = Overwritten(disk, base, content) /\ Newest' = n
  BY <1>2 DEF WritePlain, Newest
<1>4. /\ base \in Nat /\ base + BlockSize <= LiveEnd /\ LiveEnd <= free
      /\ free <= VolumeSize /\ free \in Nat /\ LiveEnd \in Nat
      /\ VolumeSize \in Nat /\ BlockSize \in Nat \ {0}
  BY <1>1, <1>2, LiveBlockHolds, EndsHold
<1>5. /\ disk' \in [0 .. VolumeSize - 1 -> CellValues]
      /\ \A a \in 0 .. VolumeSize - 1 :
           a < base \/ base + BlockSize <= a => disk'[a] = disk[a]
  <2>1. base + BlockSize <= VolumeSize /\ disk \in [0 .. VolumeSize - 1 -> CellValues]
    BY <1>1, <1>4 DEF TypeInv
  <2>2. QED
    BY <1>3, <1>4, <2>1, OverwrittenHolds
<1>6. \A a \in LiveEnd .. free - 1 : disk'[a] = disk[a]
  BY <1>4, <1>5
<1>7. ASSUME NEW e \in Live \ {b}, NEW c \in Cells
      PROVE  disk'[e * BlockSize + c] = disk[e * BlockSize + c]
  <2>1. /\ e * BlockSize \in Nat /\ e * BlockSize + BlockSize <= LiveEnd
        /\ e * BlockSize + BlockSize <= base \/ base + BlockSize <= e * BlockSize
    BY <1>2, LiveBlockHolds, LiveBlocksApart
  <2>2. PICK a : a = e * BlockSize
    OBVIOUS
  <2>3. /\ a + c \in 0 .. VolumeSize - 1
        /\ a + c < base \/ base + BlockSize <= a + c
    BY <1>4, <2>1, <2>2 DEF Cells
  <2>4. QED
    BY <1>5, <2>2, <2>3
<1>8. TypeInv'
  BY <1>1, <1>2, <1>3, <1>5 DEF TypeInv
<1>9. ASSUME NEW state, NEW k, Answers(state, k)
      PROVE  Answers(state, k)'
  BY <1>1, <1>3, <1>4, <1>6, <1>9, AnswersStay
<1>10. n # 0 => ~ReadsLive(states[n], b)
  <2>1. SUFFICES ASSUME n # 0, ReadsLive(states[n], b)
                 PROVE  FALSE
    OBVIOUS
  <2>2. base \in DOMAIN states[n].block_map
    BY <1>2, <2>1 DEF WritePlain, NeedsCopy, ReadsLive
  <2>3. SavedBlock(states[n], n, b)
    BY <1>2, <2>1, <2>2 DEF IInv, Answers
  <2>4. Len(states[n].block_map[base]) = 1
    BY <1>2, <2>3 DEF SavedBlock
  <2>5. QED
    BY <1>2, <2>1, <2>2, <2>4 DEF ReadsLive, DescriptorsAt
<1>11. ASSUME NEW k \in 1 .. n
       PROVE  Answers(states[k], k)' /\ LiveAnswers(k)'
  <2>1. Answers(states[k], k) /\ LiveAnswers(k)
    BY <1>2 DEF IInv
  <2>2. Answers(states[k], k)'
    BY <1>3, <1>9, <2>1
  <2>3. ASSUME NEW e \in Live, ReadsLive(states[k], e)
        PROVE  SavedFrom(k + 1, e) \/ HeldAt(e * BlockSize, k, e)'
    <3>1. CASE e = b
      <4>1. k + 1 \in Nat /\ n \in k + 1 .. Newest
        BY <1>2, <1>10, <2>3, <3>1
      <4>2. DescriptorsAt(states[n], e * BlockSize) # << >> \/ e \in states[n].bitmap
        BY <1>2, <1>10, <3>1 DEF ReadsLive
      <4>3. QED
        BY <4>1, <4>2 DEF SavedFrom
    <3>2. CASE e # b
      BY <1>3, <1>7, <2>1, <2>3, <3>2 DEF LiveAnswers, HeldAt
    <3>3. QED
      BY <3>1, <3>2
  <2>4. ASSUME NEW e \in Live, SavedFrom(k + 1, e)
        PROVE  SavedFrom(k + 1, e)'
    BY <1>2, <1>3, <2>4 DEF SavedFrom
  <2>5. ASSUME NEW e \in Live, ReadsLive(states[k], e)'
        PROVE  ReadsLive(states[k], e)
    BY <1>3, <2>5 DEF ReadsLive
  <2>6. QED
    BY <2>2, <2>3, <2>4, <2>5 DEF LiveAnswers
<1>12. (source.store # 0 => Answers(source.state, source.store))'
  BY <1>3, <1>9 DEF IInv
<1>13. QED
  BY <1>3, <1>8, <1>11, <1>12 DEF IInv

\* Freeing a block and opening a source change no block.
LEMMA OthersKeep ==
  ASSUME IInv, \/ \E b \in Live : Release(b)
               \/ \E k \in 1 .. Newest : OpenSource(k)
               \/ UNCHANGED vars
  PROVE  IInv'
<1>1. TypeInv
  BY DEF IInv
<1>2. disk' = disk /\ states' = states /\ truth' = truth /\ free' = free
  BY DEF Release, OpenSource, vars
<1>3. ASSUME NEW state, NEW k, Answers(state, k)
      PROVE  Answers(state, k)'
  <2>1. free \in Nat
    BY <1>1, EndsHold
  <2>2. QED
    BY <1>1, <1>2, <1>3, <2>1, AnswersStay
<1>4. ASSUME NEW k \in 1 .. Newest
      PROVE  Answers(states[k], k)' /\ LiveAnswers(k)'
  <2>1. Answers(states[k], k) /\ LiveAnswers(k)
    BY DEF IInv
  <2>2. Answers(states[k], k)'
    BY <1>2, <1>3, <2>1
  <2>3. QED
    BY <1>2, <2>1, <2>2 DEF LiveAnswers, HeldAt, ReadsLive, SavedFrom, Newest
<1>5. /\ used' \subseteq Live
      /\ source'.store \in 0 .. Newest
      /\ source'.store # 0 => Answers(source'.state, source'.store)
  <2>1. used \subseteq Live /\ source.store \in 0 .. Newest /\ Newest \in Nat
    BY <1>1 DEF TypeInv, Newest
  <2>2. source.store # 0 => Answers(source.state, source.store)
    BY DEF IInv
  <2>3. CASE \E b \in Live : Release(b)
    BY <2>1, <2>2, <2>3 DEF Release
  <2>4. CASE \E k \in 1 .. Newest : OpenSource(k)
    <3>1. PICK k \in 1 .. Newest : OpenSource(k)
      BY <2>4
    <3>2. source' = [store |-> k, state |-> states[k]] /\ used' = used
      BY <3>1 DEF OpenSource
    <3>3. Answers(states[k], k)
      BY DEF IInv
    <3>4. QED
      BY <2>1, <3>2, <3>3
  <2>5. CASE UNCHANGED vars
    BY <2>1, <2>2, <2>5 DEF vars
  <2>6. QED
    BY <2>3, <2>4, <2>5
<1>6. TypeInv'
  BY <1>1, <1>2, <1>5 DEF TypeInv, Newest
<1>7. (source.store # 0 => Answers(source.state, source.store))'
  BY <1>3, <1>5
<1>8. QED
  BY <1>2, <1>4, <1>6, <1>7 DEF IInv, Newest

LEMMA NextKeeps == IInv /\ [Next]_vars => IInv'
<1> SUFFICES ASSUME IInv, [Next]_vars
             PROVE  IInv'
  OBVIOUS
<1>1. CASE TakeSnapshot
  BY <1>1, TakeSnapshotKeeps
<1>2. CASE \E b \in Live, content \in [Cells -> CellValues] :
             WriteSaving(b, content) \/ WritePlain(b, content)
  BY <1>2, WriteSavingKeeps, WritePlainKeeps
<1>3. CASE \E b \in Live : Release(b)
  BY <1>3, OthersKeep
<1>4. CASE \E k \in 1 .. Newest : OpenSource(k)
  BY <1>4, OthersKeep
<1>5. CASE UNCHANGED vars
  BY <1>5, OthersKeep
<1>6. QED
  BY <1>1, <1>2, <1>3, <1>4, <1>5 DEF Next

\* Every state answers for its snapshot where it does not read the live volume,
\* and the live volume does until a later store saves the block.
THEOREM TimelineInvariantHolds == Spec => []IInv
<1>1. QED
  BY InitInv, NextKeeps, PTL DEF Spec

-----------------------------------------------------------------------------
(* What the reader gets.                                                   *)

\* A state that answers for a snapshot is exact wherever it does not leave a
\* block to the live volume, and there too if the live volume holds it.
LEMMA AnswersRead ==
  ASSUME TypeInv, NEW state, NEW k, Answers(state, k), NEW b \in Live,
         ReadsLive(state, b) => HeldAt(b * BlockSize, k, b)
  PROVE  Exact(k, state, b)
<1> SUFFICES ASSUME NEW c \in Cells
             PROVE  View(disk, state, b * BlockSize + c) = truth[k][b * BlockSize + c]
  BY DEF Exact
<1> DEFINE base == b * BlockSize
<1>1. View(disk, state, base + c) = ViewCell(disk, state, base, c)
  BY ReadOfBlock
<1>2. CASE base \in DOMAIN state.block_map
  <2>1. PICK store \in LiveBlocks * BlockSize .. free :
          /\ store + BlockSize <= free
          /\ state.block_map[base] =
               <<[original_offset |-> base, store_offset |-> store,
                  flags |-> {}, allocation_bitmap |-> {}]>>
          /\ HeldAt(store, k, b)
    BY <1>2 DEF Answers, SavedBlock
  <2>2. Readable(store)
    <3>1. free \in Nat /\ VolumeSize \in Nat /\ BlockSize \in Nat \ {0}
          /\ free <= VolumeSize /\ LiveBlocks * BlockSize \in Nat
      BY EndsHold DEF LiveEnd
    <3>2. QED
      BY <2>1, <3>1 DEF Readable
  <2>3. ViewCell(disk, state, base, c) = disk[store + c]
    BY <1>2, <2>1, <2>2, ReadOfSaved
  <2>4. QED
    BY <1>1, <2>1, <2>3 DEF HeldAt
<1>3. CASE base \notin DOMAIN state.block_map
  <2>1. DescriptorsAt(state, base) = << >>
    BY <1>3 DEF DescriptorsAt
  <2>2. ViewCell(disk, state, base, c) =
          IF b \in state.bitmap THEN Zero ELSE disk[base + c]
    BY <2>1, ReadOfOther
  <2>3. CASE b \in state.bitmap
    BY <1>1, <2>2, <2>3 DEF Answers
  <2>4. CASE b \notin state.bitmap
    BY <1>1, <2>1, <2>2, <2>4 DEF ReadsLive, HeldAt
  <2>5. QED
    BY <2>3, <2>4
<1>4. QED
  BY <1>2, <1>3

\* One store over the live volume is exact, for every snapshot, on every block
\* the store saved or gave up or no later store saved; on all of the newest.
THEOREM NewestIsExact == Spec => []ExactUnlessSavedLater
<1>1. IInv => ExactUnlessSavedLater
  <2> SUFFICES ASSUME IInv, NEW k \in 1 .. Newest, NEW b \in Live,
                      ~(ReadsLive(states[k], b) /\ SavedFrom(k + 1, b))
               PROVE  Exact(k, states[k], b)
    BY DEF ExactUnlessSavedLater
  <2>1. TypeInv /\ Answers(states[k], k) /\ LiveAnswers(k)
    BY DEF IInv
  <2>2. ReadsLive(states[k], b) => HeldAt(b * BlockSize, k, b)
    BY <2>1 DEF LiveAnswers
  <2>3. QED
    BY <2>1, <2>2, AnswersRead
<1>2. QED
  BY <1>1, TimelineInvariantHolds, PTL

\* A source opened in the past is wrong at most on blocks that its metadata
\* leaves to the live volume and that its store, or a later one, has saved.
THEOREM StaleSourcesAreBounded == Spec => []StaleOnlyWhereSaved
<1>1. IInv => StaleOnlyWhereSaved
  <2> SUFFICES ASSUME IInv, source.store # 0, NEW b \in Live,
                      ~(ReadsLive(source.state, b) /\ SavedFrom(source.store, b))
               PROVE  Exact(source.store, source.state, b)
    BY DEF StaleOnlyWhereSaved
  <2>1. PICK k, state : k = source.store /\ state = source.state
    OBVIOUS
  <2>2. TypeInv /\ k \in 1 .. Newest /\ Newest \in Nat /\ Answers(state, k)
    BY <2>1 DEF IInv, TypeInv, Newest
  <2>3. ASSUME ReadsLive(state, b)
        PROVE  HeldAt(b * BlockSize, k, b)
    <3>1. ~SavedFrom(k, b)
      BY <2>1, <2>3
    <3>2. ReadsLive(states[k], b) /\ ~SavedFrom(k + 1, b)
      BY <2>2, <3>1 DEF SavedFrom, ReadsLive
    <3>3. LiveAnswers(k)
      BY <2>2 DEF IInv
    <3>4. QED
      BY <3>2, <3>3 DEF LiveAnswers
  <2>4. QED
    BY <2>1, <2>2, <2>3, AnswersRead
<1>2. QED
  BY <1>1, TimelineInvariantHolds, PTL
=============================================================================
