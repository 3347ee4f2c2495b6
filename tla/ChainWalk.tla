------------------------------ MODULE ChainWalk ------------------------------
(***************************************************************************)
(* What every walk along a chain of on-disk blocks promises.  The catalog, *)
(* the block-descriptor list and the store bitmap are chains: each block   *)
(* names the next one, 0 ends the chain, and on a damaged or forged volume *)
(* the pointers may name anything.                                         *)
(*                                                                         *)
(* A walk takes the blocks of the chain in order, each once, at most Cap   *)
(* of them, only whole blocks of the volume and only blocks of its kind;   *)
(* it ends by itself, or fails because the device did.                     *)
(***************************************************************************)
EXTENDS VolumeGeometry, Sequences

CONSTANTS
  Cap,       \* MAX_CATALOG_BLOCKS, MAX_STORE_BLOCKS
  MaxFaults  \* bound on the faults of the device

VARIABLES
  first,   \* where the chain starts
  chain,   \* [fits, next] of every whole block of the volume
  taken,   \* the blocks taken so far, in order
  status,  \* "walking", "done" or "failed"
  faults

vars == <<first, chain, taken, status, faults>>

\* Offsets at which a whole block of the volume can be read.
WholeBlocks == {o \in Offsets : o + BlockSize <= VolumeSize}

Ahead == IF taken = << >> THEN first ELSE chain[taken[Len(taken)]].next

\* The block ahead belongs to the walk.
Wanted ==
  /\ Ahead # 0
  /\ Ahead \in WholeBlocks
  /\ \A i \in 1 .. Len(taken) : taken[i] # Ahead
  /\ Len(taken) < Cap
  /\ chain[Ahead].fits

Init ==
  /\ first \in Nat
  /\ chain \in [WholeBlocks -> [fits: BOOLEAN, next: Offsets]]
  /\ taken = << >>
  /\ status = "walking"
  /\ faults = 0

Take ==
  /\ status = "walking"
  /\ Wanted
  /\ taken' = Append(taken, Ahead)
  /\ UNCHANGED <<first, chain, status, faults>>

Stop ==
  /\ status = "walking"
  /\ ~Wanted
  /\ status' = "done"
  /\ UNCHANGED <<first, chain, taken, faults>>

Fail ==
  /\ status = "walking"
  /\ faults < MaxFaults
  /\ faults' = faults + 1
  /\ status' = "failed"
  /\ UNCHANGED <<first, chain, taken>>

Next == Take \/ Stop \/ Fail

Spec == Init /\ [][Next]_vars
=============================================================================
