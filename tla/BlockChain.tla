----------------------------- MODULE BlockChain -----------------------------
(***************************************************************************)
(* The head of the loop that walk_catalog, build_block_map and             *)
(* build_bitmap have in common.                                            *)
(***************************************************************************)
EXTENDS VolumeGeometry

\* mutant: offsets already visited are followed again
LoopEnds_Revisits(next, visited, blocks, cap) ==
  \/ next = 0
  \/ blocks >= cap
  \/ ~BlockInRange(next)

\* mutant: one block more than the cap is read
LoopEnds_OneMore(next, visited, blocks, cap) ==
  \/ next = 0
  \/ blocks > cap
  \/ next \in visited
  \/ ~BlockInRange(next)

(***************************************************************************)
(* The loop ends: the chain does, the cap is reached, the offset has been  *)
(* visited, or no whole block of the volume starts there.                  *)
(***************************************************************************)
LoopEnds(next, visited, blocks, cap) ==
  \/ next = 0
  \/ blocks >= cap
  \/ next \in visited
  \/ ~BlockInRange(next)
=============================================================================
