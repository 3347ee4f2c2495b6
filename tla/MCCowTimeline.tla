---------------------------- MODULE MCCowTimeline ----------------------------
(***************************************************************************)
(* Small instance of CowTimeline: two live blocks of one cell, three       *)
(* snapshots, and room to save three blocks.  Values other than zero are   *)
(* only ever copied and compared, so they are symmetric.                   *)
(***************************************************************************)
EXTENDS CowTimeline, TLC

ValueSymmetry == Permutations(CellValues \ {Zero})
=============================================================================
