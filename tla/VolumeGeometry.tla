--------------------------- MODULE VolumeGeometry ---------------------------
(***************************************************************************)
(* The address arithmetic every part of vsc-core shares.                   *)
(*                                                                         *)
(* The unit of address is a cell: the smallest run of bytes a model tells  *)
(* apart (one 512-byte sub-block, or a fraction of one).  All offsets are  *)
(* u64 in the code, so they range over 0 .. MaxU64 and the additions that  *)
(* saturate or are checked in the source saturate or are checked here.     *)
(***************************************************************************)
EXTENDS Integers

CONSTANTS
  BlockSize,    \* BLOCK_SIZE (16384 bytes), in cells
  VolumeSize,   \* volume_size: what seeking to the end of the reader returns
  MaxU64        \* u64::MAX

\* 2^64 is a multiple of 16384, and the volume size is itself a u64.
ASSUME GeometryAssumption ==
  /\ BlockSize \in Nat \ {0}
  /\ MaxU64 \in Nat
  /\ (MaxU64 + 1) % BlockSize = 0
  /\ VolumeSize \in 0 .. MaxU64

Offsets == 0 .. MaxU64
Cells   == 0 .. BlockSize - 1

\* mutant: the addition does not saturate
SatAdd_Plain(x, y) == x + y

\* mutant: the addition wraps
SatAdd_Wraps(x, y) == (x + y) % (MaxU64 + 1)

\* u64::saturating_add
SatAdd(x, y) == IF x + y > MaxU64 THEN MaxU64 ELSE x + y

(***************************************************************************)
(* off.checked_add(BLOCK_SIZE) is Some(end) with end <= volume_size: the   *)
(* guard in front of every block the reader fetches.                       *)
(***************************************************************************)
\* mutant: only the start of the block is compared with the volume size
BlockInRange_StartOnly(off) == off < VolumeSize

BlockInRange(off) ==
  /\ off + BlockSize <= MaxU64
  /\ off + BlockSize <= VolumeSize

\* The offset of the aligned block that holds off.  The source multiplies with
\* saturating_mul, which never saturates here: the product is at most off.
BlockBase(off) == (off \div BlockSize) * BlockSize
=============================================================================
