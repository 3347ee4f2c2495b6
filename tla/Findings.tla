------------------------------- MODULE Findings -------------------------------
(***************************************************************************)
(* What a reader of the report is told: an anomaly of the auditor becomes  *)
(* a finding with the techniques it is consistent with, the store it is    *)
(* about, evidence and dates.  Severity, category and wording go with the  *)
(* kind alone and are left out.                                            *)
(***************************************************************************)
EXTENDS VolumeGeometry

CONSTANTS
  EpochDiff,     \* FILETIME_EPOCH_DIFF: 1970 in FILETIME ticks
  NanosPerTick,  \* 100
  MaxNanos       \* the last instant of jiff::Timestamp, after 1970

ASSUME TimeAssumption == EpochDiff \in Nat /\ NanosPerTick \in Nat \ {0} /\ MaxNanos \in Nat

\* mutant: the product is a u64
Nanos_U64(filetime) == ((filetime - EpochDiff) * NanosPerTick) % (MaxU64 + 1)

\* The product is an i128, which holds it for every u64.
Nanos(filetime) == (filetime - EpochDiff) * NanosPerTick

\* filetime_to_rfc3339: the instants that have a text, which names them exactly.
Dates(filetime) ==
  IF filetime = 0 \/ filetime < EpochDiff \/ Nanos(filetime) > MaxNanos THEN {}
  ELSE {Nanos(filetime)}

Mitre(a) == IF a.kind \in {"NoShadowCopies", "SequenceGap"} THEN {"T1490"} ELSE {}

Subjects(a) == IF a.kind \in {"StorePresent", "StoreNonPersistent"} THEN {a.store_id} ELSE {}

\* Every value the anomaly carries.  The place of its store in the list of stores,
\* which only this model keeps, is not one.
Evidence(a) == [f \in DOMAIN a \ {"kind", "store"} |-> a[f]]

Timestamps(a) == IF a.kind = "StorePresent" THEN Dates(a.creation_time) ELSE {}

\* Anomaly::to_finding
Finding(a) ==
  [code |-> a.kind, mitre |-> Mitre(a), subjects |-> Subjects(a), evidence |-> Evidence(a),
   timestamps |-> Timestamps(a)]
=============================================================================
