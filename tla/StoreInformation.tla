--------------------------- MODULE StoreInformation ---------------------------
(***************************************************************************)
(* StoreInfo::parse of store.rs, over the readers of bytes.rs: what is     *)
(* made of the information of a store that may end anywhere.               *)
(*                                                                         *)
(* The information is a sequence of cells, each as wide as a u16.  Of its  *)
(* fields before the machine names, one identifier and the attributes      *)
(* stand for all; a name is the cells that utf16le_string decodes.         *)
(***************************************************************************)
EXTENDS Integers, Sequences

CONSTANTS
  IdAt, IdLen,                  \* the shadow-copy identifier
  AttributesAt, AttributesLen,  \* the attribute flags
  MachinesAt                    \* the length of the first of the machine names

ASSUME LayoutAssumption ==
  /\ {IdAt, IdLen} \subseteq Nat
  /\ AttributesAt \in Nat /\ AttributesLen \in Nat \ {0}
  /\ MachinesAt \in Nat

AttributesEnd == AttributesAt + AttributesLen

\* read_guid, le_u32, le_u16: a field is there as a whole or is zero.
Field(buf, at, len) ==
  IF at + len <= Len(buf) THEN SubSeq(buf, at + 1, at + len) ELSE [k \in 1 .. len |-> 0]

\* mutant: a name that runs off the end is clipped
Text_Clipped(buf, at, len) == SubSeq(buf, at + 1, IF at + len <= Len(buf) THEN at + len ELSE Len(buf))

\* read_string: a name is there as a whole or is empty.
Text(buf, at, len) == IF at + len <= Len(buf) THEN SubSeq(buf, at + 1, at + len) ELSE << >>

\* Each name has its length in front; the first length says where the second is.
Parse(buf) ==
  LET Length(at) == Field(buf, at, 1)[1]
      service == MachinesAt + 1 + Length(MachinesAt)
  IN  [shadow_copy_id    |-> Field(buf, IdAt, IdLen),
       attributes        |-> Field(buf, AttributesAt, AttributesLen),
       operating_machine |-> Text(buf, MachinesAt + 1, Length(MachinesAt)),
       service_machine   |-> Text(buf, service + 1, Length(service))]

\* AttributeFlags::PERSISTENT is the lowest bit.
IsPersistent(attributes) == attributes[1] % 2 = 1
=============================================================================
