------------------------------ MODULE StoreAudit ------------------------------
(***************************************************************************)
(* The auditor: audit and audit_findings of vsc-forensic, and              *)
(* VssVolume::store_info, which they call for every store while the device *)
(* may fail under it.                                                      *)
(*                                                                         *)
(* What is reported is a set: the order of the list carries no meaning.    *)
(* The information of a store is the size its header gives and the cells   *)
(* from there to the end of the volume.                                    *)
(***************************************************************************)
EXTENDS Findings, StoreInformation, FiniteSetsExt

CONSTANTS
  Images,       \* the open volumes: [has_vss_header, stores, info]
  StoreIds,     \* store identifiers (GUIDs)
  None,         \* an offset the catalog did not bring
  HeaderLen,    \* STORE_BLOCK_HEADER_LEN
  MaxInfoLen,   \* MAX_STORE_INFO_LEN
  MaxUsize,     \* usize::MAX of the machine that runs the auditor
  MaxFaults     \* bound on the faults of the device

Headers == {o \in Offsets : o + HeaderLen <= VolumeSize}

\* What follows a store header at o.
InfoAt(o) == [store_information_size: Offsets, cells: [1 .. VolumeSize - (o + HeaderLen) -> Nat]]

StoreDescriptor ==
  [store_id: StoreIds, sequence: Offsets, creation_time: Offsets, header: Offsets \cup {None}]

IsImage(v) ==
  /\ v = [has_vss_header |-> v.has_vss_header, stores |-> v.stores, info |-> v.info]
  /\ v.has_vss_header \in BOOLEAN
  /\ v.stores \in Seq(StoreDescriptor)
  /\ v.stores # << >> => v.has_vss_header
  /\ DOMAIN v.info = Headers
  /\ \A o \in Headers : v.info[o] \in InfoAt(o)

ASSUME AuditAssumption ==
  /\ \A v \in Images : IsImage(v)
  /\ None \notin Offsets
  /\ HeaderLen \in Nat
  /\ MaxInfoLen \in Nat /\ AttributesEnd <= MaxInfoLen
  /\ MaxUsize \in Nat /\ MaxInfoLen <= MaxUsize
  /\ MaxFaults \in Nat

VARIABLES
  image,
  pc,        \* "start", "store", "header", "information" or "done"
  index,     \* the store at hand
  info_len,  \* length of the information about to be read
  out,       \* the anomalies reported
  faults

vars == <<image, pc, index, info_len, out, faults>>

Stores == image.stores
HeaderOffset == Stores[index].header
Info == image.info[HeaderOffset]

Present(k) ==
  [kind |-> "StorePresent", store |-> k, store_id |-> Stores[k].store_id,
   sequence |-> Stores[k].sequence, creation_time |-> Stores[k].creation_time]

Gap(p, n) == [kind |-> "SequenceGap", previous |-> p, next |-> n]

NonPersistent(k, flags) ==
  [kind |-> "StoreNonPersistent", store |-> k, store_id |-> Stores[k].store_id,
   attribute_flags |-> flags]

\* mutant: the sequence numbers are compared in the order of the catalog
Sorted_Catalog(numbers) == numbers

\* sort_unstable: an order of the places in which the numbers do not fall.
Sorted(numbers) ==
  LET places == DOMAIN numbers
      order == CHOOSE p \in Bijection(places, places) :
                 \A i, j \in places : i < j => numbers[p[i]] <= numbers[p[j]]
  IN  [i \in places |-> numbers[order[i]]]

\* Neighbours in order with a number missing between them.
Gaps ==
  LET s == Sorted([k \in DOMAIN Stores |-> Stores[k].sequence])
  IN  {Gap(s[k], s[k + 1]) : k \in {j \in 1 .. Len(s) - 1 : s[j + 1] > SatAdd(s[j], 1)}}

Init ==
  /\ image \in Images
  /\ pc = "start"
  /\ index = 1
  /\ info_len = 0
  /\ out = {}
  /\ faults = 0

\* mutant: a volume without a header is reported too
NoStores_AnyVolume ==
  /\ pc = "start"
  /\ Stores = << >>
  /\ out' = {[kind |-> "NoShadowCopies"]}
  /\ pc' = "done"
  /\ UNCHANGED <<image, index, info_len, faults>>

\* A header and no store is a finding, and the only one.
NoStores ==
  /\ pc = "start"
  /\ image.has_vss_header /\ Stores = << >>
  /\ out' = {[kind |-> "NoShadowCopies"]}
  /\ pc' = "done"
  /\ UNCHANGED <<image, index, info_len, faults>>

ListStores ==
  /\ pc = "start"
  /\ image.has_vss_header => Stores # << >>
  /\ out' = {Present(k) : k \in DOMAIN Stores} \cup Gaps
  /\ pc' = "store"
  /\ UNCHANGED <<image, index, info_len, faults>>

\* mutant: the audit stays with a store it cannot read
Skipped_Retries ==
  /\ pc' = "store"
  /\ UNCHANGED <<index, out>>

\* if let Ok(info) = vol.store_info(index): an error of any kind is passed over.
Skipped ==
  /\ index' = index + 1
  /\ pc' = "store"
  /\ UNCHANGED out

HeaderInRange == HeaderOffset # None /\ HeaderOffset + HeaderLen <= VolumeSize

\* StoreInfoUnavailable, StoreOffsetOutOfBounds.
NoHeader ==
  /\ pc = "store"
  /\ index <= Len(Stores)
  /\ ~HeaderInRange
  /\ Skipped
  /\ UNCHANGED <<image, info_len, faults>>

SeekHeader ==
  /\ pc = "store"
  /\ index <= Len(Stores)
  /\ HeaderInRange
  /\ pc' = "header"
  /\ UNCHANGED <<image, index, info_len, out, faults>>

Remaining == VolumeSize - (HeaderOffset + HeaderLen)

\* The size field is converted to a usize, what remains is cut to one.
Wanted == Min({Info.store_information_size, MaxUsize})
RemainingUsize == Remaining % (MaxUsize + 1)

\* mutant: the information may run off the end of the volume
InfoLen_PastEnd == Min({Wanted, MaxInfoLen})

\* mutant: the size field is believed
InfoLen_Uncapped == Min({Wanted, RemainingUsize})

InfoLen == Min({Wanted, MaxInfoLen, RemainingUsize})

ReadHeader ==
  /\ pc = "header"
  /\ info_len' = InfoLen
  /\ pc' = "information"
  /\ UNCHANGED <<image, index, out, faults>>

\* What store_info returns.
StoreInfo == Parse(SubSeq(Info.cells, 1, info_len))

EndOfVolume == info_len > Remaining

ReadInformation ==
  /\ pc = "information"
  /\ ~EndOfVolume
  /\ LET flags == StoreInfo.attributes
     IN  out' = IF IsPersistent(flags) THEN out ELSE out \cup {NonPersistent(index, flags)}
  /\ index' = index + 1
  /\ pc' = "store"
  /\ UNCHANGED <<image, info_len, faults>>

\* VssError::Io in a seek or a read of store_info.
ReadFails ==
  /\ \/ pc = "header" /\ faults < MaxFaults /\ faults' = faults + 1
     \/ pc = "information" /\ ~EndOfVolume /\ faults < MaxFaults /\ faults' = faults + 1
     \/ pc = "information" /\ EndOfVolume /\ UNCHANGED faults
  /\ Skipped
  /\ UNCHANGED <<image, info_len>>

Finish ==
  /\ pc = "store"
  /\ index > Len(Stores)
  /\ pc' = "done"
  /\ UNCHANGED <<image, index, info_len, out, faults>>

Next ==
  \/ NoStores
  \/ ListStores
  \/ NoHeader
  \/ SeekHeader
  \/ ReadHeader
  \/ ReadInformation
  \/ ReadFails
  \/ Finish

Spec == Init /\ [][Next]_vars

\* audit is one call that keeps running.
FairSpec == Spec /\ WF_vars(Next)

\* audit_findings
Report == {Finding(a) : a \in out}

-----------------------------------------------------------------------------
(***************************************************************************)
(* Properties.                                                             *)
(***************************************************************************)

IsAnomaly(a) ==
  \/ a = [kind |-> "NoShadowCopies"]
  \/ \E k \in DOMAIN Stores : a = Present(k)
  \/ /\ a.kind = "StoreNonPersistent"
     /\ a.attribute_flags \in [1 .. AttributesLen -> Nat]
     /\ \E k \in DOMAIN Stores : a = NonPersistent(k, a.attribute_flags)
  \/ \E p, n \in Offsets : a = Gap(p, n)

\* Type correctness: what is allocated for the information of a store is
\* bounded by MAX_STORE_INFO_LEN whatever its size field says.
TypeOK ==
  /\ IsImage(image)
  /\ pc \in {"start", "store", "header", "information", "done"}
  /\ index \in 1 .. Len(Stores) + 1
  /\ info_len \in 0 .. MaxInfoLen
  /\ \A a \in out : IsAnomaly(a)
  /\ faults \in 0 .. MaxFaults

Numbers == {Stores[k].sequence : k \in DOMAIN Stores}

Reported == {a \in out : a.kind = "SequenceGap"}

\* A number that no store has, though one before it and one after it are there.
Missing(n) ==
  n \notin Numbers /\ (\E p \in Numbers : p < n) /\ (\E p \in Numbers : n < p)

\* The gaps reported are the runs of missing sequence numbers: a number between
\* two stores that no store has is inside exactly one gap, and nothing else is.
GapsAreTheMissingNumbers ==
  pc # "start" =>
    \A n \in Offsets :
      LET around == {g \in Reported : g.previous < n /\ n < g.next}
      IN  /\ Missing(n) => Cardinality(around) = 1
          /\ around # {} => Missing(n)

\* "Findings are OBSERVATIONS ... consistent with MITRE T1490 deletion" (lib.rs):
\* the report cites T1490 when the volume gives an occasion, a header without any
\* store or a number missing between two stores, and on no other.
CitesDeletionOnOccasion ==
  pc # "start" =>
    ((\E f \in Report : "T1490" \in f.mitre) <=>
       \/ image.has_vss_header /\ Stores = << >>
       \/ \E n \in Offsets : Missing(n))

\* The dates of the report tell the stores in the order of their creation times,
\* and a store without a date is older or younger than all that have one; the
\* creation time itself is in the evidence of either.
DatesKeepOrder ==
  LET created == {f \in Report : f.code = "StorePresent"}
      Earlier(f, g) == f.evidence.creation_time < g.evidence.creation_time
      dated == {f \in created : f.timestamps # {}}
  IN  /\ \A f, g \in dated : Earlier(f, g) => Min(f.timestamps) < Min(g.timestamps)
      /\ \A f \in created \ dated, g, h \in dated : ~(Earlier(g, f) /\ Earlier(f, h))

\* Store information that is cut short, by its size field, by the cap or by the
\* end of the volume, gives each field as it is on the disk or as if it were not
\* there: no part of one, and none moved by a length that was cut off.
FieldsWholeOrAbsent ==
  (pc = "information" /\ ~EndOfVolume) =>
    \A f \in DOMAIN StoreInfo : StoreInfo[f] \in {Parse(Info.cells)[f], Parse(<< >>)[f]}

\* The attributes of store k are on the volume.
HasAttributes(k) ==
  LET header == Stores[k].header
  IN  /\ header \in Headers
      /\ image.info[header].store_information_size >= AttributesEnd
      /\ header + HeaderLen + AttributesEnd <= VolumeSize

IsPersistentOnDisk(k) == IsPersistent(Parse(image.info[Stores[k].header].cells).attributes)

ReportedNonPersistent(k) == \E a \in out : a.kind = "StoreNonPersistent" /\ a.store = k

\* They are also in what is left of the rest of the volume when it is cut to a usize.
InUsize(k) ==
  (VolumeSize - (Stores[k].header + HeaderLen)) % (MaxUsize + 1) >= AttributesEnd

\* No store with the persistent bit is reported as lacking it, unless the size of
\* the volume after its header does not fit a usize and loses the attributes; and
\* of those that lack it the audit so far misses, whatever a usize holds, at most
\* one for each fault of the device.
AttributeChecksExact ==
  /\ \A k \in DOMAIN Stores :
       HasAttributes(k) /\ InUsize(k) /\ IsPersistentOnDisk(k) => ~ReportedNonPersistent(k)
  /\ LET missed == {k \in 1 .. index - 1 :
                      HasAttributes(k) /\ ~IsPersistentOnDisk(k) /\ ~ReportedNonPersistent(k)}
     IN  Cardinality(missed) <= faults

\* The audit ends: a store that cannot be read does not hold it up.
Audits == <>(pc = "done")

\* "A store whose information cannot be read is silently skipped for the
\* attribute check" (audit in forensic/src/lib.rs): a store is reported as
\* non-persistent only when its attributes are there to be read.
UnreadIsSkipped == \A k \in DOMAIN Stores : ReportedNonPersistent(k) => HasAttributes(k)

-----------------------------------------------------------------------------
(***************************************************************************)
(* What every step keeps, and the properties rest on.                      *)
(***************************************************************************)
\* The header that is read is on the volume, and no more information is read
\* than follows it.
ReadingInv ==
  /\ pc \in {"header", "information"} => index <= Len(Stores) /\ HeaderInRange
  /\ pc = "information" => info_len = InfoLen

\* What the audit says of the volume as a whole, it says before it reads a store.
ListInv ==
  pc # "start" =>
    /\ Reported = Gaps
    /\ [kind |-> "NoShadowCopies"] \in out <=> image.has_vss_header /\ Stores = << >>

IInv == TypeOK /\ ReadingInv /\ ListInv
=============================================================================
