---------------------------- MODULE MCStoreAudit ----------------------------
(***************************************************************************)
(* Small instances of StoreAudit: up to three stores on a volume of 13     *)
(* cells.  Their information has one cell of identifier, two of            *)
(* attributes, and the machine names after them.                           *)
(***************************************************************************)
EXTENDS StoreAudit

Volume(stores, info) == [has_vss_header |-> TRUE, stores |-> stores, info |-> info]

\* The creation times are in another order than the sequence numbers.
Store(id, n, h) ==
  [store_id |-> id, sequence |-> n, creation_time |-> (n * 7) % (MaxU64 + 1), header |-> h]

\* Information that begins with these cells and goes on with sevens.
InfoFrom(o, size, begin) ==
  [store_information_size |-> size,
   cells |-> [k \in 1 .. VolumeSize - (o + HeaderLen) |->
     IF k <= Len(begin) THEN begin[k] ELSE 7]]

Unread == [o \in Headers |-> InfoFrom(o, 0, << >>)]

\* Every order of up to three sequence numbers, with repeats and with the
\* greatest u64; none of the stores has a header.
SequenceImages ==
  {Volume([k \in DOMAIN s |-> Store("a", s[k], None)], Unread) :
     s \in UNION {[1 .. n -> {0, 1, 2, 4, 9, 14, 15}] : n \in 0 .. 3}}
  \cup {[Volume(<< >>, Unread) EXCEPT !.has_vss_header = FALSE]}

\* Two stores with the same identifier, and every kind of information: too
\* short, whole, longer than is read, at the end of the volume, past it, at the
\* end of u64, and so far from the end of the volume that a usize does not hold what
\* is between, with and without the attributes in what it does hold; names of every length, whole and running off the end.
AttributeImages ==
  {Volume(<<Store("a", 1, h), Store("a", 2, g)>>,
     [o \in Headers |->
        IF o = h THEN InfoFrom(o, size, <<5, first, 1, l, m, 2, 1>>)
        ELSE InfoFrom(o, 15, <<6, second>>)]) :
     h \in {0, 2, 5, 7}, g \in {5, 9, 11, 12, 13, 15, None}, size \in 0 .. 8 \cup {15},
     first, second \in {0, 1}, l, m \in {0, 1, 2, 9}}

AuditImages == SequenceImages \cup AttributeImages
=============================================================================
