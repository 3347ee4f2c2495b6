-------------------------- MODULE PointInTimeSource --------------------------
(***************************************************************************)
(* What a caller of a snapshot is promised, with no reader, no lock and no *)
(* blocks in sight: a call is opened, and some time later it is answered   *)
(* with the cells View names, all at once.  A call that cannot be answered *)
(* has met a fault of the device below, one fault fails one call, and the  *)
(* prefix of the caller's buffer it leaves behind is still right.          *)
(***************************************************************************)
EXTENDS SourceCalls

VARIABLES
  snap,     \* the snapshot being read
  req,      \* the last request of each thread
  answer,   \* what its caller holds: status, count and buffer
  reads,    \* calls made so far
  faults    \* faults of the device below so far

vars == <<snap, req, answer, reads, faults>>

Pending == [status |-> "pending", count |-> 0, data |-> << >>]
Nothing == [status |-> "none", count |-> 0, data |-> << >>]

Init ==
  /\ snap \in Snapshots
  /\ req = [t \in Threads |-> [offset |-> 0, len |-> 0]]
  /\ answer = [t \in Threads |-> Nothing]
  /\ reads = 0
  /\ faults = 0

Open(t) ==
  /\ answer[t] # Pending
  /\ reads < MaxReads
  /\ reads' = reads + 1
  /\ \E r \in Requests : req' = [req EXCEPT ![t] = r]
  /\ answer' = [answer EXCEPT ![t] = Pending]
  /\ UNCHANGED <<snap, faults>>

Deliver(t) ==
  /\ answer[t] = Pending
  /\ answer' = [answer EXCEPT ![t] =
       [status |-> "ok", count |-> Deliverable(req[t]),
        data |-> Filled(snap, req[t], Deliverable(req[t]))]]
  /\ UNCHANGED <<snap, req, reads, faults>>

Fail(t) ==
  /\ answer[t] = Pending
  /\ faults < MaxFaults
  /\ faults' = faults + 1
  /\ \E n \in 0 .. Deliverable(req[t]) - 1 :
       answer' = [answer EXCEPT ![t] =
         [status |-> "error", count |-> 0, data |-> Filled(snap, req[t], n)]]
  /\ UNCHANGED <<snap, req, reads>>

Next == \E t \in Threads : Open(t) \/ Deliver(t) \/ Fail(t)

Spec == Init /\ [][Next]_vars
=============================================================================
