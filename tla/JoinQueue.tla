------------------------------- MODULE JoinQueue -------------------------------
(***************************************************************************)
(* The channel_join_queue table: the only channel from the API to the      *)
(* ingester.  Rows are appended by the API and never deleted; the position *)
(* in the sequence is the row's id, which also orders rows by created_at.  *)
(* Of the status updates only the claim looks at the current status: the   *)
(* mark_* functions are plain UPDATE ... WHERE id = :id.                   *)
(***************************************************************************)
EXTENDS Naturals, Sequences, Deployment

CONSTANT MaxRequests   \* bound on the number of rows ever queued

ASSUME MaxRequestsIsNat == MaxRequests \in Nat

VARIABLES
  queue,    \* channel_join_queue
  overdue   \* ids parked in pending_approval for approval_timeout_days or longer

queueVars == <<queue, overdue>>

RowStatus == {"pending", "in_progress", "pending_approval", "done", "failed"}
Settled == {"done", "failed"}
Row == [user : Users, chan : Channels, status : RowStatus]

QueueTypeOK ==
  /\ queue \in Seq(Row)
  /\ overdue \subseteq DOMAIN queue

QueueInit == queue = <<>> /\ overdue = {}

RowsIn(st) == {i \in DOMAIN queue : queue[i].status = st}

SetStatus(i, st) == queue' = [queue EXCEPT ![i].status = st]

\* db.add(ChannelJoinQueue(..., status="pending")); commit.
Enqueue(u, c) ==
  /\ Len(queue) < MaxRequests
  /\ queue' = Append(queue, [user |-> u, chan |-> c, status |-> "pending"])
  /\ UNCHANGED overdue

\* Mutated form: a claimed row no longer counts as in flight.
InFlightPendingOnly(u, c) ==
  \E i \in RowsIn("pending") : queue[i].user = u /\ queue[i].chan = c

\* find_active_public_request: this user's queued or running request for c.
InFlight(u, c) ==
  \E i \in RowsIn("pending") \cup RowsIn("in_progress") :
    queue[i].user = u /\ queue[i].chan = c

\* Mutated form: the claim does not change the row.
ClaimWithoutFlip(i) ==
  /\ i \in RowsIn("pending")
  /\ \A j \in RowsIn("pending") : i <= j
  /\ UNCHANGED queueVars

\* pop_pending_join_request: SELECT ... FOR UPDATE SKIP LOCKED and the flip
\* to in_progress commit together.
Claim(i) ==
  /\ i \in RowsIn("pending")
  /\ \A j \in RowsIn("pending") : i <= j
  /\ SetStatus(i, "in_progress")
  /\ UNCHANGED overdue

MarkDone(i) == SetStatus(i, "done") /\ UNCHANGED overdue
MarkFailed(i) == SetStatus(i, "failed") /\ UNCHANGED overdue
MarkPendingApproval(i) == SetStatus(i, "pending_approval") /\ UNCHANGED overdue

\* Time passes: a parked row's updated_at becomes approval_timeout_days old.
AgeApproval(i) ==
  /\ i \in RowsIn("pending_approval") \ overdue
  /\ overdue' = overdue \cup {i}
  /\ UNCHANGED queue
================================================================================
