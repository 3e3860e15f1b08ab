------------------------------ MODULE ApprovalPoller ------------------------------
(***************************************************************************)
(* run_approval_poller: fetches every pending_approval row, then works     *)
(* through that snapshot, each row in sessions of its own.  It is given no *)
(* chat_map.                                                               *)
(***************************************************************************)
EXTENDS SubscriptionStore, JoinQueue, Telegram

VARIABLE poll   \* what is left of the snapshot, and the row being finished

NoPoll == [pc |-> "idle", todo |-> {}, row |-> 0]

PollerTypeOK ==
  /\ poll \in [pc : {"idle", "next", "link", "fill"},
               todo : SUBSET DOMAIN queue, row : {0} \cup DOMAIN queue]
  /\ poll.pc \in {"link", "fill"} <=> poll.row # 0

PollerInit == poll = NoPoll

Approved(i) == queue[i].chan \in member

Skip(i) == poll' = [poll EXCEPT !.todo = @ \ {i}]

\* Mutated form: the status filter is missing.
FetchAllRows ==
  /\ poll.pc = "idle"
  /\ queue # <<>>
  /\ poll' = [pc |-> "next", todo |-> DOMAIN queue, row |-> 0]
  /\ UNCHANGED <<storeVars, queueVars, telegramVars>>

\* fetch_pending_approval, in a session closed before the loop.
FetchApprovals ==
  /\ poll.pc = "idle"
  /\ RowsIn("pending_approval") # {}
  /\ poll' = [pc |-> "next", todo |-> RowsIn("pending_approval"), row |-> 0]
  /\ UNCHANGED <<storeVars, queueVars, telegramVars>>

\* Mutated form: the loop goes on with the row it has just failed.
TimeOutWithoutContinue(i) ==
  /\ poll.pc = "next" /\ i \in poll.todo
  /\ i \in overdue
  /\ MarkFailed(i)
  /\ UNCHANGED <<poll, storeVars, telegramVars>>

\* The row is too old: it fails before Telegram is asked.
TimeOut(i) ==
  /\ poll.pc = "next" /\ i \in poll.todo
  /\ i \in overdue
  /\ MarkFailed(i)
  /\ Skip(i)
  /\ UNCHANGED <<storeVars, telegramVars>>

\* Mutated form: Telegram is asked first, and its answer ends the row's turn.
StillPendingWhateverTheAge(i) ==
  /\ poll.pc = "next" /\ i \in poll.todo
  /\ Approved(i) => "error" \in Faults
  /\ Skip(i)
  /\ UNCHANGED <<storeVars, queueVars, telegramVars>>

\* CheckChatInviteRequest shows a preview (not approved yet), or raises an
\* exception that is logged and skipped.
StillPending(i) ==
  /\ poll.pc = "next" /\ i \in poll.todo \ overdue
  /\ Approved(i) => "error" \in Faults
  /\ Skip(i)
  /\ UNCHANGED <<storeVars, queueVars, telegramVars>>

\* The invite has become invalid or has expired, approved or not.
InviteGone(i) ==
  /\ poll.pc = "next" /\ i \in poll.todo \ overdue
  /\ MarkFailed(i)
  /\ Skip(i)
  /\ UNCHANGED <<storeVars, telegramVars>>

\* ChatInviteAlready: the owner let the account in.
FoundApproved(i) ==
  /\ poll.pc = "next" /\ i \in poll.todo \ overdue
  /\ Approved(i)
  /\ poll' = [pc |-> "link", todo |-> poll.todo \ {i}, row |-> i]
  /\ UNCHANGED <<storeVars, queueVars, telegramVars>>

\* _post_join and commit.
PostApproval ==
  /\ poll.pc = "link"
  /\ AddUserSource(queue[poll.row].user, queue[poll.row].chan)
  /\ MarkDone(poll.row)
  /\ poll' = [poll EXCEPT !.pc = "fill"]
  /\ UNCHANGED telegramVars

\* Nothing catches an exception of _post_join inside the loop: the rest of
\* the snapshot is dropped with it until the next interval.
PostApprovalAborts ==
  /\ "error" \in Faults
  /\ poll.pc = "link"
  /\ poll' = NoPoll
  /\ UNCHANGED <<storeVars, queueVars, telegramVars>>

\* Mutated form: the finished row is not let go.
BackfillApprovedKeepingRow ==
  /\ poll.pc = "fill"
  /\ MarkBackfilled(queue[poll.row].chan)
  /\ poll' = [poll EXCEPT !.pc = "next"]
  /\ UNCHANGED <<queueVars, telegramVars>>

BackfillApproved ==
  /\ poll.pc = "fill"
  /\ MarkBackfilled(queue[poll.row].chan)
  /\ poll' = [poll EXCEPT !.pc = "next", !.row = 0]
  /\ UNCHANGED <<queueVars, telegramVars>>

BackfillApprovedFails ==
  /\ "backfill" \in Faults
  /\ poll.pc = "fill"
  /\ poll' = [poll EXCEPT !.pc = "next", !.row = 0]
  /\ UNCHANGED <<storeVars, queueVars, telegramVars>>

FinishPoll ==
  /\ poll.pc = "next" /\ poll.todo = {}
  /\ poll' = NoPoll
  /\ UNCHANGED <<storeVars, queueVars, telegramVars>>

PollerStep ==
  \/ FetchApprovals
  \/ \E i \in poll.todo : TimeOut(i) \/ StillPending(i) \/ InviteGone(i) \/ FoundApproved(i)
  \/ PostApproval \/ PostApprovalAborts
  \/ BackfillApproved \/ BackfillApprovedFails
  \/ FinishPoll
================================================================================
