----------------------------- MODULE HistoryBackfill -----------------------------
(***************************************************************************)
(* history_backfill.py and the channel_backfill_state row it works from:   *)
(* passes that fetch a batch of messages older than the cursor when some   *)
(* follower has read nearly everything, under a lock that expires.  The    *)
(* worker is one task, so one pass runs at a time; the lock is for what a  *)
(* pass that died left behind.                                             *)
(***************************************************************************)
EXTENDS IngestJobs

CONSTANT UnreadThreshold   \* history_backfill_unread_threshold

ASSUME ThresholdAssumption == UnreadThreshold \in Nat

VARIABLES
  oldestSeen,   \* oldest_seen_msg_id, 0 for NULL
  full,         \* fully_backfilled
  locked,       \* locked_until is in the future
  reads,        \* posts read by the follower who has read most
  sub           \* the channel's subscription status

archiveVars == <<oldestSeen, full, locked>>
historyVars == <<archiveVars, reads>>

HistoryTypeOK ==
  /\ oldestSeen \in 0..LastMessage
  /\ full \in BOOLEAN /\ locked \in BOOLEAN
  /\ reads \in Nat
  /\ sub \in {"pending_backfill", "active"}

HistoryInit ==
  /\ oldestSeen = 0 /\ full = FALSE /\ locked = FALSE /\ reads = 0

Unread == Cardinality(posts) - reads
Hungry == Unread \leq UnreadThreshold

\* A follower reads on.
ReadOn ==
  /\ reads < Cardinality(posts)
  /\ reads' \in (reads + 1)..Cardinality(posts)
  /\ UNCHANGED archiveVars

\* COALESCE(oldest_seen_msg_id, MIN(tg_message_id))
Cursor(c) ==
  IF oldestSeen # 0 THEN c = oldestSeen ELSE Oldest(c, {p.head : p \in posts})

\* Mutated form: whether anybody needs older posts is not asked.
SelectAlways ==
  /\ job["history"].pc = "idle"
  /\ sub = "active" /\ ~full /\ ~locked /\ posts # {}
  /\ \E c \in Messages : Cursor(c) /\ Enter("history", At("selected", c))
  /\ UNCHANGED <<postVars, historyVars>>

Select ==
  /\ job["history"].pc = "idle"
  /\ sub = "active" /\ ~full /\ ~locked /\ posts # {} /\ Hungry
  /\ \E c \in Messages : Cursor(c) /\ Enter("history", At("selected", c))
  /\ UNCHANGED <<postVars, historyVars>>

TryAcquireLock ==
  /\ job["history"].pc = "selected"
  /\ IF locked THEN Leave("history") ELSE Enter("history", At("fetch", job["history"].cursor))
  /\ locked' = TRUE
  /\ UNCHANGED <<postVars, oldestSeen, full, reads>>

\* Mutated forms: one message too few, one too many.
OlderSkippingOne == {m \in Posted : m < job["history"].cursor - 1}
OlderOrSame == {m \in Posted : m \leq job["history"].cursor}

Older == {m \in Posted : m < job["history"].cursor}

FetchOlder ==
  /\ job["history"].pc = "fetch"
  /\ Older # {}
  /\ Collect("history", Newest(Older, BatchSize))
  /\ UNCHANGED <<postVars, historyVars>>

\* Nothing is older: mark_fully_backfilled.
Exhaust ==
  /\ job["history"].pc = "fetch"
  /\ Older = {}
  /\ full' = TRUE /\ locked' = FALSE
  /\ Leave("history")
  /\ UNCHANGED <<postVars, oldestSeen, reads>>

\* defer_after_flood_wait: the lock is pushed out, the cursor stays.
Defer ==
  /\ "flood" \in Faults
  /\ job["history"].pc = "fetch"
  /\ locked' = TRUE
  /\ Leave("history")
  /\ UNCHANGED <<postVars, oldestSeen, full, reads>>

\* get_entity or the fetch raised: released where it was.
FetchFails ==
  /\ "error" \in Faults
  /\ job["history"].pc = "fetch"
  /\ oldestSeen' = job["history"].cursor /\ locked' = FALSE
  /\ Leave("history")
  /\ UNCHANGED <<postVars, full, reads>>

\* Mutated form: the cursor moves when the batch has been fetched.
ReleaseEarly ==
  /\ job["history"].pc = "ingest"
  /\ \E m \in job["history"].batch : Oldest(m, job["history"].batch) /\ oldestSeen' = m
  /\ locked' = FALSE
  /\ Leave("history")
  /\ UNCHANGED <<postVars, full, reads>>

\* release_lock with the oldest message seen.
Release ==
  /\ Ingested("history")
  /\ \E m \in job["history"].batch : Oldest(m, job["history"].batch) /\ oldestSeen' = m
  /\ locked' = FALSE
  /\ Leave("history")
  /\ UNCHANGED <<postVars, full, reads>>

\* The tick fails with what an upsert raised; the lock stays until it expires.
PassFails ==
  /\ Raises("history")
  /\ Leave("history")
  /\ UNCHANGED <<postVars, historyVars>>

HistoryStep ==
  \/ Select \/ TryAcquireLock
  \/ FetchOlder \/ Exhaust \/ Defer \/ FetchFails
  \/ (Ingest("history") /\ UNCHANGED historyVars)
  \/ Release \/ PassFails

\* locked_until passes.
LockExpires ==
  /\ locked
  /\ locked' = FALSE
  /\ UNCHANGED <<oldestSeen, full, reads>>
================================================================================
