-------------------------------- MODULE JoinWorker --------------------------------
(***************************************************************************)
(* run_join_worker: claims one queue row at a time, joins the channel at   *)
(* Telegram, records the outcome, then routes and backfills the channel.   *)
(* The steps below are the code between two awaits whose results other     *)
(* coroutines, the API or a crash can come between.                        *)
(***************************************************************************)
EXTENDS SubscriptionStore, JoinQueue, Telegram, LiveRouting

CONSTANT Workers   \* the code runs one; SKIP LOCKED is written for several

VARIABLE job   \* the row each worker holds and the step it is at

NoJob == [pc |-> "idle"]

\* claimed: row is in_progress, Telegram not asked yet
\* import:  a private invite was checked and is to be imported
\* link:    the account is a member, the database does not know yet
\* route:   _post_join is committed, chat_map not yet extended
\* fill:    _backfill_channel is running
Steps == {"claimed", "import", "link", "route", "fill"}

WorkerTypeOK ==
  job \in [Workers -> {NoJob} \cup [pc : Steps, row : DOMAIN queue]]

WorkerInit == job = [w \in Workers |-> NoJob]

Chan(w) == queue[job[w].row].chan

Goto(w, pc) == job' = [job EXCEPT ![w].pc = pc]
Finish(w) == job' = [job EXCEPT ![w] = NoJob]

ClaimRequest(w) ==
  /\ job[w].pc = "idle"
  /\ \E i \in DOMAIN queue :
       /\ Claim(i)
       /\ job' = [job EXCEPT ![w] = [pc |-> "claimed", row |-> i]]
  /\ UNCHANGED <<storeVars, telegramVars, liveVars>>

\* Mutated form: the failure is logged, the row is not marked.
RejectWithoutMark(w) ==
  /\ Finish(w)
  /\ UNCHANGED <<storeVars, queueVars, liveVars>>

\* The attempt is over: the row is marked failed.
Reject(w) ==
  /\ MarkFailed(job[w].row)
  /\ Finish(w)
  /\ UNCHANGED <<storeVars, liveVars>>

--------------------------------------------------------------------------------
(* Public usernames: get_entity, then JoinChannelRequest. *)

\* Mutated form: the channel is recorded without being joined.
ResolveWithoutJoin(w) ==
  /\ job[w].pc = "claimed" /\ Chan(w) \notin Private
  /\ Goto(w, "link")
  /\ UNCHANGED <<storeVars, queueVars, telegramVars, liveVars>>

\* Joined now, or UserAlreadyParticipantError: both fall through.
JoinPublic(w) ==
  /\ job[w].pc = "claimed" /\ Chan(w) \notin Private
  /\ Join(Chan(w))
  /\ Goto(w, "link")
  /\ UNCHANGED <<storeVars, queueVars, liveVars>>

\* The username is free, invalid or private, or joining raised, which does
\* not tell whether Telegram had already let the account in.
JoinPublicFails(w) ==
  /\ job[w].pc = "claimed" /\ Chan(w) \notin Private
  /\ Reject(w)
  /\ UNCHANGED telegramVars \/ Join(Chan(w))

\* FloodWaitError from either call: roll back, sleep, return.  The claim was
\* committed earlier, so the row stays in_progress.
FloodWait(w) ==
  /\ "flood" \in Faults
  /\ job[w].pc = "claimed" /\ Chan(w) \notin Private
  /\ Finish(w)
  /\ UNCHANGED <<storeVars, queueVars, telegramVars, liveVars>>

--------------------------------------------------------------------------------
(* Private invites: _join_private. *)

\* Mutated form: a preview is taken for a membership.
CheckInviteTrustsPreview(w) ==
  /\ job[w].pc = "claimed" /\ Chan(w) \in Private
  /\ Goto(w, "link")
  /\ UNCHANGED <<storeVars, queueVars, telegramVars, liveVars>>

\* CheckChatInviteRequest: already a member, or a preview to import.
CheckInvite(w) ==
  /\ job[w].pc = "claimed" /\ Chan(w) \in Private
  /\ Goto(w, IF Chan(w) \in member THEN "link" ELSE "import")
  /\ UNCHANGED <<storeVars, queueVars, telegramVars, liveVars>>

\* The invite is invalid or expired.
CheckInviteFails(w) ==
  /\ job[w].pc = "claimed" /\ Chan(w) \in Private
  /\ Reject(w)
  /\ UNCHANGED telegramVars

\* ImportChatInviteRequest lets the account in; or it raises
\* UserAlreadyParticipantError and the second check confirms the membership.
ImportInvite(w) ==
  /\ job[w].pc = "import"
  /\ Chan(w) \in Gated => Chan(w) \in member
  /\ Join(Chan(w))
  /\ Goto(w, "link")
  /\ UNCHANGED <<storeVars, queueVars, liveVars>>

\* Mutated form: the row of a join that awaits approval is left claimed.
ApplyWithoutParking(w) ==
  /\ job[w].pc = "import" /\ Chan(w) \in Gated \ member
  /\ Apply(Chan(w))
  /\ Finish(w)
  /\ UNCHANGED <<storeVars, queueVars, liveVars>>

\* InviteRequestSentError: the owner decides, the row is parked.
ImportNeedsApproval(w) ==
  /\ job[w].pc = "import" /\ Chan(w) \in Gated \ member
  /\ Apply(Chan(w))
  /\ MarkPendingApproval(job[w].row)
  /\ Finish(w)
  /\ UNCHANGED <<storeVars, liveVars>>

\* ChannelsTooMuchError, FloodWaitError, a membership the second check does
\* not confirm, or an answer without chats (the account may have joined).
ImportFails(w) ==
  /\ job[w].pc = "import"
  /\ Reject(w)
  /\ \/ UNCHANGED telegramVars
     \/ Chan(w) \notin Gated /\ Join(Chan(w))

--------------------------------------------------------------------------------
(* The common tail. *)

\* Mutated form: the row is marked done, the link is left for later.
MarkDoneWithoutLink(w) ==
  /\ job[w].pc = "link"
  /\ MarkDone(job[w].row)
  /\ subStatus' = [subStatus EXCEPT ![Chan(w)] = IF @ = "none" THEN "pending_backfill" ELSE @]
  /\ Goto(w, "route")
  /\ UNCHANGED <<sources, refCount, hiddenSources, hiddenCatalog, banned, telegramVars, liveVars>>

\* _post_join and commit: channel row, follower's link and row outcome are
\* written in one transaction.
PostJoin(w) ==
  /\ job[w].pc = "link"
  /\ AddUserSource(queue[job[w].row].user, Chan(w))
  /\ MarkDone(job[w].row)
  /\ Goto(w, "route")
  /\ UNCHANGED <<telegramVars, liveVars>>

\* Mutated form: the live handlers are not told.
RouteNothing(w) ==
  /\ job[w].pc = "route"
  /\ Goto(w, "fill")
  /\ UNCHANGED <<storeVars, queueVars, telegramVars, liveVars>>

\* chat_map[marked id] = channel_id
RouteLive(w) ==
  /\ job[w].pc = "route"
  /\ Register(Chan(w))
  /\ Goto(w, "fill")
  /\ UNCHANGED <<storeVars, queueVars, telegramVars>>

\* Mutated form: the subscription is left as it was.
BackfillWithoutMark(w) ==
  /\ job[w].pc = "fill"
  /\ Finish(w)
  /\ UNCHANGED <<storeVars, queueVars, telegramVars, liveVars>>

Backfill(w) ==
  /\ job[w].pc = "fill"
  /\ MarkBackfilled(Chan(w))
  /\ Finish(w)
  /\ UNCHANGED <<queueVars, telegramVars, liveVars>>

\* Some Telegram, database or storage call of the backfill raised.
BackfillFails(w) ==
  /\ "backfill" \in Faults
  /\ job[w].pc = "fill"
  /\ Finish(w)
  /\ UNCHANGED <<storeVars, queueVars, telegramVars, liveVars>>

\* Any other exception before the outcome is committed (FloodWaitError from
\* CheckChatInviteRequest, a network error, a constraint violation in
\* _post_join) ends in the loop's except clause: the row stays in_progress.
JobAborts(w) ==
  /\ "error" \in Faults
  /\ job[w].pc \in {"claimed", "import", "link"}
  /\ Finish(w)
  /\ UNCHANGED <<storeVars, queueVars, telegramVars, liveVars>>

WorkerStep(w) ==
  \/ ClaimRequest(w)
  \/ JoinPublic(w) \/ JoinPublicFails(w) \/ FloodWait(w)
  \/ CheckInvite(w) \/ CheckInviteFails(w)
  \/ ImportInvite(w) \/ ImportNeedsApproval(w) \/ ImportFails(w)
  \/ PostJoin(w) \/ RouteLive(w) \/ Backfill(w)
  \/ BackfillFails(w) \/ JobAborts(w)
================================================================================
