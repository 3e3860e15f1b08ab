------------------------------ MODULE SourceLifecycle ------------------------------
(***************************************************************************)
(* The source life cycle as a whole: the API and the three ingester tasks  *)
(* that share the subscription tables, the join queue, the Telegram        *)
(* account and chat_map, with the ingester crashing and booting.           *)
(***************************************************************************)
EXTENDS SourcesApi, JoinWorker, ApprovalPoller, RefcountSweep

vars == <<storeVars, queueVars, telegramVars, liveVars, request, job, poll, sweep>>

TypeOK ==
  /\ StoreTypeOK /\ QueueTypeOK /\ TelegramTypeOK /\ LiveTypeOK
  /\ ApiTypeOK /\ WorkerTypeOK /\ PollerTypeOK /\ SweepTypeOK

Init ==
  /\ StoreInit /\ QueueInit /\ TelegramInit /\ LiveInit
  /\ ApiInit /\ WorkerInit /\ PollerInit /\ SweepInit

--------------------------------------------------------------------------------
(* The components, each leaving the others' variables alone. *)

Api == ApiNext /\ UNCHANGED <<telegramVars, liveVars, job, poll, sweep>>
Worker(w) == up /\ WorkerStep(w) /\ UNCHANGED <<request, poll, sweep>>
Poller == up /\ PollerStep /\ UNCHANGED <<liveVars, request, job, sweep>>
Sweep == up /\ SweepStep /\ UNCHANGED <<queueVars, telegramVars, request, job, poll>>

\* The process dies at any point; what it held in memory is gone.
Crash ==
  /\ "crash" \in Faults
  /\ up
  /\ up' = FALSE /\ chatMap' = {}
  /\ job' = [w \in Workers |-> NoJob]
  /\ poll' = NoPoll
  /\ sweep' = NoSweep
  /\ UNCHANGED <<storeVars, queueVars, telegramVars, request>>

\* main() of the ingester.  No boot step looks at the rows left in_progress
\* or at subscriptions that are not active.
Boot ==
  /\ ~up
  /\ LoadChatMap
  /\ UNCHANGED <<storeVars, queueVars, telegramVars, request, job, poll, sweep>>

\* The owner of a gated channel answers.
Owner ==
  /\ \E c \in Gated : OwnerApproves(c)
  /\ UNCHANGED <<storeVars, queueVars, liveVars, request, job, poll, sweep>>

\* A parked row grows old.
Clock ==
  /\ \E i \in DOMAIN queue : AgeApproval(i)
  /\ UNCHANGED <<storeVars, telegramVars, liveVars, request, job, poll, sweep>>

Next ==
  \/ Api
  \/ \E w \in Workers : Worker(w)
  \/ Poller
  \/ Sweep
  \/ Crash \/ Boot
  \/ Owner \/ Clock

Spec == Init /\ [][Next]_vars

(* The ingester's loops run for as long as the process does, a crashed     *)
(* process is restarted by its supervisor, and time passes.  Users, admins *)
(* and channel owners owe nothing.                                         *)
Fairness ==
  /\ \A w \in Workers : WF_vars(Worker(w))
  /\ WF_vars(Poller)
  /\ WF_vars(Sweep)
  /\ WF_vars(Boot)
  /\ WF_vars(Clock)

FairSpec == Spec /\ Fairness

--------------------------------------------------------------------------------
(* Invariants *)

\* Worker w has claimed row i and not yet recorded an outcome for it.
Holds(w, i) == job[w].pc \in {"claimed", "import", "link"} /\ job[w].row = i

(* Who may write a row.  No mark_* function looks at the status it          *)
(* overwrites, so their safety rests on ownership alone: a row a worker     *)
(* holds is in_progress and held by no other worker, and the rows of the    *)
(* poller's snapshot, read once and written much later, are still parked.   *)
RowOwnership ==
  /\ \A w \in Workers, i \in DOMAIN queue :
       Holds(w, i) => /\ queue[i].status = "in_progress"
                      /\ \A v \in Workers \ {w} : ~Holds(v, i)
  /\ \A i \in poll.todo : queue[i].status = "pending_approval"
  /\ poll.pc = "link" => /\ queue[poll.row].status = "pending_approval"
                         /\ poll.row \notin poll.todo

(* The account is a member of every channel the database knows, or the live *)
(* handlers route, or a worker or the poller is about to record as joined:  *)
(* the database is told of a join after Telegram, never before.             *)
TrackedIsJoined ==
  /\ \A c \in Channels : Known(c) \/ c \in chatMap => c \in member
  /\ \A w \in Workers : job[w].pc \in {"link", "route", "fill"} => Chan(w) \in member
  /\ poll.pc \in {"link", "fill"} => Approved(poll.row)

(* No return path of _handle_one_pending or _join_private forgets the row   *)
(* it claimed: without faults, a row in_progress is held by a worker.       *)
NoRowAbandoned ==
  \A i \in RowsIn("in_progress") : \E w \in Workers : Holds(w, i)

\* Some backfill of c is running, or the join that will run it is committed.
BeingFilled(c) ==
  \/ \E w \in Workers : job[w].pc \in {"route", "fill"} /\ Chan(w) = c
  \/ poll.pc = "fill" /\ queue[poll.row].chan = c

(* A dormant channel is not routed to the live handlers, but for the sweep  *)
(* about to drop it and for a join about to make it active again.           *)
ParkedNotRouted ==
  \A c \in chatMap : subStatus[c] = "dormant" => c \in sweep.parked \/ BeingFilled(c)

(* The newly joined channels receive live updates without a restart: an     *)
(* active channel is in chat_map whenever the ingester runs.                *)
ActiveIsRouted == up => Active \subseteq chatMap

(* A user's repeated requests for a public channel share one in-flight row. *)
OneInFlightPerUser ==
  \A i, j \in RowsIn("pending") \cup RowsIn("in_progress") :
    /\ queue[i].chan = queue[j].chan /\ queue[i].chan \notin Private
    /\ queue[i].user = queue[j].user
    => i = j

--------------------------------------------------------------------------------
(* Action properties *)

(* An outcome the API has shown to a user never changes: a row that is done *)
(* or failed keeps its status, though no update of it checks for that.      *)
SettledIsFinal ==
  [][\A i \in DOMAIN queue : queue[i].status \in Settled => queue'[i] = queue[i]]_vars

(* Whoever is granted a channel sees it: when a request is granted, or a    *)
(* link is made, the pair is followed and neither mark hides the channel,   *)
(* even if the user hid it while the request was queued.                    *)
GrantedIsVisible ==
  [][/\ \A i \in DOMAIN queue :
          queue[i].status # "done" /\ queue'[i].status = "done"
            => <<queue[i].user, queue[i].chan>> \in
                 (sources' \ hiddenSources') \ hiddenCatalog'
     /\ (sources' \ sources) \cap (hiddenSources' \cup hiddenCatalog') = {}]_vars

\* No request for c is on its way, in the API or in the queue.
Quiet(c) ==
  /\ \A h \in Handlers : request[h].pc = "idle" \/ request[h].chan # c
  /\ \A i \in DOMAIN queue : queue[i].chan = c => queue[i].status \in Settled

(* A ban lets the requests under way finish, and is final after that: while *)
(* a public channel is banned nobody asks for it or becomes its follower.   *)
BannedStaysQuiet ==
  [][\A c \in banned \ Private :
       Quiet(c) => Quiet(c)' /\ Followers(c)' \subseteq Followers(c)]_vars

(* The life of a subscription: created by a join as pending_backfill, made  *)
(* active by a backfill and dormant by the sweep; a dormant one only comes  *)
(* back through a backfill, and a channel waiting for its first backfill is *)
(* never parked.                                                            *)
StatusFlow ==
  [][\A c \in Channels :
       <<subStatus[c], subStatus'[c]>> \in
         {<<"none", "pending_backfill">>, <<"pending_backfill", "active">>,
          <<"active", "dormant">>, <<"dormant", "active">>}
       \/ subStatus'[c] = subStatus[c]]_vars

(* The sweep parks channels with no subscribers. *)
OnlyUnfollowedParked ==
  [][\A c \in Channels :
       subStatus[c] # "dormant" /\ subStatus'[c] = "dormant" => refCount[c] = 0]_vars

--------------------------------------------------------------------------------
(* Liveness *)

IsSettled(i) == i \in DOMAIN queue /\ queue[i].status \in Settled

(* Every queued request is settled, by the worker or, after a wait for the  *)
(* owner, by the poller or its timeout.                                     *)
EveryRequestSettles ==
  \A i \in 1..MaxRequests : i \in DOMAIN queue ~> IsSettled(i)

(* Once the ingester stops crashing, a row parked for approval does not     *)
(* wait for ever: whatever Telegram answers, and though an exception drops  *)
(* the rest of a snapshot and a crash all of it, the timeout gets to it.    *)
ApprovalsSettle ==
  <>[]up => \A i \in 1..MaxRequests :
    (i \in DOMAIN queue /\ queue[i].status = "pending_approval") ~> IsSettled(i)

(* A channel everybody left is parked, unless somebody follows it again.    *)
IdleChannelsPark ==
  \A c \in Channels :
    (subStatus[c] = "active" /\ refCount[c] = 0)
      ~> (subStatus[c] = "dormant" \/ refCount[c] > 0)

(* A first subscriber's channel gets its backfill. *)
FirstBackfillCompletes ==
  \A c \in Channels : subStatus[c] = "pending_backfill" ~> subStatus[c] # "pending_backfill"

--------------------------------------------------------------------------------
(* The abstract life cycle *)

RequestState(st) ==
  CASE st = "done" -> "granted" [] st = "failed" -> "refused" [] OTHER -> "open"

AbstractRequests ==
  [i \in DOMAIN queue |-> [user  |-> queue[i].user,
                           chan  |-> queue[i].chan,
                           state |-> RequestState(queue[i].status)]]

JR == INSTANCE JoinRequests WITH
        requests <- AbstractRequests,
        follows  <- sources,
        tracked  <- {c \in Channels : Known(c)}

(* Queue, worker, poller and sweep together keep the promise of             *)
(* JoinRequests: the row outcome, the follower link and the channel row     *)
(* change in one step, once per request, whatever crashes in between.       *)
ImplementsJoinRequests == JR!Spec

(* Without faults they also settle every request. *)
ImplementsFairly == JR!FairSpec
================================================================================
