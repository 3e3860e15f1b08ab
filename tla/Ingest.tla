---------------------------------- MODULE Ingest ----------------------------------
(***************************************************************************)
(* Everything that writes the posts of one channel: the join backfill, the *)
(* boot, the live handlers, the history backfill and the recovery script,  *)
(* over one database, with the ingester crashing and booting.              *)
(***************************************************************************)
EXTENDS IngesterBoot

CONSTANTS
  LegacyPosts,   \* messages stored one by one before posts knew their group
  Recovery       \* an operator may run the recovery script

ASSUME RecoveryAssumption == Recovery \in BOOLEAN /\ LegacyPosts \subseteq 1..Start

vars == <<posted, postVars, job, liveVars, historyVars, phase, sub>>

TypeOK ==
  /\ FeedTypeOK /\ PostTypeOK /\ JobTypeOK
  /\ LiveTypeOK /\ HistoryTypeOK /\ BootTypeOK

\* The worker has joined and routed a new channel and is about to fill it; or
\* the ingester is started over a channel that is active already.
Init ==
  /\ FeedInit /\ HistoryInit
  /\ posts = {[head |-> m, group |-> {}] : m \in LegacyPosts}
  /\ media = {[post |-> m, file |-> m, position |-> 0, photo |-> m] : m \in LegacyPosts}
  /\ events = {}
  /\ IF LegacyPosts = {}
       THEN /\ phase = "live" /\ routed = TRUE /\ sub = "pending_backfill"
            /\ job = [j \in Jobs |-> IF j = "join" THEN At("fetch", 0) ELSE Idle]
       ELSE /\ phase = "down" /\ routed = FALSE /\ sub = "active"
            /\ job = [j \in Jobs |-> Idle]

--------------------------------------------------------------------------------
(* _backfill_channel, run by the worker or the poller after a join. *)

JoinFetch ==
  /\ job["join"].pc = "fetch"
  /\ Collect("join", Newest(Posted, JoinLimit))
  /\ UNCHANGED <<postVars, sub>>

JoinDone ==
  /\ Ingested("join")
  /\ sub' = "active"
  /\ Leave("join")
  /\ UNCHANGED postVars

\* Caught and logged; the subscription stays pending_backfill.
JoinFails ==
  /\ Raises("join")
  /\ Leave("join")
  /\ UNCHANGED <<postVars, sub>>

JoinStep == JoinFetch \/ (Ingest("join") /\ UNCHANGED sub) \/ JoinDone \/ JoinFails

(* backfill_last_days, run by hand beside the running ingester. *)

\* Everything posted since a cutoff, which does not divide an album.
RecoveryStart ==
  /\ Recovery
  /\ job["recovery"].pc = "idle" /\ sub = "active"
  /\ \E m \in Posted :
       /\ \A A \in Albums : m \in A => Oldest(m, A)
       /\ Collect("recovery", m..posted)
  /\ UNCHANGED postVars

RecoveryEnds ==
  /\ Ingested("recovery") \/ Raises("recovery")
  /\ Leave("recovery")
  /\ UNCHANGED postVars

RecoveryStep == RecoveryStart \/ Ingest("recovery") \/ RecoveryEnds

--------------------------------------------------------------------------------

Channel ==
  /\ \E item \in Items(Messages) : Dispatch(item)
  /\ UNCHANGED <<job, historyVars, phase, sub>>

Live ==
  /\ phase = "live" /\ LiveStep
  /\ UNCHANGED <<posted, job, historyVars, phase, sub>>

Join ==
  /\ phase = "live" /\ JoinStep
  /\ UNCHANGED <<posted, liveVars, historyVars, phase>>

History ==
  /\ phase = "live" /\ HistoryStep
  /\ UNCHANGED <<posted, liveVars, phase, sub>>

Tool ==
  /\ phase # "down" /\ RecoveryStep
  /\ UNCHANGED <<posted, liveVars, historyVars, phase, sub>>

Boot ==
  /\ BootStep
  /\ UNCHANGED <<posted, events, archiveVars, sub>>

Reader == ReadOn /\ UNCHANGED <<posted, postVars, job, liveVars, phase, sub>>

Clock == LockExpires /\ UNCHANGED <<posted, postVars, job, liveVars, phase, sub>>

\* The container stops; the script runs inside it.
Crash ==
  /\ "crash" \in Faults
  /\ phase # "down"
  /\ phase' = "down" /\ routed' = FALSE /\ events' = {}
  /\ job' = [j \in Jobs |-> Idle]
  /\ UNCHANGED <<posted, postVars, historyVars, sub>>

Next ==
  \/ Channel \/ Live \/ Join \/ History \/ Tool \/ Boot
  \/ Reader \/ Clock \/ Crash

Spec == Init /\ [][Next]_vars

(* The process and its tasks run on, and time passes.  Nobody has to post   *)
(* or to read.                                                              *)
Fairness ==
  /\ WF_vars(Live) /\ WF_vars(Join) /\ WF_vars(History)
  /\ WF_vars(Boot) /\ WF_vars(Clock)

FairSpec == Spec /\ Fairness

--------------------------------------------------------------------------------
(* Invariants *)

(* A message is shown once: it has one media row, in one post, and an album *)
(* has one post, whichever of the five writers met it first and however     *)
(* they divided it.                                                         *)
EachMessageOnce ==
  /\ \A r, t \in media : r.file = t.file => r = t
  /\ \A p, q \in posts : p.group # {} /\ p.group = q.group => p = q

(* Places in a post are distinct: appended files go after those it has.     *)
PlacesDistinct ==
  \A r, t \in media : r.post = t.post /\ r.position = t.position => r = t

(* Channel history exhausted: a channel marked fully backfilled has every   *)
(* message there was when the account joined.                               *)
HistoryComplete == full => \A m \in 1..Start : Stored(m)

(* The prefetch is bounded: in a channel where nobody posts, the worker     *)
(* never piles up more than a batch over the threshold, though readers,     *)
(* expiring locks and repeated fetches come between select and ingest.      *)
BufferIsBounded ==
  posted = Start => Unread \leq JoinLimit \/ Unread \leq UnreadThreshold + BatchSize

(* Catch up before subscribing so we don't miss anything: when the boot is  *)
(* over and no handler is at work, all that was posted since the join is    *)
(* stored.                                                                  *)
NothingMissed ==
  (phase = "live" /\ sub = "active" /\ events = {}) => \A m \in (Start + 1)..posted : Stored(m)

(* The writers share the tables safely: no unique index ever has to refuse  *)
(* an insert, which would end the job or lose the update that made it.      *)
NeverRefused ==
  /\ \A j \in Jobs : job[j].pc = "write" => ~Refused(job[j].item, job[j].seen)
  /\ \A e \in events : e.pc = "write" => ~Refused(e.item, e.seen)

(* The boot gets through: its merge never comes upon an album that has a    *)
(* post of its own and legacy posts beside it, on which an index would      *)
(* refuse the merge at this boot and at every other.                        *)
BootSurvives ==
  phase = "merge" => \A A \in Albums : HasLegacy(A) => Untagged(A)

--------------------------------------------------------------------------------
(* Action properties *)

(* The archive cursor moves towards older messages, and only over messages  *)
(* that are stored: whoever crashes, raises or loses the lock, the pass     *)
(* that moves it has committed all it moves it over.                        *)
AdvancesOverStored ==
  [][oldestSeen' # oldestSeen =>
       LET from == IF oldestSeen = 0 THEN job["history"].cursor ELSE oldestSeen
       IN  /\ oldestSeen' \leq from
           /\ \A m \in oldestSeen'..(from - 1) : Stored(m)]_vars

(* What is stored stays stored, and a picture once downloaded stays with    *)
(* it: no repair, merge or repeated upsert loses a file or its key.         *)
NothingForgotten ==
  [][\A r \in media : \E t \in media' : t.file = r.file /\ (r.photo # 0 => t.photo # 0)]_vars

--------------------------------------------------------------------------------
(* Liveness *)

(* While the process stays up, a message handed to a live handler is        *)
(* stored.                                                                  *)
LiveIsStored ==
  \A m \in (Start + 1)..LastMessage :
    (\E e \in events : m \in e.item) ~> (Stored(m) \/ phase = "down")

(* Channel history exhausted: as long as no crash cuts a history pass short *)
(* (crashes of the boot may come), a channel marked fully backfilled has    *)
(* every message there was when the account joined.                         *)
CompleteUnlessCrashed ==
  [](phase = "live" => [](phase = "live")) => []HistoryComplete

(* Once crashes, flood waits and exceptions stop, and if followers keep     *)
(* reading, a channel's history is pulled to its beginning, also when a     *)
(* crash left its lock behind.                                              *)
HistoryFinishes ==
  /\ <>[](phase = "live" /\ sub = "active")
  /\ <>[][~(Defer \/ FetchFails \/ PassFails)]_vars
  /\ []<>Hungry
  => <>full
================================================================================
