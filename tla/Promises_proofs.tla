------------------------------ MODULE Promises_proofs ------------------------------
(***************************************************************************)
(* More of SourceLifecycle proved: what the system promises about the      *)
(* status of a subscription, about granted and banned channels, about      *)
(* claimed rows and about the live routing.  Types and row ownership are   *)
(* those of SourceLifecycle_proofs.                                        *)
(***************************************************************************)
EXTENDS SourceLifecycle_proofs

--------------------------------------------------------------------------------
(* Which steps write what. *)

\* Outside the sweep a status is written by a new link or by a backfill.
LinkOrFill ==
  \/ UNCHANGED subStatus
  \/ \E u \in Users, c \in Channels : AddUserSource(u, c)
  \/ \E c \in Channels : MarkBackfilled(c)

\* A new link is made by LinkDirectly, or with the row of its request.
LinkStep ==
  \/ \E h \in Handlers : LinkDirectly(h)
  \/ \E i \in DOMAIN queue :
       queue[i].status \notin Settled /\ AddUserSource(queue[i].user, queue[i].chan)

\* The row _post_join is about to settle is not settled, by RowOwnership.
LEMMA JoinsAreOpen ==
  ASSUME TypeOK, RowOwnership
  PROVE  /\ \A w \in Workers : job[w].pc = "link" =>
              job[w].row \in DOMAIN queue /\ queue[job[w].row].status = "in_progress"
         /\ poll.pc = "link" =>
              poll.row \in DOMAIN queue /\ queue[poll.row].status = "pending_approval"
<1>1. ASSUME NEW w \in Workers, job[w].pc = "link"
      PROVE  job[w].row \in DOMAIN queue /\ queue[job[w].row].status = "in_progress"
  BY <1>1, JobTypes DEF RowOwnership, Holds
<1>2. poll.pc = "link" =>
        poll.row \in DOMAIN queue /\ queue[poll.row].status = "pending_approval"
  BY DEF TypeOK, PollerTypeOK, RowOwnership
<1>3. QED
  BY <1>1, <1>2

\* The only steps that add to user_sources.
LEMMA OnlyLinksLink ==
  ASSUME TypeOK, RowOwnership, [Next]_vars
  PROVE  sources' \subseteq sources \/ LinkStep
<1>1. CASE Api
  BY <1>1
     DEF Api, ApiNext, PostSource, PostSourceById, FindInFlight, InsertJoinRequest, LinkStep,
         RemoveSource, RemoveUserSource, HideSource, MarkHidden, UnhideSource, ClearHidden,
         HideFromCatalog, MarkCatalogHidden, UnhideFromCatalog, ClearCatalogHidden, BanChannel, Ban,
         UnbanChannel, Unban, storeVars
<1>2. ASSUME NEW w \in Workers, Worker(w)
      PROVE  sources' \subseteq sources \/ LinkStep
  <2>1. CASE PostJoin(w)
    BY <2>1, JoinsAreOpen DEF PostJoin, Chan, LinkStep, Settled
  <2>2. CASE ~PostJoin(w)
    BY <1>2, <2>2
       DEF Worker, WorkerStep, ClaimRequest, JoinPublic, JoinPublicFails, FloodWait, CheckInvite,
           CheckInviteFails, ImportInvite, ImportNeedsApproval, ImportFails, RouteLive, Backfill,
           BackfillFails, JobAborts, Reject, MarkBackfilled, storeVars
  <2>3. QED
    BY <2>1, <2>2
<1>3. CASE Poller
  <2>1. CASE PostApproval
    BY <2>1, JoinsAreOpen DEF PostApproval, LinkStep, Settled
  <2>2. CASE ~PostApproval
    BY <1>3, <2>2
       DEF Poller, PollerStep, FetchApprovals, TimeOut, StillPending, InviteGone, FoundApproved,
           PostApprovalAborts, BackfillApproved, BackfillApprovedFails, FinishPoll, MarkBackfilled,
           storeVars
  <2>3. QED
    BY <2>1, <2>2
<1>4. CASE Sweep \/ Crash \/ Boot \/ Owner \/ Clock \/ UNCHANGED vars
  BY <1>4 DEF Sweep, SweepStep, SelectTargets, Park, DropFromLive, MarkDormant, Crash, Boot, Owner,
              Clock, vars, storeVars
<1>5. QED
  BY <1>1, <1>2, <1>3, <1>4 DEF Next

\* A row becomes done only in the transaction that links its user.
LEMMA DoneWithLink ==
  ASSUME TypeOK, [Next]_vars, NEW i \in DOMAIN queue,
         queue[i].status # "done", queue'[i].status = "done"
  PROVE  AddUserSource(queue[i].user, queue[i].chan)
<1>1. ASSUME NEW k \in DOMAIN queue, NEW st \in RowStatus, SetStatus(k, st)
      PROVE  k = i /\ st = "done"
  BY <1>1, StatusWrite DEF TypeOK
<1>2. queue' # queue
  OBVIOUS
<1>3. ~ \E u \in Users, c \in Channels : Enqueue(u, c)
  <2>1. ASSUME NEW u \in Users, NEW c \in Channels, Enqueue(u, c)
        PROVE  queue'[i] = queue[i]
    <3>1. [user |-> u, chan |-> c, status |-> "pending"] \in Row
      BY DEF Row, RowStatus
    <3>2. QED
      BY <2>1, <3>1, AppendProperties, LenProperties DEF Enqueue, TypeOK, QueueTypeOK
  <2>2. QED
    BY <2>1
<1>4. CASE Api
  BY <1>2, <1>3, <1>4, RequestTypes
     DEF Api, ApiNext, PostSource, PostSourceById, LinkDirectly, FindInFlight, InsertJoinRequest,
         RemoveSource, HideSource, UnhideSource, HideFromCatalog, UnhideFromCatalog,
         BanChannel, UnbanChannel, queueVars, TypeOK
<1>5. ASSUME NEW w \in Workers, Worker(w)
      PROVE  AddUserSource(queue[i].user, queue[i].chan)
  <2>1. job[w].pc # "idle" => job[w].row \in DOMAIN queue
    BY JobTypes
  <2>2. CASE PostJoin(w)
    BY <1>1, <2>1, <2>2 DEF PostJoin, Chan, MarkDone, RowStatus
  <2>3. CASE ClaimRequest(w)
    BY <1>1, <2>3 DEF ClaimRequest, Claim, RowStatus
  <2>4. CASE JoinPublicFails(w) \/ CheckInviteFails(w) \/ ImportFails(w) \/ ImportNeedsApproval(w)
    BY <1>1, <2>1, <2>4
       DEF JoinPublicFails, CheckInviteFails, ImportFails, ImportNeedsApproval, Reject, MarkFailed,
           MarkPendingApproval, RowStatus
  <2>5. CASE \/ JoinPublic(w) \/ FloodWait(w) \/ CheckInvite(w) \/ ImportInvite(w)
             \/ RouteLive(w) \/ Backfill(w) \/ BackfillFails(w) \/ JobAborts(w)
    BY <1>2, <2>5
       DEF JoinPublic, FloodWait, CheckInvite, ImportInvite, RouteLive, Backfill, BackfillFails,
           JobAborts, queueVars
  <2>6. QED
    BY <1>5, <2>2, <2>3, <2>4, <2>5 DEF Worker, WorkerStep
<1>6. CASE Poller
  <2>1. poll.todo \subseteq DOMAIN queue /\ (poll.pc = "link" => poll.row \in DOMAIN queue)
    BY DEF TypeOK, PollerTypeOK
  <2>2. CASE PostApproval
    BY <1>1, <2>1, <2>2 DEF PostApproval, MarkDone, RowStatus
  <2>3. CASE \E k \in poll.todo : TimeOut(k) \/ InviteGone(k)
    BY <1>1, <2>1, <2>3 DEF TimeOut, InviteGone, MarkFailed, RowStatus
  <2>4. CASE \/ FetchApprovals \/ BackfillApproved \/ BackfillApprovedFails
             \/ PostApprovalAborts \/ FinishPoll
             \/ \E k \in poll.todo : StillPending(k) \/ FoundApproved(k)
    BY <1>2, <2>4
       DEF FetchApprovals, BackfillApproved, BackfillApprovedFails, PostApprovalAborts, FinishPoll,
           StillPending, FoundApproved, queueVars
  <2>5. QED
    BY <1>6, <2>2, <2>3, <2>4 DEF Poller, PollerStep
<1>7. CASE Sweep \/ Crash \/ Boot \/ Owner \/ Clock \/ UNCHANGED vars
  BY <1>2, <1>7 DEF Sweep, Crash, Boot, Owner, Clock, vars, queueVars, AgeApproval
<1>8. QED
  BY <1>4, <1>5, <1>6, <1>7 DEF Next

--------------------------------------------------------------------------------
(* Granted channels are visible. *)

\* Linking clears both marks of the pair, whether or not the link is new.
LEMMA LinkIsVisible ==
  ASSUME NEW u, NEW c, AddUserSource(u, c)
  PROVE  /\ <<u, c>> \in (sources' \ hiddenSources') \ hiddenCatalog'
         /\ sources' = sources \cup {<<u, c>>}
BY DEF AddUserSource

(* A user who hid a channel while the request for it was queued sees the     *)
(* channel once the request is granted; and no new link, direct or queued,   *)
(* starts hidden.                                                            *)
THEOREM GrantsAreVisible == Spec => GrantedIsVisible
<1>1. ASSUME TypeOK, RowOwnership, [Next]_vars
      PROVE  /\ \A i \in DOMAIN queue :
                  queue[i].status # "done" /\ queue'[i].status = "done"
                    => <<queue[i].user, queue[i].chan>> \in
                         (sources' \ hiddenSources') \ hiddenCatalog'
             /\ (sources' \ sources) \cap (hiddenSources' \cup hiddenCatalog') = {}
  <2>1. \A i \in DOMAIN queue :
          queue[i].status # "done" /\ queue'[i].status = "done"
            => <<queue[i].user, queue[i].chan>> \in (sources' \ hiddenSources') \ hiddenCatalog'
    BY <1>1, DoneWithLink, LinkIsVisible
  <2>2. ASSUME LinkStep
        PROVE  (sources' \ sources) \cap (hiddenSources' \cup hiddenCatalog') = {}
    <3>1. PICK u, c : AddUserSource(u, c)
      BY <2>2 DEF LinkStep, LinkDirectly
    <3>2. sources' = sources \cup {<<u, c>>} /\ <<u, c>> \notin hiddenSources' \cup hiddenCatalog'
      BY <3>1, LinkIsVisible
    <3>3. QED
      BY <3>2
  <2>3. QED
    BY <1>1, <2>1, <2>2, OnlyLinksLink
<1>2. QED
  BY <1>1, TypeCorrect, RowsAreOwned, PTL DEF Spec, GrantedIsVisible

--------------------------------------------------------------------------------
(* A ban is final once the requests under way are over. *)

\* Nothing is queued for a public channel that is banned and quiet.
LEMMA QuietRequests ==
  ASSUME TypeOK, [Next]_vars, NEW c \in banned \ Private, Quiet(c), NEW h \in Handlers
  PROVE  request'[h].pc = "idle" \/ request'[h].chan # c
<1>1. CASE UNCHANGED request
  BY <1>1 DEF Quiet
<1>2. ASSUME NEW g \in Handlers, Answer(g)
      PROVE  request'[h].pc = "idle" \/ request'[h].chan # c
  BY <1>2 DEF Answer, NoRequest, TypeOK, ApiTypeOK, Quiet
<1>3. ASSUME NEW g \in Handlers, NEW pc, NEW u, NEW d, d # c, Proceed(g, pc, u, d)
      PROVE  request'[h].pc = "idle" \/ request'[h].chan # c
  BY <1>3 DEF Proceed, TypeOK, ApiTypeOK, Quiet
<1>4. ASSUME NEW g \in Handlers, NEW u \in Users, NEW d \in Channels,
             PostSource(g, u, d) \/ PostSourceById(g, u, d)
      PROVE  request'[h].pc = "idle" \/ request'[h].chan # c
  <2>1. d # c
    BY <1>4 DEF PostSource, PostSourceById
  <2>2. QED
    BY <1>3, <1>4, <2>1 DEF PostSource, PostSourceById
<1>5. ASSUME NEW g \in Handlers, FindInFlight(g)
      PROVE  request'[h].pc = "idle" \/ request'[h].chan # c
  BY <1>2, <1>3, <1>5 DEF FindInFlight, Quiet
<1>6. ASSUME NEW g \in Handlers, LinkDirectly(g) \/ InsertJoinRequest(g)
      PROVE  request'[h].pc = "idle" \/ request'[h].chan # c
  BY <1>2, <1>6 DEF LinkDirectly, InsertJoinRequest
<1>7. CASE Api
  BY <1>1, <1>4, <1>5, <1>6, <1>7
     DEF Api, ApiNext, RemoveSource, HideSource, UnhideSource, HideFromCatalog, UnhideFromCatalog,
         BanChannel, UnbanChannel
<1>8. QED
  BY <1>1, <1>7 DEF Next, Worker, Poller, Sweep, Crash, Boot, Owner, Clock, vars

\* The queue grows only by the row of a request.
LEMMA OnlyRequestsQueue ==
  ASSUME TypeOK, [Next]_vars
  PROVE  \/ DOMAIN queue' = DOMAIN queue
         \/ \E h \in Handlers : InsertJoinRequest(h)
<1>1. CASE UNCHANGED queue
  BY <1>1
<1>2. ASSUME NEW k, NEW st, SetStatus(k, st)
      PROVE  DOMAIN queue' = DOMAIN queue
  BY <1>2, LenProperties DEF SetStatus, TypeOK, QueueTypeOK
<1>3. CASE Api
  BY <1>1, <1>3
     DEF Api, ApiNext, PostSource, PostSourceById, LinkDirectly, FindInFlight, RemoveSource,
         HideSource, UnhideSource, HideFromCatalog, UnhideFromCatalog, BanChannel, UnbanChannel,
         queueVars
<1>4. ASSUME NEW w \in Workers, Worker(w)
      PROVE  DOMAIN queue' = DOMAIN queue
  BY <1>1, <1>2, <1>4
     DEF Worker, WorkerStep, ClaimRequest, Claim, JoinPublic, JoinPublicFails, FloodWait,
         CheckInvite, CheckInviteFails, ImportInvite, ImportNeedsApproval, ImportFails, PostJoin,
         RouteLive, Backfill, BackfillFails, JobAborts, Reject, MarkDone, MarkFailed,
         MarkPendingApproval, queueVars
<1>5. CASE Poller
  BY <1>1, <1>2, <1>5
     DEF Poller, PollerStep, FetchApprovals, TimeOut, StillPending, InviteGone, FoundApproved,
         PostApproval, PostApprovalAborts, BackfillApproved, BackfillApprovedFails, FinishPoll,
         MarkDone, MarkFailed, queueVars
<1>6. CASE Sweep \/ Crash \/ Boot \/ Owner \/ Clock \/ UNCHANGED vars
  BY <1>1, <1>6 DEF Sweep, Crash, Boot, Owner, Clock, vars, queueVars, AgeApproval
<1>7. QED
  BY <1>3, <1>4, <1>5, <1>6 DEF Next

\* What Enqueue appends.
LEMMA NewRow ==
  ASSUME QueueTypeOK, NEW u \in Users, NEW c \in Channels, Enqueue(u, c)
  PROVE  /\ DOMAIN queue \subseteq DOMAIN queue'
         /\ \A j \in DOMAIN queue : queue'[j] = queue[j]
         /\ \A j \in DOMAIN queue' \ DOMAIN queue :
              queue'[j] = [user |-> u, chan |-> c, status |-> "pending"]
         /\ \A i, j \in DOMAIN queue' \ DOMAIN queue : i = j
<1>1. [user |-> u, chan |-> c, status |-> "pending"] \in Row
  BY DEF Row, RowStatus
<1>2. QED
  BY <1>1, AppendProperties, LenProperties DEF Enqueue, QueueTypeOK

\* All rows of a quiet channel stay settled and none is added.
LEMMA QuietRows ==
  ASSUME TypeOK, RowOwnership, [Next]_vars, NEW c, Quiet(c),
         NEW i \in DOMAIN queue', queue'[i].chan = c
  PROVE  queue'[i].status \in Settled
<1>1. CASE i \in DOMAIN queue
  <2>1. queue[i].chan = c
    BY <1>1, SystemSteps, QueueKeepsRows DEF TypeOK
  <2>2. queue[i].status \in Settled
    BY <1>1, <2>1 DEF Quiet
  <2>3. QED
    BY <1>1, <2>2, SettledRowsStay
<1>2. CASE i \notin DOMAIN queue
  <2>1. PICK h \in Handlers : request[h].pc = "insert" /\ Enqueue(request[h].user, request[h].chan)
    BY <1>2, OnlyRequestsQueue DEF InsertJoinRequest
  <2>2. request[h].user \in Users /\ request[h].chan \in Channels /\ request[h].chan # c
    BY <2>1, RequestTypes DEF TypeOK, Quiet
  <2>3. queue'[i].chan = request[h].chan
    BY <1>2, <2>1, <2>2, NewRow DEF TypeOK
  <2>4. QED
    BY <2>2, <2>3
<1>3. QED
  BY <1>1, <1>2

\* Nobody becomes a follower of a quiet channel.
LEMMA QuietLinks ==
  ASSUME TypeOK, RowOwnership, [Next]_vars, NEW c, Quiet(c)
  PROVE  Followers(c)' \subseteq Followers(c)
<1>1. CASE sources' \subseteq sources
  BY <1>1 DEF Followers
<1>2. ASSUME NEW u, NEW d, d # c, AddUserSource(u, d)
      PROVE  Followers(c)' \subseteq Followers(c)
  BY <1>2 DEF AddUserSource, Followers
<1>3. CASE LinkStep
  BY <1>2, <1>3 DEF LinkStep, LinkDirectly, Quiet
<1>4. QED
  BY <1>1, <1>3, OnlyLinksLink

(* Once the requests under way at the time of the ban have been answered, a  *)
(* banned public channel gains no follower and no request, whatever the      *)
(* API, several workers, the poller and crashes do.                          *)
THEOREM BansAreFinal == Spec => BannedStaysQuiet
<1>1. ASSUME TypeOK, RowOwnership, [Next]_vars, NEW c \in banned \ Private, Quiet(c)
      PROVE  Quiet(c)' /\ Followers(c)' \subseteq Followers(c)
  BY <1>1, QuietRequests, QuietRows, QuietLinks DEF Quiet
<1>2. TypeOK /\ RowOwnership /\ [Next]_vars
        => [\A c \in banned \ Private :
              Quiet(c) => Quiet(c)' /\ Followers(c)' \subseteq Followers(c)]_vars
  BY <1>1
<1>3. QED
  BY <1>2, TypeCorrect, RowsAreOwned, PTL DEF Spec, BannedStaysQuiet

--------------------------------------------------------------------------------
(* The life of a subscription. *)

\* Outside the sweep no status is written but by a link or a backfill.
LEMMA OnlyLinksAndFills ==
  ASSUME TypeOK, [Next]_vars
  PROVE  LinkOrFill \/ \E c \in sweep.targets : Park(c)
<1>1. CASE Api
  BY <1>1, RequestTypes
     DEF Api, ApiNext, PostSource, PostSourceById, LinkDirectly, FindInFlight, InsertJoinRequest,
         RemoveSource, RemoveUserSource, HideSource, MarkHidden, UnhideSource, ClearHidden,
         HideFromCatalog, MarkCatalogHidden, UnhideFromCatalog, ClearCatalogHidden, BanChannel, Ban,
         UnbanChannel, Unban, storeVars, LinkOrFill, TypeOK
<1>2. ASSUME NEW w \in Workers, Worker(w)
      PROVE  LinkOrFill
  <2>1. job[w].pc # "idle" => queue[job[w].row].user \in Users /\ Chan(w) \in Channels
    BY JobTypes
  <2>2. CASE PostJoin(w) \/ Backfill(w)
    BY <2>1, <2>2 DEF PostJoin, Backfill, LinkOrFill
  <2>3. CASE ~PostJoin(w) /\ ~Backfill(w)
    BY <1>2, <2>3
       DEF Worker, WorkerStep, ClaimRequest, JoinPublic, JoinPublicFails, FloodWait, CheckInvite,
           CheckInviteFails, ImportInvite, ImportNeedsApproval, ImportFails, RouteLive,
           BackfillFails, JobAborts, Reject, storeVars, LinkOrFill
  <2>4. QED
    BY <2>2, <2>3
<1>3. CASE Poller
  <2>1. poll.pc \in {"link", "fill"} =>
          queue[poll.row].user \in Users /\ queue[poll.row].chan \in Channels
    BY RowTypes DEF TypeOK, PollerTypeOK
  <2>2. CASE PostApproval \/ BackfillApproved
    BY <2>1, <2>2 DEF PostApproval, BackfillApproved, LinkOrFill
  <2>3. CASE ~PostApproval /\ ~BackfillApproved
    BY <1>3, <2>3
       DEF Poller, PollerStep, FetchApprovals, TimeOut, StillPending, InviteGone, FoundApproved,
           PostApprovalAborts, BackfillApprovedFails, FinishPoll, storeVars, LinkOrFill
  <2>4. QED
    BY <2>2, <2>3
<1>4. CASE Sweep
  BY <1>4 DEF Sweep, SweepStep, SelectTargets, DropFromLive, storeVars, LinkOrFill
<1>5. CASE Crash \/ Boot \/ Owner \/ Clock \/ UNCHANGED vars
  BY <1>5 DEF Crash, Boot, Owner, Clock, vars, storeVars, LinkOrFill
<1>6. QED
  BY <1>1, <1>2, <1>3, <1>4, <1>5 DEF Next

\* What links and backfills make of a status.
LEMMA LinkOrFillFlow ==
  ASSUME StoreInv, LinkOrFill, NEW c \in Channels
  PROVE  \/ subStatus'[c] = subStatus[c]
         \/ subStatus[c] = "none" /\ subStatus'[c] = "pending_backfill"
         \/ subStatus[c] \in {"pending_backfill", "dormant"} /\ subStatus'[c] = "active"
<1>1. ASSUME NEW u \in Users, NEW d \in Channels, AddUserSource(u, d)
      PROVE  \/ subStatus'[c] = subStatus[c]
             \/ subStatus[c] = "none" /\ subStatus'[c] = "pending_backfill"
  BY <1>1 DEF AddUserSource, IncrementRefCount, Known, StoreInv, StoreTypeOK
<1>2. ASSUME NEW d \in Channels, MarkBackfilled(d)
      PROVE  \/ subStatus'[c] = subStatus[c]
             \/ subStatus[c] \in {"pending_backfill", "dormant"} /\ subStatus'[c] = "active"
  BY <1>2 DEF MarkBackfilled, Known, StoreInv, StoreTypeOK, SubStatus
<1>3. QED
  BY <1>1, <1>2 DEF LinkOrFill

\* What the sweep has selected stays active until the sweep parks it: only
\* the sweep makes anything dormant, and there is one sweep.
TargetsActive == \A c \in sweep.targets : subStatus[c] = "active"

\* The selection outlives every step of the others.
LEMMA TargetsStayActive ==
  ASSUME TypeOK, StoreInv, TargetsActive, [Next]_vars
  PROVE  TargetsActive'
<1>0. sweep.targets \subseteq Channels
  BY DEF TypeOK, SweepTypeOK
<1>1. ASSUME LinkOrFill, sweep'.targets \subseteq sweep.targets
      PROVE  TargetsActive'
  BY <1>0, <1>1, LinkOrFillFlow DEF TargetsActive
<1>2. ASSUME NEW c \in sweep.targets, Park(c)
      PROVE  TargetsActive'
  <2>1. sweep'.targets = sweep.targets \ {c}
    BY <1>2 DEF Park
  <2>2. \A d \in Channels : d # c => subStatus'[d] = subStatus[d]
    BY <1>0, <1>2 DEF Park, MarkDormant, TypeOK, StoreTypeOK
  <2>3. QED
    BY <1>0, <2>1, <2>2 DEF TargetsActive
<1>3. CASE SelectTargets
  <2>1. sweep'.targets \subseteq Active /\ subStatus' = subStatus
    BY <1>3 DEF SelectTargets, storeVars
  <2>2. QED
    BY <2>1 DEF TargetsActive, Active
<1>4. CASE DropFromLive
  <2>1. sweep'.targets = sweep.targets /\ LinkOrFill
    BY <1>4 DEF DropFromLive, storeVars, LinkOrFill, TypeOK, SweepTypeOK
  <2>2. QED
    BY <1>1, <2>1
<1>5. CASE Sweep
  BY <1>2, <1>3, <1>4, <1>5 DEF Sweep, SweepStep
<1>6. CASE sweep' = sweep \/ sweep' = NoSweep
  <2>1. sweep'.targets \subseteq sweep.targets
    BY <1>6 DEF NoSweep
  <2>2. QED
    BY <1>1, <1>2, <2>1, OnlyLinksAndFills
<1>7. QED
  BY <1>5, <1>6 DEF Next, Api, Worker, Poller, Crash, Boot, Owner, Clock, vars

\* The sweep's selection, read in an earlier transaction, is never stale in status.
LEMMA SelectionsAreActive == Spec => []TargetsActive
<1>1. Init => TargetsActive
  BY DEF Init, SweepInit, NoSweep, TargetsActive
<1>2. TypeOK /\ StoreInv /\ TargetsActive /\ [Next]_vars => TargetsActive'
  BY TargetsStayActive
<1>3. QED
  BY <1>1, <1>2, TypeCorrect, StoreInvariant, PTL DEF Spec

(* A channel that waits for its first backfill is never parked, and a        *)
(* parked one comes back only through a backfill, although the sweep's       *)
(* UPDATE looks at no status and reads its selection long before.            *)
THEOREM StatusesFlow == Spec => StatusFlow
<1> DEFINE Flow(c) == <<subStatus[c], subStatus'[c]>> \in
                        {<<"none", "pending_backfill">>, <<"pending_backfill", "active">>,
                         <<"active", "dormant">>, <<"dormant", "active">>}
                      \/ subStatus'[c] = subStatus[c]
<1>1. ASSUME TypeOK, StoreInv, TargetsActive, [Next]_vars, NEW c \in Channels
      PROVE  Flow(c)
  <2>1. CASE LinkOrFill
    BY <1>1, <2>1, LinkOrFillFlow
  <2>2. ASSUME NEW d \in sweep.targets, Park(d)
        PROVE  Flow(c)
    <3>1. subStatus[d] = "active"
      BY <1>1, <2>2 DEF TargetsActive
    <3>2. subStatus'[c] = IF c = d THEN "dormant" ELSE subStatus[c]
      BY <1>1, <2>2, <3>1 DEF Park, MarkDormant, Known, TypeOK, StoreTypeOK
    <3>3. QED
      BY <3>1, <3>2
  <2>3. QED
    BY <1>1, <2>1, <2>2, OnlyLinksAndFills
<1>2. TypeOK /\ StoreInv /\ TargetsActive /\ [Next]_vars => [\A c \in Channels : Flow(c)]_vars
  BY <1>1
<1>3. QED
  BY <1>2, TypeCorrect, StoreInvariant, SelectionsAreActive, PTL DEF Spec, StatusFlow

--------------------------------------------------------------------------------
(* Claimed rows are not forgotten. *)

\* A step that claims nothing, and lets no row go unless its status is written.
LEMMA AbandonFrame ==
  ASSUME NoRowAbandoned,
         \A i \in DOMAIN queue' : queue'[i].status = "in_progress" =>
           i \in DOMAIN queue /\ queue[i].status = "in_progress",
         \A w \in Workers, i \in DOMAIN queue :
           Holds(w, i) /\ (i \in DOMAIN queue' => queue'[i].status = "in_progress")
             => Holds(w, i)'
  PROVE  NoRowAbandoned'
BY DEF NoRowAbandoned, RowsIn

\* The worker's return paths, without faults.
LEMMA WorkerAbandonsNone ==
  ASSUME Faults = {}, TypeOK, RowOwnership, NoRowAbandoned, NEW w \in Workers, Worker(w)
  PROVE  NoRowAbandoned'
<1>1. CASE ClaimRequest(w)
  <2>1. PICK i \in DOMAIN queue :
          Claim(i) /\ job' = [job EXCEPT ![w] = [pc |-> "claimed", row |-> i]]
    BY <1>1 DEF ClaimRequest
  <2>2. /\ DOMAIN queue' = DOMAIN queue
        /\ \A j \in DOMAIN queue :
             queue'[j].status = IF j = i THEN "in_progress" ELSE queue[j].status
    BY <2>1, StatusWrite DEF TypeOK, RowStatus, Claim
  <2>3. job'[w] = [pc |-> "claimed", row |-> i] /\ \A v \in Workers \ {w} : job'[v] = job[v]
    BY <2>1 DEF TypeOK, WorkerTypeOK
  <2>4. \A j \in DOMAIN queue : ~Holds(w, j)
    BY <1>1 DEF ClaimRequest, Holds
  <2>5. Holds(w, i)' /\ \A v \in Workers \ {w}, j \in DOMAIN queue : Holds(v, j) => Holds(v, j)'
    BY <2>3 DEF Holds
  <2>6. ASSUME NEW j \in DOMAIN queue, j # i, queue[j].status = "in_progress"
        PROVE  \E v \in Workers : Holds(v, j)'
    BY <2>4, <2>5, <2>6 DEF NoRowAbandoned, RowsIn
  <2>7. QED
    BY <2>2, <2>5, <2>6 DEF NoRowAbandoned, RowsIn
<1>2. ASSUME job[w].pc \in {"claimed", "import", "link"},
             NEW st \in RowStatus \ {"in_progress"}, SetStatus(job[w].row, st),
             \A v \in Workers \ {w} : job'[v] = job[v]
      PROVE  NoRowAbandoned'
  <2>1. job[w].row \in DOMAIN queue
    BY <1>2, JobTypes
  <2>2. /\ DOMAIN queue' = DOMAIN queue
        /\ \A j \in DOMAIN queue :
             queue'[j].status = IF j = job[w].row THEN st ELSE queue[j].status
    BY <1>2, <2>1, StatusWrite DEF TypeOK
  <2>3. \A v \in Workers, j \in DOMAIN queue :
          Holds(v, j) /\ queue'[j].status = "in_progress" => Holds(v, j)'
    BY <1>2, <2>2 DEF Holds
  <2>4. QED
    BY <2>2, <2>3, AbandonFrame
<1>3. CASE \/ JoinPublicFails(w) \/ CheckInviteFails(w) \/ ImportFails(w)
           \/ ImportNeedsApproval(w)
  <2>1. /\ job[w].pc \in {"claimed", "import"}
        /\ MarkFailed(job[w].row) \/ MarkPendingApproval(job[w].row)
        /\ Finish(w)
    BY <1>3 DEF JoinPublicFails, CheckInviteFails, ImportFails, ImportNeedsApproval, Reject
  <2>2. QED
    BY <1>2, <2>1, FinishFields DEF MarkFailed, MarkPendingApproval, RowStatus
<1>4. CASE PostJoin(w)
  <2>1. job[w].pc = "link" /\ MarkDone(job[w].row) /\ Goto(w, "route")
    BY <1>4 DEF PostJoin
  <2>2. QED
    BY <1>2, <2>1, GotoFields DEF MarkDone, RowStatus, Steps
<1>5. CASE JoinPublic(w) \/ CheckInvite(w) \/ ImportInvite(w)
  <2>1. /\ UNCHANGED queue /\ job[w].pc \in {"claimed", "import"}
        /\ \E pc \in {"link", "import"} : Goto(w, pc)
    BY <1>5 DEF JoinPublic, CheckInvite, ImportInvite, queueVars
  <2>2. \A v \in Workers, j \in DOMAIN queue : Holds(v, j) => Holds(v, j)'
    BY <2>1, GotoFields DEF Holds, Steps
  <2>3. QED
    BY <2>1, <2>2, AbandonFrame
<1>6. CASE RouteLive(w) \/ Backfill(w)
  <2>1. /\ UNCHANGED queue /\ job[w].pc \in {"route", "fill"}
        /\ Goto(w, "fill") \/ Finish(w)
    BY <1>6 DEF RouteLive, Backfill, queueVars
  <2>2. \A v \in Workers, j \in DOMAIN queue : Holds(v, j) => Holds(v, j)'
    BY <2>1, GotoFields, FinishFields DEF Holds, Steps
  <2>3. QED
    BY <2>1, <2>2, AbandonFrame
<1>7. ~FloodWait(w) /\ ~BackfillFails(w) /\ ~JobAborts(w)
  BY DEF FloodWait, BackfillFails, JobAborts
<1>8. QED
  BY <1>1, <1>3, <1>4, <1>5, <1>6, <1>7 DEF Worker, WorkerStep

\* Nobody else puts a row in progress or makes a worker drop one.
LEMMA OthersAbandonNone ==
  ASSUME Faults = {}, TypeOK, RowOwnership, NoRowAbandoned,
         Api \/ Poller \/ Sweep \/ Crash \/ Boot \/ Owner \/ Clock \/ UNCHANGED vars
  PROVE  NoRowAbandoned'
<1>1. ~Crash
  BY DEF Crash
<1>2. UNCHANGED job
  BY <1>1 DEF Api, Poller, Sweep, Boot, Owner, Clock, vars
<1>3. \A w \in Workers, i \in DOMAIN queue : Holds(w, i) => Holds(w, i)'
  BY <1>2 DEF Holds
<1>4. CASE UNCHANGED queue
  BY <1>3, <1>4, AbandonFrame
<1>5. ASSUME NEW u \in Users, NEW c \in Channels, Enqueue(u, c)
      PROVE  NoRowAbandoned'
  BY <1>3, <1>5, NewRow, AbandonFrame DEF TypeOK
<1>6. ASSUME NEW k \in DOMAIN queue, NEW st \in RowStatus \ {"in_progress"}, SetStatus(k, st)
      PROVE  NoRowAbandoned'
  BY <1>3, <1>6, StatusWrite, AbandonFrame DEF TypeOK
<1>7. CASE Api
  BY <1>4, <1>5, <1>7, RequestTypes
     DEF Api, ApiNext, PostSource, PostSourceById, LinkDirectly, FindInFlight, InsertJoinRequest,
         RemoveSource, HideSource, UnhideSource, HideFromCatalog, UnhideFromCatalog,
         BanChannel, UnbanChannel, queueVars, TypeOK
<1>8. CASE Poller
  <2>1. poll.todo \subseteq DOMAIN queue /\ (poll.pc = "link" => poll.row \in DOMAIN queue)
    BY DEF TypeOK, PollerTypeOK
  <2>2. CASE PostApproval \/ \E k \in poll.todo : TimeOut(k) \/ InviteGone(k)
    BY <1>6, <2>1, <2>2 DEF PostApproval, TimeOut, InviteGone, MarkDone, MarkFailed, RowStatus
  <2>3. CASE \/ FetchApprovals \/ BackfillApproved \/ BackfillApprovedFails
             \/ PostApprovalAborts \/ FinishPoll
             \/ \E k \in poll.todo : StillPending(k) \/ FoundApproved(k)
    BY <1>4, <2>3
       DEF FetchApprovals, BackfillApproved, BackfillApprovedFails, PostApprovalAborts, FinishPoll,
           StillPending, FoundApproved, queueVars
  <2>4. QED
    BY <1>8, <2>2, <2>3 DEF Poller, PollerStep
<1>9. CASE Sweep \/ Boot \/ Owner \/ Clock \/ UNCHANGED vars
  BY <1>4, <1>9 DEF Sweep, Boot, Owner, Clock, vars, queueVars, AgeApproval
<1>10. QED
  BY <1>1, <1>7, <1>8, <1>9

(* Without faults every row that is in_progress is in the hands of a worker: *)
(* no return path of _handle_one_pending or _join_private leaves one behind, *)
(* for any number of workers.                                                *)
THEOREM RowsAreKept == ASSUME Faults = {} PROVE Spec => []NoRowAbandoned
<1>1. Init => NoRowAbandoned
  BY DEF Init, QueueInit, NoRowAbandoned, RowsIn
<1>2. TypeOK /\ RowOwnership /\ NoRowAbandoned /\ [Next]_vars => NoRowAbandoned'
  BY WorkerAbandonsNone, OthersAbandonNone DEF Next
<1>3. QED
  BY <1>1, <1>2, TypeCorrect, RowsAreOwned, PTL DEF Spec

--------------------------------------------------------------------------------
(* Parked channels are not routed. *)

\* The channel of a join under way keeps its name while rows are appended and settled.
LEMMA FillingChannel ==
  ASSUME TypeOK, [Next]_vars
  PROVE  /\ \A w \in Workers : job[w].pc # "idle" => queue'[job[w].row].chan = Chan(w)
         /\ poll.pc \in {"link", "fill"} => queue'[poll.row].chan = queue[poll.row].chan
<1>1. \A j \in DOMAIN queue : queue'[j].chan = queue[j].chan
  BY SystemSteps, QueueKeepsRows DEF TypeOK
<1>2. QED
  BY <1>1, JobTypes DEF Chan, TypeOK, PollerTypeOK

\* A backfill under way ends by making its channel active.
LEMMA FillingStays ==
  ASSUME "backfill" \notin Faults, TypeOK, [Next]_vars, ~Crash, NEW c \in Channels,
         BeingFilled(c), subStatus'[c] = "dormant"
  PROVE  BeingFilled(c)'
<1>1. ASSUME NEW w \in Workers, job[w].pc \in {"route", "fill"}, Chan(w) = c
      PROVE  BeingFilled(c)'
  <2>1. queue'[job[w].row].chan = c
    BY <1>1, FillingChannel
  <2>2. ASSUME job'[w].pc \in {"route", "fill"}, job'[w].row = job[w].row
        PROVE  BeingFilled(c)'
    BY <2>1, <2>2 DEF BeingFilled, Chan
  <2>3. CASE job'[w] = job[w]
    BY <1>1, <2>2, <2>3
  <2>4. ASSUME NEW v \in Workers, v # w, Worker(v)
        PROVE  job'[w] = job[w]
    BY <2>4 DEF Worker, WorkerStep, ClaimRequest, JoinPublic, JoinPublicFails, FloodWait,
                CheckInvite, CheckInviteFails, ImportInvite, ImportNeedsApproval, ImportFails,
                PostJoin, RouteLive, Backfill, BackfillFails, JobAborts, Reject, Goto, Finish,
                TypeOK, WorkerTypeOK
  <2>5. CASE RouteLive(w)
    BY <2>2, <2>5, GotoFields DEF RouteLive, Steps
  <2>6. ~Backfill(w)
    BY <1>1 DEF Backfill, MarkBackfilled, Known, TypeOK, StoreTypeOK
  <2>7. Worker(w) => RouteLive(w)
    BY <1>1, <2>6 DEF Worker, WorkerStep, ClaimRequest, JoinPublic, JoinPublicFails, FloodWait,
                      CheckInvite, CheckInviteFails, ImportInvite, ImportNeedsApproval,
                      ImportFails, PostJoin, BackfillFails, JobAborts
  <2>8. CASE Api \/ Poller \/ Sweep \/ Boot \/ Owner \/ Clock \/ UNCHANGED vars
    BY <2>3, <2>8 DEF Api, Poller, Sweep, Boot, Owner, Clock, vars
  <2>9. QED
    BY <2>3, <2>4, <2>5, <2>7, <2>8 DEF Next
<1>2. CASE poll.pc = "fill" /\ queue[poll.row].chan = c
  <2>1. queue'[poll.row].chan = c
    BY <1>2, FillingChannel
  <2>2. CASE poll' = poll
    BY <1>2, <2>1, <2>2 DEF BeingFilled
  <2>3. ~Poller
    BY <1>2 DEF Poller, PollerStep, FetchApprovals, TimeOut, StillPending, InviteGone,
                FoundApproved, PostApproval, PostApprovalAborts, BackfillApproved,
                BackfillApprovedFails, FinishPoll, MarkBackfilled, Known, TypeOK, StoreTypeOK
  <2>4. QED
    BY <2>2, <2>3 DEF Next, Api, Worker, Sweep, Boot, Owner, Clock, vars
<1>3. QED
  BY <1>1, <1>2 DEF BeingFilled

\* Only RouteLive adds a channel to chat_map, but for the boot.
LEMMA OnlyJoinsRoute ==
  ASSUME TypeOK, [Next]_vars, ~Boot, NEW c \in chatMap' \ chatMap
  PROVE  BeingFilled(c)'
<1>1. ASSUME NEW w \in Workers, RouteLive(w)
      PROVE  BeingFilled(c)'
  <2>1. chatMap' = chatMap \cup {Chan(w)} /\ job[w].pc = "route" /\ Goto(w, "fill")
    BY <1>1 DEF RouteLive, Register
  <2>2. job'[w].pc = "fill" /\ job'[w].row = job[w].row
    BY <2>1, GotoFields DEF Steps
  <2>3. queue'[job[w].row].chan = c
    BY <2>1, FillingChannel
  <2>4. QED
    BY <2>2, <2>3 DEF BeingFilled, Chan
<1>2. ASSUME NEW w \in Workers, Worker(w)
      PROVE  RouteLive(w)
  BY <1>2 DEF Worker, WorkerStep, ClaimRequest, JoinPublic, JoinPublicFails, FloodWait, CheckInvite,
              CheckInviteFails, ImportInvite, ImportNeedsApproval, ImportFails, PostJoin,
              Backfill, BackfillFails, JobAborts, Reject, liveVars
<1>3. ~Api /\ ~Poller /\ ~Sweep /\ ~Crash /\ ~Owner /\ ~Clock /\ ~UNCHANGED vars
  BY DEF Api, Poller, Sweep, SweepStep, SelectTargets, Park, DropFromLive, Unregister, Crash, Owner,
         Clock, vars, liveVars
<1>4. QED
  BY <1>1, <1>2, <1>3 DEF Next

\* What the sweep has parked is dropped from chat_map before it parks more.
LEMMA ParkedStayOut ==
  ASSUME "backfill" \notin Faults, TypeOK, ParkedNotRouted, [Next]_vars
  PROVE  ParkedNotRouted'
<1>0. TypeOK' /\ sweep.targets \subseteq Channels
  BY SystemSteps DEF TypeOK, SweepTypeOK
<1> SUFFICES ASSUME NEW c \in chatMap', subStatus'[c] = "dormant"
             PROVE  c \in sweep'.parked \/ BeingFilled(c)'
  BY DEF ParkedNotRouted
<1>1. c \in Channels
  BY <1>0 DEF TypeOK, LiveTypeOK
<1>2. ~Crash /\ ~Boot
  BY <1>1 DEF Crash, Boot, LoadChatMap, Active, storeVars
<1>3. CASE c \notin chatMap
  BY <1>2, <1>3, OnlyJoinsRoute
<1>4. CASE c \in chatMap /\ subStatus[c] = "dormant" /\ BeingFilled(c)
  BY <1>1, <1>2, <1>4, FillingStays
<1>5. CASE c \in chatMap /\ subStatus[c] = "dormant" /\ c \in sweep.parked
  <2>1. ~SelectTargets /\ ~DropFromLive /\ \A d \in sweep.targets : ~Park(d)
    BY <1>5 DEF SelectTargets, NoSweep, DropFromLive, Unregister, Park
  <2>2. UNCHANGED sweep
    BY <1>2, <2>1 DEF Next, Api, Worker, Poller, Sweep, SweepStep, Owner, Clock, vars
  <2>3. QED
    BY <1>5, <2>2
<1>6. CASE c \in chatMap /\ subStatus[c] # "dormant"
  <2>1. ~LinkOrFill
    BY <1>1, <1>6
       DEF LinkOrFill, AddUserSource, IncrementRefCount, Known, MarkBackfilled, TypeOK, StoreTypeOK
  <2>2. PICK d \in sweep.targets : Park(d)
    BY <2>1, OnlyLinksAndFills
  <2>3. d = c /\ sweep'.parked = {d}
    BY <1>0, <1>1, <1>6, <2>2 DEF Park, MarkDormant, TypeOK, StoreTypeOK
  <2>4. QED
    BY <2>3
<1>7. QED
  BY <1>3, <1>4, <1>5, <1>6 DEF ParkedNotRouted

(* As long as backfills do not fail, a dormant channel is in chat_map only   *)
(* until the sweep has dropped it, or because a join is making it active:    *)
(* with any number of workers, crashes and boots at any point.               *)
THEOREM ParkedAreNotRouted == ASSUME "backfill" \notin Faults PROVE Spec => []ParkedNotRouted
<1>1. Init => ParkedNotRouted
  BY DEF Init, LiveInit, ParkedNotRouted
<1>2. TypeOK /\ ParkedNotRouted /\ [Next]_vars => ParkedNotRouted'
  BY ParkedStayOut
<1>3. QED
  BY <1>1, <1>2, TypeCorrect, PTL DEF Spec

--------------------------------------------------------------------------------
(* One request per user and public channel. *)

\* A public request about to be inserted still has no row in flight.
InsertsAreNew ==
  \A h \in Handlers : request[h].pc = "insert" /\ request[h].chan \notin Private
                       => ~InFlight(request[h].user, request[h].chan)

\* No row comes back into flight: a parked or settled row is never pending again.
LEMMA FlightsEnd ==
  ASSUME TypeOK, [Next]_vars, NEW i \in DOMAIN queue,
         queue'[i].status \in {"pending", "in_progress"}
  PROVE  queue[i].status \in {"pending", "in_progress"}
<1>1. CASE queue'[i] = queue[i]
  BY <1>1
<1>2. ASSUME NEW u \in Users, NEW c \in Channels, Enqueue(u, c)
      PROVE  queue'[i] = queue[i]
  BY <1>2, NewRow DEF TypeOK
<1>3. ASSUME NEW k \in DOMAIN queue, NEW st \in {"pending_approval", "done", "failed"},
             SetStatus(k, st)
      PROVE  queue[i].status \in {"pending", "in_progress"}
  <2>1. queue'[i].status = IF i = k THEN st ELSE queue[i].status
    BY <1>3, StatusWrite DEF TypeOK, RowStatus
  <2>2. QED
    BY <2>1
<1>4. ASSUME NEW k \in DOMAIN queue, Claim(k)
      PROVE  queue[i].status \in {"pending", "in_progress"}
  <2>1. /\ queue[k].status = "pending"
        /\ queue'[i].status = IF i = k THEN "in_progress" ELSE queue[i].status
    BY <1>4, StatusWrite DEF Claim, RowsIn, TypeOK, RowStatus
  <2>2. QED
    BY <2>1
<1>5. CASE Api
  BY <1>1, <1>2, <1>5, RequestTypes
     DEF Api, ApiNext, PostSource, PostSourceById, LinkDirectly, FindInFlight, InsertJoinRequest,
         RemoveSource, HideSource, UnhideSource, HideFromCatalog, UnhideFromCatalog,
         BanChannel, UnbanChannel, queueVars, TypeOK
<1>6. ASSUME NEW w \in Workers, Worker(w)
      PROVE  queue[i].status \in {"pending", "in_progress"}
  <2>1. job[w].pc # "idle" => job[w].row \in DOMAIN queue
    BY JobTypes
  <2>2. CASE ClaimRequest(w)
    BY <1>4, <2>2 DEF ClaimRequest
  <2>3. CASE \/ JoinPublicFails(w) \/ CheckInviteFails(w) \/ ImportFails(w)
             \/ ImportNeedsApproval(w) \/ PostJoin(w)
    BY <1>3, <2>1, <2>3
       DEF JoinPublicFails, CheckInviteFails, ImportFails, ImportNeedsApproval, PostJoin, Reject,
           MarkFailed, MarkPendingApproval, MarkDone
  <2>4. CASE \/ JoinPublic(w) \/ FloodWait(w) \/ CheckInvite(w) \/ ImportInvite(w)
             \/ RouteLive(w) \/ Backfill(w) \/ BackfillFails(w) \/ JobAborts(w)
    BY <1>1, <2>4
       DEF JoinPublic, FloodWait, CheckInvite, ImportInvite, RouteLive, Backfill, BackfillFails,
           JobAborts, queueVars
  <2>5. QED
    BY <1>6, <2>2, <2>3, <2>4 DEF Worker, WorkerStep
<1>7. CASE Poller
  <2>1. poll.todo \subseteq DOMAIN queue /\ (poll.pc = "link" => poll.row \in DOMAIN queue)
    BY DEF TypeOK, PollerTypeOK
  <2>2. CASE PostApproval \/ \E k \in poll.todo : TimeOut(k) \/ InviteGone(k)
    BY <1>3, <2>1, <2>2 DEF PostApproval, TimeOut, InviteGone, MarkDone, MarkFailed
  <2>3. CASE \/ FetchApprovals \/ BackfillApproved \/ BackfillApprovedFails
             \/ PostApprovalAborts \/ FinishPoll
             \/ \E k \in poll.todo : StillPending(k) \/ FoundApproved(k)
    BY <1>1, <2>3
       DEF FetchApprovals, BackfillApproved, BackfillApprovedFails, PostApprovalAborts, FinishPoll,
           StillPending, FoundApproved, queueVars
  <2>4. QED
    BY <1>7, <2>2, <2>3 DEF Poller, PollerStep
<1>8. CASE Sweep \/ Crash \/ Boot \/ Owner \/ Clock \/ UNCHANGED vars
  BY <1>1, <1>8 DEF Sweep, Crash, Boot, Owner, Clock, vars, queueVars, AgeApproval
<1>9. QED
  BY <1>5, <1>6, <1>7, <1>8 DEF Next

\* Seen from one user and channel, nothing is in flight that was not, but for an insert.
LEMMA FlightsStart ==
  ASSUME TypeOK, [Next]_vars, DOMAIN queue' = DOMAIN queue, NEW u, NEW c, ~InFlight(u, c)
  PROVE  ~InFlight(u, c)'
<1>1. \A j \in DOMAIN queue : queue'[j].user = queue[j].user /\ queue'[j].chan = queue[j].chan
  BY SystemSteps, QueueKeepsRows DEF TypeOK
<1>2. QED
  BY <1>1, FlightsEnd DEF InFlight, RowsIn

\* With one handler nothing comes between looking for a row and inserting one.
LEMMA InsertsStayNew ==
  ASSUME \A g, h \in Handlers : g = h, TypeOK, InsertsAreNew, [Next]_vars
  PROVE  InsertsAreNew'
<1>1. CASE UNCHANGED request /\ DOMAIN queue' = DOMAIN queue
  BY <1>1, FlightsStart DEF InsertsAreNew
<1>2. ASSUME NEW h \in Handlers, Answer(h)
      PROVE  InsertsAreNew'
  <2>1. request'[h].pc = "idle"
    BY <1>2 DEF Answer, NoRequest, TypeOK, ApiTypeOK
  <2>2. QED
    BY <2>1 DEF InsertsAreNew
<1>3. ASSUME NEW h \in Handlers, NEW pc, NEW u, NEW c, Proceed(h, pc, u, c), UNCHANGED queue,
             pc = "insert" /\ c \notin Private => ~InFlight(u, c)
      PROVE  InsertsAreNew'
  <2>1. request'[h] = [pc |-> pc, user |-> u, chan |-> c]
    BY <1>3 DEF Proceed, TypeOK, ApiTypeOK
  <2>2. ~InFlight(u, c) => ~InFlight(u, c)'
    BY <1>3 DEF InFlight, RowsIn
  <2>3. QED
    BY <1>3, <2>1, <2>2 DEF InsertsAreNew
<1>4. ASSUME NEW h \in Handlers, NEW u \in Users, NEW c \in Channels,
             PostSource(h, u, c) \/ PostSourceById(h, u, c)
      PROVE  InsertsAreNew'
  <2>1. c \notin Private => Route(c) # "insert"
    BY DEF Route
  <2>2. QED
    BY <1>3, <1>4, <2>1 DEF PostSource, PostSourceById, queueVars
<1>5. ASSUME NEW h \in Handlers, LinkDirectly(h) \/ FindInFlight(h) \/ InsertJoinRequest(h)
      PROVE  InsertsAreNew'
  BY <1>2, <1>3, <1>5 DEF LinkDirectly, FindInFlight, InsertJoinRequest, queueVars
<1>6. CASE \E h \in Handlers, u \in Users, c \in Channels :
             \/ PostSource(h, u, c) \/ PostSourceById(h, u, c)
             \/ LinkDirectly(h) \/ FindInFlight(h) \/ InsertJoinRequest(h)
  BY <1>4, <1>5, <1>6
<1>7. CASE UNCHANGED request
  <2>1. ASSUME NEW h \in Handlers
        PROVE  ~InsertJoinRequest(h)
    BY <1>7 DEF InsertJoinRequest, Answer, NoRequest, TypeOK, ApiTypeOK
  <2>2. QED
    BY <1>1, <1>7, <2>1, OnlyRequestsQueue
<1>8. CASE Api
  BY <1>4, <1>5, <1>7, <1>8
     DEF Api, ApiNext, RemoveSource, HideSource, UnhideSource, HideFromCatalog, UnhideFromCatalog,
         BanChannel, UnbanChannel
<1>9. QED
  BY <1>7, <1>8 DEF Next, Worker, Poller, Sweep, Crash, Boot, Owner, Clock, vars

\* A row is added only for what is not in flight, and none comes back.
LEMMA FlightsStaySingle ==
  ASSUME TypeOK, InsertsAreNew, OneInFlightPerUser, [Next]_vars
  PROVE  OneInFlightPerUser'
<1> SUFFICES ASSUME NEW i \in DOMAIN queue', NEW j \in DOMAIN queue',
                    queue'[i].status \in {"pending", "in_progress"},
                    queue'[j].status \in {"pending", "in_progress"},
                    queue'[i].chan = queue'[j].chan, queue'[i].chan \notin Private,
                    queue'[i].user = queue'[j].user
             PROVE  i = j
  BY DEF OneInFlightPerUser, RowsIn
<1>1. \A k \in DOMAIN queue : queue'[k].user = queue[k].user /\ queue'[k].chan = queue[k].chan
  BY SystemSteps, QueueKeepsRows DEF TypeOK
<1>2. CASE i \in DOMAIN queue /\ j \in DOMAIN queue
  BY <1>1, <1>2, FlightsEnd DEF OneInFlightPerUser, RowsIn
<1>3. CASE i \notin DOMAIN queue \/ j \notin DOMAIN queue
  <2>1. PICK h \in Handlers : InsertJoinRequest(h)
    BY <1>3, OnlyRequestsQueue
  <2>2. /\ request[h].pc = "insert" /\ Enqueue(request[h].user, request[h].chan)
        /\ request[h].user \in Users /\ request[h].chan \in Channels
    BY <2>1, RequestTypes DEF InsertJoinRequest, TypeOK
  <2>3. /\ \A k \in DOMAIN queue' \ DOMAIN queue :
             queue'[k].user = request[h].user /\ queue'[k].chan = request[h].chan
        /\ \A k, l \in DOMAIN queue' \ DOMAIN queue : k = l
    BY <2>2, NewRow DEF TypeOK
  <2>4. request[h].chan \notin Private => ~InFlight(request[h].user, request[h].chan)
    BY <2>2 DEF InsertsAreNew
  <2>5. ASSUME NEW k \in DOMAIN queue, queue'[k].status \in {"pending", "in_progress"}
        PROVE  InFlight(queue'[k].user, queue'[k].chan)
    BY <1>1, <2>5, FlightsEnd DEF InFlight, RowsIn
  <2>6. QED
    BY <1>3, <2>3, <2>4, <2>5
<1>4. QED
  BY <1>2, <1>3

(* While add-source requests run one at a time, a user's repeated requests   *)
(* for a public channel share one row in flight, however many workers claim  *)
(* rows and whatever they do with them.  (Two requests at once may both find *)
(* none and insert two rows: nothing in the table forbids it.)               *)
THEOREM FlightsAreShared ==
  ASSUME \A g, h \in Handlers : g = h
  PROVE  Spec => []OneInFlightPerUser
<1>1. Init => InsertsAreNew /\ OneInFlightPerUser
  BY DEF Init, ApiInit, NoRequest, QueueInit, InsertsAreNew, OneInFlightPerUser, RowsIn
<1>2. TypeOK /\ InsertsAreNew /\ OneInFlightPerUser /\ [Next]_vars
        => InsertsAreNew' /\ OneInFlightPerUser'
  BY InsertsStayNew, FlightsStaySingle
<1>3. QED
  BY <1>1, <1>2, TypeCorrect, PTL DEF Spec

--------------------------------------------------------------------------------
(* Active channels are routed. *)

(* What the live routing rests on when nobody unsubscribes and no owner has  *)
(* to approve: the poller and the sweep have nothing to do, so only the      *)
(* workers move channels in and out of sight of the handlers, and a channel  *)
(* is routed before its backfill runs.                                       *)
NothingToPark ==
  /\ \A c \in Channels : Known(c) => Followers(c) # {}
  /\ sweep = NoSweep

NothingToApprove == RowsIn("pending_approval") = {} /\ poll = NoPoll

RoutedBeforeFilled ==
  /\ \A w \in Workers : job[w].pc = "fill" => Chan(w) \in chatMap
  /\ ~up => \A w \in Workers : job[w].pc = "idle"

\* So the sweep and the poller rest.
LEMMA SweepAndPollerRest ==
  /\ StoreInv /\ NothingToPark => ~Sweep
  /\ NothingToApprove => ~Poller
<1>1. ASSUME StoreInv, NothingToPark, SelectTargets
      PROVE  FALSE
  <2>1. PICK c \in Active : refCount[c] = 0
    BY <1>1 DEF SelectTargets
  <2>2. refCount[c] = Cardinality(Followers(c)) /\ Followers(c) # {}
    BY <1>1 DEF Active, Known, NothingToPark, StoreInv, RefCountExact
  <2>3. QED
    BY <2>1, <2>2, FollowersFinite, FS_EmptySet
<1>2. NothingToPark => ~DropFromLive /\ \A c \in sweep.targets : ~Park(c)
  BY DEF DropFromLive, NothingToPark, NoSweep
<1>3. NothingToApprove => ~Poller
  BY DEF Poller, PollerStep, FetchApprovals, TimeOut, StillPending, InviteGone, FoundApproved,
         PostApproval, PostApprovalAborts, BackfillApproved, BackfillApprovedFails, FinishPoll,
         NothingToApprove, NoPoll
<1>4. QED
  BY <1>1, <1>2, <1>3 DEF Sweep, SweepStep

\* If nobody unsubscribes, a channel with a row keeps its followers.
LEMMA FollowersStay ==
  ASSUME Leavers = {}, TypeOK, StoreInv, NothingToPark, [Next]_vars
  PROVE  NothingToPark'
<1>1. sources \subseteq sources'
  BY DEF Next, vars, storeVars, Api, ApiNext, PostSource, PostSourceById, LinkDirectly, FindInFlight,
         InsertJoinRequest, HideSource, MarkHidden, UnhideSource, ClearHidden,
         HideFromCatalog, MarkCatalogHidden, UnhideFromCatalog, ClearCatalogHidden, BanChannel, Ban,
         UnbanChannel, Unban, AddUserSource, Worker, WorkerStep, ClaimRequest, JoinPublic,
         JoinPublicFails, FloodWait, CheckInvite, CheckInviteFails, ImportInvite,
         ImportNeedsApproval, ImportFails, PostJoin, RouteLive, Backfill, BackfillFails, JobAborts,
         Reject, MarkBackfilled, Poller, PollerStep, FetchApprovals, TimeOut, StillPending,
         InviteGone, FoundApproved, PostApproval, PostApprovalAborts, BackfillApproved,
         BackfillApprovedFails, FinishPoll, Sweep, SweepStep, SelectTargets, Park, DropFromLive,
         MarkDormant, Crash, Boot, Owner, Clock
<1>2. \A c \in sweep.targets : ~Park(c)
  BY DEF NothingToPark, NoSweep
<1>3. ASSUME NEW c \in Channels, Known(c)'
      PROVE  Followers(c)' # {}
  <2>1. CASE Known(c)
    BY <1>1, <2>1 DEF NothingToPark, Followers
  <2>2. CASE ~Known(c)
    <3>1. PICK u \in Users, d \in Channels : AddUserSource(u, d)
      BY <1>2, <1>3, <2>2, OnlyLinksAndFills
         DEF LinkOrFill, MarkBackfilled, Known, TypeOK, StoreTypeOK
    <3>2. d = c
      BY <1>3, <2>2, <3>1, LinkMakesKnown DEF TypeOK
    <3>3. u \in Followers(c)'
      BY <3>1, <3>2 DEF AddUserSource, Followers
    <3>4. QED
      BY <3>3
  <2>3. QED
    BY <2>1, <2>2
<1>4. sweep' = NoSweep
  BY SweepAndPollerRest
     DEF Next, Api, Worker, Poller, Crash, Boot, Owner, Clock, vars, NothingToPark
<1>5. QED
  BY <1>3, <1>4 DEF NothingToPark

\* If no owner has to approve, no row is parked and the poller has none to fetch.
LEMMA NothingIsParked ==
  ASSUME Gated = {}, TypeOK, NothingToApprove, [Next]_vars
  PROVE  NothingToApprove'
<1>1. ~Poller
  BY SweepAndPollerRest
<1>2. ASSUME RowsIn("pending_approval")' = {}
      PROVE  NothingToApprove'
  BY <1>1, <1>2
     DEF NothingToApprove, Next, Api, Worker, Sweep, Crash, Boot, Owner, Clock, vars
<1>3. ASSUME UNCHANGED queue
      PROVE  NothingToApprove'
  BY <1>2, <1>3 DEF NothingToApprove, RowsIn
<1>4. ASSUME NEW k \in DOMAIN queue, NEW st \in RowStatus \ {"pending_approval"}, SetStatus(k, st)
      PROVE  NothingToApprove'
  BY <1>2, <1>4, StatusWrite DEF NothingToApprove, RowsIn, TypeOK
<1>5. ASSUME NEW u \in Users, NEW c \in Channels, Enqueue(u, c)
      PROVE  NothingToApprove'
  BY <1>2, <1>5, NewRow DEF NothingToApprove, RowsIn, TypeOK
<1>6. CASE Api
  BY <1>3, <1>5, <1>6, RequestTypes
     DEF Api, ApiNext, PostSource, PostSourceById, LinkDirectly, FindInFlight, InsertJoinRequest,
         RemoveSource, HideSource, UnhideSource, HideFromCatalog, UnhideFromCatalog,
         BanChannel, UnbanChannel, queueVars, TypeOK
<1>7. ASSUME NEW w \in Workers, Worker(w)
      PROVE  NothingToApprove'
  <2>1. job[w].pc # "idle" => job[w].row \in DOMAIN queue
    BY JobTypes
  <2>2. CASE ClaimRequest(w)
    BY <1>4, <2>2 DEF ClaimRequest, Claim, RowStatus
  <2>3. CASE JoinPublicFails(w) \/ CheckInviteFails(w) \/ ImportFails(w) \/ PostJoin(w)
    BY <1>4, <2>1, <2>3
       DEF JoinPublicFails, CheckInviteFails, ImportFails, PostJoin, Reject, MarkFailed, MarkDone,
           RowStatus
  <2>4. CASE \/ JoinPublic(w) \/ FloodWait(w) \/ CheckInvite(w) \/ ImportInvite(w)
             \/ RouteLive(w) \/ Backfill(w) \/ BackfillFails(w) \/ JobAborts(w)
    BY <1>3, <2>4
       DEF JoinPublic, FloodWait, CheckInvite, ImportInvite, RouteLive, Backfill, BackfillFails,
           JobAborts, queueVars
  <2>5. ~ImportNeedsApproval(w)
    BY DEF ImportNeedsApproval
  <2>6. QED
    BY <1>7, <2>2, <2>3, <2>4, <2>5 DEF Worker, WorkerStep
<1>8. CASE Sweep \/ Crash \/ Boot \/ Owner \/ Clock \/ UNCHANGED vars
  BY <1>3, <1>8 DEF Sweep, Crash, Boot, Owner, Clock, vars, queueVars, AgeApproval
<1>9. QED
  BY <1>1, <1>6, <1>7, <1>8 DEF Next

\* The workers' backfills are of channels they have routed.
LEMMA FillsStayRouted ==
  ASSUME TypeOK, StoreInv, NothingToPark, RoutedBeforeFilled, [Next]_vars
  PROVE  RoutedBeforeFilled'
<1>1. \A w \in Workers : job[w].pc # "idle" => queue'[job[w].row].chan = Chan(w)
  BY FillingChannel
<1>2. CASE UNCHANGED job /\ UNCHANGED up /\ chatMap \subseteq chatMap'
  BY <1>1, <1>2 DEF RoutedBeforeFilled, Chan
<1>3. ASSUME NEW w \in Workers, Worker(w), UNCHANGED up, chatMap \subseteq chatMap',
             \A v \in Workers \ {w} : job'[v] = job[v],
             job'[w].pc = "fill" => Chan(w)' \in chatMap'
      PROVE  RoutedBeforeFilled'
  BY <1>1, <1>3 DEF RoutedBeforeFilled, Chan, Worker
<1>4. ASSUME NEW w \in Workers, Worker(w)
      PROVE  RoutedBeforeFilled'
  <2>1. CASE RouteLive(w)
    <3>1. /\ job[w].pc = "route" /\ chatMap' = chatMap \cup {Chan(w)} /\ UNCHANGED up
          /\ Goto(w, "fill")
      BY <2>1 DEF RouteLive, Register
    <3>2. /\ job'[w].row = job[w].row
          /\ \A v \in Workers \ {w} : job'[v] = job[v]
      BY <3>1, GotoFields DEF Steps
    <3>3. Chan(w)' = Chan(w)
      BY <1>1, <3>1, <3>2 DEF Chan
    <3>4. QED
      BY <1>3, <1>4, <3>1, <3>2, <3>3
  <2>2. CASE ClaimRequest(w)
    BY <1>3, <1>4, <2>2 DEF ClaimRequest, liveVars, TypeOK, WorkerTypeOK
  <2>3. CASE JoinPublic(w) \/ CheckInvite(w) \/ ImportInvite(w) \/ PostJoin(w)
    <3>1. /\ job[w].pc # "idle" /\ UNCHANGED liveVars
          /\ \E pc \in {"link", "import", "route"} : Goto(w, pc)
      BY <2>3 DEF JoinPublic, CheckInvite, ImportInvite, PostJoin
    <3>2. job'[w].pc # "fill" /\ \A v \in Workers \ {w} : job'[v] = job[v]
      BY <3>1, GotoFields DEF Steps
    <3>3. QED
      BY <1>3, <1>4, <3>1, <3>2 DEF liveVars
  <2>4. CASE \/ JoinPublicFails(w) \/ CheckInviteFails(w) \/ ImportFails(w)
             \/ ImportNeedsApproval(w) \/ FloodWait(w) \/ Backfill(w) \/ BackfillFails(w)
             \/ JobAborts(w)
    <3>1. Finish(w) /\ UNCHANGED liveVars
      BY <2>4 DEF JoinPublicFails, CheckInviteFails, ImportFails, ImportNeedsApproval, FloodWait,
                  Backfill, BackfillFails, JobAborts, Reject
    <3>2. QED
      BY <1>3, <1>4, <3>1, FinishFields DEF liveVars
  <2>5. QED
    BY <1>4, <2>1, <2>2, <2>3, <2>4 DEF Worker, WorkerStep
<1>5. CASE Crash \/ Boot
  BY <1>5 DEF Crash, Boot, LoadChatMap, NoJob, RoutedBeforeFilled
<1>6. CASE Api \/ Poller \/ Owner \/ Clock \/ UNCHANGED vars
  BY <1>2, <1>6 DEF Api, Poller, Owner, Clock, vars, liveVars
<1>7. QED
  BY <1>4, <1>5, <1>6, SweepAndPollerRest DEF Next

\* A channel becomes active where it is routed.
LEMMA ActiveStaysRouted ==
  ASSUME TypeOK, StoreInv, NothingToPark, NothingToApprove, RoutedBeforeFilled, ActiveIsRouted,
         [Next]_vars
  PROVE  ActiveIsRouted'
<1>1. CASE Boot \/ Crash
  BY <1>1 DEF Boot, Crash, LoadChatMap, ActiveIsRouted, Active, storeVars
<1>2. ASSUME UNCHANGED up, chatMap \subseteq chatMap',
             \A c \in Channels : subStatus'[c] = "active" =>
               subStatus[c] = "active" \/ c \in chatMap
      PROVE  ActiveIsRouted'
  BY <1>2 DEF ActiveIsRouted, Active
<1>3. ASSUME UNCHANGED up, chatMap \subseteq chatMap',
             UNCHANGED subStatus \/ \E u \in Users, d \in Channels : AddUserSource(u, d)
      PROVE  ActiveIsRouted'
  BY <1>2, <1>3 DEF AddUserSource, IncrementRefCount, Known, TypeOK, StoreTypeOK
<1>4. CASE Api
  <2>1. UNCHANGED liveVars
    BY <1>4 DEF Api
  <2>2. UNCHANGED subStatus \/ \E u \in Users, d \in Channels : AddUserSource(u, d)
    BY <1>4, RequestTypes
       DEF Api, ApiNext, PostSource, PostSourceById, LinkDirectly, FindInFlight, InsertJoinRequest,
           RemoveSource, RemoveUserSource, HideSource, MarkHidden, UnhideSource, ClearHidden,
           HideFromCatalog, MarkCatalogHidden, UnhideFromCatalog, ClearCatalogHidden, BanChannel,
           Ban, UnbanChannel, Unban, storeVars, TypeOK
  <2>3. QED
    BY <1>3, <2>1, <2>2 DEF liveVars
<1>5. ASSUME NEW w \in Workers, Worker(w)
      PROVE  ActiveIsRouted'
  <2>1. job[w].pc # "idle" => queue[job[w].row].user \in Users /\ Chan(w) \in Channels
    BY JobTypes
  <2>2. CASE Backfill(w)
    <3>1. Chan(w) \in chatMap
      BY <2>2 DEF Backfill, RoutedBeforeFilled
    <3>2. \A c \in Channels : subStatus'[c] = "active" => subStatus[c] = "active" \/ c = Chan(w)
      BY <2>1, <2>2 DEF Backfill, MarkBackfilled, TypeOK, StoreTypeOK
    <3>3. QED
      BY <1>2, <2>2, <3>1, <3>2 DEF Backfill, liveVars
  <2>3. CASE PostJoin(w)
    BY <1>3, <2>1, <2>3 DEF PostJoin, liveVars
  <2>4. CASE RouteLive(w)
    BY <1>3, <2>4 DEF RouteLive, Register, storeVars
  <2>5. CASE \/ ClaimRequest(w) \/ JoinPublic(w) \/ JoinPublicFails(w) \/ FloodWait(w)
             \/ CheckInvite(w) \/ CheckInviteFails(w) \/ ImportInvite(w)
             \/ ImportNeedsApproval(w) \/ ImportFails(w) \/ BackfillFails(w) \/ JobAborts(w)
    BY <1>3, <2>5
       DEF ClaimRequest, JoinPublic, JoinPublicFails, FloodWait, CheckInvite, CheckInviteFails,
           ImportInvite, ImportNeedsApproval, ImportFails, BackfillFails, JobAborts, Reject,
           storeVars, liveVars
  <2>6. QED
    BY <1>5, <2>2, <2>3, <2>4, <2>5 DEF Worker, WorkerStep
<1>6. CASE Owner \/ Clock \/ UNCHANGED vars
  BY <1>3, <1>6 DEF Owner, Clock, vars, liveVars, storeVars
<1>7. QED
  BY <1>1, <1>4, <1>5, <1>6, SweepAndPollerRest DEF Next

(* The newly joined channels receive live updates without a restart, with    *)
(* any number of workers and all faults, if nobody unsubscribes and no       *)
(* join needs an approval.  (The poller activates channels it does not       *)
(* route; and a sweep that has parked a channel may drop it from chat_map    *)
(* after a worker has routed it again.)                                      *)
THEOREM ActiveAreRouted ==
  ASSUME Leavers = {}, Gated = {}
  PROVE  Spec => []ActiveIsRouted
<1> DEFINE IInv == NothingToPark /\ NothingToApprove /\ RoutedBeforeFilled /\ ActiveIsRouted
<1>1. Init => IInv
  BY DEF Init, StoreInit, QueueInit, LiveInit, WorkerInit, PollerInit, SweepInit, NoJob, Known,
         NothingToPark, NothingToApprove, RowsIn, RoutedBeforeFilled, ActiveIsRouted, Active
<1>2. TypeOK /\ StoreInv /\ IInv /\ [Next]_vars => IInv'
  BY FollowersStay, NothingIsParked, FillsStayRouted, ActiveStaysRouted
<1>3. IInv => ActiveIsRouted
  OBVIOUS
<1>4. QED
  BY <1>1, <1>2, <1>3, TypeCorrect, StoreInvariant, PTL DEF Spec
================================================================================
