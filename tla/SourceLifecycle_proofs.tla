-------------------------- MODULE SourceLifecycle_proofs --------------------------
(***************************************************************************)
(* Proofs about SourceLifecycle, for any sets of users, channels, workers  *)
(* and request handlers, any length of the queue, and all the faults.      *)
(*                                                                         *)
(* The store and the queue are proved about on their own first; the system *)
(* is then shown to change the store only through its operators, so what   *)
(* holds of the store holds of the system.                                 *)
(***************************************************************************)
EXTENDS SourceLifecycle, TLAPS, FiniteSetTheorems, SequenceTheorems

USE DeploymentAssumption, MaxRequestsIsNat

--------------------------------------------------------------------------------
(* The subscription store *)

\* Whatever repository function runs, the tables keep their types.
LEMMA StoreKeepsTypes == StoreTypeOK /\ [StoreNext]_storeVars => StoreTypeOK'
<1> SUFFICES ASSUME StoreTypeOK, [StoreNext]_storeVars PROVE StoreTypeOK'
  OBVIOUS
<1> USE DEF StoreTypeOK
<1>1. ASSUME NEW u \in Users, NEW c \in Channels, AddUserSource(u, c)
      PROVE StoreTypeOK'
  BY <1>1 DEF AddUserSource, IncrementRefCount, SubStatus
<1>2. ASSUME NEW u \in Users, NEW c \in Channels, RemoveUserSource(u, c)
      PROVE StoreTypeOK'
  BY <1>2 DEF RemoveUserSource, DecrementRefCount
<1>3. ASSUME NEW u \in Users, NEW c \in Channels,
             \/ MarkHidden(u, c) \/ ClearHidden(u, c)
             \/ MarkCatalogHidden(u, c) \/ ClearCatalogHidden(u, c)
      PROVE StoreTypeOK'
  BY <1>3 DEF MarkHidden, ClearHidden, MarkCatalogHidden, ClearCatalogHidden
<1>4. ASSUME NEW c \in Channels, MarkBackfilled(c) \/ MarkDormant(c)
      PROVE StoreTypeOK'
  BY <1>4 DEF MarkBackfilled, MarkDormant, SubStatus
<1>5. ASSUME NEW c \in Channels, Ban(c) \/ Unban(c)
      PROVE StoreTypeOK'
  BY <1>5 DEF Ban, Unban
<1>6. CASE UNCHANGED storeVars
  BY <1>6 DEF storeVars
<1>7. QED
  BY <1>1, <1>2, <1>3, <1>4, <1>5, <1>6 DEF StoreNext

\* What makes RefCountExact inductive: a channel without a row has no
\* followers, so the row the first follower creates may start at one.
StoreInv ==
  /\ StoreTypeOK
  /\ RefCountExact
  /\ \A c \in Channels : ~Known(c) => Followers(c) = {}

\* Followers of a channel are users, hence finitely many.
LEMMA FollowersFinite == ASSUME NEW c PROVE IsFiniteSet(Followers(c))
<1>1. Followers(c) \in SUBSET Users
  BY DEF Followers
<1>2. QED
  BY <1>1, FS_Subset

\* Linking a user adds exactly that follower, to that channel.
LEMMA AddingAFollower ==
  ASSUME StoreTypeOK, NEW u \in Users, NEW c \in Channels, AddUserSource(u, c), NEW d \in Channels
  PROVE  Followers(d)' = IF d = c THEN Followers(c) \cup {u} ELSE Followers(d)
BY DEF AddUserSource, Followers, StoreTypeOK

\* Unlinking a user removes exactly that follower, from that channel.
LEMMA RemovingAFollower ==
  ASSUME StoreTypeOK, NEW u \in Users, NEW c \in Channels, RemoveUserSource(u, c), NEW d \in Channels
  PROVE  Followers(d)' = IF d = c THEN Followers(c) \ {u} ELSE Followers(d)
BY DEF RemoveUserSource, Followers, StoreTypeOK

\* Every repository function keeps the counter exact.
LEMMA StoreKeepsInv == StoreInv /\ [StoreNext]_storeVars => StoreInv'
<1> SUFFICES ASSUME StoreInv, [StoreNext]_storeVars PROVE StoreInv'
  OBVIOUS
<1>0. StoreTypeOK /\ StoreTypeOK'
  BY StoreKeepsTypes DEF StoreInv
<1>1. ASSUME NEW u \in Users, NEW c \in Channels, AddUserSource(u, c)
      PROVE StoreInv'
  <2>1. \A d \in Channels : refCount'[d] = Cardinality(Followers(d)')
    <3> TAKE d \in Channels
    <3>1. CASE d # c
      BY <1>0, <1>1, <3>1, AddingAFollower
         DEF AddUserSource, IncrementRefCount, StoreInv, StoreTypeOK, RefCountExact
    <3>2. CASE d = c
      <4>1. Cardinality(Followers(c)') =
              IF u \in Followers(c) THEN Cardinality(Followers(c)) ELSE Cardinality(Followers(c)) + 1
        <5>1. Followers(c)' = Followers(c) \cup {u}
          BY <1>0, <1>1, AddingAFollower
        <5>2. QED
          BY <5>1, FollowersFinite, FS_AddElement
      <4>2. u \in Followers(c) <=> <<u, c>> \in sources
        BY DEF Followers
      <4>3. ~Known(c) => Cardinality(Followers(c)) = 0
        BY FS_EmptySet DEF StoreInv
      <4>4. QED
        BY <1>0, <1>1, <3>2, <4>1, <4>2, <4>3
           DEF AddUserSource, IncrementRefCount, StoreInv, StoreTypeOK, RefCountExact
    <3>3. QED
      BY <3>1, <3>2
  <2>2. \A d \in Channels : ~Known(d)' => Followers(d)' = {}
    <3> TAKE d \in Channels
    <3>1. CASE d # c
      BY <1>0, <1>1, <3>1, AddingAFollower
         DEF AddUserSource, IncrementRefCount, StoreInv, StoreTypeOK, Known
    <3>2. CASE d = c
      BY <1>0, <1>1, <3>2 DEF AddUserSource, IncrementRefCount, StoreInv, StoreTypeOK, Known, Followers
    <3>3. QED
      BY <3>1, <3>2
  <2>3. QED
    BY <1>0, <2>1, <2>2 DEF StoreInv, RefCountExact
<1>2. ASSUME NEW u \in Users, NEW c \in Channels, RemoveUserSource(u, c)
      PROVE StoreInv'
  <2>1. \A d \in Channels : refCount'[d] = Cardinality(Followers(d)')
    <3> TAKE d \in Channels
    <3>1. CASE d # c
      BY <1>0, <1>2, <3>1, RemovingAFollower
         DEF RemoveUserSource, DecrementRefCount, StoreInv, StoreTypeOK, RefCountExact
    <3>2. CASE d = c
      <4>1. Cardinality(Followers(c)') =
              IF u \in Followers(c) THEN Cardinality(Followers(c)) - 1 ELSE Cardinality(Followers(c))
        <5>1. Followers(c)' = Followers(c) \ {u}
          BY <1>0, <1>2, RemovingAFollower
        <5>2. QED
          BY <5>1, FollowersFinite, FS_RemoveElement
      <4>2. u \in Followers(c) <=> <<u, c>> \in sources
        BY DEF Followers
      <4>3. u \in Followers(c) => Cardinality(Followers(c)) # 0
        BY FollowersFinite, FS_EmptySet
      <4>4. QED
        BY <1>0, <1>2, <3>2, <4>1, <4>2, <4>3
           DEF RemoveUserSource, DecrementRefCount, StoreInv, StoreTypeOK, RefCountExact
    <3>3. QED
      BY <3>1, <3>2
  <2>2. \A d \in Channels : ~Known(d)' => Followers(d)' = {}
    BY <1>0, <1>2, RemovingAFollower DEF RemoveUserSource, StoreInv, Known
  <2>3. QED
    BY <1>0, <2>1, <2>2 DEF StoreInv, RefCountExact
<1>3. ASSUME UNCHANGED <<sources, refCount>>,
             \A c \in Channels : ~Known(c)' => ~Known(c)
      PROVE StoreInv'
  BY <1>0, <1>3 DEF StoreInv, RefCountExact, Followers
<1>4. ASSUME NEW u \in Users, NEW c \in Channels,
             \/ MarkHidden(u, c) \/ ClearHidden(u, c)
             \/ MarkCatalogHidden(u, c) \/ ClearCatalogHidden(u, c)
      PROVE StoreInv'
  BY <1>3, <1>4 DEF MarkHidden, ClearHidden, MarkCatalogHidden, ClearCatalogHidden, Known
<1>5. ASSUME NEW c \in Channels, MarkBackfilled(c) \/ MarkDormant(c) \/ Ban(c) \/ Unban(c)
      PROVE StoreInv'
  BY <1>0, <1>3, <1>5 DEF MarkBackfilled, MarkDormant, Ban, Unban, Known, StoreTypeOK
<1>6. CASE UNCHANGED storeVars
  BY <1>3, <1>6 DEF storeVars, Known
<1>7. QED
  BY <1>1, <1>2, <1>4, <1>5, <1>6 DEF StoreNext

--------------------------------------------------------------------------------
(* The join queue *)

\* Writing the status of a row leaves its user and channel.
LEMMA RowUpdate ==
  ASSUME NEW r \in Row, NEW st \in RowStatus
  PROVE  /\ [r EXCEPT !.status = st] \in Row
         /\ [r EXCEPT !.status = st].user = r.user
         /\ [r EXCEPT !.status = st].chan = r.chan
         /\ [r EXCEPT !.status = st].status = st
BY DEF Row

\* Writing a status touches one field of one row.
LEMMA StatusWrite ==
  ASSUME QueueTypeOK, NEW i \in DOMAIN queue, NEW st \in RowStatus, SetStatus(i, st)
  PROVE  /\ queue' \in Seq(Row)
         /\ DOMAIN queue' = DOMAIN queue
         /\ \A j \in DOMAIN queue :
              /\ queue'[j].user = queue[j].user
              /\ queue'[j].chan = queue[j].chan
              /\ queue'[j].status = IF j = i THEN st ELSE queue[j].status
<1>1. queue \in Seq(Row) /\ i \in 1..Len(queue) /\ DOMAIN queue = 1..Len(queue)
  BY LenProperties DEF QueueTypeOK
<1>2. PICK r \in Row : r = queue[i]
  BY <1>1, ElementOfSeq
<1>3. PICK s \in Row : s = [r EXCEPT !.status = st]
  BY RowUpdate
<1>4. s.user = r.user /\ s.chan = r.chan /\ s.status = st
  BY <1>3, RowUpdate
<1>5. queue' = [queue EXCEPT ![i] = s]
  BY <1>2, <1>3 DEF SetStatus
<1>6. queue' \in Seq(Row) /\ Len(queue') = Len(queue) /\ DOMAIN queue' = DOMAIN queue
  BY <1>1, <1>5, ExceptSeq, LenProperties
<1>7. \A j \in DOMAIN queue : queue'[j] = IF j = i THEN s ELSE queue[j]
  BY <1>1, <1>5, ExceptSeq
<1>8. QED
  BY <1>2, <1>4, <1>6, <1>7

\* A status write, a new row, or a row growing old.
QueueStep ==
  \/ \E i \in DOMAIN queue, st \in RowStatus : SetStatus(i, st) /\ UNCHANGED overdue
  \/ \E u \in Users, c \in Channels : Enqueue(u, c)
  \/ \E i \in DOMAIN queue : AgeApproval(i)
  \/ UNCHANGED queueVars

\* No step of the queue loses a row or changes who asked for what.
LEMMA QueueKeepsRows ==
  ASSUME QueueTypeOK, QueueStep
  PROVE  /\ QueueTypeOK'
         /\ DOMAIN queue \subseteq DOMAIN queue'
         /\ \A j \in DOMAIN queue : /\ queue'[j].user = queue[j].user
                                    /\ queue'[j].chan = queue[j].chan
<1> USE DEF QueueTypeOK
<1>1. ASSUME NEW i \in DOMAIN queue, NEW st \in RowStatus, SetStatus(i, st), UNCHANGED overdue
      PROVE  /\ QueueTypeOK'
             /\ DOMAIN queue \subseteq DOMAIN queue'
             /\ \A j \in DOMAIN queue : /\ queue'[j].user = queue[j].user
                                        /\ queue'[j].chan = queue[j].chan
  BY <1>1, StatusWrite
<1>2. ASSUME NEW u \in Users, NEW c \in Channels, Enqueue(u, c)
      PROVE  /\ QueueTypeOK'
             /\ DOMAIN queue \subseteq DOMAIN queue'
             /\ \A j \in DOMAIN queue : /\ queue'[j].user = queue[j].user
                                        /\ queue'[j].chan = queue[j].chan
  <2>1. [user |-> u, chan |-> c, status |-> "pending"] \in Row
    BY DEF Row, RowStatus
  <2>2. QED
    BY <1>2, <2>1, AppendProperties, LenProperties DEF Enqueue
<1>3. CASE \E i \in DOMAIN queue : AgeApproval(i)
  BY <1>3 DEF AgeApproval
<1>4. CASE UNCHANGED queueVars
  BY <1>4 DEF queueVars
<1>5. QED
  BY <1>1, <1>2, <1>3, <1>4 DEF QueueStep

\* A row in the queue has a user and a channel.
LEMMA RowTypes ==
  ASSUME QueueTypeOK, NEW i \in DOMAIN queue
  PROVE  queue[i].user \in Users /\ queue[i].chan \in Channels /\ queue[i].status \in RowStatus
<1>1. queue[i] \in Row
  BY ElementOfSeq, LenProperties DEF QueueTypeOK
<1>2. QED
  BY <1>1 DEF Row

--------------------------------------------------------------------------------
(* Type correctness of the system, component by component.  Each component's *)
(* step is a step of the store and of the queue, and keeps its own types.    *)

\* A request past its first step names a user and a channel.
LEMMA RequestTypes ==
  ASSUME ApiTypeOK, NEW h \in Handlers, request[h].pc # "idle"
  PROVE  request[h].user \in Users /\ request[h].chan \in Channels
BY DEF ApiTypeOK, NoRequest

\* An endpoint's step.
LEMMA ApiSteps ==
  ASSUME TypeOK, Api
  PROVE  [StoreNext]_storeVars /\ QueueStep /\ ApiTypeOK'
<1> USE DEF TypeOK
<1>1. ASSUME NEW h \in Handlers, NEW u \in Users, NEW c \in Channels,
             PostSource(h, u, c) \/ PostSourceById(h, u, c)
      PROVE  [StoreNext]_storeVars /\ QueueStep /\ ApiTypeOK'
  BY <1>1 DEF PostSource, PostSourceById, Proceed, Route, QueueStep, ApiTypeOK
<1>2. ASSUME NEW h \in Handlers, LinkDirectly(h)
      PROVE  [StoreNext]_storeVars /\ QueueStep /\ ApiTypeOK'
  BY <1>2, RequestTypes DEF LinkDirectly, Answer, StoreNext, QueueStep, ApiTypeOK
<1>3. ASSUME NEW h \in Handlers, FindInFlight(h)
      PROVE  [StoreNext]_storeVars /\ QueueStep /\ ApiTypeOK'
  BY <1>3, RequestTypes DEF FindInFlight, Answer, Proceed, QueueStep, ApiTypeOK
<1>4. ASSUME NEW h \in Handlers, InsertJoinRequest(h)
      PROVE  [StoreNext]_storeVars /\ QueueStep /\ ApiTypeOK'
  BY <1>4, RequestTypes DEF InsertJoinRequest, Answer, QueueStep, ApiTypeOK
<1>5. ASSUME NEW u \in Users, NEW c \in Channels,
             \/ RemoveSource(u, c)
             \/ HideSource(u, c) \/ UnhideSource(u, c)
             \/ HideFromCatalog(u, c) \/ UnhideFromCatalog(u, c)
      PROVE  [StoreNext]_storeVars /\ QueueStep /\ ApiTypeOK'
  BY <1>5 DEF RemoveSource, HideSource, UnhideSource, HideFromCatalog, UnhideFromCatalog,
              StoreNext, QueueStep, ApiTypeOK
<1>6. ASSUME NEW c \in Channels, BanChannel(c) \/ UnbanChannel(c)
      PROVE  [StoreNext]_storeVars /\ QueueStep /\ ApiTypeOK'
  BY <1>6 DEF BanChannel, UnbanChannel, StoreNext, QueueStep, ApiTypeOK
<1>7. QED
  BY <1>1, <1>2, <1>3, <1>4, <1>5, <1>6, ApiConstants DEF Api, ApiNext

\* A worker past its first step holds a row of the queue.
LEMMA JobTypes ==
  ASSUME TypeOK, NEW w \in Workers, job[w].pc # "idle"
  PROVE  /\ job[w] \in [pc : Steps, row : DOMAIN queue]
         /\ job[w].row \in DOMAIN queue
         /\ Chan(w) \in Channels
         /\ queue[job[w].row].user \in Users
<1>1. job[w] \in [pc : Steps, row : DOMAIN queue]
  BY DEF TypeOK, WorkerTypeOK, NoJob
<1>2. QED
  BY <1>1, RowTypes DEF TypeOK, Chan

\* The two ways a worker's step ends leave it well typed.
LEMMA JobMoves ==
  ASSUME TypeOK, DOMAIN queue \subseteq DOMAIN queue', NEW w \in Workers,
         \/ Finish(w)
         \/ job[w].pc # "idle" /\ \E pc \in Steps : Goto(w, pc)
         \/ UNCHANGED job
  PROVE  WorkerTypeOK'
<1>1. ASSUME NEW r \in [pc : Steps, row : DOMAIN queue], NEW pc \in Steps
      PROVE [r EXCEPT !.pc = pc] \in [pc : Steps, row : DOMAIN queue]
  OBVIOUS
<1>2. CASE Finish(w)
  BY <1>2 DEF TypeOK, WorkerTypeOK, Finish
<1>3. CASE job[w].pc # "idle" /\ \E pc \in Steps : Goto(w, pc)
  <2>1. PICK r \in [pc : Steps, row : DOMAIN queue] : r = job[w]
    BY <1>3, JobTypes
  <2>2. PICK pc \in Steps : job' = [job EXCEPT ![w].pc = pc]
    BY <1>3 DEF Goto
  <2>3. PICK s \in [pc : Steps, row : DOMAIN queue] : s = [r EXCEPT !.pc = pc]
    BY <1>1
  <2>4. job' = [job EXCEPT ![w] = s]
    BY <2>1, <2>2, <2>3
  <2>5. QED
    BY <2>4 DEF TypeOK, WorkerTypeOK
<1>4. CASE UNCHANGED job
  BY <1>4 DEF TypeOK, WorkerTypeOK
<1>5. QED
  BY <1>2, <1>3, <1>4

\* A worker's step: every row it writes is the one it holds.
LEMMA WorkerSteps ==
  ASSUME TypeOK, NEW w \in Workers, WorkerStep(w)
  PROVE  /\ [StoreNext]_storeVars /\ QueueStep
         /\ TelegramTypeOK' /\ LiveTypeOK' /\ WorkerTypeOK'
<1> USE DEF TypeOK, TelegramTypeOK, LiveTypeOK, telegramVars, liveVars
<1> DEFINE Goal == /\ [StoreNext]_storeVars /\ QueueStep
                   /\ TelegramTypeOK' /\ LiveTypeOK' /\ WorkerTypeOK'
<1>1. ASSUME [StoreNext]_storeVars, QueueStep, TelegramTypeOK', LiveTypeOK',
             \/ Finish(w)
             \/ job[w].pc # "idle" /\ \E pc \in Steps : Goto(w, pc)
      PROVE  Goal
  BY <1>1, QueueKeepsRows, JobMoves
<1>2. CASE ClaimRequest(w)
  <2>1. PICK i \in DOMAIN queue :
          Claim(i) /\ job' = [job EXCEPT ![w] = [pc |-> "claimed", row |-> i]]
    BY <1>2 DEF ClaimRequest
  <2>2. QueueStep
    BY <2>1 DEF Claim, QueueStep, RowStatus
  <2>3. WorkerTypeOK'
    BY <2>1, <2>2, QueueKeepsRows DEF WorkerTypeOK, Steps
  <2>4. QED
    BY <1>2, <2>2, <2>3 DEF ClaimRequest
<1>3. CASE JoinPublicFails(w) \/ CheckInviteFails(w) \/ ImportFails(w)
  <2>1. MarkFailed(job[w].row) /\ job[w].pc # "idle" /\ Finish(w) /\ UNCHANGED <<storeVars, liveVars>>
    BY <1>3 DEF JoinPublicFails, CheckInviteFails, ImportFails, Reject
  <2>2. TelegramTypeOK'
    BY <1>3, <2>1, JobTypes DEF JoinPublicFails, CheckInviteFails, ImportFails, Join
  <2>3. QueueStep
    BY <2>1, JobTypes DEF MarkFailed, QueueStep, RowStatus
  <2>4. QED
    BY <1>1, <2>1, <2>2, <2>3
<1>4. CASE ImportNeedsApproval(w)
  BY <1>1, <1>4, JobTypes
     DEF ImportNeedsApproval, Apply, MarkPendingApproval, QueueStep, RowStatus
<1>5. CASE JoinPublic(w) \/ CheckInvite(w) \/ ImportInvite(w)
  BY <1>1, <1>5, JobTypes DEF JoinPublic, CheckInvite, ImportInvite, Join, QueueStep, Steps
<1>6. CASE PostJoin(w)
  BY <1>1, <1>6, JobTypes DEF PostJoin, StoreNext, MarkDone, QueueStep, RowStatus, Steps
<1>7. CASE RouteLive(w)
  BY <1>1, <1>7, JobTypes DEF RouteLive, Register, QueueStep, Steps
<1>8. CASE Backfill(w)
  BY <1>1, <1>8, JobTypes DEF Backfill, StoreNext, QueueStep
<1>9. CASE FloodWait(w) \/ BackfillFails(w) \/ JobAborts(w)
  BY <1>1, <1>9 DEF FloodWait, BackfillFails, JobAborts, QueueStep
<1>10. QED
  BY <1>2, <1>3, <1>4, <1>5, <1>6, <1>7, <1>8, <1>9 DEF WorkerStep

\* A step of the poller: the rows of its snapshot are still there.
LEMMA PollerSteps ==
  ASSUME TypeOK, PollerStep
  PROVE  /\ [StoreNext]_storeVars /\ QueueStep
         /\ TelegramTypeOK' /\ PollerTypeOK'
<1> USE DEF TypeOK, TelegramTypeOK, telegramVars
<1>0. /\ poll = [pc |-> poll.pc, todo |-> poll.todo, row |-> poll.row]
      /\ poll.pc \in {"idle", "next", "link", "fill"}
      /\ poll.todo \subseteq DOMAIN queue
      /\ poll.row \in {0} \cup DOMAIN queue
      /\ poll.pc \in {"link", "fill"} <=> poll.row # 0
  BY DEF PollerTypeOK
<1>1. ASSUME QueueStep, NEW pc \in {"idle", "next", "link", "fill"},
             NEW todo \in SUBSET DOMAIN queue, NEW row \in {0} \cup DOMAIN queue,
             poll' = [pc |-> pc, todo |-> todo, row |-> row],
             pc \in {"link", "fill"} <=> row # 0
      PROVE  PollerTypeOK'
  BY <1>1, QueueKeepsRows DEF PollerTypeOK
<1>2. CASE FetchApprovals
  <2>1. RowsIn("pending_approval") \subseteq DOMAIN queue
    BY DEF RowsIn
  <2>2. QueueStep
    BY <1>2 DEF FetchApprovals, QueueStep
  <2>3. QED
    BY <1>1, <1>2, <2>1, <2>2 DEF FetchApprovals
<1>3. ASSUME NEW i \in poll.todo, TimeOut(i) \/ StillPending(i) \/ InviteGone(i)
      PROVE  /\ [StoreNext]_storeVars /\ QueueStep
             /\ TelegramTypeOK' /\ PollerTypeOK'
  <2>1. QueueStep
    BY <1>0, <1>3 DEF TimeOut, StillPending, InviteGone, MarkFailed, QueueStep, RowStatus
  <2>2. poll' = [pc |-> poll.pc, todo |-> poll.todo \ {i}, row |-> poll.row]
    BY <1>0, <1>3 DEF TimeOut, StillPending, InviteGone, Skip
  <2>3. QED
    BY <1>0, <1>1, <1>3, <2>1, <2>2 DEF TimeOut, StillPending, InviteGone
<1>4. ASSUME NEW i \in poll.todo, FoundApproved(i)
      PROVE  /\ [StoreNext]_storeVars /\ QueueStep
             /\ TelegramTypeOK' /\ PollerTypeOK'
  <2>1. QueueStep /\ i \in DOMAIN queue /\ i # 0
    BY <1>0, <1>4, LenProperties DEF FoundApproved, QueueStep, QueueTypeOK
  <2>2. QED
    BY <1>0, <1>1, <1>4, <2>1 DEF FoundApproved
<1>5. CASE PostApproval
  <2>1. poll.row \in DOMAIN queue
    BY <1>0, <1>5 DEF PostApproval
  <2>2. QueueStep
    BY <1>5, <2>1 DEF PostApproval, MarkDone, QueueStep, RowStatus
  <2>3. [StoreNext]_storeVars
    BY <1>5, <2>1, RowTypes DEF PostApproval, StoreNext
  <2>4. poll' = [pc |-> "fill", todo |-> poll.todo, row |-> poll.row]
    BY <1>0, <1>5 DEF PostApproval
  <2>5. QED
    BY <1>0, <1>1, <1>5, <2>2, <2>3, <2>4 DEF PostApproval
<1>6. CASE BackfillApproved \/ BackfillApprovedFails
  <2>1. poll.row \in DOMAIN queue
    BY <1>0, <1>6 DEF BackfillApproved, BackfillApprovedFails
  <2>2. QueueStep
    BY <1>6 DEF BackfillApproved, BackfillApprovedFails, QueueStep
  <2>3. [StoreNext]_storeVars
    BY <1>6, <2>1, RowTypes DEF BackfillApproved, BackfillApprovedFails, StoreNext
  <2>4. poll' = [pc |-> "next", todo |-> poll.todo, row |-> 0]
    BY <1>0, <1>6 DEF BackfillApproved, BackfillApprovedFails
  <2>5. QED
    BY <1>0, <1>1, <1>6, <2>2, <2>3, <2>4 DEF BackfillApproved, BackfillApprovedFails
<1>7. CASE PostApprovalAborts \/ FinishPoll
  <2>1. QueueStep
    BY <1>7 DEF PostApprovalAborts, FinishPoll, QueueStep
  <2>2. QED
    BY <1>1, <1>7, <2>1 DEF PostApprovalAborts, FinishPoll, NoPoll
<1>8. QED
  BY <1>2, <1>3, <1>4, <1>5, <1>6, <1>7 DEF PollerStep

\* A step of the sweep.
LEMMA SweepSteps ==
  ASSUME TypeOK, SweepStep
  PROVE  [StoreNext]_storeVars /\ LiveTypeOK' /\ SweepTypeOK'
<1> USE DEF TypeOK, LiveTypeOK, SweepTypeOK, liveVars
<1>0. \A c \in Channels : Cardinality({c}) <= 1
  <2> TAKE c \in Channels
  <2>1. Cardinality({c}) = 1
    BY FS_Singleton
  <2>2. QED
    BY <2>1
<1>1. CASE SelectTargets
  BY <1>1, FS_EmptySet DEF SelectTargets, Active
<1>2. ASSUME NEW c \in sweep.targets, Park(c)
      PROVE  [StoreNext]_storeVars /\ LiveTypeOK' /\ SweepTypeOK'
  BY <1>0, <1>2 DEF Park, StoreNext
<1>3. CASE DropFromLive
  BY <1>3, FS_EmptySet DEF DropFromLive, Unregister
<1>4. QED
  BY <1>1, <1>2, <1>3 DEF SweepStep

\* The process as a whole, Telegram and the clock.
LEMMA OtherSteps ==
  ASSUME TypeOK, Crash \/ Boot \/ Owner \/ Clock
  PROVE  [StoreNext]_storeVars /\ QueueStep /\ TypeOK'
<1> USE DEF TypeOK
<1>1. UNCHANGED storeVars /\ QueueStep
  BY DEF Crash, Boot, Owner, Clock, QueueStep
<1>2. StoreTypeOK' /\ QueueTypeOK' /\ ApiTypeOK'
  BY <1>1, StoreKeepsTypes, QueueKeepsRows DEF Crash, Boot, Owner, Clock, ApiTypeOK
<1>3. DOMAIN queue \subseteq DOMAIN queue'
  BY <1>1, QueueKeepsRows
<1>4. CASE Crash
  <2>1. TelegramTypeOK' /\ LiveTypeOK'
    BY <1>4 DEF Crash, TelegramTypeOK, telegramVars, LiveTypeOK
  <2>2. WorkerTypeOK' /\ PollerTypeOK'
    BY <1>4 DEF Crash, WorkerTypeOK, PollerTypeOK, NoPoll
  <2>3. SweepTypeOK'
    BY <1>4, FS_EmptySet DEF Crash, SweepTypeOK, NoSweep
  <2>4. QED
    BY <1>1, <1>2, <2>1, <2>2, <2>3
<1>5. CASE Boot \/ Owner \/ Clock
  <2>1. UNCHANGED <<job, poll, sweep>>
    BY <1>5 DEF Boot, Owner, Clock
  <2>2. WorkerTypeOK' /\ PollerTypeOK' /\ SweepTypeOK'
    BY <1>3, <2>1 DEF WorkerTypeOK, PollerTypeOK, SweepTypeOK
  <2>3. TelegramTypeOK'
    BY <1>5, DeploymentAssumption
       DEF Boot, Owner, Clock, OwnerApproves, Join, TelegramTypeOK, telegramVars
  <2>4. LiveTypeOK'
    BY <1>5 DEF Boot, LoadChatMap, Active, Owner, Clock, LiveTypeOK, liveVars
  <2>5. QED
    BY <1>1, <1>2, <2>2, <2>3, <2>4
<1>6. QED
  BY <1>1, <1>4, <1>5

\* Every step of the system is a step of its store and of its queue, and
\* keeps every type.
LEMMA SystemSteps ==
  ASSUME TypeOK, [Next]_vars
  PROVE  [StoreNext]_storeVars /\ QueueStep /\ TypeOK'
<1> USE DEF TypeOK
<1>1. ASSUME [StoreNext]_storeVars, QueueStep PROVE StoreTypeOK' /\ QueueTypeOK'
  BY <1>1, StoreKeepsTypes, QueueKeepsRows
<1>2. ASSUME QueueStep, UNCHANGED job PROVE WorkerTypeOK'
  BY <1>2, QueueKeepsRows DEF WorkerTypeOK
<1>3. ASSUME QueueStep, UNCHANGED poll PROVE PollerTypeOK'
  BY <1>3, QueueKeepsRows DEF PollerTypeOK
<1>4. UNCHANGED request => ApiTypeOK'
  BY DEF ApiTypeOK
<1>5. UNCHANGED telegramVars => TelegramTypeOK'
  BY DEF telegramVars, TelegramTypeOK
<1>6. UNCHANGED liveVars => LiveTypeOK'
  BY DEF liveVars, LiveTypeOK
<1>7. UNCHANGED sweep => SweepTypeOK'
  BY DEF SweepTypeOK
<1>8. CASE Api
  BY <1>1, <1>2, <1>3, <1>5, <1>6, <1>7, <1>8, ApiSteps DEF Api
<1>9. ASSUME NEW w \in Workers, Worker(w)
      PROVE  [StoreNext]_storeVars /\ QueueStep /\ TypeOK'
  BY <1>1, <1>3, <1>4, <1>7, <1>9, WorkerSteps DEF Worker
<1>10. CASE Poller
  BY <1>1, <1>2, <1>4, <1>6, <1>7, <1>10, PollerSteps DEF Poller
<1>11. CASE Sweep
  <2>1. QueueStep
    BY <1>11 DEF Sweep, QueueStep
  <2>2. QED
    BY <1>1, <1>2, <1>3, <1>4, <1>5, <1>11, <2>1, SweepSteps DEF Sweep
<1>12. CASE Crash \/ Boot \/ Owner \/ Clock
  BY <1>12, OtherSteps
<1>13. CASE UNCHANGED vars
  <2>1. QueueStep
    BY <1>13 DEF vars, QueueStep
  <2>2. QED
    BY <1>1, <1>2, <1>3, <1>4, <1>5, <1>6, <1>7, <1>13, <2>1 DEF vars
<1>14. QED
  BY <1>8, <1>9, <1>10, <1>11, <1>12, <1>13 DEF Next

\* The empty database is well typed.
LEMMA InitTypes == Init => TypeOK
<1> SUFFICES ASSUME Init PROVE TypeOK
  OBVIOUS
<1>1. StoreTypeOK /\ TelegramTypeOK /\ LiveTypeOK
  BY DEF Init, StoreInit, StoreTypeOK, SubStatus, TelegramInit, TelegramTypeOK, LiveInit, LiveTypeOK
<1>2. QueueTypeOK
  BY EmptySeq DEF Init, QueueInit, QueueTypeOK
<1>3. ApiTypeOK /\ WorkerTypeOK /\ PollerTypeOK
  BY DEF Init, ApiInit, ApiTypeOK, WorkerInit, WorkerTypeOK, PollerInit, PollerTypeOK, NoPoll
<1>4. SweepTypeOK
  BY FS_EmptySet DEF Init, SweepInit, SweepTypeOK, NoSweep
<1>5. QED
  BY <1>1, <1>2, <1>3, <1>4 DEF TypeOK

\* Nobody follows anything in the empty database.
LEMMA InitStore == StoreInit => StoreInv
<1> SUFFICES ASSUME StoreInit PROVE StoreInv
  OBVIOUS
<1>1. \A c \in Channels : Followers(c) = {}
  BY DEF StoreInit, Followers
<1>2. Cardinality({}) = 0
  BY FS_EmptySet
<1>3. QED
  BY <1>1, <1>2 DEF StoreInit, StoreInv, StoreTypeOK, SubStatus, RefCountExact

(* The types of all components are kept, in particular: a worker's and the   *)
(* poller's row ids stay rows of the queue although they were read in        *)
(* earlier transactions.                                                     *)
THEOREM TypeCorrect == Spec => []TypeOK
<1>1. Init => TypeOK
  BY InitTypes
<1>2. TypeOK /\ [Next]_vars => TypeOK'
  BY SystemSteps
<1>3. QED
  BY <1>1, <1>2, PTL DEF Spec

(* The tables change only through the repository functions of the store:     *)
(* the API, the worker, the poller and the sweep together, with crashes,     *)
(* implement the store's own specification.                                  *)
THEOREM LifecycleImplementsStore == Spec => StoreSpec
<1>1. Init => StoreInit
  BY DEF Init
<1>2. TypeOK /\ [Next]_vars => [StoreNext]_storeVars
  BY SystemSteps
<1>3. QED
  BY <1>1, <1>2, TypeCorrect, PTL DEF Spec, StoreSpec

\* What holds of the store on its own holds of the store in the system.
LEMMA StoreInvariant == Spec => []StoreInv
<1>1. StoreInv /\ [StoreNext]_storeVars => StoreInv'
  BY StoreKeepsInv
<1>2. QED
  BY <1>1, InitStore, LifecycleImplementsStore, PTL DEF StoreSpec

(* channel_subscriptions.ref_count always is the number of user_sources rows *)
(* of the channel, whatever the API, the worker and the poller do at once    *)
(* and wherever they crash.                                                  *)
THEOREM RefCountsAreExact == Spec => []RefCountExact
<1>1. StoreInv => RefCountExact
  BY DEF StoreInv
<1>2. QED
  BY <1>1, StoreInvariant, PTL

--------------------------------------------------------------------------------
(* Row ownership.  With the types it is inductive as it stands: a claim takes *)
(* a pending row, which nobody holds, and every other status write is by the  *)
(* worker that holds the row or by the poller on a row it still has to do.    *)

\* What moving a worker to another step leaves alone.
LEMMA GotoFields ==
  ASSUME TypeOK, NEW w \in Workers, job[w].pc # "idle", NEW pc \in Steps, Goto(w, pc)
  PROVE  /\ job'[w].pc = pc /\ job'[w].row = job[w].row
         /\ \A v \in Workers \ {w} : job'[v] = job[v]
<1>1. PICK r \in [pc : Steps, row : DOMAIN queue] : r = job[w]
  BY JobTypes
<1>2. PICK s \in [pc : Steps, row : DOMAIN queue] : s = [r EXCEPT !.pc = pc]
  OBVIOUS
<1>3. s.pc = pc /\ s.row = r.row
  BY <1>2
<1>4. job' = [job EXCEPT ![w] = s]
  BY <1>1, <1>2 DEF Goto
<1>5. QED
  BY <1>1, <1>3, <1>4 DEF TypeOK, WorkerTypeOK

\* What letting a row go leaves alone.
LEMMA FinishFields ==
  ASSUME TypeOK, NEW w \in Workers, Finish(w)
  PROVE  /\ job'[w].pc = "idle"
         /\ \A v \in Workers \ {w} : job'[v] = job[v]
BY DEF TypeOK, WorkerTypeOK, Finish, NoJob

\* A step that writes no status and gives no worker a row.
LEMMA OwnershipFrame ==
  ASSUME TypeOK, RowOwnership,
         \A j \in DOMAIN queue : queue'[j].status = queue[j].status,
         \A v \in Workers, j \in DOMAIN queue' :
           Holds(v, j)' => j \in DOMAIN queue /\ Holds(v, j),
         \/ poll'.todo \subseteq poll.todo /\ poll'.pc # "link"
         \/ UNCHANGED poll
  PROVE  RowOwnership'
BY DEF RowOwnership, TypeOK, PollerTypeOK

\* The worker that holds row k records an outcome for it and lets it go.
LEMMA HolderWrites ==
  ASSUME TypeOK, RowOwnership, NEW w \in Workers, NEW k \in DOMAIN queue, Holds(w, k),
         NEW st \in RowStatus, SetStatus(k, st), UNCHANGED poll,
         job'[w].pc \notin {"claimed", "import", "link"},
         \A v \in Workers \ {w} : job'[v] = job[v]
  PROVE  RowOwnership'
<1>1. /\ DOMAIN queue' = DOMAIN queue
      /\ \A j \in DOMAIN queue : queue'[j].status = IF j = k THEN st ELSE queue[j].status
  BY StatusWrite DEF TypeOK
<1>2. queue[k].status = "in_progress" /\ \A v \in Workers \ {w} : ~Holds(v, k)
  BY DEF RowOwnership
<1>3. \A v \in Workers, j \in DOMAIN queue : Holds(v, j)' => v # w /\ j # k /\ Holds(v, j)
  BY <1>2 DEF Holds
<1>4. k \notin poll.todo /\ (poll.pc = "link" => poll.row # k /\ poll.row \in DOMAIN queue)
  BY <1>2 DEF RowOwnership, TypeOK, PollerTypeOK
<1>5. \A j \in DOMAIN queue : j # k => queue'[j].status = queue[j].status
  BY <1>1
<1>6. poll.todo \subseteq DOMAIN queue
  BY DEF TypeOK, PollerTypeOK
<1>7. QED
  BY <1>1, <1>3, <1>4, <1>5, <1>6 DEF RowOwnership

\* The poller records an outcome for a row nobody else can be at.
LEMMA PollerWrites ==
  ASSUME TypeOK, RowOwnership, NEW k \in DOMAIN queue, queue[k].status = "pending_approval",
         NEW st \in RowStatus, SetStatus(k, st), UNCHANGED job,
         poll'.todo \subseteq poll.todo \ {k}, poll'.pc # "link"
  PROVE  RowOwnership'
<1>1. /\ DOMAIN queue' = DOMAIN queue
      /\ \A j \in DOMAIN queue : queue'[j].status = IF j = k THEN st ELSE queue[j].status
  BY StatusWrite DEF TypeOK
<1>2. \A v \in Workers : ~Holds(v, k)
  BY DEF RowOwnership
<1>3. \A v \in Workers, j \in DOMAIN queue : Holds(v, j)' <=> Holds(v, j)
  BY DEF Holds
<1>4. \A j \in DOMAIN queue : j # k => queue'[j].status = queue[j].status
  BY <1>1
<1>5. poll.todo \subseteq DOMAIN queue
  BY DEF TypeOK, PollerTypeOK
<1>6. QED
  BY <1>1, <1>2, <1>3, <1>4, <1>5 DEF RowOwnership

\* A worker writes only the row it holds, and claims only free ones.
LEMMA WorkerKeepsOwnership ==
  ASSUME TypeOK, RowOwnership, NEW w \in Workers, Worker(w)
  PROVE  RowOwnership'
<1>0. UNCHANGED poll
  BY DEF Worker
<1>1. CASE ClaimRequest(w)
  <2>1. PICK i \in DOMAIN queue :
          Claim(i) /\ job' = [job EXCEPT ![w] = [pc |-> "claimed", row |-> i]]
    BY <1>1 DEF ClaimRequest
  <2>2. queue[i].status = "pending" /\ SetStatus(i, "in_progress")
    BY <2>1 DEF Claim, RowsIn
  <2>3. /\ DOMAIN queue' = DOMAIN queue
        /\ \A j \in DOMAIN queue :
             queue'[j].status = IF j = i THEN "in_progress" ELSE queue[j].status
    BY <2>2, StatusWrite DEF TypeOK, RowStatus
  <2>4. \A v \in Workers : ~Holds(v, i)
    BY <2>2 DEF RowOwnership
  <2>5. job'[w] = [pc |-> "claimed", row |-> i] /\ \A v \in Workers \ {w} : job'[v] = job[v]
    BY <2>1 DEF TypeOK, WorkerTypeOK
  <2>6. \A v \in Workers, j \in DOMAIN queue :
          Holds(v, j)' <=> IF v = w THEN j = i ELSE Holds(v, j)
    BY <2>5 DEF Holds
  <2>7. i \notin poll.todo /\ (poll.pc = "link" => poll.row # i /\ poll.row \in DOMAIN queue)
    BY <2>2 DEF RowOwnership, TypeOK, PollerTypeOK
  <2>8. \A j \in DOMAIN queue : j # i => queue'[j].status = queue[j].status
    BY <2>3
  <2>9. poll.todo \subseteq DOMAIN queue
    BY DEF TypeOK, PollerTypeOK
  <2>10. \A v \in Workers, j \in DOMAIN queue :
           Holds(v, j)' => /\ queue'[j].status = "in_progress"
                           /\ \A x \in Workers \ {v} : ~Holds(x, j)'
    BY <2>3, <2>4, <2>6 DEF RowOwnership
  <2>11. QED
    BY <1>0, <2>3, <2>7, <2>8, <2>9, <2>10 DEF RowOwnership
<1>2. CASE \/ JoinPublicFails(w) \/ CheckInviteFails(w) \/ ImportFails(w)
           \/ ImportNeedsApproval(w)
  <2>1. /\ job[w].pc \in {"claimed", "import"}
        /\ MarkFailed(job[w].row) \/ MarkPendingApproval(job[w].row)
        /\ Finish(w)
    BY <1>2 DEF JoinPublicFails, CheckInviteFails, ImportFails, ImportNeedsApproval, Reject
  <2>2. job[w].row \in DOMAIN queue /\ Holds(w, job[w].row)
    BY <2>1, JobTypes DEF Holds
  <2>3. \E st \in RowStatus : SetStatus(job[w].row, st)
    BY <2>1 DEF MarkFailed, MarkPendingApproval, RowStatus
  <2>4. QED
    BY <1>0, <2>1, <2>2, <2>3, FinishFields, HolderWrites
<1>3. CASE PostJoin(w)
  <2>1. job[w].pc = "link" /\ MarkDone(job[w].row) /\ Goto(w, "route")
    BY <1>3 DEF PostJoin
  <2>2. job[w].row \in DOMAIN queue /\ Holds(w, job[w].row)
    BY <2>1, JobTypes DEF Holds
  <2>3. \E st \in RowStatus : SetStatus(job[w].row, st)
    BY <2>1 DEF MarkDone, RowStatus
  <2>4. job'[w].pc = "route" /\ \A v \in Workers \ {w} : job'[v] = job[v]
    BY <2>1, GotoFields DEF Steps
  <2>5. QED
    BY <1>0, <2>2, <2>3, <2>4, HolderWrites
<1>4. CASE JoinPublic(w) \/ CheckInvite(w) \/ ImportInvite(w) \/ RouteLive(w)
  <2>1. /\ UNCHANGED queue
        /\ \/ job[w].pc \in {"claimed", "import"} /\ \E pc \in {"link", "import"} : Goto(w, pc)
           \/ job[w].pc = "route" /\ Goto(w, "fill")
    BY <1>4 DEF JoinPublic, CheckInvite, ImportInvite, RouteLive, queueVars
  <2>2. \A v \in Workers, j \in DOMAIN queue' : Holds(v, j)' => Holds(v, j)
    BY <2>1, GotoFields DEF Holds, Steps
  <2>3. QED
    BY <1>0, <2>1, <2>2, OwnershipFrame
<1>5. CASE Backfill(w) \/ FloodWait(w) \/ BackfillFails(w) \/ JobAborts(w)
  <2>1. UNCHANGED queue /\ Finish(w)
    BY <1>5 DEF Backfill, FloodWait, BackfillFails, JobAborts, queueVars
  <2>2. \A v \in Workers, j \in DOMAIN queue' : Holds(v, j)' => Holds(v, j)
    BY <2>1, FinishFields DEF Holds
  <2>3. QED
    BY <1>0, <2>1, <2>2, OwnershipFrame
<1>6. QED
  BY <1>1, <1>2, <1>3, <1>4, <1>5 DEF Worker, WorkerStep

\* The poller writes only rows of its snapshot, each once.
LEMMA PollerKeepsOwnership ==
  ASSUME TypeOK, RowOwnership, Poller
  PROVE  RowOwnership'
<1>0. /\ UNCHANGED job
      /\ poll = [pc |-> poll.pc, todo |-> poll.todo, row |-> poll.row]
      /\ poll.todo \subseteq DOMAIN queue
      /\ poll.pc \in {"link", "fill"} => poll.row \in DOMAIN queue
  BY DEF Poller, TypeOK, PollerTypeOK
<1>1. ASSUME UNCHANGED queue
      PROVE  \A v \in Workers, j \in DOMAIN queue' :
               Holds(v, j)' => j \in DOMAIN queue /\ Holds(v, j)
  BY <1>0, <1>1 DEF Holds
<1>2. CASE FetchApprovals
  <2>1. UNCHANGED queue /\ poll'.todo = RowsIn("pending_approval") /\ poll'.pc = "next"
    BY <1>2 DEF FetchApprovals, queueVars
  <2>2. \A i \in poll'.todo : queue'[i].status = "pending_approval"
    BY <2>1 DEF RowsIn
  <2>3. QED
    BY <1>1, <2>1, <2>2 DEF RowOwnership
<1>3. ASSUME NEW i \in poll.todo, TimeOut(i) \/ InviteGone(i)
      PROVE  RowOwnership'
  <2>1. queue[i].status = "pending_approval" /\ i \in DOMAIN queue
    BY <1>0 DEF RowOwnership
  <2>2. SetStatus(i, "failed") /\ "failed" \in RowStatus
    BY <1>3 DEF TimeOut, InviteGone, MarkFailed, RowStatus
  <2>3. poll'.todo = poll.todo \ {i} /\ poll'.pc = "next"
    BY <1>0, <1>3 DEF TimeOut, InviteGone, Skip
  <2>4. QED
    BY <1>0, <2>1, <2>2, <2>3, PollerWrites
<1>4. ASSUME NEW i \in poll.todo, StillPending(i)
      PROVE  RowOwnership'
  <2>1. UNCHANGED queue /\ poll'.todo = poll.todo \ {i} /\ poll'.pc = "next"
    BY <1>0, <1>4 DEF StillPending, Skip, queueVars
  <2>2. QED
    BY <1>1, <2>1, OwnershipFrame
<1>5. ASSUME NEW i \in poll.todo, FoundApproved(i)
      PROVE  RowOwnership'
  <2>1. UNCHANGED queue /\ poll' = [pc |-> "link", todo |-> poll.todo \ {i}, row |-> i]
    BY <1>5 DEF FoundApproved, queueVars
  <2>2. QED
    BY <1>1, <2>1 DEF RowOwnership
<1>6. CASE PostApproval
  <2>1. /\ poll.row \in DOMAIN queue /\ queue[poll.row].status = "pending_approval"
        /\ poll.row \notin poll.todo
    BY <1>0, <1>6 DEF PostApproval, RowOwnership
  <2>2. SetStatus(poll.row, "done") /\ "done" \in RowStatus
    BY <1>6 DEF PostApproval, MarkDone, RowStatus
  <2>3. poll'.todo = poll.todo /\ poll'.pc = "fill"
    BY <1>0, <1>6 DEF PostApproval
  <2>4. QED
    BY <1>0, <2>1, <2>2, <2>3, PollerWrites
<1>7. CASE BackfillApproved \/ BackfillApprovedFails \/ PostApprovalAborts \/ FinishPoll
  <2>1. UNCHANGED queue
    BY <1>7 DEF BackfillApproved, BackfillApprovedFails, PostApprovalAborts, FinishPoll, queueVars
  <2>2. poll'.todo \subseteq poll.todo /\ poll'.pc # "link"
    <3>1. CASE BackfillApproved \/ BackfillApprovedFails
      <4>1. poll' = [pc |-> "next", todo |-> poll.todo, row |-> 0]
        BY <1>0, <3>1 DEF BackfillApproved, BackfillApprovedFails
      <4>2. QED
        BY <4>1
    <3>2. CASE PostApprovalAborts \/ FinishPoll
      BY <3>2 DEF PostApprovalAborts, FinishPoll, NoPoll
    <3>3. QED
      BY <1>7, <3>1, <3>2
  <2>3. QED
    BY <1>1, <2>1, <2>2, OwnershipFrame
<1>8. QED
  BY <1>2, <1>3, <1>4, <1>5, <1>6, <1>7 DEF Poller, PollerStep

\* The API only appends rows, and nothing else touches statuses.
LEMMA OthersKeepOwnership ==
  ASSUME TypeOK, RowOwnership,
         Api \/ Sweep \/ Crash \/ Boot \/ Owner \/ Clock \/ UNCHANGED vars
  PROVE  RowOwnership'
<1>1. CASE \/ UNCHANGED queue
           \/ \E u \in Users, c \in Channels : Enqueue(u, c)
  <2>1. /\ DOMAIN queue \subseteq DOMAIN queue'
        /\ \A j \in DOMAIN queue : queue'[j].status = queue[j].status
    <3>1. ASSUME NEW u \in Users, NEW c \in Channels, Enqueue(u, c)
          PROVE  /\ DOMAIN queue \subseteq DOMAIN queue'
                 /\ \A j \in DOMAIN queue : queue'[j].status = queue[j].status
      <4>1. [user |-> u, chan |-> c, status |-> "pending"] \in Row
        BY DEF Row, RowStatus
      <4>2. QED
        BY <3>1, <4>1, AppendProperties, LenProperties DEF Enqueue, TypeOK, QueueTypeOK
    <3>2. QED
      BY <1>1, <3>1
  <2>2. \A v \in Workers, j \in DOMAIN queue' :
          Holds(v, j)' => j \in DOMAIN queue /\ Holds(v, j)
    BY JobTypes DEF Holds, Api, Sweep, Crash, Boot, Owner, Clock, vars, NoJob
  <2>3. \/ poll'.todo \subseteq poll.todo /\ poll'.pc # "link"
        \/ UNCHANGED poll
    BY DEF Api, Sweep, Crash, Boot, Owner, Clock, vars, NoPoll
  <2>4. QED
    BY <2>1, <2>2, <2>3, OwnershipFrame
<1>2. CASE Api
  BY <1>1, <1>2, RequestTypes
     DEF Api, ApiNext, PostSource, PostSourceById, LinkDirectly, FindInFlight, InsertJoinRequest,
         RemoveSource, HideSource, UnhideSource, HideFromCatalog, UnhideFromCatalog,
         BanChannel, UnbanChannel, queueVars, TypeOK
<1>3. CASE Sweep \/ Crash \/ Boot \/ Owner \/ Clock \/ UNCHANGED vars
  BY <1>1, <1>3 DEF Sweep, Crash, Boot, Owner, Clock, vars, queueVars, AgeApproval
<1>4. QED
  BY <1>2, <1>3

(* No two actors ever write the same row: the plain UPDATEs of the mark_*    *)
(* functions are safe because of who calls them when, with any number of     *)
(* workers.                                                                  *)
THEOREM RowsAreOwned == Spec => []RowOwnership
<1>1. Init => RowOwnership
  BY DEF Init, WorkerInit, PollerInit, NoJob, NoPoll, RowOwnership, Holds
<1>2. TypeOK /\ RowOwnership /\ [Next]_vars => RowOwnership'
  BY WorkerKeepsOwnership, PollerKeepsOwnership, OthersKeepOwnership DEF Next
<1>3. QED
  BY <1>1, <1>2, TypeCorrect, PTL DEF Spec

--------------------------------------------------------------------------------
(* What has been settled stays settled. *)

\* Every status write is to a row that is not settled, by RowOwnership.
LEMMA SettledRowsStay ==
  ASSUME TypeOK, RowOwnership, [Next]_vars, NEW i \in DOMAIN queue, queue[i].status \in Settled
  PROVE  queue'[i] = queue[i]
<1>1. CASE UNCHANGED queue
  BY <1>1
<1>2. ASSUME NEW k \in DOMAIN queue, NEW st, SetStatus(k, st), queue[k].status \notin Settled
      PROVE  queue'[i] = queue[i]
  BY <1>2, LenProperties DEF SetStatus, TypeOK, QueueTypeOK
<1>3. ASSUME NEW u \in Users, NEW c \in Channels, Enqueue(u, c)
      PROVE  queue'[i] = queue[i]
  <2>1. [user |-> u, chan |-> c, status |-> "pending"] \in Row
    BY DEF Row, RowStatus
  <2>2. QED
    BY <1>3, <2>1, AppendProperties, LenProperties DEF Enqueue, TypeOK, QueueTypeOK
<1>4. CASE Api
  BY <1>1, <1>3, <1>4, RequestTypes
     DEF Api, ApiNext, PostSource, PostSourceById, LinkDirectly, FindInFlight, InsertJoinRequest,
         RemoveSource, HideSource, UnhideSource, HideFromCatalog, UnhideFromCatalog,
         BanChannel, UnbanChannel, queueVars, TypeOK
<1>5. ASSUME NEW w \in Workers, Worker(w)
      PROVE  queue'[i] = queue[i]
  <2>1. CASE ClaimRequest(w)
    BY <1>2, <2>1 DEF ClaimRequest, Claim, RowsIn, Settled
  <2>2. ASSUME job[w].pc \in {"claimed", "import", "link"}, NEW st, SetStatus(job[w].row, st)
        PROVE  queue'[i] = queue[i]
    <3>1. job[w].row \in DOMAIN queue /\ queue[job[w].row].status = "in_progress"
      BY <2>2, JobTypes DEF RowOwnership, Holds
    <3>2. QED
      BY <1>2, <2>2, <3>1 DEF Settled
  <2>3. CASE \/ JoinPublicFails(w) \/ CheckInviteFails(w) \/ ImportFails(w)
             \/ ImportNeedsApproval(w) \/ PostJoin(w)
    BY <2>2, <2>3
       DEF JoinPublicFails, CheckInviteFails, ImportFails, ImportNeedsApproval, PostJoin, Reject,
           MarkFailed, MarkPendingApproval, MarkDone
  <2>4. CASE \/ JoinPublic(w) \/ FloodWait(w) \/ CheckInvite(w) \/ ImportInvite(w)
             \/ RouteLive(w) \/ Backfill(w) \/ BackfillFails(w) \/ JobAborts(w)
    BY <1>1, <2>4
       DEF JoinPublic, FloodWait, CheckInvite, ImportInvite, RouteLive, Backfill, BackfillFails,
           JobAborts, queueVars
  <2>5. QED
    BY <1>5, <2>1, <2>3, <2>4 DEF Worker, WorkerStep
<1>6. CASE Poller
  <2>1. ASSUME NEW k \in poll.todo, TimeOut(k) \/ InviteGone(k)
        PROVE  queue'[i] = queue[i]
    <3>1. k \in DOMAIN queue /\ queue[k].status = "pending_approval"
      BY DEF TypeOK, PollerTypeOK, RowOwnership
    <3>2. QED
      BY <1>2, <2>1, <3>1 DEF TimeOut, InviteGone, MarkFailed, Settled
  <2>2. CASE PostApproval
    <3>1. poll.row \in DOMAIN queue /\ queue[poll.row].status = "pending_approval"
      BY <2>2 DEF PostApproval, TypeOK, PollerTypeOK, RowOwnership
    <3>2. QED
      BY <1>2, <2>2, <3>1 DEF PostApproval, MarkDone, Settled
  <2>3. CASE \/ FetchApprovals \/ BackfillApproved \/ BackfillApprovedFails
             \/ PostApprovalAborts \/ FinishPoll
             \/ \E k \in poll.todo : StillPending(k) \/ FoundApproved(k)
    BY <1>1, <2>3
       DEF FetchApprovals, BackfillApproved, BackfillApprovedFails, PostApprovalAborts, FinishPoll,
           StillPending, FoundApproved, queueVars
  <2>4. QED
    BY <1>6, <2>1, <2>2, <2>3 DEF Poller, PollerStep
<1>7. CASE Sweep \/ Crash \/ Boot \/ Owner \/ Clock \/ UNCHANGED vars
  BY <1>1, <1>7 DEF Sweep, Crash, Boot, Owner, Clock, vars, queueVars, AgeApproval
<1>8. QED
  BY <1>4, <1>5, <1>6, <1>7 DEF Next

(* A row that is done or failed keeps its status for ever, so what GET       *)
(* /sources/queue/{id} has once shown as the outcome stays the outcome.      *)
THEOREM OutcomesAreFinal == Spec => SettledIsFinal
<1>1. TypeOK /\ RowOwnership /\ [Next]_vars
        => [\A i \in DOMAIN queue : queue[i].status \in Settled => queue'[i] = queue[i]]_vars
  BY SettledRowsStay
<1>2. QED
  BY <1>1, TypeCorrect, RowsAreOwned, PTL DEF Spec, SettledIsFinal

--------------------------------------------------------------------------------
(* The database never runs ahead of Telegram. *)

\* A request that will link its user directly has read a subscription row,
\* and subscription rows are never deleted.
LinksAreKnown == \A h \in Handlers : request[h].pc = "link" => Known(request[h].chan)

\* No repository function deletes a subscription row.
LEMMA KnownStays ==
  ASSUME StoreTypeOK, [StoreNext]_storeVars, NEW c \in Channels, Known(c)
  PROVE  Known(c)'
BY DEF StoreNext, storeVars, StoreTypeOK, Known, AddUserSource, IncrementRefCount, RemoveUserSource,
       MarkHidden, ClearHidden, MarkCatalogHidden, ClearCatalogHidden, MarkBackfilled, MarkDormant,
       Ban, Unban

\* Only a new link creates one.
LEMMA LinkMakesKnown ==
  ASSUME StoreTypeOK, NEW u \in Users, NEW c \in Channels, AddUserSource(u, c),
         NEW d \in Channels, Known(d)'
  PROVE  Known(d) \/ d = c
BY DEF AddUserSource, IncrementRefCount, StoreTypeOK, Known

\* A request decides to link directly only if it sees a row.
LEMMA LinksStayKnown ==
  ASSUME TypeOK, LinksAreKnown, [Next]_vars
  PROVE  LinksAreKnown'
<1>1. \A c \in Channels : Known(c) => Known(c)'
  BY SystemSteps, KnownStays DEF TypeOK
<1>2. \A h \in Handlers : request[h].pc = "link" => request[h].chan \in Channels
  BY RequestTypes DEF TypeOK
<1>3. CASE UNCHANGED request
  BY <1>1, <1>2, <1>3 DEF LinksAreKnown
<1>4. ASSUME NEW h \in Handlers, Answer(h)
      PROVE  LinksAreKnown'
  BY <1>1, <1>2, <1>4 DEF LinksAreKnown, Answer, NoRequest, TypeOK, ApiTypeOK
<1>5. ASSUME NEW h \in Handlers, NEW u, NEW c \in Channels, NEW pc, Proceed(h, pc, u, c),
             pc = "link" => Known(c)
      PROVE  LinksAreKnown'
  BY <1>1, <1>2, <1>5 DEF LinksAreKnown, Proceed, TypeOK, ApiTypeOK
<1>6. CASE Api
  <2>1. ASSUME NEW h \in Handlers, NEW u \in Users, NEW c \in Channels,
               PostSource(h, u, c) \/ PostSourceById(h, u, c)
        PROVE  LinksAreKnown'
    <3>1. Direct(c) => Known(c)
      BY DEF Direct, Known
    <3>2. Route(c) = "link" => Direct(c)
      BY DEF Route
    <3>3. QED
      BY <1>5, <2>1, <3>1, <3>2 DEF PostSource, PostSourceById
  <2>2. ASSUME NEW h \in Handlers, LinkDirectly(h) \/ FindInFlight(h) \/ InsertJoinRequest(h)
        PROVE  LinksAreKnown'
    BY <1>4, <1>5, <2>2, RequestTypes DEF LinkDirectly, FindInFlight, InsertJoinRequest, TypeOK
  <2>3. QED
    BY <1>3, <1>6, <2>1, <2>2
       DEF Api, ApiNext, RemoveSource, HideSource, UnhideSource, HideFromCatalog,
           UnhideFromCatalog, BanChannel, UnbanChannel
<1>7. QED
  BY <1>3, <1>6 DEF Next, Worker, Poller, Sweep, Crash, Boot, Owner, Clock, vars

\* By the time a direct link is written the subscription row is there.
LEMMA DirectLinksAreKnown == Spec => []LinksAreKnown
<1>1. Init => LinksAreKnown
  BY DEF Init, ApiInit, NoRequest, LinksAreKnown
<1>2. TypeOK /\ LinksAreKnown /\ [Next]_vars => LinksAreKnown'
  BY LinksStayKnown
<1>3. QED
  BY <1>1, <1>2, TypeCorrect, PTL DEF Spec

\* A step that makes nothing known, routed or about to be recorded, except
\* for channels the account is a member of.
LEMMA JoinedFrame ==
  ASSUME TypeOK, TypeOK', QueueStep, TrackedIsJoined, member \subseteq member',
         \A c \in Channels :
           Known(c)' \/ c \in chatMap' => Known(c) \/ c \in chatMap \/ c \in member',
         \A w \in Workers : job'[w].pc \in {"link", "route", "fill"} =>
           \/ job[w].pc \in {"link", "route", "fill"} /\ job'[w].row = job[w].row
           \/ job'[w].row \in DOMAIN queue /\ queue[job'[w].row].chan \in member',
         poll'.pc \in {"link", "fill"} =>
           \/ poll.pc \in {"link", "fill"} /\ poll'.row = poll.row
           \/ poll'.row \in DOMAIN queue /\ queue[poll'.row].chan \in member'
  PROVE  TrackedIsJoined'
<1>1. \A j \in DOMAIN queue : queue'[j].chan = queue[j].chan
  BY QueueKeepsRows DEF TypeOK
<1>2. \A w \in Workers : job'[w].pc \in {"link", "route", "fill"} => Chan(w)' \in member'
  <2> SUFFICES ASSUME NEW w \in Workers, job'[w].pc \in {"link", "route", "fill"}
               PROVE  Chan(w)' \in member'
    OBVIOUS
  <2>1. CASE job[w].pc \in {"link", "route", "fill"} /\ job'[w].row = job[w].row
    <3>1. job[w].row \in DOMAIN queue
      BY <2>1, JobTypes
    <3>2. Chan(w) \in member
      BY <2>1 DEF TrackedIsJoined
    <3>3. QED
      BY <1>1, <2>1, <3>1, <3>2 DEF Chan
  <2>2. CASE job'[w].row \in DOMAIN queue /\ queue[job'[w].row].chan \in member'
    BY <1>1, <2>2 DEF Chan
  <2>3. QED
    BY <2>1, <2>2
<1>3. poll'.pc \in {"link", "fill"} => Approved(poll.row)'
  <2>1. poll.pc \in {"link", "fill"} => poll.row \in DOMAIN queue /\ queue[poll.row].chan \in member
    BY DEF TrackedIsJoined, Approved, TypeOK, PollerTypeOK
  <2>2. QED
    BY <1>1, <2>1 DEF Approved
<1>4. \A c \in Channels : Known(c)' \/ c \in chatMap' => c \in member'
  BY DEF TrackedIsJoined
<1>5. QED
  BY <1>2, <1>3, <1>4 DEF TrackedIsJoined

\* Nothing takes the account out of a channel.
LEMMA MembersStay ==
  ASSUME [Next]_vars
  PROVE  member \subseteq member'
BY DEF Next, vars, telegramVars, Api, Worker, WorkerStep, Poller, PollerStep, Sweep, Crash, Boot,
       Owner, Clock, OwnerApproves, Join, Apply, ClaimRequest, JoinPublic, JoinPublicFails, FloodWait,
       CheckInvite, CheckInviteFails, ImportInvite, ImportNeedsApproval, ImportFails, PostJoin,
       RouteLive, Backfill, BackfillFails, JobAborts, FetchApprovals, TimeOut, StillPending,
       InviteGone, FoundApproved, PostApproval, PostApprovalAborts, BackfillApproved,
       BackfillApprovedFails, FinishPoll

\* The worker reaches _post_join only through a membership.
LEMMA WorkerRecordsJoined ==
  ASSUME TypeOK, TrackedIsJoined, NEW w \in Workers, Worker(w)
  PROVE  TrackedIsJoined'
<1>0. /\ TypeOK' /\ QueueStep /\ [StoreNext]_storeVars
      /\ member \subseteq member' /\ StoreTypeOK
  BY SystemSteps, MembersStay DEF Next, TypeOK
<1> DEFINE Past == {"link", "route", "fill"}
<1>1. ASSUME \A c \in Channels :
               Known(c)' \/ c \in chatMap' => Known(c) \/ c \in chatMap \/ c \in member',
             \A v \in Workers \ {w} : job'[v] = job[v],
             job'[w].pc \in Past =>
               \/ job[w].pc \in Past /\ job'[w].row = job[w].row
               \/ job'[w].row \in DOMAIN queue /\ queue[job'[w].row].chan \in member'
      PROVE  TrackedIsJoined'
  <2>1. \A v \in Workers : job'[v].pc \in Past =>
          \/ job[v].pc \in Past /\ job'[v].row = job[v].row
          \/ job'[v].row \in DOMAIN queue /\ queue[job'[v].row].chan \in member'
    BY <1>1
  <2>2. UNCHANGED poll
    BY DEF Worker
  <2>3. QED
    BY <1>0, <1>1, <2>1, <2>2, JoinedFrame
<1>2. CASE ClaimRequest(w)
  <2>1. PICK i \in DOMAIN queue : job' = [job EXCEPT ![w] = [pc |-> "claimed", row |-> i]]
    BY <1>2 DEF ClaimRequest
  <2>2. job'[w].pc = "claimed" /\ \A v \in Workers \ {w} : job'[v] = job[v]
    BY <2>1 DEF TypeOK, WorkerTypeOK
  <2>3. QED
    BY <1>1, <1>2, <2>2 DEF ClaimRequest, storeVars, liveVars, Known
<1>3. CASE \/ JoinPublicFails(w) \/ FloodWait(w) \/ CheckInviteFails(w) \/ ImportFails(w)
           \/ ImportNeedsApproval(w) \/ BackfillFails(w) \/ JobAborts(w)
  <2>1. Finish(w) /\ UNCHANGED <<storeVars, liveVars>>
    BY <1>3 DEF JoinPublicFails, FloodWait, CheckInviteFails, ImportFails, ImportNeedsApproval,
                BackfillFails, JobAborts, Reject
  <2>2. QED
    BY <1>1, <2>1, FinishFields DEF storeVars, liveVars, Known
<1>4. CASE JoinPublic(w) \/ ImportInvite(w)
  <2>1. /\ job[w].pc \in {"claimed", "import"} /\ Goto(w, "link") /\ Chan(w) \in member'
        /\ UNCHANGED <<storeVars, liveVars>>
    BY <1>4 DEF JoinPublic, ImportInvite, Join
  <2>2. QED
    BY <1>1, <2>1, GotoFields, JobTypes DEF storeVars, liveVars, Known, Steps, Chan
<1>5. CASE CheckInvite(w)
  <2>1. /\ job[w].pc = "claimed" /\ UNCHANGED <<storeVars, liveVars, member>>
        /\ \/ Goto(w, "link") /\ Chan(w) \in member
           \/ Goto(w, "import")
    BY <1>5 DEF CheckInvite, telegramVars
  <2>2. QED
    BY <1>1, <2>1, GotoFields, JobTypes DEF storeVars, liveVars, Known, Steps, Chan
<1>6. CASE PostJoin(w)
  <2>1. /\ job[w].pc = "link" /\ Goto(w, "route") /\ Chan(w) \in member /\ Chan(w) \in Channels
        /\ AddUserSource(queue[job[w].row].user, Chan(w)) /\ queue[job[w].row].user \in Users
        /\ UNCHANGED <<chatMap, member>>
    BY <1>6, JobTypes DEF PostJoin, liveVars, telegramVars, TrackedIsJoined
  <2>2. \A c \in Channels : Known(c)' => Known(c) \/ c = Chan(w)
    BY <1>0, <2>1, LinkMakesKnown
  <2>3. QED
    BY <1>1, <2>1, <2>2, GotoFields DEF Steps
<1>7. CASE RouteLive(w)
  <2>1. /\ job[w].pc = "route" /\ Goto(w, "fill") /\ Chan(w) \in member
        /\ chatMap' = chatMap \cup {Chan(w)} /\ UNCHANGED <<storeVars, member>>
    BY <1>7 DEF RouteLive, Register, telegramVars, TrackedIsJoined
  <2>2. QED
    BY <1>1, <2>1, GotoFields DEF Steps, storeVars, Known
<1>8. CASE Backfill(w)
  <2>1. Finish(w) /\ UNCHANGED chatMap /\ MarkBackfilled(Chan(w)) /\ Chan(w) \in Channels
    BY <1>8, JobTypes DEF Backfill, liveVars
  <2>2. \A c \in Channels : Known(c)' => Known(c)
    BY <1>0, <2>1 DEF MarkBackfilled, Known, StoreTypeOK
  <2>3. QED
    BY <1>1, <2>1, <2>2, FinishFields
<1>9. QED
  BY <1>2, <1>3, <1>4, <1>5, <1>6, <1>7, <1>8 DEF Worker, WorkerStep

\* So does the poller.
LEMMA PollerRecordsJoined ==
  ASSUME TypeOK, TrackedIsJoined, Poller
  PROVE  TrackedIsJoined'
<1>0. /\ TypeOK' /\ QueueStep /\ [StoreNext]_storeVars
      /\ member \subseteq member' /\ StoreTypeOK
      /\ UNCHANGED <<liveVars, job>>
  BY SystemSteps, MembersStay DEF Next, TypeOK, Poller
<1>1. /\ poll = [pc |-> poll.pc, todo |-> poll.todo, row |-> poll.row]
      /\ poll.todo \subseteq DOMAIN queue
      /\ poll.pc \in {"link", "fill"} => poll.row \in DOMAIN queue
  BY DEF TypeOK, PollerTypeOK
<1>2. ASSUME \A c \in Channels : Known(c)' => Known(c) \/ c \in member',
             poll'.pc \in {"link", "fill"} =>
               \/ poll.pc \in {"link", "fill"} /\ poll'.row = poll.row
               \/ poll'.row \in DOMAIN queue /\ queue[poll'.row].chan \in member'
      PROVE  TrackedIsJoined'
  <2>1. chatMap' = chatMap /\ job' = job
    BY <1>0 DEF liveVars
  <2>2. QED
    BY <1>0, <1>2, <2>1, JoinedFrame
<1>3. CASE FetchApprovals
  BY <1>2, <1>3 DEF FetchApprovals, storeVars, Known
<1>4. ASSUME NEW i \in poll.todo, TimeOut(i) \/ StillPending(i) \/ InviteGone(i)
      PROVE  TrackedIsJoined'
  <2>1. poll'.pc = "next" /\ UNCHANGED storeVars
    BY <1>1, <1>4 DEF TimeOut, StillPending, InviteGone, Skip
  <2>2. QED
    BY <1>2, <2>1 DEF storeVars, Known
<1>5. ASSUME NEW i \in poll.todo, FoundApproved(i)
      PROVE  TrackedIsJoined'
  <2>1. poll'.row = i /\ i \in DOMAIN queue /\ queue[i].chan \in member'
    BY <1>0, <1>1, <1>5 DEF FoundApproved, Approved
  <2>2. QED
    BY <1>2, <1>5, <2>1 DEF FoundApproved, storeVars, Known
<1>6. CASE PostApproval
  <2>1. /\ poll.pc = "link" /\ poll.row \in DOMAIN queue
        /\ AddUserSource(queue[poll.row].user, queue[poll.row].chan)
        /\ queue[poll.row].user \in Users /\ queue[poll.row].chan \in Channels
        /\ queue[poll.row].chan \in member'
    BY <1>0, <1>1, <1>6, RowTypes DEF PostApproval, TrackedIsJoined, Approved, TypeOK
  <2>2. \A c \in Channels : Known(c)' => Known(c) \/ c = queue[poll.row].chan
    BY <1>0, <2>1, LinkMakesKnown
  <2>3. poll' = [pc |-> "fill", todo |-> poll.todo, row |-> poll.row]
    BY <1>1, <1>6 DEF PostApproval
  <2>4. QED
    BY <1>2, <2>1, <2>2, <2>3
<1>7. CASE BackfillApproved
  <2>1. MarkBackfilled(queue[poll.row].chan) /\ poll' = [pc |-> "next", todo |-> poll.todo, row |-> 0]
    BY <1>1, <1>7 DEF BackfillApproved
  <2>2. \A c \in Channels : Known(c)' => Known(c)
    BY <1>0, <2>1 DEF MarkBackfilled, Known, StoreTypeOK
  <2>3. QED
    BY <1>2, <2>1, <2>2
<1>8. CASE BackfillApprovedFails
  <2>1. UNCHANGED storeVars /\ poll' = [pc |-> "next", todo |-> poll.todo, row |-> 0]
    BY <1>1, <1>8 DEF BackfillApprovedFails
  <2>2. QED
    BY <1>2, <2>1 DEF storeVars, Known
<1>9. CASE PostApprovalAborts \/ FinishPoll
  BY <1>2, <1>9 DEF PostApprovalAborts, FinishPoll, NoPoll, storeVars, Known
<1>10. QED
  BY <1>3, <1>4, <1>5, <1>6, <1>7, <1>8, <1>9 DEF Poller, PollerStep

\* The API links directly only to channels with a row.
LEMMA ApiRecordsJoined ==
  ASSUME TypeOK, TrackedIsJoined, LinksAreKnown, Api
  PROVE  TrackedIsJoined'
<1>0. /\ TypeOK' /\ QueueStep /\ [StoreNext]_storeVars
      /\ StoreTypeOK /\ member' = member /\ chatMap' = chatMap /\ UNCHANGED <<job, poll>>
  BY SystemSteps DEF Next, TypeOK, Api, telegramVars, liveVars
<1>1. \A c \in Channels : Known(c)' => Known(c)
  <2>1. ASSUME NEW h \in Handlers, LinkDirectly(h)
        PROVE  \A c \in Channels : Known(c)' => Known(c)
    <3>1. /\ request[h].user \in Users /\ request[h].chan \in Channels
          /\ Known(request[h].chan) /\ AddUserSource(request[h].user, request[h].chan)
      BY <2>1, RequestTypes DEF LinkDirectly, LinksAreKnown, TypeOK
    <3>2. QED
      BY <1>0, <3>1, LinkMakesKnown
  <2>2. CASE UNCHANGED subStatus
    BY <2>2 DEF Known
  <2>3. QED
    BY <2>1, <2>2
       DEF Api, ApiNext, PostSource, PostSourceById, FindInFlight, InsertJoinRequest, RemoveSource,
           RemoveUserSource, HideSource, MarkHidden, UnhideSource, ClearHidden, HideFromCatalog,
           MarkCatalogHidden, UnhideFromCatalog, ClearCatalogHidden, BanChannel, Ban,
           UnbanChannel, Unban, storeVars
<1>2. QED
  BY <1>0, <1>1, JoinedFrame

\* The sweep, a boot and the rest make nothing known.
LEMMA OthersRecordJoined ==
  ASSUME TypeOK, TrackedIsJoined, Sweep \/ Crash \/ Boot \/ Owner \/ Clock \/ UNCHANGED vars
  PROVE  TrackedIsJoined'
<1>0. /\ TypeOK' /\ QueueStep /\ [StoreNext]_storeVars
      /\ StoreTypeOK /\ member \subseteq member'
  BY SystemSteps, MembersStay DEF Next, TypeOK
<1>1. \A c \in Channels : Known(c)' => Known(c)
  <2>1. CASE UNCHANGED storeVars
    BY <2>1 DEF storeVars, Known
  <2>2. ASSUME NEW c \in sweep.targets, Park(c)
        PROVE  \A d \in Channels : Known(d)' => Known(d)
    BY <1>0, <2>2 DEF Park, MarkDormant, Known, StoreTypeOK, TypeOK, SweepTypeOK
  <2>3. QED
    BY <2>1, <2>2 DEF Sweep, SweepStep, SelectTargets, DropFromLive, Crash, Boot, Owner, Clock, vars
<1>2. \A c \in Channels : c \in chatMap' => Known(c) \/ c \in chatMap
  <2>1. CASE Boot
    BY <2>1 DEF Boot, LoadChatMap, Active, Known
  <2>2. CASE Sweep \/ Crash \/ Owner \/ Clock \/ UNCHANGED vars
    BY <2>2
       DEF Sweep, SweepStep, SelectTargets, Park, DropFromLive, Unregister, Crash, Owner, Clock,
           vars, liveVars
  <2>3. QED
    BY <2>1, <2>2
<1>3. \A w \in Workers : job'[w].pc \in {"link", "route", "fill"} => job' = job
  BY DEF Sweep, Crash, Boot, Owner, Clock, vars, NoJob
<1>4. poll'.pc \in {"link", "fill"} => poll' = poll
  BY DEF Sweep, Crash, Boot, Owner, Clock, vars, NoPoll
<1>5. QED
  BY <1>0, <1>1, <1>2, <1>3, <1>4, JoinedFrame

(* The account is a member of every channel with a row, every channel of     *)
(* chat_map and every channel a worker or the poller is about to record: no  *)
(* order of joins, approvals, direct links, crashes and boots makes the      *)
(* database claim a channel Telegram does not deliver.                       *)
THEOREM JoinsComeFirst == Spec => []TrackedIsJoined
<1>1. Init => TrackedIsJoined
  BY DEF Init, StoreInit, LiveInit, WorkerInit, PollerInit, NoJob, NoPoll, TrackedIsJoined, Known
<1>2. TypeOK /\ LinksAreKnown /\ TrackedIsJoined /\ [Next]_vars => TrackedIsJoined'
  BY WorkerRecordsJoined, PollerRecordsJoined, ApiRecordsJoined, OthersRecordJoined DEF Next
<1>3. QED
  BY <1>1, <1>2, TypeCorrect, DirectLinksAreKnown, PTL DEF Spec

--------------------------------------------------------------------------------
(* Refinement: the system implements JoinRequests. *)

\* Rewriting a status within "open" is invisible.
LEMMA OpenWriteIsStutter ==
  ASSUME TypeOK, NEW k \in DOMAIN queue, NEW st \in RowStatus, SetStatus(k, st),
         RequestState(st) = RequestState(queue[k].status)
  PROVE  AbstractRequests' = AbstractRequests
<1>1. /\ DOMAIN queue' = DOMAIN queue
      /\ \A j \in DOMAIN queue :
           /\ queue'[j].user = queue[j].user
           /\ queue'[j].chan = queue[j].chan
           /\ queue'[j].status = IF j = k THEN st ELSE queue[j].status
  BY StatusWrite DEF TypeOK
<1>2. \A j \in DOMAIN queue : RequestState(queue'[j].status) = RequestState(queue[j].status)
  BY <1>1
<1>3. QED
  BY <1>1, <1>2 DEF AbstractRequests

\* Any other write changes the state of that one request.
LEMMA OutcomeWrite ==
  ASSUME TypeOK, NEW k \in DOMAIN queue, NEW st \in RowStatus, SetStatus(k, st)
  PROVE  AbstractRequests' = [AbstractRequests EXCEPT ![k].state = RequestState(st)]
<1>1. /\ DOMAIN queue' = DOMAIN queue
      /\ \A j \in DOMAIN queue :
           /\ queue'[j].user = queue[j].user
           /\ queue'[j].chan = queue[j].chan
           /\ queue'[j].status = IF j = k THEN st ELSE queue[j].status
  BY StatusWrite DEF TypeOK
<1>2. ASSUME NEW a, NEW b, NEW x, NEW y
      PROVE  [[user |-> a, chan |-> b, state |-> x] EXCEPT !.state = y]
               = [user |-> a, chan |-> b, state |-> y]
  OBVIOUS
<1> DEFINE R == AbstractRequests
           changed == [R[k] EXCEPT !.state = RequestState(st)]
<1>3. changed = [user |-> queue[k].user, chan |-> queue[k].chan, state |-> RequestState(st)]
  <2>1. R[k] = [user |-> queue[k].user, chan |-> queue[k].chan,
                state |-> RequestState(queue[k].status)]
    BY DEF AbstractRequests
  <2>2. QED
    BY <1>2, <2>1
<1>4. \A j \in DOMAIN queue : R'[j] = IF j = k THEN changed ELSE R[j]
  <2>1. \A j \in DOMAIN queue :
          R'[j] = [user  |-> queue[j].user, chan  |-> queue[j].chan,
                   state |-> RequestState(IF j = k THEN st ELSE queue[j].status)]
    <3>1. \A j \in DOMAIN queue :
            R'[j] = [user  |-> queue'[j].user, chan  |-> queue'[j].chan,
                     state |-> RequestState(queue'[j].status)]
      BY <1>1 DEF AbstractRequests
    <3>2. QED
      BY <1>1, <3>1
  <2>2. \A j \in DOMAIN queue :
          R[j] = [user  |-> queue[j].user, chan  |-> queue[j].chan,
                  state |-> RequestState(queue[j].status)]
    BY DEF AbstractRequests
  <2> HIDE DEF R, changed
  <2>3. QED
    BY <1>3, <2>1, <2>2
<1>5. R = [j \in DOMAIN queue |-> R[j]] /\ R' = [j \in DOMAIN queue |-> R'[j]]
  BY <1>1 DEF AbstractRequests
<1>6. R' = [R EXCEPT ![k] = changed]
  <2> HIDE DEF R, changed
  <2>1. QED
    BY <1>4, <1>5
<1>7. QED
  BY <1>6

\* A new row is a new open request.
LEMMA EnqueueIsSubmit ==
  ASSUME TypeOK, NEW u \in Users, NEW c \in Channels, Enqueue(u, c), UNCHANGED storeVars
  PROVE  JR!Submit(u, c)
<1> DEFINE row == [user |-> u, chan |-> c, status |-> "pending"]
           new == [user |-> u, chan |-> c, state |-> "open"]
<1>1. row \in Row /\ queue \in Seq(Row)
  BY DEF Row, RowStatus, TypeOK, QueueTypeOK
<1>2. /\ DOMAIN queue = 1..Len(queue) /\ Len(queue) \in Nat
      /\ DOMAIN queue' = 1..(Len(queue) + 1)
      /\ \A j \in DOMAIN queue : queue'[j] = queue[j]
      /\ queue'[Len(queue) + 1] = row
  BY <1>1, AppendProperties, LenProperties DEF Enqueue
<1>3. DOMAIN AbstractRequests = 1..Len(queue) /\ Len(AbstractRequests) = Len(queue)
  BY <1>2 DEF AbstractRequests
<1>4. \A j \in 1..(Len(queue) + 1) :
        AbstractRequests'[j] = IF j = Len(queue) + 1 THEN new ELSE AbstractRequests[j]
  BY <1>2 DEF AbstractRequests, RequestState
<1>5. AbstractRequests' = [j \in 1..(Len(queue) + 1) |-> AbstractRequests'[j]]
  BY <1>2 DEF AbstractRequests
<1>6. Append(AbstractRequests, new)
        = [j \in 1..(Len(queue) + 1) |-> IF j = Len(queue) + 1 THEN new ELSE AbstractRequests[j]]
  BY <1>2, <1>3
<1>7. AbstractRequests' = Append(AbstractRequests, new)
  BY <1>4, <1>5, <1>6
<1>8. QED
  BY <1>3, <1>7 DEF JR!Submit, Enqueue, storeVars, Known

Tracked == {c \in Channels : Known(c)}

\* Whoever links a user: the pair is followed and the channel has a row.
LEMMA LinkTracks ==
  ASSUME StoreInv, NEW u \in Users, NEW c \in Channels, AddUserSource(u, c)
  PROVE  sources' = sources \cup {<<u, c>>} /\ Tracked' = Tracked \cup {c}
<1>1. <<u, c>> \in sources => Known(c)
  BY DEF StoreInv, Followers
<1>2. Known(c)'
  BY <1>1 DEF AddUserSource, IncrementRefCount, StoreInv, StoreTypeOK, Known
<1>3. \A d \in Channels : d # c => (Known(d)' <=> Known(d))
  BY DEF AddUserSource, IncrementRefCount, StoreInv, StoreTypeOK, Known
<1>4. QED
  BY <1>2, <1>3 DEF AddUserSource, Tracked

\* Parking and backfilling keep the set of rows.
LEMMA StatusKeepsTracked ==
  ASSUME StoreTypeOK, NEW c \in Channels, MarkBackfilled(c) \/ MarkDormant(c)
  PROVE  sources' = sources /\ Tracked' = Tracked
BY DEF MarkBackfilled, MarkDormant, StoreTypeOK, Known, Tracked

\* An open row done together with its user's link is a grant.
LEMMA DoneIsGrant ==
  ASSUME TypeOK, StoreInv, NEW k \in DOMAIN queue, queue[k].status \notin Settled,
         AddUserSource(queue[k].user, queue[k].chan), MarkDone(k)
  PROVE  JR!Grant(k)
<1>1. queue[k].user \in Users /\ queue[k].chan \in Channels
  BY RowTypes DEF TypeOK
<1>2. AbstractRequests' = [AbstractRequests EXCEPT ![k].state = "granted"]
  BY OutcomeWrite DEF MarkDone, RowStatus, RequestState
<1>3. /\ k \in DOMAIN AbstractRequests
      /\ AbstractRequests[k] = [user |-> queue[k].user, chan |-> queue[k].chan, state |-> "open"]
  BY DEF AbstractRequests, RequestState, Settled
<1>4. sources' = sources \cup {<<queue[k].user, queue[k].chan>>}
      /\ Tracked' = Tracked \cup {queue[k].chan}
  BY <1>1, LinkTracks
<1>5. QED
  BY <1>2, <1>3, <1>4 DEF JR!Grant, JR!Open, Tracked

\* An open row that fails is a refusal.
LEMMA FailedIsRefusal ==
  ASSUME TypeOK, NEW k \in DOMAIN queue, queue[k].status \notin Settled,
         MarkFailed(k), UNCHANGED storeVars
  PROVE  JR!Refuse(k)
<1>1. AbstractRequests' = [AbstractRequests EXCEPT ![k].state = "refused"]
  BY OutcomeWrite DEF MarkFailed, RowStatus, RequestState
<1>2. k \in DOMAIN AbstractRequests /\ AbstractRequests[k].state = "open"
  BY DEF AbstractRequests, RequestState, Settled
<1>3. QED
  BY <1>1, <1>2 DEF JR!Refuse, JR!Open, storeVars, Known

\* Steps the abstract life cycle does not see.
LEMMA Unseen ==
  ASSUME TypeOK, UNCHANGED queue,
         UNCHANGED <<sources, subStatus>> \/ (sources' = sources /\ Tracked' = Tracked)
  PROVE  UNCHANGED JR!vars
BY DEF JR!vars, AbstractRequests, Known, Tracked

\* An insert is a Submit, a direct link a Follow, a removal an Unfollow.
LEMMA ApiRefines ==
  ASSUME TypeOK, StoreInv, LinksAreKnown, Api
  PROVE  JR!Next \/ UNCHANGED JR!vars
<1>1. ASSUME NEW h \in Handlers, LinkDirectly(h)
      PROVE  JR!Next
  <2>1. /\ request[h].user \in Users /\ request[h].chan \in Channels /\ Known(request[h].chan)
        /\ AddUserSource(request[h].user, request[h].chan) /\ UNCHANGED queue
    BY <1>1, RequestTypes DEF LinkDirectly, LinksAreKnown, TypeOK, queueVars
  <2>2. /\ sources' = sources \cup {<<request[h].user, request[h].chan>>}
        /\ Tracked' = Tracked
    BY <2>1, LinkTracks DEF Tracked
  <2>3. JR!Follow(request[h].user, request[h].chan)
    BY <2>1, <2>2 DEF JR!Follow, Tracked, AbstractRequests
  <2>4. QED
    BY <2>1, <2>3 DEF JR!Next
<1>2. ASSUME NEW h \in Handlers, InsertJoinRequest(h)
      PROVE  JR!Next
  <2>1. request[h].user \in Users /\ request[h].chan \in Channels
    BY <1>2, RequestTypes DEF InsertJoinRequest, TypeOK
  <2>2. QED
    BY <1>2, <2>1, EnqueueIsSubmit DEF InsertJoinRequest, JR!Next
<1>3. ASSUME NEW u \in Users, NEW c \in Channels, RemoveSource(u, c)
      PROVE  JR!Next
  <2>1. JR!Unfollow(u, c)
    BY <1>3 DEF RemoveSource, RemoveUserSource, JR!Unfollow, AbstractRequests, Known, queueVars
  <2>2. QED
    BY <2>1 DEF JR!Next
<1>4. ASSUME UNCHANGED <<queueVars, sources, subStatus>>
      PROVE  UNCHANGED JR!vars
  BY <1>4, Unseen DEF queueVars
<1>5. ASSUME NEW h \in Handlers, NEW u \in Users, NEW c \in Channels,
             PostSource(h, u, c) \/ PostSourceById(h, u, c) \/ FindInFlight(h)
      PROVE  UNCHANGED JR!vars
  BY <1>4, <1>5 DEF PostSource, PostSourceById, FindInFlight, storeVars
<1>6. ASSUME NEW u \in Users, NEW c \in Channels,
             \/ HideSource(u, c) \/ UnhideSource(u, c)
             \/ HideFromCatalog(u, c) \/ UnhideFromCatalog(u, c)
      PROVE  UNCHANGED JR!vars
  BY <1>4, <1>6
     DEF HideSource, MarkHidden, UnhideSource, ClearHidden, HideFromCatalog, MarkCatalogHidden,
         UnhideFromCatalog, ClearCatalogHidden
<1>7. ASSUME NEW c \in Channels, BanChannel(c) \/ UnbanChannel(c)
      PROVE  UNCHANGED JR!vars
  BY <1>4, <1>7 DEF BanChannel, Ban, UnbanChannel, Unban
<1>8. ASSUME NEW h \in Handlers, FindInFlight(h)
      PROVE  UNCHANGED JR!vars
  BY <1>4, <1>8 DEF FindInFlight, storeVars
<1>9. QED
  BY <1>1, <1>2, <1>3, <1>5, <1>6, <1>7, <1>8, ApiConstants DEF Api, ApiNext

\* _post_join is a Grant, a failure a Refuse, all else is unseen.
LEMMA WorkerRefines ==
  ASSUME TypeOK, StoreInv, RowOwnership, NEW w \in Workers, Worker(w)
  PROVE  JR!Next \/ UNCHANGED JR!vars
<1> DEFINE k == job[w].row
<1>0. job[w].pc \in {"claimed", "import", "link"} =>
        /\ k \in DOMAIN queue /\ k \in DOMAIN AbstractRequests
        /\ queue[k].status = "in_progress"
  BY JobTypes DEF RowOwnership, Holds, AbstractRequests
<1> HIDE DEF k
<1>1. CASE ClaimRequest(w)
  <2>1. PICK i \in DOMAIN queue : Claim(i)
    BY <1>1 DEF ClaimRequest
  <2>2. AbstractRequests' = AbstractRequests
    BY <2>1, OpenWriteIsStutter DEF Claim, RowsIn, RowStatus, RequestState
  <2>3. QED
    BY <1>1, <2>2 DEF ClaimRequest, JR!vars, storeVars, Known
<1>2. CASE JoinPublicFails(w) \/ CheckInviteFails(w) \/ ImportFails(w)
  <2>1. job[w].pc \in {"claimed", "import"} /\ MarkFailed(k) /\ UNCHANGED storeVars
    BY <1>2 DEF JoinPublicFails, CheckInviteFails, ImportFails, Reject, k
  <2>2. JR!Refuse(k)
    BY <1>0, <2>1, FailedIsRefusal DEF Settled
  <2>3. QED
    BY <1>0, <2>1, <2>2 DEF JR!Next, JR!Settle
<1>3. CASE ImportNeedsApproval(w)
  <2>1. job[w].pc = "import" /\ SetStatus(k, "pending_approval") /\ UNCHANGED storeVars
    BY <1>3 DEF ImportNeedsApproval, MarkPendingApproval, k
  <2>2. AbstractRequests' = AbstractRequests
    BY <1>0, <2>1, OpenWriteIsStutter DEF RowStatus, RequestState
  <2>3. QED
    BY <2>1, <2>2 DEF JR!vars, storeVars, Known
<1>4. CASE PostJoin(w)
  <2>1. job[w].pc = "link" /\ AddUserSource(queue[k].user, queue[k].chan) /\ MarkDone(k)
    BY <1>4 DEF PostJoin, Chan, k
  <2>2. JR!Grant(k)
    BY <1>0, <2>1, DoneIsGrant DEF Settled
  <2>3. QED
    BY <1>0, <2>1, <2>2 DEF JR!Next, JR!Settle
<1>5. CASE \/ JoinPublic(w) \/ FloodWait(w) \/ CheckInvite(w) \/ ImportInvite(w)
           \/ RouteLive(w) \/ BackfillFails(w) \/ JobAborts(w)
  BY <1>5, Unseen
     DEF JoinPublic, FloodWait, CheckInvite, ImportInvite, RouteLive, BackfillFails, JobAborts,
         queueVars, storeVars
<1>6. CASE Backfill(w)
  <2>1. UNCHANGED queue /\ MarkBackfilled(Chan(w)) /\ Chan(w) \in Channels
    BY <1>6, JobTypes DEF Backfill, queueVars
  <2>2. QED
    BY <2>1, StatusKeepsTracked, Unseen DEF TypeOK
<1>7. QED
  BY <1>1, <1>2, <1>3, <1>4, <1>5, <1>6 DEF Worker, WorkerStep

\* An approval is a Grant, a timeout or a dead invite a Refuse.
LEMMA PollerRefines ==
  ASSUME TypeOK, StoreInv, RowOwnership, Poller
  PROVE  JR!Next \/ UNCHANGED JR!vars
<1>0. DOMAIN AbstractRequests = DOMAIN queue
  BY DEF AbstractRequests
<1>1. ASSUME NEW i \in poll.todo, TimeOut(i) \/ InviteGone(i)
      PROVE  JR!Next
  <2>1. i \in DOMAIN queue /\ queue[i].status = "pending_approval"
    BY DEF TypeOK, PollerTypeOK, RowOwnership
  <2>2. JR!Refuse(i)
    BY <1>1, <2>1, FailedIsRefusal DEF TimeOut, InviteGone, Settled
  <2>3. QED
    BY <1>0, <2>1, <2>2 DEF JR!Next, JR!Settle
<1>2. CASE PostApproval
  <2>1. poll.row \in DOMAIN queue /\ queue[poll.row].status = "pending_approval"
    BY <1>2 DEF PostApproval, TypeOK, PollerTypeOK, RowOwnership
  <2>2. JR!Grant(poll.row)
    BY <1>2, <2>1, DoneIsGrant DEF PostApproval, Settled
  <2>3. QED
    BY <1>0, <2>1, <2>2 DEF JR!Next, JR!Settle
<1>3. CASE BackfillApproved
  <2>1. UNCHANGED queue /\ MarkBackfilled(queue[poll.row].chan) /\ queue[poll.row].chan \in Channels
    BY <1>3, RowTypes DEF BackfillApproved, queueVars, TypeOK, PollerTypeOK
  <2>2. QED
    BY <2>1, StatusKeepsTracked, Unseen DEF TypeOK
<1>4. CASE \/ FetchApprovals \/ BackfillApprovedFails \/ PostApprovalAborts \/ FinishPoll
           \/ \E i \in poll.todo : StillPending(i) \/ FoundApproved(i)
  BY <1>4, Unseen
     DEF FetchApprovals, BackfillApprovedFails, PostApprovalAborts, FinishPoll, StillPending,
         FoundApproved, queueVars, storeVars
<1>5. QED
  BY <1>1, <1>2, <1>3, <1>4 DEF Poller, PollerStep

\* Parking, crashing, booting and waiting are unseen.
LEMMA OthersRefine ==
  ASSUME TypeOK, Sweep \/ Crash \/ Boot \/ Owner \/ Clock \/ UNCHANGED vars
  PROVE  UNCHANGED JR!vars
<1>1. ASSUME NEW c \in sweep.targets, Park(c), UNCHANGED queue
      PROVE  UNCHANGED JR!vars
  BY <1>1, StatusKeepsTracked, Unseen DEF Park, TypeOK, SweepTypeOK
<1>2. CASE Sweep
  BY <1>1, <1>2, Unseen DEF Sweep, SweepStep, SelectTargets, DropFromLive, storeVars, queueVars
<1>3. CASE Crash \/ Boot \/ Owner \/ Clock \/ UNCHANGED vars
  BY <1>3, Unseen DEF Crash, Boot, Owner, Clock, AgeApproval, vars, storeVars, queueVars
<1>4. QED
  BY <1>2, <1>3

(* API, queue, worker, poller and sweep together implement JoinRequests: a   *)
(* request is settled at most once, granting it makes its user a follower in *)
(* the same transaction, and a channel is linked without a request only if   *)
(* an earlier request for it was granted.  The argument is row ownership,    *)
(* which lets only open rows be settled.                                     *)
THEOREM LifecycleImplementsJoinRequests == Spec => ImplementsJoinRequests
<1>1. Init => JR!Init
  BY DEF Init, StoreInit, QueueInit, JR!Init, AbstractRequests, Known
<1>2. TypeOK /\ StoreInv /\ RowOwnership /\ LinksAreKnown /\ [Next]_vars
        => JR!Next \/ UNCHANGED JR!vars
  BY ApiRefines, WorkerRefines, PollerRefines, OthersRefine DEF Next
<1>3. QED
  BY <1>1, <1>2, TypeCorrect, StoreInvariant, RowsAreOwned, DirectLinksAreKnown, PTL
     DEF Spec, ImplementsJoinRequests, JR!Spec
================================================================================
