------------------------------ MODULE Ingest_proofs ------------------------------
(***************************************************************************)
(* Proofs about Ingest, for a channel of any length with any albums, any   *)
(* limits and all the faults.                                              *)
(***************************************************************************)
EXTENDS Ingest, PostStore_proofs

--------------------------------------------------------------------------------
(* Type correctness *)

\* An album is posted whole.
WholeAlbums == \A A \in Albums : \A m \in A : m \leq posted => A \subseteq Posted

TypeInv == TypeOK /\ WholeAlbums

LEMMA StateType ==
  ASSUME NEW pc \in {"idle", "selected", "fetch", "ingest", "write"},
         NEW cursor \in 0..LastMessage, NEW batch \in SUBSET Messages,
         NEW todo \in SUBSET SUBSET Messages, NEW item \in SUBSET Messages,
         NEW seen \in {NothingFound} \cup Found
  PROVE  State(pc, cursor, batch, todo, item, seen) \in JobState
BY DEF State, JobState

LEMMA AtType ==
  ASSUME NEW pc \in {"idle", "selected", "fetch", "ingest", "write"},
         NEW cursor \in 0..LastMessage
  PROVE  At(pc, cursor) \in JobState
<1>1. {} \in SUBSET Messages /\ {} \in SUBSET SUBSET Messages
  OBVIOUS
<1>2. NothingFound \in {NothingFound} \cup Found
  OBVIOUS
<1>3. QED
  BY <1>1, <1>2, StateType DEF At

LEMMA IdleType == Idle \in JobState
<1>1. 0 \in 0..LastMessage
  BY FeedAssumption
<1>2. QED
  BY <1>1, AtType DEF Idle

LEMMA EnterType ==
  ASSUME JobTypeOK, NEW j \in Jobs, NEW state \in JobState, Enter(j, state)
  PROVE  JobTypeOK' /\ job'[j] = state /\ \A k \in Jobs \ {j} : job'[k] = job[k]
BY DEF JobTypeOK, Enter

LEMMA JobFields ==
  ASSUME JobTypeOK, NEW j \in Jobs
  PROVE  /\ job[j].pc \in {"idle", "selected", "fetch", "ingest", "write"}
         /\ job[j].cursor \in 0..LastMessage
         /\ job[j].batch \in SUBSET Messages /\ job[j].todo \in SUBSET SUBSET Messages
         /\ job[j].item \in SUBSET Messages /\ job[j].seen \in {NothingFound} \cup Found
BY DEF JobTypeOK, JobState

LEMMA PostedType ==
  ASSUME FeedTypeOK
  PROVE  Posted \subseteq Messages /\ posted \in Int
BY FeedAssumption DEF FeedTypeOK, Posted, Messages

\* A fetch leaves the items of what it fetched to be ingested.
LEMMA CollectType ==
  ASSUME JobTypeOK, NEW j \in Jobs, NEW S \in SUBSET Messages, Collect(j, S)
  PROVE  /\ JobTypeOK'
         /\ job'[j] = State("ingest", job[j].cursor, S, Items(S), {}, NothingFound)
         /\ \A k \in Jobs \ {j} : job'[k] = job[k]
<1>1. Items(S) \in SUBSET SUBSET Messages
  BY ItemsFacts
<1>2. State("ingest", job[j].cursor, S, Items(S), {}, NothingFound) \in JobState
  BY <1>1, JobFields, StateType
<1>3. QED
  BY <1>2, EnterType DEF Collect

LEMMA ReadingsType ==
  ASSUME PostTypeOK, NEW item, NEW seen \in Readings(item)
  PROVE  seen \in {NothingFound} \cup Found
<1>1. CASE AlbumPosts(item) = {}
  BY <1>1 DEF Readings
<1>2. CASE AlbumPosts(item) # {}
  <2>1. PICK p \in AlbumPosts(item) : \E n \in NextPositions(p.head) :
          seen = [found |-> TRUE, post |-> p.head, files |-> Files(p.head), next |-> n]
    BY <1>2 DEF Readings
  <2>2. p.head \in Messages
    BY <2>1 DEF AlbumPosts, PostTypeOK, Post
  <2>3. Files(p.head) \subseteq Messages
    BY DEF Files, Rows, PostTypeOK, MediaRow
  <2>4. \A n \in NextPositions(p.head) : n \in Nat
    BY DEF NextPositions, Rows, PostTypeOK, MediaRow
  <2>5. QED
    BY <2>1, <2>2, <2>3, <2>4 DEF Found
<1>3. QED
  BY <1>1, <1>2

LEMMA UpsertType ==
  ASSUME PostTypeOK, NEW item \in SUBSET Messages, NEW seen \in {NothingFound} \cup Found,
         Upsert(item, seen)
  PROVE  PostTypeOK'
<1>1. CASE AppendMedia(item, seen)
  <2>1. seen.post \in Messages /\ seen.next \in Nat /\ item \ seen.files \in SUBSET Messages
    <3>1. seen \in Found
      BY <1>1 DEF AppendMedia, NothingFound
    <3>2. QED
      BY <3>1 DEF Found
  <2>2. NewRows(seen.post, item \ seen.files, seen.next) \subseteq MediaRow
    BY <2>1, NewRowsFacts
  <2>3. media \cup NewRows(seen.post, item \ seen.files, seen.next) \in SUBSET MediaRow
    BY <2>2 DEF PostTypeOK
  <2>4. QED
    BY <1>1, <2>3, WithPhotosFacts DEF AppendMedia, PostTypeOK
<1>2. CASE InsertPost(item, seen)
  <2>1. PICK h \in item :
          /\ posts' = posts \cup {[head |-> h, group |-> Group(item)]}
          /\ \E got \in Downloads(item) : media' = WithPhotos(media \cup NewRows(h, item, 0), h, got)
    BY <1>2 DEF InsertPost
  <2>2. Group(item) \in SUBSET Messages
    <3>1. \A m \in item : GroupOf(m) \subseteq Messages
      BY GroupFacts
    <3>2. QED
      BY <3>1 DEF Group
  <2>3. NewRows(h, item, 0) \subseteq MediaRow
    BY NewRowsFacts
  <2>4. media \cup NewRows(h, item, 0) \in SUBSET MediaRow
    BY <2>3 DEF PostTypeOK
  <2>5. media' \subseteq MediaRow
    BY <2>1, <2>4, WithPhotosFacts
  <2>6. [head |-> h, group |-> Group(item)] \in Post
    BY <2>2 DEF Post
  <2>7. QED
    BY <2>1, <2>5, <2>6 DEF PostTypeOK
<1>3. CASE SkipDuplicate(item, seen)
  BY <1>3 DEF SkipDuplicate, postVars, PostTypeOK
<1>4. QED
  BY <1>1, <1>2, <1>3 DEF Upsert

\* The loop keeps its types, its cursor and its batch.
LEMMA IngestType ==
  ASSUME JobTypeOK, PostTypeOK, NEW j \in Jobs, Ingest(j)
  PROVE  JobTypeOK' /\ PostTypeOK' /\ \A k \in Jobs \ {j} : job'[k] = job[k]
<1>1. CASE LookUp(j)
  <2>1. PICK item \in job[j].todo : \E seen \in Readings(item) :
          Enter(j, State("write", job[j].cursor, job[j].batch, job[j].todo, item, seen))
    BY <1>1 DEF LookUp
  <2>2. \A seen \in Readings(item) :
          State("write", job[j].cursor, job[j].batch, job[j].todo, item, seen) \in JobState
    BY <2>1, JobFields, ReadingsType, StateType
  <2>3. QED
    BY <1>1, <2>1, <2>2, EnterType DEF LookUp, postVars, PostTypeOK
<1>2. CASE Write(j)
  <2>1. State("ingest", job[j].cursor, job[j].batch, job[j].todo \ {job[j].item}, {}, NothingFound)
          \in JobState
    BY JobFields, StateType
  <2>2. PostTypeOK'
    BY <1>2, JobFields, UpsertType DEF Write
  <2>3. QED
    BY <1>2, <2>1, <2>2, EnterType DEF Write
<1>3. QED
  BY <1>1, <1>2 DEF Ingest

\* Publishing an album publishes all of it.
LEMMA DispatchType ==
  ASSUME TypeInv, NEW item \in Items(Messages), Dispatch(item)
  PROVE  FeedTypeOK' /\ LiveTypeOK' /\ WholeAlbums'
<1>1. item \subseteq Messages /\ Together(item)
      /\ \A m \in item : \A k \in GroupOf(m) : k \in Messages => k \in item
  BY ItemsFacts
<1>2. posted + 1 \in item /\ posted' \in item /\ \A m \in item : m \leq posted'
  BY DEF Dispatch, Publish
<1>3. posted \in Int /\ posted' \in Int /\ posted + 1 \leq posted' /\ posted' \in Messages
  BY <1>1, <1>2, PostedType DEF TypeInv, TypeOK, Messages
<1>4. FeedTypeOK'
  BY <1>3, FeedAssumption DEF FeedTypeOK, Messages
<1>5. LiveTypeOK'
  <2>1. events' \subseteq events \cup {[item |-> item, pc |-> "new", seen |-> NothingFound]}
    BY DEF Dispatch
  <2>2. [item |-> item, pc |-> "new", seen |-> NothingFound] \in EventState
    BY <1>1 DEF EventState
  <2>3. routed' = routed
    BY DEF Dispatch
  <2>4. QED
    BY <2>1, <2>2, <2>3 DEF TypeInv, TypeOK, LiveTypeOK
<1>6. WholeAlbums'
  <2>1. ASSUME NEW A \in Albums, NEW m \in A, m \leq posted' PROVE A \subseteq 1..posted'
    <3>1. A \subseteq Messages /\ m \in Messages /\ GroupOf(m) = A
      BY FeedAssumption, AlbumOfMessage
    <3>2. CASE m \leq posted
      <4>1. A \subseteq 1..posted
        BY <3>2 DEF TypeInv, WholeAlbums, Posted
      <4>2. QED
        BY <4>1, <1>3
    <3>3. CASE ~(m \leq posted)
      <4>1. posted + 1 \leq m /\ m \leq posted' /\ m \in Int
        BY <3>1, <3>3, <1>3, <2>1 DEF Messages
      <4>2. m \in item
        <5>1. CASE posted' = posted + 1
          BY <5>1, <4>1, <1>2, <1>3
        <5>2. CASE posted' # posted + 1
          <6>1. posted' \in GroupOf(posted + 1) /\ posted + 1 \in Messages
            BY <5>2, <1>1, <1>2 DEF Together
          <6>2. (posted + 1)..posted' \subseteq GroupOf(posted + 1)
            BY <6>1, GroupFacts
          <6>3. m \in GroupOf(posted + 1)
            BY <6>2, <4>1, <1>3
          <6>4. QED
            BY <6>3, <3>1, <1>1, <1>2
        <5>3. QED
          BY <5>1, <5>2
      <4>3. A \subseteq item
        BY <4>2, <3>1, <1>1
      <4>4. QED
        BY <4>3, <3>1, <1>2, <1>3 DEF Messages
    <3>4. QED
      BY <3>2, <3>3
  <2>2. QED
    BY <2>1 DEF WholeAlbums, Posted
<1>7. QED
  BY <1>4, <1>5, <1>6

\* The repair of pictures changes nothing else.
LEMMA HealKeeps ==
  ASSUME PostTypeOK, Heal
  PROVE  /\ PostTypeOK'
         /\ \A t \in media' : \E r \in media : t.post = r.post /\ t.file = r.file
         /\ \A r \in media : \E t \in media' : t.post = r.post /\ t.file = r.file
         /\ RowsUnique(media) => RowsUnique(media')
<1>1. PICK got \in SUBSET Newest(Posted, HealLimit) :
        media' = {IF r.photo = 0 /\ r.post \in got /\ sub = "active"
                  THEN [r EXCEPT !.photo = r.post] ELSE r : r \in media}
  BY DEF Heal
<1> DEFINE F == [r \in media |-> IF r.photo = 0 /\ r.post \in got /\ sub = "active"
                                 THEN [r EXCEPT !.photo = r.post] ELSE r]
<1>2. media \in SUBSET MediaRow
  BY DEF PostTypeOK
<1>3. ASSUME NEW r \in media
      PROVE  F[r] \in MediaRow /\ F[r].post = r.post /\ F[r].file = r.file
  <2>1. r \in MediaRow /\ r.post \in 0..LastMessage
    BY <1>2, FeedAssumption DEF MediaRow, Messages
  <2>2. [r EXCEPT !.photo = r.post] \in MediaRow
    BY <2>1 DEF MediaRow
  <2>3. QED
    BY <2>1, <2>2 DEF MediaRow
<1>4. F \in [media -> MediaRow]
  BY <1>3
<1>5. media' = {F[r] : r \in media}
  BY <1>1
<1> HIDE DEF F
<1>6. /\ media' \subseteq MediaRow
      /\ \A t \in media' : \E r \in media : t.post = r.post /\ t.file = r.file
      /\ \A r \in media : \E t \in media' : t.post = r.post /\ t.file = r.file
      /\ RowsUnique(media) => RowsUnique(media')
  BY <1>2, <1>3, <1>4, <1>5, Repaint
<1>7. posts' = posts
  BY DEF Heal
<1>8. QED
  BY <1>6, <1>7 DEF PostTypeOK

LEMMA MergeType ==
  ASSUME PostTypeOK, HistoryTypeOK, NEW A \in Albums, MergeAlbum(A)
  PROVE  PostTypeOK' /\ reads' \in Nat
<1>1. PICK p \in Legacy(A) :
        /\ posts' = (posts \ (Deleted(A, p) \cup {p})) \cup {[p EXCEPT !.group = A]}
        /\ \E n \in NextPositions(p.head) :
             media' = {r \in media : \A q \in Deleted(A, p) : r.post # q.head} \cup Moved(A, p, n)
  BY DEF MergeAlbum
<1>2. p \in Post /\ A \subseteq Messages /\ posts \subseteq Post /\ media \subseteq MediaRow
  BY FeedAssumption DEF Legacy, PostTypeOK
<1>3. [p EXCEPT !.group = A] \in Post
  BY <1>2 DEF Post
<1>4. posts' \subseteq Post
  BY <1>1, <1>2, <1>3
<1>5. ASSUME NEW n \in NextPositions(p.head) PROVE Moved(A, p, n) \subseteq MediaRow
  <2>1. n \in Nat
    BY <1>2 DEF NextPositions, Rows, MediaRow
  <2>2. ASSUME NEW r \in Moving(A, p)
        PROVE  [r EXCEPT !.post = p.head, !.position = n + Place(A, p, r)] \in MediaRow
    <3>1. r \in MediaRow /\ p.head \in Messages
      BY <1>2 DEF Moving, Post
    <3>2. {t.file : t \in Moving(A, p)} \in SUBSET Messages
      BY <1>2 DEF Moving, MediaRow
    <3>3. {k \in {t.file : t \in Moving(A, p)} : k < r.file} \in SUBSET Messages
      BY <3>2
    <3>4. Place(A, p, r) \in Nat
      BY <3>3, MessagesFinite DEF Place, Rank
    <3>5. n + Place(A, p, r) \in Nat
      BY <2>1, <3>4
    <3>6. QED
      BY <3>1, <3>5 DEF MediaRow
  <2>3. QED
    BY <2>2 DEF Moved
<1>6. media' \subseteq MediaRow
  BY <1>1, <1>2, <1>5
<1>7. reads' \in Nat
  BY DEF MergeAlbum
<1>8. QED
  BY <1>4, <1>6, <1>7 DEF PostTypeOK

\* Crash and start leave every copy of the loop idle or about to fetch.
LEMMA InitType == Init => TypeInv
<1> SUFFICES ASSUME Init PROVE TypeInv
  OBVIOUS
<1>1. FeedTypeOK
  BY FeedAssumption DEF Init, FeedInit, FeedTypeOK
<1>2. LegacyPosts \subseteq Messages /\ \A m \in LegacyPosts : m \in 0..LastMessage
  BY RecoveryAssumption, FeedAssumption DEF Messages
<1>3. PostTypeOK
  BY <1>2 DEF Init, PostTypeOK, Post, MediaRow
<1>4. JobTypeOK
  <2>1. 0 \in 0..LastMessage
    BY FeedAssumption
  <2>2. At("fetch", 0) \in JobState /\ Idle \in JobState
    BY <2>1, AtType, IdleType
  <2>3. QED
    BY <2>2 DEF Init, JobTypeOK
<1>5. LiveTypeOK
  BY DEF Init, LiveTypeOK
<1>6. HistoryTypeOK
  <2>1. oldestSeen \in 0..LastMessage /\ reads \in Nat
    BY FeedAssumption DEF Init, HistoryInit
  <2>2. full \in BOOLEAN /\ locked \in BOOLEAN /\ sub \in {"pending_backfill", "active"}
    BY Zenon DEF Init, HistoryInit
  <2>3. QED
    BY <2>1, <2>2 DEF HistoryTypeOK
<1>7. BootTypeOK
  BY DEF Init, BootTypeOK, Phases
<1>8. WholeAlbums
  <2>1. posted = Start /\ Start \in Int
    BY FeedAssumption DEF Init, FeedInit
  <2>2. ASSUME NEW A \in Albums, NEW m \in A, m \leq posted, NEW k \in A PROVE k \in 1..posted
    <3>1. k \leq Start /\ k \in Messages
      BY <2>1, <2>2, FeedAssumption
    <3>2. QED
      BY <2>1, <3>1 DEF Messages
  <2>3. QED
    BY <2>2 DEF WholeAlbums, Posted
<1>9. QED
  BY <1>1, <1>3, <1>4, <1>5, <1>6, <1>7, <1>8 DEF TypeInv, TypeOK

\* The oldest message of a fetched batch is a message.
LEMMA OldestType ==
  ASSUME NEW S \in SUBSET Messages, NEW m, Oldest(m, S)
  PROVE  m \in Messages /\ m \in 0..LastMessage
BY FeedAssumption DEF Oldest, Messages

LEMMA LiveStepType ==
  ASSUME TypeInv, LiveStep
  PROVE  PostTypeOK' /\ LiveTypeOK'
<1>1. PICK e \in events : HandlerLooksUp(e) \/ HandlerWrites(e) \/ HandlerFails(e)
  BY DEF LiveStep
<1>2. /\ PostTypeOK /\ events \subseteq EventState /\ routed \in BOOLEAN
      /\ e.item \in SUBSET Messages /\ e.seen \in {NothingFound} \cup Found
  BY DEF TypeInv, TypeOK, LiveTypeOK, EventState
<1>3. CASE HandlerLooksUp(e)
  <2>1. PICK seen \in Readings(e.item) :
          events' = (events \ {e}) \cup {[item |-> e.item, pc |-> "write", seen |-> seen]}
    BY <1>3 DEF HandlerLooksUp
  <2>2. seen \in {NothingFound} \cup Found
    BY <1>2, ReadingsType
  <2>3. [item |-> e.item, pc |-> "write", seen |-> seen] \in EventState
    BY <1>2, <2>2 DEF EventState
  <2>4. QED
    BY <1>2, <1>3, <2>1, <2>3 DEF HandlerLooksUp, LiveTypeOK, postVars, PostTypeOK
<1>4. CASE HandlerWrites(e)
  <2>1. PostTypeOK'
    BY <1>2, <1>4, UpsertType DEF HandlerWrites
  <2>2. QED
    BY <1>2, <1>4, <2>1 DEF HandlerWrites, LiveTypeOK
<1>5. CASE HandlerFails(e)
  BY <1>2, <1>5 DEF HandlerFails, LiveTypeOK, postVars, PostTypeOK
<1>6. QED
  BY <1>1, <1>3, <1>4, <1>5

LEMMA JoinStepType ==
  ASSUME TypeInv, JoinStep
  PROVE  PostTypeOK' /\ JobTypeOK' /\ sub' \in {"pending_backfill", "active"}
<1>1. PostTypeOK /\ JobTypeOK /\ sub \in {"pending_backfill", "active"} /\ "join" \in Jobs
  BY DEF TypeInv, TypeOK, HistoryTypeOK, Jobs
<1>2. CASE JoinFetch
  <2>1. Newest(Posted, JoinLimit) \in SUBSET Messages
    BY PostedType DEF TypeInv, TypeOK, Newest
  <2>2. QED
    BY <1>1, <1>2, <2>1, CollectType DEF JoinFetch, postVars, PostTypeOK
<1>3. CASE Ingest("join") /\ UNCHANGED sub
  BY <1>1, <1>3, IngestType
<1>4. CASE JoinDone
  BY <1>1, <1>4, EnterType, IdleType DEF JoinDone, Leave, postVars, PostTypeOK
<1>5. CASE JoinFails
  BY <1>1, <1>5, EnterType, IdleType DEF JoinFails, Leave, postVars, PostTypeOK
<1>6. QED
  BY <1>2, <1>3, <1>4, <1>5 DEF JoinStep

LEMMA RecoveryStepType ==
  ASSUME TypeInv, RecoveryStep
  PROVE  PostTypeOK' /\ JobTypeOK'
<1>1. PostTypeOK /\ JobTypeOK /\ "recovery" \in Jobs
  BY DEF TypeInv, TypeOK, Jobs
<1>2. CASE RecoveryStart
  <2>1. PICK m \in Posted : Collect("recovery", m..posted)
    BY <1>2 DEF RecoveryStart
  <2>2. m..posted \in SUBSET Messages
    BY PostedType, FeedAssumption DEF TypeInv, TypeOK, FeedTypeOK, Posted, Messages
  <2>3. QED
    BY <1>1, <1>2, <2>1, <2>2, CollectType DEF RecoveryStart, postVars, PostTypeOK
<1>3. CASE Ingest("recovery")
  BY <1>1, <1>3, IngestType
<1>4. CASE RecoveryEnds
  BY <1>1, <1>4, EnterType, IdleType DEF RecoveryEnds, Leave, postVars, PostTypeOK
<1>5. QED
  BY <1>2, <1>3, <1>4 DEF RecoveryStep

\* A pass, one disjunct at a time.
LEMMA HistoryStepType ==
  ASSUME TypeInv, HistoryStep
  PROVE  /\ PostTypeOK' /\ JobTypeOK'
         /\ oldestSeen' \in 0..LastMessage
         /\ full' \in BOOLEAN /\ locked' \in BOOLEAN /\ reads' \in Nat
<1>1. /\ PostTypeOK /\ JobTypeOK /\ "history" \in Jobs
      /\ oldestSeen \in 0..LastMessage /\ full \in BOOLEAN /\ locked \in BOOLEAN /\ reads \in Nat
  BY DEF TypeInv, TypeOK, HistoryTypeOK, Jobs
<1>2. /\ job["history"].cursor \in 0..LastMessage
      /\ job["history"].batch \in SUBSET Messages
  BY <1>1, JobFields
<1>3. CASE Select
  <2>1. PICK c \in Messages : Enter("history", At("selected", c))
    BY <1>3 DEF Select
  <2>2. c \in 0..LastMessage
    BY FeedAssumption DEF Messages
  <2>3. JobTypeOK'
    BY <1>1, <2>1, <2>2, AtType, EnterType
  <2>4. QED
    BY <1>1, <1>3, <2>3 DEF Select, historyVars, archiveVars, postVars, PostTypeOK
<1>4. CASE TryAcquireLock
  <2>1. At("fetch", job["history"].cursor) \in JobState
    BY <1>2, AtType
  <2>2. JobTypeOK'
    BY <1>1, <1>4, <2>1, IdleType, EnterType DEF TryAcquireLock, Leave
  <2>3. QED
    BY <1>1, <1>4, <2>2 DEF TryAcquireLock, postVars, PostTypeOK
<1>5. CASE FetchOlder
  <2>1. Newest(Older, BatchSize) \in SUBSET Messages
    BY PostedType DEF TypeInv, TypeOK, Newest, Older
  <2>2. JobTypeOK'
    BY <1>1, <1>5, <2>1, CollectType DEF FetchOlder
  <2>3. QED
    BY <1>1, <1>5, <2>2 DEF FetchOlder, historyVars, archiveVars, postVars, PostTypeOK
<1>6. CASE Exhaust
  <2>1. JobTypeOK'
    BY <1>1, <1>6, IdleType, EnterType DEF Exhaust, Leave
  <2>2. QED
    BY <1>1, <1>6, <2>1 DEF Exhaust, postVars, PostTypeOK
<1>7. CASE Defer
  <2>1. JobTypeOK'
    BY <1>1, <1>7, IdleType, EnterType DEF Defer, Leave
  <2>2. QED
    BY <1>1, <1>7, <2>1 DEF Defer, postVars, PostTypeOK
<1>8. CASE FetchFails
  <2>1. JobTypeOK'
    BY <1>1, <1>8, IdleType, EnterType DEF FetchFails, Leave
  <2>2. QED
    BY <1>1, <1>2, <1>8, <2>1 DEF FetchFails, postVars, PostTypeOK
<1>9. CASE Ingest("history") /\ UNCHANGED historyVars
  BY <1>1, <1>9, IngestType DEF historyVars, archiveVars
<1>10. CASE Release
  <2>1. JobTypeOK'
    BY <1>1, <1>10, IdleType, EnterType DEF Release, Leave
  <2>2. oldestSeen' \in 0..LastMessage
    BY <1>2, <1>10, OldestType DEF Release
  <2>3. QED
    BY <1>1, <1>10, <2>1, <2>2 DEF Release, postVars, PostTypeOK
<1>11. CASE PassFails
  <2>1. JobTypeOK'
    BY <1>1, <1>11, IdleType, EnterType DEF PassFails, Leave
  <2>2. QED
    BY <1>1, <1>11, <2>1 DEF PassFails, historyVars, archiveVars, postVars, PostTypeOK
<1>12. QED
  BY <1>3, <1>4, <1>5, <1>6, <1>7, <1>8, <1>9, <1>10, <1>11 DEF HistoryStep

LEMMA BootStepType ==
  ASSUME TypeInv, BootStep
  PROVE  PostTypeOK' /\ JobTypeOK' /\ reads' \in Nat /\ phase' \in Phases /\ routed' \in BOOLEAN
<1>1. /\ PostTypeOK /\ JobTypeOK /\ HistoryTypeOK /\ "catchup" \in Jobs
      /\ reads \in Nat /\ phase \in Phases /\ routed \in BOOLEAN
  BY DEF TypeInv, TypeOK, HistoryTypeOK, BootTypeOK, LiveTypeOK, Jobs
<1>2. CASE BeginBoot
  <2>1. JobTypeOK'
    <3>1. CASE sub = "active"
      <4>1. PICK c \in 0..LastMessage : Enter("catchup", At("fetch", c))
        BY <1>2, <3>1 DEF BeginBoot
      <4>2. QED
        BY <1>1, <4>1, AtType, EnterType
    <3>2. CASE sub # "active"
      BY <1>1, <1>2, <3>2 DEF BeginBoot, JobTypeOK
    <3>3. QED
      BY <3>1, <3>2
  <2>2. QED
    BY <1>1, <1>2, <2>1 DEF BeginBoot, postVars, PostTypeOK, Phases
<1>3. CASE FetchMissed
  <2>1. Newest({m \in Posted : m > job["catchup"].cursor}, CatchUpLimit) \in SUBSET Messages
    BY PostedType DEF TypeInv, TypeOK, Newest
  <2>2. JobTypeOK'
    BY <1>1, <1>3, <2>1, CollectType DEF FetchMissed
  <2>3. QED
    BY <1>1, <1>3, <2>2 DEF FetchMissed, postVars, PostTypeOK
<1>4. CASE Ingest("catchup") /\ UNCHANGED <<reads, phase, routed>>
  BY <1>1, <1>4, IngestType
<1>5. CASE CaughtUp
  <2>1. JobTypeOK'
    BY <1>1, <1>5, IdleType, EnterType DEF CaughtUp, Leave
  <2>2. QED
    BY <1>1, <1>5, <2>1 DEF CaughtUp, postVars, PostTypeOK, Phases
<1>6. CASE Heal
  <2>1. JobTypeOK' /\ reads' \in Nat /\ phase' \in Phases /\ routed' \in BOOLEAN
    BY <1>1, <1>6 DEF Heal, JobTypeOK, Phases
  <2>2. QED
    BY <1>1, <1>6, <2>1, HealKeeps
<1>7. CASE \E A \in Albums : MergeAlbum(A)
  <2>1. PICK A \in Albums : MergeAlbum(A)
    BY <1>7
  <2>2. PostTypeOK' /\ reads' \in Nat
    BY <1>1, <2>1, MergeType
  <2>3. QED
    BY <1>1, <2>1, <2>2 DEF MergeAlbum, JobTypeOK
<1>8. CASE Subscribe
  BY <1>1, <1>8 DEF Subscribe, postVars, PostTypeOK, JobTypeOK, Phases
<1>9. CASE BootFails
  <2>1. JobTypeOK'
    BY <1>1, <1>9, IdleType, EnterType DEF BootFails, Leave
  <2>2. QED
    BY <1>1, <1>9, <2>1 DEF BootFails, postVars, PostTypeOK, Phases
<1>10. QED
  BY <1>2, <1>3, <1>4, <1>5, <1>6, <1>7, <1>8, <1>9 DEF BootStep

LEMMA NextType == TypeInv /\ [Next]_vars => TypeInv'
<1> SUFFICES ASSUME TypeInv, [Next]_vars PROVE TypeInv'
  OBVIOUS
<1> USE DEF TypeInv, TypeOK
<1>1. CASE Channel
  <2>1. PICK item \in Items(Messages) : Dispatch(item)
    BY <1>1 DEF Channel
  <2>2. FeedTypeOK' /\ LiveTypeOK' /\ WholeAlbums'
    BY <2>1, DispatchType
  <2>3. PostTypeOK' /\ JobTypeOK' /\ HistoryTypeOK' /\ BootTypeOK'
    BY <1>1, <2>1 DEF Channel, Dispatch, historyVars, archiveVars, postVars,
                      PostTypeOK, JobTypeOK, HistoryTypeOK, BootTypeOK
  <2>4. QED
    BY <2>2, <2>3
<1>2. CASE Live
  <2>1. PostTypeOK' /\ LiveTypeOK'
    BY <1>2, LiveStepType DEF Live
  <2>2. QED
    BY <1>2, <2>1 DEF Live, historyVars, archiveVars, FeedTypeOK, WholeAlbums, Posted,
                      JobTypeOK, HistoryTypeOK, BootTypeOK
<1>3. CASE Join
  <2>1. PostTypeOK' /\ JobTypeOK' /\ sub' \in {"pending_backfill", "active"}
    BY <1>3, JoinStepType DEF Join
  <2>2. QED
    BY <1>3, <2>1 DEF Join, historyVars, archiveVars, liveVars, FeedTypeOK, WholeAlbums, Posted,
                      LiveTypeOK, HistoryTypeOK, BootTypeOK
<1>4. CASE History
  <2>1. /\ PostTypeOK' /\ JobTypeOK'
        /\ oldestSeen' \in 0..LastMessage
        /\ full' \in BOOLEAN /\ locked' \in BOOLEAN /\ reads' \in Nat
    BY <1>4, HistoryStepType DEF History
  <2>2. QED
    BY <1>4, <2>1 DEF History, liveVars, FeedTypeOK, WholeAlbums, Posted,
                      LiveTypeOK, HistoryTypeOK, BootTypeOK
<1>5. CASE Tool
  <2>1. PostTypeOK' /\ JobTypeOK'
    BY <1>5, RecoveryStepType DEF Tool
  <2>2. QED
    BY <1>5, <2>1 DEF Tool, historyVars, archiveVars, liveVars, FeedTypeOK, WholeAlbums, Posted,
                      LiveTypeOK, HistoryTypeOK, BootTypeOK
<1>6. CASE Boot
  <2>1. PostTypeOK' /\ JobTypeOK' /\ reads' \in Nat /\ phase' \in Phases /\ routed' \in BOOLEAN
    BY <1>6, BootStepType DEF Boot
  <2>2. QED
    BY <1>6, <2>1 DEF Boot, archiveVars, FeedTypeOK, WholeAlbums, Posted,
                      LiveTypeOK, HistoryTypeOK, BootTypeOK
<1>7. CASE Reader
  <2>1. reads' \in Nat
    BY <1>7 DEF Reader, ReadOn, HistoryTypeOK
  <2>2. QED
    BY <1>7, <2>1 DEF Reader, ReadOn, archiveVars, liveVars, postVars, FeedTypeOK, WholeAlbums,
         Posted, PostTypeOK, JobTypeOK, LiveTypeOK, HistoryTypeOK, BootTypeOK
<1>8. CASE Clock
  BY <1>8 DEF Clock, LockExpires, liveVars, postVars, FeedTypeOK, WholeAlbums,
       Posted, PostTypeOK, JobTypeOK, LiveTypeOK, HistoryTypeOK, BootTypeOK
<1>9. CASE Crash
  <2>1. JobTypeOK'
    BY <1>9, IdleType DEF Crash, JobTypeOK
  <2>2. QED
    BY <1>9, <2>1 DEF Crash, postVars, historyVars, archiveVars, FeedTypeOK, WholeAlbums,
         Posted, PostTypeOK, LiveTypeOK, HistoryTypeOK, BootTypeOK, Phases
<1>10. CASE UNCHANGED vars
  BY <1>10 DEF vars, liveVars, postVars, historyVars, archiveVars, FeedTypeOK, WholeAlbums,
       Posted, PostTypeOK, JobTypeOK, LiveTypeOK, HistoryTypeOK, BootTypeOK
<1>11. QED
  BY <1>1, <1>2, <1>3, <1>4, <1>5, <1>6, <1>7, <1>8, <1>9, <1>10 DEF Next

\* Posts, rows, the jobs' snapshots, the archive cursor and the boot keep their
\* types, whatever is posted, fails or crashes.
THEOREM IngestTypeCorrect == Spec => []TypeOK
<1>1. TypeInv => TypeOK
  BY DEF TypeInv
<1>2. QED
  BY <1>1, InitType, NextType, PTL DEF Spec

--------------------------------------------------------------------------------
(* The invariant *)

JobInv(s) ==
  /\ \A i \in s.todo : ItemInv(i)
  /\ s.pc = "write" => s.item \in s.todo /\ SeenInv(s.item, s.seen)

EventInv(e) == ItemInv(e.item) /\ (e.pc = "write" => SeenInv(e.item, e.seen))

WritersInv == (\A j \in Jobs : JobInv(job[j])) /\ \A e \in events : EventInv(e)

\* A pass starts at messages that are stored up, and its batch reaches from
\* there down without a gap, stored or still to be.
PassInv(s) ==
  /\ s.pc # "idle" => /\ s.cursor \in Messages /\ UpStored(s.cursor)
                      /\ oldestSeen # 0 => s.cursor = oldestSeen
  /\ s.pc \in {"ingest", "write"} =>
       /\ \A k \in s.batch : k < s.cursor /\ k..(s.cursor - 1) \subseteq s.batch
       /\ \A m \in s.batch : Stored(m) \/ \E i \in s.todo : m \in i

ArchiveInv == (oldestSeen # 0 => UpStored(oldestSeen)) /\ PassInv(job["history"])

\* Which jobs and handlers may be at work in which phase.
PhaseInv ==
  /\ phase # "catchup" => job["catchup"] = Idle
  /\ phase # "live" => ~routed /\ events = {} /\ job["join"] = Idle /\ job["history"] = Idle
  /\ ~Recovery => job["recovery"] = Idle
  /\ sub = "active" => job["join"] = Idle
  /\ sub # "active" => job["history"] = Idle /\ job["catchup"] = Idle

\* Some post does not know its album yet.
Unmerged == \E p \in posts : ~Knows(p)

\* Then only a boot is at work, whose catch-up begins above all posts.
LegacyInv ==
  Unmerged =>
    /\ phase # "live" /\ sub = "active" /\ oldestSeen = 0
    /\ ~Recovery /\ "error" \notin Faults
    /\ job["catchup"].pc = "fetch" => \A p \in posts : p.head \leq job["catchup"].cursor

IInv == TypeInv /\ StoreInv /\ WritersInv /\ ArchiveInv /\ PhaseInv /\ LegacyInv

\* What every writer leaves to the others.
Grows ==
  /\ \A m : Stored(m) => Stored(m)'
  /\ posts \subseteq posts' /\ NewOnesKnow
  /\ Posted \subseteq Posted'

LEMMA Stutter ==
  ASSUME UNCHANGED postVars, Posted \subseteq Posted'
  PROVE  Grows /\ (StoreInv => StoreInv')
BY DEF postVars, Grows, NewOnesKnow, StoreInv, PostTypeOK, UpStored, Stored

LEMMA WritersKeep ==
  ASSUME WritersInv, Grows,
         \A k \in Jobs : job'[k] = job[k] \/ JobInv(job[k])',
         \A e \in events' : e \in events \/ EventInv(e)'
  PROVE  WritersInv'
<1>1. /\ \A item : ItemInv(item) => ItemInv(item)'
      /\ \A item, seen : SeenInv(item, seen) => SeenInv(item, seen)'
  BY StoredOnly DEF Grows
<1>2. ASSUME NEW k \in Jobs, job'[k] = job[k] PROVE JobInv(job[k])'
  <2>1. PICK s : s = job[k]
    OBVIOUS
  <2>2. JobInv(s)
    BY <2>1 DEF WritersInv
  <2>3. JobInv(s)'
    BY <1>1, <2>2 DEF JobInv
  <2>4. job'[k] = s
    BY <1>2, <2>1
  <2>5. QED
    BY <2>3, <2>4 DEF JobInv, ItemInv, UpItem, SeenInv
<1>3. \A e \in events : EventInv(e) => EventInv(e)'
  BY <1>1 DEF EventInv
<1>4. \A e \in events : EventInv(e)
  BY DEF WritersInv
<1>5. \A e \in events' : EventInv(e)'
  BY <1>3, <1>4
<1>6. \A k \in Jobs : JobInv(job[k])'
  BY <1>2
<1>7. QED
  BY <1>5, <1>6 DEF WritersInv

\* A pass that stands still is not disturbed by what others store.
LEMMA ArchiveKeeps ==
  ASSUME ArchiveInv, Grows, oldestSeen' = oldestSeen, job'["history"] = job["history"]
  PROVE  ArchiveInv'
<1>1. \A c : UpStored(c) => UpStored(c)'
  BY StoredOnly DEF Grows
<1>2. PICK s : s = job["history"]
  OBVIOUS
<1>3. PICK old : old = oldestSeen
  OBVIOUS
<1>4. old # 0 => UpStored(old)'
  BY <1>1, <1>3 DEF ArchiveInv
<1>5. PassInv(s)
  BY <1>2 DEF ArchiveInv
<1>6. s.pc # "idle" => s.cursor \in Messages /\ UpStored(s.cursor)' /\ (old # 0 => s.cursor = old)
  BY <1>1, <1>3, <1>5 DEF PassInv
<1>7. s.pc \in {"ingest", "write"} =>
        /\ \A k \in s.batch : k < s.cursor /\ k..(s.cursor - 1) \subseteq s.batch
        /\ \A m \in s.batch : Stored(m)' \/ \E i \in s.todo : m \in i
  BY <1>5 DEF PassInv, Grows
<1>8. job'["history"] = s /\ oldestSeen' = old
  BY <1>2, <1>3
<1>9. QED
  BY <1>4, <1>6, <1>7, <1>8 DEF ArchiveInv, PassInv, UpStored

\* An idle or a fetching job has nothing to write.
LEMMA AtInv ==
  ASSUME NEW j \in Jobs, NEW pc \in {"idle", "selected", "fetch"}, NEW c, job'[j] = At(pc, c)
  PROVE  JobInv(job[j])'
BY DEF At, State, JobInv

\* What a fetch brings may be written when newer parts of its albums are there.
LEMMA CollectKeeps ==
  ASSUME JobTypeOK, NEW j \in Jobs, NEW S \in SUBSET Messages, Collect(j, S), UNCHANGED postVars,
         Posted \subseteq Posted', S \subseteq Posted,
         \A m \in S : \A k \in GroupOf(m) : m \leq k => k \in S \/ Stored(k),
         \A m \in S : \A p \in posts : p.head \in GroupOf(m) => Knows(p)
  PROVE  JobInv(job[j])'
<1>1. job'[j] = State("ingest", job[j].cursor, S, Items(S), {}, NothingFound)
  BY CollectType
<1>2. ASSUME NEW i \in Items(S) PROVE ItemInv(i)
  <2>1. i \subseteq S /\ Together(i) /\ \A m \in i : \A k \in GroupOf(m) : k \in S => k \in i
    BY ItemsFacts
  <2>2. PICK m \in i : m \in S
    BY <2>1 DEF Together
  <2>3. Group(i) = GroupOf(m)
    BY <2>1, <2>2, GroupOfItem
  <2>4. QED
    BY <2>1, <2>2, <2>3 DEF ItemInv, UpItem
<1>3. \A i \in Items(S) : ItemInv(i)'
  BY <1>2, Stutter, StoredOnly DEF Grows
<1>4. job'[j].pc = "ingest" /\ job'[j].todo = Items(S)
  BY <1>1 DEF State
<1>5. QED
  BY <1>3, <1>4 DEF JobInv

\* One step of the loop.
LEMMA IngestKeeps ==
  ASSUME TypeInv, StoreInv, NEW j \in Jobs, JobInv(job[j]), Ingest(j),
         Posted \subseteq Posted'
  PROVE  /\ StoreInv' /\ Grows /\ JobInv(job[j])'
         /\ \A k \in Jobs \ {j} : job'[k] = job[k]
         /\ job[j].pc \in {"ingest", "write"} /\ job'[j].pc \in {"ingest", "write"}
         /\ job'[j].cursor = job[j].cursor /\ job'[j].batch = job[j].batch
         /\ \A m : (\E i \in job[j].todo : m \in i)
                     => Stored(m)' \/ \E i \in job'[j].todo : m \in i
<1>1. JobTypeOK /\ PostTypeOK
  BY DEF TypeInv, TypeOK
<1>2. \A k \in Jobs \ {j} : job'[k] = job[k]
  BY <1>1, IngestType
<1>3. CASE LookUp(j)
  <2>1. PICK item \in job[j].todo : \E seen \in Readings(item) :
          Enter(j, State("write", job[j].cursor, job[j].batch, job[j].todo, item, seen))
    BY <1>3 DEF LookUp
  <2>2. PICK seen \in Readings(item) :
          Enter(j, State("write", job[j].cursor, job[j].batch, job[j].todo, item, seen))
    BY <2>1
  <2>3. seen \in {NothingFound} \cup Found /\ SeenInv(item, seen)
    BY ReadingsFacts
  <2>4. State("write", job[j].cursor, job[j].batch, job[j].todo, item, seen) \in JobState
    BY <1>1, <2>1, <2>3, JobFields, StateType
  <2>5. job'[j] = State("write", job[j].cursor, job[j].batch, job[j].todo, item, seen)
    BY <1>1, <2>2, <2>4, EnterType
  <2>6. /\ job'[j].pc = "write" /\ job'[j].cursor = job[j].cursor
        /\ job'[j].batch = job[j].batch /\ job'[j].todo = job[j].todo
        /\ job'[j].item = item /\ job'[j].seen = seen
    BY <2>5 DEF State
  <2>7. UNCHANGED postVars
    BY <1>3 DEF LookUp
  <2>8. Grows /\ StoreInv'
    BY <2>7, Stutter
  <2>9. PICK todo : todo = job[j].todo
    OBVIOUS
  <2>10. (\A i \in todo : ItemInv(i)') /\ SeenInv(item, seen)'
    BY <2>3, <2>8, <2>9, StoredOnly DEF JobInv, Grows
  <2>11. JobInv(job[j])'
    <3>1. job'[j].todo = todo /\ item \in todo
      BY <2>1, <2>6, <2>9
    <3>2. QED
      BY <2>6, <2>10, <3>1 DEF JobInv, SeenInv
  <2>12. job[j].pc = "ingest"
    BY <1>3 DEF LookUp
  <2>13. QED
    BY <1>2, <2>6, <2>8, <2>11, <2>12
<1>4. CASE Write(j)
  <2>1. State("ingest", job[j].cursor, job[j].batch, job[j].todo \ {job[j].item}, {}, NothingFound)
          \in JobState
    BY <1>1, JobFields, StateType
  <2>2. job'[j] = State("ingest", job[j].cursor, job[j].batch, job[j].todo \ {job[j].item},
                        {}, NothingFound)
    BY <1>1, <1>4, <2>1, EnterType DEF Write
  <2>3. /\ job'[j].pc = "ingest" /\ job'[j].cursor = job[j].cursor
        /\ job'[j].batch = job[j].batch /\ job'[j].todo = job[j].todo \ {job[j].item}
    BY <2>2 DEF State
  <2>4. PICK item, seen : item = job[j].item /\ seen = job[j].seen
    OBVIOUS
  <2>5. job[j].pc = "write" /\ item \in job[j].todo /\ ItemInv(item) /\ SeenInv(item, seen)
    BY <1>4, <2>4 DEF Write, JobInv
  <2>6. seen \in {NothingFound} \cup Found
    BY <1>1, <2>4, JobFields
  <2>7. Upsert(item, seen)
    BY <1>4, <2>4 DEF Write
  <2>8. StoreInv' /\ Grows /\ \A m \in item : Stored(m)'
    BY <2>5, <2>6, <2>7, UpsertStores DEF Grows
  <2>9. PICK todo : todo = job[j].todo
    OBVIOUS
  <2>10. \A i \in todo : ItemInv(i)'
    BY <2>8, <2>9, StoredOnly DEF JobInv, Grows
  <2>11. JobInv(job[j])'
    <3>1. job'[j].todo \subseteq todo
      BY <2>3, <2>9
    <3>2. QED
      BY <2>3, <2>10, <3>1 DEF JobInv
  <2>12. \A m : (\E i \in job[j].todo : m \in i)
                  => Stored(m)' \/ \E i \in job'[j].todo : m \in i
    BY <2>3, <2>4, <2>8
  <2>13. QED
    BY <1>2, <2>3, <2>5, <2>8, <2>11, <2>12
<1>5. QED
  BY <1>3, <1>4 DEF Ingest

(* What posts from before the group column may be: of an album only older *)
(* parts are missing, as every fetch takes messages newest first; nobody   *)
(* runs the recovery script; and no call of the boot fails.                *)
LegacyInOrder ==
  \/ LegacyPosts = {}
  \/ /\ ~Recovery /\ "error" \notin Faults
     /\ \A m \in LegacyPosts : \A k \in GroupOf(m) : m \leq k => k \in LegacyPosts

\* Each legacy post has its own message, and no post has a group.
LEMMA OpeningStore ==
  ASSUME Init, TypeInv, LegacyInOrder
  PROVE  StoreInv
<1>1. /\ posts = {[head |-> m, group |-> {}] : m \in LegacyPosts}
      /\ media = {[post |-> m, file |-> m, position |-> 0, photo |-> m] : m \in LegacyPosts}
      /\ posted = Start
  BY DEF Init, FeedInit
<1>2. PostTypeOK
  BY DEF TypeInv, TypeOK
<1>3. \A m \in LegacyPosts : Stored(m)
  <2>1. ASSUME NEW m \in LegacyPosts PROVE \E r \in media : r.file = m
    <3>1. PICK r : r = [post |-> m, file |-> m, position |-> 0, photo |-> m]
      OBVIOUS
    <3>2. r \in media /\ r.file = m
      BY <1>1, <3>1
    <3>3. QED
      BY <3>2
  <2>2. QED
    BY <2>1 DEF Stored
<1>4. \A m \in LegacyPosts : UpStored(m)
  <2>1. LegacyPosts \subseteq Posted
    BY <1>1, RecoveryAssumption DEF Posted
  <2>2. QED
    BY <1>3, <2>1 DEF UpStored, LegacyInOrder
<1>5. \A p \in posts : p.group = {} /\ p.head \in LegacyPosts
  BY <1>1
<1>6. \A p, q \in posts : p.head = q.head => p = q
  BY <1>1
<1>7. \A r \in media : \E p \in posts : p.head = r.post /\ r.file \in p.group \cup {p.head}
  <2>1. ASSUME NEW r \in media
        PROVE  \E p \in posts : p.head = r.post /\ r.file \in p.group \cup {p.head}
    <3>1. PICK m \in LegacyPosts : r = [post |-> m, file |-> m, position |-> 0, photo |-> m]
      BY <1>1
    <3>2. PICK p : p = [head |-> m, group |-> {}]
      OBVIOUS
    <3>3. p \in posts
      BY <1>1, <3>2
    <3>4. QED
      BY <3>1, <3>2, <3>3
  <2>2. QED
    BY <2>1
<1>8. RowsUnique(media)
  BY <1>1 DEF RowsUnique
<1>9. QED
  BY <1>2, <1>4, <1>5, <1>6, <1>7, <1>8 DEF StoreInv

LEMMA Opening ==
  ASSUME Init, LegacyInOrder
  PROVE  IInv
<1>1. TypeInv /\ StoreInv
  BY InitType, OpeningStore
<1>2. events = {} /\ oldestSeen = 0
  BY DEF Init, HistoryInit
<1>3. Idle.pc = "idle" /\ Idle.todo = {} /\ At("fetch", 0).pc = "fetch" /\ At("fetch", 0).todo = {}
  BY DEF Idle, At, State
<1>4. CASE LegacyPosts = {}
  <2>1. job = [j \in Jobs |-> IF j = "join" THEN At("fetch", 0) ELSE Idle]
        /\ phase = "live" /\ sub = "pending_backfill" /\ posts = {}
    BY <1>4 DEF Init
  <2>2. \A j \in Jobs : job[j].pc # "write" /\ job[j].todo = {}
    BY <1>3, <2>1
  <2>3. job["history"] = Idle /\ job["catchup"] = Idle /\ job["recovery"] = Idle
    BY <2>1 DEF Jobs
  <2>4. WritersInv /\ ArchiveInv
    BY <1>2, <1>3, <2>2, <2>3 DEF WritersInv, JobInv, ArchiveInv, PassInv
  <2>5. PhaseInv /\ LegacyInv
    BY <2>1, <2>3 DEF PhaseInv, LegacyInv, Unmerged
  <2>6. QED
    BY <1>1, <2>4, <2>5 DEF IInv
<1>5. CASE LegacyPosts # {}
  <2>1. job = [j \in Jobs |-> Idle]
        /\ phase = "down" /\ sub = "active" /\ routed = FALSE
    BY <1>5 DEF Init
  <2>2. \A j \in Jobs : job[j] = Idle
    BY <2>1
  <2>3. WritersInv /\ ArchiveInv
    BY <1>2, <1>3, <2>2 DEF WritersInv, JobInv, ArchiveInv, PassInv, Jobs
  <2>4. PhaseInv
    BY <1>2, <2>1, <2>2 DEF PhaseInv, Jobs
  <2>5. LegacyInv
    BY <1>2, <1>3, <1>5, <2>1, <2>2 DEF LegacyInv, LegacyInOrder, Jobs
  <2>6. QED
    BY <1>1, <2>3, <2>4, <2>5 DEF IInv
<1>6. QED
  BY <1>4, <1>5

--------------------------------------------------------------------------------
(* One step of each part *)

\* While the process runs, every post knows its album.
LEMMA LiveKnows ==
  ASSUME IInv, phase = "live" \/ Recovery
  PROVE  \A p \in posts : Knows(p)
BY DEF IInv, LegacyInv, Unmerged

\* An item of what is posted holds whatever of its album is newer.
LEMMA PostedUpward ==
  ASSUME TypeInv, NEW m \in Posted, NEW k \in GroupOf(m)
  PROVE  k \in Posted /\ k \in Int /\ m \in Int
<1>1. m \in Messages /\ m \leq posted /\ posted \in Int
  BY PostedType DEF TypeInv, TypeOK, Posted, Messages
<1>2. GroupOf(m) \in Albums /\ m \in GroupOf(m)
  BY <1>1, GroupFacts
<1>3. GroupOf(m) \subseteq Posted
  BY <1>1, <1>2 DEF TypeInv, WholeAlbums
<1>4. QED
  BY <1>3 DEF Posted

\* A live update carries all of an album.
LEMMA ChannelKeeps ==
  ASSUME IInv, Channel
  PROVE  StoreInv' /\ WritersInv' /\ ArchiveInv' /\ NewOnesKnow
<1>1. PICK item \in Items(Messages) : Dispatch(item)
  BY DEF Channel
<1>2. UNCHANGED postVars /\ job' = job /\ oldestSeen' = oldestSeen
  BY <1>1 DEF Channel, Dispatch, historyVars, archiveVars
<1>3. Posted \subseteq Posted' /\ posted' \in Int /\ \A m \in item : m \leq posted'
  <2>1. item \subseteq Messages
    BY ItemsFacts
  <2>2. posted' \in Messages /\ posted + 1 \leq posted' /\ posted \in Int
        /\ \A m \in item : m \leq posted'
    BY <1>1, <2>1, PostedType DEF Dispatch, Publish, IInv, TypeInv, TypeOK, Messages
  <2>3. QED
    BY <2>2 DEF Posted, Messages
<1>4. Grows /\ StoreInv'
  BY <1>2, <1>3, Stutter DEF IInv
<1>5. PICK new : new = [item |-> item, pc |-> "new", seen |-> NothingFound]
  OBVIOUS
<1>6. events' \subseteq events \cup {new}
  BY <1>1, <1>5 DEF Dispatch
<1>7. ASSUME routed PROVE EventInv(new)'
  <2>1. item \subseteq Messages /\ Together(item)
        /\ \A m \in item : \A k \in GroupOf(m) : k \in Messages => k \in item
    BY ItemsFacts
  <2>2. \A m \in item : GroupOf(m) \subseteq Messages
    BY <2>1, GroupFacts
  <2>3. item \subseteq Posted'
    BY <1>3, <2>1 DEF Posted, Messages
  <2>7. \A p \in posts' : Knows(p)
    <3>1. phase = "live"
      BY <1>7 DEF IInv, PhaseInv
    <3>2. posts' = posts
      BY <1>2 DEF postVars
    <3>3. QED
      BY <3>1, <3>2, LiveKnows
  <2>4. ItemInv(item)'
    BY <2>1, <2>2, <2>3, <2>7 DEF ItemInv, UpItem
  <2>5. new.item = item /\ new.pc = "new"
    BY <1>5
  <2>6. QED
    BY <2>4, <2>5 DEF EventInv, ItemInv, UpItem
<1>8. \A e \in events' : e \in events \/ EventInv(e)'
  BY <1>1, <1>6, <1>7 DEF Dispatch
<1>9. WritersInv'
  BY <1>2, <1>4, <1>8, WritersKeep DEF IInv
<1>10. ArchiveInv'
  BY <1>2, <1>4, ArchiveKeeps DEF IInv
<1>11. QED
  BY <1>4, <1>9, <1>10 DEF Grows

LEMMA LiveKeeps ==
  ASSUME IInv, Live
  PROVE  StoreInv' /\ WritersInv' /\ ArchiveInv' /\ NewOnesKnow
<1>1. PICK e \in events : HandlerLooksUp(e) \/ HandlerWrites(e) \/ HandlerFails(e)
  BY DEF Live, LiveStep
<1>2. EventInv(e) /\ ItemInv(e.item) /\ e.seen \in {NothingFound} \cup Found
  BY DEF IInv, WritersInv, EventInv, TypeInv, TypeOK, LiveTypeOK, EventState
<1>3. job' = job /\ oldestSeen' = oldestSeen /\ Posted \subseteq Posted'
  BY DEF Live, historyVars, archiveVars, Posted
<1>4. StoreInv' /\ Grows /\ \A f \in events' : f \in events \/ EventInv(f)'
  <2>1. CASE HandlerLooksUp(e)
    <3>1. PICK seen \in Readings(e.item) :
            events' = (events \ {e}) \cup {[item |-> e.item, pc |-> "write", seen |-> seen]}
      BY <2>1 DEF HandlerLooksUp
    <3>2. SeenInv(e.item, seen)
      BY ReadingsFacts DEF IInv
    <3>3. UNCHANGED postVars
      BY <2>1 DEF HandlerLooksUp
    <3>4. Grows /\ StoreInv'
      BY <1>3, <3>3, Stutter DEF IInv
    <3>5. PICK new : new = [item |-> e.item, pc |-> "write", seen |-> seen]
      OBVIOUS
    <3>6. new.item = e.item /\ new.seen = seen
      BY <3>5
    <3>7. EventInv(new)
      BY <1>2, <3>2, <3>6 DEF EventInv
    <3>8. EventInv(new)'
      BY <3>4, <3>7, StoredOnly DEF EventInv, Grows
    <3>9. QED
      BY <3>1, <3>4, <3>5, <3>8
  <2>2. CASE HandlerWrites(e)
    <3>1. e.pc = "write" /\ Upsert(e.item, e.seen) /\ events' \subseteq events
      BY <2>2 DEF HandlerWrites
    <3>2. SeenInv(e.item, e.seen)
      BY <1>2, <3>1 DEF EventInv
    <3>3. QED
      BY <1>2, <1>3, <3>1, <3>2, UpsertStores DEF IInv, Grows
  <2>3. CASE HandlerFails(e)
    <3>1. UNCHANGED postVars /\ events' \subseteq events
      BY <2>3 DEF HandlerFails
    <3>2. QED
      BY <1>3, <3>1, Stutter DEF IInv
  <2>4. QED
    BY <1>1, <2>1, <2>2, <2>3
<1>5. WritersInv'
  BY <1>3, <1>4, WritersKeep DEF IInv
<1>6. ArchiveInv'
  BY <1>3, <1>4, ArchiveKeeps DEF IInv
<1>7. QED
  BY <1>4, <1>5, <1>6 DEF Grows

\* A copy of the loop other than the archive's, at any step of it.
LEMMA WriterKeeps ==
  ASSUME IInv, NEW j \in Jobs, j # "history", StoreInv', Grows, JobInv(job[j])',
         \A k \in Jobs \ {j} : job'[k] = job[k], events' = events, oldestSeen' = oldestSeen
  PROVE  StoreInv' /\ WritersInv' /\ ArchiveInv' /\ NewOnesKnow
<1>1. \A k \in Jobs : job'[k] = job[k] \/ JobInv(job[k])'
  <2>1. ASSUME NEW k \in Jobs, job'[k] # job[k] PROVE JobInv(job[k])'
    <3>1. k = j
      BY <2>1
    <3>2. QED
      BY <3>1
  <2>2. QED
    BY <2>1
<1>2. WritersInv'
  BY <1>1, WritersKeep DEF IInv
<1>3. job'["history"] = job["history"]
  BY DEF Jobs
<1>4. ArchiveInv'
  BY <1>3, ArchiveKeeps DEF IInv
<1>5. QED
  BY <1>2, <1>4 DEF Grows

\* It gives up, or is done.
LEMMA LeaveKeeps ==
  ASSUME IInv, NEW j \in Jobs, Leave(j), UNCHANGED postVars, Posted \subseteq Posted'
  PROVE  /\ StoreInv' /\ Grows /\ JobInv(job[j])' /\ job'[j] = Idle
         /\ \A k \in Jobs \ {j} : job'[k] = job[k]
<1>1. job'[j] = Idle /\ \A k \in Jobs \ {j} : job'[k] = job[k]
  BY IdleType, EnterType DEF Leave, IInv, TypeInv, TypeOK
<1>2. JobInv(job[j])'
  BY <1>1, AtInv DEF Idle
<1>3. QED
  BY <1>1, <1>2, Stutter DEF IInv

LEMMA JoinKeeps ==
  ASSUME IInv, Join
  PROVE  StoreInv' /\ WritersInv' /\ ArchiveInv' /\ NewOnesKnow
<1>1. /\ events' = events /\ oldestSeen' = oldestSeen /\ Posted \subseteq Posted'
      /\ "join" \in Jobs /\ JobTypeOK /\ TypeInv
  BY DEF Join, liveVars, historyVars, archiveVars, Posted, Jobs, IInv, TypeInv, TypeOK
<1>2. CASE JoinFetch
  <2>1. PICK S : S = Newest(Posted, JoinLimit)
    OBVIOUS
  <2>2. S \subseteq Posted /\ S \in SUBSET Messages /\ Collect("join", S) /\ UNCHANGED postVars
    BY <1>1, <1>2, <2>1, PostedType DEF JoinFetch, TypeInv, TypeOK, Newest
  <2>3. \A m \in S : \A k \in GroupOf(m) : m \leq k => k \in S \/ Stored(k)
    <3>1. JoinLimit \in Nat /\ Posted \subseteq Messages
      BY <1>1, LimitAssumption, PostedType DEF TypeInv, TypeOK
    <3>2. ASSUME NEW m \in S, NEW k \in GroupOf(m), m \leq k PROVE k \in S
      <4>1. m \in Posted
        BY <2>1 DEF Newest
      <4>2. k \in Posted /\ k \in Int /\ m \in Int
        BY <1>1, <4>1, PostedUpward
      <4>3. CASE m = k
        BY <4>3
      <4>4. CASE m < k
        BY <2>1, <3>1, <4>2, <4>4, NewestIsUpward
      <4>5. QED
        BY <3>2, <4>2, <4>3, <4>4
    <3>3. QED
      BY <3>2
  <2>8. \A p \in posts : Knows(p)
    BY LiveKnows DEF Join
  <2>4. JobInv(job["join"])'
    BY <1>1, <2>2, <2>3, <2>8, CollectKeeps
  <2>5. \A k \in Jobs \ {"join"} : job'[k] = job[k]
    BY <1>1, <2>2, CollectType
  <2>6. Grows /\ StoreInv'
    BY <1>1, <2>2, Stutter DEF IInv
  <2>7. QED
    BY <1>1, <2>4, <2>5, <2>6, WriterKeeps
<1>3. CASE Ingest("join") /\ UNCHANGED sub
  <2>1. JobInv(job["join"]) /\ StoreInv
    BY <1>1 DEF IInv, WritersInv
  <2>2. StoreInv' /\ Grows /\ JobInv(job["join"])' /\ \A k \in Jobs \ {"join"} : job'[k] = job[k]
    BY <1>1, <1>3, <2>1, IngestKeeps
  <2>3. QED
    BY <1>1, <2>2, WriterKeeps
<1>4. CASE JoinDone \/ JoinFails
  <2>1. Leave("join") /\ UNCHANGED postVars
    BY <1>4 DEF JoinDone, JoinFails
  <2>2. StoreInv' /\ Grows /\ JobInv(job["join"])' /\ \A k \in Jobs \ {"join"} : job'[k] = job[k]
    BY <1>1, <2>1, LeaveKeeps
  <2>3. QED
    BY <1>1, <2>2, WriterKeeps
<1>5. QED
  BY <1>2, <1>3, <1>4 DEF Join, JoinStep

LEMMA ToolKeeps ==
  ASSUME IInv, Tool
  PROVE  StoreInv' /\ WritersInv' /\ ArchiveInv' /\ NewOnesKnow
<1>1. /\ events' = events /\ oldestSeen' = oldestSeen /\ Posted \subseteq Posted'
      /\ "recovery" \in Jobs /\ JobTypeOK /\ TypeInv
  BY DEF Tool, liveVars, historyVars, archiveVars, Posted, Jobs, IInv, TypeInv, TypeOK
<1>2. CASE RecoveryStart
  <2>1. PICK c \in Posted : Collect("recovery", c..posted)
    BY <1>2 DEF RecoveryStart
  <2>2. PICK S : S = c..posted
    OBVIOUS
  <2>3. c \in Int /\ 1 \leq c /\ posted \in Int /\ Posted \subseteq Messages
    BY <1>1, PostedType DEF TypeInv, TypeOK, Posted
  <2>4. S \subseteq Posted /\ S \in SUBSET Messages
    BY <2>2, <2>3 DEF Posted
  <2>5. Collect("recovery", S) /\ UNCHANGED postVars
    BY <1>2, <2>1, <2>2 DEF RecoveryStart
  <2>6. \A m \in S : \A k \in GroupOf(m) : m \leq k => k \in S \/ Stored(k)
    <3>1. ASSUME NEW m \in S, NEW k \in GroupOf(m), m \leq k PROVE k \in S
      <4>1. k \in Posted /\ k \in Int /\ m \in Int
        BY <1>1, <2>4, PostedUpward
      <4>2. QED
        BY <2>2, <2>3, <3>1, <4>1 DEF Posted
    <3>2. QED
      BY <3>1
  <2>11. \A p \in posts : Knows(p)
    BY <1>2, LiveKnows DEF RecoveryStart
  <2>7. JobInv(job["recovery"])'
    BY <1>1, <2>4, <2>5, <2>6, <2>11, CollectKeeps
  <2>8. \A k \in Jobs \ {"recovery"} : job'[k] = job[k]
    BY <1>1, <2>4, <2>5, CollectType
  <2>9. Grows /\ StoreInv'
    BY <1>1, <2>5, Stutter DEF IInv
  <2>10. QED
    BY <1>1, <2>7, <2>8, <2>9, WriterKeeps
<1>3. CASE Ingest("recovery")
  <2>1. JobInv(job["recovery"]) /\ StoreInv
    BY <1>1 DEF IInv, WritersInv
  <2>2. /\ StoreInv' /\ Grows /\ JobInv(job["recovery"])'
        /\ \A k \in Jobs \ {"recovery"} : job'[k] = job[k]
    BY <1>1, <1>3, <2>1, IngestKeeps
  <2>3. QED
    BY <1>1, <2>2, WriterKeeps
<1>4. CASE RecoveryEnds
  <2>1. Leave("recovery") /\ UNCHANGED postVars
    BY <1>4 DEF RecoveryEnds
  <2>2. /\ StoreInv' /\ Grows /\ JobInv(job["recovery"])'
        /\ \A k \in Jobs \ {"recovery"} : job'[k] = job[k]
    BY <1>1, <2>1, LeaveKeeps
  <2>3. QED
    BY <1>1, <2>2, WriterKeeps
<1>5. QED
  BY <1>2, <1>3, <1>4 DEF Tool, RecoveryStep

\* A step that touches neither the jobs nor the archive.
LEMMA BesidesKeeps ==
  ASSUME IInv, StoreInv', Grows, job' = job, events' \subseteq events, oldestSeen' = oldestSeen
  PROVE  StoreInv' /\ WritersInv' /\ ArchiveInv' /\ NewOnesKnow
<1>1. WritersInv'
  BY WritersKeep DEF IInv
<1>2. ArchiveInv'
  BY ArchiveKeeps DEF IInv
<1>3. QED
  BY <1>1, <1>2 DEF Grows

\* The repair of pictures leaves posts and files as they are.
LEMMA HealStores ==
  ASSUME StoreInv, Heal, Posted \subseteq Posted'
  PROVE  StoreInv' /\ Grows
<1>1. PostTypeOK /\ RowsUnique(media)
  BY DEF StoreInv
<1>2. /\ PostTypeOK'
      /\ \A t \in media' : \E r \in media : t.post = r.post /\ t.file = r.file
      /\ \A r \in media : \E t \in media' : t.post = r.post /\ t.file = r.file
      /\ RowsUnique(media')
  BY <1>1, HealKeeps
<1>3. posts' = posts
  BY DEF Heal
<1>4. \A m : Stored(m) => Stored(m)'
  BY <1>2 DEF Stored
<1>5. Grows
  BY <1>3, <1>4 DEF Grows, NewOnesKnow
<1>6. \A p \in posts' : (p.group = {} \/ Knows(p)) /\ UpStored(p.head)'
  <2>1. \A p \in posts : (p.group = {} \/ Knows(p)) /\ UpStored(p.head)
    BY DEF StoreInv
  <2>2. QED
    BY <1>3, <1>4, <2>1 DEF UpStored
<1>7. \A r \in media' : \E p \in posts' : p.head = r.post /\ r.file \in p.group \cup {p.head}
  <2>1. \A r \in media : \E p \in posts : p.head = r.post /\ r.file \in p.group \cup {p.head}
    BY DEF StoreInv
  <2>2. QED
    BY <1>2, <1>3, <2>1
<1>8. StoreInv'
  BY <1>2, <1>3, <1>6, <1>7 DEF StoreInv
<1>9. QED
  BY <1>5, <1>8

\* A message of a legacy post's album that is stored has a post of its own.
LEMMA LegacyAlone ==
  ASSUME StoreInv, NEW p \in posts, p.group = {}, NEW m \in GroupOf(p.head), Stored(m)
  PROVE  \E q \in posts : q.group = {} /\ q.head = m
<1>1. PICK r \in media, q \in posts : r.file = m /\ q.head = r.post /\ m \in q.group \cup {q.head}
  BY DEF StoreInv, Stored
<1>2. p.head \in Messages /\ q.head \in Messages
  BY DEF StoreInv, PostTypeOK, Post
<1>3. GroupOf(m) = GroupOf(p.head)
  BY <1>2, GroupFacts
<1>4. CASE q.group = {}
  BY <1>1, <1>4
<1>5. CASE q.group # {}
  <2>1. q.group = GroupOf(q.head)
    BY <1>5 DEF StoreInv, Knows
  <2>2. GroupOf(m) = q.group
    BY <1>1, <1>2, <1>5, <2>1, GroupFacts
  <2>3. QED
    BY <1>3, <1>5, <2>2 DEF StoreInv
<1>6. QED
  BY <1>4, <1>5

\* What catch-up fetches above all posts belongs to no legacy album.
LEMMA MissedIsNew ==
  ASSUME IInv, job["catchup"].pc = "fetch", NEW m \in Messages, m > job["catchup"].cursor,
         NEW p \in posts, p.head \in GroupOf(m)
  PROVE  Knows(p)
<1>1. SUFFICES ASSUME ~Knows(p) PROVE FALSE
  OBVIOUS
<1>2. p.group = {} /\ UpStored(p.head) /\ p.head \in Messages
  BY <1>1 DEF IInv, StoreInv, PostTypeOK, Post
<1>3. \A q \in posts : q.head \leq job["catchup"].cursor /\ q.head \in Int
  <2>1. \A q \in posts : q.head \in Int
    BY DEF IInv, StoreInv, PostTypeOK, Post, Messages
  <2>2. QED
    BY <1>1, <2>1 DEF IInv, LegacyInv, Unmerged
<1>4. job["catchup"].cursor \in Int /\ m \in Int
  BY JobFields DEF IInv, TypeInv, TypeOK, Jobs, Messages
<1>5. m \in GroupOf(p.head) /\ p.head \leq m
  <2>1. GroupOf(p.head) = GroupOf(m) /\ m \in GroupOf(m)
    BY GroupFacts
  <2>2. QED
    BY <1>3, <1>4, <2>1
<1>6. Stored(m)
  BY <1>2, <1>5 DEF UpStored
<1>7. \E q \in posts : q.head = m
  BY <1>2, <1>5, <1>6, LegacyAlone DEF IInv
<1>8. QED
  BY <1>3, <1>4, <1>7

\* An album that has legacy posts has no other, and the merge leaves it one
\* that has all their files.
LEMMA MergeStores ==
  ASSUME TypeInv, StoreInv, NEW A \in Albums, MergeAlbum(A), Posted \subseteq Posted'
  PROVE  StoreInv' /\ (\A m : Stored(m) => Stored(m)') /\ NewOnesKnow
<1>1. PICK p \in Legacy(A) :
        /\ \A q \in Legacy(A) \ {p} : p.head < q.head
        /\ posts' = (posts \ (Deleted(A, p) \cup {p})) \cup {[p EXCEPT !.group = A]}
        /\ \E n \in NextPositions(p.head) :
             media' = {r \in media : \A q \in Deleted(A, p) : r.post # q.head} \cup Moved(A, p, n)
  BY DEF MergeAlbum
<1>2. PICK n : media' = {r \in media : \A q \in Deleted(A, p) : r.post # q.head} \cup Moved(A, p, n)
  BY <1>1
<1>3. PICK new : new = [p EXCEPT !.group = A]
  OBVIOUS
<1>4. PICK L : L = Legacy(A)
  OBVIOUS
<1>5. /\ \A q \in L : q \in posts /\ q.group = {} /\ q.head \in A
      /\ \A q \in posts : q.group = {} /\ q.head \in A => q \in L
      /\ p \in L
  BY <1>4 DEF Legacy
<1>6. posts \subseteq Post /\ media \subseteq MediaRow /\ \A q \in posts : q.head \in Messages
  BY DEF StoreInv, PostTypeOK, Post
<1>7. new.head = p.head /\ new.group = A /\ A # {} /\ GroupOf(p.head) = A /\ new \in Post
  <2>1. p \in Post
    BY <1>5, <1>6
  <2>2. A \in SUBSET Messages /\ A # {}
    BY FeedAssumption
  <2>3. QED
    BY <1>3, <1>5, <2>1, <2>2, AlbumOfMessage DEF Post
<1>8. posts' = (posts \ L) \cup {new}
  BY <1>1, <1>3, <1>4 DEF Deleted
<1>9. \A r \in media : \E q \in posts : q.head = r.post /\ r.file \in q.group \cup {q.head}
  BY DEF StoreInv
<1>10. ASSUME NEW q \in L, NEW r \in media, r.post = q.head PROVE r.file = q.head
  BY <1>5, <1>9, <1>10 DEF StoreInv
<1>11. Moving(A, p) = {r \in media : r.file \notin Files(p.head) /\ \E q \in L \ {p} : r.post = q.head}
  BY <1>4 DEF Moving
<1>12. PICK Kept : Kept = {r \in media : \A q \in L \ {p} : r.post # q.head}
  OBVIOUS
<1>13. media' = Kept \cup Moved(A, p, n)
  BY <1>2, <1>4, <1>12 DEF Deleted
<1>14. ASSUME NEW t \in Moved(A, p, n)
       PROVE  \E r \in Moving(A, p) : r \in media /\ t.post = p.head /\ t.file = r.file
                                      /\ t = [r EXCEPT !.post = p.head, !.position = n + Place(A, p, r)]
  <2>1. PICK r \in Moving(A, p) : t = [r EXCEPT !.post = p.head, !.position = n + Place(A, p, r)]
    BY DEF Moved
  <2>2. r \in media /\ r \in MediaRow
    BY <1>6, <1>11
  <2>3. t.post = p.head /\ t.file = r.file
    BY <2>1, <2>2 DEF MediaRow
  <2>4. QED
    BY <2>1, <2>2, <2>3
<1>15. ASSUME NEW r \in Moving(A, p) PROVE \E t \in Moved(A, p, n) : t.post = p.head /\ t.file = r.file
  <2>1. PICK t : t = [r EXCEPT !.post = p.head, !.position = n + Place(A, p, r)]
    OBVIOUS
  <2>2. t \in Moved(A, p, n)
    BY <2>1 DEF Moved
  <2>3. r \in MediaRow
    BY <1>6, <1>11
  <2>4. t.post = p.head /\ t.file = r.file
    BY <2>1, <2>3 DEF MediaRow
  <2>5. QED
    BY <2>2, <2>4
<1>16. \A m : Stored(m) => Stored(m)'
  <2>1. ASSUME NEW r \in media PROVE \E t \in media' : t.file = r.file
    <3>1. CASE r \in Kept
      BY <1>13, <3>1
    <3>2. CASE r \notin Kept /\ r.file \notin Files(p.head)
      <4>1. r \in Moving(A, p)
        BY <1>11, <1>12, <3>2
      <4>2. QED
        BY <1>13, <1>15, <4>1
    <3>3. CASE r \notin Kept /\ r.file \in Files(p.head)
      <4>1. PICK t \in media : t.post = p.head /\ t.file = r.file
        BY <3>3 DEF Files, Rows
      <4>2. t \in Kept
        BY <1>5, <1>12, <4>1 DEF StoreInv
      <4>3. QED
        BY <1>13, <4>1, <4>2
    <3>4. QED
      BY <3>1, <3>2, <3>3
  <2>2. QED
    BY <2>1 DEF Stored
<1>17. \A q \in posts' : (q.group = {} \/ Knows(q)) /\ UpStored(q.head)'
  <2>1. \A q \in posts : (q.group = {} \/ Knows(q)) /\ UpStored(q.head)'
    BY <1>16 DEF StoreInv, UpStored
  <2>2. Knows(new)
    BY <1>7 DEF Knows
  <2>3. QED
    BY <1>5, <1>7, <1>8, <2>1, <2>2
<1>18. \A q, u \in posts' : q.head = u.head => q = u
  BY <1>5, <1>7, <1>8 DEF StoreInv
<1>19. \A q \in posts : q.group # A
  BY <1>7 DEF MergeAlbum, Untagged
<1>20. \A q, u \in posts' : q.group # {} /\ q.group = u.group => q = u
  BY <1>7, <1>8, <1>19 DEF StoreInv
<1>21. \A q, u \in posts' : q.group = {} /\ u.group = GroupOf(q.head) => u.group = {}
  <2>1. ASSUME NEW q \in posts \ L, q.group = {}, A = GroupOf(q.head) PROVE FALSE
    <3>1. q.head \in A
      BY <1>6, <1>7, <2>1, GroupFacts
    <3>2. QED
      BY <1>5, <2>1, <3>1
  <2>2. QED
    BY <1>7, <1>8, <2>1 DEF StoreInv
<1>22. \A r \in media' : \E q \in posts' : q.head = r.post /\ r.file \in q.group \cup {q.head}
  <2>1. ASSUME NEW r \in Kept
        PROVE  \E q \in posts' : q.head = r.post /\ r.file \in q.group \cup {q.head}
    <3>1. PICK q \in posts : q.head = r.post /\ r.file \in q.group \cup {q.head}
      BY <1>9, <1>12
    <3>2. CASE q \in L
      <4>1. q = p
        BY <1>12, <3>1, <3>2
      <4>2. QED
        BY <1>5, <1>7, <1>8, <3>1, <4>1
    <3>3. CASE q \notin L
      BY <1>8, <3>1, <3>3
    <3>4. QED
      BY <3>2, <3>3
  <2>2. ASSUME NEW t \in Moved(A, p, n)
        PROVE  \E q \in posts' : q.head = t.post /\ t.file \in q.group \cup {q.head}
    <3>1. PICK r \in Moving(A, p) : r \in media /\ t.post = p.head /\ t.file = r.file
      BY <1>14
    <3>2. PICK q \in L : r.post = q.head
      BY <1>11
    <3>3. t.file \in A
      BY <1>5, <1>10, <3>1, <3>2
    <3>4. QED
      BY <1>7, <1>8, <3>1, <3>3
  <2>3. QED
    BY <1>13, <2>1, <2>2
<1>23. RowsUnique(media')
  <2>1. ASSUME NEW r \in Kept, NEW t \in Moved(A, p, n), r.post = t.post, r.file = t.file PROVE FALSE
    <3>1. PICK s \in Moving(A, p) : t.post = p.head /\ t.file = s.file
      BY <1>14
    <3>2. s.file \notin Files(p.head)
      BY <1>11
    <3>3. r.file \in Files(p.head)
      BY <1>12, <2>1, <3>1 DEF Files, Rows
    <3>4. QED
      BY <2>1, <3>1, <3>2, <3>3
  <2>2. ASSUME NEW t \in Moved(A, p, n), NEW u \in Moved(A, p, n), t.file = u.file PROVE t = u
    <3>1. PICK r \in Moving(A, p) :
            r \in media /\ t.file = r.file
            /\ t = [r EXCEPT !.post = p.head, !.position = n + Place(A, p, r)]
      BY <1>14
    <3>2. PICK s \in Moving(A, p) :
            s \in media /\ u.file = s.file
            /\ u = [s EXCEPT !.post = p.head, !.position = n + Place(A, p, s)]
      BY <1>14
    <3>3. r.file = r.post /\ s.file = s.post
      BY <1>10, <1>11
    <3>4. r = s
      <4>1. r.file = s.file /\ r.post = s.post /\ r \in media /\ s \in media
        BY <2>2, <3>1, <3>2, <3>3
      <4>2. QED
        BY <4>1 DEF StoreInv, RowsUnique
    <3>5. QED
      BY <3>1, <3>2, <3>4
  <2>3. \A r, t \in Kept : r.post = t.post /\ r.file = t.file => r = t
    BY <1>12 DEF StoreInv, RowsUnique
  <2>4. QED
    BY <1>13, <2>1, <2>2, <2>3 DEF RowsUnique
<1>24. PostTypeOK'
  BY MergeType DEF TypeInv, TypeOK
<1>25. StoreInv'
  BY <1>17, <1>18, <1>20, <1>21, <1>22, <1>23, <1>24 DEF StoreInv
<1>26. NewOnesKnow
  BY <1>7, <1>8 DEF NewOnesKnow, Knows
<1>27. QED
  BY <1>16, <1>25, <1>26

\* While the boot merges albums, nobody else is at work.
LEMMA MergeAlone ==
  ASSUME IInv, NEW A \in Albums, MergeAlbum(A)
  PROVE  /\ \A j \in Jobs : job[j].todo = {} /\ job[j].pc = "idle"
         /\ events = {} /\ oldestSeen = 0
<1>1. phase = "merge" /\ Legacy(A) # {}
  BY DEF MergeAlbum, HasLegacy
<1>2. Unmerged
  <2>1. PICK p \in posts : p.group = {} /\ p.head \in A
    BY <1>1 DEF Legacy
  <2>2. ~Knows(p)
    BY <2>1, AlbumOfMessage DEF Knows
  <2>3. QED
    BY <2>2 DEF Unmerged
<1>3. \A j \in Jobs : job[j] = Idle
  BY <1>1, <1>2 DEF IInv, LegacyInv, PhaseInv, Jobs
<1>4. events = {} /\ oldestSeen = 0
  BY <1>1, <1>2 DEF IInv, LegacyInv, PhaseInv
<1>5. Idle.pc = "idle" /\ Idle.todo = {}
  BY DEF Idle, At, State
<1>6. QED
  BY <1>3, <1>4, <1>5

LEMMA BootKeeps ==
  ASSUME IInv, Boot
  PROVE  StoreInv' /\ WritersInv' /\ ArchiveInv' /\ NewOnesKnow
<1>1. /\ events' = events /\ oldestSeen' = oldestSeen /\ Posted \subseteq Posted'
      /\ "catchup" \in Jobs /\ JobTypeOK /\ TypeInv
  BY DEF Boot, archiveVars, Posted, Jobs, IInv, TypeInv, TypeOK
<1>2. CASE BeginBoot
  <2>1. Grows /\ StoreInv'
    BY <1>1, <1>2, Stutter DEF BeginBoot, IInv
  <2>2. CASE sub = "active"
    <3>1. PICK c \in 0..LastMessage : Enter("catchup", At("fetch", c))
      BY <1>2, <2>2 DEF BeginBoot
    <3>2. job'["catchup"] = At("fetch", c) /\ \A k \in Jobs \ {"catchup"} : job'[k] = job[k]
      BY <1>1, <3>1, AtType, EnterType
    <3>3. JobInv(job["catchup"])'
      BY <1>1, <3>2, AtInv
    <3>4. QED
      BY <1>1, <2>1, <3>2, <3>3, WriterKeeps
  <2>3. CASE sub # "active"
    <3>1. job' = job
      BY <1>2, <2>3 DEF BeginBoot
    <3>2. QED
      BY <1>1, <2>1, <3>1, BesidesKeeps
  <2>4. QED
    BY <2>2, <2>3
<1>3. CASE FetchMissed
  <2>1. PICK Missed : Missed = {m \in Posted : m > job["catchup"].cursor}
    OBVIOUS
  <2>2. PICK S : S = Newest(Missed, CatchUpLimit)
    OBVIOUS
  <2>3. CatchUpLimit \in Nat /\ Posted \subseteq Messages /\ job["catchup"].cursor \in Int
    BY <1>1, LimitAssumption, PostedType, JobFields DEF TypeInv, TypeOK
  <2>4. Missed \subseteq Messages /\ S \in SUBSET Messages /\ S \subseteq Posted
    BY <2>1, <2>2, <2>3 DEF Newest
  <2>5. Collect("catchup", S) /\ UNCHANGED postVars
    BY <1>3, <2>1, <2>2 DEF FetchMissed
  <2>6. ASSUME NEW m \in S, NEW k \in GroupOf(m), m \leq k PROVE k \in S
    <3>1. k \in Posted /\ k \in Int /\ m \in Int
      BY <1>1, <2>4, PostedUpward
    <3>2. m \in Missed
      BY <2>2 DEF Newest
    <3>3. k \in Missed
      BY <2>1, <2>3, <2>6, <3>1, <3>2
    <3>4. CASE m = k
      BY <3>4
    <3>5. CASE m < k
      BY <2>2, <2>3, <2>4, <3>3, <3>5, NewestIsUpward
    <3>6. QED
      BY <2>6, <3>1, <3>4, <3>5
  <2>11. \A m \in S : \A p \in posts : p.head \in GroupOf(m) => Knows(p)
    <3>1. \A m \in S : m \in Messages /\ m > job["catchup"].cursor
      BY <2>1, <2>2, <2>4 DEF Newest
    <3>2. job["catchup"].pc = "fetch"
      BY <1>3 DEF FetchMissed
    <3>3. QED
      BY <3>1, <3>2, MissedIsNew
  <2>7. JobInv(job["catchup"])'
    BY <1>1, <2>4, <2>5, <2>6, <2>11, CollectKeeps
  <2>8. \A k \in Jobs \ {"catchup"} : job'[k] = job[k]
    BY <1>1, <2>4, <2>5, CollectType
  <2>9. Grows /\ StoreInv'
    BY <1>1, <2>5, Stutter DEF IInv
  <2>10. QED
    BY <1>1, <2>7, <2>8, <2>9, WriterKeeps
<1>4. CASE Ingest("catchup")
  <2>1. JobInv(job["catchup"]) /\ StoreInv
    BY <1>1 DEF IInv, WritersInv
  <2>2. /\ StoreInv' /\ Grows /\ JobInv(job["catchup"])'
        /\ \A k \in Jobs \ {"catchup"} : job'[k] = job[k]
    BY <1>1, <1>4, <2>1, IngestKeeps
  <2>3. QED
    BY <1>1, <2>2, WriterKeeps
<1>5. CASE CaughtUp \/ BootFails
  <2>1. Leave("catchup") /\ UNCHANGED postVars
    BY <1>5 DEF CaughtUp, BootFails
  <2>2. /\ StoreInv' /\ Grows /\ JobInv(job["catchup"])'
        /\ \A k \in Jobs \ {"catchup"} : job'[k] = job[k]
    BY <1>1, <2>1, LeaveKeeps
  <2>3. QED
    BY <1>1, <2>2, WriterKeeps
<1>6. CASE Heal
  <2>1. StoreInv' /\ Grows
    BY <1>1, <1>6, HealStores DEF IInv
  <2>2. job' = job
    BY <1>6 DEF Heal
  <2>3. QED
    BY <1>1, <2>1, <2>2, BesidesKeeps
<1>7. ASSUME NEW A \in Albums, MergeAlbum(A)
      PROVE  StoreInv' /\ WritersInv' /\ ArchiveInv' /\ NewOnesKnow
  <2>1. StoreInv' /\ NewOnesKnow
    BY <1>1, <1>7, MergeStores DEF IInv
  <2>2. /\ \A j \in Jobs : job[j].todo = {} /\ job[j].pc = "idle"
        /\ events = {} /\ oldestSeen = 0
    BY <1>7, MergeAlone
  <2>7. /\ \A j \in Jobs : job'[j].todo = {} /\ job'[j].pc = "idle"
        /\ events' = {} /\ oldestSeen' = 0
    BY <1>1, <1>7, <2>2 DEF MergeAlbum
  <2>8. WritersInv'
    BY <2>7 DEF WritersInv, JobInv
  <2>9. ArchiveInv'
    BY <2>7 DEF ArchiveInv, PassInv, Jobs
  <2>10. QED
    BY <2>1, <2>8, <2>9
<1>8. CASE Subscribe
  <2>1. StoreInv' /\ Grows
    BY <1>1, <1>8, Stutter DEF Subscribe, IInv
  <2>2. job' = job
    BY <1>8 DEF Subscribe
  <2>3. QED
    BY <1>1, <2>1, <2>2, BesidesKeeps
<1>9. QED
  BY <1>2, <1>3, <1>4, <1>5, <1>6, <1>7, <1>8 DEF Boot, BootStep

--------------------------------------------------------------------------------
(* The archive *)

\* Newer messages of an album that begins below a cursor end above it only if
\* the cursor is in the album.
LEMMA BelowCursor ==
  ASSUME FeedTypeOK, NEW m \in Messages, NEW c \in Messages, m < c, UpStored(c),
         \A x \in m..(c - 1) : Stored(x)
  PROVE  UpStored(m)
<1>1. m \in Int /\ c \in Int /\ m \in Posted
  BY PostedType DEF Messages, Posted, UpStored
<1>2. Stored(m)
  BY <1>1
<1>3. ASSUME NEW k \in GroupOf(m), m \leq k PROVE Stored(k)
  <2>1. k \in Messages /\ k \in Int /\ GroupOf(k) = GroupOf(m) /\ m..k \subseteq GroupOf(m)
    BY GroupFacts DEF Messages
  <2>2. CASE k < c
    BY <1>1, <1>3, <2>1, <2>2
  <2>3. CASE c \leq k
    <3>1. c \in GroupOf(m)
      BY <1>1, <2>1, <2>3
    <3>2. GroupOf(c) = GroupOf(m)
      BY <3>1, GroupFacts
    <3>3. QED
      BY <2>3, <3>2 DEF UpStored
  <2>4. QED
    BY <1>1, <2>1, <2>2, <2>3
<1>4. QED
  BY <1>1, <1>2, <1>3 DEF UpStored

\* When a batch is committed, all from its oldest message to the cursor is
\* stored.
LEMMA BatchStored ==
  ASSUME IInv, Ingested("history"), NEW m, Oldest(m, job["history"].batch)
  PROVE  /\ m \in Messages /\ job["history"].cursor \in Messages /\ m < job["history"].cursor
         /\ \A x \in m..(job["history"].cursor - 1) : Stored(x)
         /\ UpStored(m)
<1>1. PICK s : s = job["history"]
  OBVIOUS
<1>2. s.pc = "ingest" /\ s.todo = {} /\ m \in s.batch /\ s.batch \subseteq Messages
  BY <1>1, JobFields DEF Ingested, Oldest, IInv, TypeInv, TypeOK, Jobs
<1>3. PassInv(s)
  BY <1>1 DEF IInv, ArchiveInv
<1>4. s.cursor \in Messages /\ UpStored(s.cursor)
  BY <1>2, <1>3 DEF PassInv
<1>5. m < s.cursor /\ m..(s.cursor - 1) \subseteq s.batch /\ \A x \in s.batch : Stored(x)
  BY <1>2, <1>3 DEF PassInv
<1>6. UpStored(m)
  BY <1>2, <1>4, <1>5, BelowCursor DEF IInv, TypeInv, TypeOK
<1>7. QED
  BY <1>1, <1>2, <1>4, <1>5, <1>6

\* A pass begins or ends where the archive stands, or where the cursor says.
LEMMA PassAt ==
  ASSUME Grows, NEW old, oldestSeen' = old, old # 0 => UpStored(old),
         NEW pc \in {"idle", "selected", "fetch"}, NEW c, job'["history"] = At(pc, c),
         pc # "idle" => c \in Messages /\ UpStored(c) /\ (old # 0 => c = old)
  PROVE  ArchiveInv'
<1>1. \A x : UpStored(x) => UpStored(x)'
  BY StoredOnly DEF Grows
<1>2. job'["history"].pc = pc /\ job'["history"].cursor = c
  BY DEF At, State
<1>3. /\ old # 0 => UpStored(old)'
      /\ pc # "idle" => UpStored(c)'
  BY <1>1
<1>4. pc \notin {"ingest", "write"}
  OBVIOUS
<1>5. QED
  BY <1>2, <1>3, <1>4 DEF ArchiveInv, PassInv, UpStored

LEMMA HistoryKeeps ==
  ASSUME IInv, History
  PROVE  StoreInv' /\ WritersInv' /\ ArchiveInv' /\ NewOnesKnow
<1>1. /\ events' = events /\ Posted \subseteq Posted'
      /\ "history" \in Jobs /\ JobTypeOK /\ TypeInv /\ StoreInv
  BY DEF History, liveVars, Posted, Jobs, IInv, TypeInv, TypeOK
<1>2. PICK s, old : s = job["history"] /\ old = oldestSeen
  OBVIOUS
<1>3. PassInv(s) /\ (old # 0 => UpStored(old))
  BY <1>2 DEF IInv, ArchiveInv
<1>4. s.pc # "idle" => s.cursor \in Messages /\ UpStored(s.cursor) /\ (old # 0 => s.cursor = old)
  BY <1>2, <1>3 DEF PassInv
<1>5. s.cursor \in 0..LastMessage
  BY <1>1, <1>2, JobFields
<1>6. /\ StoreInv' /\ Grows /\ JobInv(job["history"])' /\ ArchiveInv'
      /\ \A k \in Jobs \ {"history"} : job'[k] = job[k]
  <2>1. CASE Select
    <3>1. PICK c \in Messages : Cursor(c) /\ Enter("history", At("selected", c))
      BY <2>1 DEF Select
    <3>2. c \in 0..LastMessage
      BY FeedAssumption DEF Messages
    <3>3. job'["history"] = At("selected", c) /\ \A k \in Jobs \ {"history"} : job'[k] = job[k]
      BY <1>1, <3>1, <3>2, AtType, EnterType
    <3>4. JobInv(job["history"])'
      BY <1>1, <3>3, AtInv
    <3>5. UNCHANGED postVars /\ oldestSeen' = old
      BY <1>2, <2>1 DEF Select, historyVars, archiveVars
    <3>6. StoreInv' /\ Grows
      BY <1>1, <3>5, Stutter
    <3>7. UpStored(c) /\ (old # 0 => c = old)
      BY <1>1, <1>2, <1>3, <3>1 DEF Cursor, Oldest, StoreInv
    <3>8. ArchiveInv'
      BY <1>3, <3>3, <3>5, <3>6, <3>7, PassAt
    <3>9. QED
      BY <3>3, <3>4, <3>6, <3>8
  <2>2. CASE TryAcquireLock /\ ~locked
    <3>1. Enter("history", At("fetch", s.cursor)) /\ s.pc = "selected"
      BY <1>2, <2>2 DEF TryAcquireLock
    <3>2. job'["history"] = At("fetch", s.cursor) /\ \A k \in Jobs \ {"history"} : job'[k] = job[k]
      BY <1>1, <1>5, <3>1, AtType, EnterType
    <3>3. JobInv(job["history"])'
      BY <1>1, <3>2, AtInv
    <3>4. UNCHANGED postVars /\ oldestSeen' = old
      BY <1>2, <2>2 DEF TryAcquireLock
    <3>5. StoreInv' /\ Grows
      BY <1>1, <3>4, Stutter
    <3>6. ArchiveInv'
      BY <1>3, <1>4, <3>1, <3>2, <3>4, <3>5, PassAt
    <3>7. QED
      BY <3>2, <3>3, <3>5, <3>6
  <2>3. CASE FetchOlder
    <3>1. PICK older, S : older = Older /\ S = Newest(older, BatchSize)
      OBVIOUS
    <3>2. /\ BatchSize \in Nat /\ Posted \subseteq Messages
          /\ s.pc = "fetch" /\ s.cursor \in Messages /\ s.cursor \in Int
      BY <1>1, <1>2, <1>4, <2>3, LimitAssumption, PostedType
         DEF FetchOlder, TypeInv, TypeOK, Messages
    <3>3. older = {m \in Posted : m < s.cursor} /\ older \subseteq Messages
      BY <1>2, <3>1, <3>2 DEF Older
    <3>4. S \in SUBSET Messages /\ S \subseteq older
      BY <3>1, <3>3 DEF Newest
    <3>5. Collect("history", S) /\ UNCHANGED postVars /\ oldestSeen' = old
      BY <1>2, <2>3, <3>1 DEF FetchOlder, historyVars, archiveVars
    <3>6. ASSUME NEW k \in S, NEW x \in older, k \leq x PROVE x \in S
      <4>1. k \in Int /\ x \in Int
        BY <3>3, <3>4 DEF Messages
      <4>2. CASE k = x
        BY <4>2
      <4>3. CASE k < x
        BY <3>1, <3>2, <3>3, <4>3, NewestIsUpward
      <4>4. QED
        BY <3>6, <4>1, <4>2, <4>3
    <3>7. ASSUME NEW m \in S, NEW k \in GroupOf(m), m \leq k PROVE k \in S \/ Stored(k)
      <4>1. m \in Posted /\ m < s.cursor /\ m \in Messages
        BY <3>3, <3>4
      <4>2. k \in Posted /\ k \in Int /\ m \in Int
        BY <1>1, <4>1, PostedUpward
      <4>3. CASE k < s.cursor
        BY <3>3, <3>6, <3>7, <4>2, <4>3
      <4>4. CASE s.cursor \leq k
        <5>1. m..k \subseteq GroupOf(m) /\ GroupOf(k) = GroupOf(m)
          BY <4>1, GroupFacts
        <5>2. s.cursor \in GroupOf(m)
          BY <3>2, <4>1, <4>2, <4>4, <5>1
        <5>3. GroupOf(s.cursor) = GroupOf(m)
          BY <4>1, <5>2, GroupFacts
        <5>4. QED
          BY <1>4, <3>2, <4>4, <5>3 DEF UpStored
      <4>5. QED
        BY <3>2, <4>2, <4>3, <4>4
    <3>15. \A p \in posts : Knows(p)
      BY LiveKnows DEF History
    <3>8. JobInv(job["history"])'
      BY <1>1, <3>3, <3>4, <3>5, <3>7, <3>15, CollectKeeps
    <3>9. /\ job'["history"] = State("ingest", s.cursor, S, Items(S), {}, NothingFound)
          /\ \A k \in Jobs \ {"history"} : job'[k] = job[k]
      BY <1>1, <1>2, <3>4, <3>5, CollectType
    <3>10. StoreInv' /\ Grows
      BY <1>1, <3>5, Stutter
    <3>11. \A k \in S : k < s.cursor /\ k..(s.cursor - 1) \subseteq S
      <4>1. ASSUME NEW k \in S, NEW x \in k..(s.cursor - 1) PROVE x \in S
        <5>1. k \in Int /\ 1 \leq k /\ x \in Int /\ k \leq x /\ x < s.cursor
          BY <3>2, <3>4 DEF Messages
        <5>2. x \in Posted
          <6>1. s.cursor \leq posted /\ posted \in Int
            BY <1>1, <1>4, <3>2, PostedType DEF TypeInv, TypeOK, UpStored, Posted
          <6>2. QED
            BY <3>2, <5>1, <6>1 DEF Posted
        <5>3. x \in older
          BY <3>3, <5>1, <5>2
        <5>4. QED
          BY <3>6, <5>1, <5>3
      <4>2. QED
        BY <3>3, <3>4, <4>1
    <3>12. \A m \in S : \E i \in Items(S) : m \in i
      BY <3>4, ItemsFacts
    <3>13. ArchiveInv'
      <4>1. /\ job'["history"].pc = "ingest" /\ job'["history"].cursor = s.cursor
            /\ job'["history"].batch = S /\ job'["history"].todo = Items(S)
        BY <3>9 DEF State
      <4>2. UpStored(s.cursor)' /\ (old # 0 => UpStored(old)')
        BY <1>3, <1>4, <3>2, <3>10, StoredOnly DEF Grows
      <4>3. QED
        BY <1>4, <3>2, <3>5, <3>11, <3>12, <4>1, <4>2 DEF ArchiveInv, PassInv, UpStored
    <3>14. QED
      BY <3>8, <3>9, <3>10, <3>13
  <2>4. CASE Ingest("history") /\ UNCHANGED historyVars
    <3>1. JobInv(job["history"])
      BY <1>1 DEF IInv, WritersInv
    <3>2. /\ StoreInv' /\ Grows /\ JobInv(job["history"])'
          /\ \A k \in Jobs \ {"history"} : job'[k] = job[k]
          /\ s.pc \in {"ingest", "write"} /\ job'["history"].pc \in {"ingest", "write"}
          /\ job'["history"].cursor = s.cursor /\ job'["history"].batch = s.batch
          /\ \A m : (\E i \in s.todo : m \in i)
                      => Stored(m)' \/ \E i \in job'["history"].todo : m \in i
      BY <1>1, <1>2, <2>4, <3>1, IngestKeeps
    <3>3. \A m \in s.batch : Stored(m)' \/ \E i \in job'["history"].todo : m \in i
      BY <1>3, <3>2 DEF PassInv, Grows
    <3>4. \A k \in s.batch : k < s.cursor /\ k..(s.cursor - 1) \subseteq s.batch
      BY <1>3, <3>2 DEF PassInv
    <3>5. oldestSeen' = old
      BY <1>2, <2>4 DEF historyVars, archiveVars
    <3>6. UpStored(s.cursor)' /\ (old # 0 => UpStored(old)')
      BY <1>3, <1>4, <3>2, StoredOnly DEF Grows
    <3>7. ArchiveInv'
      BY <1>4, <3>2, <3>3, <3>4, <3>5, <3>6 DEF ArchiveInv, PassInv, UpStored
    <3>8. QED
      BY <3>2, <3>7
  <2>5. CASE (TryAcquireLock /\ locked) \/ Exhaust \/ Defer \/ PassFails
    <3>1. Leave("history") /\ UNCHANGED postVars /\ oldestSeen' = old
      BY <1>2, <2>5 DEF TryAcquireLock, Exhaust, Defer, PassFails, historyVars, archiveVars
    <3>2. /\ StoreInv' /\ Grows /\ JobInv(job["history"])' /\ job'["history"] = Idle
          /\ \A k \in Jobs \ {"history"} : job'[k] = job[k]
      BY <1>1, <3>1, LeaveKeeps
    <3>3. ArchiveInv'
      BY <1>3, <3>1, <3>2, PassAt DEF Idle
    <3>4. QED
      BY <3>2, <3>3
  <2>6. CASE FetchFails \/ Release
    <3>1. Leave("history") /\ UNCHANGED postVars
      BY <2>6 DEF FetchFails, Release
    <3>2. /\ StoreInv' /\ Grows /\ JobInv(job["history"])' /\ job'["history"] = Idle
          /\ \A k \in Jobs \ {"history"} : job'[k] = job[k]
      BY <1>1, <3>1, LeaveKeeps
    <3>3. \E new : oldestSeen' = new /\ UpStored(new)
      <4>1. CASE FetchFails
        BY <1>2, <1>4, <4>1 DEF FetchFails
      <4>2. CASE Release
        BY <4>2, BatchStored DEF Release
      <4>3. QED
        BY <2>6, <4>1, <4>2
    <3>4. ArchiveInv'
      BY <3>2, <3>3, PassAt DEF Idle
    <3>5. QED
      BY <3>2, <3>4
  <2>7. QED
    BY <2>1, <2>2, <2>3, <2>4, <2>5, <2>6 DEF History, HistoryStep
<1>7. \A k \in Jobs : job'[k] = job[k] \/ JobInv(job[k])'
  <2>1. ASSUME NEW k \in Jobs, job'[k] # job[k] PROVE JobInv(job[k])'
    <3>1. k = "history"
      BY <1>6, <2>1
    <3>2. QED
      BY <1>6, <3>1
  <2>2. QED
    BY <2>1
<1>8. WritersInv'
  BY <1>1, <1>6, <1>7, WritersKeep DEF IInv
<1>9. QED
  BY <1>6, <1>8 DEF Grows

--------------------------------------------------------------------------------
(* The theorems *)

LEMMA CrashKeeps ==
  ASSUME IInv, Crash
  PROVE  StoreInv' /\ WritersInv' /\ ArchiveInv' /\ NewOnesKnow
<1>1. UNCHANGED postVars /\ Posted \subseteq Posted' /\ oldestSeen' = oldestSeen /\ events' = {}
  BY DEF Crash, historyVars, archiveVars, Posted
<1>2. StoreInv' /\ Grows
  BY <1>1, Stutter DEF IInv
<1>3. \A k \in Jobs : job'[k] = Idle
  BY DEF Crash
<1>4. \A k \in Jobs : JobInv(job[k])'
  BY <1>3, AtInv DEF Idle
<1>5. WritersInv'
  BY <1>1, <1>2, <1>4, WritersKeep DEF IInv
<1>6. PICK old : old = oldestSeen
  OBVIOUS
<1>7. oldestSeen' = old /\ (old # 0 => UpStored(old)) /\ job'["history"] = At("idle", 0)
  BY <1>1, <1>3, <1>6 DEF IInv, ArchiveInv, Idle, Jobs
<1>8. ArchiveInv'
  BY <1>2, <1>7, PassAt
<1>9. QED
  BY <1>2, <1>5, <1>8 DEF Grows

--------------------------------------------------------------------------------
(* Who is at work *)

\* A step of a part changes no job but its own.
LEMMA JoinMoves ==
  ASSUME TypeInv, JoinStep
  PROVE  /\ \A k \in Jobs \ {"join"} : job'[k] = job[k]
         /\ job["join"].pc # "idle"
         /\ sub' # sub => sub' = "active" /\ job'["join"] = Idle
<1>1. JobTypeOK /\ PostTypeOK /\ "join" \in Jobs
  BY DEF TypeInv, TypeOK, Jobs
<1>2. CASE JoinFetch
  <2>1. Newest(Posted, JoinLimit) \in SUBSET Messages
    BY PostedType DEF TypeInv, TypeOK, Newest
  <2>2. QED
    BY <1>1, <1>2, <2>1, CollectType DEF JoinFetch
<1>3. CASE Ingest("join") /\ UNCHANGED sub
  <2>1. job["join"].pc # "idle"
    BY <1>3 DEF Ingest, LookUp, Write
  <2>2. QED
    BY <1>1, <1>3, <2>1, IngestType
<1>4. CASE JoinDone
  BY <1>1, <1>4, EnterType, IdleType DEF JoinDone, Leave, Ingested
<1>5. CASE JoinFails
  <2>1. job["join"].pc # "idle"
    BY <1>5 DEF JoinFails, Raises
  <2>2. QED
    BY <1>1, <1>5, <2>1, EnterType, IdleType DEF JoinFails, Leave
<1>6. QED
  BY <1>2, <1>3, <1>4, <1>5 DEF JoinStep

LEMMA ToolMoves ==
  ASSUME TypeInv, RecoveryStep
  PROVE  /\ \A k \in Jobs \ {"recovery"} : job'[k] = job[k]
         /\ Recovery \/ job["recovery"].pc # "idle"
<1>1. JobTypeOK /\ PostTypeOK /\ "recovery" \in Jobs
  BY DEF TypeInv, TypeOK, Jobs
<1>2. CASE RecoveryStart
  <2>1. PICK m \in Posted : Collect("recovery", m..posted)
    BY <1>2 DEF RecoveryStart
  <2>2. m..posted \in SUBSET Messages
    BY PostedType, FeedAssumption DEF TypeInv, TypeOK, FeedTypeOK, Posted, Messages
  <2>3. QED
    BY <1>1, <1>2, <2>1, <2>2, CollectType DEF RecoveryStart
<1>3. CASE Ingest("recovery")
  <2>1. job["recovery"].pc # "idle"
    BY <1>3 DEF Ingest, LookUp, Write
  <2>2. QED
    BY <1>1, <1>3, <2>1, IngestType
<1>4. CASE RecoveryEnds
  <2>1. job["recovery"].pc # "idle"
    BY <1>4 DEF RecoveryEnds, Raises, Ingested
  <2>2. QED
    BY <1>1, <1>4, <2>1, EnterType, IdleType DEF RecoveryEnds, Leave
<1>5. QED
  BY <1>2, <1>3, <1>4 DEF RecoveryStep

LEMMA HistoryMoves ==
  ASSUME TypeInv, HistoryStep
  PROVE  /\ \A k \in Jobs \ {"history"} : job'[k] = job[k]
         /\ sub = "active" \/ job["history"].pc # "idle"
<1>1. JobTypeOK /\ PostTypeOK /\ "history" \in Jobs /\ job["history"].cursor \in 0..LastMessage
  BY JobFields DEF TypeInv, TypeOK, Jobs
<1>2. CASE Select
  <2>1. PICK c \in Messages : Enter("history", At("selected", c))
    BY <1>2 DEF Select
  <2>2. c \in 0..LastMessage
    BY FeedAssumption DEF Messages
  <2>3. QED
    BY <1>1, <1>2, <2>1, <2>2, AtType, EnterType DEF Select
<1>3. CASE FetchOlder
  <2>1. Newest(Older, BatchSize) \in SUBSET Messages
    BY PostedType DEF TypeInv, TypeOK, Newest, Older
  <2>2. QED
    BY <1>1, <1>3, <2>1, CollectType DEF FetchOlder
<1>4. CASE Ingest("history")
  <2>1. job["history"].pc # "idle"
    BY <1>4 DEF Ingest, LookUp, Write
  <2>2. QED
    BY <1>1, <1>4, <2>1, IngestType
<1>5. CASE TryAcquireLock /\ ~locked
  <2>1. Enter("history", At("fetch", job["history"].cursor)) /\ job["history"].pc = "selected"
    BY <1>5 DEF TryAcquireLock
  <2>2. QED
    BY <1>1, <2>1, AtType, EnterType
<1>6. CASE (TryAcquireLock /\ locked) \/ Exhaust \/ Defer \/ FetchFails \/ Release \/ PassFails
  <2>1. Leave("history") /\ job["history"].pc # "idle"
    BY <1>6 DEF TryAcquireLock, Exhaust, Defer, FetchFails, Release, PassFails, Ingested, Raises
  <2>2. QED
    BY <1>1, <2>1, EnterType, IdleType DEF Leave
<1>7. QED
  BY <1>2, <1>3, <1>4, <1>5, <1>6 DEF HistoryStep

\* The boot goes through its phases in order, and catches up in the first.
LEMMA BootMoves ==
  ASSUME TypeInv, PhaseInv, BootStep
  PROVE  /\ \A k \in Jobs \ {"catchup"} : job'[k] = job[k]
         /\ phase # "live"
         /\ phase' # "catchup" => job'["catchup"] = Idle
         /\ sub # "active" => job'["catchup"] = Idle
         /\ phase' # "live" => routed' = routed
<1>1. JobTypeOK /\ PostTypeOK /\ "catchup" \in Jobs
  BY DEF TypeInv, TypeOK, Jobs
<1>2. Idle.pc = "idle"
  BY DEF Idle, At, State
<1>3. job["catchup"].pc # "idle" => phase = "catchup" /\ sub = "active"
  BY <1>2 DEF PhaseInv
<1>4. CASE BeginBoot
  <2>1. CASE sub = "active"
    <3>1. PICK c \in 0..LastMessage : Enter("catchup", At("fetch", c))
      BY <1>4, <2>1 DEF BeginBoot
    <3>2. \A k \in Jobs \ {"catchup"} : job'[k] = job[k]
      BY <1>1, <3>1, AtType, EnterType
    <3>3. QED
      BY <1>4, <2>1, <3>2 DEF BeginBoot
  <2>2. CASE sub # "active"
    BY <1>4, <2>2 DEF BeginBoot, PhaseInv
  <2>3. QED
    BY <2>1, <2>2
<1>5. CASE FetchMissed
  <2>1. Newest({m \in Posted : m > job["catchup"].cursor}, CatchUpLimit) \in SUBSET Messages
    BY PostedType DEF TypeInv, TypeOK, Newest
  <2>2. \A k \in Jobs \ {"catchup"} : job'[k] = job[k]
    BY <1>1, <1>5, <2>1, CollectType DEF FetchMissed
  <2>3. QED
    BY <1>3, <1>5, <2>2 DEF FetchMissed
<1>6. CASE Ingest("catchup") /\ UNCHANGED <<reads, phase, routed>>
  <2>1. job["catchup"].pc # "idle"
    BY <1>6 DEF Ingest, LookUp, Write
  <2>2. QED
    BY <1>1, <1>3, <1>6, <2>1, IngestType
<1>7. CASE CaughtUp
  <2>1. job["catchup"].pc # "idle"
    BY <1>7 DEF CaughtUp, Ingested
  <2>2. QED
    BY <1>1, <1>3, <1>7, <2>1, EnterType, IdleType DEF CaughtUp, Leave
<1>8. CASE Heal \/ \E A \in Albums : MergeAlbum(A)
  BY <1>8 DEF Heal, MergeAlbum, PhaseInv
<1>9. CASE Subscribe
  BY <1>9 DEF Subscribe, PhaseInv
<1>10. CASE BootFails
  <2>1. phase # "live"
    BY <1>3, <1>10 DEF BootFails, Raises
  <2>2. QED
    BY <1>1, <1>10, <2>1, EnterType, IdleType DEF BootFails, Leave
<1>11. QED
  BY <1>4, <1>5, <1>6, <1>7, <1>8, <1>9, <1>10 DEF BootStep

LEMMA PhaseKeeps ==
  ASSUME TypeInv, PhaseInv, [Next]_vars
  PROVE  PhaseInv'
<1>1. Idle.pc = "idle" /\ {"join", "catchup", "history", "recovery"} = Jobs
  BY DEF Idle, At, State, Jobs
<1>2. CASE Reader \/ Clock \/ UNCHANGED vars
  BY <1>2 DEF Reader, ReadOn, Clock, LockExpires, vars, liveVars, historyVars, archiveVars, PhaseInv
<1>3. CASE Channel
  BY <1>3 DEF Channel, Dispatch, PhaseInv
<1>4. CASE Live
  <2>1. routed' = routed
    BY <1>4 DEF Live, LiveStep, HandlerLooksUp, HandlerWrites, HandlerFails
  <2>2. QED
    BY <1>4, <2>1 DEF Live, historyVars, PhaseInv
<1>5. CASE Join
  <2>1. /\ \A k \in Jobs \ {"join"} : job'[k] = job[k]
        /\ job["join"].pc # "idle"
        /\ sub' # sub => sub' = "active" /\ job'["join"] = Idle
    BY <1>5, JoinMoves DEF Join
  <2>2. phase = "live" /\ phase' = "live" /\ sub # "active"
    BY <1>1, <1>5, <2>1 DEF Join, PhaseInv
  <2>3. QED
    BY <1>1, <2>1, <2>2 DEF PhaseInv
<1>6. CASE History
  <2>1. /\ \A k \in Jobs \ {"history"} : job'[k] = job[k]
        /\ sub = "active"
    BY <1>1, <1>6, HistoryMoves DEF History, PhaseInv
  <2>2. phase = "live" /\ phase' = "live" /\ sub' = sub
    BY <1>6 DEF History
  <2>3. QED
    BY <1>1, <2>1, <2>2 DEF PhaseInv
<1>7. CASE Tool
  <2>1. \A k \in Jobs \ {"recovery"} : job'[k] = job[k]
    BY <1>7, ToolMoves DEF Tool
  <2>2. Recovery
    BY <1>1, <1>7, ToolMoves DEF Tool, PhaseInv
  <2>3. phase' = phase /\ sub' = sub /\ routed' = routed /\ events' = events
    BY <1>7 DEF Tool, liveVars, historyVars
  <2>4. QED
    BY <1>1, <2>1, <2>2, <2>3 DEF PhaseInv
<1>8. CASE Boot
  <2>1. /\ \A k \in Jobs \ {"catchup"} : job'[k] = job[k]
        /\ phase # "live"
        /\ phase' # "catchup" => job'["catchup"] = Idle
        /\ sub # "active" => job'["catchup"] = Idle
        /\ phase' # "live" => routed' = routed
    BY <1>8, BootMoves DEF Boot
  <2>2. sub' = sub /\ events' = events
    BY <1>8 DEF Boot
  <2>3. QED
    BY <1>1, <2>1, <2>2 DEF PhaseInv
<1>9. CASE Crash
  <2>1. \A k \in Jobs : job'[k] = Idle
    BY <1>9 DEF Crash
  <2>2. QED
    BY <1>1, <1>9, <2>1 DEF Crash, PhaseInv
<1>10. QED
  BY <1>2, <1>3, <1>4, <1>5, <1>6, <1>7, <1>8, <1>9 DEF Next

\* A post that does not know its album is one of those to merge.
LEMMA UnmergedIsLegacy ==
  ASSUME StoreInv, Unmerged
  PROVE  \E A \in Albums : Legacy(A) # {}
<1>1. PICK p \in posts : ~Knows(p)
  BY DEF Unmerged
<1>2. p.group = {} /\ GroupOf(p.head) # {} /\ p.head \in Messages
  BY <1>1 DEF StoreInv, Knows, PostTypeOK, Post
<1>3. GroupOf(p.head) \in Albums /\ p.head \in GroupOf(p.head)
  BY <1>2, GroupFacts
<1>4. QED
  BY <1>2, <1>3 DEF Legacy

\* The boot does not end, or begin to write, before they are merged.
LEMMA LegacyKeeps ==
  ASSUME IInv, [Next]_vars, NewOnesKnow
  PROVE  LegacyInv'
<1>1. SUFFICES ASSUME Unmerged' PROVE LegacyInv'
  BY DEF LegacyInv
<1>2. Unmerged
  BY <1>1 DEF Unmerged, NewOnesKnow, Knows
<1>3. /\ phase # "live" /\ sub = "active" /\ oldestSeen = 0
      /\ ~Recovery /\ "error" \notin Faults
      /\ job["catchup"].pc = "fetch" => \A p \in posts : p.head \leq job["catchup"].cursor
  BY <1>2 DEF IInv, LegacyInv
<1>4. TypeInv /\ PhaseInv /\ StoreInv /\ JobTypeOK /\ "catchup" \in Jobs
  BY DEF IInv, TypeInv, TypeOK, Jobs
<1>5. Idle.pc = "idle" /\ job["recovery"].pc = "idle"
  BY <1>3, <1>4 DEF Idle, At, State, PhaseInv
<1>6. ~(Live \/ Join \/ History \/ Tool)
  BY <1>3, <1>4, <1>5, ToolMoves DEF Live, Join, History, Tool
<1>7. CASE Channel \/ Reader \/ Clock \/ UNCHANGED vars
  <2>1. posts' = posts /\ job' = job /\ phase' = phase /\ sub' = sub /\ oldestSeen' = oldestSeen
    BY <1>7 DEF Channel, Dispatch, Reader, ReadOn, Clock, LockExpires, vars, postVars, liveVars,
                historyVars, archiveVars
  <2>2. QED
    BY <1>3, <2>1 DEF LegacyInv
<1>8. CASE Crash
  <2>1. job'["catchup"] = Idle
    BY <1>8 DEF Crash, Jobs
  <2>2. QED
    BY <1>3, <1>5, <1>8, <2>1 DEF Crash, historyVars, archiveVars, LegacyInv
<1>9. CASE Boot
  <2>1. sub' = sub /\ oldestSeen' = oldestSeen /\ BootStep
    BY <1>9 DEF Boot, archiveVars
  <2>2. CASE BeginBoot
    <3>1. PICK c \in 0..LastMessage : MaxKnown(c) /\ Enter("catchup", At("fetch", c))
      BY <1>3, <2>2 DEF BeginBoot
    <3>2. job'["catchup"] = At("fetch", c)
      BY <1>4, <3>1, AtType, EnterType
    <3>3. job'["catchup"].cursor = c
      BY <3>2 DEF At, State
    <3>4. \A p \in posts : p.head \leq c
      BY <3>1 DEF MaxKnown
    <3>5. posts' = posts /\ phase' = "catchup"
      BY <1>3, <2>2 DEF BeginBoot, postVars
    <3>6. QED
      BY <1>3, <2>1, <3>3, <3>4, <3>5 DEF LegacyInv
  <2>3. CASE FetchMissed \/ (Ingest("catchup") /\ UNCHANGED <<reads, phase, routed>>)
    <3>1. job'["catchup"].pc # "fetch"
      <4>1. CASE FetchMissed
        <5>1. Newest({m \in Posted : m > job["catchup"].cursor}, CatchUpLimit) \in SUBSET Messages
          BY <1>4, PostedType DEF TypeInv, TypeOK, Newest
        <5>2. PICK S \in SUBSET Messages : Collect("catchup", S)
          BY <4>1, <5>1 DEF FetchMissed
        <5>3. job'["catchup"] = State("ingest", job["catchup"].cursor, S, Items(S), {}, NothingFound)
          BY <1>4, <5>2, CollectType
        <5>4. job'["catchup"].pc = "ingest"
          BY <5>3 DEF State
        <5>5. QED
          BY <5>4
      <4>2. CASE Ingest("catchup")
        <5>1. JobInv(job["catchup"]) /\ Posted \subseteq Posted'
          BY <1>4, <1>9 DEF IInv, WritersInv, Boot, Posted
        <5>2. QED
          BY <1>4, <4>2, <5>1, IngestKeeps
      <4>3. QED
        BY <2>3, <4>1, <4>2
    <3>2. phase' = phase
      BY <2>3 DEF FetchMissed
    <3>3. QED
      BY <1>3, <2>1, <3>1, <3>2 DEF LegacyInv
  <2>4. CASE CaughtUp \/ Heal \/ (\E A \in Albums : MergeAlbum(A)) \/ BootFails
    <3>1. phase' \notin {"live", "catchup"}
      BY <2>4 DEF CaughtUp, Heal, MergeAlbum, BootFails
    <3>2. job'["catchup"] = Idle
      BY <1>4, <2>1, <3>1, BootMoves
    <3>3. QED
      BY <1>3, <1>5, <2>1, <3>1, <3>2 DEF LegacyInv
  <2>5. ~Subscribe
    BY <1>2, <1>3, <1>4, UnmergedIsLegacy DEF Subscribe, HasLegacy
  <2>6. QED
    BY <2>1, <2>2, <2>3, <2>4, <2>5 DEF BootStep
<1>10. QED
  BY <1>6, <1>7, <1>8, <1>9 DEF Next

LEMMA NextKeeps == IInv /\ [Next]_vars => IInv'
<1> SUFFICES ASSUME IInv, [Next]_vars PROVE IInv'
  OBVIOUS
<1>1. TypeInv' /\ PhaseInv'
  BY NextType, PhaseKeeps DEF IInv
<1>2. ASSUME Reader \/ Clock \/ UNCHANGED vars
      PROVE  StoreInv' /\ WritersInv' /\ ArchiveInv' /\ NewOnesKnow
  <2>1. /\ UNCHANGED postVars /\ job' = job /\ events' = events /\ oldestSeen' = oldestSeen
        /\ Posted' = Posted
    BY <1>2 DEF Reader, ReadOn, Clock, LockExpires, vars, liveVars, postVars, historyVars,
                archiveVars, Posted
  <2>2. StoreInv' /\ Grows
    BY <2>1, Stutter DEF IInv
  <2>3. QED
    BY <2>1, <2>2, BesidesKeeps
<1>3. StoreInv' /\ WritersInv' /\ ArchiveInv' /\ NewOnesKnow
  <2>1. CASE Channel
    BY <2>1, ChannelKeeps
  <2>2. CASE Live
    BY <2>2, LiveKeeps
  <2>3. CASE Join
    BY <2>3, JoinKeeps
  <2>4. CASE History
    BY <2>4, HistoryKeeps
  <2>5. CASE Tool
    BY <2>5, ToolKeeps
  <2>6. CASE Boot
    BY <2>6, BootKeeps
  <2>7. CASE Crash
    BY <2>7, CrashKeeps
  <2>8. QED
    BY <1>2, <2>1, <2>2, <2>3, <2>4, <2>5, <2>6, <2>7 DEF Next
<1>4. LegacyInv'
  BY <1>3, LegacyKeeps
<1>5. QED
  BY <1>1, <1>3, <1>4 DEF IInv

\* Only a pass that ends moves the archive cursor.
LEMMA CursorMoves ==
  ASSUME [Next]_vars, oldestSeen' # oldestSeen
  PROVE  FetchFails \/ Release
<1>1. ~(Channel \/ Live \/ Join \/ Tool \/ Boot \/ Reader \/ Clock \/ Crash \/ UNCHANGED vars)
  BY DEF Channel, Live, Join, Tool, Boot, Reader, ReadOn, Clock, LockExpires, Crash, vars,
         historyVars, archiveVars
<1>2. HistoryStep
  BY <1>1 DEF Next, History
<1>3. QED
  BY <1>2 DEF HistoryStep, Select, TryAcquireLock, FetchOlder, Exhaust, Defer, PassFails,
              historyVars, archiveVars

LEMMA AdvanceStep ==
  ASSUME IInv, [Next]_vars, oldestSeen' # oldestSeen,
         NEW from, from = IF oldestSeen = 0 THEN job["history"].cursor ELSE oldestSeen
  PROVE  oldestSeen' \leq from /\ \A m \in oldestSeen'..(from - 1) : Stored(m)
<1>1. PassInv(job["history"])
  BY DEF IInv, ArchiveInv
<1>2. CASE FetchFails
  <2>1. oldestSeen' = job["history"].cursor /\ job["history"].pc = "fetch"
    BY <1>2 DEF FetchFails
  <2>2. job["history"].cursor \in Messages /\ (oldestSeen # 0 => job["history"].cursor = oldestSeen)
    BY <1>1, <2>1 DEF PassInv
  <2>3. from = oldestSeen' /\ from \in Int
    BY <2>1, <2>2 DEF Messages
  <2>4. QED
    BY <2>3
<1>3. CASE Release
  <2>1. PICK m \in job["history"].batch : Oldest(m, job["history"].batch) /\ oldestSeen' = m
    BY <1>3 DEF Release
  <2>2. Ingested("history") /\ job["history"].pc # "idle"
    BY <1>3 DEF Release, Ingested
  <2>3. /\ m \in Messages /\ job["history"].cursor \in Messages /\ m < job["history"].cursor
        /\ \A x \in m..(job["history"].cursor - 1) : Stored(x)
    BY <2>1, <2>2, BatchStored
  <2>4. from = job["history"].cursor
    BY <1>1, <2>2 DEF PassInv
  <2>5. QED
    BY <2>1, <2>3, <2>4 DEF Messages
<1>4. QED
  BY <1>2, <1>3, CursorMoves

\* However the five writers interleave, fail, crash and divide an album, each
\* message has one media row, in one post, and each album one post.
THEOREM OnceAndForAll == LegacyInOrder => (Spec => []EachMessageOnce)
<1> SUFFICES ASSUME LegacyInOrder PROVE Spec => []EachMessageOnce
  OBVIOUS
<1>1. Init => IInv
  BY Opening
<1>2. IInv => EachMessageOnce
  BY StoredOnce DEF IInv, StoreInv, EachMessageOnce
<1>3. QED
  BY <1>1, <1>2, NextKeeps, PTL DEF Spec

\* The archive cursor never moves over a message that is not stored, whatever
\* fails between the fetch and the release.
THEOREM ArchiveAdvances == LegacyInOrder => (Spec => AdvancesOverStored)
<1> SUFFICES ASSUME LegacyInOrder PROVE Spec => AdvancesOverStored
  OBVIOUS
<1>1. Init => IInv
  BY Opening
<1>2. IInv /\ [Next]_vars =>
        [oldestSeen' # oldestSeen =>
           LET from == IF oldestSeen = 0 THEN job["history"].cursor ELSE oldestSeen
           IN  /\ oldestSeen' \leq from
               /\ \A m \in oldestSeen'..(from - 1) : Stored(m)]_vars
  BY AdvanceStep
<1>3. QED
  BY <1>1, <1>2, NextKeeps, PTL DEF Spec, AdvancesOverStored

--------------------------------------------------------------------------------
(* What a step does to the rows *)

\* The same row but for its picture.
Alike(t, r) == t.post = r.post /\ t.file = r.file /\ t.position = r.position

\* W is rows, with some pictures stored.
Repainted(rows, W) ==
  /\ \A t \in W : \E r \in rows : Alike(t, r)
  /\ \A r \in rows : \E t \in W : Alike(t, r) /\ (r.photo # 0 => t.photo # 0)

\* The rows an upsert adds, to the post it has found or to one nobody else has.
Adds(item, seen, p, files, from) ==
  \/ /\ seen.found /\ p = seen.post /\ files = item \ seen.files /\ from = seen.next
     /\ files \cap Files(p) = {}
  \/ Free(p)

LEMMA AlikeRows ==
  ASSUME NEW rows
  PROVE  Repainted(rows, rows)
BY DEF Repainted, Alike

LEMMA PaintRows ==
  ASSUME NEW rows \in SUBSET MediaRow, NEW p, NEW got
  PROVE  Repainted(rows, WithPhotos(rows, p, got))
<1> DEFINE F(r) == IF r.post = p /\ r.file \in got THEN [r EXCEPT !.photo = r.file] ELSE r
<1>1. WithPhotos(rows, p, got) = {F(r) : r \in rows}
  BY DEF WithPhotos
<1>2. ASSUME NEW r \in rows
      PROVE  Alike(F(r), r) /\ (r.photo # 0 => F(r).photo # 0)
  <2>1. r \in MediaRow /\ r.file # 0
    BY DEF MediaRow, Messages
  <2>2. QED
    BY <2>1 DEF MediaRow, Alike
<1> HIDE DEF F
<1>3. QED
  BY <1>1, <1>2 DEF Repainted

LEMMA HealRows ==
  ASSUME PostTypeOK, Heal
  PROVE  Repainted(media, media')
<1>1. PICK got \in SUBSET Newest(Posted, HealLimit) :
        media' = {IF r.photo = 0 /\ r.post \in got /\ sub = "active"
                  THEN [r EXCEPT !.photo = r.post] ELSE r : r \in media}
  BY DEF Heal
<1> DEFINE F(r) == IF r.photo = 0 /\ r.post \in got /\ sub = "active"
                   THEN [r EXCEPT !.photo = r.post] ELSE r
<1>2. media' = {F(r) : r \in media}
  BY <1>1
<1>3. ASSUME NEW r \in media
      PROVE  Alike(F(r), r) /\ (r.photo # 0 => F(r).photo # 0)
  <2>1. r \in MediaRow
    BY DEF PostTypeOK
  <2>2. QED
    BY <2>1 DEF MediaRow, Alike
<1> HIDE DEF F
<1>4. QED
  BY <1>2, <1>3 DEF Repainted

LEMMA UpsertRows ==
  ASSUME StoreInv, NEW item, NEW seen \in {NothingFound} \cup Found, ItemInv(item),
         Upsert(item, seen)
  PROVE  \E p \in Messages, files \in SUBSET Messages, from \in Nat :
           \/ media' = media
           \/ Adds(item, seen, p, files, from)
              /\ Repainted(media \cup NewRows(p, files, from), media')
<1>1. item \subseteq Messages /\ media \subseteq MediaRow
  BY DEF ItemInv, Together, StoreInv, PostTypeOK
<1>2. CASE AppendMedia(item, seen)
  <2>1. seen.post \in Messages /\ seen.next \in Nat /\ item \ seen.files \in SUBSET Messages
    <3>1. seen \in Found
      BY <1>2 DEF AppendMedia, NothingFound
    <3>2. QED
      BY <1>1, <3>1 DEF Found
  <2>2. Adds(item, seen, seen.post, item \ seen.files, seen.next)
    BY <1>2 DEF Adds, AppendMedia
  <2>3. PICK rows : rows = media \cup NewRows(seen.post, item \ seen.files, seen.next)
    OBVIOUS
  <2>4. rows \in SUBSET MediaRow
    BY <1>1, <2>1, <2>3, NewRowsFacts
  <2>5. PICK got : media' = WithPhotos(rows, seen.post, got)
    BY <1>2, <2>3 DEF AppendMedia
  <2>6. Repainted(rows, media')
    BY <2>4, <2>5, PaintRows
  <2>7. QED
    BY <2>1, <2>2, <2>3, <2>6
<1>3. CASE InsertPost(item, seen)
  <2>1. PICK h \in item :
          Free(h) /\ \E got \in Downloads(item) : media' = WithPhotos(media \cup NewRows(h, item, 0), h, got)
    BY <1>3 DEF InsertPost
  <2>2. h \in Messages /\ item \in SUBSET Messages /\ 0 \in Nat
    BY <1>1
  <2>3. PICK rows : rows = media \cup NewRows(h, item, 0)
    OBVIOUS
  <2>4. rows \in SUBSET MediaRow
    BY <1>1, <2>2, <2>3, NewRowsFacts
  <2>5. PICK got : media' = WithPhotos(rows, h, got)
    BY <2>1, <2>3
  <2>6. Repainted(rows, media')
    BY <2>4, <2>5, PaintRows
  <2>7. Adds(item, seen, h, item, 0)
    BY <2>1 DEF Adds
  <2>8. QED
    BY <2>2, <2>3, <2>6, <2>7
<1>4. CASE SkipDuplicate(item, seen)
  <2>1. media' = media
    BY <1>4 DEF SkipDuplicate, postVars
  <2>2. 1 \in Int /\ LastMessage \in Nat
    BY FeedAssumption
  <2>3. \E p \in Messages : TRUE
    <3>1. \E m \in item : m \in item
      BY <1>4 DEF SkipDuplicate
    <3>2. QED
      BY <1>1, <3>1
  <2>4. {} \in SUBSET Messages /\ 0 \in Nat
    OBVIOUS
  <2>5. QED
    BY <2>1, <2>3, <2>4
<1>5. QED
  BY <1>2, <1>3, <1>4 DEF Upsert

--------------------------------------------------------------------------------
(* Who writes *)

\* Some copy of the loop, or a handler, that has its answer writes its item.
Writes ==
  \/ \E j \in Jobs : job[j].pc = "write" /\ Upsert(job[j].item, job[j].seen)
  \/ \E e \in events : e.pc = "write" /\ Upsert(e.item, e.seen)

\* What a writer knows when its write is due.
LEMMA WriterFacts ==
  ASSUME IInv
  PROVE  /\ \A j \in Jobs : job[j].pc = "write" =>
              /\ job[j].seen \in {NothingFound} \cup Found
              /\ ItemInv(job[j].item) /\ SeenInv(job[j].item, job[j].seen)
         /\ \A e \in events : e.pc = "write" =>
              /\ e.seen \in {NothingFound} \cup Found
              /\ ItemInv(e.item) /\ SeenInv(e.item, e.seen)
<1>1. ASSUME NEW j \in Jobs, job[j].pc = "write"
      PROVE  /\ job[j].seen \in {NothingFound} \cup Found
             /\ ItemInv(job[j].item) /\ SeenInv(job[j].item, job[j].seen)
  <2>1. JobInv(job[j]) /\ JobTypeOK
    BY DEF IInv, WritersInv, TypeInv, TypeOK
  <2>2. QED
    BY <1>1, <2>1, JobFields DEF JobInv
<1>2. ASSUME NEW e \in events, e.pc = "write"
      PROVE  /\ e.seen \in {NothingFound} \cup Found
             /\ ItemInv(e.item) /\ SeenInv(e.item, e.seen)
  <2>1. EventInv(e) /\ e \in EventState
    BY DEF IInv, WritersInv, TypeInv, TypeOK, LiveTypeOK
  <2>2. QED
    BY <1>2, <2>1 DEF EventInv, EventState
<1>3. QED
  BY <1>1, <1>2

\* Nothing but a write, the repair of pictures and the merge touches the rows.
LEMMA WhoWrites ==
  ASSUME IInv, [Next]_vars
  PROVE  media' = media \/ Heal \/ Writes \/ (Boot /\ \E A \in Albums : MergeAlbum(A))
<1>1. ASSUME NEW j \in Jobs, Ingest(j) PROVE media' = media \/ Writes
  BY <1>1 DEF Ingest, LookUp, Write, postVars, Writes
<1>2. CASE Live
  BY <1>2 DEF Live, LiveStep, HandlerLooksUp, HandlerWrites, HandlerFails, postVars, Writes
<1>3. CASE Join
  BY <1>1, <1>3 DEF Join, JoinStep, JoinFetch, JoinDone, JoinFails, postVars, Jobs
<1>4. CASE History
  BY <1>1, <1>4
     DEF History, HistoryStep, Select, TryAcquireLock, FetchOlder, Exhaust, Defer, FetchFails,
         Release, PassFails, postVars, Jobs
<1>5. CASE Tool
  BY <1>1, <1>5 DEF Tool, RecoveryStep, RecoveryStart, RecoveryEnds, postVars, Jobs
<1>6. CASE Boot
  BY <1>1, <1>6
     DEF Boot, BootStep, BeginBoot, FetchMissed, CaughtUp, Subscribe, BootFails, postVars, Jobs
<1>7. CASE Channel \/ Reader \/ Clock \/ Crash \/ UNCHANGED vars
  BY <1>7 DEF Channel, Dispatch, Reader, ReadOn, Clock, LockExpires, Crash, vars, postVars
<1>8. QED
  BY <1>2, <1>3, <1>4, <1>5, <1>6, <1>7 DEF Next

\* Places in a post are distinct.
Distinct(rows) == \A r, t \in rows : r.post = t.post /\ r.position = t.position => r = t

\* Messages of a set have different ranks in it.
LEMMA RanksDiffer ==
  ASSUME NEW S \in SUBSET Messages, NEW f \in S, NEW g \in S, f < g
  PROVE  Rank(f, S) # Rank(g, S)
<1> DEFINE Below(x) == {k \in S : k < x}
<1>1. Below(f) \in SUBSET Messages /\ Below(g) \in SUBSET Messages
  OBVIOUS
<1>2. f \in Int /\ g \in Int /\ \A k \in S : k \in Int
  BY DEF Messages
<1>3. Below(f) \in SUBSET Below(g)
  <2>1. \A k \in S : k < f => k < g
    BY <1>2
  <2>2. QED
    BY <2>1
<1>4. f \in Below(g) /\ f \notin Below(f)
  BY <1>2
<1>5. IsFiniteSet(Below(g))
  BY <1>1, MessagesFinite
<1>6. Cardinality(Below(f)) # Cardinality(Below(g))
  BY <1>3, <1>4, <1>5, FS_Subset
<1>7. QED
  BY <1>6 DEF Rank

\* The row r of a legacy post that is moved to p.
Shifted(A, p, n, r) == [r EXCEPT !.post = p.head, !.position = n + Place(A, p, r)]

\* The merge leaves every row but those of the posts it deletes, whose only
\* files it moves, pictures and all, to places of their own.
LEMMA MergeRows ==
  ASSUME StoreInv, NEW A \in Albums, MergeAlbum(A)
  PROVE  /\ \A r \in media : \E t \in media' : t.file = r.file /\ (r.photo # 0 => t.photo # 0)
         /\ Distinct(media) => Distinct(media')
<1>1. PICK p \in Legacy(A) :
        \E n \in NextPositions(p.head) :
          media' = {r \in media : \A q \in Deleted(A, p) : r.post # q.head} \cup Moved(A, p, n)
  BY DEF MergeAlbum
<1>2. PICK n \in NextPositions(p.head) :
        media' = {r \in media : \A q \in Deleted(A, p) : r.post # q.head} \cup Moved(A, p, n)
  BY <1>1
<1>3. PICK Kept : Kept = {r \in media : \A q \in Deleted(A, p) : r.post # q.head}
  OBVIOUS
<1>4. media \subseteq MediaRow /\ posts \subseteq Post
  BY DEF StoreInv, PostTypeOK
<1>5. n \in Nat /\ \A r \in Rows(p.head) : r.position < n
  BY <1>2, <1>4 DEF NextPositions, Rows, MediaRow
<1>6. \A q \in Legacy(A) : q \in posts /\ q.group = {}
  BY DEF Legacy
<1>7. ASSUME NEW q \in Legacy(A), NEW r \in media, r.post = q.head PROVE r.file = q.head
  <2>1. PICK x \in posts : x.head = r.post /\ r.file \in x.group \cup {x.head}
    BY DEF StoreInv
  <2>2. x = q
    BY <1>6, <1>7, <2>1 DEF StoreInv
  <2>3. QED
    BY <1>6, <2>1, <2>2
<1>8. \A r \in Moving(A, p) : r \in media /\ r \in MediaRow /\ r.file = r.post
  BY <1>4, <1>7 DEF Moving
<1>9. ASSUME NEW r \in Moving(A, p)
      PROVE  /\ Shifted(A, p, n, r).post = p.head /\ Shifted(A, p, n, r).file = r.file
             /\ Shifted(A, p, n, r).position = n + Place(A, p, r)
             /\ Shifted(A, p, n, r).photo = r.photo
  BY <1>8 DEF Shifted, MediaRow
<1>10. Moved(A, p, n) = {Shifted(A, p, n, r) : r \in Moving(A, p)}
  BY DEF Moved, Shifted
<1>11. media' = Kept \cup {Shifted(A, p, n, r) : r \in Moving(A, p)}
  BY <1>2, <1>3, <1>10
<1>12. ASSUME NEW r \in media
       PROVE  \E t \in media' : t.file = r.file /\ (r.photo # 0 => t.photo # 0)
  <2>1. CASE r \in Kept
    BY <1>11, <2>1
  <2>2. CASE r \notin Kept
    <3>1. PICK q \in Legacy(A) \ {p} : r.post = q.head
      BY <1>3, <2>2 DEF Deleted
    <3>2. r.file = q.head /\ q.head # p.head
      BY <1>6, <1>7, <3>1 DEF StoreInv
    <3>3. r.file \notin Files(p.head)
      BY <1>7, <3>2 DEF Files, Rows
    <3>4. r \in Moving(A, p)
      BY <3>1, <3>3 DEF Moving
    <3>5. QED
      BY <1>9, <1>11, <3>4
  <2>3. QED
    BY <2>1, <2>2
<1>13. PICK F : F = {t.file : t \in Moving(A, p)}
  OBVIOUS
<1>14. F \in SUBSET Messages /\ \A r \in Moving(A, p) : r.file \in F /\ Place(A, p, r) = Rank(r.file, F)
  BY <1>8, <1>13 DEF Place, MediaRow
<1>15. \A f \in F : Rank(f, F) \in Nat
  <2>1. \A f \in F : {k \in F : k < f} \in SUBSET Messages
    BY <1>14
  <2>2. QED
    BY <2>1, MessagesFinite DEF Rank
<1>16. ASSUME NEW r \in Moving(A, p), NEW s \in Moving(A, p), Place(A, p, r) = Place(A, p, s)
       PROVE  r = s
  <2>1. ~(r.file < s.file) /\ ~(s.file < r.file)
    BY <1>14, <1>16, RanksDiffer
  <2>5. r.file \in Messages /\ s.file \in Messages
    BY <1>14
  <2>2. r.file = s.file
    BY <2>1, <2>5 DEF Messages
  <2>3. r \in media /\ s \in media /\ r.post = s.post
    BY <1>8, <2>2
  <2>4. QED
    BY <2>2, <2>3 DEF StoreInv, RowsUnique
<1>17. ASSUME NEW t \in Kept, NEW r \in Moving(A, p),
              t.post = p.head, t.position = n + Place(A, p, r)
       PROVE  FALSE
  <2>1. t \in Rows(p.head) /\ t.position \in Nat
    BY <1>3, <1>4, <1>17 DEF Rows, MediaRow
  <2>2. t.position < n /\ Place(A, p, r) \in Nat
    BY <1>5, <1>14, <1>15, <2>1
  <2>3. QED
    BY <1>5, <1>17, <2>1, <2>2
<1>18. ASSUME Distinct(media) PROVE Distinct(media')
  <2>1. ASSUME NEW t \in media', NEW u \in media', t.post = u.post, t.position = u.position
        PROVE  t = u
    <3>1. CASE t \in Kept /\ u \in Kept
      BY <1>3, <1>18, <2>1, <3>1 DEF Distinct
    <3>2. CASE t \notin Kept /\ u \notin Kept
      <4>1. PICK r \in Moving(A, p), s \in Moving(A, p) :
              t = Shifted(A, p, n, r) /\ u = Shifted(A, p, n, s)
        BY <1>11, <3>2
      <4>2. n + Place(A, p, r) = n + Place(A, p, s)
        BY <1>9, <2>1, <4>1
      <4>3. Place(A, p, r) = Place(A, p, s)
        BY <1>5, <1>14, <1>15, <4>2
      <4>4. QED
        BY <1>16, <4>1, <4>3
    <3>3. CASE t \in Kept /\ u \notin Kept
      <4>1. PICK s \in Moving(A, p) : u = Shifted(A, p, n, s)
        BY <1>11, <3>3
      <4>2. QED
        BY <1>9, <1>17, <2>1, <3>3, <4>1
    <3>4. CASE t \notin Kept /\ u \in Kept
      <4>1. PICK r \in Moving(A, p) : t = Shifted(A, p, n, r)
        BY <1>11, <3>4
      <4>2. QED
        BY <1>9, <1>17, <2>1, <3>4, <4>1
    <3>5. QED
      BY <3>1, <3>2, <3>3, <3>4
  <2>2. QED
    BY <2>1 DEF Distinct
<1>19. QED
  BY <1>12, <1>18

\* So every file keeps a row, and a row never loses its picture.
LEMMA RowsStay ==
  ASSUME IInv, [Next]_vars
  PROVE  \A r \in media : \E t \in media' : t.file = r.file /\ (r.photo # 0 => t.photo # 0)
<1>1. CASE media' = media
  BY <1>1
<1>2. CASE Heal
  BY <1>2, HealRows DEF Repainted, Alike, IInv, StoreInv
<1>3. ASSUME NEW item, NEW seen \in {NothingFound} \cup Found, ItemInv(item),
             Upsert(item, seen)
      PROVE  \A r \in media : \E t \in media' : t.file = r.file /\ (r.photo # 0 => t.photo # 0)
  <2>1. PICK p \in Messages, files \in SUBSET Messages, from \in Nat :
          media' = media \/ Repainted(media \cup NewRows(p, files, from), media')
    BY <1>3, UpsertRows DEF IInv
  <2>2. QED
    BY <1>1, <2>1 DEF Repainted, Alike
<1>4. CASE Writes
  BY <1>3, <1>4, WriterFacts DEF Writes
<1>5. CASE \E A \in Albums : MergeAlbum(A)
  BY <1>5, MergeRows DEF IInv
<1>6. QED
  BY <1>1, <1>2, <1>4, <1>5, WhoWrites

(* What is stored stays stored, and a picture once downloaded stays with it, *)
(* whatever the five writers, the repairs and crashes do.                    *)
THEOREM StoredIsKept == LegacyInOrder => (Spec => NothingForgotten)
<1> SUFFICES ASSUME LegacyInOrder PROVE Spec => NothingForgotten
  OBVIOUS
<1>1. Init => IInv
  BY Opening
<1>2. IInv /\ [Next]_vars =>
        [\A r \in media : \E t \in media' : t.file = r.file /\ (r.photo # 0 => t.photo # 0)]_vars
  BY RowsStay
<1>3. QED
  BY <1>1, <1>2, NextKeeps, PTL DEF Spec, NothingForgotten

--------------------------------------------------------------------------------
(* Places *)

\* An answer goes out of date only when the index on (post_id, tg_file_id) is
\* going to refuse the write: either all places are still below it, or one of
\* the files to append is there by now, or there is none to append.
PlaceInv(item, seen) ==
  seen.found =>
    /\ seen.files \subseteq Files(seen.post)
    /\ \/ \A r \in Rows(seen.post) : r.position < seen.next
       \/ (item \ seen.files) \cap Files(seen.post) # {}
       \/ item \subseteq seen.files

\* New rows have places of their own, counted from a number up.
LEMMA NewPlaces ==
  ASSUME NEW p \in Messages, NEW files \in SUBSET Messages, NEW from \in Nat
  PROVE  /\ Distinct(NewRows(p, files, from))
         /\ \A r \in NewRows(p, files, from) : r.post = p /\ r.file \in files /\ from \leq r.position
<1>1. \A f \in files : Rank(f, files) \in Nat
  <2>1. \A f \in files : {k \in files : k < f} \in SUBSET Messages
    OBVIOUS
  <2>2. QED
    BY <2>1, MessagesFinite DEF Rank
<1> DEFINE New(f) == [post |-> p, file |-> f, position |-> from + Rank(f, files), photo |-> 0]
<1>2. NewRows(p, files, from) = {New(f) : f \in files}
  BY DEF NewRows
<1>3. \A f \in files :
        New(f).post = p /\ New(f).file = f /\ New(f).position = from + Rank(f, files)
  OBVIOUS
<1>4. ASSUME NEW f \in files, NEW g \in files, from + Rank(f, files) = from + Rank(g, files)
      PROVE  f = g
  <2>1. Rank(f, files) = Rank(g, files)
    BY <1>1, <1>4
  <2>2. ~(f < g) /\ ~(g < f)
    BY <2>1, RanksDiffer
  <2>3. f \in Int /\ g \in Int
    BY DEF Messages
  <2>4. QED
    BY <2>2, <2>3
<1>5. \A f \in files : from \leq from + Rank(f, files)
  BY <1>1
<1> HIDE DEF New
<1>6. ASSUME NEW r \in NewRows(p, files, from), NEW t \in NewRows(p, files, from),
             r.position = t.position
      PROVE  r = t
  BY <1>2, <1>3, <1>4, <1>6
<1>7. QED
  BY <1>2, <1>3, <1>5, <1>6 DEF Distinct

\* A message that is no post's head has no rows.
LEMMA FreeIsEmpty ==
  ASSUME StoreInv, NEW p, Free(p)
  PROVE  Rows(p) = {}
BY DEF StoreInv, Free, Rows

LEMMA PaintedPlaces ==
  ASSUME NEW rows, NEW W, Repainted(rows, W), Distinct(rows), RowsUnique(W)
  PROVE  Distinct(W)
<1>1. ASSUME NEW t \in W, NEW u \in W, t.post = u.post, t.position = u.position PROVE t = u
  <2>1. PICK r \in rows : Alike(t, r)
    BY DEF Repainted
  <2>2. PICK q \in rows : Alike(u, q)
    BY DEF Repainted
  <2>3. r = q
    BY <1>1, <2>1, <2>2 DEF Alike, Distinct
  <2>4. t.file = u.file
    BY <2>1, <2>2, <2>3 DEF Alike
  <2>5. QED
    BY <1>1, <2>4 DEF RowsUnique
<1>2. QED
  BY <1>1 DEF Distinct

\* An album's message that its post lacks is not stored at all.
LEMMA LackedIsMissing ==
  ASSUME StoreInv, NEW p \in posts, NEW m \in p.group, m \notin Files(p.head)
  PROVE  ~Stored(m)
<1> SUFFICES ASSUME NEW r \in media, r.file = m PROVE FALSE
  BY DEF Stored
<1>1. PICK q \in posts : q.head = r.post /\ m \in q.group \cup {q.head}
  BY DEF StoreInv
<1>2. p.head \in Messages /\ q.head \in Messages /\ p.group = GroupOf(p.head)
  BY DEF StoreInv, PostTypeOK, Post, Knows
<1>3. GroupOf(m) = p.group /\ p.group # {}
  BY <1>2, GroupFacts
<1>4. q.group # {}
  BY <1>1, <1>3 DEF StoreInv
<1>5. q.group = GroupOf(q.head) /\ GroupOf(m) = q.group
  <2>1. q.group = GroupOf(q.head)
    BY <1>4 DEF StoreInv, Knows
  <2>2. GroupOf(m) = q.group
    BY <1>1, <1>2, <1>4, <2>1, GroupFacts
  <2>3. QED
    BY <2>1, <2>2
<1>6. q = p
  BY <1>3, <1>4, <1>5 DEF StoreInv
<1>7. m \in Files(p.head)
  BY <1>1, <1>6 DEF Files, Rows
<1>8. QED
  BY <1>7

\* A write whose answer is still good, or will be refused, keeps places apart.
LEMMA UpsertPlaces ==
  ASSUME StoreInv, StoreInv', PlacesDistinct, NEW item, NEW seen \in {NothingFound} \cup Found,
         ItemInv(item), PlaceInv(item, seen), Upsert(item, seen)
  PROVE  PlacesDistinct'
<1>1. PICK p \in Messages, files \in SUBSET Messages, from \in Nat :
        \/ media' = media
        \/ Adds(item, seen, p, files, from)
           /\ Repainted(media \cup NewRows(p, files, from), media')
  BY UpsertRows
<1>2. CASE media' = media
  BY <1>2 DEF PlacesDistinct
<1>3. CASE /\ Adds(item, seen, p, files, from)
           /\ Repainted(media \cup NewRows(p, files, from), media')
  <2>1. PICK fresh : fresh = NewRows(p, files, from)
    OBVIOUS
  <2>2. /\ Distinct(fresh)
        /\ \A r \in fresh : r.post = p /\ r.file \in files /\ from \leq r.position
    BY <2>1, NewPlaces
  <2>3. ASSUME NEW r \in media, NEW t \in fresh, r.post = t.post, r.position = t.position
        PROVE  FALSE
    <3>1. r \in Rows(p) /\ t.file \in files /\ from \leq r.position
      BY <2>2, <2>3 DEF Rows
    <3>2. seen.found /\ p = seen.post /\ files = item \ seen.files /\ from = seen.next
          /\ files \cap Files(p) = {}
      BY <1>3, <3>1, FreeIsEmpty DEF Adds
    <3>3. r.position < from
      BY <3>1, <3>2 DEF PlaceInv
    <3>4. r.position \in Nat
      BY DEF StoreInv, PostTypeOK, MediaRow
    <3>5. QED
      BY <3>1, <3>3, <3>4
  <2>4. Distinct(media)
    BY DEF PlacesDistinct, Distinct
  <2>5. PICK rows : rows = media \cup fresh
    OBVIOUS
  <2>6. Distinct(rows)
    BY <2>2, <2>3, <2>4, <2>5 DEF Distinct
  <2>7. Repainted(rows, media')
    BY <1>3, <2>1, <2>5
  <2>8. RowsUnique(media')
    BY DEF StoreInv
  <2>9. Distinct(media')
    BY <2>6, <2>7, <2>8, PaintedPlaces
  <2>10. QED
    BY <2>9 DEF PlacesDistinct, Distinct
<1>4. QED
  BY <1>1, <1>2, <1>3

\* What pictures change does not matter to an answer.
LEMMA PaintedAnswer ==
  ASSUME NEW item, NEW seen, PlaceInv(item, seen), Repainted(media, media')
  PROVE  PlaceInv(item, seen)'
<1>1. /\ \A t \in media' : \E r \in media : Alike(t, r)
      /\ \A r \in media : \E t \in media' : Alike(t, r)
  BY DEF Repainted
<1>2. \A p : Files(p) \subseteq Files(p)'
  BY <1>1 DEF Files, Rows, Alike
<1>3. \A p : \A t \in Rows(p)' : \E r \in Rows(p) : t.position = r.position
  BY <1>1 DEF Rows, Alike
<1>4. QED
  BY <1>2, <1>3 DEF PlaceInv

\* Another writer's insert leaves an answer good or makes the index refuse the
\* write that relies on it: the album's newest missing message is among the
\* files of both.
LEMMA AnswerStays ==
  ASSUME StoreInv, NEW item, NEW seen \in {NothingFound} \cup Found, ItemInv(item),
         SeenInv(item, seen), PlaceInv(item, seen), Upsert(item, seen),
         NEW mine, NEW answer, ItemInv(mine), SeenInv(mine, answer), PlaceInv(mine, answer)
  PROVE  PlaceInv(mine, answer)'
<1> SUFFICES ASSUME answer.found PROVE PlaceInv(mine, answer)'
  BY DEF PlaceInv
<1>1. PICK p \in Messages, files \in SUBSET Messages, from \in Nat :
        \/ media' = media
        \/ Adds(item, seen, p, files, from)
           /\ Repainted(media \cup NewRows(p, files, from), media')
  BY UpsertRows
<1>2. CASE media' = media
  BY <1>2, AlikeRows, PaintedAnswer
<1>3. CASE /\ Adds(item, seen, p, files, from)
           /\ Repainted(media \cup NewRows(p, files, from), media')
  <2>1. PICK fresh : fresh = NewRows(p, files, from)
    OBVIOUS
  <2>2. /\ \A r \in fresh : r.post = p /\ r.file \in files
        /\ \A f \in files : \E r \in fresh : r.post = p /\ r.file = f
    BY <2>1, NewRowsFacts
  <2>3. /\ \A t \in media' : \E r \in media \cup fresh : Alike(t, r)
        /\ \A r \in media \cup fresh : \E t \in media' : Alike(t, r)
    BY <1>3, <2>1 DEF Repainted
  <2>4. Files(answer.post) \subseteq Files(answer.post)'
    BY <2>3 DEF Files, Rows, Alike
  <2>5. answer.files \subseteq Files(answer.post)'
    BY <2>4 DEF PlaceInv
  <2>6. CASE \A r \in fresh : r.post # answer.post
    <3>1. \A t \in Rows(answer.post)' : \E r \in Rows(answer.post) : t.position = r.position
      BY <2>3, <2>6 DEF Rows, Alike
    <3>2. QED
      BY <2>4, <2>5, <3>1 DEF PlaceInv
  <2>7. ASSUME NEW s \in fresh, s.post = answer.post
        PROVE  (mine \ answer.files) \cap Files(answer.post)' # {} \/ mine \subseteq answer.files
    <3>1. PICK q \in posts : q.head = answer.post /\ q.group = Group(mine) /\ q.group # {}
      BY DEF SeenInv
    <3>2. p = answer.post /\ ~Free(p)
      BY <2>2, <2>7, <3>1 DEF Free
    <3>3. seen.found /\ p = seen.post /\ files = item \ seen.files /\ files \cap Files(p) = {}
      BY <1>3, <3>2 DEF Adds
    <3>4. Files(p) = Files(q.head) /\ answer.files \subseteq Files(p) /\ seen.files \subseteq Files(p)
      BY <3>1, <3>2, <3>3 DEF PlaceInv
    <3>5. files \subseteq Files(p)'
      BY <2>2, <2>3 DEF Files, Rows, Alike
    <3>6. Group(item) = q.group
      BY <3>1, <3>2, <3>3 DEF SeenInv, StoreInv
    <3>7. \A m \in item : GroupOf(m) = q.group /\ m \in q.group
      <4>1. \A m \in item : m \in Messages /\ GroupOf(m) = q.group
        BY <3>6, GroupOfItem DEF ItemInv, Together
      <4>2. QED
        BY <3>1, <4>1, GroupFacts
    <3>8. \A m \in mine : GroupOf(m) = q.group /\ m \in q.group
      <4>1. \A m \in mine : m \in Messages /\ GroupOf(m) = q.group
        BY <3>1, GroupOfItem DEF ItemInv, Together
      <4>2. QED
        BY <3>1, <4>1, GroupFacts
    <3>9. s.file \in item /\ s.file \notin seen.files /\ s.file \notin Files(q.head)
      BY <2>2, <2>7, <3>3, <3>4
    <3>10. ~Stored(s.file)
      BY <3>7, <3>9, LackedIsMissing
    <3>11. ASSUME NEW y \in mine, y \notin answer.files
           PROVE  (mine \ answer.files) \cap Files(answer.post)' # {}
      <4>1. CASE y \in Files(p)
        BY <2>4, <3>2, <3>11, <4>1
      <4>2. CASE y \notin Files(p)
        <5>1. ~Stored(y)
          BY <3>4, <3>8, <4>2, LackedIsMissing
        <5>2. s.file \in Int /\ y \in Int
          <6>1. item \subseteq Messages /\ mine \subseteq Messages
            BY DEF ItemInv, Together
          <6>2. \A m \in Messages : m \in Int
            BY DEF Messages
          <6>3. QED
            BY <3>9, <6>1, <6>2
        <5>3. CASE y \leq s.file
          <6>1. s.file \in mine
            BY <3>7, <3>8, <3>9, <3>10, <5>3 DEF ItemInv, UpItem
          <6>2. s.file \notin answer.files /\ s.file \in Files(p)'
            BY <2>2, <3>4, <3>5, <3>9
          <6>3. QED
            BY <3>2, <6>1, <6>2
        <5>4. CASE s.file \leq y
          <6>1. y \in item
            BY <3>7, <3>8, <3>9, <5>1, <5>4 DEF ItemInv, UpItem
          <6>2. y \in files
            BY <3>3, <3>4, <4>2, <6>1
          <6>3. QED
            BY <3>2, <3>5, <3>11, <6>2
        <5>5. QED
          BY <5>2, <5>3, <5>4
      <4>3. QED
        BY <4>1, <4>2
    <3>12. QED
      BY <3>11
  <2>8. QED
    BY <2>5, <2>6, <2>7 DEF PlaceInv
<1>4. QED
  BY <1>1, <1>2, <1>3

--------------------------------------------------------------------------------
(* Answers *)

\* Whoever has an answer and is about to write.
AnswersInv ==
  /\ \A j \in Jobs : job[j].pc = "write" => PlaceInv(job[j].item, job[j].seen)
  /\ \A e \in events : e.pc = "write" => PlaceInv(e.item, e.seen)

\* The SELECT of MAX(position) is right when it answers.
LEMMA AnswerIsRight ==
  ASSUME StoreInv, NEW item, NEW seen \in Readings(item)
  PROVE  PlaceInv(item, seen)
<1>1. CASE AlbumPosts(item) = {}
  BY <1>1 DEF Readings, PlaceInv, NothingFound
<1>2. CASE AlbumPosts(item) # {}
  <2>1. PICK p \in AlbumPosts(item) : \E n \in NextPositions(p.head) :
          seen = [found |-> TRUE, post |-> p.head, files |-> Files(p.head), next |-> n]
    BY <1>2 DEF Readings
  <2>2. QED
    BY <2>1 DEF NextPositions, PlaceInv
<1>3. QED
  BY <1>1, <1>2

LEMMA EnterSets ==
  ASSUME JobTypeOK, NEW i \in Jobs, NEW state, Enter(i, state), NEW j \in Jobs
  PROVE  job'[j] = job[j] \/ job'[j] = state
BY DEF Enter, JobTypeOK

\* Only the lookup of an item makes a job about to write.
LEMMA JobMoves ==
  ASSUME IInv, [Next]_vars, NEW j \in Jobs, job'[j].pc = "write"
  PROVE  job'[j] = job[j] \/ (media' = media /\ job'[j].seen \in Readings(job'[j].item))
<1> DEFINE Goal == job'[j] = job[j] \/ (media' = media /\ job'[j].seen \in Readings(job'[j].item))
<1> SUFFICES Goal
  OBVIOUS
<1>1. JobTypeOK
  BY DEF IInv, TypeInv, TypeOK
<1>2. ASSUME NEW i \in Jobs, NEW pc, pc # "write", NEW c, NEW b, NEW todo, NEW x, NEW seen,
             Enter(i, State(pc, c, b, todo, x, seen))
      PROVE  Goal
  BY <1>1, <1>2, EnterSets DEF State
<1>3. ASSUME NEW i \in Jobs, Leave(i) PROVE Goal
  BY <1>2, <1>3 DEF Leave, Idle, At
<1>4. ASSUME NEW i \in Jobs, NEW S, Collect(i, S) PROVE Goal
  BY <1>2, <1>4 DEF Collect
<1>5. ASSUME NEW i \in Jobs, NEW pc, pc # "write", NEW c, Enter(i, At(pc, c)) PROVE Goal
  BY <1>2, <1>5 DEF At
<1>6. ASSUME NEW i \in Jobs, Ingest(i) PROVE Goal
  <2>1. CASE LookUp(i)
    <3>1. PICK item, seen :
            /\ seen \in Readings(item)
            /\ Enter(i, State("write", job[i].cursor, job[i].batch, job[i].todo, item, seen))
      BY <2>1 DEF LookUp
    <3>2. job'[j] = job[j]
            \/ job'[j] = State("write", job[i].cursor, job[i].batch, job[i].todo, item, seen)
      BY <1>1, <3>1, EnterSets
    <3>3. media' = media
      BY <2>1 DEF LookUp, postVars
    <3>4. QED
      BY <3>1, <3>2, <3>3 DEF State
  <2>2. CASE Write(i)
    <3>1. Enter(i, State("ingest", job[i].cursor, job[i].batch, job[i].todo \ {job[i].item},
                         {}, NothingFound))
      BY <2>2 DEF Write
    <3>2. QED
      BY <1>2, <3>1
  <2>3. QED
    BY <1>6, <2>1, <2>2 DEF Ingest
<1>7. CASE job' = job
  BY <1>7
<1> HIDE DEF Goal
<1>8. CASE Channel \/ Live \/ Reader \/ Clock \/ UNCHANGED vars
  BY <1>7, <1>8 DEF Channel, Live, Reader, Clock, vars
<1>9. CASE Join
  BY <1>3, <1>4, <1>6, <1>9 DEF Join, JoinStep, JoinFetch, JoinDone, JoinFails, Jobs
<1>10. CASE History
  <2>1. "history" \in Jobs
    BY DEF Jobs
  <2>2. ASSUME Select \/ TryAcquireLock PROVE Goal
    BY <1>3, <1>5, <2>1, <2>2 DEF Select, TryAcquireLock
  <2>3. ASSUME FetchOlder \/ Exhaust \/ Defer \/ FetchFails \/ Release \/ PassFails PROVE Goal
    BY <1>3, <1>4, <2>1, <2>3 DEF FetchOlder, Exhaust, Defer, FetchFails, Release, PassFails
  <2>4. QED
    BY <1>6, <1>10, <2>1, <2>2, <2>3 DEF History, HistoryStep
<1>11. CASE Tool
  BY <1>3, <1>4, <1>6, <1>11 DEF Tool, RecoveryStep, RecoveryStart, RecoveryEnds, Jobs
<1>12. CASE Boot
  <2>1. "catchup" \in Jobs
    BY DEF Jobs
  <2>2. CASE BeginBoot
    BY <1>5, <1>7, <2>1, <2>2 DEF BeginBoot
  <2>3. CASE \E A \in Albums : MergeAlbum(A)
    BY <1>7, <2>3 DEF MergeAlbum
  <2>4. ASSUME FetchMissed \/ CaughtUp \/ BootFails PROVE Goal
    BY <1>3, <1>4, <2>1, <2>4 DEF FetchMissed, CaughtUp, BootFails
  <2>5. ASSUME Heal \/ Subscribe PROVE Goal
    BY <1>7, <2>5 DEF Heal, Subscribe
  <2>6. QED
    BY <1>6, <1>12, <2>1, <2>2, <2>3, <2>4, <2>5 DEF Boot, BootStep
<1>13. CASE Crash
  <2>1. job'[j] = Idle
    BY <1>13 DEF Crash
  <2>2. QED
    BY <2>1 DEF Idle, At, State
<1>14. QED
  BY <1>8, <1>9, <1>10, <1>11, <1>12, <1>13 DEF Next, Goal

LEMMA EventMoves ==
  ASSUME [Next]_vars, NEW e \in events', e.pc = "write"
  PROVE  e \in events \/ (media' = media /\ e.seen \in Readings(e.item))
<1>1. CASE Live
  <2>1. PICK f \in events : HandlerLooksUp(f) \/ HandlerWrites(f) \/ HandlerFails(f)
    BY <1>1 DEF Live, LiveStep
  <2>2. CASE HandlerLooksUp(f)
    BY <2>2 DEF HandlerLooksUp, postVars
  <2>3. CASE HandlerWrites(f) \/ HandlerFails(f)
    BY <2>3 DEF HandlerWrites, HandlerFails
  <2>4. QED
    BY <2>1, <2>2, <2>3
<1>2. CASE Channel
  BY <1>2 DEF Channel, Dispatch
<1>3. CASE Crash
  BY <1>3 DEF Crash
<1>4. CASE Join \/ History \/ Tool \/ Boot \/ Reader \/ Clock \/ UNCHANGED vars
  BY <1>4 DEF Join, History, Tool, Boot, Reader, Clock, vars, liveVars
<1>5. QED
  BY <1>1, <1>2, <1>3, <1>4 DEF Next

\* One step keeps places apart and answers good or refused.
LEMMA PlacesKeep ==
  ASSUME IInv, StoreInv', PlacesDistinct, AnswersInv, [Next]_vars
  PROVE  PlacesDistinct' /\ AnswersInv'
<1>1. StoreInv
  BY DEF IInv
<1> DEFINE Stays == \A mine, answer :
              ItemInv(mine) /\ SeenInv(mine, answer) /\ PlaceInv(mine, answer)
                => PlaceInv(mine, answer)'
<1>2. ASSUME NEW item, NEW seen \in {NothingFound} \cup Found, ItemInv(item), SeenInv(item, seen),
             PlaceInv(item, seen), Upsert(item, seen)
      PROVE  PlacesDistinct' /\ Stays
  <2>1. PlacesDistinct'
    BY <1>1, <1>2, UpsertPlaces
  <2>2. Stays
    BY <1>1, <1>2, AnswerStays
  <2>3. QED
    BY <2>1, <2>2
<1>3. ASSUME Writes PROVE PlacesDistinct' /\ Stays
  <2>1. PICK item, seen :
          /\ seen \in {NothingFound} \cup Found /\ ItemInv(item) /\ SeenInv(item, seen)
          /\ PlaceInv(item, seen) /\ Upsert(item, seen)
    BY <1>3, WriterFacts DEF Writes, AnswersInv
  <2>2. QED
    BY <1>2, <2>1
<1>4. ASSUME media' = media \/ Heal PROVE PlacesDistinct' /\ Stays
  <2>1. Repainted(media, media')
    BY <1>1, <1>4, AlikeRows, HealRows DEF StoreInv
  <2>2. RowsUnique(media')
    BY DEF StoreInv
  <2>3. Distinct(media) => Distinct(media')
    BY <2>1, <2>2, PaintedPlaces
  <2>4. PlacesDistinct'
    BY <2>3 DEF PlacesDistinct, Distinct
  <2>5. Stays
    BY <2>1, PaintedAnswer
  <2>6. QED
    BY <2>4, <2>5
<1>10. CASE Boot /\ \E A \in Albums : MergeAlbum(A)
  <2>1. PICK A \in Albums : MergeAlbum(A)
    BY <1>10
  <2>2. Distinct(media')
    BY <1>1, <2>1, MergeRows DEF PlacesDistinct, Distinct
  <2>3. job' = job /\ events' = events /\ events = {} /\ \A j \in Jobs : job[j].pc = "idle"
    BY <1>10, <2>1, MergeAlone DEF MergeAlbum, Boot
  <2>4. QED
    BY <2>2, <2>3 DEF PlacesDistinct, Distinct, AnswersInv
<1> SUFFICES ASSUME ~(Boot /\ \E A \in Albums : MergeAlbum(A)) PROVE PlacesDistinct' /\ AnswersInv'
  BY <1>10
<1>5. PlacesDistinct' /\ Stays
  BY <1>3, <1>4, WhoWrites
<1>6. ASSUME media' = media, NEW item, NEW seen \in Readings(item)
      PROVE  PlaceInv(item, seen)'
  <2>1. PlaceInv(item, seen)
    BY <1>1, <1>6, AnswerIsRight
  <2>2. QED
    BY <1>6, <2>1, AlikeRows, PaintedAnswer
<1>7. ASSUME NEW j \in Jobs, job'[j].pc = "write"
      PROVE  PlaceInv(job[j].item, job[j].seen)'
  <2>1. PICK item, seen : item = job'[j].item /\ seen = job'[j].seen
    OBVIOUS
  <2>2. PlaceInv(item, seen)'
    <3>1. CASE job'[j] = job[j]
      <4>1. job[j].pc = "write" /\ item = job[j].item /\ seen = job[j].seen
        BY <1>7, <2>1, <3>1
      <4>2. ItemInv(item) /\ SeenInv(item, seen) /\ PlaceInv(item, seen)
        BY <4>1, WriterFacts DEF AnswersInv
      <4>3. QED
        BY <1>5, <4>2
    <3>2. CASE media' = media /\ seen \in Readings(item)
      BY <1>6, <3>2
    <3>3. QED
      BY <1>7, <2>1, <3>1, <3>2, JobMoves
  <2>3. QED
    BY <2>1, <2>2 DEF PlaceInv
<1>8. ASSUME NEW e \in events', e.pc = "write"
      PROVE  PlaceInv(e.item, e.seen)'
  <2>1. CASE e \in events
    <3>1. ItemInv(e.item) /\ SeenInv(e.item, e.seen) /\ PlaceInv(e.item, e.seen)
      BY <1>8, <2>1, WriterFacts DEF AnswersInv
    <3>2. QED
      BY <1>5, <3>1
  <2>2. QED
    BY <1>6, <1>8, <2>1, EventMoves
<1>9. QED
  BY <1>5, <1>7, <1>8 DEF AnswersInv

LEMMA PlacesAtFirst ==
  ASSUME Init
  PROVE  PlacesDistinct /\ AnswersInv
<1>1. /\ media = {[post |-> m, file |-> m, position |-> 0, photo |-> m] : m \in LegacyPosts}
      /\ events = {}
  BY DEF Init
<1>2. \A j \in Jobs : job[j] \in {At("fetch", 0), Idle}
  BY DEF Init
<1>3. \A j \in Jobs : job[j].pc # "write"
  BY <1>2 DEF Idle, At, State
<1>4. PlacesDistinct
  BY <1>1 DEF PlacesDistinct
<1>5. QED
  BY <1>1, <1>3, <1>4 DEF AnswersInv

(* The files of a post have places of their own, although every writer reads *)
(* MAX(position) in a session of its own and others may commit before it     *)
(* writes: what they append is among the files it lacked too, and the unique *)
(* index on (post_id, tg_file_id) refuses its write.                         *)
THEOREM PlacesStayDistinct == LegacyInOrder => (Spec => []PlacesDistinct)
<1> SUFFICES ASSUME LegacyInOrder PROVE Spec => []PlacesDistinct
  OBVIOUS
<1>1. Init => IInv
  BY Opening
<1>2. Init => PlacesDistinct /\ AnswersInv
  BY PlacesAtFirst
<1>3. IInv /\ [Next]_vars => StoreInv'
  BY NextKeeps DEF IInv
<1>4. IInv /\ PlacesDistinct /\ AnswersInv /\ [Next]_vars => PlacesDistinct' /\ AnswersInv'
  BY <1>3, PlacesKeep
<1>5. QED
  BY <1>1, <1>2, <1>4, NextKeeps, PTL DEF Spec

--------------------------------------------------------------------------------
(* The boot *)

(* An album with legacy posts never has a post of its own beside them: the   *)
(* merge of no boot is refused, and no boot after it for the same reason.    *)
THEOREM MergeNeverRefused == LegacyInOrder => (Spec => []BootSurvives)
<1> SUFFICES ASSUME LegacyInOrder PROVE Spec => []BootSurvives
  OBVIOUS
<1>1. Init => IInv
  BY Opening
<1>2. IInv => BootSurvives
  <2>1. ASSUME IInv, NEW A \in Albums, HasLegacy(A), NEW q \in posts, q.group = A PROVE FALSE
    <3>1. PICK p \in posts : p.group = {} /\ p.head \in A
      BY <2>1 DEF HasLegacy, Legacy
    <3>2. GroupOf(p.head) = A /\ A # {}
      BY <3>1, AlbumOfMessage, FeedAssumption
    <3>3. QED
      BY <2>1, <3>1, <3>2 DEF IInv, StoreInv
  <2>2. QED
    BY <2>1 DEF BootSurvives, Untagged
<1>3. QED
  BY <1>1, <1>2, NextKeeps, PTL DEF Spec
================================================================================
