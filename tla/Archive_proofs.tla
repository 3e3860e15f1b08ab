------------------------------ MODULE Archive_proofs ------------------------------
(***************************************************************************)
(* More of Ingest proved: the writers of a channel do not get in each      *)
(* other's way (no unique index refuses an insert), the prefetch stays     *)
(* within its bound, and a channel marked full is full.  Each theorem says *)
(* what of the constants and of the run it is restricted to; the recovery  *)
(* script writes beside all others and is left out of all three.           *)
(***************************************************************************)
EXTENDS Ingest_proofs

--------------------------------------------------------------------------------
(* Refusals *)

(* Where albums are posted after the join, the channel had messages before *)
(* it, and the fetch of the join backfill comes before so many are posted   *)
(* that it ends above them: then it divides no album that a live handler    *)
(* may be at work on.                                                       *)
Reaches ==
  /\ Start # 0
  /\ job["join"].pc = "fetch" => posted - Start < JoinLimit
AlbumsAreOld == \A A \in Albums : A \subseteq 1..Start
JoinReachesBack == AlbumsAreOld \/ Reaches

\* A post from before the join.
Reached == \E p \in posts : p.head \leq Start

\* So the archive is below everything that is posted after it.
ReachInv ==
  /\ sub = "active" => Reached
  /\ job["join"].pc \in {"ingest", "write"} => Reached \/ \E i \in job["join"].todo : Start \in i
  /\ job["history"].pc # "idle" => job["history"].cursor \leq Start
  /\ oldestSeen \leq Start

\* What no live handler can meet: a single message, or part of an album from
\* before the join.
Old(item) == Group(item) = {} \/ item \subseteq 1..Start

\* A post that is headed by the oldest of its album and has all of it.
Whole(p) == Oldest(p.head, p.group) /\ p.group \subseteq Files(p.head)

\* An album that the join backfill and a live handler may both be about to
\* write: each would write all of it.
Shared(item) ==
  /\ item \in Albums /\ item \cap 1..Start = {}
  /\ \A p \in posts : p.group = item => Whole(p)

\* An answer that nobody has outdated.
Sure(item, seen) ==
  IF seen.found THEN item \cap Files(seen.post) \subseteq seen.files ELSE Untagged(Group(item))

\* An answer that need not be up to date.
Enough(item, seen) == Shared(item) /\ (seen.found => item \subseteq seen.files)

\* Nothing is deleted from the feed.
Begun == Start \leq posted

RefusalInv ==
  /\ \A e \in events :
       /\ Group(e.item) = {} \/ Shared(e.item)
       /\ e.pc = "write" /\ e.seen.found => e.item \subseteq e.seen.files
  /\ \A i \in job["join"].todo : Old(i) \/ Shared(i)
  /\ \A i \in job["history"].todo : Old(i)
  /\ job["join"].pc = "write" =>
       \/ Old(job["join"].item) /\ Sure(job["join"].item, job["join"].seen)
       \/ Enough(job["join"].item, job["join"].seen)
  /\ \A j \in {"history", "catchup"} : job[j].pc = "write" => Sure(job[j].item, job[j].seen)
  /\ job["join"].pc = "fetch" => \A p \in posts : p.group # {} => Whole(p)

--------------------------------------------------------------------------------
(* Steps of a job *)

\* It begins, waits or ends.
Rests(j) ==
  /\ UNCHANGED postVars
  /\ \E pc \in {"idle", "selected", "fetch"}, c \in 0..LastMessage :
       /\ job'[j] = At(pc, c)
       /\ pc # "idle" => j \in {"history", "catchup"}
       /\ pc # "idle" /\ j = "history" =>
            \/ pc = "selected" /\ job[j].pc = "idle" /\ Cursor(c) /\ sub = "active" /\ Hungry
            \/ pc = "fetch" /\ job[j].pc = "selected" /\ c = job[j].cursor
       /\ pc # "idle" /\ j = "catchup" =>
            pc = "fetch" /\ phase = "down" /\ MaxKnown(c) /\ sub = "active"

\* It fetches the messages S.
Fetches(j, S) ==
  /\ UNCHANGED postVars /\ job[j].pc = "fetch" /\ S \subseteq Posted
  /\ job'[j] = State("ingest", job[j].cursor, S, Items(S), {}, NothingFound)
  /\ j = "join" => S = Newest(Posted, JoinLimit)
  /\ j = "history" => S = Newest(Older, BatchSize)
  /\ j = "catchup" => S = Newest({m \in Posted : m > job[j].cursor}, CatchUpLimit)

\* It looks up an item of its batch.
LooksUp(j, item, seen) ==
  /\ UNCHANGED postVars
  /\ job[j].pc = "ingest" /\ item \in job[j].todo /\ seen \in Readings(item)
  /\ job'[j] = State("write", job[j].cursor, job[j].batch, job[j].todo, item, seen)

\* It writes the item it has looked up.
Commits(j) ==
  /\ job[j].pc = "write" /\ job[j].item \in job[j].todo
  /\ job[j].item \in SUBSET Messages /\ job[j].seen \in {NothingFound} \cup Found
  /\ ItemInv(job[j].item) /\ SeenInv(job[j].item, job[j].seen)
  /\ Upsert(job[j].item, job[j].seen)
  /\ job'[j] = State("ingest", job[j].cursor, job[j].batch, job[j].todo \ {job[j].item}, {}, NothingFound)

Moves(j) ==
  \/ Rests(j)
  \/ \E S \in SUBSET Messages : Fetches(j, S)
  \/ \E item, seen : LooksUp(j, item, seen)
  \/ Commits(j)

\* The common loop looks up or commits.
LEMMA IngestMoves ==
  ASSUME IInv, NEW j \in Jobs, Ingest(j)
  PROVE  Moves(j) /\ job[j].pc \in {"ingest", "write"}
<1>1. JobTypeOK /\ JobInv(job[j])
  BY DEF IInv, TypeInv, TypeOK, WritersInv
<1>2. CASE LookUp(j)
  <2>1. PICK item \in job[j].todo : \E seen \in Readings(item) :
          Enter(j, State("write", job[j].cursor, job[j].batch, job[j].todo, item, seen))
    BY <1>2 DEF LookUp
  <2>2. PICK seen \in Readings(item) :
          Enter(j, State("write", job[j].cursor, job[j].batch, job[j].todo, item, seen))
    BY <2>1
  <2>3. job'[j] = State("write", job[j].cursor, job[j].batch, job[j].todo, item, seen)
    BY <1>1, <2>2 DEF JobTypeOK, Enter
  <2>4. LooksUp(j, item, seen)
    BY <1>2, <2>3 DEF LookUp, LooksUp
  <2>5. QED
    BY <2>4 DEF Moves, LooksUp
<1>3. CASE Write(j)
  <2>1. job'[j] = State("ingest", job[j].cursor, job[j].batch, job[j].todo \ {job[j].item}, {},
                        NothingFound)
    BY <1>1, <1>3 DEF JobTypeOK, Write, Enter
  <2>2. /\ job[j].item \in SUBSET Messages /\ job[j].seen \in {NothingFound} \cup Found
        /\ job[j].pc = "write" /\ job[j].item \in job[j].todo
        /\ ItemInv(job[j].item) /\ SeenInv(job[j].item, job[j].seen)
    BY <1>1, <1>3, JobFields DEF Write, JobInv
  <2>3. Commits(j)
    BY <1>3, <2>1, <2>2 DEF Commits, Write
  <2>4. QED
    BY <2>2, <2>3 DEF Moves
<1>4. QED
  BY <1>2, <1>3 DEF Ingest

\* A job that leaves is at rest.
LEMMA LeaveMoves ==
  ASSUME IInv, NEW j \in Jobs, Leave(j), UNCHANGED postVars
  PROVE  Rests(j)
<1>1. JobTypeOK /\ 0 \in 0..LastMessage
  BY FeedAssumption DEF IInv, TypeInv, TypeOK
<1>2. job'[j] = At("idle", 0)
  BY <1>1 DEF Leave, Idle, Enter, JobTypeOK
<1>3. QED
  BY <1>1, <1>2 DEF Rests

\* Without the recovery script a job that changes makes one of these moves, and
\* nothing else changes the tables.
LEMMA JobSteps ==
  ASSUME IInv, ~Recovery, [Next]_vars, NEW j \in Jobs, job'[j] # job[j]
  PROVE  Moves(j) /\ events' \subseteq events
<1>1. /\ JobTypeOK /\ TypeInv /\ PhaseInv /\ "join" \in Jobs /\ "history" \in Jobs /\ "catchup" \in Jobs
      /\ 0 \in 0..LastMessage
  BY FeedAssumption DEF IInv, TypeInv, TypeOK, Jobs
<1>2. job' # job
  OBVIOUS
<1>3. CASE Crash
  <2>1. job'[j] = At("idle", 0) /\ UNCHANGED postVars /\ events' \subseteq events
    BY <1>3 DEF Crash, Idle
  <2>2. Rests(j)
    BY <1>1, <2>1 DEF Rests
  <2>3. QED
    BY <2>1, <2>2 DEF Moves
<1>4. ASSUME Join PROVE Moves(j)
  <2>1. j = "join"
    BY <1>1, <1>4, JoinMoves DEF Join
  <2>2. CASE JoinFetch
    <3>1. PICK S : S = Newest(Posted, JoinLimit)
      OBVIOUS
    <3>2. S \subseteq Posted /\ S \in SUBSET Messages /\ Collect("join", S)
      BY <1>1, <2>2, <3>1, PostedType DEF JoinFetch, TypeInv, TypeOK, Newest
    <3>3. job'["join"] = State("ingest", job["join"].cursor, S, Items(S), {}, NothingFound)
      BY <1>1, <3>2, CollectType
    <3>4. Fetches("join", S)
      BY <2>2, <3>1, <3>2, <3>3 DEF Fetches, JoinFetch
    <3>5. QED
      BY <2>1, <3>2, <3>4 DEF Moves
  <2>3. CASE Ingest("join")
    BY <1>1, <2>1, <2>3, IngestMoves
  <2>4. CASE JoinDone \/ JoinFails
    BY <1>1, <2>1, <2>4, LeaveMoves DEF JoinDone, JoinFails, Moves
  <2>5. QED
    BY <1>4, <2>2, <2>3, <2>4 DEF Join, JoinStep
<1>5. ASSUME History PROVE Moves(j)
  <2>1. j = "history" /\ job["history"].cursor \in 0..LastMessage
    BY <1>1, <1>5, HistoryMoves, JobFields DEF History
  <2>2. CASE Select
    <3>1. PICK c \in Messages :
            Cursor(c) /\ Enter("history", At("selected", c)) /\ sub = "active" /\ Hungry
      BY <2>2 DEF Select
    <3>2. c \in 0..LastMessage /\ job'["history"] = At("selected", c) /\ UNCHANGED postVars
      BY <1>1, <2>2, <3>1, FeedAssumption DEF Messages, Enter, JobTypeOK, Select
    <3>3. Rests("history")
      BY <2>2, <3>1, <3>2 DEF Rests, Select
    <3>4. QED
      BY <2>1, <3>3 DEF Moves
  <2>3. CASE TryAcquireLock /\ ~locked
    <3>1. /\ job'["history"] = At("fetch", job["history"].cursor) /\ UNCHANGED postVars
          /\ job["history"].pc = "selected"
      BY <1>1, <2>3 DEF TryAcquireLock, Enter, JobTypeOK
    <3>2. Rests("history")
      BY <2>1, <3>1 DEF Rests
    <3>3. QED
      BY <2>1, <3>2 DEF Moves
  <2>4. CASE FetchOlder
    <3>1. PICK S : S = Newest(Older, BatchSize)
      OBVIOUS
    <3>2. S \subseteq Posted /\ S \in SUBSET Messages /\ Collect("history", S)
      BY <1>1, <2>4, <3>1, PostedType DEF FetchOlder, Older, TypeInv, TypeOK, Newest
    <3>3. job'["history"] = State("ingest", job["history"].cursor, S, Items(S), {}, NothingFound)
      BY <1>1, <3>2, CollectType
    <3>4. Fetches("history", S)
      BY <2>4, <3>1, <3>2, <3>3 DEF Fetches, FetchOlder
    <3>5. QED
      BY <2>1, <3>2, <3>4 DEF Moves
  <2>5. CASE Ingest("history")
    BY <1>1, <2>1, <2>5, IngestMoves
  <2>6. CASE (TryAcquireLock /\ locked) \/ Exhaust \/ Defer \/ FetchFails \/ Release \/ PassFails
    <3>1. Leave("history") /\ UNCHANGED postVars
      BY <2>6 DEF TryAcquireLock, Exhaust, Defer, FetchFails, Release, PassFails
    <3>2. QED
      BY <1>1, <2>1, <3>1, LeaveMoves DEF Moves
  <2>7. QED
    BY <1>5, <2>2, <2>3, <2>4, <2>5, <2>6 DEF History, HistoryStep
<1>6. ASSUME Boot PROVE Moves(j)
  <2>1. j = "catchup"
    BY <1>1, <1>6, BootMoves DEF Boot
  <2>2. CASE BeginBoot
    <3>1. sub = "active" /\ phase = "down"
      BY <1>2, <2>2 DEF BeginBoot
    <3>2. PICK c \in 0..LastMessage : MaxKnown(c) /\ Enter("catchup", At("fetch", c))
      BY <2>2, <3>1 DEF BeginBoot
    <3>3. job'["catchup"] = At("fetch", c) /\ UNCHANGED postVars
      BY <1>1, <2>2, <3>2 DEF BeginBoot, Enter, JobTypeOK
    <3>4. Rests("catchup")
      BY <3>1, <3>2, <3>3 DEF Rests
    <3>5. QED
      BY <2>1, <3>4 DEF Moves
  <2>3. CASE FetchMissed
    <3>1. PICK S : S = Newest({m \in Posted : m > job["catchup"].cursor}, CatchUpLimit)
      OBVIOUS
    <3>2. S \subseteq Posted /\ S \in SUBSET Messages /\ Collect("catchup", S)
      BY <1>1, <2>3, <3>1, PostedType DEF FetchMissed, TypeInv, TypeOK, Newest
    <3>3. job'["catchup"] = State("ingest", job["catchup"].cursor, S, Items(S), {}, NothingFound)
      BY <1>1, <3>2, CollectType
    <3>4. Fetches("catchup", S)
      BY <2>3, <3>1, <3>2, <3>3 DEF Fetches, FetchMissed
    <3>5. QED
      BY <2>1, <3>2, <3>4 DEF Moves
  <2>4. CASE Ingest("catchup")
    BY <1>1, <2>1, <2>4, IngestMoves
  <2>5. CASE CaughtUp \/ BootFails
    BY <1>1, <2>1, <2>5, LeaveMoves DEF CaughtUp, BootFails, Moves
  <2>6. CASE Heal \/ Subscribe \/ \E A \in Albums : MergeAlbum(A)
    BY <1>2, <2>6 DEF Heal, Subscribe, MergeAlbum
  <2>7. QED
    BY <1>6, <2>2, <2>3, <2>4, <2>5, <2>6 DEF Boot, BootStep
<1>7. ~Tool
  <2>1. job["recovery"].pc = "idle"
    BY DEF PhaseInv, IInv, Idle, At, State
  <2>2. QED
    BY <1>1, <2>1, ToolMoves DEF Tool
<1>8. ~(Channel \/ Live \/ Reader \/ Clock \/ UNCHANGED vars)
  BY <1>2 DEF Channel, Live, Reader, Clock, vars
<1>9. Join \/ History \/ Boot => events' = events
  BY DEF Join, History, Boot, liveVars
<1>10. QED
  BY <1>3, <1>4, <1>5, <1>6, <1>7, <1>8, <1>9 DEF Next

\* Whoever else is at work is a live handler.
LEMMA OneAtWork ==
  ASSUME IInv, ~Recovery, NEW j \in Jobs, job[j].pc # "idle"
  PROVE  /\ j # "recovery" /\ \A k \in Jobs \ {j} : job[k] = Idle
         /\ j = "catchup" => events = {} /\ phase = "catchup"
<1>1. Idle.pc = "idle" /\ Jobs = {"join", "catchup", "history", "recovery"}
  BY DEF Idle, At, State, Jobs
<1>2. QED
  BY <1>1 DEF IInv, PhaseInv

\* Who changes the tables.
LEMMA TableSteps ==
  ASSUME IInv, ~Recovery, [Next]_vars
  PROVE  \/ UNCHANGED postVars
         \/ Heal /\ job' = job /\ events' = events
         \/ (\E A \in Albums : MergeAlbum(A)) /\ job' = job /\ events' = events
         \/ (\E j \in Jobs : Commits(j)) /\ events' = events
         \/ (\E e \in events : HandlerWrites(e)) /\ job' = job
<1>1. "join" \in Jobs /\ "history" \in Jobs /\ "catchup" \in Jobs /\ TypeInv
  BY DEF Jobs, IInv
<1>2. ASSUME NEW j \in Jobs, Ingest(j) PROVE UNCHANGED postVars \/ Commits(j)
  <2>1. CASE LookUp(j)
    BY <2>1 DEF LookUp
  <2>2. CASE Write(j)
    <3>1. JobTypeOK /\ JobInv(job[j])
      BY DEF IInv, TypeInv, TypeOK, WritersInv
    <3>2. job'[j] = State("ingest", job[j].cursor, job[j].batch, job[j].todo \ {job[j].item}, {},
                          NothingFound)
      BY <2>2, <3>1 DEF JobTypeOK, Write, Enter
    <3>3. QED
      BY <2>2, <3>1, <3>2, JobFields DEF Write, JobInv, Commits
  <2>3. QED
    BY <1>2, <2>1, <2>2 DEF Ingest
<1>3. CASE Live
  BY <1>3 DEF Live, LiveStep, HandlerLooksUp, HandlerWrites, HandlerFails
<1>4. CASE Join
  <2>1. events' = events
    BY <1>4 DEF Join, liveVars
  <2>2. QED
    BY <1>1, <1>2, <1>4, <2>1 DEF Join, JoinStep, JoinFetch, JoinDone, JoinFails
<1>5. CASE History
  <2>1. events' = events
    BY <1>5 DEF History, liveVars
  <2>2. QED
    BY <1>1, <1>2, <1>5, <2>1
       DEF History, HistoryStep, Select, TryAcquireLock, FetchOlder, Exhaust, Defer, FetchFails,
           Release, PassFails
<1>6. CASE Boot
  <2>1. events' = events
    BY <1>6 DEF Boot
  <2>2. CASE Heal \/ \E A \in Albums : MergeAlbum(A)
    BY <2>1, <2>2 DEF Heal, MergeAlbum
  <2>3. QED
    BY <1>1, <1>2, <1>6, <2>1, <2>2
       DEF Boot, BootStep, BeginBoot, FetchMissed, CaughtUp, Subscribe, BootFails
<1>7. ~Tool
  <2>1. job["recovery"].pc = "idle"
    BY DEF PhaseInv, IInv, Idle, At, State
  <2>2. QED
    BY <1>1, <2>1, ToolMoves DEF Tool
<1>8. CASE Channel \/ Reader \/ Clock \/ Crash \/ UNCHANGED vars
  BY <1>8 DEF Channel, Dispatch, Reader, Clock, Crash, vars
<1>9. QED
  BY <1>3, <1>4, <1>5, <1>6, <1>7, <1>8 DEF Next

\* Where a handler comes from.
LEMMA EventSteps ==
  ASSUME [Next]_vars, NEW e \in events'
  PROVE  \/ e \in events
         \/ \E item \in Items(Messages) :
              Dispatch(item) /\ routed /\ e.item = item /\ e.pc = "new" /\ UNCHANGED postVars
         \/ \E f \in events : e.item = f.item /\ e.seen \in Readings(e.item) /\ UNCHANGED postVars
<1>1. CASE Live
  <2>1. PICK f \in events : HandlerLooksUp(f) \/ HandlerWrites(f) \/ HandlerFails(f)
    BY <1>1 DEF Live, LiveStep
  <2>2. CASE HandlerLooksUp(f)
    BY <2>2 DEF HandlerLooksUp
  <2>3. CASE HandlerWrites(f) \/ HandlerFails(f)
    BY <2>3 DEF HandlerWrites, HandlerFails
  <2>4. QED
    BY <2>1, <2>2, <2>3
<1>2. CASE Channel
  <2>1. PICK item \in Items(Messages) : Dispatch(item)
    BY <1>2 DEF Channel
  <2>2. PICK new : new = [item |-> item, pc |-> "new", seen |-> NothingFound]
    OBVIOUS
  <2>3. e \in events \/ (e = new /\ routed)
    BY <2>1, <2>2 DEF Dispatch
  <2>4. UNCHANGED postVars
    BY <2>1 DEF Dispatch
  <2>5. QED
    BY <2>1, <2>2, <2>3, <2>4
<1>3. CASE Crash
  BY <1>3 DEF Crash
<1>4. CASE Join \/ History \/ Tool \/ Boot \/ Reader \/ Clock \/ UNCHANGED vars
  BY <1>4 DEF Join, History, Tool, Boot, Reader, Clock, vars, liveVars
<1>5. QED
  BY <1>1, <1>2, <1>3, <1>4 DEF Next

--------------------------------------------------------------------------------
(* What an upsert does to what others know *)

\* What an upsert does to the posts and their files.
LEMMA UpsertPosts ==
  ASSUME StoreInv, NEW item, NEW seen \in {NothingFound} \cup Found,
         ItemInv(item), SeenInv(item, seen), Upsert(item, seen)
  PROVE  /\ posts \subseteq posts'
         /\ \A q \in posts' \ posts :
              /\ q.group = Group(item) /\ Oldest(q.head, item)
              /\ item \subseteq Files(q.head)'
         /\ \A x : Files(x) \subseteq Files(x)'
         /\ \A q \in posts : (q.group = {} \/ q.group # Group(item)) => Files(q.head)' = Files(q.head)
<1>1. PICK p \in Messages, files \in SUBSET Messages, from \in Nat :
        \/ media' = media
        \/ Adds(item, seen, p, files, from)
           /\ Repainted(media \cup NewRows(p, files, from), media')
  BY UpsertRows
<1>2. PICK fresh : fresh = NewRows(p, files, from)
  OBVIOUS
<1>3. \A r \in fresh : r.post = p /\ r.file \in files
  BY <1>2, NewRowsFacts
<1>4. media' = media
        \/ /\ Adds(item, seen, p, files, from)
           /\ \A t \in media' : \E r \in media \cup fresh : t.post = r.post /\ t.file = r.file
           /\ \A r \in media \cup fresh : \E t \in media' : t.post = r.post /\ t.file = r.file
  BY <1>1, <1>2 DEF Repainted, Alike
<1>5. \A x : Files(x) \subseteq Files(x)'
  BY <1>4 DEF Files, Rows
<1>6. ASSUME NEW q \in posts, q.group = {} \/ q.group # Group(item)
      PROVE  Files(q.head)' = Files(q.head)
  <2>1. CASE media' = media
    BY <2>1 DEF Files, Rows
  <2>2. CASE media' # media
    <3>1. Adds(item, seen, p, files, from)
      BY <1>4, <2>2
    <3>2. p # q.head
      <4>1. CASE Free(p)
        BY <4>1 DEF Free
      <4>2. CASE ~Free(p)
        BY <1>6, <3>1, <4>2 DEF Adds, SeenInv, StoreInv
      <4>3. QED
        BY <4>1, <4>2
    <3>3. \A t \in media' : t.post = q.head => \E r \in media : t.post = r.post /\ t.file = r.file
      BY <1>3, <1>4, <2>2, <3>2
    <3>4. Files(q.head)' \subseteq Files(q.head)
      BY <3>3 DEF Files, Rows
    <3>5. QED
      BY <1>5, <3>4
  <2>3. QED
    BY <2>1, <2>2
<1>7. /\ posts \subseteq posts'
      /\ \A q \in posts' \ posts :
           /\ q.group = Group(item) /\ Oldest(q.head, item)
           /\ item \subseteq Files(q.head)'
  <2>1. CASE InsertPost(item, seen)
    <3>1. PICK h \in item :
            /\ Oldest(h, item)
            /\ posts' = posts \cup {[head |-> h, group |-> Group(item)]}
            /\ \E got \in Downloads(item) :
                 media' = WithPhotos(media \cup NewRows(h, item, 0), h, got)
      BY <2>1 DEF InsertPost
    <3>2. item \in SUBSET Messages /\ h \in Messages /\ 0 \in Nat /\ media \subseteq MediaRow
      BY DEF ItemInv, Together, StoreInv, PostTypeOK
    <3>3. PICK rows : rows = media \cup NewRows(h, item, 0)
      OBVIOUS
    <3>4. rows \in SUBSET MediaRow
      BY <3>2, <3>3, NewRowsFacts
    <3>5. \A f \in item : \E r \in rows : r.post = h /\ r.file = f
      BY <3>2, <3>3, NewRowsFacts
    <3>6. PICK got : media' = WithPhotos(rows, h, got)
      BY <3>1, <3>3
    <3>7. \A r \in rows : \E t \in media' : t.post = r.post /\ t.file = r.file
      BY <3>4, <3>6, WithPhotosFacts
    <3>8. item \subseteq Files(h)'
      BY <3>5, <3>7 DEF Files, Rows
    <3>9. PICK p0 : p0 = [head |-> h, group |-> Group(item)]
      OBVIOUS
    <3>10. p0.head = h /\ p0.group = Group(item) /\ posts' = posts \cup {p0}
      BY <3>1, <3>9
    <3>11. QED
      BY <3>1, <3>8, <3>10
  <2>2. CASE ~InsertPost(item, seen)
    <3>1. posts' = posts
      BY <2>2 DEF Upsert, AppendMedia, SkipDuplicate, postVars
    <3>2. QED
      BY <3>1
  <2>3. QED
    BY <2>1, <2>2
<1>8. QED
  BY <1>5, <1>6, <1>7

\* What two writers can be at work on at once: one has part of an album from
\* before the join or a message, the other a message or an album posted since.
New(item) == Group(item) = {} \/ (item \in Albums /\ item \cap 1..Start = {})

\* The group of an album is the album.
LEMMA AlbumGroup ==
  ASSUME NEW A \in Albums
  PROVE  Group(A) = A /\ A # {}
<1>1. A # {} /\ \A m \in A : GroupOf(m) = A
  BY FeedAssumption, AlbumOfMessage
<1>2. QED
  BY <1>1 DEF Group

\* An item that has a group is part of it.
LEMMA ItemInGroup ==
  ASSUME NEW item, Together(item), Group(item) # {}
  PROVE  item \subseteq Group(item)
<1>1. ASSUME NEW m \in item PROVE m \in Group(item)
  <2>1. Group(item) = GroupOf(m) /\ m \in Messages
    BY GroupOfItem DEF Together
  <2>2. QED
    BY <2>1, GroupFacts
<1>2. QED
  BY <1>1

\* An upsert of an old item, or of a whole new album, keeps every shared album
\* shared.
LEMMA SharedKeeps ==
  ASSUME StoreInv, NEW item, NEW seen \in {NothingFound} \cup Found,
         ItemInv(item), SeenInv(item, seen), Upsert(item, seen), Old(item) \/ New(item)
  PROVE  \A k : Shared(k) => Shared(k)'
<1> SUFFICES ASSUME NEW k, Shared(k), NEW q \in posts', q.group = k PROVE Whole(q)'
  BY DEF Shared
<1>1. k \in Albums /\ k \cap 1..Start = {} /\ k # {}
  BY AlbumGroup DEF Shared
<1>2. CASE q \in posts
  <2>1. Whole(q)
    BY <1>2 DEF Shared
  <2>2. Files(q.head) \subseteq Files(q.head)'
    BY UpsertPosts
  <2>3. QED
    BY <2>1, <2>2 DEF Whole
<1>3. CASE q \notin posts
  <2>1. Group(item) = k /\ Oldest(q.head, item) /\ item \subseteq Files(q.head)'
    BY <1>3, UpsertPosts
  <2>2. item \subseteq k /\ q.head \in item
    BY <1>1, <2>1, ItemInGroup DEF ItemInv, Oldest
  <2>3. item = k
    BY <1>1, <2>1, <2>2, AlbumGroup DEF Old, New
  <2>4. QED
    BY <2>1, <2>3 DEF Whole
<1>4. QED
  BY <1>2, <1>3

\* A handler does not outdate what a backfill has been told about an album
\* from before the join.
LEMMA SureKeeps ==
  ASSUME StoreInv, NEW item, NEW seen \in {NothingFound} \cup Found,
         ItemInv(item), SeenInv(item, seen), Upsert(item, seen), New(item),
         NEW k, NEW answer, ItemInv(k), SeenInv(k, answer), Old(k), Sure(k, answer)
  PROVE  Sure(k, answer)'
<1>1. Group(k) # {} => Group(k) # Group(item)
  <2>1. ASSUME Group(k) # {}, Group(k) = Group(item) PROVE FALSE
    <3>1. item \in Albums /\ item \cap 1..Start = {} /\ k \subseteq 1..Start
      BY <2>1 DEF Old, New
    <3>2. Group(k) = item /\ k \subseteq Group(k) /\ k # {}
      BY <2>1, <3>1, AlbumGroup, ItemInGroup DEF ItemInv, Together
    <3>3. QED
      BY <3>1, <3>2
  <2>2. QED
    BY <2>1
<1>2. CASE answer.found
  <2>1. PICK q \in posts : q.head = answer.post /\ q.group = Group(k) /\ q.group # {}
    BY <1>2 DEF SeenInv
  <2>2. Files(answer.post)' = Files(answer.post)
    BY <1>1, <2>1, UpsertPosts
  <2>3. QED
    BY <1>2, <2>2 DEF Sure
<1>3. CASE ~answer.found
  <2>1. \A q \in posts' \ posts : q.group = Group(item)
    BY UpsertPosts
  <2>2. QED
    BY <1>1, <1>3, <2>1 DEF Sure, Untagged
<1>4. QED
  BY <1>2, <1>3

\* An answer is good when it is given.
LEMMA AnswerIsSure ==
  ASSUME StoreInv, NEW item, NEW seen \in Readings(item)
  PROVE  Sure(item, seen) /\ (Shared(item) => Enough(item, seen))
<1>1. CASE AlbumPosts(item) = {}
  BY <1>1 DEF Readings, NothingFound, Sure, Enough, AlbumPosts, Untagged
<1>2. CASE AlbumPosts(item) # {}
  <2>1. PICK p \in AlbumPosts(item) : \E n \in NextPositions(p.head) :
          seen = [found |-> TRUE, post |-> p.head, files |-> Files(p.head), next |-> n]
    BY <1>2 DEF Readings
  <2>2. Sure(item, seen)
    BY <2>1 DEF Sure
  <2>3. p \in posts /\ p.group = Group(item)
    BY <2>1 DEF AlbumPosts
  <2>4. Shared(item) => item \subseteq Files(p.head)
    BY <2>3, AlbumGroup DEF Shared, Whole
  <2>5. QED
    BY <2>1, <2>2, <2>4 DEF Enough
<1>3. QED
  BY <1>1, <1>2

\* Neither kind of answer is refused.
LEMMA NotRefused ==
  ASSUME NEW item, NEW seen, Sure(item, seen) \/ Enough(item, seen), ItemInv(item)
  PROVE  ~Refused(item, seen)
<1>1. CASE Sure(item, seen)
  BY <1>1 DEF Sure, Refused
<1>2. CASE Enough(item, seen) /\ seen.found
  BY <1>2 DEF Enough, Refused
<1>3. CASE Enough(item, seen) /\ ~seen.found
  <2>1. ASSUME NEW q \in posts, q.group = Group(item), Group(item) # {}
        PROVE  Oldest(q.head, item) /\ ~Free(q.head)
    BY <1>3, <2>1, AlbumGroup DEF Enough, Shared, Whole, Free
  <2>2. \A h : Oldest(h, item) => h \in item
    BY DEF Oldest
  <2>3. QED
    BY <1>3, <2>1, <2>2 DEF Refused, Untagged
<1>4. QED
  BY <1>1, <1>2, <1>3

\* Messages are only ever added.
LEMMA BegunKeeps ==
  ASSUME TypeInv, Begun, [Next]_vars
  PROVE  /\ Begun' /\ Posted \subseteq Posted'
         /\ posted' = Start => posted = Start
<1>1. CASE posted' = posted
  BY <1>1 DEF Begun, Posted
<1>2. CASE posted' # posted
  <2>1. Channel
    BY <1>2 DEF Next, Live, Join, History, Tool, Boot, Reader, Clock, Crash, vars
  <2>2. PICK item \in Items(Messages) : Dispatch(item)
    BY <2>1 DEF Channel
  <2>3. item \subseteq Messages
    BY ItemsFacts
  <2>4. posted + 1 \leq posted' /\ posted' \in Int /\ posted \in Int
    BY <2>2, <2>3, PostedType DEF Dispatch, Publish, TypeInv, TypeOK, Messages
  <2>5. QED
    BY <2>4, FeedAssumption DEF Begun, Posted
<1>3. QED
  BY <1>1, <1>2

--------------------------------------------------------------------------------
(* How far back the posts reach *)

\* A post from before the join is never lost.
LEMMA ReachedKeeps ==
  ASSUME IInv, ~Recovery, [Next]_vars, Reached
  PROVE  Reached'
<1>1. PICK q \in posts : q.head \leq Start
  BY DEF Reached
<1>2. CASE posts \subseteq posts'
  BY <1>1, <1>2 DEF Reached
<1>3. ASSUME NEW A \in Albums, MergeAlbum(A) PROVE Reached'
  <2>1. PICK p \in Legacy(A) :
          /\ \A x \in Legacy(A) \ {p} : p.head < x.head
          /\ posts' = (posts \ (Deleted(A, p) \cup {p})) \cup {[p EXCEPT !.group = A]}
    BY <1>3 DEF MergeAlbum
  <2>2. posts \subseteq Post /\ p \in posts
    BY <2>1 DEF Legacy, IInv, TypeInv, TypeOK, PostTypeOK
  <2>3. PICK t : t = [p EXCEPT !.group = A]
    OBVIOUS
  <2>4. t \in posts' /\ t.head = p.head
    BY <2>1, <2>2, <2>3 DEF Post
  <2>5. p.head \in Int /\ q.head \in Int /\ Start \in Int
    BY <1>1, <2>2, FeedAssumption DEF Post, Messages
  <2>6. CASE q \in Legacy(A)
    <3>1. p.head \leq q.head
      BY <2>1, <2>5, <2>6
    <3>2. t.head \leq Start
      BY <1>1, <2>4, <2>5, <3>1
    <3>3. QED
      BY <2>4, <3>2 DEF Reached
  <2>7. CASE q \notin Legacy(A)
    BY <1>1, <2>1, <2>7 DEF Deleted, Reached
  <2>8. QED
    BY <2>6, <2>7
<1>4. ASSUME NEW j \in Jobs, Commits(j) PROVE posts \subseteq posts'
  BY <1>4, WriterFacts, UpsertPosts DEF Commits, IInv
<1>5. ASSUME NEW e \in events, HandlerWrites(e) PROVE posts \subseteq posts'
  BY <1>5, WriterFacts, UpsertPosts DEF HandlerWrites, IInv
<1>6. QED
  BY <1>2, <1>3, <1>4, <1>5, TableSteps DEF postVars, Heal

\* The last message from before the join is in a post from before it.
LEMMA StoredReaches ==
  ASSUME StoreInv', Stored(Start)', Start # 0
  PROVE  Reached'
<1>1. Start \in Messages
  BY FeedAssumption DEF Messages
<1>2. PICK p \in posts' : Start \in p.group \cup {p.head} /\ (p.group = {} \/ Knows(p))
                          /\ p \in Post
  BY DEF Stored, StoreInv, PostTypeOK
<1>3. CASE Start = p.head
  BY <1>2, <1>3, FeedAssumption DEF Reached
<1>4. CASE Start # p.head
  <2>1. p.head \in Messages /\ p.group = GroupOf(p.head) /\ Start \in GroupOf(p.head)
    BY <1>2, <1>4 DEF Knows, Post
  <2>2. GroupOf(p.head) \in Albums /\ p.head \in GroupOf(p.head)
    BY <2>1, GroupFacts
  <2>3. p.head \leq Start <=> Start \leq Start
    BY <2>1, <2>2, FeedAssumption
  <2>4. QED
    BY <1>1, <1>2, <2>3 DEF Reached, Messages
<1>5. QED
  BY <1>3, <1>4

\* The fetch of the join backfill reaches back to it.
LEMMA FetchReaches ==
  ASSUME IInv, Begun, Reaches, job["join"].pc = "fetch"
  PROVE  Start \in Newest(Posted, JoinLimit)
<1>1. posted \in Int /\ posted \leq LastMessage /\ Start \in Int /\ LastMessage \in Int
      /\ JoinLimit \in Int /\ 1 \leq Start /\ Start \leq posted
  BY FeedAssumption, LimitAssumption, PostedType DEF IInv, TypeInv, TypeOK, FeedTypeOK, Begun,
     Reaches
<1>2. Start \in Posted
  BY <1>1 DEF Posted
<1>3. PICK above : above = (Start + 1)..posted
  OBVIOUS
<1>4. {k \in Posted : k > Start} = above
  BY <1>1, <1>3 DEF Posted
<1>5. Cardinality(above) = IF Start + 1 > posted THEN 0 ELSE posted - (Start + 1) + 1
  BY <1>1, <1>3, FS_Interval
<1>6. Cardinality(above) < JoinLimit
  BY <1>1, <1>5, LimitAssumption DEF Reaches
<1>7. QED
  BY <1>2, <1>4, <1>6 DEF Newest

\* The join backfill brings a post from before the join, and every pass begins
\* at or below one.
LEMMA ReachKeeps ==
  ASSUME IInv, IInv', ~Recovery, Begun, Reaches, ReachInv, [Next]_vars
  PROVE  ReachInv'
<1>1. Reached => Reached'
  BY ReachedKeeps
<1>2. /\ "join" \in Jobs /\ "history" \in Jobs /\ TypeInv /\ JobTypeOK /\ StoreInv'
      /\ Posted \subseteq Messages
  BY PostedType DEF Jobs, IInv, TypeInv, TypeOK
<1>3. sub' = "active" => Reached'
  <2>1. CASE sub' = sub
    BY <1>1, <2>1 DEF ReachInv
  <2>2. CASE sub' # sub
    <3>1. Join
      BY <2>2 DEF Next, Channel, Live, History, Tool, Boot, Reader, Clock, Crash, vars
    <3>2. Ingested("join")
      BY <2>2, <3>1 DEF Join, JoinStep, JoinFetch, JoinDone, JoinFails
    <3>3. QED
      BY <1>1, <3>2 DEF Ingested, ReachInv
  <2>3. QED
    BY <2>1, <2>2
<1>4. job'["join"].pc \in {"ingest", "write"} => Reached' \/ \E i \in job'["join"].todo : Start \in i
  <2>1. CASE job'["join"] = job["join"]
    BY <1>1, <2>1 DEF ReachInv
  <2>2. CASE job'["join"] # job["join"]
    <3>1. Moves("join")
      BY <1>2, <2>2, JobSteps
    <3>2. CASE Rests("join")
      BY <3>2 DEF Rests, At, State
    <3>3. ASSUME NEW S \in SUBSET Messages, Fetches("join", S)
          PROVE  \E i \in job'["join"].todo : Start \in i
      <4>1. Start \in S /\ job'["join"].todo = Items(S)
        BY <3>3, FetchReaches DEF Fetches, State
      <4>2. QED
        BY <4>1, ItemsFacts
    <3>4. ASSUME NEW item, NEW seen, LooksUp("join", item, seen)
          PROVE  Reached \/ \E i \in job'["join"].todo : Start \in i
      BY <3>4 DEF LooksUp, State, ReachInv
    <3>5. ASSUME Commits("join")
          PROVE  Reached' \/ \E i \in job'["join"].todo : Start \in i
      <4>1. PICK item : item = job["join"].item
        OBVIOUS
      <4>2. PICK seen : seen = job["join"].seen
        OBVIOUS
      <4>3. job'["join"].todo = job["join"].todo \ {item} /\ job["join"].pc = "write"
        BY <3>5, <4>1 DEF Commits, State
      <4>4. StoreInv /\ ItemInv(item) /\ SeenInv(item, seen) /\ seen \in {NothingFound} \cup Found
            /\ Upsert(item, seen) /\ Posted \subseteq Posted'
        BY <3>5, <4>1, <4>2, BegunKeeps DEF Commits, IInv
      <4>5. \A m \in item : Stored(m)'
        BY <4>4, UpsertStores
      <4>6. Start \in item => Reached'
        BY <1>2, <4>5, StoredReaches DEF Reaches
      <4>7. QED
        BY <1>1, <4>3, <4>6 DEF ReachInv
    <3>6. QED
      BY <1>1, <3>1, <3>2, <3>3, <3>4, <3>5 DEF Moves
  <2>3. QED
    BY <2>1, <2>2
<1>5. job'["history"].pc # "idle" => job'["history"].cursor \leq Start
  <2>1. CASE job'["history"] = job["history"]
    BY <2>1 DEF ReachInv
  <2>2. CASE job'["history"] # job["history"]
    <3>1. Moves("history")
      BY <1>2, <2>2, JobSteps
    <3>2. ASSUME Rests("history"), job'["history"].pc # "idle"
          PROVE  job'["history"].cursor \leq Start
      <4>1. PICK pc \in {"idle", "selected", "fetch"}, c \in 0..LastMessage :
              /\ job'["history"] = At(pc, c)
              /\ pc # "idle" =>
                   \/ pc = "selected" /\ Cursor(c) /\ sub = "active"
                   \/ pc = "fetch" /\ job["history"].pc = "selected" /\ c = job["history"].cursor
        BY <3>2 DEF Rests
      <4>2. job'["history"].pc = pc /\ job'["history"].cursor = c
        BY <4>1 DEF At, State
      <4>3. CASE pc = "selected" /\ Cursor(c) /\ sub = "active"
        <5>1. PICK q \in posts : q.head \leq Start
          BY <4>3 DEF ReachInv, Reached
        <5>2. q.head \in Int /\ Start \in Int /\ c \in Int /\ q.head \in {p.head : p \in posts}
          BY <5>1, FeedAssumption DEF IInv, TypeInv, TypeOK, PostTypeOK, Post, Messages
        <5>3. CASE oldestSeen # 0
          BY <4>2, <4>3, <5>3 DEF Cursor, ReachInv
        <5>4. CASE oldestSeen = 0
          BY <4>2, <4>3, <5>1, <5>2, <5>4 DEF Cursor, Oldest
        <5>5. QED
          BY <5>3, <5>4
      <4>4. CASE pc = "fetch" /\ job["history"].pc = "selected" /\ c = job["history"].cursor
        BY <4>2, <4>4 DEF ReachInv
      <4>5. QED
        BY <3>2, <4>1, <4>2, <4>3, <4>4
    <3>3. ASSUME NEW S \in SUBSET Messages, Fetches("history", S)
          PROVE  job'["history"].cursor \leq Start
      BY <3>3 DEF Fetches, State, ReachInv
    <3>4. ASSUME NEW item, NEW seen, LooksUp("history", item, seen)
          PROVE  job'["history"].cursor \leq Start
      BY <3>4 DEF LooksUp, State, ReachInv
    <3>5. ASSUME Commits("history")
          PROVE  job'["history"].cursor \leq Start
      BY <3>5 DEF Commits, State, ReachInv
    <3>6. QED
      BY <3>1, <3>2, <3>3, <3>4, <3>5 DEF Moves
  <2>3. QED
    BY <2>1, <2>2
<1>6. oldestSeen' \leq Start
  <2>1. CASE oldestSeen' = oldestSeen
    BY <2>1 DEF ReachInv
  <2>2. CASE FetchFails
    BY <2>2 DEF FetchFails, ReachInv
  <2>3. CASE Release
    <3>1. PICK m \in job["history"].batch : Oldest(m, job["history"].batch) /\ oldestSeen' = m
      BY <2>3 DEF Release
    <3>2. m \in Messages /\ job["history"].cursor \in Messages /\ m < job["history"].cursor
      BY <2>3, <3>1, BatchStored DEF Release
    <3>3. job["history"].cursor \leq Start
      BY <2>3 DEF Release, Ingested, ReachInv
    <3>4. QED
      BY <3>1, <3>2, <3>3, FeedAssumption DEF Messages
  <2>4. QED
    BY <2>1, <2>2, <2>3, CursorMoves
<1>7. QED
  BY <1>3, <1>4, <1>5, <1>6 DEF ReachInv

--------------------------------------------------------------------------------
(* No answer goes wrong *)

\* Nothing here is about anything but the tables.
LEMMA SameTables ==
  ASSUME UNCHANGED postVars
  PROVE  /\ \A k : Shared(k) => Shared(k)'
         /\ \A k, answer : Sure(k, answer) => Sure(k, answer)'
         /\ \A k, answer : Enough(k, answer) => Enough(k, answer)'
BY DEF postVars, Shared, Sure, Enough, Whole, Files, Rows, Untagged

\* A job that is idle may begin, and no more.
LEMMA IdleRests ==
  ASSUME IInv, ~Recovery, [Next]_vars, NEW j \in Jobs, job[j] = Idle
  PROVE  job'[j].todo = {} /\ job'[j].pc # "write" /\ (j = "join" => job'[j].pc = "idle")
<1>1. CASE job'[j] = job[j]
  BY <1>1 DEF Idle, At, State
<1>2. CASE job'[j] # job[j]
  <2>1. job[j].pc = "idle"
    BY DEF Idle, At, State
  <2>2. Moves(j)
    BY <1>2, JobSteps
  <2>3. Rests(j)
    BY <2>1, <2>2 DEF Moves, Fetches, LooksUp, Commits
  <2>4. PICK pc \in {"idle", "selected", "fetch"}, c \in 0..LastMessage :
          job'[j] = At(pc, c) /\ (pc # "idle" => j \in {"history", "catchup"})
    BY <2>3 DEF Rests
  <2>5. QED
    BY <2>4 DEF At, State
<1>3. QED
  BY <1>1, <1>2

\* An item a live handler or a backfill is at work on.
LEMMA ItemsAreOldOrNew ==
  ASSUME IInv, RefusalInv
  PROVE  /\ \A e \in events : New(e.item)
         /\ \A j \in {"join", "history"} : job[j].pc = "write" => Old(job[j].item) \/ New(job[j].item)
<1>1. \A k : Shared(k) => New(k)
  BY DEF Shared, New
<1>2. \A j \in {"join", "history"} : job[j].pc = "write" => job[j].item \in job[j].todo
  BY DEF IInv, WritersInv, JobInv, Jobs
<1>3. QED
  BY <1>1, <1>2 DEF RefusalInv, New

\* A shared album stays as shared, unless the boot is at work, which shares
\* none.
LEMMA SharedStays ==
  ASSUME IInv, ~Recovery, RefusalInv, [Next]_vars
  PROVE  \/ \A k : Shared(k) => Shared(k)'
         \/ /\ events' = {} /\ job["join"] = Idle /\ job["history"] = Idle
            /\ job'["catchup"].pc # "write"
<1>1. CASE UNCHANGED postVars
  BY <1>1, SameTables
<1>2. ASSUME phase \in {"heal", "merge"}, job' = job, events' = events
      PROVE  /\ events' = {} /\ job["join"] = Idle /\ job["history"] = Idle
             /\ job'["catchup"].pc # "write"
  BY <1>2 DEF IInv, PhaseInv, Idle, At, State
<1>3. ASSUME NEW j \in Jobs, Commits(j), events' = events
      PROVE  \/ \A k : Shared(k) => Shared(k)'
             \/ /\ events' = {} /\ job["join"] = Idle /\ job["history"] = Idle
                /\ job'["catchup"].pc # "write"
  <2>1. /\ j # "recovery" /\ \A k \in Jobs \ {j} : job[k] = Idle
        /\ j = "catchup" => events = {} /\ phase = "catchup"
    BY <1>3, OneAtWork DEF Commits
  <2>2. CASE j = "catchup"
    BY <1>3, <2>1, <2>2 DEF Commits, State, Jobs
  <2>3. CASE j \in {"join", "history"}
    <3>1. PICK item : item = job[j].item
      OBVIOUS
    <3>2. PICK seen : seen = job[j].seen
      OBVIOUS
    <3>3. StoreInv /\ ItemInv(item) /\ SeenInv(item, seen) /\ seen \in {NothingFound} \cup Found
          /\ Upsert(item, seen) /\ (Old(item) \/ New(item))
      BY <1>3, <2>3, <3>1, <3>2, ItemsAreOldOrNew DEF Commits, IInv
    <3>4. QED
      BY <3>3, SharedKeeps
  <2>4. QED
    BY <2>1, <2>2, <2>3 DEF Jobs
<1>4. ASSUME NEW e \in events, HandlerWrites(e) PROVE \A k : Shared(k) => Shared(k)'
  <2>1. PICK item : item = e.item
    OBVIOUS
  <2>2. PICK seen : seen = e.seen
    OBVIOUS
  <2>3. StoreInv /\ ItemInv(item) /\ SeenInv(item, seen) /\ seen \in {NothingFound} \cup Found
        /\ Upsert(item, seen) /\ New(item)
    BY <1>4, <2>1, <2>2, ItemsAreOldOrNew, WriterFacts DEF HandlerWrites, IInv
  <2>4. QED
    BY <2>3, SharedKeeps
<1>5. QED
  BY <1>1, <1>2, <1>3, <1>4, TableSteps DEF Heal, MergeAlbum

\* What Telegram sends is a message, or an album that nobody has seen.
LEMMA DispatchIsShared ==
  ASSUME IInv, Begun, NEW item \in Items(Messages), Dispatch(item)
  PROVE  Group(item) = {} \/ Shared(item)
<1>1. item \subseteq Messages /\ Together(item)
  BY ItemsFacts
<1>2. posted + 1 \in item /\ posted \in Int /\ Start \in Int
  BY PostedType, FeedAssumption DEF Dispatch, Publish, IInv, TypeInv, TypeOK
<1>3. CASE item \in Albums
  <2>1. item \cap 1..Start = {}
    <3>1. ASSUME NEW m \in item PROVE ~(m \leq Start)
      <4>1. m \leq Start <=> posted + 1 \leq Start
        BY <1>2, <1>3, FeedAssumption
      <4>2. QED
        BY <1>2, <4>1 DEF Begun
    <3>2. QED
      BY <3>1
  <2>2. ASSUME NEW p \in posts, p.group = item PROVE FALSE
    <3>1. p.head \in item /\ p.head \in Posted
      <4>1. p.group # {} /\ Knows(p) /\ p.head \in Posted
        BY <1>2, <2>2 DEF IInv, StoreInv, UpStored
      <4>2. p.head \in Messages
        BY <4>1, PostedType DEF IInv, TypeInv, TypeOK
      <4>3. QED
        BY <2>2, <4>1, <4>2, GroupFacts DEF Knows
    <3>2. item \subseteq Posted
      BY <1>2, <1>3, <3>1 DEF IInv, TypeInv, WholeAlbums, Posted
    <3>3. QED
      BY <1>2, <3>2 DEF Posted
  <2>3. QED
    BY <1>3, <2>1, <2>2 DEF Shared
<1>4. CASE item \notin Albums
  <2>1. ASSUME NEW A \in Albums, item = A \cap Messages PROVE FALSE
    <3>1. A \subseteq Messages
      BY FeedAssumption
    <3>2. A \cap Messages = A
      BY <3>1
    <3>3. QED
      BY <1>4, <2>1, <3>2
  <2>2. PICK m \in Messages : item = {m} /\ GroupOf(m) = {}
    BY <2>1 DEF Items
  <2>3. Group(item) = {}
    BY <2>2 DEF Group
  <2>4. QED
    BY <2>3
<1>5. QED
  BY <1>3, <1>4

\* The items of a batch.
LEMMA BatchItem ==
  ASSUME NEW S \in SUBSET Messages, NEW i \in Items(S)
  PROVE  Group(i) = {} \/ (i # {} /\ \E A \in Albums : i = A \cap S)
<1>1. CASE \E A \in Albums : i = A \cap S
  <2>1. i # {}
    BY ItemsFacts DEF Together
  <2>2. QED
    BY <1>1, <2>1
<1>2. CASE ~\E A \in Albums : i = A \cap S
  <2>1. PICK m \in S : i = {m} /\ GroupOf(m) = {}
    BY <1>2 DEF Items
  <2>2. QED
    BY <2>1 DEF Group
<1>3. QED
  BY <1>1, <1>2

\* An album is from before the join or after it.
LEMMA AlbumSide ==
  ASSUME NEW A \in Albums
  PROVE  A \subseteq 1..Start \/ A \cap 1..Start = {}
<1>1. A \subseteq Messages /\ Start \in Int
  BY FeedAssumption
<1>2. ASSUME NEW m \in A, m \leq Start, NEW k \in A PROVE k \in 1..Start
  <2>1. k \leq Start
    BY <1>2, FeedAssumption
  <2>2. QED
    BY <1>1, <2>1 DEF Messages
<1>3. QED
  BY <1>1, <1>2

\* The join backfill divides no album posted since the join.
LEMMA FetchIsShared ==
  ASSUME IInv, Begun, JoinReachesBack, job["join"].pc = "fetch",
         \A p \in posts : p.group # {} => Whole(p),
         NEW i \in Items(Newest(Posted, JoinLimit))
  PROVE  Old(i) \/ Shared(i)
<1>1. PICK S : S = Newest(Posted, JoinLimit)
  OBVIOUS
<1>2. S \subseteq Posted /\ S \in SUBSET Messages /\ Posted \subseteq Messages /\ i \in Items(S)
  BY <1>1, PostedType DEF IInv, TypeInv, TypeOK, Newest
<1>3. CASE Group(i) = {}
  BY <1>3 DEF Old
<1>4. CASE Group(i) # {}
  <2>1. PICK A \in Albums : i # {} /\ i = A \cap S
    BY <1>2, <1>4, BatchItem
  <2>2. PICK m \in i : m \in A /\ m \in S
    BY <2>1
  <2>3. CASE A \subseteq 1..Start
    BY <2>1, <2>3 DEF Old
  <2>4. CASE ~(A \subseteq 1..Start)
    <3>1. A \cap 1..Start = {}
      BY <2>4, AlbumSide
    <3>2. Start \in S
      BY <1>1, <2>4, FetchReaches DEF JoinReachesBack, AlbumsAreOld
    <3>3. A \subseteq Posted
      <4>1. m \in Posted /\ posted \in Int
        BY <1>2, <2>2, PostedType DEF IInv, TypeInv, TypeOK
      <4>2. m \leq posted
        BY <4>1 DEF Posted
      <4>3. QED
        BY <2>2, <4>2 DEF IInv, TypeInv, WholeAlbums
    <3>4. ASSUME NEW k \in A PROVE k \in S
      <4>1. k \in Posted /\ Start < k
        BY <3>1, <3>3, FeedAssumption DEF Posted
      <4>2. JoinLimit \in Nat
        BY LimitAssumption
      <4>3. QED
        BY <1>1, <1>2, <3>2, <4>1, <4>2, NewestIsUpward
    <3>5. i = A
      BY <2>1, <3>4
    <3>6. QED
      BY <3>1, <3>5, AlbumGroup DEF Shared
  <2>5. QED
    BY <2>3, <2>4
<1>5. QED
  BY <1>3, <1>4

\* The history backfill meets nothing that is newer than the join.
LEMMA OlderIsOld ==
  ASSUME IInv, AlbumsAreOld \/ ReachInv, job["history"].pc = "fetch",
         NEW i \in Items(Newest(Older, BatchSize))
  PROVE  Old(i)
<1>1. PICK S : S = Newest(Older, BatchSize)
  OBVIOUS
<1>2. S \subseteq Older /\ S \in SUBSET Messages /\ i \in Items(S)
  BY <1>1, PostedType DEF IInv, TypeInv, TypeOK, Newest, Older
<1>3. CASE AlbumsAreOld
  BY <1>2, <1>3, BatchItem DEF Old, AlbumsAreOld
<1>4. CASE ReachInv
  <2>1. job["history"].cursor \leq Start /\ job["history"].cursor \in 0..LastMessage
    BY <1>4, JobFields DEF ReachInv, IInv, TypeInv, TypeOK, Jobs
  <2>2. S \subseteq 1..Start
    BY <1>2, <2>1, FeedAssumption DEF Older, Posted, Messages
  <2>3. i \subseteq S
    BY <1>2, ItemsFacts
  <2>4. QED
    BY <2>2, <2>3 DEF Old
<1>5. QED
  BY <1>3, <1>4

\* A job's answer stays good while it waits to write.
LEMMA AnswerStaysSure ==
  ASSUME IInv, ~Recovery, RefusalInv, [Next]_vars, NEW j \in {"join", "history", "catchup"},
         job[j].pc = "write", job'[j] = job[j], Sure(job[j].item, job[j].seen),
         j = "catchup" \/ Old(job[j].item)
  PROVE  Sure(job[j].item, job[j].seen)'
<1>1. j \in Jobs /\ Idle.pc = "idle"
  BY DEF Jobs, Idle, At, State
<1>2. /\ \A k \in Jobs \ {j} : job[k] = Idle
      /\ j = "catchup" => events = {} /\ phase = "catchup"
  BY <1>1, OneAtWork
<1>3. phase \notin {"heal", "merge"}
  BY <1>1 DEF IInv, PhaseInv
<1>4. ASSUME NEW k \in Jobs, Commits(k) PROVE FALSE
  BY <1>1, <1>2, <1>4 DEF Commits, State
<1>5. PICK mine : mine = job[j].item
  OBVIOUS
<1>6. PICK answer : answer = job[j].seen
  OBVIOUS
<1>7. job'[j].item = mine /\ job'[j].seen = answer /\ Sure(mine, answer)
      /\ ItemInv(mine) /\ SeenInv(mine, answer)
  BY <1>1, <1>5, <1>6, WriterFacts
<1>8. Sure(mine, answer)'
  <2>1. CASE UNCHANGED postVars
    BY <1>7, <2>1, SameTables
  <2>2. ASSUME NEW e \in events, HandlerWrites(e) PROVE Sure(mine, answer)'
    <3>1. PICK item : item = e.item
      OBVIOUS
    <3>2. PICK seen : seen = e.seen
      OBVIOUS
    <3>3. StoreInv /\ ItemInv(item) /\ SeenInv(item, seen) /\ seen \in {NothingFound} \cup Found
          /\ Upsert(item, seen) /\ New(item)
      BY <2>2, <3>1, <3>2, ItemsAreOldOrNew, WriterFacts DEF HandlerWrites, IInv
    <3>4. Old(mine)
      BY <1>2, <1>5, <2>2
    <3>5. QED
      BY <1>7, <3>3, <3>4, SureKeeps
  <2>3. QED
    BY <1>3, <1>4, <2>1, <2>2, TableSteps DEF Heal, MergeAlbum
<1>9. QED
  BY <1>7, <1>8

\* What its move leaves a job with.
LEMMA WhichMove ==
  ASSUME NEW j, Moves(j)
  PROVE  /\ \A i \in job'[j].todo \ job[j].todo :
              \E S \in SUBSET Messages : Fetches(j, S) /\ i \in Items(S)
         /\ job'[j].pc = "write" =>
              \E item, seen :
                LooksUp(j, item, seen) /\ job'[j].item = item /\ job'[j].seen = seen
         /\ j = "join" => job'[j].pc # "fetch"
<1>1. CASE Rests(j)
  <2>1. /\ job'[j].todo = {} /\ job'[j].pc \in {"idle", "selected", "fetch"}
        /\ j = "join" => job'[j].pc = "idle"
    <3>1. PICK pc \in {"idle", "selected", "fetch"}, c \in 0..LastMessage :
            job'[j] = At(pc, c) /\ (pc # "idle" => j \in {"history", "catchup"})
      BY <1>1 DEF Rests
    <3>2. QED
      BY <3>1 DEF At, State
  <2>2. QED
    BY <2>1
<1>2. ASSUME NEW S \in SUBSET Messages, Fetches(j, S)
      PROVE  job'[j].todo = Items(S) /\ job'[j].pc = "ingest"
  BY <1>2 DEF Fetches, State
<1>3. ASSUME NEW item, NEW seen, LooksUp(j, item, seen)
      PROVE  /\ job'[j].todo = job[j].todo /\ job'[j].pc = "write"
             /\ job'[j].item = item /\ job'[j].seen = seen
  BY <1>3 DEF LooksUp, State
<1>4. CASE Commits(j)
  BY <1>4 DEF Commits, State
<1>5. CASE \E S \in SUBSET Messages : Fetches(j, S)
  BY <1>2, <1>5
<1>6. CASE \E item, seen : LooksUp(j, item, seen)
  BY <1>3, <1>6
<1>7. \/ Rests(j) \/ Commits(j)
      \/ \E S \in SUBSET Messages : Fetches(j, S)
      \/ \E item, seen : LooksUp(j, item, seen)
  BY DEF Moves
<1>8. QED
  BY <1>1, <1>4, <1>5, <1>6, <1>7

\* Each part of the invariant on its own, where shared albums stay shared.
LEMMA EventsKeep ==
  ASSUME IInv, Begun, RefusalInv, [Next]_vars, \A k : Shared(k) => Shared(k)', NEW e \in events'
  PROVE  /\ Group(e.item) = {} \/ Shared(e.item)'
         /\ e.pc = "write" /\ e.seen.found => e.item \subseteq e.seen.files
<1>1. CASE e \in events
  BY <1>1 DEF RefusalInv
<1>2. ASSUME NEW item \in Items(Messages), Dispatch(item), e.item = item, e.pc = "new"
      PROVE  Group(e.item) = {} \/ Shared(e.item)'
  BY <1>2, DispatchIsShared
<1>3. ASSUME NEW f \in events, e.item = f.item, e.seen \in Readings(e.item)
      PROVE  /\ Group(e.item) = {} \/ Shared(e.item)'
             /\ e.seen.found => e.item \subseteq e.seen.files
  <2>1. Group(e.item) = {} \/ Shared(e.item)
    BY <1>3 DEF RefusalInv
  <2>2. CASE Group(e.item) = {}
    BY <1>3, <2>2 DEF Readings, AlbumPosts, NothingFound
  <2>3. CASE Shared(e.item)
    <3>1. PICK item : item = e.item
      OBVIOUS
    <3>2. PICK seen \in Readings(item) : seen = e.seen
      BY <1>3, <3>1
    <3>3. Enough(item, seen)
      BY <2>3, <3>1, AnswerIsSure DEF IInv
    <3>4. QED
      BY <2>3, <3>1, <3>2, <3>3 DEF Enough
  <2>4. QED
    BY <2>1, <2>2, <2>3
<1>4. QED
  BY <1>1, <1>2, <1>3, EventSteps

\* What the join backfill has left is old, or shared.
LEMMA JoinTodoKeeps ==
  ASSUME IInv, ~Recovery, JoinReachesBack, Begun, RefusalInv, [Next]_vars,
         \A k : Shared(k) => Shared(k)', NEW i \in job'["join"].todo
  PROVE  Old(i) \/ Shared(i)'
<1>1. CASE i \in job["join"].todo
  BY <1>1 DEF RefusalInv
<1>2. CASE i \notin job["join"].todo
  <2>1. Moves("join")
    BY <1>2, JobSteps DEF Jobs
  <2>2. PICK S \in SUBSET Messages : Fetches("join", S) /\ i \in Items(S)
    BY <1>2, <2>1, WhichMove
  <2>3. i \in Items(Newest(Posted, JoinLimit)) /\ job["join"].pc = "fetch"
    BY <2>2 DEF Fetches
  <2>4. Old(i) \/ Shared(i)
    BY <2>3, FetchIsShared DEF RefusalInv
  <2>5. QED
    BY <2>4
<1>3. QED
  BY <1>1, <1>2

\* What a pass has left is old.
LEMMA HistoryTodoKeeps ==
  ASSUME IInv, ~Recovery, AlbumsAreOld \/ ReachInv, RefusalInv, [Next]_vars,
         NEW i \in job'["history"].todo
  PROVE  Old(i)
<1>1. CASE i \in job["history"].todo
  BY <1>1 DEF RefusalInv
<1>2. CASE i \notin job["history"].todo
  <2>1. Moves("history")
    BY <1>2, JobSteps DEF Jobs
  <2>2. PICK S \in SUBSET Messages : Fetches("history", S) /\ i \in Items(S)
    BY <1>2, <2>1, WhichMove
  <2>3. i \in Items(Newest(Older, BatchSize)) /\ job["history"].pc = "fetch"
    BY <2>2 DEF Fetches
  <2>4. QED
    BY <2>3, OlderIsOld
<1>3. QED
  BY <1>1, <1>2

\* A job that has just looked its item up.
LEMMA NewAnswer ==
  ASSUME IInv, ~Recovery, [Next]_vars, NEW j \in Jobs, job'[j] # job[j], job'[j].pc = "write"
  PROVE  \E item, seen :
           /\ item \in job[j].todo /\ seen \in Readings(item) /\ UNCHANGED postVars
           /\ job'[j].item = item /\ job'[j].seen = seen
<1>1. Moves(j)
  BY JobSteps
<1>2. PICK item, seen : LooksUp(j, item, seen) /\ job'[j].item = item /\ job'[j].seen = seen
  BY <1>1, WhichMove
<1>3. QED
  BY <1>2 DEF LooksUp

\* The answer a join backfill writes by is right, or need not be.
LEMMA JoinWriteKeeps ==
  ASSUME IInv, ~Recovery, RefusalInv, [Next]_vars, \A k : Shared(k) => Shared(k)',
         job'["join"].pc = "write"
  PROVE  \/ Old(job'["join"].item) /\ Sure(job["join"].item, job["join"].seen)'
         \/ Enough(job["join"].item, job["join"].seen)'
<1>1. CASE job'["join"] = job["join"]
  <2>1. CASE Old(job["join"].item) /\ Sure(job["join"].item, job["join"].seen)
    BY <1>1, <2>1, AnswerStaysSure
  <2>2. CASE Enough(job["join"].item, job["join"].seen)
    BY <1>1, <2>2 DEF Enough
  <2>3. QED
    BY <1>1, <2>1, <2>2 DEF RefusalInv
<1>2. CASE job'["join"] # job["join"]
  <2>1. PICK item, seen :
          /\ item \in job["join"].todo /\ seen \in Readings(item) /\ UNCHANGED postVars
          /\ job'["join"].item = item /\ job'["join"].seen = seen
    BY <1>2, NewAnswer DEF Jobs
  <2>2. Old(item) \/ Shared(item)
    BY <2>1 DEF RefusalInv
  <2>3. Sure(item, seen) /\ (Shared(item) => Enough(item, seen))
    BY <2>1, AnswerIsSure DEF IInv
  <2>4. Sure(item, seen)' /\ (Shared(item) => Enough(item, seen)')
    BY <2>1, <2>3, SameTables
  <2>5. QED
    BY <2>1, <2>2, <2>4
<1>3. QED
  BY <1>1, <1>2

\* The answer a pass or catch-up writes by is right.
LEMMA OtherWriteKeeps ==
  ASSUME IInv, ~Recovery, RefusalInv, [Next]_vars, NEW j \in {"history", "catchup"},
         job'[j].pc = "write"
  PROVE  Sure(job[j].item, job[j].seen)'
<1>1. j \in Jobs
  BY DEF Jobs
<1>2. CASE job'[j] = job[j]
  <2>1. job[j].pc = "write" /\ job[j].item \in job[j].todo
    BY <1>1, <1>2 DEF IInv, WritersInv, JobInv
  <2>2. j = "catchup" \/ Old(job[j].item)
    BY <2>1 DEF RefusalInv
  <2>3. QED
    BY <1>2, <2>1, <2>2, AnswerStaysSure DEF RefusalInv
<1>3. CASE job'[j] # job[j]
  <2>1. PICK item, seen :
          /\ item \in job[j].todo /\ seen \in Readings(item) /\ UNCHANGED postVars
          /\ job'[j].item = item /\ job'[j].seen = seen
    BY <1>1, <1>3, NewAnswer
  <2>2. Sure(item, seen)'
    BY <2>1, AnswerIsSure, SameTables DEF IInv
  <2>3. QED
    BY <2>1, <2>2
<1>4. QED
  BY <1>2, <1>3

\* Before the join backfill has fetched, only live handlers have written.
LEMMA JoinFetchKeeps ==
  ASSUME IInv, ~Recovery, RefusalInv, [Next]_vars, job'["join"].pc = "fetch",
         NEW q \in posts', q.group # {}
  PROVE  Whole(q)'
<1>1. "join" \in Jobs
  BY DEF Jobs
<1>2. job'["join"] = job["join"]
  <2>1. Moves("join") => job'["join"].pc # "fetch"
    BY WhichMove
  <2>2. QED
    BY <1>1, <2>1, JobSteps
<1>3. /\ \A k \in Jobs \ {"join"} : job[k] = Idle
      /\ phase \notin {"heal", "merge"} /\ Idle.pc = "idle"
  BY <1>1, <1>2, OneAtWork DEF IInv, PhaseInv, Idle, At, State
<1>4. \A p \in posts : p.group # {} => Whole(p)
  BY <1>2 DEF RefusalInv
<1>5. CASE UNCHANGED postVars
  BY <1>4, <1>5 DEF postVars, Whole, Files, Rows
<1>6. ASSUME NEW e \in events, HandlerWrites(e) PROVE Whole(q)'
  <2>1. PICK item : item = e.item
    OBVIOUS
  <2>2. PICK seen : seen = e.seen
    OBVIOUS
  <2>3. StoreInv /\ ItemInv(item) /\ SeenInv(item, seen) /\ seen \in {NothingFound} \cup Found
        /\ Upsert(item, seen) /\ (Group(item) = {} \/ Shared(item))
    BY <1>6, <2>1, <2>2, WriterFacts DEF HandlerWrites, IInv, RefusalInv
  <2>4. CASE q \in posts
    <3>1. Whole(q) /\ Files(q.head) \subseteq Files(q.head)'
      BY <1>4, <2>3, <2>4, UpsertPosts
    <3>2. QED
      BY <3>1 DEF Whole
  <2>5. CASE q \notin posts
    <3>1. q.group = Group(item) /\ Oldest(q.head, item) /\ item \subseteq Files(q.head)'
      BY <2>3, <2>5, UpsertPosts
    <3>2. Group(item) = item
      BY <2>3, <3>1, AlbumGroup DEF Shared
    <3>3. QED
      BY <3>1, <3>2 DEF Whole
  <2>6. QED
    BY <2>4, <2>5
<1>7. ASSUME NEW j \in Jobs, Commits(j) PROVE FALSE
  BY <1>2, <1>3, <1>7 DEF Commits
<1>8. QED
  BY <1>3, <1>5, <1>6, <1>7, TableSteps DEF Heal, MergeAlbum

\* The strengthening is inductive.
LEMMA RefusalKeeps ==
  ASSUME IInv, ~Recovery, JoinReachesBack, Begun, AlbumsAreOld \/ ReachInv,
         RefusalInv, [Next]_vars
  PROVE  RefusalInv'
<1>1. \A i \in job'["history"].todo : Old(i)
  BY HistoryTodoKeeps
<1>2. \A j \in {"history", "catchup"} : job'[j].pc = "write" => Sure(job[j].item, job[j].seen)'
  BY OtherWriteKeeps
<1>3. job'["join"].pc = "fetch" => \A p \in posts' : p.group # {} => Whole(p)'
  BY JoinFetchKeeps
<1>4. CASE \A k : Shared(k) => Shared(k)'
  <2>1. \A e \in events' :
          /\ Group(e.item) = {} \/ Shared(e.item)'
          /\ e.pc = "write" /\ e.seen.found => e.item \subseteq e.seen.files
    BY <1>4, EventsKeep
  <2>2. \A i \in job'["join"].todo : Old(i) \/ Shared(i)'
    BY <1>4, JoinTodoKeeps
  <2>3. job'["join"].pc = "write" =>
          \/ Old(job'["join"].item) /\ Sure(job["join"].item, job["join"].seen)'
          \/ Enough(job["join"].item, job["join"].seen)'
    BY <1>4, JoinWriteKeeps
  <2>4. QED
    BY <1>1, <1>2, <1>3, <2>1, <2>2, <2>3 DEF RefusalInv
<1>5. CASE events' = {} /\ job["join"] = Idle
  <2>1. job'["join"].todo = {} /\ job'["join"].pc # "write"
    BY <1>5, IdleRests DEF Jobs
  <2>2. QED
    BY <1>1, <1>2, <1>3, <1>5, <2>1 DEF RefusalInv
<1>6. QED
  BY <1>4, <1>5, SharedStays

\* It holds initially.
LEMMA RefusalAtFirst ==
  ASSUME Init
  PROVE  Begun /\ ReachInv /\ RefusalInv
<1>1. Start \in Int /\ 0 \leq Start
  BY FeedAssumption
<1>2. /\ \A j \in Jobs : job[j].todo = {} /\ job[j].pc \in {"idle", "fetch"}
      /\ job["history"].pc = "idle" /\ job["join"].pc \in {"idle", "fetch"}
  BY DEF Init, Idle, At, State, Jobs
<1>3. sub = "active" => Reached
  <2>1. ASSUME NEW m \in LegacyPosts PROVE Reached
    <3>1. PICK p : p = [head |-> m, group |-> {}]
      OBVIOUS
    <3>2. posts = {[head |-> k, group |-> {}] : k \in LegacyPosts}
      BY DEF Init
    <3>3. p \in posts /\ p.head = m
      BY <3>1, <3>2
    <3>4. m \leq Start
      BY <1>1, RecoveryAssumption
    <3>5. QED
      BY <3>3, <3>4 DEF Reached
  <2>2. QED
    BY <2>1 DEF Init
<1>4. \A p \in posts : p.group = {}
  BY DEF Init
<1>5. Begun /\ oldestSeen = 0 /\ events = {}
  BY <1>1 DEF Begun, Init, FeedInit, HistoryInit
<1>6. ReachInv
  BY <1>1, <1>2, <1>3, <1>5 DEF ReachInv, Jobs
<1>7. RefusalInv
  BY <1>2, <1>4, <1>5 DEF RefusalInv, Jobs
<1>8. QED
  BY <1>5, <1>6, <1>7

\* The writers share the tables safely: no unique index refuses an insert, so
\* that no job ends and no update is lost over one, whoever looks an album up
\* while another is about to write it.  An album that both the join backfill
\* and a live handler write is written whole by each; where the fetch of the
\* join backfill can end inside such an album, it is refused one.
THEOREM WritesNeverRefused ==
  LegacyInOrder /\ ~Recovery => (Spec /\ []JoinReachesBack => []NeverRefused)
<1> SUFFICES ASSUME LegacyInOrder, ~Recovery
             PROVE  Spec /\ []JoinReachesBack => []NeverRefused
  OBVIOUS
<1> DEFINE All == IInv /\ Begun /\ (AlbumsAreOld \/ ReachInv) /\ RefusalInv
<1>1. Init => All
  BY Opening, RefusalAtFirst
<1>2. All /\ JoinReachesBack /\ [Next]_vars => All'
  <2> SUFFICES ASSUME All, JoinReachesBack, [Next]_vars PROVE All'
    OBVIOUS
  <2>1. IInv' /\ Begun'
    BY NextKeeps, BegunKeeps DEF IInv
  <2>2. AlbumsAreOld \/ ReachInv'
    BY <2>1, ReachKeeps DEF JoinReachesBack
  <2>3. RefusalInv'
    BY RefusalKeeps
  <2>4. QED
    BY <2>1, <2>2, <2>3 DEF AlbumsAreOld
<1>3. All => NeverRefused
  <2> SUFFICES ASSUME All PROVE NeverRefused
    OBVIOUS
  <2>1. ASSUME NEW j \in Jobs, job[j].pc = "write" PROVE ~Refused(job[j].item, job[j].seen)
    <3>1. PICK item : item = job[j].item
      OBVIOUS
    <3>2. PICK seen : seen = job[j].seen
      OBVIOUS
    <3>3. ItemInv(item)
      BY <2>1, <3>1, WriterFacts
    <3>4. j # "recovery"
      BY <2>1, OneAtWork
    <3>5. Sure(item, seen) \/ Enough(item, seen)
      BY <2>1, <3>1, <3>2, <3>4 DEF RefusalInv, Jobs
    <3>6. QED
      BY <3>1, <3>2, <3>3, <3>5, NotRefused
  <2>2. ASSUME NEW e \in events, e.pc = "write" PROVE ~Refused(e.item, e.seen)
    <3>1. PICK item : item = e.item
      OBVIOUS
    <3>2. PICK seen : seen = e.seen
      OBVIOUS
    <3>3. ItemInv(item) /\ SeenInv(item, seen)
      BY <2>2, <3>1, <3>2, WriterFacts
    <3>4. /\ Group(item) = {} \/ Shared(item)
          /\ seen.found => item \subseteq seen.files
      BY <2>2, <3>1, <3>2 DEF RefusalInv
    <3>5. CASE Group(item) = {}
      <4>1. ~seen.found
        BY <3>3, <3>5 DEF SeenInv
      <4>2. ~Refused(item, seen)
        BY <3>5, <4>1 DEF Refused, Untagged
      <4>3. QED
        BY <3>1, <3>2, <4>2
    <3>6. CASE Shared(item)
      <4>1. Enough(item, seen)
        BY <3>4, <3>6 DEF Enough
      <4>2. ~Refused(item, seen)
        BY <3>3, <4>1, NotRefused
      <4>3. QED
        BY <3>1, <3>2, <4>2
    <3>7. QED
      BY <3>4, <3>5, <3>6
  <2>3. QED
    BY <2>1, <2>2 DEF NeverRefused
<1>4. QED
  BY <1>1, <1>2, <1>3, PTL DEF Spec

--------------------------------------------------------------------------------
(* The prefetch *)

(* Legacy posts are what one join backfill stored, before posts knew their   *)
(* group.                                                                    *)
LegacyFromJoin ==
  \/ LegacyPosts = {}
  \/ Start \in LegacyPosts /\ Cardinality(LegacyPosts) \leq JoinLimit

\* The album of item has a post.
HasPost(item) == \E p \in posts : p.group # {} /\ p.group = Group(item)

Count(s) == Cardinality(s.todo)

\* The newest message there was at the join is stored.
TopStored == Start = 0 \/ Stored(Start)

\* Room for what the join backfill, a history pass and catch-up have yet to
\* write.
JoinRoom(s) ==
  /\ s.pc = "fetch" => posts = {}
  /\ s.pc \in {"ingest", "write"} =>
       /\ IsFiniteSet(s.todo) /\ Cardinality(posts) + Count(s) \leq JoinLimit
       /\ TopStored \/ \E i \in s.todo : Start \in i

PassRoom(s) ==
  /\ s.pc \in {"selected", "fetch"} => Hungry
  /\ s.pc \in {"ingest", "write"} =>
       IsFiniteSet(s.todo) /\ Unread + Count(s) \leq UnreadThreshold + BatchSize

MissedRoom(s) ==
  /\ s.pc = "fetch" => \A k \in Posted : s.cursor < k => HasPost({k})
  /\ \A i \in s.todo : HasPost(i)
  /\ s.pc = "idle" => s.todo = {}
  /\ s.pc = "write" => s.seen.found

\* As long as nobody posts after the join.
RoomInv ==
  /\ IsFiniteSet(posts)
  /\ posted = Start =>
       /\ BufferIsBounded
       /\ Unmerged => Cardinality(posts) \leq JoinLimit
       /\ events = {}
       /\ sub = "active" => TopStored
       /\ JoinRoom(job["join"]) /\ PassRoom(job["history"]) /\ MissedRoom(job["catchup"])

--------------------------------------------------------------------------------
(* Counting posts and items *)

\* A batch is made of no more items than messages, and a limit limits it.
LEMMA ItemsCount ==
  ASSUME NEW S \in SUBSET Messages
  PROVE  IsFiniteSet(Items(S)) /\ Cardinality(Items(S)) \leq Cardinality(S)
<1> DEFINE Part(m) == IF GroupOf(m) = {} THEN {m} ELSE GroupOf(m) \cap S
<1>1. PICK f : f = [m \in S |-> Part(m)]
  OBVIOUS
<1>2. \A m \in S : f[m] = Part(m)
  BY <1>1
<1>3. \A m \in S : Part(m) \in Items(S)
  <2> SUFFICES ASSUME NEW m \in S PROVE Part(m) \in Items(S)
    OBVIOUS
  <2>1. CASE GroupOf(m) = {}
    BY <2>1 DEF Items
  <2>2. CASE GroupOf(m) # {}
    <3>1. GroupOf(m) \in Albums /\ m \in GroupOf(m)
      BY <2>2, GroupFacts
    <3>2. GroupOf(m) \cap S # {}
      BY <3>1
    <3>3. QED
      BY <2>2, <3>1, <3>2 DEF Items
  <2>3. QED
    BY <2>1, <2>2
<1>4. \A i \in Items(S) : \E m \in S : Part(m) = i
  <2> SUFFICES ASSUME NEW i \in Items(S) PROVE \E m \in S : Part(m) = i
    OBVIOUS
  <2>1. CASE \E m \in S : i = {m} /\ GroupOf(m) = {}
    BY <2>1
  <2>2. CASE ~\E m \in S : i = {m} /\ GroupOf(m) = {}
    <3>1. PICK A \in Albums : i = A \cap S
      BY <2>2 DEF Items
    <3>2. i # {}
      BY ItemsFacts DEF Together
    <3>3. PICK m \in i : m \in A /\ m \in S
      BY <3>1, <3>2
    <3>4. GroupOf(m) = A
      BY <3>3, AlbumOfMessage
    <3>5. Part(m) = i
      BY <3>1, <3>3, <3>4
    <3>6. QED
      BY <3>3, <3>5
  <2>3. QED
    BY <2>1, <2>2
<1> HIDE DEF Part
<1>5. f \in Surjection(S, Items(S))
  <2>1. f \in [S -> Items(S)]
    BY <1>1, <1>3
  <2>2. \A i \in Items(S) : \E m \in S : f[m] = i
    BY <1>2, <1>4
  <2>3. QED
    BY <2>1, <2>2 DEF Surjection
<1>6. IsFiniteSet(S)
  BY MessagesFinite
<1>7. QED
  BY <1>5, <1>6, FS_Surjection

\* A limit limits: the messages of a fetch have as many distinct numbers of
\* newer ones, all below it.
LEMMA NewestCount ==
  ASSUME NEW S \in SUBSET Messages, NEW n \in Nat
  PROVE  Cardinality(Newest(S, n)) \leq n
<1> DEFINE Above(m) == {k \in S : k > m}
           N == Newest(S, n)
<1>1. \A m \in S : IsFiniteSet(Above(m)) /\ Cardinality(Above(m)) \in Nat
  BY MessagesFinite
<1>2. PICK f : f = [m \in N |-> Cardinality(Above(m))]
  OBVIOUS
<1>3. \A m \in N : m \in S /\ m \in Int /\ f[m] = Cardinality(Above(m)) /\ f[m] \in 0..(n - 1)
  <2> SUFFICES ASSUME NEW m \in N
               PROVE  /\ m \in S /\ m \in Int
                      /\ f[m] = Cardinality(Above(m)) /\ f[m] \in 0..(n - 1)
    OBVIOUS
  <2>1. m \in S /\ Cardinality(Above(m)) < n
    BY DEF Newest
  <2>2. m \in Int
    BY <2>1 DEF Messages
  <2>3. f[m] = Cardinality(Above(m))
    BY <1>2
  <2>4. QED
    BY <1>1, <2>1, <2>2, <2>3
<1> HIDE DEF N
<1>4. \A m \in N : m \in S /\ m \in Int
  BY <1>3
<1>5. \A k \in S : k \in Int
  BY DEF Messages
<1>6. ASSUME NEW x \in N, NEW y \in N, x < y PROVE f[x] # f[y]
  <2>1. x \in Int /\ y \in Int /\ x \in S /\ y \in S
    BY <1>4
  <2>2. Above(y) \in SUBSET Above(x) /\ y \in Above(x) /\ y \notin Above(y)
    <3>1. \A k \in S : k > y => k > x
      BY <1>6, <1>5, <2>1
    <3>2. Above(y) \in SUBSET Above(x)
      BY <3>1
    <3>3. y \in Above(x) /\ y \notin Above(y)
      BY <1>6, <2>1
    <3>4. QED
      BY <3>2, <3>3
  <2>3. Cardinality(Above(x)) # Cardinality(Above(y))
    BY <1>1, <2>1, <2>2, FS_Subset
  <2>4. QED
    BY <1>3, <2>3
<1>7. \A x, y \in N : f[x] = f[y] => x = y
  <2> SUFFICES ASSUME NEW x \in N, NEW y \in N, x # y PROVE f[x] # f[y]
    OBVIOUS
  <2>1. x < y \/ y < x
    BY <1>4
  <2>2. QED
    BY <1>6, <2>1
<1>8. f \in Injection(N, 0..(n - 1))
  <2>1. f \in [N -> 0..(n - 1)]
    BY <1>2, <1>3
  <2>2. QED
    BY <1>7, <2>1 DEF Injection, IsInjective
<1>9. IsFiniteSet(0..(n - 1)) /\ Cardinality(0..(n - 1)) = n
  BY FS_Interval
<1>10. QED
  BY <1>8, <1>9, FS_Injection DEF N

\* What a fetch leaves to ingest is within its limit.
LEMMA BatchCount ==
  ASSUME NEW S \in SUBSET Messages, NEW n \in Nat
  PROVE  /\ IsFiniteSet(Items(Newest(S, n)))
         /\ Cardinality(Items(Newest(S, n))) \in Nat /\ Cardinality(Items(Newest(S, n))) \leq n
<1>1. PICK N : N = Newest(S, n)
  OBVIOUS
<1>2. N \in SUBSET Messages /\ Cardinality(N) \leq n
  BY <1>1, NewestCount DEF Newest
<1>3. Cardinality(N) \in Nat
  BY <1>2, MessagesFinite
<1>4. IsFiniteSet(Items(N)) /\ Cardinality(Items(N)) \leq Cardinality(N)
  BY <1>2, ItemsCount
<1>5. Cardinality(Items(N)) \in Nat
  BY <1>4, FS_CardinalityType
<1>6. QED
  BY <1>1, <1>2, <1>3, <1>4, <1>5

\* An upsert inserts at most one post, and none where one was found.
LEMMA UpsertCount ==
  ASSUME IsFiniteSet(posts), NEW item, NEW seen, Upsert(item, seen)
  PROVE  /\ IsFiniteSet(posts') /\ Cardinality(posts') \leq Cardinality(posts) + 1
         /\ seen.found => posts' = posts
<1>1. Cardinality(posts) \in Nat
  BY FS_CardinalityType
<1>2. CASE posts' = posts
  BY <1>1, <1>2
<1>3. CASE posts' # posts
  <2>1. PICK h \in item : posts' = posts \cup {[head |-> h, group |-> Group(item)]} /\ ~seen.found
    BY <1>3 DEF Upsert, InsertPost, AppendMedia, SkipDuplicate, postVars
  <2>2. PICK p : posts' = posts \cup {p} /\ ~seen.found
    BY <2>1
  <2>3. /\ IsFiniteSet(posts \cup {p})
        /\ Cardinality(posts \cup {p}) = IF p \in posts THEN Cardinality(posts)
                                          ELSE Cardinality(posts) + 1
    BY FS_AddElement
  <2>4. QED
    BY <1>1, <2>2, <2>3
<1>4. QED
  BY <1>2, <1>3

\* A merge leaves no more posts than there were.
LEMMA MergeCount ==
  ASSUME IsFiniteSet(posts), NEW A \in Albums, MergeAlbum(A)
  PROVE  IsFiniteSet(posts') /\ Cardinality(posts') \leq Cardinality(posts)
<1>1. PICK p \in Legacy(A) :
        posts' = (posts \ (Deleted(A, p) \cup {p})) \cup {[p EXCEPT !.group = A]}
  BY DEF MergeAlbum
<1>2. PICK t : t = [p EXCEPT !.group = A]
  OBVIOUS
<1>3. PICK rest : rest = posts \ (Deleted(A, p) \cup {p})
  OBVIOUS
<1>4. p \in posts /\ rest \in SUBSET (posts \ {p}) /\ posts' = rest \cup {t}
  BY <1>1, <1>2, <1>3 DEF Legacy
<1>5. PICK others : others = posts \ {p}
  OBVIOUS
<1>6. /\ IsFiniteSet(others)
      /\ Cardinality(others) = IF p \in posts THEN Cardinality(posts) - 1 ELSE Cardinality(posts)
  BY <1>5, FS_RemoveElement
<1>7. IsFiniteSet(rest) /\ Cardinality(rest) \leq Cardinality(others)
  BY <1>4, <1>5, <1>6, FS_Subset
<1>8. /\ IsFiniteSet(rest \cup {t})
      /\ Cardinality(rest \cup {t}) = IF t \in rest THEN Cardinality(rest) ELSE Cardinality(rest) + 1
  BY <1>7, FS_AddElement
<1>9. Cardinality(rest) \in Nat /\ Cardinality(posts) \in Nat
  BY <1>7, FS_CardinalityType
<1>10. Cardinality(rest \cup {t}) \leq Cardinality(posts)
  BY <1>4, <1>6, <1>7, <1>8, <1>9
<1>11. QED
  BY <1>4, <1>8, <1>10

\* Steps add a post at most.
LEMMA FiniteKeeps ==
  ASSUME IInv, ~Recovery, [Next]_vars, IsFiniteSet(posts)
  PROVE  IsFiniteSet(posts')
<1>1. ASSUME NEW j \in Jobs, Commits(j) PROVE IsFiniteSet(posts')
  BY <1>1, UpsertCount DEF Commits
<1>2. ASSUME NEW e \in events, HandlerWrites(e) PROVE IsFiniteSet(posts')
  BY <1>2, UpsertCount DEF HandlerWrites
<1>3. CASE posts' = posts
  BY <1>3
<1>4. QED
  BY <1>1, <1>2, <1>3, MergeCount, TableSteps DEF postVars, Heal

\* Readers read on; only a merge makes them read fewer posts.
LEMMA ReadsRise ==
  ASSUME TypeInv, [Next]_vars, ~\E A \in Albums : MergeAlbum(A)
  PROVE  reads \leq reads'
<1>1. reads \in Nat
  BY DEF TypeInv, TypeOK, HistoryTypeOK
<1>2. CASE reads' = reads
  BY <1>1, <1>2
<1>3. CASE reads' # reads
  <2>1. Reader
    <3>1. ~Boot
      BY <1>3 DEF Boot, BootStep, BeginBoot, FetchMissed, CaughtUp, Heal, Subscribe, BootFails
    <3>2. ~History
      BY <1>3 DEF History, HistoryStep, Select, TryAcquireLock, FetchOlder, Exhaust, Defer,
                  FetchFails, Release, PassFails, historyVars
    <3>3. ~(Channel \/ Live \/ Join \/ Tool \/ Clock \/ Crash \/ UNCHANGED vars)
      BY <1>3 DEF Channel, Live, Join, Tool, Clock, LockExpires, Crash, vars, historyVars
    <3>4. QED
      BY <3>1, <3>2, <3>3 DEF Next
  <2>2. PICK n \in (reads + 1)..Cardinality(posts) : reads' = n
    BY <2>1 DEF Reader, ReadOn
  <2>3. QED
    BY <1>1, <2>2
<1>4. QED
  BY <1>2, <1>3

\* What happens to the posts while nobody posts.
LEMMA QuietSteps ==
  ASSUME IInv, ~Recovery, RoomInv, posted = Start, [Next]_vars
  PROVE  \/ posts' = posts /\ reads \leq reads'
         \/ (\E A \in Albums : MergeAlbum(A)) /\ job' = job
         \/ /\ \E j \in {"join", "history"} : Commits(j)
            /\ reads \leq reads' /\ Cardinality(posts') \leq Cardinality(posts) + 1
<1>1. CASE \E A \in Albums : MergeAlbum(A)
  BY <1>1 DEF MergeAlbum
<1>2. CASE ~\E A \in Albums : MergeAlbum(A)
  <2>1. reads \leq reads'
    BY <1>2, ReadsRise DEF IInv
  <2>2. ASSUME NEW j \in Jobs, Commits(j)
        PROVE  \/ posts' = posts
               \/ j \in {"join", "history"} /\ Cardinality(posts') \leq Cardinality(posts) + 1
    <3>1. j # "recovery"
      BY <2>2, OneAtWork DEF Commits
    <3>2. j = "catchup" => job[j].seen.found
      BY <2>2 DEF Commits, RoomInv, MissedRoom
    <3>3. /\ Cardinality(posts') \leq Cardinality(posts) + 1
          /\ job[j].seen.found => posts' = posts
      BY <2>2, UpsertCount DEF Commits, RoomInv
    <3>4. QED
      BY <3>1, <3>2, <3>3 DEF Jobs
  <2>3. events = {}
    BY DEF RoomInv
  <2>4. QED
    BY <1>2, <2>1, <2>2, <2>3, TableSteps DEF postVars, Heal
<1>3. QED
  BY <1>1, <1>2

\* While a job is at work and does not write, the posts stay.
LEMMA OthersRest ==
  ASSUME IInv, ~Recovery, RoomInv, posted = Start, [Next]_vars,
         NEW j \in Jobs, job[j].pc # "idle", ~Commits(j)
  PROVE  posts' = posts /\ reads \leq reads'
<1>1. Idle.pc = "idle"
  BY DEF Idle, At, State
<1>2. \A k \in Jobs \ {j} : job[k].pc = "idle"
  BY <1>1, OneAtWork
<1>3. ~\E k \in {"join", "history"} : Commits(k)
  BY <1>2 DEF Commits, Jobs
<1>4. ~\E A \in Albums : MergeAlbum(A)
  BY <1>1, <1>2, MergeAlone
<1>5. QED
  BY <1>3, <1>4, QuietSteps

\* An item less to write.
LEMMA CountDown ==
  ASSUME NEW todo, IsFiniteSet(todo), NEW item \in todo
  PROVE  /\ IsFiniteSet(todo \ {item}) /\ Cardinality(todo) \in Nat
         /\ Cardinality(todo \ {item}) = Cardinality(todo) - 1 /\ 1 \leq Cardinality(todo)
<1>1. Cardinality(todo) \in Nat /\ Cardinality(todo) # 0
  BY FS_CardinalityType, FS_EmptySet
<1>2. QED
  BY <1>1, FS_RemoveElement

\* The counts are numbers.
LEMMA RoomTypes ==
  ASSUME IInv, RoomInv
  PROVE  /\ Cardinality(posts) \in Nat /\ reads \in Nat
         /\ JoinLimit \in Nat /\ BatchSize \in Nat /\ UnreadThreshold \in Nat
         /\ 0 < JoinLimit
BY FS_CardinalityType, LimitAssumption, ThresholdAssumption
   DEF RoomInv, IInv, TypeInv, TypeOK, HistoryTypeOK

\* The buffer stays bounded.
LEMMA BoundKeeps ==
  ASSUME IInv, IInv', ~Recovery, Begun, RoomInv, posted = Start, [Next]_vars
  PROVE  /\ Unread' \leq JoinLimit \/ Unread' \leq UnreadThreshold + BatchSize
         /\ Unmerged' => Cardinality(posts') \leq JoinLimit
<1>1. IsFiniteSet(posts')
  BY FiniteKeeps DEF RoomInv
<1>2. /\ Cardinality(posts) \in Nat /\ reads \in Nat /\ JoinLimit \in Nat
      /\ BatchSize \in Nat /\ UnreadThreshold \in Nat
  BY RoomTypes
<1>3. Cardinality(posts') \in Nat /\ reads' \in Nat
  BY <1>1, FS_CardinalityType DEF IInv, TypeInv, TypeOK, HistoryTypeOK
<1>4. /\ Unread \leq JoinLimit \/ Unread \leq UnreadThreshold + BatchSize
      /\ Unmerged => Cardinality(posts) \leq JoinLimit
  BY DEF RoomInv, BufferIsBounded
<1>5. Unread = Cardinality(posts) - reads /\ Unread' = Cardinality(posts') - reads'
  BY DEF Unread
<1>6. CASE posts' = posts /\ reads \leq reads'
  <2>1. Unread' \leq Unread
    BY <1>2, <1>3, <1>5, <1>6
  <2>2. Unmerged' = Unmerged
    BY <1>6 DEF Unmerged, Knows
  <2>3. QED
    BY <1>2, <1>3, <1>4, <1>5, <1>6, <2>1, <2>2
<1>7. CASE Cardinality(posts') \leq JoinLimit
  BY <1>2, <1>3, <1>5, <1>7
<1>8. ASSUME NEW A \in Albums, MergeAlbum(A) PROVE Cardinality(posts') \leq JoinLimit
  <2>1. PICK p \in Legacy(A) : TRUE
    BY <1>8 DEF MergeAlbum
  <2>2. Unmerged
    <3>1. p \in posts /\ p.group = {} /\ p.head \in A
      BY <2>1 DEF Legacy
    <3>2. GroupOf(p.head) = A /\ A # {}
      BY <3>1, AlbumOfMessage
    <3>3. QED
      BY <3>1, <3>2 DEF Unmerged, Knows
  <2>3. Cardinality(posts') \leq Cardinality(posts)
    BY <1>8, MergeCount DEF RoomInv
  <2>4. QED
    BY <1>2, <1>3, <1>4, <2>2, <2>3
<1>9. ASSUME Commits("join"), Cardinality(posts') \leq Cardinality(posts) + 1
      PROVE  Cardinality(posts') \leq JoinLimit
  <2>1. PICK todo : todo = job["join"].todo
    OBVIOUS
  <2>2. PICK item \in todo : TRUE
    BY <1>9, <2>1 DEF Commits
  <2>3. IsFiniteSet(todo) /\ Cardinality(posts) + Cardinality(todo) \leq JoinLimit
    BY <1>9, <2>1 DEF Commits, RoomInv, JoinRoom, Count
  <2>4. Cardinality(todo) \in Nat /\ 1 \leq Cardinality(todo)
    BY <2>2, <2>3, CountDown
  <2>5. QED
    BY <1>2, <1>3, <1>9, <2>3, <2>4
<1>10. ASSUME Commits("history"), Cardinality(posts') \leq Cardinality(posts) + 1,
              reads \leq reads'
       PROVE  Unread' \leq UnreadThreshold + BatchSize /\ ~Unmerged'
  <2>1. PICK todo : todo = job["history"].todo
    OBVIOUS
  <2>2. PICK item \in todo : TRUE
    BY <1>10, <2>1 DEF Commits
  <2>3. IsFiniteSet(todo) /\ Unread + Cardinality(todo) \leq UnreadThreshold + BatchSize
    BY <1>10, <2>1 DEF Commits, RoomInv, PassRoom, Count
  <2>4. Cardinality(todo) \in Nat /\ 1 \leq Cardinality(todo)
    BY <2>2, <2>3, CountDown
  <2>5. Unread' \leq UnreadThreshold + BatchSize
    BY <1>2, <1>3, <1>5, <1>10, <2>3, <2>4
  <2>6. phase = "live"
    BY <1>10 DEF IInv, PhaseInv, Commits, Idle, At, State
  <2>7. \A p \in posts : Knows(p)
    BY <2>6, LiveKnows
  <2>8. NewOnesKnow
    BY <1>10, BegunKeeps, UpsertStores DEF Commits, IInv
  <2>9. ~Unmerged'
    BY <2>7, <2>8 DEF NewOnesKnow, Unmerged, Knows
  <2>10. QED
    BY <2>5, <2>9
<1>11. QED
  BY <1>6, <1>7, <1>8, <1>9, <1>10, QuietSteps

--------------------------------------------------------------------------------
(* The room that is left *)

\* What was stored before the join stays so.
LEMMA TopStays ==
  ASSUME IInv, [Next]_vars, TopStored
  PROVE  TopStored'
<1>1. CASE Start = 0
  BY <1>1 DEF TopStored
<1>2. CASE Stored(Start)
  <2>1. PICK r \in media : r.file = Start
    BY <1>2 DEF Stored
  <2>2. PICK t \in media' : t.file = r.file
    BY <2>1, RowsStay
  <2>3. QED
    BY <2>1, <2>2 DEF TopStored, Stored
<1>3. QED
  BY <1>1, <1>2 DEF TopStored

\* The join backfill fetches the newest message there is.
LEMMA TopIsFetched ==
  ASSUME TypeInv, posted = Start, Start # 0
  PROVE  \E i \in Items(Newest(Posted, JoinLimit)) : Start \in i
<1>1. Start \in Int /\ 1 \leq Start /\ Start \in Posted /\ Posted \subseteq Messages
  BY FeedAssumption, PostedType DEF TypeInv, TypeOK, Posted
<1>2. {k \in Posted : k > Start} = {}
  BY <1>1 DEF Posted
<1>3. Cardinality({k \in Posted : k > Start}) < JoinLimit
  BY <1>2, FS_EmptySet, LimitAssumption
<1>4. PICK S : S = Newest(Posted, JoinLimit)
  OBVIOUS
<1>5. Start \in S /\ S \subseteq Messages
  BY <1>1, <1>3, <1>4 DEF Newest
<1>6. QED
  BY <1>4, <1>5, ItemsFacts

\* Each insert of the join backfill uses up one of its items.
LEMMA JoinRoomKeeps ==
  ASSUME IInv, ~Recovery, Begun, RoomInv, posted = Start, [Next]_vars
  PROVE  JoinRoom(job["join"])'
<1>1. "join" \in Jobs /\ Idle.pc = "idle"
  BY DEF Jobs, Idle, At, State
<1>2. PICK s : s = job["join"]
  OBVIOUS
<1>3. PICK t : t = job'["join"]
  OBVIOUS
<1>4. JoinRoom(s) /\ IsFiniteSet(posts)
  BY <1>2 DEF RoomInv
<1>5. /\ Cardinality(posts) \in Nat /\ JoinLimit \in Nat
  BY RoomTypes
<1>6. SUFFICES
        /\ t.pc = "fetch" => posts' = {}
        /\ t.pc \in {"ingest", "write"} =>
             /\ IsFiniteSet(t.todo) /\ Cardinality(posts') + Cardinality(t.todo) \leq JoinLimit
             /\ TopStored' \/ \E i \in t.todo : Start \in i
  BY <1>3 DEF JoinRoom, Count
<1>7. CASE t.todo = s.todo /\ posts' = posts
           /\ (t.pc \in {"ingest", "write"} => s.pc \in {"ingest", "write"})
           /\ (t.pc = "fetch" => s.pc = "fetch")
  BY <1>4, <1>7, TopStays DEF JoinRoom, Count
<1>8. CASE t = s
  <2>1. CASE s.pc \in {"idle", "selected"}
    BY <1>8, <2>1
  <2>2. CASE s.pc \notin {"idle", "selected"}
    <3>1. ~Commits("join")
      <4>1. Commits("join") => s.pc = "write" /\ t.pc = "ingest"
        BY <1>2, <1>3 DEF Commits, State
      <4>2. QED
        BY <1>8, <4>1
    <3>2. posts' = posts
      BY <1>1, <1>2, <2>2, <3>1, OthersRest
    <3>3. QED
      BY <1>7, <1>8, <3>2
  <2>3. QED
    BY <2>1, <2>2
<1>9. CASE t # s
  <2>1. Moves("join")
    BY <1>1, <1>2, <1>3, <1>9, JobSteps
  <2>2. CASE Rests("join")
    <3>1. t.pc = "idle"
      BY <1>3, <2>2 DEF Rests, At, State
    <3>2. QED
      BY <3>1
  <2>3. ASSUME NEW S \in SUBSET Messages, Fetches("join", S)
        PROVE  /\ t.pc = "ingest" /\ IsFiniteSet(t.todo)
               /\ Cardinality(posts') + Cardinality(t.todo) \leq JoinLimit
               /\ TopStored' \/ \E i \in t.todo : Start \in i
    <3>1. /\ t.pc = "ingest" /\ t.todo = Items(Newest(Posted, JoinLimit))
          /\ posts' = posts /\ posts = {}
      BY <1>2, <1>3, <1>4, <2>3 DEF Fetches, State, postVars, JoinRoom
    <3>2. Posted \in SUBSET Messages
      BY PostedType DEF IInv, TypeInv, TypeOK
    <3>3. /\ IsFiniteSet(t.todo) /\ Cardinality(t.todo) \in Nat /\ Cardinality(t.todo) \leq JoinLimit
      BY <1>5, <3>1, <3>2, BatchCount
    <3>4. Cardinality(posts') = 0
      BY <3>1, FS_EmptySet
    <3>5. TopStored' \/ \E i \in t.todo : Start \in i
      BY <3>1, TopIsFetched DEF TopStored, IInv
    <3>6. QED
      BY <1>5, <3>1, <3>3, <3>4, <3>5
  <2>4. ASSUME NEW item, NEW seen, LooksUp("join", item, seen)
        PROVE  t.todo = s.todo /\ posts' = posts /\ t.pc = "write" /\ s.pc = "ingest"
    BY <1>2, <1>3, <2>4 DEF LooksUp, State, postVars
  <2>5. ASSUME Commits("join")
        PROVE  /\ t.pc = "ingest" /\ IsFiniteSet(t.todo)
               /\ Cardinality(posts') + Cardinality(t.todo) \leq JoinLimit
               /\ TopStored' \/ \E i \in t.todo : Start \in i
    <3>1. PICK item : item = s.item
      OBVIOUS
    <3>2. PICK seen : seen = s.seen
      OBVIOUS
    <3>3. /\ t.pc = "ingest" /\ t.todo = s.todo \ {item} /\ item \in s.todo /\ s.pc = "write"
          /\ ItemInv(item) /\ SeenInv(item, seen) /\ seen \in {NothingFound} \cup Found
          /\ Upsert(item, seen)
      BY <1>2, <1>3, <2>5, <3>1, <3>2 DEF Commits, State
    <3>4. /\ IsFiniteSet(s.todo) /\ Cardinality(posts) + Cardinality(s.todo) \leq JoinLimit
          /\ TopStored \/ \E i \in s.todo : Start \in i
      BY <1>4, <3>3 DEF JoinRoom, Count
    <3>5. /\ IsFiniteSet(t.todo) /\ Cardinality(s.todo) \in Nat
          /\ Cardinality(t.todo) = Cardinality(s.todo) - 1
      BY <3>3, <3>4, CountDown
    <3>6. Cardinality(posts') \leq Cardinality(posts) + 1 /\ IsFiniteSet(posts')
      BY <1>4, <3>3, UpsertCount
    <3>7. Cardinality(posts') \in Nat
      BY <3>6, FS_CardinalityType
    <3>8. Cardinality(posts') + Cardinality(t.todo) \leq JoinLimit
      BY <1>5, <3>4, <3>5, <3>6, <3>7
    <3>9. \A m \in item : Stored(m)'
      BY <3>3, BegunKeeps, UpsertStores DEF IInv
    <3>10. TopStored' \/ \E i \in t.todo : Start \in i
      BY <3>3, <3>4, <3>9, TopStays DEF TopStored
    <3>11. QED
      BY <3>3, <3>5, <3>8, <3>10
  <2>6. CASE \E S \in SUBSET Messages : Fetches("join", S)
    BY <2>3, <2>6
  <2>7. CASE \E item, seen : LooksUp("join", item, seen)
    BY <1>7, <2>4, <2>7
  <2>8. QED
    BY <2>1, <2>2, <2>5, <2>6, <2>7 DEF Moves
<1>10. QED
  BY <1>8, <1>9

\* A pass fetches a batch when hungry; each of its inserts uses up an item.
LEMMA PassRoomKeeps ==
  ASSUME IInv, IInv', ~Recovery, Begun, RoomInv, posted = Start, [Next]_vars
  PROVE  PassRoom(job["history"])'
<1>1. "history" \in Jobs /\ Idle.pc = "idle"
  BY DEF Jobs, Idle, At, State
<1>2. PICK s : s = job["history"]
  OBVIOUS
<1>3. PICK t : t = job'["history"]
  OBVIOUS
<1>4. PassRoom(s) /\ IsFiniteSet(posts) /\ IsFiniteSet(posts')
  BY <1>2, FiniteKeeps DEF RoomInv
<1>5. /\ Cardinality(posts) \in Nat /\ BatchSize \in Nat /\ UnreadThreshold \in Nat
      /\ Cardinality(posts') \in Nat /\ reads \in Nat /\ reads' \in Nat
  BY <1>4, RoomTypes, FS_CardinalityType DEF IInv, TypeInv, TypeOK, HistoryTypeOK
<1>6. SUFFICES
        /\ t.pc \in {"selected", "fetch"} => Unread' \leq UnreadThreshold
        /\ t.pc \in {"ingest", "write"} =>
             IsFiniteSet(t.todo) /\ Unread' + Cardinality(t.todo) \leq UnreadThreshold + BatchSize
  BY <1>3 DEF PassRoom, Count, Hungry
<1>7. /\ s.pc \in {"selected", "fetch"} => Unread \leq UnreadThreshold
      /\ s.pc \in {"ingest", "write"} =>
           IsFiniteSet(s.todo) /\ Unread + Cardinality(s.todo) \leq UnreadThreshold + BatchSize
  BY <1>4 DEF PassRoom, Count, Hungry
<1>8. Unread = Cardinality(posts) - reads /\ Unread' = Cardinality(posts') - reads'
  BY DEF Unread
<1>9. CASE Unread' \leq Unread /\ t.todo = s.todo
           /\ (t.pc \in {"ingest", "write"} => s.pc \in {"ingest", "write"})
           /\ (t.pc \in {"selected", "fetch"} => s.pc \in {"selected", "fetch"})
  <2>1. CASE t.pc \in {"ingest", "write"}
    <3>1. Cardinality(s.todo) \in Nat
      BY <1>7, <1>9, <2>1, FS_CardinalityType
    <3>2. QED
      BY <1>5, <1>7, <1>8, <1>9, <2>1, <3>1
  <2>2. CASE t.pc \notin {"ingest", "write"}
    BY <1>5, <1>7, <1>8, <1>9, <2>2
  <2>3. QED
    BY <2>1, <2>2
<1>10. s.pc # "idle" /\ ~Commits("history") => posts' = posts /\ Unread' \leq Unread
  <2>1. s.pc # "idle" /\ ~Commits("history") => posts' = posts /\ reads \leq reads'
    BY <1>1, <1>2, OthersRest
  <2>2. QED
    BY <1>5, <1>8, <2>1
<1>11. Commits("history") => s.pc = "write" /\ t.pc = "ingest"
  BY <1>2, <1>3 DEF Commits, State
<1>12. CASE t = s
  BY <1>9, <1>10, <1>11, <1>12
<1>13. CASE t # s
  <2>1. Moves("history")
    BY <1>1, <1>2, <1>3, <1>13, JobSteps
  <2>2. ASSUME Rests("history")
        PROVE  t.pc \in {"idle", "selected", "fetch"}
               /\ (t.pc # "idle" => Unread' \leq UnreadThreshold)
    <3>1. PICK pc \in {"idle", "selected", "fetch"}, c \in 0..LastMessage :
            /\ job'["history"] = At(pc, c)
            /\ pc # "idle" =>
                 \/ pc = "selected" /\ Hungry
                 \/ pc = "fetch" /\ job["history"].pc = "selected"
      BY <2>2 DEF Rests
    <3>2. t.pc = pc
      BY <1>3, <3>1 DEF At, State
    <3>3. posts' = posts
      BY <2>2 DEF Rests, postVars
    <3>4. pc # "idle" => Unread \leq UnreadThreshold
      BY <1>2, <1>7, <3>1 DEF Hungry
    <3>5. pc # "idle" => reads \leq reads'
      <4>1. ASSUME pc # "idle", NEW A \in Albums, MergeAlbum(A) PROVE FALSE
        <5>1. s.pc = "idle" /\ job' = job
          BY <1>1, <1>2, <4>1, MergeAlone DEF MergeAlbum
        <5>2. QED
          BY <1>2, <1>3, <1>13, <5>1
      <4>2. QED
        BY <4>1, ReadsRise DEF IInv
    <3>6. QED
      BY <1>5, <1>8, <3>1, <3>2, <3>3, <3>4, <3>5
  <2>3. ASSUME NEW S \in SUBSET Messages, Fetches("history", S)
        PROVE  /\ t.pc = "ingest" /\ IsFiniteSet(t.todo)
               /\ Unread' + Cardinality(t.todo) \leq UnreadThreshold + BatchSize
    <3>1. t.pc = "ingest" /\ t.todo = Items(Newest(Older, BatchSize)) /\ s.pc = "fetch"
      BY <1>2, <1>3, <2>3 DEF Fetches, State
    <3>2. Older \in SUBSET Messages
      BY PostedType DEF IInv, TypeInv, TypeOK, Older
    <3>3. /\ IsFiniteSet(t.todo) /\ Cardinality(t.todo) \in Nat /\ Cardinality(t.todo) \leq BatchSize
      BY <1>5, <3>1, <3>2, BatchCount
    <3>4. Unread' \leq Unread /\ Unread \leq UnreadThreshold
      BY <1>7, <1>10, <1>11, <3>1
    <3>5. QED
      BY <1>5, <1>8, <3>1, <3>3, <3>4
  <2>4. ASSUME NEW item, NEW seen, LooksUp("history", item, seen)
        PROVE  t.todo = s.todo /\ t.pc = "write" /\ s.pc = "ingest"
    BY <1>2, <1>3, <2>4 DEF LooksUp, State
  <2>5. ASSUME Commits("history")
        PROVE  /\ t.pc = "ingest" /\ IsFiniteSet(t.todo)
               /\ Unread' + Cardinality(t.todo) \leq UnreadThreshold + BatchSize
    <3>1. PICK item \in s.todo : /\ t.pc = "ingest" /\ t.todo = s.todo \ {item} /\ s.pc = "write"
                                 /\ Upsert(item, s.seen)
      BY <1>2, <1>3, <2>5 DEF Commits, State
    <3>2. IsFiniteSet(s.todo) /\ Unread + Cardinality(s.todo) \leq UnreadThreshold + BatchSize
      BY <1>7, <3>1
    <3>3. /\ IsFiniteSet(t.todo) /\ Cardinality(s.todo) \in Nat
          /\ Cardinality(t.todo) = Cardinality(s.todo) - 1
      BY <3>1, <3>2, CountDown
    <3>4. Cardinality(posts') \leq Cardinality(posts) + 1
      BY <1>4, <3>1, UpsertCount
    <3>5. reads \leq reads'
      <4>1. ~\E A \in Albums : MergeAlbum(A)
        BY <1>1, <1>2, <3>1, MergeAlone
      <4>2. QED
        BY <4>1, ReadsRise DEF IInv
    <3>6. QED
      BY <1>5, <1>8, <3>1, <3>2, <3>3, <3>4, <3>5
  <2>6. CASE \E S \in SUBSET Messages : Fetches("history", S)
    BY <2>3, <2>6
  <2>7. CASE \E item, seen : LooksUp("history", item, seen)
    BY <1>9, <1>10, <1>11, <2>4, <2>7
  <2>8. QED
    BY <2>1, <2>2, <2>5, <2>6, <2>7 DEF Moves
<1>14. QED
  BY <1>12, <1>13

\* What catch-up finds in a channel where nobody has posted belongs to the album
\* whose newest message is stored.
LEMMA MissedHasPost ==
  ASSUME IInv, posted = Start, TopStored, NEW c \in 0..LastMessage, MaxKnown(c),
         NEW k \in Posted, c < k
  PROVE  HasPost({k})
<1>1. posted \in Int /\ k \in Int /\ k \leq Start /\ 1 \leq k /\ c \in Int /\ Start \in Int
  BY PostedType, FeedAssumption DEF IInv, TypeInv, TypeOK, Posted
<1>2. Stored(Start)
  BY <1>1 DEF TopStored
<1>3. PICK p \in posts : /\ Start \in p.group \cup {p.head} /\ p \in Post
                         /\ p.group = {} \/ Knows(p)
  BY <1>2 DEF Stored, IInv, StoreInv, PostTypeOK
<1>4. p.head \leq c /\ p.head \in Int /\ p.head \in Messages
  BY <1>3 DEF MaxKnown, Post, Messages
<1>5. p.head # Start
  BY <1>1, <1>4
<1>6. p.group # {} /\ p.group = GroupOf(p.head) /\ Start \in GroupOf(p.head)
  BY <1>3, <1>5 DEF Knows
<1>7. p.head..Start \subseteq GroupOf(p.head)
  BY <1>4, <1>6, GroupFacts
<1>8. k \in GroupOf(p.head)
  BY <1>1, <1>4, <1>7
<1>9. GroupOf(k) = GroupOf(p.head)
  BY <1>4, <1>8, GroupFacts
<1>10. Group({k}) = GroupOf(k)
  BY DEF Group
<1>11. QED
  BY <1>3, <1>6, <1>9, <1>10 DEF HasPost

\* Catch-up inserts no post: what it may have missed belongs to an album that
\* has one.
LEMMA MissedRoomKeeps ==
  ASSUME IInv, ~Recovery, RoomInv, posted' = posted, posted = Start, [Next]_vars
  PROVE  MissedRoom(job["catchup"])'
<1>1. "catchup" \in Jobs /\ Idle.pc = "idle" /\ Idle.todo = {}
  BY DEF Jobs, Idle, At, State
<1>2. PICK s : s = job["catchup"]
  OBVIOUS
<1>3. PICK t : t = job'["catchup"]
  OBVIOUS
<1>4. MissedRoom(s) /\ Posted' = Posted
  BY <1>2 DEF RoomInv, Posted
<1>5. SUFFICES
        /\ t.pc = "fetch" => \A k \in Posted : t.cursor < k => HasPost({k})'
        /\ \A i \in t.todo : HasPost(i)'
        /\ t.pc = "idle" => t.todo = {}
        /\ t.pc = "write" => t.seen.found
  BY <1>3, <1>4 DEF MissedRoom
<1>6. CASE s.pc = "idle" /\ t = s
  BY <1>4, <1>6 DEF MissedRoom
<1>7. ASSUME s.pc # "idle" PROVE posts' = posts
  <2>1. CASE Commits("catchup")
    <3>1. Upsert(s.item, s.seen) /\ s.seen.found
      BY <1>2, <1>4, <2>1 DEF Commits, MissedRoom
    <3>2. QED
      BY <3>1, UpsertCount DEF RoomInv
  <2>2. CASE ~Commits("catchup")
    BY <1>1, <1>2, <1>7, <2>2, OthersRest
  <2>3. QED
    BY <2>1, <2>2
<1>8. posts' = posts => \A i : HasPost(i) => HasPost(i)'
  BY DEF HasPost
<1>9. CASE s.pc # "idle" /\ t = s
  BY <1>4, <1>7, <1>8, <1>9 DEF MissedRoom
<1>10. CASE t # s
  <2>1. Moves("catchup")
    BY <1>1, <1>2, <1>3, <1>10, JobSteps
  <2>2. ASSUME Rests("catchup")
        PROVE  /\ t.todo = {} /\ t.pc # "write"
               /\ t.pc = "fetch" => \A k \in Posted : t.cursor < k => HasPost({k})'
    <3>1. PICK pc \in {"idle", "selected", "fetch"}, c \in 0..LastMessage :
            /\ job'["catchup"] = At(pc, c)
            /\ pc # "idle" => MaxKnown(c) /\ sub = "active"
      BY <2>2 DEF Rests
    <3>2. t.todo = {} /\ t.pc = pc /\ t.cursor = c
      BY <1>3, <3>1 DEF At, State
    <3>3. posts' = posts
      BY <2>2 DEF Rests, postVars
    <3>4. pc # "idle" => TopStored
      BY <3>1 DEF RoomInv
    <3>5. pc # "idle" => \A k \in Posted : c < k => HasPost({k})
      BY <3>1, <3>4, MissedHasPost
    <3>6. QED
      BY <1>8, <3>1, <3>2, <3>3, <3>5
  <2>3. ASSUME NEW S \in SUBSET Messages, Fetches("catchup", S)
        PROVE  t.pc = "ingest" /\ \A i \in t.todo : HasPost(i)'
    <3>1. /\ t.pc = "ingest" /\ t.todo = Items(S) /\ s.pc = "fetch"
          /\ S = Newest({m \in Posted : m > s.cursor}, CatchUpLimit) /\ posts' = posts
      BY <1>2, <1>3, <2>3 DEF Fetches, State, postVars
    <3>2. \A k \in S : HasPost({k})
      BY <1>4, <3>1 DEF MissedRoom, Newest
    <3>3. ASSUME NEW i \in Items(S) PROVE HasPost(i)
      <4>1. i \subseteq S /\ Together(i)
        BY ItemsFacts
      <4>2. PICK k \in i : k \in S
        BY <4>1 DEF Together
      <4>3. Group(i) = GroupOf(k) /\ Group({k}) = GroupOf(k)
        BY <4>1, <4>2, GroupOfItem DEF Group
      <4>4. QED
        BY <3>2, <4>2, <4>3 DEF HasPost
    <3>4. QED
      BY <1>8, <3>1, <3>3
  <2>4. ASSUME NEW item, NEW seen, LooksUp("catchup", item, seen)
        PROVE  t.todo = s.todo /\ t.pc = "write" /\ s.pc = "ingest" /\ t.seen.found
    <3>1. /\ t.todo = s.todo /\ t.pc = "write" /\ s.pc = "ingest" /\ t.seen = seen
          /\ item \in s.todo /\ seen \in Readings(item)
      BY <1>2, <1>3, <2>4 DEF LooksUp, State
    <3>2. HasPost(item)
      BY <1>4, <3>1 DEF MissedRoom
    <3>3. AlbumPosts(item) # {}
      BY <3>2 DEF HasPost, AlbumPosts
    <3>4. seen.found
      BY <3>1, <3>3 DEF Readings
    <3>5. QED
      BY <3>1, <3>4
  <2>5. ASSUME Commits("catchup")
        PROVE  t.pc = "ingest" /\ t.todo \subseteq s.todo /\ s.pc = "write"
    BY <1>2, <1>3, <2>5 DEF Commits, State
  <2>6. CASE \E S \in SUBSET Messages : Fetches("catchup", S)
    BY <2>3, <2>6
  <2>7. CASE \E item, seen : LooksUp("catchup", item, seen)
    BY <1>4, <1>7, <1>8, <2>4, <2>7 DEF MissedRoom
  <2>8. CASE Commits("catchup")
    BY <1>4, <1>7, <1>8, <2>5, <2>8 DEF MissedRoom
  <2>9. CASE Rests("catchup")
    BY <2>2, <2>9
  <2>10. QED
    BY <2>1, <2>6, <2>7, <2>8, <2>9 DEF Moves
<1>11. QED
  BY <1>6, <1>9, <1>10

\* A join backfill that is done has stored the newest message there was.
LEMMA TopKeeps ==
  ASSUME IInv, RoomInv, posted = Start, [Next]_vars, sub' = "active"
  PROVE  TopStored'
<1>1. TopStored => TopStored'
  BY TopStays
<1>2. CASE sub' = sub
  BY <1>1, <1>2 DEF RoomInv
<1>3. CASE sub' # sub
  <2>1. Join
    BY <1>3 DEF Next, Channel, Live, History, Tool, Boot, Reader, Clock, Crash, vars
  <2>2. job["join"].pc = "ingest" /\ job["join"].todo = {}
    BY <1>3, <2>1 DEF Join, JoinStep, JoinFetch, JoinDone, JoinFails, Ingested
  <2>3. QED
    BY <1>1, <2>2 DEF RoomInv, JoinRoom
<1>4. QED
  BY <1>2, <1>3

\* Nobody hears of a message that is not posted.
LEMMA NobodyPosts ==
  ASSUME IInv, RoomInv, posted = Start, posted' = posted, [Next]_vars
  PROVE  events' = {}
<1>1. events = {}
  BY DEF RoomInv
<1>2. ~Channel
  <2>1. ASSUME NEW item \in Items(Messages), Dispatch(item) PROVE FALSE
    <3>1. item \subseteq Messages
      BY ItemsFacts
    <3>2. posted + 1 \leq posted' /\ posted \in Int
      BY <2>1, <3>1, PostedType DEF Dispatch, Publish, IInv, TypeInv, TypeOK, Messages
    <3>3. QED
      BY <3>2
  <2>2. QED
    BY <2>1 DEF Channel
<1>3. events' = events \/ events' = {}
  <2>1. ~Live
    BY <1>1 DEF Live, LiveStep
  <2>2. QED
    BY <1>2, <2>1 DEF Next, Join, History, Tool, Boot, Reader, Clock, Crash, vars, liveVars
<1>4. QED
  BY <1>1, <1>3

\* The strengthening is inductive.
LEMMA RoomKeeps ==
  ASSUME IInv, IInv', ~Recovery, Begun, RoomInv, [Next]_vars
  PROVE  RoomInv'
<1>1. IsFiniteSet(posts')
  BY FiniteKeeps DEF RoomInv
<1>2. ASSUME posted' = Start
      PROVE  /\ BufferIsBounded'
             /\ Unmerged' => Cardinality(posts') \leq JoinLimit
             /\ events' = {}
             /\ sub' = "active" => TopStored'
             /\ JoinRoom(job["join"])' /\ PassRoom(job["history"])'
             /\ MissedRoom(job["catchup"])'
  <2>1. posted = Start /\ posted' = posted
    BY <1>2, BegunKeeps DEF IInv
  <2>2. BufferIsBounded' /\ (Unmerged' => Cardinality(posts') \leq JoinLimit)
    BY <2>1, BoundKeeps DEF BufferIsBounded
  <2>3. QED
    BY <2>1, <2>2, NobodyPosts, TopKeeps, JoinRoomKeeps, PassRoomKeeps, MissedRoomKeeps
<1>3. QED
  BY <1>1, <1>2 DEF RoomInv

\* It holds initially.
LEMMA RoomAtFirst ==
  ASSUME Init, LegacyFromJoin
  PROVE  RoomInv
<1>1. /\ JoinLimit \in Nat /\ UnreadThreshold \in Nat /\ BatchSize \in Nat
      /\ Start \in Int /\ LegacyPosts \subseteq 1..Start
  BY LimitAssumption, ThresholdAssumption, FeedAssumption, RecoveryAssumption
<1>2. IsFiniteSet(LegacyPosts) /\ Cardinality(LegacyPosts) \in Nat
      /\ Cardinality(LegacyPosts) \leq JoinLimit
  <2>1. IsFiniteSet(1..Start)
    BY <1>1, FS_Interval
  <2>2. IsFiniteSet(LegacyPosts)
    BY <1>1, <2>1, FS_Subset
  <2>3. Cardinality(LegacyPosts) \in Nat
    BY <2>2, FS_CardinalityType
  <2>4. LegacyPosts = {} => Cardinality(LegacyPosts) = 0
    BY FS_EmptySet
  <2>5. QED
    BY <1>1, <2>2, <2>3, <2>4 DEF LegacyFromJoin
<1>3. IsFiniteSet(posts) /\ Cardinality(posts) \leq Cardinality(LegacyPosts)
  <2>1. posts = {[head |-> m, group |-> {}] : m \in LegacyPosts}
    BY DEF Init
  <2>2. PICK f : f = [m \in LegacyPosts |-> [head |-> m, group |-> {}]]
    OBVIOUS
  <2>3. f \in Surjection(LegacyPosts, posts)
    <3>1. f \in [LegacyPosts -> posts]
      BY <2>1, <2>2
    <3>2. \A p \in posts : \E m \in LegacyPosts : f[m] = p
      BY <2>1, <2>2
    <3>3. QED
      BY <3>1, <3>2 DEF Surjection
  <2>4. QED
    BY <1>2, <2>3, FS_Surjection
<1>4. Cardinality(posts) \in Nat /\ Cardinality(posts) \leq JoinLimit
  <2>1. Cardinality(posts) \in Nat
    BY <1>3, FS_CardinalityType
  <2>2. QED
    BY <1>1, <1>2, <1>3, <2>1
<1>5. BufferIsBounded
  <2>1. reads = 0
    BY DEF Init, HistoryInit
  <2>2. Unread \leq JoinLimit
    BY <1>1, <1>4, <2>1 DEF Unread
  <2>3. QED
    BY <2>2 DEF BufferIsBounded
<1>6. /\ job["history"].pc = "idle" /\ job["catchup"].pc = "idle" /\ job["catchup"].todo = {}
      /\ job["join"].pc \in {"idle", "fetch"} /\ (job["join"].pc = "fetch" => LegacyPosts = {})
  BY DEF Init, Idle, At, State, Jobs
<1>7. LegacyPosts = {} => posts = {}
  BY DEF Init
<1>8. sub = "active" => TopStored
  <2>1. ASSUME Start \in LegacyPosts PROVE Stored(Start)
    <3>1. media = {[post |-> m, file |-> m, position |-> 0, photo |-> m] : m \in LegacyPosts}
      BY DEF Init
    <3>2. PICK r : r = [post |-> Start, file |-> Start, position |-> 0, photo |-> Start]
      OBVIOUS
    <3>3. r \in media /\ r.file = Start
      BY <2>1, <3>1, <3>2
    <3>4. QED
      BY <3>3 DEF Stored
  <2>2. QED
    BY <2>1 DEF Init, LegacyFromJoin, TopStored
<1>9. JoinRoom(job["join"]) /\ PassRoom(job["history"]) /\ MissedRoom(job["catchup"])
  BY <1>6, <1>7 DEF JoinRoom, PassRoom, MissedRoom
<1>10. events = {}
  BY DEF Init
<1>11. QED
  BY <1>3, <1>4, <1>5, <1>8, <1>9, <1>10 DEF RoomInv

\* The prefetch is bounded: in a channel where nobody posts, no more than a
\* batch over the threshold is ever unread, once the messages the join brought
\* have been read; between a pass's question whether anybody needs older posts
\* and its last insert nobody else adds any, whatever crashes, fails, expires or
\* boots.
THEOREM PrefetchIsBounded ==
  LegacyInOrder /\ LegacyFromJoin /\ ~Recovery => (Spec => []BufferIsBounded)
<1> SUFFICES ASSUME LegacyInOrder, LegacyFromJoin, ~Recovery PROVE Spec => []BufferIsBounded
  OBVIOUS
<1> DEFINE All == IInv /\ Begun /\ RoomInv
<1>1. Init => All
  BY Opening, RefusalAtFirst, RoomAtFirst
<1>2. All /\ [Next]_vars => All'
  <2> SUFFICES ASSUME All, [Next]_vars PROVE All'
    OBVIOUS
  <2>1. IInv' /\ Begun'
    BY NextKeeps, BegunKeeps DEF IInv
  <2>2. QED
    BY <2>1, RoomKeeps
<1>3. All => BufferIsBounded
  BY DEF RoomInv, BufferIsBounded
<1>4. QED
  BY <1>1, <1>2, <1>3, PTL DEF Spec

--------------------------------------------------------------------------------
(* The archive is whole *)

\* Legacy posts are all that was posted from some message to the join.
LegacyUnbroken == \A m \in LegacyPosts : m..Start \subseteq LegacyPosts

\* From c to the join everything is stored.
Solid(c) == \A m \in c..Start : Stored(m)

\* The pass s has yet to store what it is for.
Pending(s, head) == s.pc \in {"ingest", "write"} /\ head \in s.batch

\* Only the album of the newest message reaches from k to the join.
AtTheTop(k) == k \leq Start => k..Start \subseteq GroupOf(k) \cup {k}

SolidInv ==
  /\ HistoryComplete
  /\ oldestSeen # 0 => Solid(oldestSeen)
  /\ job["history"].pc # "idle" => Solid(job["history"].cursor)
  /\ \A p \in posts : p.head \leq Start =>
       Solid(p.head) \/ Pending(job["join"], p.head) \/ Pending(job["history"], p.head)
  /\ \A j \in {"join", "history"} : \A i \in job[j].todo : i \subseteq job[j].batch
  /\ job["join"].pc \in {"ingest", "write"} =>
       \A m \in job["join"].batch :
         /\ m..Start \subseteq job["join"].batch
         /\ Stored(m) \/ \E i \in job["join"].todo : m \in i
  /\ \A e \in events : \A m \in e.item : Start < m
  /\ job["catchup"].pc = "fetch" => \A k \in Messages : job["catchup"].cursor < k => AtTheTop(k)
  /\ \A i \in job["catchup"].todo : \A k \in i : AtTheTop(k)
  /\ IF LegacyPosts = {} THEN phase = "live" ELSE Stored(Start)

\* A process that runs goes on running.
StaysLive == phase = "live" => phase' = "live"

\* Nothing that is stored is lost.
LEMMA SolidStays ==
  ASSUME IInv, [Next]_vars
  PROVE  /\ \A m : Stored(m) => Stored(m)'
         /\ \A c : Solid(c) => Solid(c)'
<1>1. \A m : Stored(m) => Stored(m)'
  BY RowsStay DEF Stored
<1>2. QED
  BY <1>1 DEF Solid

\* What is stored above m and from c on is stored from m on.
LEMMA SolidBelow ==
  ASSUME NEW m \in Messages, NEW c \in Messages, m < c, Solid(c),
         \A x \in m..(c - 1) : Stored(x)
  PROVE  Solid(m)
<1>1. m \in Int /\ c \in Int /\ Start \in Int
  BY FeedAssumption DEF Messages
<1>2. ASSUME NEW x \in m..Start PROVE x \in m..(c - 1) \/ x \in c..Start
  BY <1>1
<1>3. QED
  BY <1>2 DEF Solid

\* A pass that has stored its batch has filled the archive down to it.
LEMMA PassSolid ==
  ASSUME IInv, SolidInv, Ingested("history"), NEW m, Oldest(m, job["history"].batch)
  PROVE  /\ Solid(m)
         /\ \A k \in job["history"].batch : Solid(k)
<1>1. /\ m \in Messages /\ job["history"].cursor \in Messages /\ m < job["history"].cursor
      /\ \A x \in m..(job["history"].cursor - 1) : Stored(x)
  BY BatchStored
<1>2. Solid(job["history"].cursor)
  BY DEF Ingested, SolidInv
<1>3. Solid(m)
  BY <1>1, <1>2, SolidBelow
<1>4. ASSUME NEW k \in job["history"].batch PROVE Solid(k)
  <2>1. m \leq k /\ k \in Messages
    BY JobFields DEF Oldest, IInv, TypeInv, TypeOK, Jobs
  <2>2. k..Start \subseteq m..Start
    BY <1>1, <2>1, FeedAssumption DEF Messages
  <2>3. QED
    BY <1>3, <2>2 DEF Solid
<1>5. QED
  BY <1>3, <1>4

\* A channel is marked full when nothing is older than the cursor.
LEMMA FullKeeps ==
  ASSUME IInv, SolidInv, [Next]_vars
  PROVE  HistoryComplete'
<1>1. \A m : Stored(m) => Stored(m)'
  BY SolidStays
<1>2. CASE full' = full
  BY <1>1, <1>2 DEF SolidInv, HistoryComplete
<1>3. CASE full' # full
  <2>1. Exhaust
    <3>1. History
      BY <1>3 DEF Next, Channel, Live, Join, Tool, Boot, Reader, ReadOn, Clock, LockExpires, Crash,
                  vars, historyVars, archiveVars
    <3>2. QED
      BY <1>3, <3>1 DEF History, HistoryStep, Select, TryAcquireLock, FetchOlder, Defer, FetchFails,
                        Release, PassFails, historyVars, archiveVars
  <2>2. PICK c : c = job["history"].cursor
    OBVIOUS
  <2>3. job["history"].pc = "fetch" /\ \A m \in Posted : ~(m < c)
    BY <2>1, <2>2 DEF Exhaust, Older
  <2>4. c \in Posted /\ Solid(c)
    BY <2>2, <2>3 DEF IInv, ArchiveInv, PassInv, UpStored, SolidInv
  <2>5. posted \in Int /\ 1 \leq c /\ c \leq posted /\ c \in Int
    BY <2>4, PostedType DEF Posted, IInv, TypeInv, TypeOK
  <2>6. c = 1
    <3>1. 1 \in Posted
      BY <2>5 DEF Posted
    <3>2. QED
      BY <2>3, <2>5, <3>1
  <2>7. QED
    BY <1>1, <2>4, <2>6 DEF Solid, HistoryComplete
<1>4. QED
  BY <1>2, <1>3

\* The recorded cursor moves when the pass has stored its batch.
LEMMA RecordKeeps ==
  ASSUME IInv, SolidInv, "error" \notin Faults, [Next]_vars, oldestSeen' # 0
  PROVE  Solid(oldestSeen)'
<1>1. \A c : Solid(c) => Solid(c)'
  BY SolidStays
<1>2. Solid(oldestSeen')
  <2>1. CASE oldestSeen' = oldestSeen
    BY <2>1 DEF SolidInv
  <2>2. CASE oldestSeen' # oldestSeen
    <3>1. Release
      BY <2>2, CursorMoves DEF FetchFails
    <3>2. PICK m \in job["history"].batch : Oldest(m, job["history"].batch) /\ oldestSeen' = m
      BY <3>1 DEF Release
    <3>3. QED
      BY <3>1, <3>2, PassSolid DEF Release
  <2>3. QED
    BY <2>1, <2>2
<1>3. PICK c : c = oldestSeen'
  OBVIOUS
<1>4. Solid(c)'
  BY <1>1, <1>2, <1>3
<1>5. QED
  BY <1>3, <1>4 DEF Solid

\* A pass begins at the recorded cursor, or at the oldest post: no other pass
\* and no join backfill is at work then.
LEMMA CursorKeeps ==
  ASSUME IInv, ~Recovery, SolidInv, [Next]_vars, job'["history"].pc # "idle"
  PROVE  Solid(job["history"].cursor)'
<1>1. "history" \in Jobs /\ Idle.pc = "idle"
  BY DEF Jobs, Idle, At, State
<1>2. PICK t : t = job'["history"]
  OBVIOUS
<1>3. SUFFICES Solid(t.cursor)
  <2>1. Solid(t.cursor)'
    BY <1>3, SolidStays
  <2>2. PICK c : c = t.cursor
    OBVIOUS
  <2>3. QED
    BY <1>2, <2>1 DEF Solid
<1>4. CASE job'["history"] = job["history"]
  BY <1>2, <1>4 DEF SolidInv
<1>5. CASE job'["history"] # job["history"]
  <2>1. Moves("history")
    BY <1>1, <1>5, JobSteps
  <2>2. ASSUME Rests("history") PROVE Solid(t.cursor)
    <3>1. PICK pc \in {"idle", "selected", "fetch"}, c \in 0..LastMessage :
            /\ job'["history"] = At(pc, c)
            /\ pc # "idle" =>
                 \/ pc = "selected" /\ job["history"].pc = "idle" /\ Cursor(c) /\ sub = "active"
                 \/ pc = "fetch" /\ job["history"].pc = "selected" /\ c = job["history"].cursor
      BY <2>2 DEF Rests
    <3>2. t.pc = pc /\ t.cursor = c
      BY <1>2, <3>1 DEF At, State
    <3>3. CASE pc = "fetch" /\ job["history"].pc = "selected" /\ c = job["history"].cursor
      BY <3>2, <3>3 DEF SolidInv
    <3>4. CASE pc = "selected" /\ job["history"].pc = "idle" /\ Cursor(c) /\ sub = "active"
      <4>1. CASE oldestSeen # 0
        BY <3>2, <3>4, <4>1 DEF Cursor, SolidInv
      <4>2. CASE oldestSeen = 0
        <5>1. PICK p \in posts : p.head = c
          BY <3>4, <4>2 DEF Cursor, Oldest
        <5>2. job["join"] = Idle
          BY <3>4 DEF IInv, PhaseInv
        <5>3. ~Pending(job["join"], c) /\ ~Pending(job["history"], c)
          BY <1>1, <3>4, <5>2 DEF Pending
        <5>4. CASE c \leq Start
          BY <3>2, <5>1, <5>3, <5>4 DEF SolidInv
        <5>5. CASE ~(c \leq Start)
          <6>1. c..Start = {}
            BY <5>5, FeedAssumption
          <6>2. QED
            BY <3>2, <6>1 DEF Solid
        <5>6. QED
          BY <5>4, <5>5
      <4>3. QED
        BY <4>1, <4>2
    <3>5. QED
      BY <1>2, <3>1, <3>2, <3>3, <3>4
  <2>3. ASSUME NEW S \in SUBSET Messages, Fetches("history", S)
        PROVE  t.cursor = job["history"].cursor /\ job["history"].pc # "idle"
    BY <1>2, <2>3 DEF Fetches, State
  <2>4. ASSUME NEW item, NEW seen, LooksUp("history", item, seen)
        PROVE  t.cursor = job["history"].cursor /\ job["history"].pc # "idle"
    BY <1>2, <2>4 DEF LooksUp, State
  <2>5. ASSUME Commits("history")
        PROVE  t.cursor = job["history"].cursor /\ job["history"].pc # "idle"
    BY <1>2, <2>5 DEF Commits, State
  <2>6. QED
    BY <2>1, <2>2, <2>3, <2>4, <2>5 DEF Moves, SolidInv
<1>6. QED
  BY <1>4, <1>5

\* Where the head of a post comes from.
LEMMA HeadsFrom ==
  ASSUME IInv, ~Recovery, [Next]_vars, NEW q \in posts'
  PROVE  \/ \E p \in posts : p.head = q.head
         \/ \E j \in Jobs : Commits(j) /\ q.head \in job[j].item
         \/ \E e \in events : q.head \in e.item
<1>1. CASE posts' = posts
  BY <1>1
<1>2. ASSUME NEW A \in Albums, MergeAlbum(A) PROVE \E p \in posts : p.head = q.head
  <2>1. PICK p \in Legacy(A) :
          posts' = (posts \ (Deleted(A, p) \cup {p})) \cup {[p EXCEPT !.group = A]}
    BY <1>2 DEF MergeAlbum
  <2>2. posts \subseteq Post /\ p \in posts
    BY <2>1 DEF Legacy, IInv, TypeInv, TypeOK, PostTypeOK
  <2>3. PICK t : t = [p EXCEPT !.group = A]
    OBVIOUS
  <2>4. t.head = p.head
    BY <2>2, <2>3 DEF Post
  <2>5. QED
    BY <2>1, <2>2, <2>3, <2>4
<1>3. ASSUME NEW item, NEW seen \in {NothingFound} \cup Found, ItemInv(item), SeenInv(item, seen),
             Upsert(item, seen)
      PROVE  (\E p \in posts : p.head = q.head) \/ q.head \in item
  BY <1>3, UpsertPosts DEF Oldest, IInv
<1>4. ASSUME NEW j \in Jobs, Commits(j)
      PROVE  (\E p \in posts : p.head = q.head) \/ q.head \in job[j].item
  BY <1>3, <1>4 DEF Commits
<1>5. ASSUME NEW e \in events, HandlerWrites(e)
      PROVE  (\E p \in posts : p.head = q.head) \/ q.head \in e.item
  BY <1>3, <1>5, WriterFacts DEF HandlerWrites
<1>6. QED
  BY <1>1, <1>2, <1>4, <1>5, TableSteps DEF postVars, Heal

\* No job stops half way.
LEMMA NobodyFails ==
  ASSUME NeverRefused, "error" \notin Faults, NEW j \in Jobs
  PROVE  ~Raises(j)
BY DEF NeverRefused, Raises

\* What a backfill is at is stored before it leaves.
LEMMA PendingStays ==
  ASSUME IInv, ~Recovery, SolidInv, NeverRefused, "error" \notin Faults, StaysLive, [Next]_vars,
         NEW j \in {"join", "history"}, NEW h \in Messages, Pending(job[j], h)
  PROVE  Pending(job[j], h)' \/ Solid(h)
<1>1. /\ TypeInv /\ PhaseInv /\ StoreInv /\ JobInv(job[j]) /\ j \in Jobs /\ Idle.pc = "idle"
      /\ job[j].pc \in {"ingest", "write"} /\ h \in job[j].batch
  BY DEF IInv, Jobs, WritersInv, Idle, At, State, Pending
<1>2. CASE job'[j] = job[j]
  <2>1. job'[j].pc = job[j].pc /\ job'[j].batch = job[j].batch
    BY <1>2
  <2>2. QED
    BY <1>1, <2>1 DEF Pending
<1>3. ~Crash
  <2>1. phase = "live" /\ phase' = "live"
    BY <1>1 DEF PhaseInv, StaysLive
  <2>2. QED
    BY <2>1 DEF Crash
<1>4. ASSUME Ingest(j), posted' = posted PROVE Pending(job[j], h)'
  <2>1. Posted \subseteq Posted'
    BY <1>4 DEF Posted
  <2>2. job'[j].pc \in {"ingest", "write"} /\ job'[j].batch = job[j].batch
    BY <1>1, <1>4, <2>1, IngestKeeps
  <2>3. QED
    BY <1>1, <2>2 DEF Pending
<1>5. ~Raises(j)
  BY <1>1, NobodyFails
<1>6. CASE Join
  <2>1. CASE j = "history"
    BY <1>1, <1>2, <1>6, <2>1, JoinMoves DEF Join
  <2>2. CASE j = "join" /\ JoinDone
    <3>1. job["join"].todo = {} /\ job["join"].pc = "ingest"
      BY <2>2 DEF JoinDone, Ingested
    <3>2. \A m \in job["join"].batch : m..Start \subseteq job["join"].batch /\ Stored(m)
      BY <3>1 DEF SolidInv
    <3>3. QED
      BY <1>1, <2>2, <3>2 DEF Solid
  <2>3. CASE j = "join" /\ (Ingest("join") \/ JoinFetch \/ JoinFails)
    BY <1>1, <1>4, <1>5, <1>6, <2>3 DEF Join, JoinFetch, JoinFails
  <2>4. QED
    BY <1>6, <2>1, <2>2, <2>3 DEF Join, JoinStep
<1>7. CASE History
  <2>1. CASE j = "join"
    BY <1>1, <1>2, <1>7, <2>1, HistoryMoves DEF History
  <2>2. CASE j = "history" /\ Release
    <3>1. Ingested("history")
      BY <2>2 DEF Release
    <3>2. PICK m \in job["history"].batch : Oldest(m, job["history"].batch)
      BY <2>2 DEF Release
    <3>3. QED
      BY <1>1, <2>2, <3>1, <3>2, PassSolid
  <2>3. CASE j = "history" /\ Ingest("history")
    BY <1>4, <1>7, <2>3 DEF History
  <2>4. CASE j = "history" /\ ~Release /\ ~Ingest("history")
    BY <1>1, <1>5, <1>7, <2>4
       DEF History, HistoryStep, Select, TryAcquireLock, FetchOlder, Exhaust, Defer, FetchFails,
           PassFails
  <2>5. QED
    BY <2>1, <2>2, <2>3, <2>4
<1>8. CASE Boot
  BY <1>1, <1>2, <1>8, BootMoves DEF Boot
<1>9. ~Tool
  BY <1>1, ToolMoves DEF Tool, PhaseInv
<1>10. CASE Channel \/ Live \/ Reader \/ Clock \/ UNCHANGED vars
  BY <1>2, <1>10 DEF Channel, Live, Reader, Clock, vars
<1>11. QED
  BY <1>3, <1>6, <1>7, <1>8, <1>9, <1>10 DEF Next

\* A post from before the join heads an archive without a gap, or is part of
\* what a backfill has yet to store.
LEMMA HeadsKeep ==
  ASSUME IInv, IInv', ~Recovery, SolidInv, NeverRefused, "error" \notin Faults, StaysLive,
         [Next]_vars, NEW q \in posts', q.head \leq Start
  PROVE  Solid(q.head)' \/ Pending(job["join"], q.head)' \/ Pending(job["history"], q.head)'
<1>1. PICK h \in Messages : h = q.head
  BY DEF IInv, StoreInv, PostTypeOK, Post
<1>2. h \leq Start
  BY <1>1
<1>3. SUFFICES Solid(h)' \/ Pending(job["join"], h)' \/ Pending(job["history"], h)'
  BY <1>1 DEF Solid, Pending
<1>4. \A c : Solid(c) => Solid(c)'
  BY SolidStays
<1>5. CASE \E p \in posts : p.head = h
  <2>1. Solid(h) \/ Pending(job["join"], h) \/ Pending(job["history"], h)
    BY <1>2, <1>5 DEF SolidInv
  <2>2. QED
    BY <1>4, <2>1, PendingStays
<1>6. ASSUME NEW j \in Jobs, Commits(j), h \in job[j].item
      PROVE  Solid(h)' \/ Pending(job["join"], h)' \/ Pending(job["history"], h)'
  <2>1. job[j].pc = "write" /\ job[j].item \in job[j].todo
    BY <1>6 DEF Commits
  <2>2. j # "recovery"
    BY <2>1, OneAtWork
  <2>3. CASE j \in {"join", "history"}
    <3>1. job'[j].pc = "ingest" /\ job'[j].batch = job[j].batch
      BY <1>6 DEF Commits, State
    <3>2. h \in job[j].batch
      BY <1>6, <2>1, <2>3 DEF SolidInv
    <3>3. Pending(job[j], h)'
      BY <3>1, <3>2 DEF Pending
    <3>4. QED
      BY <2>3, <3>3
  <2>4. CASE j = "catchup"
    <3>1. AtTheTop(h)
      BY <1>6, <2>1, <2>4 DEF SolidInv
    <3>2. \A k \in h..Start : k = h \/ k \in GroupOf(h)
      BY <1>2, <3>1 DEF AtTheTop
    <3>3. Stored(h)' /\ \A k \in GroupOf(h) : h \leq k => Stored(k)'
      BY <1>1 DEF IInv, StoreInv, UpStored
    <3>4. \A k \in h..Start : h \leq k
      BY FeedAssumption DEF Messages
    <3>5. \A k \in h..Start : Stored(k)'
      BY <3>2, <3>3, <3>4
    <3>6. QED
      BY <3>5 DEF Solid
  <2>5. QED
    BY <2>2, <2>3, <2>4 DEF Jobs
<1>7. ASSUME NEW e \in events, h \in e.item PROVE FALSE
  <2>1. Start < h
    BY <1>7 DEF SolidInv
  <2>2. QED
    BY <1>2, <2>1, FeedAssumption DEF Messages
<1>8. QED
  BY <1>1, <1>5, <1>6, <1>7, HeadsFrom

\* The items that the join backfill and a pass have left are of their batch.
LEMMA BatchKeeps ==
  ASSUME IInv, ~Recovery, SolidInv, [Next]_vars, NEW j \in {"join", "history"},
         NEW i \in job'[j].todo
  PROVE  i \subseteq job'[j].batch
<1>1. PICK s : s = job[j]
  OBVIOUS
<1>2. PICK t : t = job'[j]
  OBVIOUS
<1>3. \A k \in s.todo : k \subseteq s.batch
  BY <1>1 DEF SolidInv
<1>4. CASE t = s
  BY <1>1, <1>2, <1>3, <1>4
<1>5. CASE t # s
  <2>1. Moves(j)
    BY <1>1, <1>2, <1>5, JobSteps DEF Jobs
  <2>2. CASE Rests(j)
    BY <2>2 DEF Rests, At, State
  <2>3. ASSUME NEW S \in SUBSET Messages, Fetches(j, S) PROVE i \subseteq job'[j].batch
    <3>1. i \in Items(S) /\ job'[j].batch = S
      BY <2>3 DEF Fetches, State
    <3>2. QED
      BY <3>1, ItemsFacts
  <2>4. ASSUME NEW item, NEW seen, LooksUp(j, item, seen) PROVE t.todo = s.todo /\ t.batch = s.batch
    BY <1>1, <1>2, <2>4 DEF LooksUp, State
  <2>5. ASSUME Commits(j) PROVE t.todo \subseteq s.todo /\ t.batch = s.batch
    BY <1>1, <1>2, <2>5 DEF Commits, State
  <2>6. CASE \E item, seen : LooksUp(j, item, seen)
    BY <1>2, <1>3, <2>4, <2>6
  <2>7. CASE Commits(j)
    BY <1>2, <1>3, <2>5, <2>7
  <2>8. QED
    BY <2>1, <2>2, <2>3, <2>6, <2>7 DEF Moves
<1>6. QED
  BY <1>4, <1>5

\* The batch of the join backfill reaches up to the join.
LEMMA JoinBatchKeeps ==
  ASSUME IInv, ~Recovery, Begun, SolidInv, [Next]_vars, job'["join"].pc \in {"ingest", "write"},
         NEW m \in job'["join"].batch
  PROVE  /\ m..Start \subseteq job'["join"].batch
         /\ Stored(m)' \/ \E i \in job'["join"].todo : m \in i
<1>1. PICK s : s = job["join"]
  OBVIOUS
<1>2. PICK t : t = job'["join"]
  OBVIOUS
<1>3. "join" \in Jobs /\ TypeInv /\ StoreInv /\ \A x : Stored(x) => Stored(x)'
  BY SolidStays DEF Jobs, IInv
<1>4. s.pc \in {"ingest", "write"} =>
        \A x \in s.batch : x..Start \subseteq s.batch /\ (Stored(x) \/ \E i \in s.todo : x \in i)
  BY <1>1 DEF SolidInv
<1>5. SUFFICES m..Start \subseteq t.batch /\ (Stored(m)' \/ \E i \in t.todo : m \in i)
  BY <1>2
<1>6. m \in t.batch /\ t.pc \in {"ingest", "write"}
  BY <1>2
<1>7. CASE t = s
  BY <1>3, <1>4, <1>6, <1>7
<1>8. CASE t # s
  <2>1. Moves("join")
    BY <1>1, <1>2, <1>3, <1>8, JobSteps
  <2>2. CASE Rests("join")
    BY <2>2 DEF Rests, At, State
  <2>3. ASSUME NEW S \in SUBSET Messages, Fetches("join", S)
        PROVE  m..Start \subseteq t.batch /\ \E i \in t.todo : m \in i
    <3>1. t.batch = S /\ t.todo = Items(S) /\ S = Newest(Posted, JoinLimit)
      BY <1>2, <2>3 DEF Fetches, State
    <3>2. m \in S /\ m \in Posted /\ Posted \subseteq Messages /\ JoinLimit \in Nat
          /\ posted \in Int /\ Start \in Int /\ Start \leq posted
      BY <1>3, <1>6, <3>1, PostedType, LimitAssumption, FeedAssumption
         DEF TypeInv, TypeOK, Newest, Begun
    <3>3. ASSUME NEW k \in m..Start PROVE k \in S
      <4>1. k \in Posted /\ (k = m \/ m < k)
        BY <3>2 DEF Posted
      <4>2. QED
        BY <3>1, <3>2, <4>1, NewestIsUpward
    <3>4. \E i \in Items(S) : m \in i
      BY <3>2, ItemsFacts
    <3>5. QED
      BY <3>1, <3>3, <3>4
  <2>4. ASSUME NEW item, NEW seen, LooksUp("join", item, seen)
        PROVE  s.pc = "ingest" /\ t.todo = s.todo /\ t.batch = s.batch
    BY <1>1, <1>2, <2>4 DEF LooksUp, State
  <2>5. ASSUME Commits("join")
        PROVE  /\ s.pc = "write" /\ t.batch = s.batch /\ t.todo = s.todo \ {s.item}
               /\ \A x \in s.item : Stored(x)'
    <3>1. s.pc = "write" /\ t.batch = s.batch /\ t.todo = s.todo \ {s.item}
      BY <1>1, <1>2, <2>5 DEF Commits, State
    <3>2. PICK item : item = s.item
      OBVIOUS
    <3>3. PICK seen : seen = s.seen
      OBVIOUS
    <3>4. ItemInv(item) /\ SeenInv(item, seen) /\ seen \in {NothingFound} \cup Found
          /\ Upsert(item, seen) /\ Posted \subseteq Posted'
      BY <1>1, <1>3, <2>5, <3>2, <3>3, BegunKeeps DEF Commits
    <3>5. \A x \in item : Stored(x)'
      BY <1>3, <3>4, UpsertStores
    <3>6. QED
      BY <3>1, <3>2, <3>5
  <2>6. CASE \E item, seen : LooksUp("join", item, seen)
    BY <1>3, <1>4, <1>6, <2>4, <2>6
  <2>7. CASE Commits("join")
    BY <1>3, <1>4, <1>6, <2>5, <2>7
  <2>8. QED
    BY <2>1, <2>2, <2>3, <2>6, <2>7 DEF Moves
<1>9. QED
  BY <1>7, <1>8

\* A handler is at messages posted after the join.
LEMMA NewsKeeps ==
  ASSUME IInv, Begun, SolidInv, [Next]_vars, NEW e \in events', NEW m \in e.item
  PROVE  Start < m
<1>1. ASSUME NEW item \in Items(Messages), Dispatch(item), NEW x \in item PROVE Start < x
  <2>1. item \subseteq Messages /\ Together(item)
    BY ItemsFacts
  <2>2. PICK k \in item : k = posted + 1
    BY <1>1 DEF Dispatch, Publish
  <2>3. posted \in Int /\ Start \in Int /\ Start < k /\ x \in Int /\ x \in Messages
    BY <2>1, <2>2, PostedType, FeedAssumption DEF IInv, TypeInv, TypeOK, Begun, Messages
  <2>4. x = k \/ x \in GroupOf(k)
    BY <2>1, <2>2 DEF Together
  <2>5. CASE x \in GroupOf(k)
    <3>1. GroupOf(k) \in Albums /\ k \in GroupOf(k)
      BY <2>1, <2>5, GroupFacts
    <3>2. x \leq Start <=> k \leq Start
      BY <2>5, <3>1, FeedAssumption
    <3>3. QED
      BY <2>3, <2>2, <3>2
  <2>6. QED
    BY <2>3, <2>4, <2>5
<1>2. \A f \in events : \A x \in f.item : Start < x
  BY DEF SolidInv
<1>3. CASE e \in events
  BY <1>2, <1>3
<1>4. CASE \E item \in Items(Messages) : Dispatch(item) /\ e.item = item
  BY <1>1, <1>4
<1>5. CASE \E f \in events : e.item = f.item
  BY <1>2, <1>5
<1>6. QED
  BY <1>3, <1>4, <1>5, EventSteps

\* What the first boot may have missed is the rest of the album of the newest
\* message there was at the join.
LEMMA MissedIsTop ==
  ASSUME IInv, Stored(Start), NEW c, MaxKnown(c), NEW k \in Messages, c < k
  PROVE  AtTheTop(k)
<1>1. k \in Int /\ Start \in Int /\ Start \leq LastMessage /\ LastMessage \in Int
  BY FeedAssumption DEF Messages
<1>2. SUFFICES ASSUME k \leq Start PROVE k..Start \subseteq GroupOf(k)
  BY DEF AtTheTop
<1>3. PICK p \in posts : Start \in p.group \cup {p.head} /\ p \in Post /\ (p.group = {} \/ Knows(p))
  BY DEF Stored, IInv, StoreInv, PostTypeOK
<1>4. p.head \leq c /\ p.head \in Int /\ p.head \in Messages /\ c \in Int
  BY <1>3 DEF MaxKnown, Post, Messages, IInv, TypeInv, TypeOK, PostTypeOK
<1>5. p.head < k
  BY <1>1, <1>4
<1>6. p.group = GroupOf(p.head) /\ Start \in GroupOf(p.head)
  BY <1>1, <1>2, <1>3, <1>5 DEF Knows
<1>7. p.head..Start \subseteq GroupOf(p.head)
  BY <1>4, <1>6, GroupFacts
<1>8. k..Start \subseteq p.head..Start /\ k \in p.head..Start
  BY <1>1, <1>2, <1>4, <1>5
<1>9. GroupOf(k) = GroupOf(p.head)
  BY <1>4, <1>7, <1>8, GroupFacts
<1>10. QED
  BY <1>7, <1>8, <1>9

\* Catch-up of the first boot has nothing else to ingest from before the join.
LEMMA MissedKeeps ==
  ASSUME IInv, ~Recovery, SolidInv, [Next]_vars
  PROVE  /\ job'["catchup"].pc = "fetch" =>
              \A k \in Messages : job'["catchup"].cursor < k => AtTheTop(k)
         /\ \A i \in job'["catchup"].todo : \A k \in i : AtTheTop(k)
<1>1. PICK s : s = job["catchup"]
  OBVIOUS
<1>2. PICK t : t = job'["catchup"]
  OBVIOUS
<1>3. SUFFICES /\ t.pc = "fetch" => \A k \in Messages : t.cursor < k => AtTheTop(k)
               /\ \A i \in t.todo : \A k \in i : AtTheTop(k)
  BY <1>2
<1>4. /\ s.pc = "fetch" => \A k \in Messages : s.cursor < k => AtTheTop(k)
      /\ \A i \in s.todo : \A k \in i : AtTheTop(k)
  BY <1>1 DEF SolidInv
<1>5. CASE t = s
  BY <1>4, <1>5
<1>6. CASE t # s
  <2>1. Moves("catchup")
    BY <1>1, <1>2, <1>6, JobSteps DEF Jobs
  <2>2. CASE Rests("catchup")
    <3>1. PICK pc \in {"idle", "selected", "fetch"}, c \in 0..LastMessage :
            /\ job'["catchup"] = At(pc, c)
            /\ pc # "idle" => MaxKnown(c) /\ phase = "down"
      BY <2>2 DEF Rests
    <3>2. t.pc = pc /\ t.cursor = c /\ t.todo = {}
      BY <1>2, <3>1 DEF At, State
    <3>3. phase = "down" => Stored(Start)
      BY DEF SolidInv
    <3>4. QED
      BY <3>1, <3>2, <3>3, MissedIsTop
  <2>3. ASSUME NEW S \in SUBSET Messages, Fetches("catchup", S)
        PROVE  t.pc = "ingest" /\ \A i \in t.todo : \A k \in i : AtTheTop(k)
    <3>1. /\ t.pc = "ingest" /\ t.todo = Items(S) /\ s.pc = "fetch"
          /\ S = Newest({m \in Posted : m > s.cursor}, CatchUpLimit)
      BY <1>1, <1>2, <2>3 DEF Fetches, State
    <3>2. \A k \in S : AtTheTop(k)
      <4>1. s.cursor \in Int
        BY <1>1, JobFields, FeedAssumption DEF Jobs, IInv, TypeInv, TypeOK
      <4>2. ASSUME NEW k \in S PROVE k \in Messages /\ s.cursor < k
        BY <3>1, <4>1 DEF Newest, Messages
      <4>3. QED
        BY <1>4, <3>1, <4>2
    <3>3. QED
      BY <3>1, <3>2, ItemsFacts
  <2>4. ASSUME NEW item, NEW seen, LooksUp("catchup", item, seen)
        PROVE  t.pc = "write" /\ t.todo = s.todo
    BY <1>1, <1>2, <2>4 DEF LooksUp, State
  <2>5. ASSUME Commits("catchup") PROVE t.pc = "ingest" /\ t.todo \subseteq s.todo
    BY <1>1, <1>2, <2>5 DEF Commits, State
  <2>6. CASE \E item, seen : LooksUp("catchup", item, seen)
    BY <1>4, <2>4, <2>6
  <2>7. CASE Commits("catchup")
    BY <1>4, <2>5, <2>7
  <2>8. QED
    BY <2>1, <2>2, <2>3, <2>6, <2>7 DEF Moves
<1>7. QED
  BY <1>5, <1>6

\* The strengthening is inductive while nothing fails and nobody is refused.
LEMMA SolidKeeps ==
  ASSUME IInv, IInv', ~Recovery, Begun, SolidInv, NeverRefused, "error" \notin Faults, StaysLive,
         [Next]_vars
  PROVE  SolidInv'
<1>1. HistoryComplete' /\ (oldestSeen' # 0 => Solid(oldestSeen)')
  BY FullKeeps, RecordKeeps
<1>2. job'["history"].pc # "idle" => Solid(job["history"].cursor)'
  BY CursorKeeps
<1>3. \A p \in posts' : p.head \leq Start =>
        Solid(p.head)' \/ Pending(job["join"], p.head)' \/ Pending(job["history"], p.head)'
  BY HeadsKeep
<1>4. \A j \in {"join", "history"} : \A i \in job'[j].todo : i \subseteq job'[j].batch
  BY BatchKeeps
<1>5. job'["join"].pc \in {"ingest", "write"} =>
        \A m \in job'["join"].batch :
          /\ m..Start \subseteq job'["join"].batch
          /\ Stored(m)' \/ \E i \in job'["join"].todo : m \in i
  BY JoinBatchKeeps
<1>6. \A e \in events' : \A m \in e.item : Start < m
  BY NewsKeeps
<1>7. IF LegacyPosts = {} THEN phase' = "live" ELSE Stored(Start)'
  BY SolidStays DEF SolidInv, StaysLive
<1>8. QED
  BY <1>1, <1>2, <1>3, <1>4, <1>5, <1>6, <1>7, MissedKeeps DEF SolidInv, AtTheTop

\* It holds initially.
LEMMA SolidAtFirst ==
  ASSUME Init, LegacyUnbroken
  PROVE  SolidInv
<1>1. /\ posts = {[head |-> m, group |-> {}] : m \in LegacyPosts}
      /\ media = {[post |-> m, file |-> m, position |-> 0, photo |-> m] : m \in LegacyPosts}
      /\ full = FALSE /\ oldestSeen = 0 /\ events = {}
  BY DEF Init, HistoryInit
<1>2. /\ job["history"].pc = "idle" /\ job["join"].pc \in {"idle", "fetch"}
      /\ job["catchup"].pc = "idle" /\ \A j \in Jobs : job[j].todo = {}
  BY DEF Init, Idle, At, State, Jobs
<1>3. ASSUME NEW m \in LegacyPosts PROVE Stored(m)
  <2>1. PICK r : r = [post |-> m, file |-> m, position |-> 0, photo |-> m]
    OBVIOUS
  <2>2. r \in media /\ r.file = m
    BY <1>1, <2>1
  <2>3. QED
    BY <2>2 DEF Stored
<1>4. ASSUME NEW m \in LegacyPosts PROVE Solid(m)
  BY <1>3 DEF Solid, LegacyUnbroken
<1>5. \A p \in posts : Solid(p.head)
  BY <1>1, <1>4
<1>6. ASSUME LegacyPosts # {} PROVE Stored(Start)
  <2>1. PICK m \in LegacyPosts : m \in 1..Start
    BY <1>6, RecoveryAssumption
  <2>2. Start \in m..Start
    BY <2>1, FeedAssumption
  <2>3. QED
    BY <1>3, <2>1, <2>2 DEF LegacyUnbroken
<1>7. LegacyPosts = {} => phase = "live"
  BY DEF Init
<1>8. QED
  BY <1>1, <1>2, <1>5, <1>6, <1>7 DEF SolidInv, HistoryComplete, Jobs

\* Channel history exhausted: as long as the process does not crash once it
\* runs, nothing raises and no album is written by two at once, a channel
\* marked fully backfilled has every message there was when the account
\* joined.  Without crashes and exceptions what a backfill has begun it ends,
\* so the oldest post, where the next pass begins, never lies below a gap.
THEOREM ArchiveIsComplete ==
  LegacyUnbroken /\ ~Recovery /\ "error" \notin Faults =>
    (Spec /\ []JoinReachesBack => CompleteUnlessCrashed)
<1> SUFFICES ASSUME LegacyUnbroken, ~Recovery, "error" \notin Faults
             PROVE  Spec /\ []JoinReachesBack => CompleteUnlessCrashed
  OBVIOUS
<1> DEFINE All == IInv /\ Begun /\ SolidInv
<1>1. LegacyInOrder
  <2>1. ASSUME NEW m \in LegacyPosts, NEW k \in GroupOf(m), m \leq k PROVE k \in LegacyPosts
    <3>1. m \in Messages /\ m \leq Start
      BY RecoveryAssumption, FeedAssumption DEF Messages
    <3>2. GroupOf(m) \in Albums /\ m \in GroupOf(m) /\ k \in Int
      BY <2>1, <3>1, GroupFacts, FeedAssumption DEF Messages
    <3>3. k \leq Start
      BY <2>1, <3>1, <3>2, FeedAssumption
    <3>4. k \in m..Start
      BY <2>1, <3>1, <3>2, <3>3, FeedAssumption DEF Messages
    <3>5. QED
      BY <3>4 DEF LegacyUnbroken
  <2>2. QED
    BY <2>1 DEF LegacyInOrder
<1>2. Init => All
  BY <1>1, Opening, RefusalAtFirst, SolidAtFirst
<1>3. All /\ NeverRefused /\ (phase = "live" => (phase = "live")') /\ [Next]_vars => All'
  <2> SUFFICES ASSUME All, NeverRefused, phase = "live" => phase' = "live", [Next]_vars
               PROVE  All'
    OBVIOUS
  <2>1. IInv' /\ Begun'
    BY NextKeeps, BegunKeeps DEF IInv
  <2>2. QED
    BY <2>1, SolidKeeps DEF StaysLive
<1>4. All => HistoryComplete
  BY DEF SolidInv
<1>5. Spec /\ []JoinReachesBack => []NeverRefused
  BY <1>1, WritesNeverRefused
<1>6. QED
  BY <1>2, <1>3, <1>4, <1>5, PTL DEF Spec, CompleteUnlessCrashed
================================================================================
