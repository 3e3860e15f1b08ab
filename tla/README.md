# Telegram Feed: verification project

TLA+ models of the program in this repository, the TLC configurations that
check them, and TLAPS proofs about them. Paths below are relative to the
repository root; `ingester/`, `api/` and `shared/` are under `backend/src/`.

## 1. The system

Users of a Telegram mini app follow channels and read one merged feed. One
Telegram account (the *userbot*) is a member of every followed channel. Two
processes share a PostgreSQL database:

* the **API** (FastAPI, several requests at once, one READ COMMITTED session
  per request), called by the mini app and the admin panel;
* the **ingester** (one asyncio process): boot-time jobs, then the live event
  handlers and a handful of loops that run concurrently and interleave at every
  `await`.

The API never talks to Telegram. Its requests reach the ingester through a
table, `channel_join_queue`; what the ingester learns comes back through other
tables. Redis holds the feed cache and the rate limiter's windows, MinIO the
pictures.

### Inventory

| Component | Source | State | Operations | Interacts through |
|---|---|---|---|---|
| Subscription tables | `shared/repositories/{channels,user_sources,user_states}.py` | links, `ref_count`, subscription status, hidden marks, ban | add/remove a source, increment/decrement, hide/unhide, ban/unban | called by API, join worker, poller, sweep |
| Join queue | `shared/repositories/join_queue.py` | rows with a status | enqueue, claim, mark done / failed / pending approval, find in flight, fetch parked | API → worker, poller |
| Sources API | `api/routers/sources.py` | requests under way | subscribe by input or by id, unsubscribe, hide, unhide | tables, queue |
| Join worker | `ingester/join_worker.py` | the row it holds | claim, join (public, private), link, route, backfill | queue, Telegram, tables, `chat_map` |
| Approval poller | `ingester/approval_poller.py` | a snapshot of parked rows | time out, re-check, link, backfill | queue, Telegram, tables |
| Refcount sweep | `ingester/refcount_sweep.py` | selected channels | park, drop from `chat_map` | tables, `chat_map` |
| Live routing | `ingester/live.py`, `ingester/main.py` | `chat_map` in memory | load at boot, register, drop | worker, sweep, event handlers |
| Message ingest | `ingester/{live,backfill,normalize,last_days_backfill,merge_existing_albums}.py`, `shared/repositories/posts.py` | posts, media, positions | live message, album, catch-up, backfill, repair jobs | Telegram, posts |
| History backfill | `ingester/history_backfill.py`, `shared/repositories/channel_backfill.py` | cursor, lock with TTL | select, lock, fetch, ingest, release, defer, exhaust | Telegram, posts |
| Feed and cache | `api/routers/feed.py`, `shared/repositories/feed.py`, `api/pagination.py` | cached slices, cursors | page, cache, invalidate | posts, Redis |
| Post actions | `api/routers/{posts,feed}.py` | saved, hidden, read marks | save, hide, mark read in batches | posts, feed cache |
| Rate limiter | `api/rate_limit.py` | a window per scope and IP or user | sample, admit, refuse, expire | Redis |
| Catalog, admin API | `api/routers/channels.py`, `api/routers/admin/` | catalog marks, ban, audit | list, hide, ban | tables |
| Text rendering | `ingester/text_html.py` | none | entities to HTML | ingest |
| Mini app | `frontend/tma/src/` | query cache, read tracker, poll, tokens | optimistic updates, polling, flush, refresh | API |
| Auth, photos, configuration, scripts, infrastructure | various | keys, files | checks and I/O | |

### What is hard, and what makes each part correct

* **Concurrency over the database.** The worker, the poller, the sweep and any
  number of requests write the same rows, most of them with plain
  `UPDATE ... WHERE id = ...` that look at nothing. The counter must stay equal
  to the links it counts; a queue row must have one writer at a time; a settled
  outcome must never change.
* **State read in one session and used in another.** The sweep's targets, the
  poller's snapshot, a request's reading of a status or a ban.
* **Memory against database.** `chat_map` is changed after commits, by two tasks,
  and rebuilt from the tables on boot.
* **Failure.** Crashes between commits, flood waits, exceptions nothing
  catches, backfills that fail. Nothing on boot looks at unfinished work.
* **Caches and optimism.** A slice of the feed is computed, stored and deleted in
  three steps around which posts are read, hidden and stored; the mini app keeps
  pages of different moments, cancels fetches half way, and puts snapshots back.
* **Telegram.** Joins take effect before the database knows; owners approve
  whenever they like; invites expire.
* **Progress.** A request should be settled, an approval should not wait for
  ever, a channel nobody follows should be parked, a first follower's channel
  should be filled.

`PROJECT.json` lists the hazards one by one, each at the line where it bites.

## 2. Plan

The most important behaviour first; each group of modules is parameterised by
CONSTANTS, has one action per operation, and declares no RECURSIVE operator, so that
it can be checked and proved about.

| Group | Modules | Abstract specification or reference | Proofs |
|---|---|---|---|
| Source life cycle (§3) | `Deployment`, `SubscriptionStore`, `JoinQueue`, `SourcesApi`, `Telegram`, `LiveRouting`, `JoinWorker`, `ApprovalPoller`, `RefcountSweep`, composed by `SourceLifecycle`; `MCSourceLifecycle` for TLC | `JoinRequests` | `SourceLifecycle_proofs`, `Promises_proofs` |
| Ingest (§4) | `ChannelFeed`, `PostStore`, `IngestJobs`, `HistoryBackfill`, `LiveHandlers`, `IngesterBoot`, composed by `Ingest` | | `PostStore_proofs`, `Ingest_proofs`, `Archive_proofs` |
| Feed (§5) | `FeedApi`, `FeedClient`, composed by `Feed` | | `Feed_proofs` |
| Rate limiter (§6) | `RateLimiter` | | `RateLimiter_proofs` |
| Text (§7) | `TextHtml` | what each entity was sent for (`meant`) | `TextHtml_proofs` |

Few runs, each with several properties; a violation run where the code disagrees
with its own text; then the type invariant and the main safety invariants as
theorems. §9 says what is left out and why.

## 3. The source life cycle

### Modules and their correspondence to the code

* `Deployment`: users, channels, which channels are private or need an owner's
  approval, and which `Faults` may occur.
* `SubscriptionStore`: one operator per repository function. `sources` is
  `user_sources`; `refCount` and `subStatus` are the columns of
  `channel_subscriptions` (`"none"` for no row; the `channels` row is created
  in the same transaction, so it has no variable of its own);
  `hiddenSources`, `hiddenCatalog` and `banned` are the marks. `StoreNext` runs
  any of them at any time.
* `JoinQueue`: `queue` is the table, ordered by id; `overdue` are the parked rows
  whose `updated_at` is `approval_timeout_days` old. `Claim` is
  `pop_pending_join_request` with its commit.
* `SourcesApi`: `request[h]` is what add-source request `h` will do next. A
  request is split at its awaits: what it read (`PostSource`,
  `PostSourceById`), the look for an in-flight row (`FindInFlight`), the write
  and commit (`LinkDirectly`, `InsertJoinRequest`). The other endpoints are one
  statement and one commit and take one step.
* `Telegram` (external): `member` and `applied`, what the account has joined
  and asked to join.
* `LiveRouting`: `chatMap` and `up`.
* `JoinWorker`: `job[w]` is the row worker `w` holds and the step it is at. The
  code starts one worker; the claim is written for several, so the workers are
  a set. `JobAborts` is any exception the handlers do not list.
* `ApprovalPoller`: `poll` is the rest of the snapshot and the row being finished.
* `RefcountSweep`: `sweep` is what is selected and what is parked but not yet
  dropped.
* `SourceLifecycle`: the composition. `Crash` empties the memory of the
  ingester (`job`, `poll`, `sweep`, `chatMap`), `Boot` loads `chatMap` from the
  active subscriptions. `Owner` approves, `Clock` ages parked rows.
* `JoinRequests`: what the whole promises: a request is opened, then settled
  once; granting it makes its user a follower in the same step.
* `MCSourceLifecycle`: symmetry for TLC. The operators introduced as "Mutated form"
  are wrong versions of the definition below them, kept to show that the
  properties can fail.

### Abstractions

A source input is the channel it names. Messages, titles, pictures, error codes
and log lines are left out; what a backfill stores is left out, its outcome is
kept. A ban has no reason and no audit row. Channels do not change
their username or leave Telegram. Transactions are atomic: each modelled one
commits once, and the row locks PostgreSQL takes make concurrent increments and
decrements serial.

### Runs

| Run | Shows |
|---|---|
| `core` | Two users who come and go, a public and a gated channel, no faults, under fairness: types, no forgotten row, no parked channel left in `chat_map`, one row in flight per user, settled rows final, statuses only move along their life, the abstract life cycle with its liveness, idle channels are parked, first backfills complete. |
| `faults` | Two workers and every fault, a public channel and an invite, a user who hides and an admin who bans while requests are under way: counter, row ownership, membership before records, routing, the abstract life cycle, and what the user sees, still hold. Nobody leaves here: with the sweep at work, routing fails (below). |
| `approvals` | Invites with crashes, exceptions and failing backfills: when crashes stop, parked rows are settled, because the timeout is checked before Telegram is asked. |
| `sweep_parks_followed`, `approved_not_routed`, `flood_wait_not_retried` | Violations: where the code does not do what its own text says; see *findings* in `PROJECT.json`. |

**Bounds.** `MaxRequests` rows (1 or 2), one handler, one or two workers, one or two
channels and users. Two users are what the shared counter, the sweep and the
queue need to interfere; two rows are what a worker and a poller, two workers, or a
request and a re-request need. The API refuses a request that could queue
a row beyond `MaxRequests` (`Room`), so no request is stuck half way. Nothing
else is bounded. Only `sweep_parks_followed` uses symmetry (of the users, who
may all do the same there); runs that pass use none.

**Deadlock** is checked everywhere.

**Fairness.** The ingester's loops run as long as the process does, its
supervisor restarts it, and time passes: weak fairness on the worker, the
poller, the sweep, `Boot` and `Clock`. Users, admins and owners owe nothing, and
no fault is assumed to stop, except in `ApprovalsSettle`, whose premise says so.

### What the violations have in common

Nothing repairs a row or a subscription that was interrupted: the boot only
loads *active* subscriptions and the worker only claims *pending* rows. And
`chat_map` has two writers that run after their commits and a third
(the poller) that should be one. Three more of this kind can be read off the
model and have no run: the sweep's `pop` can remove a channel the worker has just
routed again (`ActiveIsRouted` with `Leavers`), a channel whose first backfill
crashed is linked directly though nobody ingests it, and with two handlers one
user's concurrent requests stack two rows (`OneInFlightPerUser`).

## 4. The ingest

One channel's posts have five writers, which share one loop in five copies:
collect messages newest first, split them into albums and solos, upsert the
albums, then the solos, one commit each.

### Modules and their correspondence to the code

* `ChannelFeed` (external): the channel as `iter_messages` shows it; `posted`
  messages, some of them in `Albums`. `Items` is the album/solo split every
  writer has a copy of, `Newest` what `limit=` keeps.
* `PostStore`: the `posts` and `media` tables and `upsert_post`. An upsert takes two
  steps, what its SELECTs answered (`Readings`) and the insert with its commit
  (`AppendMedia`, `InsertPost`, `SkipDuplicate`); when one of the two partial unique
  indexes of the migrations refuses the insert, the step is `Refused`.
* `IngestJobs`: the loop. `job[j]` is what the join backfill, catch-up, the
  history backfill and the recovery script are doing; its `pc` says at which await.
* `HistoryBackfill`: `history_backfill.py` and the `channel_backfill_state` row:
  `oldestSeen`, `full`, `locked`. Each repository function is an action. `reads` is
  how many posts the keenest follower has read. `LockExpires` is `locked_until`
  passing, at any moment.
* `LiveHandlers`: `on_new_message` and `on_new_album`, a task for each update.
* `IngesterBoot`: `main()`: catch-up, picture repair (`Heal`), merge of albums stored
  before posts knew their group (`MergeAlbum`), registration (`Subscribe`).
* `Ingest`: the composition, the join backfill, the recovery script, `Crash`.

### Abstractions

One channel, followed and not banned; one ingester process, so the lock matters
only for what dead passes leave. A message carries one picture, whose
`tg_file_id` is the message's; texts, videos and documents are left out. Message
ids are dense: an id stands for the i-th message that exists. `JoinLimit` and the
recovery cutoff do not divide the newest album (50 messages against albums of
10). The picture repair is one step: with no fault it reaches every recent
message, with one any part of them. The merge reads all of an album's legacy posts or,
when reading fails, none. The repair of texts and channel photos touches no
state of the model.

### Runs

| Run | Shows |
|---|---|
| `ingest_faults` | A channel of 4 to 6 messages with an album among the old and one among the new ones, batches of 2 and catch-up of 1, so that both divide albums; crashes, exceptions, flood waits at every step and the recovery script beside the others: every message is stored once and every album has one post (`EachMessageOnce`), the archive cursor moves only over messages that are stored (`AdvancesOverStored`), and once the faults stop a follower who reads on gets the whole archive, stale locks included (`HistoryFinishes`). |
| `archive` | A boot over posts of before albums were known (`LegacyPosts`: parts of two albums), then a message and an album posted after it, batches of 2 that divide an album, failing downloads and crashes, under fairness: no file or key is lost by merge, repair or append and none is doubled, places in an album are distinct, no insert of the ingester's own writers is refused, the boot comes through, what a live handler was given is stored, the prefetch never exceeds threshold and batch, and without a crash an archive said to be complete has no hole (`CompleteUnlessCrashed`). |
| `missed_before_subscribe` | A violation; see *findings*. |

**Bounds.** `LastMessage` bounds what is posted; nothing else is bounded. Limits of 1
to 3 against albums of 2 or 3 are what makes every limit divide an album. `archive` starts
with a boot, after the join: that `BufferIsBounded`, `NeverRefused` and
`CompleteUnlessCrashed` hold from the join on, with the join backfill beside live
handlers, is proved (§8).

**Deadlock** is not checked: when all is posted, read and archived nothing happens.

**Fairness.** The process and its tasks run on and time passes: weak fairness on
`Live`, `Join`, `History`, `Boot`, `Clock`. Nobody has to post or to read;
`HistoryFinishes` has readers and the end of faults as its premise.

**Where the properties stop.** The first pass of the archive starts below the
oldest stored post. A join backfill writes albums first and is not atomic; so is
a first pass whose cursor is not recorded yet. When a crash cuts one of them, the
next pass starts below what was written, what lies between is never fetched, and the
channel is still marked complete: `CompleteUnlessCrashed` has the absence of
crashes as its premise, and `AdvancesOverStored` speaks of the recorded cursor.
`NeverRefused` fails beside the recovery script, and `BootSurvives` over legacy posts that
lack a newer part of their album: both can be seen in `Refused` and
`BootFails` and have no run of their own. A caption on an older message of a divided
album is lost, and `Heal` gives every row of an album its head's picture; neither
is stated as a property.

## 5. The feed

A page of the feed is what lies below a cursor; `GET /feed` keeps pages below the
first in Redis for 30 seconds, `POST /feed/read` deletes a user's slices, and the mini app
strings pages together in an infinite query that it patches optimistically.

### Modules and their correspondence to the code

* `FeedApi`: `stored`, `hidden`, `read` are what the query looks at, `cache` is
  `feed:{user}:{cursor}:{limit}`, `slot` the user's requests under way, each at one of
  its awaits. `LookUp`, `Select`, `Store` are `get_feed` with
  `fetch_feed_page`; `CommitRead`, `ScanKeys`, `DeleteKeys` are `mark_read` with
  `_invalidate_feed_cache`. The first page and requests with `include_read` have no key.
  `Die` is a request that ends anywhere.
* `FeedClient`: `pages` is `data.pages` of the query, `fetch` the fetch under way (all
  pages again, or one more), `hides` the hide mutations with their snapshots.
  `Hide` is `onMutate` (cancel, snapshot, patch), `HideCommits` the server's part,
  `Rollback` is `onError`, after a request that failed or whose answer was lost.
  What TanStack Query does with a fetch (pages captured when it starts, pages asked for one
  after another, cancelled fetches whose answers nobody hears) is modelled as the
  code relies on it. `gone` is not in the code: the cards taken off since the last
  refresh.
* `Feed`: the composition with the ingester (`Arrive`), another device of the
  user (`Elsewhere`) and Redis. `steady` is not in the code: the posts that have
  been stored, unread and not hidden all along.

### Abstractions

A post is its rank by (`posted_at`, `id`), a cursor the rank of a page's last post; media,
channel and saved fields are left out. What the user hides is a set of posts:
one, or a channel's. The read tracker (`usePostRead`) is what it sends:
`SendRead`, any set of posts the user has seen. Channels followed or left while the
feed is open are not modelled beyond hiding them: what is stored and not hidden is
what the user follows.

### Run

`feed`: three posts, one of which arrives later, pages of two, two requests at once, a post
and a channel to hide, another device that hides and shows again and asks with
`include_read`: pages descend and show nothing twice (`FeedDescends`), scrolling
skips no steady post (`ScrollIsComplete`), a refresh is not answered from the past
(`RefreshIsCurrent`), a card taken off is not brought back by a page on its way
(`HiddenStaysAway`), a post that is read or hidden for good leaves the cache
(`GoneFadesAway`).

**Bounds.** `MaxPost`, `PageSize`, `InFlight`, and `MaxTaps` on what the user does beside
scrolling. Two pages of two make a cached page below the first one, two requests are what a
read racing a page needs, two taps what two hides, or a hide and a refresh, need. The
safety properties are proved for all values (§8).

**Deadlock** is not checked: the user may have done all she may.

**Fairness.** Only that Redis drops what has outlived its TTL: a request may hang or
die, the user may never come back.

**Where the properties stop.** Hiding commits without dropping a slice, so after a Refresh
a page below the first may still show what was hidden, for up to 30 seconds, although
`feed.py:39-41` calls the slice below a cursor immutable; a read mark that commits while
a slice is between its `SELECT` and its `SET` is cached after the invalidation in the same
way. `GoneFadesAway` says that both end with the TTL, and `HiddenStaysAway` speaks of cards
up to the next Refresh. A page fetched while the hide of a channel is pending
may show other posts of that channel. A rollback drops the pages loaded since, and
puts back what a second hide took off in between. A batch of read marks whose request
fails is not sent again, as `usePostRead.ts:42-43` says. None of these has a property.

## 6. The rate limiter

`RateLimiter` is the window of one key; windows share nothing. A request samples its clock
(`Sample`), then the script runs in Redis in one step: `Admit` or `Refuse`, over what
`Kept` leaves of the sorted set. `Drop` is a call to Redis that raises before the script
runs, which the API answers with an error. `Tick` is time: it expires the key, by Redis'
clock and not by the samples. `log` is not in the code: all admissions ever.

The run `rate_limit` has two concurrent requests, a limit of 2 in a window of 3 and a
latency of 1 between sample and script: of any `Limit` + 1 consecutive admissions the
last is at least a window, less the latency, after one of the others (`NoBurst`), and a
request is refused only if `Limit` admitted ones lie in its own window (`RefusedJustly`).
`Horizon` bounds the clock; 8 lets two windows pass and a key expire. `Latency` is the
premise: a request that waited longer than the window would admit a burst. Time may stop
and no liveness is claimed. Deadlock is checked.

## 7. Text rendering

`TextHtml` is `entities_to_html`: `Convert` takes one more entity, turns its UTF-16 offsets
into positions and drops what has no tag; `Start` sorts; `Close`, `Open`, `Emit` are
the loop with its stack. `meant` is the reference: the characters an entity was sent for,
counted in units. The run `text_html` has every text of up to three characters of one or
two units with every list of up to three entities, offsets inside a character and
overlaps included: each character is written inside the tags of every entity that was sent
for it (`MarksItsText`), and entities that nest are rendered exactly and closed
(`RendersNested`). Three entities are what a nest inside a nest, and a tie beside an overlap, need.
Overlapping entities can leave a tag open at the end of the text, and extend the
formatting beyond its entity: `RendersNested` therefore has nesting as its premise. Deadlock
is not checked: the loop ends. Escaping and the wording of the tags are left out.

## 8. Proofs

`SourceLifecycle_proofs` proves, for any finite set of users, any channels,
workers, handlers, queue length and faults:

* `TypeCorrect`: every component's state keeps its type.
* `LifecycleImplementsStore`: every step of the system changes the tables by one
  repository function or not at all.
* `RefCountsAreExact`: `RefCountExact`. It is proved of the store alone and
  carried over by `LifecycleImplementsStore`. The strengthening (`StoreInv`) says
  that a channel without a subscription row has no followers: otherwise the row
  a first follower creates could not start at one.
* `RowsAreOwned`: `RowOwnership`, inductive together with the types. A claim
  takes a pending row, which nobody holds; every other write is by the holder,
  or by the poller on a row of its snapshot that it removes in the same step.
* `OutcomesAreFinal`: `SettledIsFinal`, from row ownership.
* `JoinsComeFirst`: `TrackedIsJoined`. It needs `LinksAreKnown`: a request that
  will link directly has seen a subscription row, and rows are never deleted.
* `LifecycleImplementsJoinRequests`: every step maps to a step of `JoinRequests`
  or to a stutter. Row ownership makes every outcome that of an open request,
  `StoreInv` and `LinksAreKnown` make the set of tracked channels grow only by
  grants.

`Promises_proofs` continues it. For the same constants:

* `GrantsAreVisible` (`GrantedIsVisible`) and `BansAreFinal` (`BannedStaysQuiet`), from the
  types: whatever links a user goes through `AddUserSource`, which clears both kinds of
  hiding, and of the steps that link or queue only those of a request begun before
  the ban do not look at it.
* `StatusesFlow` (`StatusFlow`): the sweep's UPDATE looks at no status, so what its
  SELECT chose must still be active when it is parked (`TargetsActive`).

and under a restriction of the constants, without which the property does not hold:

* `RowsAreKept` (`NoRowAbandoned`), without faults: every row in progress belongs to a
  worker that is still at it.
* `ParkedAreNotRouted` (`ParkedNotRouted`), if backfills do not fail: a failed one would
  leave a joined channel in `chat_map` and dormant.
* `FlightsAreShared` (`OneInFlightPerUser`), with one request handler: a request that will
  insert has found no row in flight, and nobody else inserts (`InsertsAreNew`). Nothing
  in the table forbids the second row of two handlers.
* `ActiveAreRouted` (`ActiveIsRouted`), if nobody unsubscribes and no channel is gated: the
  sweep finds nothing (`NothingToPark`), the poller approves nothing
  (`NothingToApprove`), and a worker routes a channel before it backfills it
  (`RoutedBeforeFilled`).

`PostStore_proofs`, `Ingest_proofs` and `Archive_proofs` are about the ingest, for a
channel of any length, any albums and any limits. The first two allow all faults, with and
without the recovery script:

* `UpsertStores`: however `upsert_post` ends, what it was given is stored, nothing
  stored is lost and `StoreInv` holds again. The hard case is the insert that is
  skipped because a post with that `tg_message_id` exists: the post may hold only
  part of the album. `StoreInv` therefore says of every post that its head and all
  that is newer in its album are stored (`UpStored`), and a writer may only bring
  an item whose album is, above it, in the item or stored (`UpItem`). Every
  fetch takes messages newest first, which is why it does.
* `IngestTypeCorrect`: all of the composition's state keeps its type.
* `OnceAndForAll`: `EachMessageOnce`. `IInv` is `StoreInv` with the same claim on
  what each writer still has to write (`WritersInv`: its items, and an answer of
  the SELECTs that inserts by others do not outdate), on the archive, on which jobs may
  be at work in which phase of the process (`PhaseInv`) and on legacy posts (`LegacyInv`).
* `ArchiveAdvances`: `AdvancesOverStored`. `ArchiveInv` says that a pass starts at a
  message that is stored up, at the recorded cursor if there is one, and that its
  batch reaches from the cursor down without a gap, each message stored or
  still in `todo`; so when `todo` is empty the cursor may move.
* `StoredIsKept` (`NothingForgotten`): only upserts, the merge and the repair of pictures touch
  the rows, and all keep the file and the picture of every row there was.
* `PlacesStayDistinct` (`PlacesDistinct`): the `MAX(position)` a writer has read may be out of
  date when it writes. `PlaceInv` says when: either all places of the post are still
  below the number read, or a file the writer would append is there by now, so that the
  unique index on the files refuses its write, or it has nothing to append. What keeps it is
  `UpItem`: two writers that lack parts of an album both lack its newest missing
  message.
* `MergeNeverRefused` (`BootSurvives`): no album has a legacy post and a post that knows the
  group. A legacy post does not know its album (`Knows`); while there is one (`Unmerged`)
  only a boot is at work, and its catch-up fetches above all posts (`LegacyInv`). All that is
  newer in an album with legacy posts has posts itself (`UpStored`), so catch-up brings
  nothing of such an album (`MissedIsNew`), and the merge leaves none behind.

Where the channel has legacy posts (`LegacyPosts`), these five assume `LegacyInOrder`: of an album
only older parts are missing from them, which is how every fetch of the code leaves
an album; no boot step raises, since one that does lets the passes start over posts
still unmerged; and the recovery script is not used. Without the first, catch-up
could store a newer part of an album with its group beside an older legacy
part: the merge is then refused at that boot and at every later one.

`Archive_proofs` is about the ingester's own writers: without the recovery script, which an
index does refuse beside them (§4). All three theorems assume `LegacyInOrder` or what
implies it.

* `WritesNeverRefused` (`NeverRefused`), with all faults, as long as `JoinReachesBack` holds:
  either no album is posted after the join, or the channel had a message before it and
  the join backfill fetches before `JoinLimit` messages (50 in the code) are posted after it.
  Only the join backfill and live handlers can meet the same album at once. Then
  each has all of it (`Shared`), and the first to insert stores all the other would
  append. Everything else that two may be about to write is from before the join (`Old`), and of
  those who write such messages one is at work at a time (`OneAtWork`), so the
  answer it goes by is up to date (`Sure`). `ReachInv` is why history passes are among them:
  the join brings a post from before it, and passes begin at or below one. Without the
  premise TLC finds an index refusing an insert: a limit of 1 divides the album that a
  handler is writing, and in a channel that was empty at the join the first pass of the
  archive begins among live messages and may do the same.
* `PrefetchIsBounded` (`BufferIsBounded`), with all faults. As long as nobody posts, no handler is
  at work and one job is. `RoomInv` counts what it has left: posts and items left of the
  join backfill are within its limit (`JoinRoom`), unread posts and items left of a pass are within
  threshold and batch (`PassRoom`), since a batch has no more items than messages
  (`BatchCount`) and an upsert inserts one post at most (`UpsertCount`). Catch-up may
  still find something, but only of the album of the newest message, which has a post
  (`MissedRoom`). Of legacy posts it assumes `LegacyFromJoin`: one join backfill brought them, the
  newest message among them.
* `ArchiveIsComplete` (`CompleteUnlessCrashed`), without exceptions (the property itself excludes
  crashes once the process runs) and under the premise of `WritesNeverRefused`: a backfill
  that raises half way leaves a hole just like one that crashes. `SolidInv` says that
  from the recorded cursor, from the cursor of a pass at work, and from every post that is
  not of a batch at work, all messages up to the join are stored (`Solid`, `Pending`).
  The join backfill's batch reaches up to the join, a pass's up to its
  cursor; both are stored when the job ends (`PendingStays`); and where a pass begins
  nothing else is at work (`CursorKeeps`). Boots may crash before the process runs, over
  legacy posts: catch-up then stores at most the rest of the newest album
  (`MissedIsTop`). `LegacyUnbroken` says that legacy posts are all messages from some message to
  the join.

`RateLimiter_proofs` is about one key, for any limit, window, latency and requests:

* `LimiterTypes`, `LimiterAdmits` (`NoBurst`), `LimiterRefuses` (`RefusedJustly`). The
  invariant adds that a waiting request is at most `Latency` old (`CallsAreRecent`), that
  admissions lie in the past and within the key's life (`LogIsPast`), and that what
  the window does not hold any more is older than a window (`ForgottenIsOld`): so when
  the script counts less than `Limit`, one of the last `Limit` admissions is that old.

`Feed_proofs` is about the feed, for any number of posts, requests and taps, any size of a
page, whatever may be hidden, read or arrive:

* `FeedTypes`, `PagesDescend` (`FeedDescends`), `ScrollsAreComplete` (`ScrollIsComplete`),
  `RefreshesAreCurrent` (`RefreshIsCurrent`), `HiddenPostsStayAway` (`HiddenStaysAway`), from
  one invariant. A slice that waits, is cached or is on its way leaves out no steady post
  between its cursor and its last post (`Below`); this survives whatever else happens,
  because posts can only stop being steady. Pages, a fetch's pages and every snapshot are
  lists of such slices (`Listing`), which grow at their end only (`ListingGrows`) and may lose
  hidden cards (`ListingWithout`); at most one request is listened to, and it asks for the
  page below what its fetch has got (`Sound`); cards taken off lie above what a fetch for
  one more page may bring, and a fetch of all pages began when there were none
  (`GoneInv`).

`TextHtml_proofs` is about the rendering, for texts of any length and any list of entities:

* `TextIsMarked` (`MarksItsText`): the prefix `CharAt` decodes ends at the first
  character that starts at the offset or after (`CharAtFacts`), so an entity is
  rendered on what it was sent for (`Rendered`). In the loop, an entity is still
  queued, at or after the position, or on the stack, or ended (`NoneForgotten`); the stack is
  what was opened and not closed (`StackIsOpen`, by `OneMore`: an entry changes nothing
  that was open at an earlier one).
* `NestsAreRendered` (`RendersNested`): the stack is in the order of the sort's key
  (`StackInv`), and when entities nest, therefore, also in the order they end and
  nothing on it has ended (`NestedInv`); at the end of the text all of it would end.
  That the sort queues every entity is the pigeonhole principle (`SortedTakesAll`).

What a text of any length needs by way of induction is `Least`: a set of numbers
has a least member, from the well-foundedness of the strict subset order.

Assumptions: of `SourceLifecycle`, `Users` is finite (a cardinality is compared to a
counter), `Gated` is a part of `Private`, `Private` of `Channels`, `MaxRequests` is a
natural number, the sets of `ApiConstants` are what their names say. Of `Ingest`,
albums are disjoint stretches of messages, wholly before or after the join
(`FeedAssumption`), and the limits are positive. Of `RateLimiter`, limit and window are
positive. Of `Feed`, pages and requests are at least one, and what is hidden, read, awaited
or asked for is a set of posts.

Only model-checked: the liveness properties (TLAPS has no fairness rule usable here):
`IdleChannelsPark`, `FirstBackfillCompletes`, `ApprovalsSettle`, the fairness half of the
refinement (`ImplementsFairly`), `GoneFadesAway`, `LiveIsStored` and `HistoryFinishes`. Every
invariant and every action property of the runs is a theorem.

## 9. Not modelled

* **Saved posts and the listings** of saved, hidden and read posts, of the catalog and of
  the admin panel: inserts and deletes of one row and reads of one statement, which
  nothing else depends on. The audit rows of the admin API, for the same reason.
* **Authentication**: stateless checks of signatures and expiry; the token refresh of the
  mini app, whose tokens the server does not remember.
* **The queue polling** of the mini app's add form: one screen's state; the server's side of
  the request is `JoinRequests`.
* **Storage and pictures**: I/O with MinIO; that a picture may be missing is in the ingest
  modules. Videos and documents are stored like pictures.
* **Admin frontend**: forms and tables over the admin API.
* **Configuration, migrations, scripts, infrastructure**: no behaviour over time; the unique
  indexes of the migrations are in `PostStore`.
