--------------------------------- MODULE FeedApi ---------------------------------
(***************************************************************************)
(* GET /feed and POST /feed/read as one user's requests meet them: the     *)
(* posts table, what the user has hidden and read, and the slices of the   *)
(* feed that Redis keeps for half a minute.  A request is several steps,   *)
(* one per await, and may die at any of them.                              *)
(***************************************************************************)
EXTENDS Naturals, Sequences, FiniteSetsExt

CONSTANTS
  MaxPost,    \* posts there may be: a post is its rank by (posted_at, id)
  PageSize,   \* the limit of a page
  InFlight    \* requests of the user that can be under way at once

ASSUME FeedApiAssumption ==
  MaxPost \in Nat /\ PageSize \in Nat \ {0} /\ InFlight \in Nat \ {0}

Posts == 1..MaxPost
Top == MaxPost + 1      \* FeedCursor.initial()
End == 0                \* no next_cursor
Slots == 1..InFlight

VARIABLES
  stored,   \* posts of followed channels in the table
  hidden,   \* what the user hides, each a set of posts: one, or a channel's
  read,     \* user_read_posts
  cache,    \* feed:{user}:{cursor}:{limit} in Redis: the posts of the slice
  slot      \* requests under way

apiVars == <<stored, hidden, read, cache, slot>>

Free == [pc |-> "free", heard |-> FALSE, cursor |-> End, all |-> FALSE,
         posts |-> {}, keys |-> {}, asked |-> {}]

Request ==
  [pc : {"free", "lookup", "select", "store", "commit", "scan", "delete", "reply"},
   heard : BOOLEAN,          \* is the mini app's feed waiting for the answer
   cursor : 0..Top,          \* of a page that is asked for
   all : BOOLEAN,            \* include_read
   posts : SUBSET Posts,     \* the page; or what is marked as read
   keys : SUBSET Posts,      \* the cached cursors a scan has found
   asked : SUBSET Posts]     \* what was read when the first page was asked for

ApiTypeOK ==
  /\ stored \subseteq Posts /\ hidden \subseteq SUBSET Posts /\ read \subseteq Posts
  /\ DOMAIN cache \subseteq Posts /\ \A c \in DOMAIN cache : cache[c] \subseteq Posts
  /\ slot \in [Slots -> Request]

\* What is stored when the model begins is left to the composition.
ApiInit ==
  /\ hidden = {} /\ read = {}
  /\ cache = [c \in {} |-> {}]
  /\ slot = [s \in Slots |-> Free]

--------------------------------------------------------------------------------
(* GET /feed *)

Visible == stored \ UNION hidden
Unread == Visible \ read

Newest(S, n) == {p \in S : Cardinality({q \in S : q > p}) < n}

\* Mutated form: the keyset predicate lets the cursor's own post in.
SliceFromCursor(cursor, all) ==
  Newest({p \in IF all THEN Visible ELSE Unread : p \leq cursor}, PageSize)

\* fetch_feed_page
Slice(cursor, all) ==
  Newest({p \in IF all THEN Visible ELSE Unread : p < cursor}, PageSize)

\* Mutated form: the cursor is one post too low.
NextCursorBelow(page) == IF page = {} THEN End ELSE Min(page) - 1

NextCursor(page) == IF page = {} THEN End ELSE Min(page)

\* Mutated form: the first page has a key too.
KeyedWhateverCursor(cursor, all) == ~all

\* cache_key is not None
Keyed(cursor, all) == cursor # Top /\ ~all

Get(cursor, all, heard) ==
  [Free EXCEPT !.pc = IF Keyed(cursor, all) THEN "lookup" ELSE "select",
               !.cursor = cursor, !.all = all, !.heard = heard,
               !.asked = IF cursor = Top THEN read ELSE {}]

\* The request is answered, if anybody is waiting for the answer.
Answer(s, page) ==
  slot' = [slot EXCEPT ![s] =
             IF @.heard THEN [@ EXCEPT !.pc = "reply", !.posts = page] ELSE Free]

LookUp(s) ==
  /\ slot[s].pc = "lookup"
  /\ IF slot[s].cursor \in DOMAIN cache
       THEN Answer(s, cache[slot[s].cursor])
       ELSE slot' = [slot EXCEPT ![s].pc = "select"]
  /\ UNCHANGED <<stored, hidden, read, cache>>

Select(s) ==
  /\ slot[s].pc = "select"
  /\ LET page == Slice(slot[s].cursor, slot[s].all)
     IN  IF Keyed(slot[s].cursor, slot[s].all)
         THEN slot' = [slot EXCEPT ![s].pc = "store", ![s].posts = page]
         ELSE Answer(s, page)
  /\ UNCHANGED <<stored, hidden, read, cache>>

Store(s) ==
  /\ slot[s].pc = "store"
  /\ cache' = [c \in DOMAIN cache \cup {slot[s].cursor} |->
                 IF c = slot[s].cursor THEN slot[s].posts ELSE cache[c]]
  /\ Answer(s, slot[s].posts)
  /\ UNCHANGED <<stored, hidden, read>>

\* Mutated form: set without ex.
ExpireNever(c) == FALSE /\ UNCHANGED apiVars

\* ex=CACHE_TTL_SECONDS
Expire(c) ==
  /\ c \in DOMAIN cache
  /\ cache' = [d \in DOMAIN cache \ {c} |-> cache[d]]
  /\ UNCHANGED <<stored, hidden, read, slot>>

--------------------------------------------------------------------------------
(* POST /feed/read; hiding and showing again *)

Mark(batch) == [Free EXCEPT !.pc = "commit", !.posts = batch]

\* bulk_mark_read and its commit
CommitRead(s) ==
  /\ slot[s].pc = "commit"
  /\ read' = read \cup slot[s].posts
  /\ slot' = [slot EXCEPT ![s] = [Free EXCEPT !.pc = "scan"]]
  /\ UNCHANGED <<stored, hidden, cache>>

\* _invalidate_feed_cache: scan_iter, then delete
ScanKeys(s) ==
  /\ slot[s].pc = "scan"
  /\ slot' = [slot EXCEPT ![s] =
                IF DOMAIN cache = {} THEN Free
                ELSE [@ EXCEPT !.pc = "delete", !.keys = DOMAIN cache]]
  /\ UNCHANGED <<stored, hidden, read, cache>>

DeleteKeys(s) ==
  /\ slot[s].pc = "delete"
  /\ cache' = [c \in DOMAIN cache \ slot[s].keys |-> cache[c]]
  /\ slot' = [slot EXCEPT ![s] = Free]
  /\ UNCHANGED <<stored, hidden, read>>

\* An exception, a lost connection.
Die(s) ==
  /\ slot[s] # Free /\ ~slot[s].heard
  /\ slot' = [slot EXCEPT ![s] = Free]
  /\ UNCHANGED <<stored, hidden, read, cache>>

ServerStep(s) ==
  \/ LookUp(s) \/ Select(s) \/ Store(s)
  \/ CommitRead(s) \/ ScanKeys(s) \/ DeleteKeys(s)
  \/ Die(s)

\* The ingester stores a post: a new one, or one of the channel's history.
Arrive(p) ==
  /\ p \notin stored
  /\ stored' = stored \cup {p}
  /\ UNCHANGED <<hidden, read, cache, slot>>

\* POST /posts/{id}/hide, POST /sources/{id}/hide: one commit; no slice is
\* dropped from the cache.
HideOnServer(h) ==
  /\ hidden' = hidden \cup {h}
  /\ UNCHANGED <<stored, read, cache, slot>>

\* DELETE of the same
Unhide(h) ==
  /\ h \in hidden
  /\ hidden' = hidden \ {h}
  /\ UNCHANGED <<stored, read, cache, slot>>
================================================================================
