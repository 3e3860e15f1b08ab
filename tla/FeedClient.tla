-------------------------------- MODULE FeedClient --------------------------------
(***************************************************************************)
(* The mini app's feed: the pages of an infinite query and the optimistic  *)
(* hiding of posts and channels.  What TanStack Query does with a fetch    *)
(* (pages captured when it starts, a refetch page by page, cancellation)   *)
(* is modelled as the code relies on it.                                   *)
(***************************************************************************)
EXTENDS FeedApi

CONSTANTS
  Hideable,   \* what the user may hide: sets of posts
  Noticed     \* posts the user may look at for long enough, or open

ASSUME ClientAssumption == Hideable \subseteq SUBSET Posts /\ Noticed \subseteq Posts

VARIABLES
  pages,   \* data.pages, each with its next_cursor
  fetch,   \* the fetch of the query: pages it has and is still to get
  hides,   \* hide requests: what, the snapshot of pages, is it committed
  gone     \* cards taken off since the last refresh, unless put back

clientVars == <<pages, fetch, hides, gone>>

Page == [posts : SUBSET Posts, next : 0..Top]
NoFetch == [kind |-> "none", got |-> <<>>, left |-> 0]

ClientTypeOK ==
  /\ pages \in Seq(Page)
  /\ fetch \in [kind : {"none", "more", "all"}, got : Seq(Page), left : Nat]
  /\ hides \subseteq [what : Hideable, snap : Seq(Page), done : BOOLEAN]
  /\ gone \subseteq Posts

ClientInit == pages = <<>> /\ fetch = NoFetch /\ hides = {} /\ gone = {}

Shown(ps) == UNION {ps[i].posts : i \in DOMAIN ps}
Reach(ps) == IF ps = <<>> THEN Top ELSE ps[Len(ps)].next

--------------------------------------------------------------------------------
(* Requests *)

\* What runs is no longer listened to.
Unheard == [s \in Slots |-> IF ~slot[s].heard THEN slot[s]
                            ELSE IF slot[s].pc = "reply" THEN Free
                            ELSE [slot[s] EXCEPT !.heard = FALSE]]

FirstFree(s) == slot[s] = Free /\ \A t \in Slots : t < s => slot[t] # Free

Send(s, request) ==
  /\ FirstFree(s)
  /\ slot' = [slot EXCEPT ![s] = request]
  /\ UNCHANGED <<stored, hidden, read, cache>>

SendInstead(s, request) ==
  /\ FirstFree(s)
  /\ slot' = [Unheard EXCEPT ![s] = request]
  /\ UNCHANGED <<stored, hidden, read, cache>>

--------------------------------------------------------------------------------
(* useFeed *)

\* The first load of the app.
FirstLoad ==
  /\ pages = <<>> /\ fetch.kind = "none"
  /\ \E s \in Slots : Send(s, Get(Top, FALSE, TRUE))
  /\ fetch' = [kind |-> "all", got |-> <<>>, left |-> 1]
  /\ UNCHANGED <<pages, hides, gone>>

\* The sentinel comes into view; a refetch under way is cancelled.
FetchNextPage ==
  /\ pages # <<>> /\ Reach(pages) # End
  /\ fetch.kind # "more"
  /\ \E s \in Slots : SendInstead(s, Get(Reach(pages), FALSE, TRUE))
  /\ fetch' = [kind |-> "more", got |-> pages, left |-> 1]
  /\ UNCHANGED <<pages, hides, gone>>

\* The Refresh button, which is disabled during a fetch.
Refetch ==
  /\ pages # <<>> /\ fetch.kind = "none"
  /\ \E s \in Slots : Send(s, Get(Top, FALSE, TRUE))
  /\ fetch' = [kind |-> "all", got |-> <<>>, left |-> Len(pages)]
  /\ gone' = {}
  /\ UNCHANGED <<pages, hides>>

Arrived(s) == slot[s].heard /\ slot[s].pc = "reply"

Got(s) ==
  Append(fetch.got, [posts |-> slot[s].posts, next |-> NextCursor(slot[s].posts)])

\* A page arrives, and it is the last one to get.
FetchDone(s) ==
  /\ Arrived(s)
  /\ fetch.left = 1 \/ Reach(Got(s)) = End
  /\ pages' = Got(s) /\ fetch' = NoFetch
  /\ slot' = [slot EXCEPT ![s] = Free]
  /\ UNCHANGED <<stored, hidden, read, cache, hides, gone>>

\* Mutated form: until the feed ends, however many pages there were.
FetchGoesOnToTheEnd(s) ==
  /\ Arrived(s)
  /\ Reach(Got(s)) # End
  /\ fetch' = [fetch EXCEPT !.got = Got(s), !.left = @ - 1]
  /\ slot' = [slot EXCEPT ![s] = Get(Reach(Got(s)), FALSE, TRUE)]
  /\ UNCHANGED <<stored, hidden, read, cache, pages, hides, gone>>

\* The next page is asked for below the page that has arrived.
FetchGoesOn(s) ==
  /\ Arrived(s)
  /\ fetch.left > 1 /\ Reach(Got(s)) # End
  /\ fetch' = [fetch EXCEPT !.got = Got(s), !.left = @ - 1]
  /\ slot' = [slot EXCEPT ![s] = Get(Reach(Got(s)), FALSE, TRUE)]
  /\ UNCHANGED <<stored, hidden, read, cache, pages, hides, gone>>

\* The query fails and keeps its pages; the request may run on.
FetchFails ==
  /\ fetch.kind # "none"
  /\ fetch' = NoFetch
  /\ slot' = Unheard
  /\ UNCHANGED <<stored, hidden, read, cache, pages, hides, gone>>

--------------------------------------------------------------------------------
(* useHidePost, useHideSource *)

Without(ps, h) == [i \in DOMAIN ps |-> [ps[i] EXCEPT !.posts = @ \ h]]

\* Mutated form: without cancelQueries.
HideLettingFetch(h) ==
  /\ h \cap Shown(pages) # {}
  /\ \A m \in hides : m.what # h
  /\ hides' = hides \cup {[what |-> h, snap |-> pages, done |-> FALSE]}
  /\ pages' = Without(pages, h)
  /\ gone' = gone \cup (h \cap Shown(pages))
  /\ UNCHANGED <<apiVars, fetch>>

\* onMutate: cancelQueries, snapshotAndPatch
Hide(h) ==
  /\ h \cap Shown(pages) # {}
  /\ \A m \in hides : m.what # h
  /\ hides' = hides \cup {[what |-> h, snap |-> pages, done |-> FALSE]}
  /\ pages' = Without(pages, h)
  /\ gone' = gone \cup (h \cap Shown(pages))
  /\ fetch' = NoFetch
  /\ slot' = Unheard
  /\ UNCHANGED <<stored, hidden, read, cache>>

HideCommits(m) ==
  /\ ~m.done
  /\ hides' = (hides \ {m}) \cup {[m EXCEPT !.done = TRUE]}
  /\ HideOnServer(m.what)
  /\ UNCHANGED <<pages, fetch, gone>>

HideSucceeds(m) ==
  /\ m.done
  /\ hides' = hides \ {m}
  /\ UNCHANGED <<apiVars, pages, fetch, gone>>

\* onError: the request failed, or its answer was lost.  The pages loaded
\* since are dropped, and asked for again.
Rollback(m) ==
  /\ hides' = hides \ {m}
  /\ pages' = m.snap
  /\ gone' = {p \in gone \ Shown(m.snap) : p \geq Reach(m.snap)}
  /\ UNCHANGED <<apiVars, fetch>>

--------------------------------------------------------------------------------

\* usePostRead: posts that were looked at for long enough, or opened, are sent
\* in a batch a little later.  What has been sent is remembered until the screen
\* is left, so a batch may repeat an earlier one.
SendRead(batch) ==
  /\ batch # {} /\ batch \subseteq Shown(pages) \cup gone
  /\ \E s \in Slots : Send(s, Mark(batch))
  /\ UNCHANGED clientVars

\* The app is closed and opened again; what it had asked for runs on.
Reopen ==
  /\ pages' = <<>> /\ fetch' = NoFetch /\ hides' = {} /\ gone' = {}
  /\ slot' = Unheard
  /\ UNCHANGED <<stored, hidden, read, cache>>
================================================================================
