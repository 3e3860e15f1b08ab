----------------------------------- MODULE Feed -----------------------------------
(***************************************************************************)
(* The feed as its reader meets it: the mini app over the API, with the    *)
(* ingester storing posts and other devices of the user at work beside it. *)
(***************************************************************************)
EXTENDS FeedClient

CONSTANTS
  Arriving,   \* posts that are not there from the start
  Toggled,    \* what another device of the user hides and shows again
  Peeked,     \* cursors that device asks for with include_read
  MaxTaps     \* bound on what the user does, beside scrolling

ASSUME FeedAssumption ==
  /\ Arriving \subseteq Posts /\ Peeked \subseteq Posts
  /\ Toggled \subseteq SUBSET Posts
  /\ MaxTaps \in Nat

VARIABLES
  steady,   \* posts that have been unread and not hidden all along
  taps      \* how much the user has done

vars == <<apiVars, clientVars, steady, taps>>

TypeOK == ApiTypeOK /\ ClientTypeOK /\ steady \subseteq Unread /\ taps \in 0..MaxTaps

Init ==
  /\ ApiInit /\ ClientInit
  /\ stored = Posts \ Arriving
  /\ steady = stored /\ taps = 0

--------------------------------------------------------------------------------

User ==
  /\ \/ Refetch \/ Reopen
     \/ \E h \in Hideable : Hide(h)
     \/ \E batch \in SUBSET Noticed : SendRead(batch)

\* The user at another device.
Elsewhere ==
  /\ \/ \E h \in Toggled : HideOnServer(h) \/ Unhide(h)
     \/ \E s \in Slots, c \in Peeked : Send(s, Get(c, TRUE, FALSE))
  /\ UNCHANGED clientVars

App ==
  \/ FirstLoad \/ FetchNextPage \/ FetchFails
  \/ \E s \in Slots : FetchDone(s) \/ FetchGoesOn(s)
  \/ \E m \in hides : HideCommits(m) \/ HideSucceeds(m) \/ Rollback(m)

Server == (\E s \in Slots : ServerStep(s)) /\ UNCHANGED clientVars

Ingester == (\E p \in Arriving : Arrive(p)) /\ UNCHANGED clientVars

\* What has outlived its TTL is dropped.
Redis(c) == Expire(c) /\ UNCHANGED <<clientVars, steady, taps>>

\* A post that the user has tried to hide is not steady, whatever came of it.
Watch == steady' = (steady \cap Unread') \ UNION {m.what : m \in hides'}

Next ==
  \/ (User \/ Elsewhere) /\ taps < MaxTaps /\ taps' = taps + 1 /\ Watch
  \/ (App \/ Server \/ Ingester) /\ UNCHANGED taps /\ Watch
  \/ \E c \in Posts : Redis(c)

Spec == Init /\ [][Next]_vars

\* The TTL runs out for every slice.  Nobody else owes anything.
Fairness == \A c \in Posts : WF_vars(Redis(c))

FairSpec == Spec /\ Fairness

--------------------------------------------------------------------------------

(* Posts are shown newest first and never twice, though the pages come from *)
(* caches of other moments, from a snapshot put back, or from a fetch that  *)
(* began before they changed.                                               *)
FeedDescends ==
  \A i \in DOMAIN pages :
    /\ \A p \in pages[i].posts : pages[i].next \leq p
    /\ \A j \in DOMAIN pages : i < j => \A p \in pages[j].posts : p < pages[i].next

(* Scrolling skips nothing: a post that has been unread and not hidden all  *)
(* along is shown if it is above the point the feed has been loaded to,     *)
(* whatever other posts came, went or were read between the slices.         *)
ScrollIsComplete ==
  pages # <<>> => \A p \in steady : p \geq Reach(pages) => p \in Shown(pages)

(* A Refresh is never answered from the cache: the first page holds no post *)
(* that was read before it was asked for.                                   *)
RefreshIsCurrent ==
  \A s \in Slots :
    (slot[s].pc = "reply" /\ slot[s].cursor = Top) => slot[s].posts \cap slot[s].asked = {}

(* What the user takes off the feed stays away until a Refresh, or until a  *)
(* failed request puts back the pages of before it, or of before it was     *)
(* loaded: no page that was on its way brings it back.                      *)
HiddenStaysAway == gone \cap Shown(pages) = {}

(* A post that is read, or hidden for good, does not come back from the     *)
(* cache for ever: the slices that hold it go, whatever request was half    *)
(* way when it happened, and no new ones are made.                          *)
GoneFadesAway ==
  \A p \in Posts :
    <>[](p \notin Unread) => <>[](\A c \in DOMAIN cache : p \notin cache[c])
================================================================================
