--------------------------- MODULE SubscriptionStore ---------------------------
(***************************************************************************)
(* The tables user_sources, channel_subscriptions, user_hidden_channels,   *)
(* user_catalog_hidden_channels and the banned flag of channels, with the  *)
(* repository functions that write them.  Every operator below is the      *)
(* whole effect of one repository function, run inside a transaction of    *)
(* its caller.                                                             *)
(*                                                                         *)
(* A channels row and its subscription row are only ever created together, *)
(* in the transaction of _post_join, so subStatus[c] = "none" stands for   *)
(* both being absent.                                                      *)
(***************************************************************************)
EXTENDS Naturals, FiniteSets, Deployment

VARIABLES
  sources,        \* user_sources: the set of <<user, channel>> links
  refCount,       \* channel_subscriptions.ref_count
  subStatus,      \* channel_subscriptions.status, "none" when there is no row
  hiddenSources,  \* user_hidden_channels
  hiddenCatalog,  \* user_catalog_hidden_channels
  banned          \* the channels whose banned flag is set

storeVars == <<sources, refCount, subStatus, hiddenSources, hiddenCatalog, banned>>

SubStatus == {"none", "pending_backfill", "active", "dormant"}

StoreTypeOK ==
  /\ sources \subseteq Users \X Channels
  /\ refCount \in [Channels -> Nat]
  /\ subStatus \in [Channels -> SubStatus]
  /\ hiddenSources \subseteq Users \X Channels
  /\ hiddenCatalog \subseteq Users \X Channels
  /\ banned \subseteq Channels

StoreInit ==
  /\ sources = {}
  /\ refCount = [c \in Channels |-> 0]
  /\ subStatus = [c \in Channels |-> "none"]
  /\ hiddenSources = {}
  /\ hiddenCatalog = {}
  /\ banned = {}

\* The channel has a row: some join of it was completed.
Known(c) == subStatus[c] # "none"

Followers(c) == {u \in Users : <<u, c>> \in sources}

--------------------------------------------------------------------------------
(* channel_subscriptions *)

\* Mutated form: the upsert also re-activates the row it finds.
IncrementAndReset(c) ==
  /\ refCount' = [refCount EXCEPT ![c] = IF Known(c) THEN @ + 1 ELSE 1]
  /\ subStatus' = [subStatus EXCEPT ![c] = "pending_backfill"]

\* INSERT ... ON CONFLICT DO UPDATE: a first follower creates the row.
IncrementRefCount(c) ==
  /\ refCount' = [refCount EXCEPT ![c] = IF Known(c) THEN @ + 1 ELSE 1]
  /\ subStatus' = [subStatus EXCEPT ![c] = IF Known(c) THEN @ ELSE "pending_backfill"]

\* UPDATE ... GREATEST(ref_count - 1, 0).
DecrementRefCount(c) ==
  refCount' = [refCount EXCEPT ![c] = IF @ > 0 THEN @ - 1 ELSE 0]

\* The last statement of _backfill_channel: an UPDATE of whatever row there is.
MarkBackfilled(c) ==
  /\ subStatus' = [subStatus EXCEPT ![c] = IF Known(c) THEN "active" ELSE @]
  /\ UNCHANGED <<sources, refCount, hiddenSources, hiddenCatalog, banned>>

\* The sweep's UPDATE: of whatever row there is as well.
MarkDormant(c) ==
  /\ subStatus' = [subStatus EXCEPT ![c] = IF Known(c) THEN "dormant" ELSE @]
  /\ UNCHANGED <<sources, refCount, hiddenSources, hiddenCatalog, banned>>

--------------------------------------------------------------------------------
(* user_sources *)

\* Mutated form: the reference is counted whether or not the link is new.
AddUserSourceCountingTwice(u, c) ==
  /\ sources' = sources \cup {<<u, c>>}
  /\ IncrementRefCount(c)
  /\ hiddenSources' = hiddenSources \ {<<u, c>>}
  /\ hiddenCatalog' = hiddenCatalog \ {<<u, c>>}
  /\ UNCHANGED banned

\* Mutated form: only a new link clears the hidden marks.
AddUserSourceKeepingHidden(u, c) ==
  /\ sources' = sources \cup {<<u, c>>}
  /\ IF <<u, c>> \in sources
       THEN UNCHANGED <<refCount, subStatus, hiddenSources, hiddenCatalog>>
       ELSE /\ IncrementRefCount(c)
            /\ hiddenSources' = hiddenSources \ {<<u, c>>}
            /\ hiddenCatalog' = hiddenCatalog \ {<<u, c>>}
  /\ UNCHANGED banned

\* The link is inserted unless it exists; only a new link counts; either way
\* the channel stops being hidden for this user, in the feed and the catalog.
AddUserSource(u, c) ==
  /\ sources' = sources \cup {<<u, c>>}
  /\ IF <<u, c>> \in sources
       THEN UNCHANGED <<refCount, subStatus>>
       ELSE IncrementRefCount(c)
  /\ hiddenSources' = hiddenSources \ {<<u, c>>}
  /\ hiddenCatalog' = hiddenCatalog \ {<<u, c>>}
  /\ UNCHANGED banned

\* Mutated form: the count drops even if no link was deleted.
RemoveUserSourceAlwaysCounting(u, c) ==
  /\ sources' = sources \ {<<u, c>>}
  /\ DecrementRefCount(c)
  /\ hiddenSources' = hiddenSources \ {<<u, c>>}
  /\ UNCHANGED <<subStatus, hiddenCatalog, banned>>

RemoveUserSource(u, c) ==
  /\ sources' = sources \ {<<u, c>>}
  /\ IF <<u, c>> \in sources
       THEN DecrementRefCount(c)
       ELSE UNCHANGED refCount
  /\ hiddenSources' = hiddenSources \ {<<u, c>>}
  /\ UNCHANGED <<subStatus, hiddenCatalog, banned>>

--------------------------------------------------------------------------------
(* The marks a user or an admin sets and clears. *)

MarkHidden(u, c) ==
  /\ hiddenSources' = hiddenSources \cup {<<u, c>>}
  /\ UNCHANGED <<sources, refCount, subStatus, hiddenCatalog, banned>>

ClearHidden(u, c) ==
  /\ hiddenSources' = hiddenSources \ {<<u, c>>}
  /\ UNCHANGED <<sources, refCount, subStatus, hiddenCatalog, banned>>

MarkCatalogHidden(u, c) ==
  /\ hiddenCatalog' = hiddenCatalog \cup {<<u, c>>}
  /\ UNCHANGED <<sources, refCount, subStatus, hiddenSources, banned>>

ClearCatalogHidden(u, c) ==
  /\ hiddenCatalog' = hiddenCatalog \ {<<u, c>>}
  /\ UNCHANGED <<sources, refCount, subStatus, hiddenSources, banned>>

Ban(c) ==
  /\ banned' = banned \cup {c}
  /\ UNCHANGED <<sources, refCount, subStatus, hiddenSources, hiddenCatalog>>

Unban(c) ==
  /\ banned' = banned \ {c}
  /\ UNCHANGED <<sources, refCount, subStatus, hiddenSources, hiddenCatalog>>

--------------------------------------------------------------------------------
(* The store on its own: any repository function at any time. *)

StoreNext ==
  \/ \E u \in Users, c \in Channels :
       \/ AddUserSource(u, c) \/ RemoveUserSource(u, c)
       \/ MarkHidden(u, c) \/ ClearHidden(u, c)
       \/ MarkCatalogHidden(u, c) \/ ClearCatalogHidden(u, c)
  \/ \E c \in Channels : MarkBackfilled(c) \/ MarkDormant(c) \/ Ban(c) \/ Unban(c)

StoreSpec == StoreInit /\ [][StoreNext]_storeVars

(* The counter agrees with the links it counts.  It is kept by arithmetic in *)
(* the same transactions that insert and delete links, never recomputed, and *)
(* its clamp at zero would hide a double decrement.                          *)
RefCountExact == \A c \in Channels : refCount[c] = Cardinality(Followers(c))
================================================================================
