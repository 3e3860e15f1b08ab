------------------------------- MODULE SourcesApi -------------------------------
(***************************************************************************)
(* The /sources endpoints of the API and the endpoints that hide or ban a  *)
(* channel.  Requests run concurrently; each runs in one database session  *)
(* at READ COMMITTED, so what an add-source request read may be stale when *)
(* it writes.  An add-source request is therefore split at its awaits:     *)
(* read the channel and its subscription, look for an in-flight request,   *)
(* insert and commit.  The other endpoints are single statements plus a    *)
(* commit and take one step.                                               *)
(*                                                                         *)
(* A source input is abstracted to the channel it names: a public username *)
(* for channels outside Private, an invite link for those in Private.      *)
(***************************************************************************)
EXTENDS SubscriptionStore, JoinQueue

CONSTANTS
  Handlers,    \* requests the API runs at once
  Leavers,     \* users who may unsubscribe
  Hiders,      \* users who may hide channels
  Moderated    \* channels an admin may ban

ASSUME ApiConstants ==
  /\ Moderated \subseteq Channels
  /\ Leavers \subseteq Users /\ Hiders \subseteq Users

VARIABLE request   \* what each add-source request is about to do

NoRequest == [pc |-> "idle"]

ApiTypeOK ==
  request \in [Handlers -> {NoRequest} \cup
                 [pc : {"link", "find", "insert"}, user : Users, chan : Channels]]

ApiInit == request = [h \in Handlers |-> NoRequest]

\* _DIRECT_SUBSCRIBE_STATUSES
Direct(c) == subStatus[c] \in {"active", "pending_backfill"}

Proceed(h, pc, u, c) ==
  request' = [request EXCEPT ![h] = [pc |-> pc, user |-> u, chan |-> c]]
Answer(h) == request' = [request EXCEPT ![h] = NoRequest]

\* Bound: the rows queued and the requests that may queue one.
Room == Len(queue) + Cardinality({h \in Handlers : request[h].pc \in {"find", "insert"}})
          < MaxRequests

\* What a source input leads to: an invite link always queues a row.
Route(c) == CASE c \in Private -> "insert"
              [] c \notin Private /\ Direct(c) -> "link"
              [] OTHER -> "find"

\* Mutated form: the ban is not looked at.
PostSourceIgnoringBan(h, u, c) ==
  /\ request[h].pc = "idle"
  /\ Route(c) = "link" \/ Room
  /\ Proceed(h, Route(c), u, c)
  /\ UNCHANGED <<storeVars, queueVars>>

\* POST /sources.  A banned channel is refused only on the username path.
PostSource(h, u, c) ==
  /\ request[h].pc = "idle"
  /\ c \in banned => c \in Private
  /\ Route(c) = "link" \/ Room
  /\ Proceed(h, Route(c), u, c)
  /\ UNCHANGED <<storeVars, queueVars>>

\* POST /sources/{channel_id}: refused for an unknown or a banned channel.
PostSourceById(h, u, c) ==
  /\ request[h].pc = "idle"
  /\ Known(c)
  /\ c \notin banned
  /\ Direct(c) \/ Room
  /\ Proceed(h, IF Direct(c) THEN "link" ELSE Route(c), u, c)
  /\ UNCHANGED <<storeVars, queueVars>>

\* The direct link, on the strength of the status read earlier.
LinkDirectly(h) ==
  /\ request[h].pc = "link"
  /\ AddUserSource(request[h].user, request[h].chan)
  /\ Answer(h)
  /\ UNCHANGED queueVars

\* _enqueue_public_join, first half: an in-flight request is reused.
FindInFlight(h) ==
  LET r == request[h] IN
  /\ r.pc = "find"
  /\ IF InFlight(r.user, r.chan)
       THEN Answer(h)
       ELSE Proceed(h, "insert", r.user, r.chan)
  /\ UNCHANGED <<storeVars, queueVars>>

\* Second half, and all of _add_private_source: insert a row and commit.
InsertJoinRequest(h) ==
  /\ request[h].pc = "insert"
  /\ Enqueue(request[h].user, request[h].chan)
  /\ Answer(h)
  /\ UNCHANGED storeVars

\* DELETE /sources/{channel_id}
RemoveSource(u, c) ==
  /\ RemoveUserSource(u, c)
  /\ UNCHANGED <<queueVars, request>>

\* POST and DELETE /sources/{channel_id}/hide
HideSource(u, c) == Known(c) /\ MarkHidden(u, c) /\ UNCHANGED <<queueVars, request>>
UnhideSource(u, c) == ClearHidden(u, c) /\ UNCHANGED <<queueVars, request>>

\* POST and DELETE /channels/catalog/{channel_id}/hide
HideFromCatalog(u, c) == Known(c) /\ MarkCatalogHidden(u, c) /\ UNCHANGED <<queueVars, request>>
UnhideFromCatalog(u, c) == ClearCatalogHidden(u, c) /\ UNCHANGED <<queueVars, request>>

\* POST /admin/channels/{channel_id}/ban and /unban
BanChannel(c) == Known(c) /\ Ban(c) /\ UNCHANGED <<queueVars, request>>
UnbanChannel(c) == Known(c) /\ Unban(c) /\ UNCHANGED <<queueVars, request>>

ApiNext ==
  \/ \E h \in Handlers, u \in Users, c \in Channels :
       PostSource(h, u, c) \/ PostSourceById(h, u, c)
  \/ \E h \in Handlers : LinkDirectly(h) \/ FindInFlight(h) \/ InsertJoinRequest(h)
  \/ \E u \in Leavers, c \in Channels : RemoveSource(u, c)
  \/ \E u \in Hiders, c \in Channels :
       \/ HideSource(u, c) \/ UnhideSource(u, c)
       \/ HideFromCatalog(u, c) \/ UnhideFromCatalog(u, c)
  \/ \E c \in Moderated : BanChannel(c) \/ UnbanChannel(c)
================================================================================
