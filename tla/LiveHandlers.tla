------------------------------- MODULE LiveHandlers -------------------------------
(***************************************************************************)
(* on_new_message and on_new_album: every update becomes a task of its     *)
(* own.  An update that arrives while the handlers are not registered, or  *)
(* of a channel chat_map does not hold, is dropped.                        *)
(***************************************************************************)
EXTENDS PostStore

VARIABLES
  routed,   \* the handlers are registered and chat_map holds the channel
  events    \* [item, pc, seen]: handlers at work

liveVars == <<routed, events>>

EventState == [item : SUBSET Messages, pc : {"new", "write"}, seen : {NothingFound} \cup Found]

LiveTypeOK == routed \in BOOLEAN /\ events \subseteq EventState

\* Telegram sends the update of what is posted.
Dispatch(item) ==
  /\ Publish(item)
  /\ events' = IF routed
               THEN events \cup {[item |-> item, pc |-> "new", seen |-> NothingFound]}
               ELSE events
  /\ UNCHANGED <<postVars, routed>>

HandlerLooksUp(e) ==
  /\ e.pc = "new"
  /\ \E seen \in Readings(e.item) :
       events' = (events \ {e}) \cup {[item |-> e.item, pc |-> "write", seen |-> seen]}
  /\ UNCHANGED <<postVars, routed>>

\* Mutated form: what is not newer than every post is taken for a duplicate.
HandlerWritesNewest(e) ==
  /\ e.pc = "write"
  /\ IF \E p \in posts : \A m \in e.item : m \leq p.head
       THEN UNCHANGED postVars
       ELSE Upsert(e.item, e.seen)
  /\ events' = events \ {e}
  /\ UNCHANGED routed

HandlerWrites(e) ==
  /\ e.pc = "write"
  /\ Upsert(e.item, e.seen)
  /\ events' = events \ {e}
  /\ UNCHANGED routed

\* The client logs what a handler raises; nothing tries again.
HandlerFails(e) ==
  /\ "error" \in Faults \/ (e.pc = "write" /\ Refused(e.item, e.seen))
  /\ events' = events \ {e}
  /\ UNCHANGED <<postVars, routed>>

LiveStep ==
  \E e \in events : HandlerLooksUp(e) \/ HandlerWrites(e) \/ HandlerFails(e)
================================================================================
