------------------------------- MODULE LiveRouting -------------------------------
(***************************************************************************)
(* The chat_map of live.py: the in-memory set of channels whose events the *)
(* live handlers ingest.  It is loaded from the active subscriptions when  *)
(* the ingester boots; from then on only the join worker adds to it and    *)
(* only the sweep removes from it.                                         *)
(***************************************************************************)
EXTENDS SubscriptionStore

VARIABLES
  up,        \* the ingester process is running
  chatMap

liveVars == <<up, chatMap>>

LiveTypeOK == up \in BOOLEAN /\ chatMap \subseteq Channels
LiveInit == up = TRUE /\ chatMap = {}

Active == {c \in Channels : subStatus[c] = "active"}

\* _load_active_chat_map, from subscribe_to_active_channels at boot.
LoadChatMap == chatMap' = Active /\ up' = TRUE

Register(c) == chatMap' = chatMap \cup {c} /\ UNCHANGED up
Unregister(cs) == chatMap' = chatMap \ cs /\ UNCHANGED up
================================================================================
