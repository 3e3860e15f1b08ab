------------------------------- MODULE ChannelFeed -------------------------------
(***************************************************************************)
(* One Telegram channel as the ingester sees it (external): messages       *)
(* numbered in the order they were posted, some of them grouped in albums, *)
(* and iter_messages over them.  Message ids are dense here: an id stands  *)
(* for the i-th message that still exists.                                 *)
(***************************************************************************)
EXTENDS Integers, FiniteSets

CONSTANTS
  LastMessage,   \* bound on the messages ever posted
  Start,         \* messages the channel has when the account joins it
  Albums         \* media groups: sets of consecutive messages posted at once

Messages == 1..LastMessage

ASSUME FeedAssumption ==
  /\ LastMessage \in Nat /\ Start \in 0..LastMessage
  /\ Albums \subseteq SUBSET Messages
  /\ {} \notin Albums
  /\ \A A, B \in Albums : A # B => A \cap B = {}
  /\ \A A \in Albums : \A k, m \in A : (k \leq Start <=> m \leq Start) /\ k..m \subseteq A

VARIABLE posted   \* how many messages the channel has

Posted == 1..posted

FeedTypeOK == posted \in 0..LastMessage
FeedInit == posted = Start

\* grouped_id of a message; {} for a message that is not part of an album.
GroupOf(m) == UNION {A \in Albums : m \in A}

\* What one update or one insert handles: a message, or messages of an album.
Items(S) == ({A \cap S : A \in Albums} \ {{}}) \cup {{m} : m \in {k \in S : GroupOf(k) = {}}}

\* iter_messages yields newest first: a limit keeps the n newest of S.
Newest(S, n) == {m \in S : Cardinality({k \in S : k > m}) < n}

\* The channel's owner posts a message, or an album at once.
Publish(item) ==
  /\ item \in Items(Messages)
  /\ posted + 1 \in item
  /\ posted' \in item /\ \A m \in item : m \leq posted'
================================================================================
