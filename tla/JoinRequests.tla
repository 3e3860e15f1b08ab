------------------------------- MODULE JoinRequests -------------------------------
(***************************************************************************)
(* What the source life cycle promises its users, without the ingester:    *)
(* a request to follow a channel is opened, and then settled exactly once. *)
(* Granting it makes its user a follower in the same instant; a channel    *)
(* some request was granted for may also be followed at once, without a    *)
(* request.                                                                *)
(***************************************************************************)
EXTENDS Naturals, Sequences, Deployment

CONSTANT MaxRequests

VARIABLES
  requests,   \* every request ever made
  follows,    \* who follows what
  tracked     \* channels some request was granted for

vars == <<requests, follows, tracked>>

Init == requests = <<>> /\ follows = {} /\ tracked = {}

Submit(u, c) ==
  /\ Len(requests) < MaxRequests
  /\ requests' = Append(requests, [user |-> u, chan |-> c, state |-> "open"])
  /\ UNCHANGED <<follows, tracked>>

Open(i) == i \in DOMAIN requests /\ requests[i].state = "open"

Grant(i) ==
  /\ Open(i)
  /\ requests' = [requests EXCEPT ![i].state = "granted"]
  /\ follows' = follows \cup {<<requests[i].user, requests[i].chan>>}
  /\ tracked' = tracked \cup {requests[i].chan}

Refuse(i) ==
  /\ Open(i)
  /\ requests' = [requests EXCEPT ![i].state = "refused"]
  /\ UNCHANGED <<follows, tracked>>

Follow(u, c) ==
  /\ c \in tracked
  /\ follows' = follows \cup {<<u, c>>}
  /\ UNCHANGED <<requests, tracked>>

Unfollow(u, c) ==
  /\ follows' = follows \ {<<u, c>>}
  /\ UNCHANGED <<requests, tracked>>

Settle(i) == Grant(i) \/ Refuse(i)

Next ==
  \/ \E u \in Users, c \in Channels : Submit(u, c) \/ Follow(u, c) \/ Unfollow(u, c)
  \/ \E i \in DOMAIN requests : Settle(i)

Spec == Init /\ [][Next]_vars

\* Every open request is settled eventually.
FairSpec == Spec /\ \A i \in 1..MaxRequests : WF_vars(Settle(i))
================================================================================
