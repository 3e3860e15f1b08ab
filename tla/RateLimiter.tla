------------------------------- MODULE RateLimiter -------------------------------
(***************************************************************************)
(* The sliding-window rate limiter of POST /auth/telegram and POST         *)
(* /sources.  Windows of different keys (an IP or a user, per scope) share *)
(* nothing: this is the window of one key.  A request samples its time,    *)
(* then awaits Redis, where the script runs atomically; so requests can    *)
(* reach Redis in another order than that of their times.                  *)
(***************************************************************************)
EXTENDS Naturals, Sequences, FiniteSets

CONSTANTS
  Requests,  \* requests with this key that can be under way at once
  Limit,     \* settings: requests per window
  Window,    \* settings: length of the window
  Grace,     \* how much longer than the window the key lives in Redis
  Latency,   \* the longest a request waits between its sample and the script
  Horizon    \* bound on the clock

ASSUME LimiterAssumption ==
  /\ Limit \in Nat \ {0} /\ Window \in Nat \ {0}
  /\ Grace \in Nat /\ Latency \in Nat /\ Horizon \in Nat

VARIABLES
  now,      \* the clock of the host: time.time() and Redis
  call,     \* [waiting, at]: is the request under way, and its sampled time
  log,      \* the sampled times of the admitted requests, in order of admission
  window,   \* the sorted set: members are places in log, scores the times there
  expires   \* when Redis drops the key

vars == <<now, call, log, window, expires>>

TypeOK ==
  /\ now \in Nat
  /\ call \in [Requests -> [waiting : BOOLEAN, at : Nat]]
  /\ log \in Seq(Nat)
  /\ window \subseteq 1..Len(log)
  /\ Cardinality(window) \leq Limit
  /\ expires \in Nat

Init ==
  /\ now = 0
  /\ call = [r \in Requests |-> [waiting |-> FALSE, at |-> 0]]
  /\ log = <<>> /\ window = {} /\ expires = 0

--------------------------------------------------------------------------------

\* now_ms = int(time.time() * 1000)
Sample(r) ==
  /\ ~call[r].waiting
  /\ call' = [call EXCEPT ![r] = [waiting |-> TRUE, at |-> now]]
  /\ UNCHANGED <<now, log, window, expires>>

\* Mutated form: nothing is removed.
KeptWithoutRemoval(r) == window

\* ZREMRANGEBYSCORE key 0 cutoff_ms
Kept(r) == {i \in window : log[i] + Window > call[r].at}

Answered(r) == call' = [call EXCEPT ![r].waiting = FALSE]

\* Mutated form: the request that fills the window gets in and so does the next.
AdmitOneMore(r) ==
  /\ call[r].waiting
  /\ Cardinality(Kept(r)) \leq Limit
  /\ log' = Append(log, call[r].at)
  /\ window' = Kept(r) \cup {Len(log')}
  /\ expires' = now + Window + Grace
  /\ Answered(r)
  /\ UNCHANGED now

\* ZADD key now_ms member, EXPIRE key window_s + 1
Admit(r) ==
  /\ call[r].waiting
  /\ Cardinality(Kept(r)) < Limit
  /\ log' = Append(log, call[r].at)
  /\ window' = Kept(r) \cup {Len(log')}
  /\ expires' = now + Window + Grace
  /\ Answered(r)
  /\ UNCHANGED now

\* 429 rate_limited: the request leaves no member behind.
Refuse(r) ==
  /\ call[r].waiting
  /\ Cardinality(Kept(r)) \geq Limit
  /\ window' = Kept(r)
  /\ Answered(r)
  /\ UNCHANGED <<now, log, expires>>

\* The call to Redis raises before the script runs: 500, and no member.
Drop(r) ==
  /\ call[r].waiting
  /\ Answered(r)
  /\ UNCHANGED <<now, log, window, expires>>

\* Mutated form: the key lives as long as a request may wait, not the window.
TickExpiringEarly ==
  /\ now < Horizon
  /\ \A r \in Requests : call[r].waiting => now < call[r].at + Latency
  /\ now' = now + 1
  /\ window' = IF now + Window \geq expires THEN {} ELSE window
  /\ UNCHANGED <<call, log, expires>>

\* Time passes, but never more than Latency while a request waits.
Tick ==
  /\ now < Horizon
  /\ \A r \in Requests : call[r].waiting => now < call[r].at + Latency
  /\ now' = now + 1
  /\ window' = IF now' \geq expires THEN {} ELSE window
  /\ UNCHANGED <<call, log, expires>>

Next ==
  \/ \E r \in Requests : Sample(r) \/ Admit(r) \/ Refuse(r) \/ Drop(r)
  \/ Tick

Spec == Init /\ [][Next]_vars

--------------------------------------------------------------------------------

(* POST /auth/telegram at most N per window: whatever order the requests    *)
(* reach Redis in and whenever the key expires there, among the Limit       *)
(* admissions before any other there is one whose time is at least a window *)
(* older, but for the latency that let them overtake one another.           *)
NoBurst ==
  \A i \in 1..Len(log) : i > Limit =>
    \E j \in (i - Limit)..(i - 1) : log[j] + Window \leq log[i] + Latency

(* Who is refused had Limit requests admitted within the window: requests   *)
(* that were refused, failed or are older do not count against anybody.     *)
RefusedJustly ==
  [][\A r \in Requests : Refuse(r) =>
       Cardinality({i \in 1..Len(log) : log[i] + Window > call[r].at}) \geq Limit]_vars
================================================================================
