------------------------------ MODULE RefcountSweep ------------------------------
(***************************************************************************)
(* run_refcount_sweep: selects the active channels nobody follows, closes  *)
(* that session, then parks them one by one, each in a session of its own, *)
(* dropping each from chat_map once its commit has returned.               *)
(***************************************************************************)
EXTENDS SubscriptionStore, LiveRouting

VARIABLE sweep   \* targets: selected, not parked yet; parked: to be dropped

NoSweep == [targets |-> {}, parked |-> {}]

SweepTypeOK ==
  /\ sweep \in [targets : SUBSET Channels, parked : SUBSET Channels]
  /\ Cardinality(sweep.parked) <= 1

SweepInit == sweep = NoSweep

\* Mutated form: the wrong status is selected.
SelectUnfilled ==
  LET unfollowed == {c \in Channels : subStatus[c] = "pending_backfill" /\ refCount[c] = 0} IN
  /\ sweep = NoSweep
  /\ unfollowed # {}
  /\ sweep' = [targets |-> unfollowed, parked |-> {}]
  /\ UNCHANGED <<storeVars, liveVars>>

SelectTargets ==
  LET unfollowed == {c \in Active : refCount[c] = 0} IN
  /\ sweep = NoSweep
  /\ unfollowed # {}
  /\ sweep' = [targets |-> unfollowed, parked |-> {}]
  /\ UNCHANGED <<storeVars, liveVars>>

\* The update does not look at ref_count again.
Park(c) ==
  /\ sweep.parked = {}
  /\ c \in sweep.targets
  /\ MarkDormant(c)
  /\ sweep' = [targets |-> sweep.targets \ {c}, parked |-> {c}]
  /\ UNCHANGED liveVars

\* Mutated form: chat_map keeps the parked channel.
KeepInLive ==
  /\ sweep.parked # {}
  /\ sweep' = [sweep EXCEPT !.parked = {}]
  /\ UNCHANGED <<storeVars, liveVars>>

\* chat_map.pop(marked id, None)
DropFromLive ==
  /\ sweep.parked # {}
  /\ Unregister(sweep.parked)
  /\ sweep' = [sweep EXCEPT !.parked = {}]
  /\ UNCHANGED storeVars

SweepStep ==
  \/ SelectTargets
  \/ \E c \in sweep.targets : Park(c)
  \/ DropFromLive
================================================================================
