------------------------------- MODULE Deployment -------------------------------
(***************************************************************************)
(* The parties every component refers to.                                  *)
(***************************************************************************)
EXTENDS FiniteSets

CONSTANTS
  Users,
  Channels,
  Private,   \* channels reached by invite link only; the others by username
  Gated,     \* private channels whose owner must approve a join
  Faults     \* what may go wrong: "crash", "error", "flood", "backfill"

ASSUME DeploymentAssumption ==
  /\ IsFiniteSet(Users)
  /\ Private \subseteq Channels
  /\ Gated \subseteq Private
================================================================================
