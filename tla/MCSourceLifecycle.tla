----------------------------- MODULE MCSourceLifecycle -----------------------------
(***************************************************************************)
(* Instances of SourceLifecycle for TLC.                                   *)
(***************************************************************************)
EXTENDS SourceLifecycle, TLC

\* Users differ only by name wherever every user may do the same.
UserSymmetry == Permutations(Users)
================================================================================
