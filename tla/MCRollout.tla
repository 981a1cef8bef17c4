----------------------------- MODULE MCRollout -----------------------------
(* One service on two nodes. *)
EXTENDS Rollout
=============================================================================
