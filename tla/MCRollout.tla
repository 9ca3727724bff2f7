----------------------------- MODULE MCRollout -----------------------------
(* Rollout instantiated for TLC: sizes are in the configurations. *)
EXTENDS Rollout
CONSTANTS v1, v2, v3
=============================================================================
