------------------------------ MODULE MCFleet ------------------------------
(* Fleet instantiated for TLC: sizes are in the configurations. *)
EXTENDS Fleet
CONSTANTS a1, a2, v1, v2
=============================================================================
