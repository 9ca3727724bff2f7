------------------------------ MODULE MCEnqueue ------------------------------
(* Enqueue instantiated for TLC: sizes are in the configurations. *)
EXTENDS Enqueue, TLC
CONSTANTS s1, s2
Symmetry == Permutations(Sender)
=============================================================================
