--------------------------- MODULE MCFleetRepair ---------------------------
(* FleetRepair instantiated for TLC: sizes are in the configurations. *)
EXTENDS FleetRepair, TLC
CONSTANTS a1, a2, a3, v1, v2
Symmetry == Permutations(IP)
=============================================================================
