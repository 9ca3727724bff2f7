--------------------------- MODULE MCScanPipeline ---------------------------
(***************************************************************************)
(* ScanPipeline instantiated for TLC.                                      *)
(***************************************************************************)
EXTENDS ScanPipeline, TLC

CONSTANTS t1, t2, bad, w1, w2

(* Every task has a name of its own. *)
DistinctNames == [t \in Task |-> t]
(* With a name of its own each, tasks are as alike as workers are. *)
Symmetry == Permutations(Worker) \union Permutations(Task)
=============================================================================
