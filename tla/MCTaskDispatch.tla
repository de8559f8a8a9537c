--------------------------- MODULE MCTaskDispatch ---------------------------
(* Instances of TaskDispatch for TLC: the containers of an elastic task are  *)
(* interchangeable but for the one that hosts rank 0.                        *)
EXTENDS TaskDispatch, TLC

Symmetry == Permutations(Workers \ {Rank0})
=============================================================================
