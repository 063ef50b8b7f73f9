------------------------- MODULE MCWorkerOwnership -------------------------
(* Instances of the ownership protocol for TLC. *)
EXTENDS WorkerOwnership, TLC

\* Nothing tells two workers apart.
Symmetry == Permutations(Workers)

=============================================================================
