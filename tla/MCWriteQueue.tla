---------------------------- MODULE MCWriteQueue ----------------------------
(* Instances of the write path for TLC. *)
EXTENDS WriteQueue, TLC

\* Nothing tells two documents, two callers or two tabs apart.
Symmetry == Permutations(Docs) \cup Permutations(Callers) \cup Permutations(Tabs)

=============================================================================
