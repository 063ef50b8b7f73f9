-------------------------- MODULE MCSchemaVersions --------------------------
(* Three versions of an application and one from before versions.          *)
EXTENDS SchemaVersions, TLC

CONSTANTS old, b1, b2, b3

MCTarget == old :> 0 @@ b1 :> 1 @@ b2 :> 2 @@ b3 :> 3

\* The newest build retires the first shape.
MCRetired == [b \in Builds |-> IF b = b3 THEN {1} ELSE {}]

Symmetry == Permutations(Reads)

=============================================================================
