---------------------------- MODULE MCJobRegistry ----------------------------
(* JobRegistry on small instances: the constants are in the .cfg files;     *)
(* idempotency keys are interchangeable.                                    *)
EXTENDS JobRegistry

Symmetry == Permutations(Keys)

=============================================================================
