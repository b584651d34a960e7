--------------------------- MODULE MCProvisionLock ---------------------------
(* Bounds for TLC: the values of the constants stand in the .cfg files.       *)
EXTENDS ProvisionLock, TLC

Symmetry == Permutations(Proc) \cup Permutations(Compat)

=============================================================================
