-------------------------- MODULE MCMaterialization --------------------------
(* Materialization for TLC: the folders are alike, and so are the loads.     *)
EXTENDS Materialization, TLC

Symmetry == Permutations(Folders) \cup Permutations(Loads)
=============================================================================
