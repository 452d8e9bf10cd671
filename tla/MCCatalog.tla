------------------------------ MODULE MCCatalog ------------------------------
(* A small instance of Catalog: one product, one check-in code. *)
EXTENDS Catalog, TLC

Symmetry == Permutations(Admins) \cup Permutations(Contents)
=============================================================================
