--------------------------- MODULE MCOrderLifecycle ---------------------------
(* Small instances of OrderLifecycle. *)
EXTENDS OrderLifecycle, TLC

Symmetry == Permutations(Reqs)
=============================================================================
