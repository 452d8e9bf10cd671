------------------------------ MODULE MCPayment ------------------------------
(* Small instances of Payment. *)
EXTENDS Payment, TLC

Symmetry == Permutations(Procs) \cup Permutations(Orders) \cup Permutations(Reqs)
=============================================================================
