------------------------------- MODULE MCRefund -------------------------------
(* Small instances of Refund. *)
EXTENDS Refund, TLC

Symmetry == Permutations(Procs) \cup Permutations(Reqs) \cup Permutations(Orders)
=============================================================================
