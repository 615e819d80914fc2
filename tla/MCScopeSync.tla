------------------------------ MODULE MCScopeSync ------------------------------
(* ScopeSync on a small instance. *)
EXTENDS ScopeSync, TLC

Symmetry == Permutations(Controllers)

=============================================================================
