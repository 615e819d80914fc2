---------------------------- MODULE MCExactAccess ----------------------------
(* ExactAccess on a small instance. *)
EXTENDS ExactAccess, TLC

Symmetry ==
    Permutations(Recipients) \cup Permutations(Invites)
      \cup Permutations(Handlers) \cup Permutations(Revokers)

=============================================================================
