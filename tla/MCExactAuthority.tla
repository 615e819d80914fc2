--------------------------- MODULE MCExactAuthority ---------------------------
(* ExactAuthority on a small instance. *)
EXTENDS ExactAuthority, TLC

Symmetry ==
    Permutations(Recipients) \cup Permutations(Invites)
      \cup Permutations(Handlers) \cup Permutations(Revokers)

=============================================================================
