----------------------------- MODULE MCWorkflows -----------------------------
(* Workflows and Traversal for TLC.                                        *)
EXTENDS Traversal, TLC

Symmetry == Permutations(Commands)

=============================================================================
