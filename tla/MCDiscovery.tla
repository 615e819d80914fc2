----------------------------- MODULE MCDiscovery -----------------------------
(* Instances of Discovery for TLC.  Fetches are interchangeable; Pipes are  *)
(* not, because some are published by this home.                            *)
EXTENDS Discovery, TLC

Symmetry == Permutations(Fetchers)

=============================================================================
