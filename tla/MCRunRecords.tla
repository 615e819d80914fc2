---------------------------- MODULE MCRunRecords ----------------------------
(* RunRecords for TLC.                                                     *)
EXTENDS RunRecords, TLC

Symmetry == Permutations(Commands)

=============================================================================
