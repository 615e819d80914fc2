------------------------------- MODULE StoreTime -------------------------------
(***************************************************************************)
(* Time as the store keeps it.  A moment is a number of ticks, Res of them *)
(* to the second.  Columns hold the RFC3339Nano text of a moment and SQL   *)
(* compares the texts.  The format drops the fraction of a whole second,   *)
(* and "Z" sorts behind "." and every digit: "05Z" is greater than         *)
(* "05.5Z".                                                                *)
(***************************************************************************)
EXTENDS Naturals

CONSTANT Res     \* ticks per second: 1, 2, 4, 5, 8 or 10

ASSUME ResAssumption == Res \in Nat \ {0}

(* The place of a moment's text in the order of the texts.                 *)
Text(t) == IF t % Res = 0 THEN t + Res ELSE t

=============================================================================
