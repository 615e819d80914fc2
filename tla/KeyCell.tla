-------------------------------- MODULE KeyCell --------------------------------
(***************************************************************************)
(* What internal/localkey promises of a key path, without files, locks and *)
(* system calls: a cell that is written once.  An empty cell takes a key   *)
(* that no caller has, and nothing replaces a key in the cell.  One whose  *)
(* creation was not reported may be taken back, although callers may have  *)
(* got it; one whose creation was reported stays.                          *)
(***************************************************************************)
CONSTANTS Keys, None

VARIABLES
    cell,     \* the key, or None
    given,    \* keys that callers have got
    made,     \* keys whose creation was reported
    kept      \* the directory of the path survives a power loss

vars == <<cell, given, made, kept>>

Init ==
    /\ cell = None /\ given = {} /\ made = {}
    /\ kept \in BOOLEAN

Create ==
    /\ cell = None
    /\ cell' \in Keys \ given
    /\ UNCHANGED <<given, made, kept>>

(* A caller gets the key.                                                  *)
Give ==
    /\ cell \in Keys
    /\ given' = given \cup {cell}
    /\ UNCHANGED <<cell, made, kept>>

(* Its creator gets it, and the promise that it stays.                     *)
Report ==
    /\ cell \in Keys
    /\ given' = given \cup {cell} /\ made' = {cell}
    /\ UNCHANGED <<cell, kept>>

(* The creator takes back a key it has not reported.                       *)
Withdraw ==
    /\ made = {}
    /\ cell' = None
    /\ UNCHANGED <<given, made, kept>>

(* The directory reaches the disk.                                         *)
Keep ==
    /\ kept' = TRUE
    /\ UNCHANGED <<cell, given, made>>

(* Power is lost: an unreported key may go, or give way to one that was    *)
(* taken back before.                                                       *)
Revert ==
    /\ made = {}
    /\ cell' \in Keys \cup {None} /\ cell' # cell
    /\ kept' = TRUE
    /\ UNCHANGED <<given, made>>

(* Power is lost, and the directory with it.                               *)
Lose ==
    /\ ~kept
    /\ cell' = None /\ made' = {}
    /\ UNCHANGED <<given, kept>>

Next == Create \/ Give \/ Report \/ Withdraw \/ Keep \/ Revert \/ Lose

Spec == Init /\ [][Next]_vars

=============================================================================
