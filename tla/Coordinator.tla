---------------------------- MODULE Coordinator ----------------------------
(* What the coordinators of PVE and PBS entries share: they are made by    *)
(* the same function, with one handler around both of its branches.        *)
CONSTANTS
    OUTER_TIMEOUT,   \* of a refresh
    NONE             \* no snapshot yet, no selection stored

(* Mutant: every failed refresh raises UpdateFailed.                       *)
AlwaysRaise(data, available) == data' = data /\ available' = FALSE

(* except Exception: the previous data stays if there is any, otherwise    *)
(* UpdateFailed makes the coordinator unavailable.                         *)
KeepPrevious(data, available) == data' = data /\ available' = (data # NONE)
=============================================================================
