------------------------------ MODULE LastGood ------------------------------
(***************************************************************************)
(* What a coordinator promises its entities: a refresh either replaces the *)
(* snapshot as a whole or leaves the last one in place, and once there was *)
(* a snapshot no failing refresh makes the entities unavailable again.     *)
(***************************************************************************)
CONSTANTS Snapshots, NONE

VARIABLES
    data,       \* coordinator.data
    available   \* coordinator.last_update_success

Init == data = NONE /\ available = FALSE

Publish == data' \in Snapshots /\ available' = TRUE

KeepLast == data # NONE /\ available' = TRUE /\ UNCHANGED data

FailFirst == data = NONE /\ available' = FALSE /\ UNCHANGED data

Next == Publish \/ KeepLast \/ FailFirst

Spec == Init /\ [][Next]_<<data, available>>
=============================================================================
