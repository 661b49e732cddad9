-------------------------- MODULE CoordinatorData --------------------------
(***************************************************************************)
(* The coordinators and the sensors that compute their state from what two *)
(* of them publish: the backup history of a CLUSTER entry, the maintenance *)
(* of a PBS entry.  Those take a refresh in the steps that matter to them, *)
(* so a behaviour follows either the refresh itself or its sensors, and    *)
(* holds the other still.                                                  *)
(***************************************************************************)
EXTENDS Coordinators, BackupHistory, PbsMaintenance

VARIABLE follows   \* "refresh" or "sensors"

coordinatorDataVars == <<follows, coordinatorVars, historyVars, maintenanceVars>>

CoordinatorDataInit ==
    /\ CoordinatorInit /\ HistoryInit /\ MaintenanceInit
    /\ follows \in {"refresh"} \union
                   (IF server_type = "PVE" THEN {} ELSE {"sensors"})
    /\ follows = "sensors" => ~withTasks /\ selected = NONE

CoordinatorDataNext ==
    /\ UNCHANGED follows
    /\ \/ /\ follows = "refresh" /\ CoordinatorNext
          /\ UNCHANGED <<historyVars, maintenanceVars>>
       \/ /\ follows = "sensors" /\ UNCHANGED coordinatorVars
          /\ \/ server_type = "CLUSTER" /\ HistoryNext /\ UNCHANGED maintenanceVars
             \/ server_type = "PBS" /\ MaintenanceNext /\ UNCHANGED historyVars

CoordinatorDataSpec ==
    CoordinatorDataInit /\ [][CoordinatorDataNext]_coordinatorDataVars
=============================================================================
