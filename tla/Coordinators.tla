---------------------------- MODULE Coordinators ----------------------------
(***************************************************************************)
(* The coordinator of a config entry, whatever its kind: PVE and PBS       *)
(* entries get theirs from create_proxmox_coordinator, which branches on   *)
(* server_type, CLUSTER entries from create_cluster_coordinator.            *)
(***************************************************************************)
EXTENDS PollCycle, PbsRefresh, ClusterRefresh

VARIABLE server_type   \* of the entry: "PVE", "PBS" or "CLUSTER"

coordinatorVars == <<server_type, vars, pbsVars, clusterVars>>

(* The coordinators the entry does not have never begin.                   *)
CoordinatorInit ==
    /\ server_type \in {"PVE", "PBS", "CLUSTER"}
    /\ Init /\ PbsInit /\ ClusterInit
    /\ server_type # "PVE" => enabled = {}
    /\ server_type # "PBS" => selected = NONE /\ ~withTasks

CoordinatorNext ==
    /\ UNCHANGED server_type
    /\ \/ server_type = "PVE" /\ Next /\ UNCHANGED <<pbsVars, clusterVars>>
       \/ server_type = "PBS" /\ PbsNext /\ UNCHANGED <<vars, clusterVars>>
       \/ server_type = "CLUSTER" /\ ClusterNext /\ UNCHANGED <<vars, pbsVars>>

CoordinatorSpec == CoordinatorInit /\ [][CoordinatorNext]_coordinatorVars
=============================================================================
