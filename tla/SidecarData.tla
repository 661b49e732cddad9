---------------------------- MODULE SidecarData ----------------------------
(***************************************************************************)
(* The sidecar and the entities that show what it measures.  The server    *)
(* and its client move requests, whatever their content; SmartData and     *)
(* HardwareReadings take the outcome of a request, data or none, for       *)
(* granted.  So a behaviour follows one of the three and holds the others  *)
(* still: the server with every request answered, the node without a disk, *)
(* the board without a reading.                                            *)
(***************************************************************************)
EXTENDS Sidecar, SmartData, HardwareReadings

VARIABLE follows

sidecarDataVars == <<follows, vars, smartVars, hardwareVars>>

AllAnswered ==
    /\ up = TRUE /\ well = TRUE
    /\ backlog = << >> /\ serving = Idle /\ work = 0
    /\ patience = [e \in Endpoints |-> 0] /\ asking = {} /\ next = 0
    /\ latest = [e \in Endpoints |-> "data"]
    /\ warned = {}
    /\ logged = [e \in Endpoints |-> 0]

NoDisk == rack = << >> /\ disk = << >> /\ wears = 0 /\ shown = << >>

NoBoard == board = << >> /\ hardware = << >> /\ smartTemp = << >> /\ entities = {}

SidecarDataInit ==
    /\ follows \in {"server", "disks", "readings"}
    /\ IF follows = "server" THEN Init ELSE AllAnswered
    /\ IF follows = "disks" THEN SmartInit ELSE NoDisk
    /\ IF follows = "readings" THEN HardwareInit ELSE NoBoard

Serves(A) == follows = "server" /\ A

SidecarDataNext ==
    /\ UNCHANGED follows
    /\ \/ Serves(Next) /\ UNCHANGED <<smartVars, hardwareVars>>
       \/ follows = "disks" /\ SmartNext /\ UNCHANGED <<vars, hardwareVars>>
       \/ follows = "readings" /\ HardwareNext /\ UNCHANGED <<vars, smartVars>>

(* The fairness of Sidecar, where it is the one that is followed.          *)
SidecarDataSpec ==
    /\ SidecarDataInit /\ [][SidecarDataNext]_sidecarDataVars
    /\ WF_vars(Serves(Poll)) /\ WF_vars(Serves(Accept)) /\ WF_vars(Serves(Respond))
    /\ \A e \in Endpoints : WF_vars(Serves(TimeOut(e)))
    /\ WF_vars(Serves(Start)) /\ WF_vars(Serves(Recover)) /\ WF_vars(Serves(Tick))
=============================================================================
