--------------------------- MODULE ClusterRefresh ---------------------------
(***************************************************************************)
(* One refresh of the cluster coordinator (create_cluster_coordinator):    *)
(* six calls side by side under one timeout, each answer unpacked into its *)
(* section, the backup jobs matched with the tasks of the same refresh.    *)
(*                                                                         *)
(* A payload is named by the call it answers and "empty" if the call       *)
(* failed or brought something of another shape.  The tasks may hold an    *)
(* item that cannot be sorted or taken apart; jobs that are no dicts are   *)
(* skipped.                                                                *)
(***************************************************************************)
EXTENDS Naturals, Coordinator

CONSTANT CLUSTER_OUTER_TIMEOUT   \* asyncio.timeout(20)

ClusterCalls == {"resources", "status", "ha", "firewall", "jobs", "tasks"}

ASSUME ClusterAssumption == CLUSTER_OUTER_TIMEOUT \in Nat \ {0}

VARIABLES
    answer,            \* what each call brought: "none" before a refresh,
                       \* "running", "good", "empty" or "broken"
    clusterElapsed,    \* how long the refresh has been running
    clusterData,       \* coordinator.data
    clusterAvailable   \* coordinator.last_update_success

clusterVars == <<answer, clusterElapsed, clusterData, clusterAvailable>>

NoCalls == [c \in ClusterCalls |-> "none"]
Refreshing == answer # NoCalls
AllBack == Refreshing /\ \A c \in ClusterCalls : answer[c] # "running"
MayBreak(c) == c = "tasks"

(* The sections of a snapshot; the backup jobs are made of two answers.    *)
PlainSections == ClusterCalls \ {"jobs"}
ClusterSnapshots ==
    [plain : [PlainSections -> ClusterCalls \union {"empty"}],
     backupJobs : (ClusterCalls \union {"empty"}) \X (ClusterCalls \union {"empty"})]

ClusterTypeOK ==
    /\ answer \in [ClusterCalls -> {"none", "running", "good", "empty", "broken"}]
    /\ clusterElapsed \in 0..CLUSTER_OUTER_TIMEOUT
    /\ clusterData \in ClusterSnapshots \union {NONE}
    /\ clusterAvailable \in BOOLEAN

ClusterInit ==
    /\ answer = NoCalls
    /\ clusterElapsed = 0
    /\ clusterData = NONE /\ clusterAvailable = FALSE

-----------------------------------------------------------------------------
ClusterStart ==
    /\ ~Refreshing
    /\ answer' = [c \in ClusterCalls |-> "running"]
    /\ clusterElapsed' = 0
    /\ UNCHANGED <<clusterData, clusterAvailable>>

CallReturns(c, r) ==
    /\ answer[c] = "running"
    /\ r = "broken" => MayBreak(c)
    /\ answer' = [answer EXCEPT ![c] = r]
    /\ UNCHANGED <<clusterElapsed, clusterData, clusterAvailable>>

Section(s) == IF answer[s] = "good" THEN s ELSE "empty"

ClusterPublish ==
    /\ AllBack
    /\ \A c \in ClusterCalls : answer[c] # "broken"
    /\ clusterData' = [plain |-> [s \in PlainSections |-> Section(s)],
                       backupJobs |-> <<Section("jobs"), Section("tasks")>>]
    /\ clusterAvailable' = TRUE
    /\ answer' = NoCalls
    /\ UNCHANGED clusterElapsed

(* Mutant: every failed refresh raises UpdateFailed.                       *)
ClusterAbortRaises ==
    /\ UNCHANGED <<clusterData, clusterElapsed>>
    /\ clusterAvailable' = FALSE
    /\ answer' = NoCalls

(* except Exception: as in the other coordinator.                          *)
ClusterAbort ==
    /\ UNCHANGED <<clusterData, clusterElapsed>>
    /\ clusterAvailable' = (clusterData # NONE)
    /\ answer' = NoCalls

BuildFails ==
    /\ AllBack
    /\ \E c \in ClusterCalls : answer[c] = "broken"
    /\ ClusterAbort

ClusterTimeout ==
    /\ Refreshing
    /\ clusterElapsed = CLUSTER_OUTER_TIMEOUT
    /\ ClusterAbort

ClusterTick ==
    /\ Refreshing /\ ~AllBack
    /\ clusterElapsed < CLUSTER_OUTER_TIMEOUT
    /\ clusterElapsed' = clusterElapsed + 1
    /\ UNCHANGED <<answer, clusterData, clusterAvailable>>

ClusterNext ==
    \/ ClusterStart
    \/ \E c \in ClusterCalls : \E r \in {"good", "empty", "broken"} : CallReturns(c, r)
    \/ ClusterPublish
    \/ BuildFails
    \/ ClusterTimeout
    \/ ClusterTick

ClusterSpec == ClusterInit /\ [][ClusterNext]_clusterVars

-----------------------------------------------------------------------------
(* The refresh implements the promise of LastGood.                         *)
ClusterPromise ==
    INSTANCE LastGood WITH Snapshots <- ClusterSnapshots, NONE <- NONE,
                           data <- clusterData, available <- clusterAvailable
ClusterImplementsLastGood == ClusterPromise!Spec
=============================================================================
