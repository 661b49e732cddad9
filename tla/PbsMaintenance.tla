--------------------------- MODULE PbsMaintenance ---------------------------
(***************************************************************************)
(* What the maintenance sensors of a PBS entry (pbs.py,                    *)
(* sensor_last_action.py) say of a datastore: verification, pruning,       *)
(* garbage collection and the last action.  They read two lists that the   *)
(* refresh fetched at different times, the snapshots of every datastore    *)
(* first and the tasks of the server last, while backups and maintenance   *)
(* go on.                                                                  *)
(***************************************************************************)
EXTENDS Integers, Sequences, FiniteSets, SequencesExt

CONSTANTS
    Never,            \* None
    Datastores,       \* of the entry
    OtherStores,      \* of the server, not selected
    SameButCase,      \* pairs of datastores whose names differ at most in case
    BeginsWith,       \* <<s, d>>: the name of s begins with that of d
    NamedKinds,       \* the tasks whose worker id tells the datastore
    LATEST_TIME,      \* bound on the clock
    MAX_JOBS,         \* bound on the tasks of the server
    MAX_BACKUPS       \* bound on the backups of a datastore

ASSUME MaintenanceAssumption ==
    /\ Never \notin Int
    /\ \A s \in Datastores \union OtherStores :
          <<s, s>> \in SameButCase /\ <<s, s>> \in BeginsWith

VARIABLES
    time,
    jobs,       \* the tasks of the server, the newest first
    backups,    \* per datastore, the times of its snapshots
    fetched,    \* of a refresh on its way, what the snapshots say; Never without one
    published   \* what the sensors read

maintenanceVars == <<time, jobs, backups, fetched, published>>

Kinds == {"verify", "prune", "garbage_collection"}

Started(kind, store) ==
    [kind |-> kind, store |-> store, start |-> time, end |-> Never, ok |-> FALSE]

-----------------------------------------------------------------------------
(* The sensors.                                                            *)

(* extract_store_from_task takes what comes before "::" in a worker id;    *)
(* the filter of _get_task wants the kind and the datastore, in whatever   *)
(* case it is written.  The places of these tasks in the list.             *)
TasksFor(kind, store) ==
    {i \in DOMAIN published.tasks :
        /\ published.tasks[i].kind = kind /\ kind \in NamedKinds
        /\ <<published.tasks[i].store, store>> \in SameButCase}

EndTime(t) == IF t.end = Never THEN 0 ELSE t.end

(* _get_task: sorted by the time they ended, and a running one counts as   *)
(* ended before all others; of equal ones the first.                       *)
NewestEnded(kind, store) ==
    LET its == TasksFor(kind, store)
        end(i) == EndTime(published.tasks[i])
        last == {i \in its : \A j \in its : end(i) >= end(j)}
    IN  IF its = {} THEN Never
        ELSE published.tasks[CHOOSE i \in last : \A j \in last : i <= j]

(* Mutant: a verification of any age will do.                              *)
VerifyAnyAge(store) ==
    LET t == NewestEnded("verify", store)
    IN  IF t = Never THEN "Pending" ELSE IF t.end = Never THEN "Running" ELSE "OK"

(* ProxmoxPBSVerifySensor: how the verification ended plays no role, and   *)
(* nor does when, for a datastore of which no snapshot is known.           *)
VerifyStatus(store) ==
    LET t == NewestEnded("verify", store)
        last == published.lastBackup[store]
    IN  IF t = Never THEN "Pending"
        ELSE IF t.end = Never THEN "Running"
        ELSE IF last # Never /\ t.end < last THEN "Pending" ELSE "OK"

(* ProxmoxPBSPruneSensor                                                   *)
PruneStatus(store) ==
    LET t == NewestEnded("prune", store)
    IN  IF t = Never THEN "Idle"
        ELSE IF t.end = Never THEN "Running"
        ELSE IF t.ok THEN "OK" ELSE "Error"

(* ProxmoxPBSMaintenanceSensor, for a datastore that was collected before: *)
(* the task that started last counts, whatever datastore it is for.        *)
GcRunning ==
    /\ published.tasks # << >>
    /\ Head(published.tasks).kind = "garbage_collection"
    /\ Head(published.tasks).end = Never

(* PBSLastActionSensor: the latest task whose worker id begins with the    *)
(* name of the datastore.                                                  *)
LastAction(store) ==
    LET its == {i \in DOMAIN published.tasks :
                    <<published.tasks[i].store, store>> \in BeginsWith}
        first == CHOOSE i \in its : \A j \in its : i <= j
    IN  IF its = {} THEN "Idle" ELSE published.tasks[first].kind

-----------------------------------------------------------------------------
NewestOf(times) == CHOOSE t \in times : \A u \in times : t >= u

(* backups_sorted[0] *)
LastBackups ==
    [s \in Datastores |-> IF backups[s] = {} THEN Never ELSE NewestOf(backups[s])]

MaintenanceInit ==
    /\ time = 1
    /\ jobs = << >>
    /\ backups = [s \in Datastores |-> {}]
    /\ fetched = Never
    /\ published = [lastBackup |-> [s \in Datastores |-> Never], known |-> {},
                    tasks |-> << >>, storesAt |-> 0, tasksAt |-> 0]

TakeBackup(s) ==
    /\ time \notin backups[s] /\ Cardinality(backups[s]) < MAX_BACKUPS
    /\ backups' = [backups EXCEPT ![s] = @ \union {time}]
    /\ UNCHANGED <<time, jobs, fetched, published>>

StartJob ==
    /\ Len(jobs) < MAX_JOBS
    /\ \E kind \in Kinds, s \in Datastores \union OtherStores :
          jobs' = <<Started(kind, s)>> \o jobs
    /\ UNCHANGED <<time, backups, fetched, published>>

(* How a task ends is told apart for the pruning only.                     *)
EndJob ==
    /\ \E i \in DOMAIN jobs, ok \in BOOLEAN :
          /\ jobs[i].end = Never
          /\ ok => jobs[i].kind = "prune"
          /\ jobs' = [jobs EXCEPT ![i].end = time, ![i].ok = ok]
    /\ UNCHANGED <<time, backups, fetched, published>>

(* The refresh has walked the datastores; a call that failed looks like a  *)
(* datastore without snapshots ...                                         *)
FetchStores ==
    /\ fetched = Never
    /\ \E answered \in SUBSET Datastores :
          fetched' = [lastBackup |->
                         [s \in Datastores |->
                             IF s \in answered THEN LastBackups[s] ELSE Never],
                      known |-> answered, at |-> time]
    /\ UNCHANGED <<time, jobs, backups, published>>

(* ... and, later, got the tasks (none when the call failed) ...           *)
FetchTasks ==
    /\ fetched # Never /\ fetched' = Never
    /\ \E answered \in BOOLEAN :
          published' = [lastBackup |-> fetched.lastBackup,
                        known |-> fetched.known, storesAt |-> fetched.at,
                        tasks |-> IF answered THEN jobs ELSE << >>,
                        tasksAt |-> IF answered THEN time ELSE 0]
    /\ UNCHANGED <<time, jobs, backups>>

(* ... or it broke off, and what was published stays.                      *)
FetchBreaks ==
    /\ fetched # Never /\ fetched' = Never
    /\ UNCHANGED <<time, jobs, backups, published>>

ServerTime ==
    /\ time < LATEST_TIME /\ time' = time + 1
    /\ UNCHANGED <<jobs, backups, fetched, published>>

MaintenanceNext ==
    \/ \E s \in Datastores : TakeBackup(s)
    \/ StartJob \/ EndJob
    \/ FetchStores \/ FetchTasks \/ FetchBreaks
    \/ ServerTime

MaintenanceSpec == MaintenanceInit /\ [][MaintenanceNext]_maintenanceVars

-----------------------------------------------------------------------------
(* Of a datastore as the sensors tell them apart.                          *)
Ended(kind, s, bound) ==
    {t \in ToSet(jobs) :
        /\ t.kind = kind /\ <<t.store, s>> \in SameButCase
        /\ t.end # Never /\ t.end <= bound}

(* A datastore is shown as verified only if a verification of it ended,    *)
(* and ended no earlier than the newest backup it had when the refresh     *)
(* asked for its snapshots, however much later the tasks were fetched.     *)
(* The second half needs the snapshots: when the call for them failed,     *)
(* get_pbs_backup_list returns [] (api.py:677-678), last_backup is None    *)
(* and sensor/pbs.py:829 calls a verification of any age "OK".             *)
VerifyOkIsFresh ==
    \A s \in Datastores : VerifyStatus(s) = "OK" =>
        \E t \in Ended("verify", s, published.tasksAt) :
            s \in published.known =>
                \A b \in backups[s] : b < published.storesAt => b <= t.end

(* What is shown of the pruning is how the one that ended last ended.      *)
PruneIsTheLatest ==
    \A s \in Datastores : PruneStatus(s) \in {"OK", "Error"} =>
        \E t \in Ended("prune", s, published.tasksAt) :
            /\ t.ok = (PruneStatus(s) = "OK")
            /\ \A u \in Ended("prune", s, published.tasksAt - 1) :
                  u.end <= t.end

(* Garbage is shown as being collected only when it was, if not in this    *)
(* datastore, and a datastore as idle only when nothing was done in it.    *)
ActionsAreReal ==
    /\ GcRunning => \E t \in ToSet(jobs) :
          /\ t.kind = "garbage_collection" /\ t.start <= published.tasksAt
          /\ t.end = Never \/ t.end >= published.tasksAt
    /\ \A s \in Datastores : LastAction(s) = "Idle" =>
          \A t \in ToSet(jobs) : t.store = s => t.start >= published.tasksAt

MaintenanceIsTrue == VerifyOkIsFresh /\ PruneIsTheLatest /\ ActionsAreReal
=============================================================================
