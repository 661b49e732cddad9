--------------------------- MODULE BackupHistory ---------------------------
(***************************************************************************)
(* What the backup sensors of a cluster make of its task log: the summary  *)
(* _build_backup_jobs_payload publishes with every refresh, and the        *)
(* sensors ProxmoxBackupJobsSensor, ProxmoxBackupAgeSensor,                *)
(* ProxmoxBackupHealthSensor and ProxmoxFailedTasksSensor, which rate it   *)
(* at the time they are read and fall back on what Home Assistant saved of *)
(* them before a restart.                                                  *)
(***************************************************************************)
EXTENDS Integers, Sequences, FiniteSets, Functions

CONSTANTS
    NoTime,      \* None
    Guests,
    Jobs,        \* the backup jobs of the cluster: sequence of sequences of guests
    WINDOW,      \* the most recent tasks a summary looks at
    DAY,         \* 24 hours, in the clock's unit
    HORIZON,     \* bound on the clock
    MAX_TASKS    \* bound on the tasks

ASSUME HistoryAssumption ==
    /\ NoTime \notin Int /\ NoTime # "healthy"
    /\ Jobs \in Seq(Seq(Guests)) /\ NoTime \notin Guests
    /\ DAY \in Nat

VARIABLES
    clock,
    log,       \* the tasks of the cluster, the newest first
    summary,   \* coordinator.data["backup_jobs"]
    failures,  \* of coordinator.data["cluster_tasks"], the times of those that failed
    refreshed, \* now_ts of that summary
    saved,     \* what Home Assistant's store has of the sensors
    restored   \* what they got of it when they were added

historyVars == <<clock, log, summary, failures, refreshed, saved, restored>>

(* A task of no guest is one of another type, or the single task of a      *)
(* vzdump of several guests, which names none of them.                     *)
NewTask(guest) ==
    [guest |-> guest, start |-> clock, end |-> NoTime, status |-> "running"]

(* endtime or starttime                                                    *)
TaskTime(t) == IF t.end = NoTime THEN t.start ELSE t.end

-----------------------------------------------------------------------------
(* The summary of a refresh.                                               *)

(* Sorted by time; equal ones keep their place.                            *)
Sooner(ts, i, j) ==
    \/ TaskTime(ts[i]) > TaskTime(ts[j])
    \/ TaskTime(ts[i]) = TaskTime(ts[j]) /\ i < j

Recent(ts) ==
    {i \in DOMAIN ts :
        Cardinality({j \in DOMAIN ts : Sooner(ts, j, i)}) < WINDOW}

NoRun == [guest |-> NoTime, start |-> NoTime, end |-> NoTime, status |-> "unknown"]

(* The run of a job: the most recent task of any of its guests, of those   *)
(* the summary looks at (task_by_vmid has the most recent one per guest);  *)
(* of equal ones that of the guest the job names first.                    *)
JobRun(ts, recent, job) ==
    LET its == {i \in recent : ts[i].guest \in Range(job)}
        latest == {i \in its : \A j \in its : TaskTime(ts[i]) >= TaskTime(ts[j])}
        place(i) == CHOOSE k \in DOMAIN job : job[k] = ts[i].guest
        named == {i \in latest : \A j \in latest : place(i) <= place(j)}
    IN  IF its = {} THEN NoRun
        ELSE ts[CHOOSE i \in named : \A j \in named : i <= j]

Latest(times) ==
    IF times = {} THEN NoTime
    ELSE CHOOSE t \in times : \A u \in times : t >= u

(* _build_backup_jobs_payload                                              *)
Summary(jobs, ts) ==
    LET recent == Recent(ts)
        run == [k \in DOMAIN jobs |-> JobRun(ts, recent, jobs[k])]
        failed == {k \in DOMAIN jobs : run[k].status = "error"}
        lastFailure == Latest({TaskTime(run[k]) : k \in failed})
    IN  [state |->
            IF jobs # << >> /\ \A k \in DOMAIN jobs : run[k].status = "OK"
            THEN "ok"
            ELSE IF failed = {} THEN "unknown"
            ELSE IF clock - lastFailure <= DAY THEN "error" ELSE "warning",
         failed |-> Cardinality(failed),
         lastRun |-> Latest({TaskTime(run[k]) : k \in DOMAIN jobs} \ {NoTime})]

(* _get_failed_tasks, the part that does not depend on when it is read: of *)
(* the tasks that failed, the time.                                        *)
FailureTimes(ts) ==
    [i \in {j \in DOMAIN ts : ts[j].status \notin {"running", "OK"}} |-> TaskTime(ts[i])]

(* A call that failed leaves its list empty.  The summary is rated here,   *)
(* by the refresh's clock; the failures are counted by the sensor, by the  *)
(* clock of the moment it is read.                                         *)
PublishHistory(jobs, ts) ==
    /\ summary' = Summary(jobs, ts)
    /\ failures' = FailureTimes(ts)
    /\ refreshed' = clock

-----------------------------------------------------------------------------
(* The sensors.                                                            *)
RestoredOrUnknown(state) == IF state = NoTime THEN "unknown" ELSE state

JobsState ==
    IF summary.lastRun = NoTime \/ summary.state = "unknown"
    THEN RestoredOrUnknown(restored.jobs)
    ELSE summary.state

LastBackup == IF summary.lastRun = NoTime THEN restored.lastBackup ELSE summary.lastRun

(* Mutant: without a run of its own the sensor repeats what it was.        *)
HealthRestored ==
    IF summary.lastRun = NoTime THEN RestoredOrUnknown(restored.health)
    ELSE IF summary.failed > 0 THEN "critical" ELSE "healthy"

(* The number of failed jobs is always that of the summary, an empty one   *)
(* included.                                                               *)
Health ==
    LET old(n) == LastBackup # NoTime /\ clock - LastBackup >= n * DAY
    IN  IF old(2) \/ summary.failed >= 2 THEN "critical"
        ELSE IF old(1) \/ summary.failed >= 1 THEN "warning"
        ELSE IF LastBackup # NoTime THEN "healthy"
        ELSE RestoredOrUnknown(restored.health)

(* Mutant: the cutoff itself is out.                                       *)
FailedTasksBeyond == {i \in DOMAIN failures : failures[i] > clock - DAY}

FailedTasks == {i \in DOMAIN failures : failures[i] >= clock - DAY}

Showing == [jobs |-> JobsState, health |-> Health, lastBackup |-> LastBackup]

-----------------------------------------------------------------------------
Nothing == [jobs |-> NoTime, health |-> NoTime, lastBackup |-> NoTime]

HistoryInit ==
    /\ clock = 1
    /\ log = << >>
    /\ summary = [state |-> "unknown", failed |-> 0, lastRun |-> NoTime]
    /\ failures = << >> /\ refreshed = 1
    /\ saved = Nothing /\ restored = Nothing

TaskStarts ==
    /\ Len(log) < MAX_TASKS
    /\ \E g \in Guests \union {NoTime} : log' = <<NewTask(g)>> \o log
    /\ UNCHANGED <<clock, summary, failures, refreshed, saved, restored>>

TaskEnds ==
    /\ \E i \in DOMAIN log, status \in {"OK", "error"} :
          /\ log[i].status = "running"
          /\ log' = [log EXCEPT ![i].end = clock, ![i].status = status]
    /\ UNCHANGED <<clock, summary, failures, refreshed, saved, restored>>

Refresh ==
    /\ \E jobs \in {Jobs, << >>}, ts \in {log, << >>} : PublishHistory(jobs, ts)
    /\ UNCHANGED <<clock, log, saved, restored>>

(* Home Assistant saves the states from time to time and when it stops.    *)
SaveStates ==
    /\ saved' = Showing
    /\ UNCHANGED <<clock, log, summary, failures, refreshed, restored>>

(* It starts again, after a stop or a crash; the sensors are added when    *)
(* the first refresh is done.                                              *)
Restart ==
    /\ restored' = saved
    /\ \E jobs \in {Jobs, << >>}, ts \in {log, << >>} : PublishHistory(jobs, ts)
    /\ UNCHANGED <<clock, log, saved>>

TimePasses ==
    /\ clock < HORIZON /\ clock' = clock + 1
    /\ UNCHANGED <<log, summary, failures, refreshed, saved, restored>>

HistoryNext ==
    TaskStarts \/ TaskEnds \/ Refresh \/ SaveStates \/ Restart \/ TimePasses

HistorySpec == HistoryInit /\ [][HistoryNext]_historyVars

-----------------------------------------------------------------------------
(* The backups count as healthy only if a backup of a guest of some job    *)
(* really started or ended within the last 24 hours: also when the summary *)
(* is old, when it is empty and the sensor lives on what was restored, and *)
(* when that was saved long ago or was restored itself.                    *)
HealthyMeansRecent ==
    Health = "healthy" =>
        \E i \in DOMAIN log, k \in DOMAIN Jobs :
            /\ log[i].guest \in Range(Jobs[k])
            /\ \/ clock - log[i].start < DAY
               \/ log[i].end # NoTime /\ clock - log[i].end < DAY

(* The two sensors that look for failures agree, although each looks at a  *)
(* clock of its own, the refresh's (coordinator.py:192 and :267) and a     *)
(* later one (sensor/cluster.py:729 and :751): while the summary puts the  *)
(* backup jobs in error, because one failed within 24 hours of it, the     *)
(* failed tasks include that failure or its 24 hours ended since.          *)
ErrorIsCounted ==
    summary.state = "error" =>
        \/ FailedTasks # {}
        \/ \E i \in DOMAIN failures :
              failures[i] \in (refreshed - DAY)..(clock - DAY - 1)
=============================================================================
