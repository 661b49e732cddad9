---------------------------- MODULE SensorProofs ----------------------------
(***************************************************************************)
(* Theorems about what the sensors show: BackupHistory, PbsMaintenance,    *)
(* SmartData and HardwareReadings, for any guests, jobs, windows and days, *)
(* any stores and logs, any disks and counters, any boards and values.     *)
(***************************************************************************)
EXTENDS BackupHistory, PbsMaintenance, SmartData, HardwareReadings,
        FiniteSetTheorems, SequenceTheorems, TLAPS

-----------------------------------------------------------------------------
(* A finite set of integers has a least element: of the sets of what is    *)
(* less than an element one is minimal.                                    *)
LEMMA LeastExists ==
    ASSUME NEW S, S \subseteq Int, IsFiniteSet(S), S # {}
    PROVE  \E x \in S : \A y \in S : x <= y
<1> DEFINE Below(x) == {y \in S : y < x}
           T == {Below(x) : x \in S}
<1>1. T \subseteq FiniteSubsetsOf(S)
  BY FS_Subset DEF FiniteSubsetsOf
<1>2. T # {}
  OBVIOUS
<1>3. \E t \in T : \A u \in T : <<u, t>> \notin StrictSubsetOrdering(S)
  <2> HIDE DEF T
  <2> QED BY <1>1, <1>2, FS_StrictSubsetOrderingWellFounded, WFMin
<1>4. PICK x \in S : \A y \in S : <<Below(y), Below(x)>> \notin StrictSubsetOrdering(S)
  BY <1>3
<1>5. ASSUME NEW y \in S, y < x
      PROVE  FALSE
  <2>1. ~(y < y) /\ \A z \in S : z < y => z < x
    BY <1>5
  <2>2. Below(y) \subseteq Below(x) /\ y \in Below(x) /\ y \notin Below(y)
    BY <1>5, <2>1
  <2>3. <<Below(y), Below(x)>> \in StrictSubsetOrdering(S)
    BY <2>2 DEF StrictSubsetOrdering
  <2> QED BY <1>4, <2>3
<1> QED BY <1>5

(* And a greatest one, likewise.                                           *)
LEMMA GreatestExists ==
    ASSUME NEW S, S \subseteq Int, IsFiniteSet(S), S # {}
    PROVE  \E x \in S : \A y \in S : x >= y
<1> DEFINE Above(x) == {y \in S : y > x}
           T == {Above(x) : x \in S}
<1>1. T \subseteq FiniteSubsetsOf(S)
  BY FS_Subset DEF FiniteSubsetsOf
<1>2. T # {}
  OBVIOUS
<1>3. \E t \in T : \A u \in T : <<u, t>> \notin StrictSubsetOrdering(S)
  <2> HIDE DEF T
  <2> QED BY <1>1, <1>2, FS_StrictSubsetOrderingWellFounded, WFMin
<1>4. PICK x \in S : \A y \in S : <<Above(y), Above(x)>> \notin StrictSubsetOrdering(S)
  BY <1>3
<1>5. ASSUME NEW y \in S, y > x
      PROVE  FALSE
  <2>1. ~(y > y) /\ \A z \in S : z > y => z > x
    BY <1>5
  <2>2. Above(y) \subseteq Above(x) /\ y \in Above(x) /\ y \notin Above(y)
    BY <1>5, <2>1
  <2>3. <<Above(y), Above(x)>> \in StrictSubsetOrdering(S)
    BY <2>2 DEF StrictSubsetOrdering
  <2> QED BY <1>4, <2>3
<1> QED BY <1>5

(* Places in a sequence are finitely many integers.                        *)
LEMMA PlacesAreFinite ==
    ASSUME NEW S, NEW ts \in Seq(S), NEW its \in SUBSET DOMAIN ts
    PROVE  its \subseteq Int /\ IsFiniteSet(its)
<1>1. DOMAIN ts = 1..Len(ts) /\ Len(ts) \in Nat
  OBVIOUS
<1>2. IsFiniteSet(1..Len(ts)) /\ 1..Len(ts) \subseteq Int
  BY <1>1, FS_Interval
<1>3. its \subseteq 1..Len(ts)
  BY <1>1
<1> QED BY <1>2, <1>3, FS_Subset

-----------------------------------------------------------------------------
(* BackupHistory.                                                          *)
Tasks == [guest : Guests \union {NoTime}, start : Nat, end : Nat \union {NoTime},
          status : {"running", "OK", "error"}]

LogOk ==
    /\ clock \in Nat
    /\ log \in Seq(Tasks)
    /\ \A i \in DOMAIN log :
          /\ log[i].start <= clock
          /\ log[i].end # NoTime => log[i].end <= clock
          /\ log[i].status = "running" => log[i].end = NoTime

(* The times at which a backup of a guest of some job started or ended.    *)
JobTimes ==
    {t \in Nat : \E i \in DOMAIN log, k \in DOMAIN Jobs :
        log[i].guest \in Range(Jobs[k]) /\ t \in {log[i].start, log[i].end}}

LastRunsOk ==
    /\ summary.lastRun \in JobTimes \union {NoTime}
    /\ saved.lastBackup \in JobTimes \union {NoTime}
    /\ restored.lastBackup \in JobTimes \union {NoTime}

(* What is saved as healthy has a time of its own, so that a sensor that   *)
(* gets both back never repeats a "healthy" without looking at the clock.  *)
HealthyHasTime ==
    /\ saved.health = "healthy" => saved.lastBackup # NoTime
    /\ restored.health = "healthy" => restored.lastBackup # NoTime

HistoryInv == LogOk /\ LastRunsOk /\ HealthyHasTime

(* The run of a job is a task of one of its guests, or none.               *)
LEMMA RunIsOfTheJob ==
    ASSUME LogOk, NEW k \in DOMAIN Jobs, NEW recent \in SUBSET DOMAIN log
    PROVE  \/ JobRun(log, recent, Jobs[k]) = NoRun
           \/ \E i \in DOMAIN log : /\ log[i].guest \in Range(Jobs[k])
                                   /\ JobRun(log, recent, Jobs[k]) = log[i]
<1> DEFINE job == Jobs[k]
           its == {i \in recent : log[i].guest \in Range(job)}
           latest == {i \in its : \A j \in its : TaskTime(log[i]) >= TaskTime(log[j])}
           place(i) == CHOOSE n \in DOMAIN job : job[n] = log[i].guest
           named == {i \in latest : \A j \in latest : place(i) <= place(j)}
<1>1. CASE its = {}
  BY <1>1 DEF JobRun
<1>2. CASE its # {}
  <2>1. its \subseteq DOMAIN log /\ its \subseteq Nat /\ IsFiniteSet(DOMAIN log)
    BY FS_Interval DEF LogOk
  <2>2. \A i \in its : TaskTime(log[i]) \in Nat /\ TaskTime(log[i]) <= clock
    <3> SUFFICES ASSUME NEW i \in its
                 PROVE  TaskTime(log[i]) \in Nat /\ TaskTime(log[i]) <= clock
      OBVIOUS
    <3>1. i \in DOMAIN log /\ log[i] \in Tasks
      BY <2>1 DEF LogOk
    <3>2. /\ log[i].start \in Nat /\ log[i].start <= clock
          /\ log[i].end # NoTime => log[i].end \in Nat /\ log[i].end <= clock
      BY <3>1 DEF LogOk, Tasks
    <3> HIDE DEF its
    <3> QED BY <3>2 DEF TaskTime
  <2>3. latest # {}
    <3> DEFINE times == {TaskTime(log[i]) : i \in its}
    <3>1. times \subseteq Nat /\ times # {} /\ \A t \in times : t <= clock
      BY <1>2, <2>2
    <3>2. IsFiniteSet(times)
      BY <3>1, FS_BoundedSetOfNaturals DEF LogOk
    <3>3. times \subseteq Int
      BY <3>1
    <3>4. PICK t \in times : \A u \in times : t >= u
      <4> HIDE DEF times
      <4> QED BY <3>1, <3>2, <3>3, GreatestExists
    <3>5. PICK i \in its : t = TaskTime(log[i])
      OBVIOUS
    <3>6. \A j \in its : t >= TaskTime(log[j])
      BY <3>4
    <3> QED BY <3>5, <3>6
  <2>4. named # {}
    <3> DEFINE places == {place(i) : i \in latest}
    <3>1. DOMAIN job \subseteq Int /\ IsFiniteSet(DOMAIN job)
      BY FS_Interval, HistoryAssumption
    <3>2. \A i \in latest : place(i) \in DOMAIN job
      BY DEF Range
    <3>3. IsFiniteSet(places) /\ places \subseteq Int /\ places # {}
      BY <2>3, <3>1, <3>2, FS_Subset
    <3>4. PICK p \in places : \A q \in places : p <= q
      <4> HIDE DEF places
      <4> QED BY <3>3, LeastExists
    <3>5. PICK i \in latest : p = place(i)
      OBVIOUS
    <3>6. \A j \in latest : p <= place(j)
      BY <3>4
    <3> QED BY <3>5, <3>6
  <2>5. \E i \in named : \A j \in named : i <= j
    <3>1. IsFiniteSet(named) /\ named \subseteq Int
      BY <2>1, FS_Subset
    <3> HIDE DEF named
    <3> QED BY <2>4, <3>1, LeastExists
  <2> DEFINE chosen == CHOOSE i \in named : \A j \in named : i <= j
  <2>6. chosen \in named
    <3> HIDE DEF named
    <3> QED BY <2>5
  <2>7. JobRun(log, recent, job) = log[chosen]
    BY <1>2 DEF JobRun
  <2>8. chosen \in its
    BY <2>6
  <2> HIDE DEF chosen
  <2> QED BY <2>1, <2>7, <2>8
<1> QED BY <1>1, <1>2

(* The latest of some of these times is one of them, and none is later.    *)
LEMMA LatestIsOneOfThem ==
    ASSUME LogOk, NEW times \in SUBSET JobTimes, times # {}
    PROVE  /\ Latest(times) \in times
           /\ \A t \in times : Latest(times) >= t
<1>1. \A t \in JobTimes : t \in Nat /\ t <= clock
  <2> SUFFICES ASSUME NEW t \in JobTimes PROVE t \in Nat /\ t <= clock
    OBVIOUS
  <2>1. PICK i \in DOMAIN log : t \in Nat /\ t \in {log[i].start, log[i].end}
    BY DEF JobTimes
  <2> QED BY <2>1, HistoryAssumption DEF LogOk
<1>2. times \subseteq Int /\ IsFiniteSet(times)
  <2>1. times \in SUBSET Nat /\ clock \in Nat /\ \A t \in times : t <= clock
    BY <1>1 DEF LogOk
  <2> QED BY <2>1, FS_BoundedSetOfNaturals
<1>3. \E t \in times : \A u \in times : t >= u
  BY <1>2, GreatestExists
<1> QED BY <1>3 DEF Latest

(* A job whose run the summary knows ran one of the tasks it was given.    *)
LEMMA KnownRunsAreReal ==
    ASSUME LogOk, NEW js \in {Jobs, << >>}, NEW ts \in {log, << >>},
           NEW k \in DOMAIN js, JobRun(ts, Recent(ts), js[k]) # NoRun
    PROVE  \E i \in DOMAIN ts : /\ JobRun(ts, Recent(ts), js[k]) = ts[i]
                               /\ TaskTime(ts[i]) \in JobTimes
<1>1. js = Jobs
  OBVIOUS
<1>2. Recent(ts) \subseteq DOMAIN ts
  BY DEF Recent
<1>3. ts = log
  <2>1. ASSUME ts = << >> PROVE FALSE
    <3>1. Recent(ts) = {}
      BY <1>2, <2>1
    <3> QED BY <3>1 DEF JobRun
  <2> QED BY <2>1
<1>4. PICK i \in DOMAIN log :
         /\ log[i].guest \in Range(Jobs[k])
         /\ JobRun(log, Recent(log), Jobs[k]) = log[i]
  BY <1>1, <1>2, <1>3, RunIsOfTheJob
<1>5. log[i] \in Tasks
  BY DEF LogOk
<1>6. TaskTime(log[i]) \in {log[i].start, log[i].end} /\ TaskTime(log[i]) \in Nat
  BY <1>5 DEF TaskTime, Tasks
<1>7. TaskTime(log[i]) \in JobTimes
  BY <1>1, <1>4, <1>6 DEF JobTimes
<1> QED BY <1>1, <1>3, <1>4, <1>7

(* The last run a summary names is one of a job.                           *)
LEMMA LastRunIsReal ==
    ASSUME LogOk, NEW js \in {Jobs, << >>}, NEW ts \in {log, << >>}
    PROVE  Summary(js, ts).lastRun \in JobTimes \union {NoTime}
<1> DEFINE runOf(k) == JobRun(ts, Recent(ts), js[k])
           times == {TaskTime(runOf(k)) : k \in DOMAIN js} \ {NoTime}
<1>1. ASSUME NEW k \in DOMAIN js
      PROVE  TaskTime(runOf(k)) \in JobTimes \union {NoTime}
  <2>1. CASE runOf(k) = NoRun
    BY <2>1 DEF NoRun, TaskTime
  <2>2. CASE runOf(k) # NoRun
    BY <2>2, KnownRunsAreReal
  <2> QED BY <2>1, <2>2
<1>2. times \in SUBSET JobTimes
  BY <1>1
<1>3. Latest(times) \in JobTimes \union {NoTime}
  <2>1. CASE times = {}
    BY <2>1 DEF Latest
  <2>2. CASE times # {}
    <3> HIDE DEF times
    <3> QED BY <1>2, <2>2, LatestIsOneOfThem
  <2> QED BY <2>1, <2>2
<1>4. Summary(js, ts).lastRun = Latest(times)
  BY Zenon DEF Summary
<1> HIDE DEF times
<1> QED BY <1>3, <1>4

(* A summary that is in error knows of a task that failed within a day.    *)
LEMMA ErrorsAreRecentFailures ==
    ASSUME LogOk, NEW js \in {Jobs, << >>}, NEW ts \in {log, << >>},
           Summary(js, ts).state = "error"
    PROVE  \E i \in DOMAIN ts : /\ ts[i].status = "error"
                               /\ TaskTime(ts[i]) \in Nat
                               /\ clock - TaskTime(ts[i]) <= DAY
<1> DEFINE runOf(k) == JobRun(ts, Recent(ts), js[k])
           failed == {k \in DOMAIN js : runOf(k).status = "error"}
           times == {TaskTime(runOf(k)) : k \in failed}
<1>1. failed # {} /\ clock - Latest(times) <= DAY
  BY DEF Summary
<1>2. ASSUME NEW k \in failed
      PROVE  \E i \in DOMAIN ts : runOf(k) = ts[i] /\ TaskTime(ts[i]) \in JobTimes
  <2>1. runOf(k) # NoRun
    BY DEF NoRun
  <2> QED BY <2>1, KnownRunsAreReal
<1>3. times \in SUBSET JobTimes /\ times # {}
  BY <1>1, <1>2
<1>4. Latest(times) \in times
  <2> HIDE DEF times
  <2> QED BY <1>3, LatestIsOneOfThem
<1>5. PICK k \in failed : Latest(times) = TaskTime(runOf(k))
  BY <1>4
<1>6. PICK i \in DOMAIN ts : runOf(k) = ts[i] /\ TaskTime(ts[i]) \in JobTimes
  BY <1>2
<1>7. TaskTime(ts[i]) \in Nat
  BY <1>6 DEF JobTimes
<1> HIDE DEF times
<1> QED BY <1>1, <1>5, <1>6, <1>7

(* Times are kept as long as every task is, and keeps its end if it has    *)
(* one.                                                                    *)
LEMMA TimesAreKept ==
    ASSUME \A i \in DOMAIN log : \E j \in DOMAIN log' :
              /\ log'[j].guest = log[i].guest
              /\ log'[j].start = log[i].start
              /\ log[i].end # NoTime => log'[j].end = log[i].end
    PROVE  JobTimes \subseteq JobTimes'
<1> SUFFICES ASSUME NEW t \in JobTimes PROVE t \in JobTimes'
  OBVIOUS
<1>1. PICK i \in DOMAIN log, k \in DOMAIN Jobs :
         t \in Nat /\ log[i].guest \in Range(Jobs[k]) /\ t \in {log[i].start, log[i].end}
  BY DEF JobTimes
<1>2. PICK j \in DOMAIN log' :
         /\ log'[j].guest = log[i].guest
         /\ log'[j].start = log[i].start
         /\ log[i].end # NoTime => log'[j].end = log[i].end
  OBVIOUS
<1>3. t # NoTime
  BY <1>1, HistoryAssumption
<1>4. log'[j].guest \in Range(Jobs[k])
  BY <1>1, <1>2 DEF Range
<1>5. t \in {log'[j].start, log'[j].end}
  <2>1. CASE t = log[i].start
    BY <1>2, <2>1
  <2>2. CASE t = log[i].end
    BY <1>2, <1>3, <2>2
  <2> QED BY <1>1, <2>1, <2>2
<1> QED BY <1>1, <1>4, <1>5 DEF JobTimes

(* The log keeps its types and all the times it has.                       *)
LEMMA LogGrows ==
    ASSUME LogOk, [HistoryNext]_historyVars
    PROVE  LogOk' /\ JobTimes \subseteq JobTimes'
<1>1. CASE TaskStarts
  <2>1. PICK g \in Guests \union {NoTime} : log' = <<NewTask(g)>> \o log
    BY <1>1 DEF TaskStarts
  <2>2. NewTask(g) \in Tasks
    BY DEF NewTask, Tasks, LogOk
  <2>3. /\ log' \in Seq(Tasks) /\ Len(log') = Len(log) + 1
        /\ log'[1] = NewTask(g)
        /\ \A i \in 1..Len(log) : log'[i + 1] = log[i]
    BY <2>1, <2>2 DEF LogOk
  <2>4. ASSUME NEW i \in DOMAIN log'
        PROVE  i = 1 \/ (i - 1 \in DOMAIN log /\ log'[i] = log[i - 1])
    BY <2>3, <2>4 DEF LogOk
  <2>5. LogOk'
    BY <1>1, <2>3, <2>4 DEF LogOk, TaskStarts, NewTask
  <2>6. \A i \in DOMAIN log : i + 1 \in DOMAIN log' /\ log'[i + 1] = log[i]
    BY <2>3 DEF LogOk
  <2> QED BY <2>5, <2>6, TimesAreKept
<1>2. CASE TaskEnds
  <2>1. PICK i \in DOMAIN log, status \in {"OK", "error"} :
           /\ log[i].status = "running"
           /\ log' = [log EXCEPT ![i].end = clock, ![i].status = status]
    BY <1>2 DEF TaskEnds
  <2>2. clock' = clock /\ clock \in Nat /\ log \in Seq(Tasks)
    BY <1>2 DEF TaskEnds, LogOk
  <2>3. log[i] \in Tasks
    BY <2>2
  <2>4. /\ DOMAIN log' = DOMAIN log
        /\ \A j \in DOMAIN log \ {i} : log'[j] = log[j]
        /\ log'[i] = [log[i] EXCEPT !.end = clock, !.status = status]
    BY <2>1, <2>2
  <2>5. /\ log'[i] \in Tasks
        /\ log'[i].guest = log[i].guest /\ log'[i].start = log[i].start
        /\ log'[i].end = clock /\ log'[i].status = status
    BY <2>2, <2>3, <2>4 DEF Tasks
  <2>6. log' \in Seq(Tasks)
    <3>1. log' = [log EXCEPT ![i] = log'[i]]
      BY <2>1, <2>2
    <3>2. i \in 1..Len(log)
      BY <2>2
    <3> QED BY <2>2, <2>5, <3>1, <3>2, ExceptSeq
  <2>7. LogOk'
    <3>1. ASSUME NEW j \in DOMAIN log'
          PROVE  /\ log'[j].start <= clock
                 /\ log'[j].end # NoTime => log'[j].end <= clock
                 /\ log'[j].status = "running" => log'[j].end = NoTime
      <4>1. CASE j = i
        BY <2>1, <2>2, <2>5, <4>1 DEF LogOk
      <4>2. CASE j # i
        BY <2>4, <4>2 DEF LogOk
      <4> QED BY <4>1, <4>2
    <3> QED BY <2>2, <2>6, <3>1 DEF LogOk
  <2>8. log[i].end = NoTime
    BY <2>1 DEF LogOk
  <2> QED BY <2>4, <2>5, <2>7, <2>8, TimesAreKept
<1>3. CASE TimePasses
  <2>1. clock' = clock + 1 /\ log' = log
    BY <1>3 DEF TimePasses
  <2>2. ASSUME NEW i \in DOMAIN log
        PROVE  /\ log[i].start <= clock + 1
               /\ log[i].end # NoTime => log[i].end <= clock + 1
    <3>1. log[i] \in Tasks
      BY DEF LogOk
    <3>2. log[i].start \in Nat /\ (log[i].end # NoTime => log[i].end \in Nat)
      BY <3>1 DEF Tasks
    <3> QED BY <3>2 DEF LogOk
  <2> QED BY <2>1, <2>2 DEF LogOk, JobTimes
<1>4. CASE UNCHANGED <<clock, log>>
  BY <1>4 DEF LogOk, JobTimes
<1> QED BY <1>1, <1>2, <1>3, <1>4
     DEF HistoryNext, historyVars, Refresh, SaveStates, Restart

(* A refresh, on its own or after a restart, publishes a real last run.    *)
LEMMA RefreshesNameRealRuns ==
    ASSUME LogOk, \E js \in {Jobs, << >>}, ts \in {log, << >>} : PublishHistory(js, ts)
    PROVE  summary'.lastRun \in JobTimes \union {NoTime}
BY LastRunIsReal DEF PublishHistory

(* What the sensors show is saved with the time it is about.               *)
LEMMA ShowingIsReal ==
    ASSUME HistoryInv
    PROVE  /\ Showing.lastBackup \in JobTimes \union {NoTime}
           /\ Showing.health = "healthy" => Showing.lastBackup # NoTime
<1>1. LastBackup \in JobTimes \union {NoTime}
  BY DEF HistoryInv, LastRunsOk, LastBackup
<1>2. LastBackup = NoTime => restored.lastBackup = NoTime
  BY DEF LastBackup
<1>3. Health = "healthy" => LastBackup # NoTime
  BY <1>2 DEF Health, RestoredOrUnknown, HistoryInv, HealthyHasTime
<1> QED BY <1>1, <1>3 DEF Showing

(* HistoryInv holds in every behaviour.                                    *)
THEOREM HistoryInvariance == HistorySpec => []HistoryInv
<1>1. HistoryInit => HistoryInv
  <2>1. << >> \in Seq(Tasks) /\ DOMAIN << >> = {}
    OBVIOUS
  <2> QED BY <2>1, HistoryAssumption DEF HistoryInit, HistoryInv, LogOk, LastRunsOk, HealthyHasTime, Nothing
<1>2. ASSUME HistoryInv, [HistoryNext]_historyVars
      PROVE  HistoryInv'
  <2>1. LogOk' /\ JobTimes \subseteq JobTimes'
    BY <1>2, LogGrows DEF HistoryInv
  <2>2. CASE TaskStarts \/ TaskEnds \/ TimePasses \/ UNCHANGED historyVars
    BY <1>2, <2>1, <2>2 DEF HistoryInv, LastRunsOk, HealthyHasTime, TaskStarts,
       TaskEnds, TimePasses, historyVars
  <2>3. CASE Refresh
    <3>1. summary'.lastRun \in JobTimes \union {NoTime}
      BY <1>2, <2>3, RefreshesNameRealRuns DEF HistoryInv, Refresh
    <3> QED BY <1>2, <2>1, <2>3, <3>1 DEF HistoryInv, LastRunsOk, HealthyHasTime, Refresh
  <2>4. CASE SaveStates
    BY <1>2, <2>1, <2>4, ShowingIsReal DEF HistoryInv, LastRunsOk, HealthyHasTime, SaveStates
  <2>5. CASE Restart
    <3>1. summary'.lastRun \in JobTimes \union {NoTime}
      BY <1>2, <2>5, RefreshesNameRealRuns DEF HistoryInv, Restart
    <3> QED BY <1>2, <2>1, <2>5, <3>1 DEF HistoryInv, LastRunsOk, HealthyHasTime, Restart
  <2> QED BY <1>2, <2>2, <2>3, <2>4, <2>5 DEF HistoryNext
<1> QED BY <1>1, <1>2, PTL DEF HistorySpec

(* The backups never count as healthy without one of the last 24 hours,    *)
(* whatever was saved and restored in between: what is restored is either  *)
(* a time, which is compared to the clock again, or not "healthy".         *)
THEOREM HealthIsRecent == HistorySpec => []HealthyMeansRecent
<1>1. HistoryInv => HealthyMeansRecent
  <2> SUFFICES ASSUME HistoryInv, Health = "healthy"
               PROVE  \E i \in DOMAIN log, k \in DOMAIN Jobs :
                         /\ log[i].guest \in Range(Jobs[k])
                         /\ \/ clock - log[i].start < DAY
                            \/ log[i].end # NoTime /\ clock - log[i].end < DAY
    BY DEF HealthyMeansRecent
  <2>1. LastBackup \in JobTimes /\ ~(clock - LastBackup >= 1 * DAY)
    <3>1. LastBackup # NoTime /\ LastBackup \in JobTimes \union {NoTime}
      BY ShowingIsReal DEF Showing
    <3> QED BY <3>1 DEF Health
  <2>2. PICK i \in DOMAIN log, k \in DOMAIN Jobs :
           /\ LastBackup \in Nat /\ log[i].guest \in Range(Jobs[k])
           /\ LastBackup \in {log[i].start, log[i].end}
    BY <2>1 DEF JobTimes
  <2>3. clock - LastBackup < DAY /\ LastBackup # NoTime
    BY <2>1, <2>2, HistoryAssumption DEF HistoryInv, LogOk
  <2> QED BY <2>2, <2>3
<1> QED BY <1>1, HistoryInvariance, PTL

(* A failure is the last run of a job: a task of one of its guests failed, *)
(* and every other task of its guests is older.                            *)
LastRunFailed(k, i) ==
    /\ log[i].status = "error" /\ log[i].guest \in Range(Jobs[k])
    /\ \A j \in DOMAIN log :
          log[j].guest \in Range(Jobs[k]) /\ j # i => TaskTime(log[j]) < TaskTime(log[i])

(* Such a task is the run of the job, as long as it is in the window.      *)
LEMMA FailureIsTheRun ==
    ASSUME LogOk, NEW k \in DOMAIN Jobs, NEW i \in Recent(log), LastRunFailed(k, i)
    PROVE  JobRun(log, Recent(log), Jobs[k]) = log[i]
<1> DEFINE its == {n \in Recent(log) : log[n].guest \in Range(Jobs[k])}
           latest == {n \in its : \A j \in its : TaskTime(log[n]) >= TaskTime(log[j])}
           place(n) == CHOOSE p \in DOMAIN Jobs[k] : Jobs[k][p] = log[n].guest
           named == {n \in latest : \A j \in latest : place(n) <= place(j)}
<1>1. Recent(log) \subseteq DOMAIN log /\ i \in Nat
  BY DEF Recent, LogOk
<1>2. i \in its
  BY DEF LastRunFailed
<1>3. \A n \in its : TaskTime(log[n]) \in Int
  <2> SUFFICES ASSUME NEW n \in its PROVE TaskTime(log[n]) \in Int
    OBVIOUS
  <2>1. log[n] \in Tasks
    BY <1>1 DEF LogOk
  <2> QED BY <2>1 DEF Tasks, TaskTime
<1>4. latest = {i}
  <2> DEFINE when(n) == TaskTime(log[n])
  <2>1. \A n \in its : n # i => when(n) < when(i)
    BY <1>1 DEF LastRunFailed
  <2>2. \A n \in its : when(n) \in Int
    BY <1>3
  <2>3. latest = {n \in its : \A j \in its : when(n) >= when(j)}
    OBVIOUS
  <2> HIDE DEF when, its, latest
  <2> QED BY <1>2, <2>1, <2>2, <2>3
<1>5. place(i) \in Int
  <2>1. \E p \in DOMAIN Jobs[k] : Jobs[k][p] = log[i].guest
    BY DEF LastRunFailed, Range
  <2>2. DOMAIN Jobs[k] \subseteq Int
    BY HistoryAssumption
  <2> QED BY <2>1, <2>2
<1>6. named = {i}
  <2> HIDE DEF latest, place
  <2> QED BY <1>4, <1>5
<1>7. JobRun(log, Recent(log), Jobs[k]) = log[CHOOSE n \in named : \A j \in named : n <= j]
  BY <1>2 DEF JobRun
<1>8. (CHOOSE n \in named : \A j \in named : n <= j) = i
  <2> HIDE DEF named
  <2> QED BY <1>1, <1>6
<1> QED BY <1>7, <1>8

(* The summary counts it, and is in error for a day.                       *)
LEMMA FailureIsSummarised ==
    ASSUME LogOk, NEW k \in DOMAIN Jobs, NEW i \in Recent(log), LastRunFailed(k, i)
    PROVE  LET made == Summary(Jobs, log)
           IN  /\ made.failed > 0
               /\ made.state \in {"error", "warning"}
               /\ clock - TaskTime(log[i]) <= DAY => made.state = "error"
<1> DEFINE run == [n \in DOMAIN Jobs |-> JobRun(log, Recent(log), Jobs[n])]
           failed == {n \in DOMAIN Jobs : run[n].status = "error"}
           times == {TaskTime(run[n]) : n \in failed}
<1>1. run[k] = log[i] /\ k \in failed /\ run[k].status # "OK"
  BY FailureIsTheRun DEF LastRunFailed
<1>2. Cardinality(failed) > 0
  <2>1. IsFiniteSet(failed)
    <3>1. DOMAIN Jobs = 1..Len(Jobs) /\ Len(Jobs) \in Nat
      BY HistoryAssumption
    <3>2. IsFiniteSet(DOMAIN Jobs)
      BY <3>1, FS_Interval
    <3> QED BY <3>2, FS_Subset
  <2> HIDE DEF failed
  <2> QED BY <1>1, <2>1, FS_EmptySet, FS_CardinalityType
<1>3. times \in SUBSET JobTimes
  <2> SUFFICES ASSUME NEW n \in failed PROVE TaskTime(run[n]) \in JobTimes
    OBVIOUS
  <2>1. run[n] # NoRun
    BY DEF NoRun
  <2> QED BY <2>1, KnownRunsAreReal
<1>4. Latest(times) >= TaskTime(log[i])
  <2>1. TaskTime(log[i]) \in times
    BY <1>1
  <2> HIDE DEF times
  <2> QED BY <1>3, <2>1, LatestIsOneOfThem
<1>5. clock \in Nat /\ TaskTime(log[i]) \in Nat /\ Latest(times) \in Nat
  <2>1. TaskTime(log[i]) \in times
    BY <1>1
  <2> HIDE DEF times
  <2>2. Latest(times) \in times
    BY <1>3, <2>1, LatestIsOneOfThem
  <2> QED BY <1>3, <2>1, <2>2 DEF LogOk, JobTimes
<1>6. /\ Summary(Jobs, log).failed = Cardinality(failed)
      /\ Summary(Jobs, log).state =
            IF Jobs # << >> /\ \A n \in DOMAIN Jobs : run[n].status = "OK"
            THEN "ok"
            ELSE IF failed = {} THEN "unknown"
            ELSE IF clock - Latest(times) <= DAY THEN "error" ELSE "warning"
  BY Zenon DEF Summary
<1> HIDE DEF run, failed, times
<1> QED BY <1>1, <1>2, <1>4, <1>5, <1>6, HistoryAssumption

(* A failure is not overlooked while it is among the tasks a summary looks *)
(* at: whenever both lists were answered, a job whose last run failed is   *)
(* counted, and puts the jobs in error for a day.  Nothing less will do:   *)
(* of a failure behind the window, or behind a later run of another guest  *)
(* of the job, the summary says nothing.                                   *)
FailuresAreSeen ==
    [][\A k \in DOMAIN Jobs, i \in Recent(log) :
          PublishHistory(Jobs, log) /\ LastRunFailed(k, i) =>
             /\ summary'.failed > 0
             /\ summary'.state \in {"error", "warning"}
             /\ clock - TaskTime(log[i]) <= DAY => summary'.state = "error"]_historyVars

THEOREM FailuresInTheWindowAreSeen == HistorySpec => FailuresAreSeen
<1>1. HistoryInv /\ [HistoryNext]_historyVars =>
         [\A k \in DOMAIN Jobs, i \in Recent(log) :
             PublishHistory(Jobs, log) /\ LastRunFailed(k, i) =>
                /\ summary'.failed > 0
                /\ summary'.state \in {"error", "warning"}
                /\ clock - TaskTime(log[i]) <= DAY => summary'.state = "error"]_historyVars
  BY FailureIsSummarised DEF HistoryInv, PublishHistory
<1> QED BY <1>1, HistoryInvariance, PTL DEF HistorySpec, FailuresAreSeen

(* A summary in error has a failure within 24 hours of when it was made.   *)
ErrorHasCause ==
    /\ refreshed \in Nat
    /\ summary.state = "error" =>
          \E i \in DOMAIN failures : failures[i] \in Nat /\ failures[i] >= refreshed - DAY

LEMMA RefreshKeepsCause ==
    ASSUME LogOk, NEW js \in {Jobs, << >>}, NEW ts \in {log, << >>},
           PublishHistory(js, ts)
    PROVE  ErrorHasCause'
<1>1. refreshed' = clock /\ refreshed' \in Nat
  BY DEF PublishHistory, LogOk
<1>2. ASSUME summary'.state = "error"
      PROVE  \E i \in DOMAIN failures' :
                failures'[i] \in Nat /\ failures'[i] >= refreshed' - DAY
  <2>1. PICK i \in DOMAIN ts : /\ ts[i].status = "error"
                               /\ TaskTime(ts[i]) \in Nat
                               /\ clock - TaskTime(ts[i]) <= DAY
    BY <1>2, ErrorsAreRecentFailures DEF PublishHistory
  <2>2. i \in DOMAIN failures' /\ failures'[i] = TaskTime(ts[i])
    BY <2>1 DEF PublishHistory, FailureTimes
  <2>3. failures'[i] >= refreshed' - DAY
    BY <1>1, <2>1, <2>2, HistoryAssumption DEF LogOk
  <2> QED BY <2>1, <2>2, <2>3
<1> QED BY <1>1, <1>2 DEF ErrorHasCause

(* The sensors that look for failures agree at whatever time the second is *)
(* read: the failure behind an error is among the failed tasks until its   *)
(* 24 hours end, which may be between the refresh and the reading.         *)
THEOREM ErrorsAreCounted == HistorySpec => []ErrorIsCounted
<1>1. HistoryInit => ErrorHasCause
  BY DEF HistoryInit, ErrorHasCause
<1>2. HistoryInv /\ ErrorHasCause /\ [HistoryNext]_historyVars => ErrorHasCause'
  <2> SUFFICES ASSUME LogOk, ErrorHasCause, [HistoryNext]_historyVars
               PROVE  ErrorHasCause'
    BY DEF HistoryInv
  <2>1. CASE UNCHANGED <<summary, failures, refreshed>>
    BY <2>1 DEF ErrorHasCause
  <2>2. CASE Refresh \/ Restart
    BY <2>2, RefreshKeepsCause DEF Refresh, Restart
  <2> QED BY <2>1, <2>2 DEF HistoryNext, historyVars, TaskStarts, TaskEnds,
             SaveStates, TimePasses
<1>3. HistoryInv /\ ErrorHasCause => ErrorIsCounted
  <2> SUFFICES ASSUME LogOk, ErrorHasCause, summary.state = "error"
               PROVE  \/ FailedTasks # {}
                      \/ \E i \in DOMAIN failures :
                            failures[i] \in (refreshed - DAY)..(clock - DAY - 1)
    BY DEF HistoryInv, ErrorIsCounted
  <2>1. PICK i \in DOMAIN failures : failures[i] \in Nat /\ failures[i] >= refreshed - DAY
    BY DEF ErrorHasCause
  <2>2. clock \in Nat /\ refreshed \in Nat /\ DAY \in Nat
    BY HistoryAssumption DEF LogOk, ErrorHasCause
  <2>3. CASE failures[i] >= clock - DAY
    BY <2>3 DEF FailedTasks
  <2>4. CASE failures[i] < clock - DAY
    BY <2>1, <2>2, <2>4
  <2> QED BY <2>1, <2>2, <2>3, <2>4
<1> QED BY <1>1, <1>2, <1>3, HistoryInvariance, PTL DEF HistorySpec

-----------------------------------------------------------------------------
(* PbsMaintenance.                                                         *)
ServerTasks ==
    [kind : Kinds, store : Datastores \union OtherStores, start : Nat,
     end : Nat \union {Never}, ok : BOOLEAN]

ServerOk ==
    /\ time \in Nat
    /\ jobs \in Seq(ServerTasks)
    /\ \A t \in ToSet(jobs) : t.start <= time /\ (t.end # Never => t.end <= time)
    /\ DOMAIN backups = Datastores
    /\ \A s \in Datastores :
          /\ backups[s] \in SUBSET Nat /\ IsFiniteSet(backups[s])
          /\ \A b \in backups[s] : b <= time

(* The last backups as of a time are the newest of the older ones, in the  *)
(* datastores whose snapshots are known.                                   *)
LastIsNewest(last, known, at) ==
    /\ at \in Nat /\ at <= time
    /\ \A s \in Datastores :
          /\ last[s] \in Nat \union {Never}
          /\ s \in known =>
                \A b \in backups[s] : b < at => last[s] # Never /\ b <= last[s]

(* A published task is one of the server, which may have ended since ...   *)
ShownAreReal ==
    /\ published.tasks \in Seq(ServerTasks)
    /\ published.tasksAt \in Nat /\ published.tasksAt <= time
    /\ \A t \in ToSet(published.tasks) :
          /\ t.end # Never => t \in ToSet(jobs) /\ t.end <= published.tasksAt
          /\ t.end = Never =>
                \E u \in ToSet(jobs) :
                    /\ u.kind = t.kind /\ u.start <= published.tasksAt
                    /\ u.end = Never \/ u.end >= published.tasksAt

(* ... and what ended, or began, before the tasks were fetched is shown.   *)
RealAreShown ==
    \A t \in ToSet(jobs) :
        /\ t.end # Never /\ t.end < published.tasksAt => t \in ToSet(published.tasks)
        /\ t.start < published.tasksAt =>
              \E u \in ToSet(published.tasks) : u.store = t.store

MaintenanceInv ==
    /\ ServerOk
    /\ LastIsNewest(published.lastBackup, published.known, published.storesAt)
    /\ fetched # Never => LastIsNewest(fetched.lastBackup, fetched.known, fetched.at)
    /\ ShownAreReal /\ RealAreShown

(* The last backups as they are read are the newest there are.             *)
LEMMA LastBackupsAreNewest ==
    ASSUME ServerOk
    PROVE  LastIsNewest(LastBackups, Datastores, time)
<1> SUFFICES ASSUME NEW s \in Datastores
             PROVE  /\ LastBackups[s] \in Nat \union {Never}
                    /\ \A b \in backups[s] : LastBackups[s] # Never /\ b <= LastBackups[s]
  BY DEF ServerOk, LastIsNewest
<1>1. CASE backups[s] = {}
  BY <1>1 DEF LastBackups
<1>2. CASE backups[s] # {}
  <2>1. backups[s] \subseteq Int /\ backups[s] \subseteq Nat /\ IsFiniteSet(backups[s])
    BY DEF ServerOk
  <2>2. \E t \in backups[s] : \A u \in backups[s] : t >= u
    BY <1>2, <2>1, GreatestExists
  <2>3. NewestOf(backups[s]) \in backups[s] /\ \A u \in backups[s] : NewestOf(backups[s]) >= u
    BY <2>2 DEF NewestOf
  <2>4. LastBackups[s] = NewestOf(backups[s])
    BY <1>2 DEF LastBackups
  <2> QED BY <2>1, <2>3, <2>4, MaintenanceAssumption
<1> QED BY <1>1, <1>2

(* The task a sensor goes by is one of its kind and datastore, in whatever *)
(* case that is written, and no other of them ended later.                 *)
LEMMA NewestEndedIsNewest ==
    ASSUME ShownAreReal, NEW kind, NEW store, NewestEnded(kind, store) # Never
    PROVE  LET t == NewestEnded(kind, store)
           IN  /\ t \in ToSet(published.tasks)
               /\ t.kind = kind /\ <<t.store, store>> \in SameButCase
               /\ \A u \in ToSet(published.tasks) :
                     u.kind = kind /\ <<u.store, store>> \in SameButCase =>
                        EndTime(u) <= EndTime(t)
<1> DEFINE ts == published.tasks
           its == TasksFor(kind, store)
           end(i) == EndTime(ts[i])
           last == {i \in its : \A j \in its : end(i) >= end(j)}
           chosen == CHOOSE i \in last : \A j \in last : i <= j
<1>1. its # {} /\ NewestEnded(kind, store) = ts[chosen]
  BY DEF NewestEnded
<1>2. its \subseteq DOMAIN ts /\ its \subseteq Int /\ IsFiniteSet(its)
  <2>1. its \subseteq DOMAIN ts
    BY DEF TasksFor
  <2> QED BY <2>1, PlacesAreFinite DEF ShownAreReal
<1>3. \A i \in its : end(i) \in Nat /\ end(i) <= published.tasksAt
  <2> SUFFICES ASSUME NEW i \in its
               PROVE  end(i) \in Nat /\ end(i) <= published.tasksAt
    OBVIOUS
  <2>1. ts[i] \in ServerTasks /\ ts[i] \in ToSet(ts)
    BY <1>2 DEF ShownAreReal, ToSet
  <2>2. ts[i].end \in Nat \union {Never}
    BY <2>1 DEF ServerTasks
  <2> QED BY <2>1, <2>2 DEF EndTime, ShownAreReal
<1>4. last # {}
  <2> DEFINE ends == {end(i) : i \in its}
  <2>1. ends \subseteq Int /\ IsFiniteSet(ends) /\ ends # {}
    <3>1. ends \in SUBSET Nat /\ ends # {} /\ \A e \in ends : e <= published.tasksAt
      BY <1>1, <1>3
    <3>2. IsFiniteSet(ends)
      <4> HIDE DEF ends
      <4> QED BY <3>1, FS_BoundedSetOfNaturals DEF ShownAreReal
    <3>3. ends \subseteq Int
      BY <3>1
    <3> QED BY <3>1, <3>2, <3>3
  <2>2. PICK e \in ends : \A f \in ends : e >= f
    <3> HIDE DEF ends
    <3> QED BY <2>1, GreatestExists
  <2> QED BY <2>2
<1>5. chosen \in last
  <2>1. last \subseteq Int /\ IsFiniteSet(last)
    BY <1>2, FS_Subset
  <2>2. \E i \in last : \A j \in last : i <= j
    <3> HIDE DEF last
    <3> QED BY <1>4, <2>1, LeastExists
  <2> HIDE DEF last
  <2> QED BY <2>2
<1>6. chosen \in its /\ \A j \in its : end(chosen) >= end(j)
  BY <1>5
<1> HIDE DEF chosen
<1>7. /\ ts[chosen] \in ToSet(ts)
      /\ ts[chosen].kind = kind /\ <<ts[chosen].store, store>> \in SameButCase
      /\ kind \in NamedKinds
  BY <1>6 DEF TasksFor, ToSet
<1>8. ASSUME NEW u \in ToSet(ts), u.kind = kind, <<u.store, store>> \in SameButCase
      PROVE  EndTime(u) <= EndTime(ts[chosen])
  <2>1. PICK j \in DOMAIN ts : u = ts[j]
    BY DEF ToSet
  <2>2. j \in its
    BY <1>7, <1>8, <2>1 DEF TasksFor
  <2> QED BY <1>3, <1>6, <2>1, <2>2
<1> QED BY <1>1, <1>7, <1>8

(* A datastore is shown as idle only if no published task is one of it.    *)
LEMMA IdleHasNoTask ==
    ASSUME ShownAreReal, NEW store \in Datastores, LastAction(store) = "Idle"
    PROVE  \A t \in ToSet(published.tasks) : t.store # store
<1> DEFINE ts == published.tasks
           its == {i \in DOMAIN ts : <<ts[i].store, store>> \in BeginsWith}
           first == CHOOSE i \in its : \A j \in its : i <= j
<1>1. ASSUME its # {} PROVE FALSE
  <2>1. its \subseteq Int /\ IsFiniteSet(its)
    <3>1. its \in SUBSET DOMAIN ts
      OBVIOUS
    <3> HIDE DEF its
    <3> QED BY <3>1, PlacesAreFinite DEF ShownAreReal
  <2>2. \E i \in its : \A j \in its : i <= j
    <3> HIDE DEF its
    <3> QED BY <1>1, <2>1, LeastExists
  <2>3. first \in its
    <3> HIDE DEF its
    <3> QED BY <2>2
  <2>4. LastAction(store) = ts[first].kind
    BY <1>1 DEF LastAction
  <2> HIDE DEF first
  <2>5. ts[first].kind \in Kinds
    <3>1. first \in DOMAIN ts
      BY <2>3
    <3>2. ts[first] \in ServerTasks
      BY <3>1 DEF ShownAreReal
    <3> QED BY <3>2 DEF ServerTasks
  <2> QED BY <2>4, <2>5 DEF Kinds
<1> QED BY <1>1, MaintenanceAssumption DEF ToSet

(* The invariant says that what the sensors show is true.                  *)
LEMMA MaintenanceInvImplies ==
    MaintenanceInv => MaintenanceIsTrue
<1> SUFFICES ASSUME MaintenanceInv PROVE MaintenanceIsTrue
  OBVIOUS
<1> USE DEF MaintenanceInv
<1>1. ASSUME NEW kind, NEW s, NewestEnded(kind, s) # Never,
             NewestEnded(kind, s).end # Never
      PROVE  LET t == NewestEnded(kind, s)
             IN  t \in Ended(kind, s, published.tasksAt) /\ t.end \in Nat
  <2> DEFINE t == NewestEnded(kind, s)
  <2>1. t \in ToSet(published.tasks) /\ t.kind = kind /\ <<t.store, s>> \in SameButCase
    BY <1>1, NewestEndedIsNewest
  <2>2. t \in ToSet(jobs) /\ t.end <= published.tasksAt
    BY <1>1, <2>1 DEF ShownAreReal
  <2>3. t \in ServerTasks
    BY <2>2 DEF ServerOk, ToSet
  <2>4. t.end \in Nat
    BY <1>1, <2>3 DEF ServerTasks
  <2> QED BY <1>1, <2>1, <2>2, <2>4 DEF Ended
<1>2. VerifyOkIsFresh
  <2> SUFFICES ASSUME NEW s \in Datastores, VerifyStatus(s) = "OK"
               PROVE  \E t \in Ended("verify", s, published.tasksAt) :
                         s \in published.known =>
                            \A b \in backups[s] : b < published.storesAt => b <= t.end
    BY DEF VerifyOkIsFresh
  <2> DEFINE t == NewestEnded("verify", s)
             last == published.lastBackup[s]
  <2>1. t # Never /\ t.end # Never /\ ~(last # Never /\ t.end < last)
    BY DEF VerifyStatus
  <2>2. t \in Ended("verify", s, published.tasksAt) /\ t.end \in Nat
    BY <1>1, <2>1
  <2>3. ASSUME s \in published.known, NEW b \in backups[s], b < published.storesAt
        PROVE  b <= t.end
    <3>1. last \in Nat \union {Never} /\ last # Never /\ b <= last /\ b \in Nat
      BY <2>3 DEF LastIsNewest, ServerOk
    <3> HIDE DEF t
    <3> QED BY <2>1, <2>2, <3>1
  <2> QED BY <2>2, <2>3
<1>3. PruneIsTheLatest
  <2> SUFFICES ASSUME NEW s \in Datastores, PruneStatus(s) \in {"OK", "Error"}
               PROVE  \E t \in Ended("prune", s, published.tasksAt) :
                         /\ t.ok = (PruneStatus(s) = "OK")
                         /\ \A u \in Ended("prune", s, published.tasksAt - 1) :
                               u.end <= t.end
    BY DEF PruneIsTheLatest
  <2> DEFINE t == NewestEnded("prune", s)
  <2>1. t # Never /\ t.end # Never /\ PruneStatus(s) = IF t.ok THEN "OK" ELSE "Error"
    BY DEF PruneStatus
  <2>2. t \in Ended("prune", s, published.tasksAt) /\ t.end \in Nat
    BY <1>1, <2>1
  <2>3. t.ok = (PruneStatus(s) = "OK")
    <3>1. t.ok \in BOOLEAN
      <4>1. t \in ServerTasks
        BY <2>2 DEF Ended, ToSet, ServerOk
      <4> QED BY <4>1 DEF ServerTasks
    <3> HIDE DEF t
    <3> QED BY <2>1, <3>1
  <2>4. ASSUME NEW u \in Ended("prune", s, published.tasksAt - 1)
        PROVE  u.end <= t.end
    <3>1. /\ u \in ToSet(jobs) /\ u.kind = "prune" /\ <<u.store, s>> \in SameButCase
          /\ u.end # Never /\ u.end <= published.tasksAt - 1
      BY DEF Ended
    <3>2. u.end \in Nat
      <4>1. u \in ServerTasks
        BY <3>1 DEF ToSet, ServerOk
      <4> QED BY <3>1, <4>1 DEF ServerTasks
    <3>3. u.end < published.tasksAt
      BY <3>1, <3>2 DEF ShownAreReal
    <3>4. u \in ToSet(published.tasks)
      BY <3>1, <3>3 DEF RealAreShown
    <3>5. EndTime(u) <= EndTime(t)
      BY <2>1, <3>1, <3>4, NewestEndedIsNewest
    <3> HIDE DEF t
    <3> QED BY <2>1, <3>1, <3>5 DEF EndTime
  <2> QED BY <2>2, <2>3, <2>4
<1>4. ActionsAreReal
  <2>1. ASSUME GcRunning
        PROVE  \E t \in ToSet(jobs) :
                  /\ t.kind = "garbage_collection" /\ t.start <= published.tasksAt
                  /\ t.end = Never \/ t.end >= published.tasksAt
    <3>1. Head(published.tasks) \in ToSet(published.tasks)
      BY <2>1 DEF GcRunning, ShownAreReal, ToSet
    <3> QED BY <2>1, <3>1 DEF GcRunning, ShownAreReal
  <2>2. ASSUME NEW s \in Datastores, LastAction(s) = "Idle",
               NEW t \in ToSet(jobs), t.store = s
        PROVE  t.start >= published.tasksAt
    <3>1. ~(t.start < published.tasksAt)
      BY <2>2, IdleHasNoTask DEF RealAreShown
    <3>2. t.start \in Nat
      <4>1. t \in ServerTasks
        BY DEF ToSet, ServerOk
      <4> QED BY <4>1 DEF ServerTasks
    <3> QED BY <3>1, <3>2 DEF ShownAreReal
  <2> QED BY <2>1, <2>2 DEF ActionsAreReal
<1> QED BY <1>2, <1>3, <1>4 DEF MaintenanceIsTrue

(* What is published stays true while a task of the server starts ...      *)
LEMMA StartKeepsInv ==
    ASSUME MaintenanceInv, StartJob
    PROVE  MaintenanceInv'
<1> USE DEF MaintenanceInv
<1>1. PICK kind \in Kinds, s \in Datastores \union OtherStores :
         jobs' = <<Started(kind, s)>> \o jobs
  BY DEF StartJob
<1> DEFINE new == Started(kind, s)
<1>2. UNCHANGED <<time, backups, fetched, published>>
  BY DEF StartJob
<1>3. new \in ServerTasks /\ new.start = time /\ new.end = Never /\ new.store = s
  BY DEF Started, ServerTasks, ServerOk
<1>4. jobs' \in Seq(ServerTasks) /\ ToSet(jobs') = {new} \union ToSet(jobs)
  <2>1. /\ jobs' \in Seq(ServerTasks) /\ Len(jobs') = Len(jobs) + 1
        /\ jobs'[1] = new /\ \A i \in 1..Len(jobs) : jobs'[i + 1] = jobs[i]
    BY <1>1, <1>3 DEF ServerOk
  <2> HIDE DEF new
  <2>2. ASSUME NEW i \in DOMAIN jobs' PROVE jobs'[i] = new \/ jobs'[i] \in ToSet(jobs)
    <3>1. Len(jobs) \in Nat /\ DOMAIN jobs = 1..Len(jobs) /\ DOMAIN jobs' = 1..Len(jobs')
      BY <2>1 DEF ServerOk
    <3>2. i = 1 \/ (i - 1 \in 1..Len(jobs) /\ (i - 1) + 1 = i)
      BY <2>1, <2>2, <3>1
    <3>3. i = 1 \/ (i - 1 \in DOMAIN jobs /\ jobs'[i] = jobs[i - 1])
      BY <2>1, <3>1, <3>2
    <3> QED BY <2>1, <3>3 DEF ToSet
  <2>3. ASSUME NEW i \in DOMAIN jobs PROVE jobs[i] \in ToSet(jobs')
    <3>1. i + 1 \in DOMAIN jobs' /\ jobs'[i + 1] = jobs[i]
      BY <2>1, <2>3 DEF ServerOk
    <3> QED BY <3>1 DEF ToSet
  <2>4. new \in ToSet(jobs')
    <3>1. 1 \in DOMAIN jobs'
      BY <2>1 DEF ServerOk
    <3> QED BY <2>1, <3>1 DEF ToSet
  <2> QED BY <2>1, <2>2, <2>3, <2>4 DEF ToSet
<1> HIDE DEF new
<1>5. ServerOk'
  BY <1>2, <1>3, <1>4 DEF ServerOk
<1>6. ShownAreReal' /\ RealAreShown'
  <2>1. ToSet(published.tasks)' = ToSet(published.tasks)
    BY <1>2
  <2>2. ~(new.start < published.tasksAt)
    BY <1>3 DEF ShownAreReal, ServerOk
  <2> QED BY <1>2, <1>3, <1>4, <2>1, <2>2 DEF ShownAreReal, RealAreShown
<1> QED BY <1>2, <1>5, <1>6 DEF LastIsNewest

(* ... or ends.                                                            *)
LEMMA EndKeepsInv ==
    ASSUME MaintenanceInv, EndJob
    PROVE  MaintenanceInv'
<1> USE DEF MaintenanceInv
<1>1. PICK i \in DOMAIN jobs, ok \in BOOLEAN :
         /\ jobs[i].end = Never
         /\ jobs' = [jobs EXCEPT ![i].end = time, ![i].ok = ok]
  BY DEF EndJob
<1>2. UNCHANGED <<time, backups, fetched, published>>
  BY DEF EndJob
<1>3. jobs \in Seq(ServerTasks) /\ jobs[i] \in ServerTasks /\ time \in Nat
  BY DEF ServerOk
<1> DEFINE old == jobs[i]
           new == jobs'[i]
<1>4. /\ DOMAIN jobs' = DOMAIN jobs
      /\ \A j \in DOMAIN jobs \ {i} : jobs'[j] = jobs[j]
      /\ new = [old EXCEPT !.end = time, !.ok = ok]
  BY <1>1, <1>3
<1>5. /\ new \in ServerTasks
      /\ new.kind = old.kind /\ new.store = old.store /\ new.start = old.start
      /\ new.end = time
  BY <1>3, <1>4 DEF ServerTasks
<1>6. jobs' \in Seq(ServerTasks)
  <2>1. jobs' = [jobs EXCEPT ![i] = new]
    BY <1>1, <1>3
  <2>2. i \in 1..Len(jobs)
    BY <1>3
  <2> QED BY <1>3, <1>5, <2>1, <2>2, ExceptSeq
<1>7. /\ \A t \in ToSet(jobs') : t = new \/ t \in ToSet(jobs)
      /\ \A t \in ToSet(jobs) : t = old \/ t \in ToSet(jobs')
      /\ old \in ToSet(jobs) /\ new \in ToSet(jobs')
  BY <1>4 DEF ToSet
<1>8. time # Never /\ new.end # Never /\ old.end = Never
  BY <1>1, <1>3, <1>5, MaintenanceAssumption
<1> HIDE DEF old, new
<1>9. ServerOk'
  BY <1>2, <1>3, <1>5, <1>6, <1>7 DEF ServerOk
<1>10. published.tasksAt \in Nat /\ published.tasksAt <= time
  BY DEF ShownAreReal
<1>11. ShownAreReal'
  <2>1. ASSUME NEW t \in ToSet(published.tasks), t.end # Never
        PROVE  t \in ToSet(jobs') /\ t.end <= published.tasksAt
    BY <1>7, <1>8, <2>1 DEF ShownAreReal
  <2>2. ASSUME NEW t \in ToSet(published.tasks), t.end = Never
        PROVE  \E u \in ToSet(jobs') :
                   /\ u.kind = t.kind /\ u.start <= published.tasksAt
                   /\ u.end = Never \/ u.end >= published.tasksAt
    <3>1. PICK u \in ToSet(jobs) : /\ u.kind = t.kind /\ u.start <= published.tasksAt
                                   /\ u.end = Never \/ u.end >= published.tasksAt
      BY <2>2 DEF ShownAreReal
    <3>2. CASE u = old
      BY <1>3, <1>5, <1>7, <1>10, <3>1, <3>2
    <3>3. CASE u # old
      BY <1>7, <3>1, <3>3
    <3> QED BY <3>2, <3>3
  <2> QED BY <1>2, <2>1, <2>2 DEF ShownAreReal
<1>12. RealAreShown'
  <2>1. \A t \in ToSet(jobs') :
           /\ t.end # Never /\ t.end < published.tasksAt => t \in ToSet(published.tasks)
           /\ t.start < published.tasksAt =>
                 \E u \in ToSet(published.tasks) : u.store = t.store
    <3> SUFFICES ASSUME NEW t \in ToSet(jobs')
                 PROVE  <2>1!(t)
      OBVIOUS
    <3>1. CASE t = new
      <4>1. ~(t.end < published.tasksAt)
        BY <1>3, <1>5, <1>10, <3>1
      <4>2. t.start < published.tasksAt =>
               \E u \in ToSet(published.tasks) : u.store = t.store
        BY <1>5, <1>7, <3>1 DEF RealAreShown
      <4> QED BY <4>1, <4>2
    <3>2. CASE t # new
      BY <1>7, <3>2 DEF RealAreShown
    <3> QED BY <3>1, <3>2
  <2> QED BY <1>2, <2>1 DEF RealAreShown
<1> QED BY <1>2, <1>9, <1>11, <1>12 DEF LastIsNewest

(* MaintenanceInv holds in every behaviour.                                *)
THEOREM MaintenanceInvariance == MaintenanceSpec => []MaintenanceInv
<1>1. MaintenanceInit => MaintenanceInv
  <2> SUFFICES ASSUME MaintenanceInit PROVE MaintenanceInv
    OBVIOUS
  <2>1. ToSet(<< >>) = {} /\ << >> \in Seq(ServerTasks) /\ IsFiniteSet({})
    BY FS_EmptySet DEF ToSet
  <2>2. ServerOk
    BY <2>1 DEF MaintenanceInit, ServerOk
  <2>3. LastIsNewest(published.lastBackup, published.known, published.storesAt)
    BY DEF MaintenanceInit, LastIsNewest
  <2>4. ShownAreReal /\ RealAreShown
    BY <2>1 DEF MaintenanceInit, ShownAreReal, RealAreShown
  <2> QED BY <2>2, <2>3, <2>4 DEF MaintenanceInv, MaintenanceInit
<1>2. ASSUME MaintenanceInv, [MaintenanceNext]_maintenanceVars
      PROVE  MaintenanceInv'
  <2> USE DEF MaintenanceInv
  <2>1. ASSUME NEW s \in Datastores, TakeBackup(s)
        PROVE  MaintenanceInv'
    <3>1. /\ backups' = [backups EXCEPT ![s] = @ \union {time}]
          /\ UNCHANGED <<time, jobs, fetched, published>>
      BY <2>1 DEF TakeBackup
    <3>2. \A e \in Datastores :
             /\ backups'[e] \in SUBSET Nat /\ IsFiniteSet(backups'[e])
             /\ \A b \in backups'[e] : b = time \/ b \in backups[e]
      <4> SUFFICES ASSUME NEW e \in Datastores
                   PROVE  <3>2!(e)
        OBVIOUS
      <4>1. backups[e] \in SUBSET Nat /\ IsFiniteSet(backups[e])
        BY <1>2 DEF ServerOk
      <4>2. IsFiniteSet(backups[e] \union {time}) /\ time \in Nat
        BY <1>2, <4>1, FS_AddElement DEF ServerOk
      <4>3. backups'[e] = backups[e] \/ backups'[e] = backups[e] \union {time}
        BY <1>2, <3>1 DEF ServerOk
      <4> QED BY <4>1, <4>2, <4>3
    <3>3. ServerOk'
      <4>1. \A e \in Datastores : \A b \in backups'[e] : b <= time
        BY <1>2, <3>2 DEF ServerOk
      <4>2. DOMAIN backups' = Datastores
        BY <1>2, <3>1 DEF ServerOk
      <4> QED BY <1>2, <3>1, <3>2, <4>1, <4>2 DEF ServerOk
    <3>4. ASSUME NEW last, NEW known, NEW at, LastIsNewest(last, known, at)
          PROVE  \A e \in Datastores : e \in known =>
                    \A b \in backups'[e] : b < at => last[e] # Never /\ b <= last[e]
      BY <3>2, <3>4 DEF LastIsNewest, ServerOk
    <3> QED BY <1>2, <3>1, <3>3, <3>4 DEF LastIsNewest, ShownAreReal, RealAreShown
  <2>2. CASE StartJob
    BY <1>2, <2>2, StartKeepsInv
  <2>3. CASE EndJob
    BY <1>2, <2>3, EndKeepsInv
  <2>4. CASE FetchStores
    <3>1. /\ UNCHANGED <<time, jobs, backups, published>>
          /\ \E answered \in SUBSET Datastores :
                fetched' = [lastBackup |->
                               [s \in Datastores |->
                                   IF s \in answered THEN LastBackups[s] ELSE Never],
                            known |-> answered, at |-> time]
      BY <2>4 DEF FetchStores
    <3>2. LastIsNewest(LastBackups, Datastores, time)
      BY <1>2, LastBackupsAreNewest
    <3>3. LastIsNewest(fetched'.lastBackup, fetched'.known, fetched'.at)
      BY <3>1, <3>2 DEF LastIsNewest
    <3> QED BY <1>2, <3>1, <3>3 DEF ServerOk, LastIsNewest, ShownAreReal, RealAreShown
  <2>5. CASE FetchTasks
    <3>1. PICK answered \in BOOLEAN :
             published' = [lastBackup |-> fetched.lastBackup,
                           known |-> fetched.known, storesAt |-> fetched.at,
                           tasks |-> IF answered THEN jobs ELSE << >>,
                           tasksAt |-> IF answered THEN time ELSE 0]
      BY <2>5 DEF FetchTasks
    <3>2. fetched # Never /\ fetched' = Never /\ UNCHANGED <<time, jobs, backups>>
      BY <2>5 DEF FetchTasks
    <3>3. ServerOk' /\ LastIsNewest(fetched.lastBackup, fetched.known, fetched.at)
      BY <1>2, <3>2 DEF ServerOk
    <3>4. LastIsNewest(published.lastBackup, published.known, published.storesAt)'
      BY <3>1, <3>2, <3>3 DEF LastIsNewest
    <3>5. CASE answered
      <4>1. published'.tasks = jobs /\ published'.tasksAt = time
        BY <3>1, <3>5
      <4>2. \A t \in ToSet(jobs) : t \in ServerTasks
        BY <1>2 DEF ServerOk, ToSet
      <4>3. ShownAreReal' /\ RealAreShown'
        BY <1>2, <3>2, <4>1, <4>2 DEF ServerOk, ShownAreReal, RealAreShown
      <4> QED BY <3>2, <3>3, <3>4, <4>3
    <3>6. CASE ~answered
      <4>1. published'.tasks = << >> /\ published'.tasksAt = 0
        BY <3>1, <3>6
      <4>2. ToSet(<< >>) = {} /\ << >> \in Seq(ServerTasks)
        BY DEF ToSet
      <4>3. \A t \in ToSet(jobs) : t.start \in Nat /\ (t.end # Never => t.end \in Nat)
        <5>1. \A t \in ToSet(jobs) : t \in ServerTasks
          BY <1>2 DEF ServerOk, ToSet
        <5> QED BY <5>1 DEF ServerTasks
      <4>4. ShownAreReal'
        BY <1>2, <3>2, <4>1, <4>2 DEF ServerOk, ShownAreReal
      <4>5. RealAreShown'
        <5>1. \A t \in ToSet(jobs) : ~(t.start < 0) /\ ~(t.end # Never /\ t.end < 0)
          BY <4>3
        <5> QED BY <3>2, <4>1, <4>2, <5>1 DEF RealAreShown
      <4> QED BY <3>2, <3>3, <3>4, <4>4, <4>5
    <3> QED BY <3>5, <3>6
  <2>6. CASE FetchBreaks
    BY <1>2, <2>6 DEF FetchBreaks, ServerOk, LastIsNewest, ShownAreReal, RealAreShown
  <2>7. CASE ServerTime
    <3>1. time' = time + 1 /\ UNCHANGED <<jobs, backups, fetched, published>>
      BY <2>7 DEF ServerTime
    <3>2. \A t \in ToSet(jobs) : t.start \in Nat /\ (t.end # Never => t.end \in Nat)
      <4>1. \A t \in ToSet(jobs) : t \in ServerTasks
        BY <1>2 DEF ServerOk, ToSet
      <4> QED BY <4>1 DEF ServerTasks
    <3>3. ServerOk'
      <4>1. \A t \in ToSet(jobs) : t.start <= time + 1 /\ (t.end # Never => t.end <= time + 1)
        BY <1>2, <3>2 DEF ServerOk
      <4>2. \A s \in Datastores : \A b \in backups[s] : b <= time + 1
        BY <1>2 DEF ServerOk
      <4> QED BY <1>2, <3>1, <4>1, <4>2 DEF ServerOk
    <3> QED BY <1>2, <3>1, <3>3 DEF ServerOk, LastIsNewest, ShownAreReal, RealAreShown
  <2>8. CASE UNCHANGED maintenanceVars
    BY <1>2, <2>8 DEF maintenanceVars, ServerOk, LastIsNewest, ShownAreReal, RealAreShown
  <2> QED BY <1>2, <2>1, <2>2, <2>3, <2>4, <2>5, <2>6, <2>7, <2>8 DEF MaintenanceNext
<1> QED BY <1>1, <1>2, PTL DEF MaintenanceSpec

(* What the maintenance sensors of a PBS entry say is true, for any tasks  *)
(* and backups: what they go by is the server's, each list as of its own   *)
(* time, and of several tasks they take the one that counts.               *)
THEOREM MaintenanceTruth == MaintenanceSpec => []MaintenanceIsTrue
BY MaintenanceInvariance, MaintenanceInvImplies, PTL

-----------------------------------------------------------------------------
(* SmartData.                                                              *)
Amount == Nat \union {NoValue}

DiskStates ==
    [failing : BOOLEAN, temp : Nat, reallocated : Nat, events : Amount,
     pending : Nat, uncorrectable : Nat, media : Nat]

DisksOk ==
    /\ Len(rack) \in Nat /\ DOMAIN rack = 1..Len(rack)
    /\ disk \in [DiskNumbers -> DiskStates]
    /\ DOMAIN shown = DiskNumbers

(* What makes a disk look other than healthy.                              *)
Cause(e) == rack[e].kind = "mute" \/ disk[e].failing \/ Worn(disk[e])

(* Worse in every respect that its hardware tells.                         *)
Worse(h, k) ==
    /\ h.failing => k.failing
    /\ h.reallocated <= k.reallocated /\ h.pending <= k.pending
    /\ h.uncorrectable <= k.uncorrectable /\ h.media <= k.media
    /\ IF h.events = NoValue THEN k.events = NoValue
       ELSE k.events # NoValue /\ h.events <= k.events

(* The score of a disk as it is now, at the temperature it had when it was *)
(* read, is no better than the score shown.                                *)
WearShows ==
    \A d \in DiskNumbers :
        shown[d].full /\ shown[d].source = d =>
            /\ shown[d].temp \in Nat /\ shown[d].score \in Nat
            /\ HealthScore([FullRecord(d) EXCEPT !.temp = shown[d].temp]) <= shown[d].score

SmartInv == DisksOk /\ AlarmsHaveCause /\ WearShows

(* The hardware only gets worse, but for its temperature.                  *)
LEMMA DisksGetWorse ==
    ASSUME DisksOk, NEW d \in DiskNumbers, Wear(d) \/ Warm(d)
    PROVE  /\ disk' \in [DiskNumbers -> DiskStates] /\ rack' = rack /\ shown' = shown
           /\ \A e \in DiskNumbers : Worse(disk[e], disk'[e])
<1> DEFINE old == disk[d]
           new == disk'[d]
<1>1. old \in DiskStates /\ rack' = rack /\ shown' = shown
  BY DEF DisksOk, Wear, Warm
<1>2. /\ disk' = [e \in DiskNumbers |-> disk'[e]]
      /\ \A e \in DiskNumbers \ {d} : disk'[e] = disk[e]
  BY DEF DisksOk, Wear, Warm
<1>3. \A h \in DiskStates : Worse(h, h)
  BY SmartAssumption DEF DiskStates, Amount, Worse
<1>4. new \in DiskStates /\ Worse(old, new)
  <2>1. ASSUME NEW c \in Counters(d), NEW n \in Counts, n > disk[d][c],
               disk' = [disk EXCEPT ![d][c] = n]
        PROVE  <1>4!:
    <3>1. n \in Nat /\ n # NoValue
      BY SmartAssumption
    <3>2. new = [old EXCEPT ![c] = n]
      BY <2>1 DEF DisksOk
    <3>3. /\ c \in {"reallocated", "pending", "uncorrectable", "events", "media"}
          /\ c = "events" => old.events # NoValue
      BY DEF Counters
    <3> HIDE DEF new
    <3>4. CASE c = "reallocated"
      BY <1>1, <1>3, <2>1, <3>1, <3>2, <3>4 DEF DiskStates, Worse
    <3>5. CASE c = "pending"
      BY <1>1, <1>3, <2>1, <3>1, <3>2, <3>5 DEF DiskStates, Worse
    <3>6. CASE c = "uncorrectable"
      BY <1>1, <1>3, <2>1, <3>1, <3>2, <3>6 DEF DiskStates, Worse
    <3>7. CASE c = "events"
      <4>1. old.events \in Nat /\ n > old.events /\ n \in Amount
        BY <1>1, <2>1, <3>1, <3>3, <3>7 DEF DiskStates, Amount
      <4>2. new = [old EXCEPT !.events = n]
        BY <3>2, <3>7
      <4>3. new \in DiskStates
        BY <1>1, <4>1, <4>2 DEF DiskStates
      <4>4. new.events = n
        BY <1>1, <4>2 DEF DiskStates
      <4>5. Worse(old, new)
        BY <1>1, <1>3, <3>1, <3>3, <3>7, <4>1, <4>2, <4>4 DEF DiskStates, Worse
      <4> QED BY <4>3, <4>5
    <3>8. CASE c = "media"
      BY <1>1, <1>3, <2>1, <3>1, <3>2, <3>8 DEF DiskStates, Worse
    <3> QED BY <3>3, <3>4, <3>5, <3>6, <3>7, <3>8
  <2>2. ASSUME disk' = [disk EXCEPT ![d].failing = TRUE]
        PROVE  <1>4!:
    BY <1>1, <1>3, <2>2 DEF DisksOk, DiskStates, Worse
  <2>3. ASSUME NEW t \in Temps, disk' = [disk EXCEPT ![d].temp = t]
        PROVE  <1>4!:
    BY <1>1, <1>3, <2>3, SmartAssumption DEF DisksOk, DiskStates, Worse
  <2> QED BY <2>1, <2>2, <2>3 DEF Wear, Warm
<1>5. disk' \in [DiskNumbers -> DiskStates]
  BY <1>2, <1>4 DEF DisksOk
<1>6. \A e \in DiskNumbers : Worse(disk[e], disk'[e])
  BY <1>2, <1>3, <1>4 DEF DisksOk
<1> QED BY <1>1, <1>5, <1>6

(* A disk that got worse, or warmer, still is what made it look bad.       *)
LEMMA CausesStay ==
    ASSUME DisksOk, NEW d \in DiskNumbers, Wear(d) \/ Warm(d)
    PROVE  \A e \in DiskNumbers : Cause(e) => Cause(e)'
<1> SUFFICES ASSUME NEW e \in DiskNumbers, Cause(e) PROVE Cause(e)'
  OBVIOUS
<1>1. /\ disk[e] \in DiskStates /\ disk'[e] \in DiskStates /\ rack' = rack
      /\ Worse(disk[e], disk'[e])
  BY DisksGetWorse DEF DisksOk
<1>2. disk[e].failing => disk'[e].failing
  BY <1>1 DEF Worse
<1>3. Worn(disk[e]) => Worn(disk'[e])
  BY <1>1, SmartAssumption DEF Worse, Worn, DiskStates, Amount
<1> QED BY <1>1, <1>2, <1>3 DEF Cause

(* Only a full record, of the disk itself or of one of its model, shows    *)
(* anything but a healthy disk, and only one with a cause.                 *)
LEMMA FullRecordsHaveCause ==
    ASSUME DisksOk, NEW e \in DiskNumbers, NEW r \in Reads(e),
           HealthStatus(r) # "HEALTHY"
    PROVE  r = FullRecord(e) /\ Cause(e)
<1>1. NoValue # 0 /\ NoValue \notin Nat
  BY SmartAssumption
<1>2. ASSUME r \in {BasicRecord(e), NoRecord} PROVE FALSE
  <2>1. /\ r.passed = "absent"
        /\ r.reallocated = NoValue /\ r.pending = NoValue /\ r.uncorrectable = NoValue
    <3>1. CASE r = BasicRecord(e)
      BY <3>1 DEF BasicRecord
    <3>2. CASE r = NoRecord
      BY <3>2 DEF BasicRecord, NoRecord
    <3> QED BY <1>2, <3>1, <3>2
  <2>2. Number(NoValue) = 0
    BY DEF Number
  <2> QED BY <2>1, <2>2 DEF HealthStatus
<1>3. r = FullRecord(e)
  BY <1>2 DEF Reads
<1>4. disk[e] \in DiskStates
  BY DEF DisksOk
<1> QED BY <1>1, <1>3, <1>4
        DEF FullRecord, HealthStatus, Number, Cause, Worn, DiskStates, Amount

(* The record an entity goes by is one that was read from a disk, and has  *)
(* the serial number or the model of its own.                              *)
LEMMA FoundIsRead ==
    ASSUME DisksOk, NEW d \in DiskNumbers, NEW answer \in SmartAnswers,
           answer # Error, FindSmart(d, answer) # NoValue
    PROVE  LET r == FindSmart(d, answer)
           IN  /\ \E e \in DiskNumbers : r \in Reads(e)
               /\ r.serial = d \/ r.model = rack[d].model
<1> DEFINE bySerial == {i \in DOMAIN answer : answer[i].serial = d}
           byId == {i \in DOMAIN answer : DeviceKey(i) = DiskId(d)}
           byModel == {i \in DOMAIN answer : answer[i].model = rack[d].model}
           first(places) == CHOOSE i \in places : \A j \in places : i <= j
           found == FindSmart(d, answer)
<1>1. IsFiniteSet(DOMAIN answer) /\ DOMAIN answer \subseteq Int
  <2>1. DOMAIN answer \in {1..Len(rack), 1..1, {}}
    BY DEF SmartAnswers, Scans, DiskNumbers
  <2>2. Len(rack) \in Int /\ 1 \in Int
    BY DEF DisksOk
  <2>3. \A n \in Int : IsFiniteSet(1..n) /\ 1..n \subseteq Int
    BY FS_Interval
  <2>4. CASE DOMAIN answer = 1..Len(rack)
    BY <2>2, <2>3, <2>4
  <2>5. CASE DOMAIN answer = 1..1
    BY <2>2, <2>3, <2>5
  <2>6. CASE DOMAIN answer = {}
    BY <2>6, FS_EmptySet
  <2> QED BY <2>1, <2>4, <2>5, <2>6
<1>2. \A i \in DOMAIN answer : \E e \in DiskNumbers : answer[i] \in Reads(e)
  <2>1. CASE answer \in Scans
    BY <2>1 DEF Scans
  <2>2. CASE answer \in {<<r>> : r \in Reads(1)}
    <3>1. 1 \in DiskNumbers
      BY DEF DiskNumbers, DisksOk
    <3> QED BY <2>2, <3>1
  <2>3. CASE answer = << >>
    BY <2>3
  <2> QED BY <2>1, <2>2, <2>3 DEF SmartAnswers
<1>3. ASSUME NEW places \in SUBSET DOMAIN answer, places # {}
      PROVE  first(places) \in places
  <2>1. IsFiniteSet(places) /\ places \subseteq Int
    BY <1>1, FS_Subset
  <2>2. \E i \in places : \A j \in places : i <= j
    BY <1>3, <2>1, LeastExists
  <2> QED BY <2>2
<1>0. byId = {}
  <2>1. \A i \in DOMAIN answer : DeviceKey(i)[1] # DiskId(d)[1]
    BY DEF DeviceKey, DiskId
  <2> QED BY <2>1
<1>4. \E i \in bySerial \union byModel : found = answer[i]
  <2>1. bySerial # {} => found = answer[first(bySerial)]
    BY <1>0 DEF FindSmart
  <2>2. bySerial = {} /\ byModel # {} => found = answer[first(byModel)]
    BY <1>0 DEF FindSmart
  <2>3. bySerial = {} /\ byModel = {} => found = NoValue
    BY <1>0 DEF FindSmart
  <2>4. /\ bySerial # {} => first(bySerial) \in bySerial
        /\ byModel # {} => first(byModel) \in byModel
    <3> HIDE DEF first
    <3> QED BY <1>3
  <2> HIDE DEF bySerial, byModel, first
  <2> QED BY <2>1, <2>2, <2>3, <2>4
<1>5. PICK i \in DOMAIN answer : /\ found = answer[i]
                                 /\ answer[i].serial = d \/ answer[i].model = rack[d].model
  BY <1>4
<1>6. PICK e \in DiskNumbers : answer[i] \in Reads(e)
  BY <1>2
<1>7. FindSmart(d, answer) = answer[i]
  BY <1>5
<1> QED BY <1>5, <1>6, <1>7

(* If it shows anything but a healthy disk there is a cause.               *)
LEMMA FoundIsAlike ==
    ASSUME DisksOk, NEW d \in DiskNumbers, NEW answer \in SmartAnswers,
           answer # Error, FindSmart(d, answer) # NoValue,
           HealthStatus(FindSmart(d, answer)) # "HEALTHY"
    PROVE  \E e \in Alike(d) : Cause(e)
<1> DEFINE r == FindSmart(d, answer)
<1>1. PICK e \in DiskNumbers : r \in Reads(e) /\ (r.serial = d \/ r.model = rack[d].model)
  BY FoundIsRead
<1>2. r = FullRecord(e) /\ Cause(e)
  <2> HIDE DEF r
  <2>1. HealthStatus(r) # "HEALTHY"
    BY DEF r
  <2> QED BY <1>1, <2>1, FullRecordsHaveCause
<1>3. r.serial = e /\ r.model = rack[e].model
  BY <1>2 DEF FullRecord
<1> QED BY <1>1, <1>2, <1>3 DEF Alike

Limits == [over : Nat, costs : Nat]

(* A penalty grows with its value, if the limits begin with the highest.   *)
LEMMA PenaltyGrows ==
    ASSUME NEW limits \in Seq(Limits),
           \A i, j \in DOMAIN limits : i <= j => limits[i].costs >= limits[j].costs,
           NEW v, NEW w, Number(v) \in Nat, Number(w) \in Nat, Number(v) <= Number(w)
    PROVE  /\ Penalty(v, limits) \in Nat /\ Penalty(w, limits) \in Nat
           /\ Penalty(v, limits) <= Penalty(w, limits)
<1> DEFINE hit(value) == {i \in DOMAIN limits : Number(value) > limits[i].over}
           first(value) == CHOOSE i \in hit(value) : \A j \in hit(value) : i <= j
<1>1. \A i \in DOMAIN limits : limits[i].over \in Nat /\ limits[i].costs \in Nat
  <2> SUFFICES ASSUME NEW i \in DOMAIN limits
               PROVE  limits[i].over \in Nat /\ limits[i].costs \in Nat
    OBVIOUS
  <2>1. limits[i] \in Limits
    OBVIOUS
  <2> QED BY <2>1 DEF Limits
<1>2. ASSUME NEW value, hit(value) # {}
      PROVE  /\ first(value) \in hit(value) /\ \A j \in hit(value) : first(value) <= j
             /\ Penalty(value, limits) = limits[first(value)].costs
  <2>1. hit(value) \in SUBSET DOMAIN limits
    OBVIOUS
  <2>2. \E i \in hit(value) : \A j \in hit(value) : i <= j
    <3>1. hit(value) \subseteq Int /\ IsFiniteSet(hit(value))
      <4> HIDE DEF hit
      <4> QED BY <2>1, PlacesAreFinite
    <3> HIDE DEF hit
    <3> QED BY <1>2, <3>1, LeastExists
  <2>3. Penalty(value, limits) = limits[first(value)].costs
    BY <1>2 DEF Penalty
  <2> HIDE DEF hit
  <2> QED BY <2>2, <2>3
<1>3. \A value : hit(value) = {} => Penalty(value, limits) = 0
  BY DEF Penalty
<1>4. hit(v) \subseteq hit(w)
  BY <1>1
<1>5. \A value : hit(value) \subseteq DOMAIN limits
  OBVIOUS
<1> HIDE DEF hit, first
<1>6. CASE hit(v) = {}
  <2>1. Penalty(v, limits) = 0
    BY <1>3, <1>6
  <2>2. Penalty(w, limits) \in Nat
    BY <1>1, <1>2, <1>3, <1>5
  <2> QED BY <2>1, <2>2
<1>7. CASE hit(v) # {}
  <2>1. first(w) \in hit(w) /\ first(v) \in hit(v) /\ first(w) <= first(v)
    BY <1>2, <1>4, <1>7
  <2>2. limits[first(w)].costs >= limits[first(v)].costs
    BY <1>5, <2>1
  <2>3. /\ Penalty(v, limits) = limits[first(v)].costs
        /\ Penalty(w, limits) = limits[first(w)].costs
    BY <1>2, <1>4, <1>7
  <2> QED BY <1>1, <1>5, <2>1, <2>2, <2>3
<1> QED BY <1>6, <1>7

(* So a record that is worse in every number has no better a score.        *)
Numbers == {"reallocated", "pending", "uncorrectable", "media", "temp"}

LEMMA ScoreFalls ==
    ASSUME NEW r, NEW s, r.passed = "no" => s.passed = "no",
           \A x \in Numbers : /\ Number(r[x]) \in Nat /\ Number(s[x]) \in Nat
                             /\ Number(r[x]) <= Number(s[x])
    PROVE  HealthScore(r) \in Nat /\ HealthScore(s) \in Nat /\ HealthScore(s) <= HealthScore(r)
<1> DEFINE ofReallocated == <<Limit(100, 50), Limit(50, 30), Limit(10, 15), Limit(0, 5)>>
           ofPending == <<Limit(10, 60), Limit(0, 40)>>
           ofUncorrectable == <<Limit(0, 50)>>
           ofMedia == <<Limit(10, 30), Limit(0, 15)>>
           ofTemp == <<Limit(60, 30), Limit(50, 15)>>
           Falling(limits) == /\ limits \in Seq(Limits)
                              /\ \A i, j \in DOMAIN limits :
                                    i <= j => limits[i].costs >= limits[j].costs
           Grows(x, limits) == /\ Penalty(r[x], limits) \in Nat
                               /\ Penalty(s[x], limits) \in Nat
                               /\ Penalty(r[x], limits) <= Penalty(s[x], limits)
<1>1. ASSUME NEW x \in Numbers, NEW limits, Falling(limits)
      PROVE  Grows(x, limits)
  BY <1>1, PenaltyGrows
<1>2. /\ Falling(ofReallocated) /\ Falling(ofPending) /\ Falling(ofUncorrectable)
      /\ Falling(ofMedia) /\ Falling(ofTemp)
  BY DEF Limit, Limits
<1> HIDE DEF Falling
<1>3. Grows("reallocated", ofReallocated)
  BY <1>1, <1>2 DEF Numbers
<1>4. Grows("pending", ofPending)
  BY <1>1, <1>2 DEF Numbers
<1>5. Grows("uncorrectable", ofUncorrectable)
  BY <1>1, <1>2 DEF Numbers
<1>6. Grows("media", ofMedia)
  BY <1>1, <1>2 DEF Numbers
<1>7. Grows("temp", ofTemp)
  BY <1>1, <1>2 DEF Numbers
<1>8. /\ Penalties(r) = Penalty(r.reallocated, ofReallocated) + Penalty(r.pending, ofPending)
                        + Penalty(r.uncorrectable, ofUncorrectable)
                        + Penalty(r.media, ofMedia) + Penalty(r.temp, ofTemp)
      /\ Penalties(s) = Penalty(s.reallocated, ofReallocated) + Penalty(s.pending, ofPending)
                        + Penalty(s.uncorrectable, ofUncorrectable)
                        + Penalty(s.media, ofMedia) + Penalty(s.temp, ofTemp)
  BY DEF Penalties
<1> HIDE DEF ofReallocated, ofPending, ofUncorrectable, ofMedia, ofTemp
<1>9. Penalties(r) \in Nat /\ Penalties(s) \in Nat /\ Penalties(r) <= Penalties(s)
  BY <1>3, <1>4, <1>5, <1>6, <1>7, <1>8
<1> QED BY <1>9 DEF HealthScore

(* The numbers of a full record are natural.                               *)
LEMMA FullRecordNumbers ==
    ASSUME DisksOk, NEW d \in DiskNumbers
    PROVE  \A x \in Numbers : Number(FullRecord(d)[x]) \in Nat
<1>1. disk[d] \in DiskStates
  BY DEF DisksOk
<1> QED BY <1>1, SmartAssumption DEF FullRecord, Number, Numbers, DiskStates, Amount

(* What the entity shows of the disk itself is its full record.            *)
LEMMA OwnViewIsFull ==
    ASSUME DisksOk, NEW d \in DiskNumbers, NEW answer \in SmartAnswers, answer # Error,
           View(d, answer).full, View(d, answer).source = d
    PROVE  /\ View(d, answer).score = HealthScore(FullRecord(d))
           /\ View(d, answer).temp = disk[d].temp
<1> DEFINE r == FindSmart(d, answer)
<1>1. r # NoValue
  BY DEF View, NoView
<1>2. PICK e \in DiskNumbers : r \in Reads(e)
  BY <1>1, FoundIsRead
<1>3. /\ View(d, answer).full = (r.passed # "absent") /\ View(d, answer).source = r.serial
      /\ View(d, answer).score = HealthScore(r) /\ View(d, answer).temp = r.temp
  BY <1>1 DEF View
<1> HIDE DEF r
<1>4. r = FullRecord(e)
  <2>1. BasicRecord(e).passed = "absent" /\ NoRecord.passed = "absent"
    BY DEF BasicRecord, NoRecord
  <2> QED BY <1>2, <1>3, <2>1 DEF Reads
<1>5. e = d
  BY <1>3, <1>4 DEF FullRecord
<1> QED BY <1>3, <1>4, <1>5 DEF FullRecord

(* A disk that got worse is rated no better, at any temperature.           *)
LEMMA WearLowersScore ==
    ASSUME DisksOk, NEW d \in DiskNumbers, Wear(d) \/ Warm(d),
           NEW e \in DiskNumbers, NEW t \in Nat
    PROVE  /\ HealthScore([FullRecord(e)' EXCEPT !.temp = t])
                 <= HealthScore([FullRecord(e) EXCEPT !.temp = t])
           /\ HealthScore([FullRecord(e)' EXCEPT !.temp = t]) \in Nat
           /\ HealthScore([FullRecord(e) EXCEPT !.temp = t]) \in Nat
<1> DEFINE r == [FullRecord(e) EXCEPT !.temp = t]
           s == [FullRecord(e)' EXCEPT !.temp = t]
<1>1. /\ disk[e] \in DiskStates /\ disk'[e] \in DiskStates
      /\ Worse(disk[e], disk'[e]) /\ rack' = rack /\ t # NoValue
  BY DisksGetWorse, SmartAssumption DEF DisksOk
<1>2. r.passed = "no" => s.passed = "no"
  BY <1>1 DEF FullRecord, Worse
<1>3. \A x \in Numbers : /\ Number(r[x]) \in Nat /\ Number(s[x]) \in Nat
                        /\ Number(r[x]) <= Number(s[x])
  <2>1. /\ Number(r.temp) = t /\ Number(s.temp) = t
        /\ r.pending \in {NoValue, disk[e].pending}
        /\ r.pending = NoValue => s.pending = NoValue
        /\ r.pending # NoValue => s.pending = disk'[e].pending
        /\ r.uncorrectable \in {NoValue, disk[e].uncorrectable}
        /\ r.uncorrectable = NoValue => s.uncorrectable = NoValue
        /\ r.uncorrectable # NoValue => s.uncorrectable = disk'[e].uncorrectable
        /\ r.media \in {NoValue, disk[e].media}
        /\ r.media = NoValue => s.media = NoValue
        /\ r.media # NoValue => s.media = disk'[e].media
    BY <1>1, SmartAssumption DEF FullRecord, Number, DiskStates
  <2>2. /\ Number(r.reallocated) \in Nat /\ Number(s.reallocated) \in Nat
        /\ Number(r.reallocated) <= Number(s.reallocated)
    BY <1>1, SmartAssumption DEF FullRecord, Number, Worse, DiskStates, Amount
  <2> HIDE DEF r, s
  <2>3. /\ disk[e].pending \in Nat /\ disk'[e].pending \in Nat
        /\ disk[e].uncorrectable \in Nat /\ disk'[e].uncorrectable \in Nat
        /\ disk[e].media \in Nat /\ disk'[e].media \in Nat
        /\ disk[e].pending <= disk'[e].pending
        /\ disk[e].uncorrectable <= disk'[e].uncorrectable
        /\ disk[e].media <= disk'[e].media
    BY <1>1 DEF DiskStates, Worse
  <2>4. /\ Number(r.pending) \in Nat /\ Number(s.pending) \in Nat
        /\ Number(r.pending) <= Number(s.pending)
    BY <2>1, <2>3, SmartAssumption DEF Number
  <2>5. /\ Number(r.uncorrectable) \in Nat /\ Number(s.uncorrectable) \in Nat
        /\ Number(r.uncorrectable) <= Number(s.uncorrectable)
    BY <2>1, <2>3, SmartAssumption DEF Number
  <2>6. /\ Number(r.media) \in Nat /\ Number(s.media) \in Nat
        /\ Number(r.media) <= Number(s.media)
    BY <2>1, <2>3, SmartAssumption DEF Number
  <2> QED BY <2>1, <2>2, <2>4, <2>5, <2>6 DEF Numbers
<1> HIDE DEF r, s
<1>4. HealthScore(r) \in Nat /\ HealthScore(s) \in Nat /\ HealthScore(s) <= HealthScore(r)
  BY <1>2, <1>3, ScoreFalls
<1> QED BY <1>4 DEF r, s

(* Every step keeps SmartInv.                                              *)
LEMMA SmartStepKeeps ==
    ASSUME SmartInv, [SmartNext]_smartVars
    PROVE  SmartInv'
<1>1. CASE UNCHANGED smartVars
  BY <1>1 DEF SmartInv, DisksOk, DiskNumbers, AlarmsHaveCause, Alike, WearShows,
     FullRecord, smartVars
<1>2. ASSUME NEW d \in DiskNumbers, Wear(d) \/ Warm(d)
      PROVE  SmartInv'
  <2>1. /\ disk' \in [DiskNumbers -> DiskStates] /\ rack' = rack /\ shown' = shown
        /\ \A e \in DiskNumbers : Worse(disk[e], disk'[e]) /\ (Cause(e) => Cause(e)')
    BY <1>2, DisksGetWorse, CausesStay DEF SmartInv
  <2>2. DisksOk'
    BY <2>1 DEF SmartInv, DisksOk, DiskNumbers
  <2>3. AlarmsHaveCause'
    BY <2>1 DEF SmartInv, AlarmsHaveCause, Alike, DiskNumbers, Cause
  <2>4. ASSUME NEW e \in DiskNumbers, NEW t \in Nat
        PROVE  /\ HealthScore([FullRecord(e)' EXCEPT !.temp = t])
                     <= HealthScore([FullRecord(e) EXCEPT !.temp = t])
               /\ HealthScore([FullRecord(e)' EXCEPT !.temp = t]) \in Nat
               /\ HealthScore([FullRecord(e) EXCEPT !.temp = t]) \in Nat
    BY <1>2, WearLowersScore DEF SmartInv
  <2>5. WearShows'
    <3> SUFFICES ASSUME NEW e \in DiskNumbers, shown[e].full, shown[e].source = e
                 PROVE  /\ shown[e].temp \in Nat /\ shown[e].score \in Nat
                        /\ HealthScore([FullRecord(e)' EXCEPT !.temp = shown[e].temp])
                              <= shown[e].score
      BY <2>1 DEF WearShows, DiskNumbers
    <3>1. /\ shown[e].temp \in Nat /\ shown[e].score \in Nat
          /\ HealthScore([FullRecord(e) EXCEPT !.temp = shown[e].temp]) <= shown[e].score
      BY DEF SmartInv, WearShows
    <3> DEFINE was == HealthScore([FullRecord(e) EXCEPT !.temp = shown[e].temp])
               is == HealthScore([FullRecord(e)' EXCEPT !.temp = shown[e].temp])
    <3>2. is <= was /\ is \in Nat /\ was \in Nat
      BY <2>4, <3>1
    <3>3. was <= shown[e].score
      BY <3>1
    <3> HIDE DEF is, was
    <3>4. is <= shown[e].score
      BY <3>1, <3>2, <3>3
    <3> QED BY <3>1, <3>4 DEF is
  <2> QED BY <2>2, <2>3, <2>5 DEF SmartInv
<1>3. CASE SmartRefresh
  <2>1. PICK answer \in SmartAnswers :
           shown' = IF answer = Error THEN shown
                    ELSE [d \in DiskNumbers |-> View(d, answer)]
    BY <1>3 DEF SmartRefresh
  <2>2. rack' = rack /\ disk' = disk
    BY <1>3 DEF SmartRefresh
  <2>3. DisksOk'
    BY <2>1, <2>2 DEF SmartInv, DisksOk, DiskNumbers
  <2>4. ASSUME answer # Error, NEW d \in DiskNumbers,
               View(d, answer).status \notin {"none", "HEALTHY"}
        PROVE  \E e \in Alike(d) : Cause(e)
    <3>1. FindSmart(d, answer) # NoValue
      BY <2>4 DEF View, NoView
    <3>2. View(d, answer).status = HealthStatus(FindSmart(d, answer))
      BY <3>1 DEF View
    <3> QED BY <2>4, <3>1, <3>2, FoundIsAlike DEF SmartInv
  <2>5. AlarmsHaveCause'
    BY <2>1, <2>2, <2>4
       DEF SmartInv, AlarmsHaveCause, Alike, DiskNumbers, Cause
  <2>6. ASSUME NEW d \in DiskNumbers, shown'[d].full, shown'[d].source = d
        PROVE  /\ shown'[d].temp \in Nat /\ shown'[d].score \in Nat
               /\ HealthScore([FullRecord(d)' EXCEPT !.temp = shown'[d].temp])
                     <= shown'[d].score
    <3>1. FullRecord(d)' = FullRecord(d)
      BY <2>2 DEF FullRecord
    <3>2. CASE answer = Error
      BY <2>1, <2>6, <3>1, <3>2 DEF SmartInv, WearShows
    <3>3. CASE answer # Error
      <4>1. shown'[d] = View(d, answer)
        BY <2>1, <3>3
      <4>2. /\ shown'[d].score = HealthScore(FullRecord(d))
            /\ shown'[d].temp = disk[d].temp
        BY <2>6, <3>3, <4>1, OwnViewIsFull DEF SmartInv
      <4>3. disk[d].temp \in Nat
        BY DEF SmartInv, DisksOk, DiskStates
      <4>4. [FullRecord(d) EXCEPT !.temp = disk[d].temp] = FullRecord(d)
        BY DEF FullRecord
      <4>5. HealthScore(FullRecord(d)) \in Nat
        <5>1. \A x \in Numbers : Number(FullRecord(d)[x]) \in Nat
          BY FullRecordNumbers DEF SmartInv
        <5> QED BY <5>1, ScoreFalls
      <4> QED BY <3>1, <4>2, <4>3, <4>4, <4>5
    <3> QED BY <3>2, <3>3
  <2>7. WearShows'
    BY <2>2, <2>6 DEF WearShows, DiskNumbers
  <2> QED BY <2>3, <2>5, <2>7 DEF SmartInv
<1> QED BY <1>1, <1>2, <1>3 DEF SmartNext

(* Nothing is shown yet, and no disk has an error.                         *)
LEMMA SmartStarts == SmartInit => SmartInv
<1> SUFFICES ASSUME SmartInit PROVE SmartInv
  OBVIOUS
<1>1. \A d \in DiskNumbers : disk[d] \in DiskStates
  <2> SUFFICES ASSUME NEW d \in DiskNumbers PROVE disk[d] \in DiskStates
    OBVIOUS
  <2>1. disk[d] \in NewDisk(d)
    BY DEF SmartInit
  <2>2. NewDisk(d) \subseteq DiskStates
    <3>1. Temps \subseteq Nat /\ {0, NoValue} \subseteq Amount /\ 0 \in Nat
      BY SmartAssumption DEF Amount
    <3>2. ASSUME NEW t \in Temps,
                 NEW events \in IF rack[d].kind = "ata" THEN {0, NoValue} ELSE {NoValue}
          PROVE  [failing |-> FALSE, temp |-> t, reallocated |-> 0,
                  events |-> events, pending |-> 0, uncorrectable |-> 0,
                  media |-> 0] \in DiskStates
      <4>1. t \in Nat /\ events \in Amount
        BY <3>1, <3>2
      <4> QED BY <4>1 DEF DiskStates
    <3> QED BY <3>2 DEF NewDisk
  <2> QED BY <2>1, <2>2
<1>2. DisksOk
  BY <1>1, SmartAssumption DEF SmartInit, DisksOk
<1>3. AlarmsHaveCause
  BY DEF SmartInit, AlarmsHaveCause, NoView
<1>4. WearShows
  BY DEF SmartInit, WearShows, NoView
<1> QED BY <1>2, <1>3, <1>4 DEF SmartInv

(* SmartInv holds in every behaviour.                                      *)
THEOREM SmartInvariance == SmartSpec => []SmartInv
BY SmartStarts, SmartStepKeeps, PTL DEF SmartSpec

(* No false alarm, for any disks: a disk is shown as anything but healthy  *)
(* only for errors, a verdict or the lack of one, of itself or its twin.   *)
THEOREM AlarmsAreCaused == SmartSpec => []AlarmsHaveCause
BY SmartInvariance, PTL DEF SmartInv

(* No step rates a disk it read itself better than it was shown.           *)
LEMMA NoStepHeals ==
    SmartInv /\ [SmartNext]_smartVars =>
        [\A d \in DiskNumbers :
            /\ shown[d].full /\ shown[d].source = d
            /\ shown'[d].full /\ shown'[d].source = d
            /\ shown'[d].temp >= shown[d].temp
            => shown'[d].score <= shown[d].score]_smartVars
<1> SUFFICES ASSUME SmartInv, SmartNext, NEW d \in DiskNumbers,
                    shown[d].full, shown[d].source = d,
                    shown'[d].full, shown'[d].source = d,
                    shown'[d].temp >= shown[d].temp
             PROVE  shown'[d].score <= shown[d].score
  BY DEF smartVars
<1>1. /\ shown[d].temp \in Nat /\ shown[d].score \in Nat
      /\ HealthScore([FullRecord(d) EXCEPT !.temp = shown[d].temp]) <= shown[d].score
  BY DEF SmartInv, WearShows
<1>2. CASE shown' = shown
  BY <1>1, <1>2
<1>3. CASE shown' # shown
  <2>1. PICK answer \in SmartAnswers :
           answer # Error /\ shown' = [e \in DiskNumbers |-> View(e, answer)]
    BY <1>3 DEF SmartNext, Wear, Warm, SmartRefresh
  <2>2. shown'[d].score = HealthScore(FullRecord(d)) /\ shown'[d].temp = disk[d].temp
    BY <2>1, OwnViewIsFull DEF SmartInv
  <2> DEFINE r == [FullRecord(d) EXCEPT !.temp = shown[d].temp]
             s == FullRecord(d)
  <2>3. r.passed = s.passed
    BY DEF FullRecord
  <2>4. \A x \in Numbers : /\ Number(r[x]) \in Nat /\ Number(s[x]) \in Nat
                          /\ Number(r[x]) <= Number(s[x])
    <3>1. disk[d] \in DiskStates
      BY DEF SmartInv, DisksOk
    <3>2. disk[d].temp >= shown[d].temp /\ NoValue \notin Nat
      BY <2>2, SmartAssumption
    <3> QED BY <1>1, <3>1, <3>2 DEF FullRecord, Number, Numbers, DiskStates, Amount
  <2> HIDE DEF r, s
  <2>5. HealthScore(r) \in Nat /\ HealthScore(s) \in Nat /\ HealthScore(s) <= HealthScore(r)
    BY <2>3, <2>4, ScoreFalls
  <2> QED BY <1>1, <2>2, <2>5 DEF r, s
<1> QED BY <1>2, <1>3

(* Wear shows, for any disks and counters: a disk that was read itself,    *)
(* and found no cooler, is never rated better than before, whatever was    *)
(* shown of it in between.                                                 *)
THEOREM WearIsKept == SmartSpec => WearNeverHeals
BY NoStepHeals, SmartInvariance, PTL DEF SmartSpec, WearNeverHeals

-----------------------------------------------------------------------------
(* HardwareReadings.                                                       *)
Sorts == {"cpu", "chipset", "other", "nvme"}

HardwareOk ==
    /\ Len(board) \in Nat /\ Places = 1..Len(board)
    /\ \A i \in Places : Levels[board[i].kind] \subseteq Int
    /\ DOMAIN hardware = Places
    /\ \A i \in Places : hardware[i] \in Int \union {NoReading}
    /\ \A e \in entities : e.sort \in Sorts

(* Some readings are finitely many integers.                               *)
LEMMA PlacesAreIntegers ==
    ASSUME HardwareOk, NEW places \in SUBSET Places
    PROVE  places \subseteq Int /\ IsFiniteSet(places)
<1>1. IsFiniteSet(1..Len(board)) /\ 1..Len(board) \subseteq Int /\ Places = 1..Len(board)
  BY FS_Interval DEF HardwareOk
<1> QED BY <1>1, FS_Subset

(* A temperature that was read is a plausible one.                         *)
LEMMA TemperaturesArePlausible ==
    ASSUME HardwareOk, NEW i \in Places, ParseTemperature(i) # NoReading
    PROVE  ParseTemperature(i) \in Nat /\ ParseTemperature(i) <= 144
  BY HardwareAssumption DEF HardwareOk, ParseTemperature, Plausible

(* A quotient lies between what bounds its dividend.                       *)
LEMMA QuotientBounds ==
    ASSUME NEW n \in Nat, n > 0, NEW s \in Nat, NEW m \in Nat, NEW q \in Nat,
           n * m <= s, s <= n * q
    PROVE  s \div n \in Nat /\ m <= s \div n /\ s \div n <= q
<1> DEFINE d == s \div n
<1>1. d \in Int /\ n * d <= s /\ s < n * d + n
  OBVIOUS
<1> HIDE DEF d
<1>2. ~(d < m)
  <2> SUFFICES ASSUME d < m PROVE FALSE
    OBVIOUS
  <2>1. d + 1 <= m
    BY <1>1
  <2>2. n * (d + 1) <= n * m
    BY <1>1, <2>1
  <2>3. n * (d + 1) = n * d + n
    BY <1>1
  <2> QED BY <1>1, <2>2, <2>3
<1>3. ~(d > q)
  <2> SUFFICES ASSUME d > q PROVE FALSE
    OBVIOUS
  <2>1. q + 1 <= d
    BY <1>1
  <2>2. n * (q + 1) <= n * d
    BY <1>1, <2>1
  <2>3. n * (q + 1) = n * q + n
    OBVIOUS
  <2> QED BY <1>1, <2>2, <2>3
<1>4. d \in Nat /\ m <= d /\ d <= q
  BY <1>1, <1>2, <1>3
<1> QED BY <1>4 DEF d

(* The mean of some temperatures lies among them.                          *)
LEMMA AverageIsBetween ==
    ASSUME HardwareOk, NEW places \in SUBSET Places, places # {},
           \A i \in places : ParseTemperature(i) # NoReading
    PROVE  /\ Average(places) \in Nat
           /\ \E i, j \in places : /\ ParseTemperature(i) <= Average(places)
                                   /\ Average(places) <= ParseTemperature(j)
<1> DEFINE temp(i) == ParseTemperature(i)
           temps == {temp(i) : i \in places}
<1>1. \A i \in places : temp(i) \in Nat /\ temp(i) <= 144
  BY TemperaturesArePlausible
<1>2. IsFiniteSet(places) /\ places \subseteq Int
  BY PlacesAreIntegers
<1>3. /\ temps \in SUBSET Nat /\ temps \subseteq Int /\ temps # {}
      /\ \A t \in temps : t <= 144
  BY <1>1
<1>4. IsFiniteSet(temps)
  <2> HIDE DEF temps
  <2> QED BY <1>3, FS_BoundedSetOfNaturals
<1>5. PICK low \in temps : \A t \in temps : low <= t
  <2> HIDE DEF temps
  <2> QED BY <1>3, <1>4, LeastExists
<1>6. PICK high \in temps : \A t \in temps : high >= t
  <2> HIDE DEF temps
  <2> QED BY <1>3, <1>4, GreatestExists
<1>7. low \in Nat /\ high \in Nat
  BY <1>3
<1>8. PICK i \in places, j \in places : low = temp(i) /\ high = temp(j)
  OBVIOUS
<1>9. \A k \in places : low <= temp(k) /\ temp(k) <= high
  BY <1>1, <1>5, <1>6
<1> DEFINE all == Degrees(places)
           least == places \X (1..low)
           most == places \X (1..high)
<1> HIDE DEF temps
<1>10. least \subseteq all /\ all \subseteq most
  BY <1>1, <1>7, <1>9 DEF Degrees
<1>11. /\ IsFiniteSet(1..low) /\ Cardinality(1..low) = low
       /\ IsFiniteSet(1..high) /\ Cardinality(1..high) = high
  BY <1>7, FS_Interval
<1> DEFINE n == Cardinality(places)
           s == Cardinality(Degrees(places))
<1>12. n \in Nat /\ n > 0
  <2>1. Cardinality(places) \in Nat /\ Cardinality(places) # 0
    BY <1>2, FS_CardinalityType, FS_EmptySet
  <2> QED BY <2>1
<1>13. /\ IsFiniteSet(least) /\ Cardinality(least) = n * low
       /\ IsFiniteSet(most) /\ Cardinality(most) = n * high
  <2>1. IsFiniteSet(least) /\ Cardinality(least) = Cardinality(places) * Cardinality(1..low)
    BY <1>2, <1>11, FS_Product
  <2>2. IsFiniteSet(most) /\ Cardinality(most) = Cardinality(places) * Cardinality(1..high)
    BY <1>2, <1>11, FS_Product
  <2> QED BY <1>11, <2>1, <2>2
<1> HIDE DEF least, most
<1>14. IsFiniteSet(all) /\ s <= n * high /\ s \in Nat
  <2>1. IsFiniteSet(all) /\ Cardinality(all) <= Cardinality(most)
    <3> HIDE DEF all
    <3> QED BY <1>10, <1>13, FS_Subset
  <2>2. Cardinality(all) \in Nat
    <3> HIDE DEF all
    <3> QED BY <2>1, FS_CardinalityType
  <2> QED BY <1>13, <2>1, <2>2
<1>15. n * low <= s
  <2>1. Cardinality(least) <= Cardinality(all)
    <3> HIDE DEF all
    <3> QED BY <1>10, <1>14, FS_Subset
  <2> QED BY <1>13, <2>1
<1>16. Average(places) = s \div n
  BY DEF Average
<1> HIDE DEF n, s
<1>17. s \div n \in Nat /\ low <= s \div n /\ s \div n <= high
  BY <1>7, <1>12, <1>14, <1>15, QuotientBounds
<1> QED BY <1>8, <1>16, <1>17

(* The two walks through the readings of the processor agree.              *)
LEMMA CpuWalksAgree ==
    ASSUME HardwareOk
    PROVE  CpuAgrees
<1> SUFFICES ASSUME CpuTemperature # NoReading, Package = NoReading
             PROVE  \E i, j \in DOMAIN CpuAttributes.cores :
                       /\ CpuAttributes.cores[i] <= CpuTemperature
                       /\ CpuTemperature <= CpuAttributes.cores[j]
  BY DEF CpuAgrees, CpuTemperature, CpuAttributes
<1> DEFINE cores == Readable({"core"})
<1>1. /\ cores \in SUBSET Places
      /\ \A i \in cores : ParseTemperature(i) # NoReading /\ i \in Readable({"core", "tccd"})
  BY DEF Readable, Of
<1>2. CpuTemperature = Average(cores)
  BY DEF CpuTemperature
<1> HIDE DEF cores
<1>3. cores # {}
  BY <1>2 DEF Average
<1>4. PICK i \in cores, j \in cores : /\ ParseTemperature(i) <= Average(cores)
                                      /\ Average(cores) <= ParseTemperature(j)
  BY <1>1, <1>3, AverageIsBetween
<1>5. \A k \in cores : /\ k \in DOMAIN CpuAttributes.cores
                       /\ CpuAttributes.cores[k] = ParseTemperature(k)
  BY <1>1 DEF CpuAttributes
<1> QED BY <1>2, <1>4, <1>5

(* Before the first answer there is none to read.                          *)
LEMMA HardwareStarts == HardwareInit => HardwareOk
  BY HardwareAssumption DEF HardwareInit, HardwareOk, Places, NoAnswer

(* Every step keeps the readings in order.                                 *)
LEMMA HardwareStepKeeps ==
    ASSUME HardwareOk, [HardwareNext]_hardwareVars
    PROVE  HardwareOk'
<1> DEFINE Read(h) == /\ DOMAIN h = Places
                      /\ \A i \in Places : h[i] \in Int \union {NoReading}
<1>1. CASE UNCHANGED hardwareVars
  BY <1>1 DEF HardwareOk, Places, hardwareVars
<1>2. ASSUME board' = board, LmSensorsAnswer \/ SmartAnswer
      PROVE  Read(hardware')
  <2>1. CASE hardware' \in {NoAnswer, hardware}
    BY <2>1 DEF HardwareOk, NoAnswer
  <2>2. ASSUME NEW i \in Places, NEW v \in Measured(i),
               hardware' = [hardware EXCEPT ![i] = v]
        PROVE  Read(hardware')
    <3>1. v \in Int \union {NoReading}
      BY DEF HardwareOk, Measured
    <3> QED BY <2>2, <3>1 DEF HardwareOk
  <2> QED BY <1>2, <2>1, <2>2 DEF LmSensorsAnswer, SmartAnswer
<1>3. CASE HardwareLoad
  <2>1. (\A e \in Created : e.sort \in Sorts)'
    BY DEF Created, Entity, Sorts
  <2>2. board' = board /\ entities' = Created'
    BY <1>3 DEF HardwareLoad
  <2> QED BY <1>2, <1>3, <2>1, <2>2 DEF HardwareOk, Places, HardwareLoad
<1>4. CASE HardwareRefresh
  BY <1>2, <1>4 DEF HardwareOk, Places, HardwareRefresh
<1> QED BY <1>1, <1>3, <1>4 DEF HardwareNext

(* HardwareOk holds in every behaviour.                                    *)
THEOREM HardwareInvariance == HardwareSpec => []HardwareOk
BY HardwareStarts, HardwareStepKeeps, PTL DEF HardwareSpec

(* What is made of a reading that stays is the same.                       *)
LEMMA ReadingStays ==
    ASSUME board' = board, NEW i, hardware'[i] = hardware[i]
    PROVE  /\ ParseTemperature(i)' = ParseTemperature(i)
           /\ Parse(i)' = Parse(i) /\ NvmeReading(i)' = NvmeReading(i)
  BY DEF ParseTemperature, Parse, NvmeReading, Plausible

(* And so is what is made of all the readings of some classes.             *)
LEMMA ClassStays ==
    ASSUME board' = board, NEW classes,
           \A i \in Of(classes) : ParseTemperature(i)' = ParseTemperature(i)
    PROVE  /\ Readable(classes)' = Readable(classes)
           /\ Average(Readable(classes))' = Average(Readable(classes))
<1>1. Of(classes)' = Of(classes)
  BY DEF Of, Places
<1>2. Readable(classes)' = Readable(classes)
  BY <1>1 DEF Readable
<1>3. \A i \in Readable(classes) : ParseTemperature(i)' = ParseTemperature(i)
  BY DEF Readable
<1>4. Degrees(Readable(classes))' = Degrees(Readable(classes))
  BY <1>2, <1>3 DEF Degrees
<1> QED BY <1>2, <1>4 DEF Average

(* No step changes an entity whose own readings stay.                      *)
LEMMA NoStepLeaks ==
    HardwareOk /\ [HardwareNext]_hardwareVars =>
        [\A e \in entities \intersect entities' :
            /\ \A i \in Sources(e) : hardware'[i] = hardware[i]
            /\ e.sort = "nvme" => smartTemp' = smartTemp
            => Shows(e)' = Shows(e)]_hardwareVars
<1> SUFFICES ASSUME HardwareOk, HardwareNext, NEW e \in entities \intersect entities',
                    \A i \in Sources(e) : hardware'[i] = hardware[i],
                    e.sort = "nvme" => smartTemp' = smartTemp
             PROVE  Shows(e)' = Shows(e)
  BY DEF hardwareVars
<1>1. board' = board /\ e.sort \in Sorts
  BY DEF HardwareNext, HardwareLoad, HardwareRefresh, HardwareOk
<1>2. CASE e.sort = "cpu"
  <2>1. \A i \in Of({"package", "core", "tccd"}) : ParseTemperature(i)' = ParseTemperature(i)
    <3> SUFFICES ASSUME NEW i \in Of({"package", "core", "tccd"})
                 PROVE  ParseTemperature(i)' = ParseTemperature(i)
      OBVIOUS
    <3>1. CASE board[i].kind \in {"fan", "voltage"}
      BY <1>1, <3>1 DEF ParseTemperature
    <3>2. CASE board[i].kind \notin {"fan", "voltage"}
      <4>1. i \in Sources(e)
        BY <1>2, <3>2 DEF Sources
      <4> QED BY <1>1, <4>1, ReadingStays
    <3> QED BY <3>1, <3>2
  <2>2. \A i \in Of({"package"}) \union Of({"core"}) \union Of({"core", "tccd"}) :
           ParseTemperature(i)' = ParseTemperature(i)
    BY <2>1 DEF Of
  <2>3. /\ Readable({"package"})' = Readable({"package"})
        /\ Readable({"core", "tccd"})' = Readable({"core", "tccd"})
        /\ Average(Readable({"core"}))' = Average(Readable({"core"}))
    BY <1>1, <2>2, ClassStays
  <2>4. Package' = Package
    <3>1. CASE Readable({"package"}) = {}
      BY <2>3, <3>1 DEF Package
    <3>2. CASE Readable({"package"}) # {}
      <4> DEFINE last == Max(Readable({"package"}))
      <4>1. last \in Of({"package"})
        <5> DEFINE its == Readable({"package"})
        <5>1. its \in SUBSET Places /\ its \subseteq Of({"package"})
          BY DEF Readable, Of
        <5>2. \E i \in its : \A j \in its : i >= j
          <6> HIDE DEF its
          <6>1. its \subseteq Int /\ IsFiniteSet(its)
            BY <5>1, PlacesAreIntegers
          <6> QED BY <3>2, <6>1, GreatestExists DEF its
        <5>3. Max(its) \in its
          <6> HIDE DEF its
          <6> QED BY <5>2 DEF Max
        <5> QED BY <5>1, <5>3
      <4>2. last' = last
        BY <2>3
      <4>3. ParseTemperature(last)' = ParseTemperature(last)
        BY <2>2, <4>1, <4>2 DEF ParseTemperature
      <4> QED BY <2>3, <3>2, <4>2, <4>3 DEF Package
    <3> QED BY <3>1, <3>2
  <2>5. CpuTemperature' = CpuTemperature
    BY <2>3, <2>4 DEF CpuTemperature
  <2>6. CpuAttributes' = CpuAttributes
    <3>1. \A i \in Readable({"core", "tccd"}) :
             ParseTemperature(i)' = ParseTemperature(i)
      BY <2>2 DEF Readable
    <3> QED BY <2>3, <2>4, <3>1 DEF CpuAttributes
  <2> QED BY <1>2, <2>5, <2>6 DEF Shows
<1>3. CASE e.sort = "chipset"
  <2>1. ParseTemperature(e.id)' = ParseTemperature(e.id)
    <3>1. e.id \in Sources(e)
      BY <1>3 DEF Sources
    <3> QED BY <1>1, <3>1, ReadingStays
  <2>2. \A i \in Of({"acpitz"}) : ParseTemperature(i)' = ParseTemperature(i)
    <3>1. Of({"acpitz"}) \subseteq Sources(e)
      BY <1>3 DEF Sources
    <3> QED BY <1>1, <3>1, ReadingStays
  <2>3. Average(Readable({"acpitz"}))' = Average(Readable({"acpitz"}))
    BY <1>1, <2>2, ClassStays
  <2> QED BY <1>3, <2>1, <2>3 DEF Shows
<1>4. CASE e.sort = "other"
  <2>1. e.id \in Sources(e)
    BY <1>4 DEF Sources
  <2>2. Parse(e.id)' = Parse(e.id)
    BY <1>1, <2>1, ReadingStays
  <2> QED BY <1>4, <2>2 DEF Shows
<1>5. CASE e.sort = "nvme"
  <2> DEFINE its == {i \in Of({"nvme"}) : board[i].chip = e.id /\ NvmeReading(i) # NoReading}
  <2>1. \A i \in Of({"nvme"}) : board[i].chip = e.id => NvmeReading(i)' = NvmeReading(i)
    <3> SUFFICES ASSUME NEW i \in Of({"nvme"}), board[i].chip = e.id
                 PROVE  NvmeReading(i)' = NvmeReading(i)
      OBVIOUS
    <3>1. i \in Sources(e)
      BY <1>5 DEF Sources
    <3> QED BY <1>1, <3>1, ReadingStays
  <2>2. Of({"nvme"})' = Of({"nvme"})
    BY <1>1 DEF Of, Places
  <2>3. its' = its
    BY <1>1, <2>1, <2>2
  <2>4. SmartOf(e.id)' = SmartOf(e.id)
    BY <1>5 DEF SmartOf
  <2>5. NvmeTemperature(e.id)' = NvmeTemperature(e.id)
    <3>1. CASE its = {}
      BY <2>3, <2>4, <3>1 DEF NvmeTemperature
    <3>2. CASE its # {}
      <4> DEFINE first == Min(its)
      <4>1. first \in its
        <5>1. its \in SUBSET Places
          BY DEF Of
        <5> HIDE DEF its
        <5>2. its \subseteq Int /\ IsFiniteSet(its)
          BY <5>1, PlacesAreIntegers
        <5>3. \E i \in its : \A j \in its : i <= j
          BY <3>2, <5>2, LeastExists
        <5> QED BY <5>3 DEF Min
      <4>2. first' = first
        BY <2>3
      <4>3. NvmeReading(first)' = NvmeReading(first)
        BY <1>1, <2>1, <4>1, <4>2 DEF NvmeReading
      <4> QED BY <2>3, <3>2, <4>2, <4>3 DEF NvmeTemperature
    <3> QED BY <3>1, <3>2
  <2> QED BY <1>5, <2>5 DEF Shows
<1> QED BY <1>1, <1>2, <1>3, <1>4, <1>5 DEF Sorts

(* No reading leaks into another, for any board and any values.            *)
THEOREM ReadingsAreApart == HardwareSpec => ReadingsStayApart
<1>1. HardwareOk => CpuAgrees
  BY CpuWalksAgree
<1> QED BY <1>1, NoStepLeaks, HardwareInvariance, PTL DEF HardwareSpec, ReadingsStayApart
=============================================================================
