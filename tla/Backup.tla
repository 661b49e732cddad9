------------------------------- MODULE Backup -------------------------------
(***************************************************************************)
(* The two backup services (services.py): create_vzdump_backup walks over  *)
(* the guests it was given, backup_all gathers the guests of a node from   *)
(* the coordinator's snapshot and runs them side by side under a           *)
(* semaphore.  Both call start_vzdump, a POST that is answered as soon as  *)
(* the node has queued the backup, or None when anything at all failed.    *)
(*                                                                         *)
(* Each call of a service is a handler of its own with its own semaphore;  *)
(* the guests of backup_all are frozen when it is called.                  *)
(***************************************************************************)
EXTENDS Naturals, Sequences, FiniteSets, SequencesExt

CONSTANTS
    Handlers,
    VMs, CTs,
    MAX_CONCURRENT,   \* the largest max_concurrent asked for (10)
    MAX_GUESTS        \* bound: the longest list given to create_vzdump_backup

ASSUME BackupAssumption ==
    /\ VMs \intersect CTs = {}
    /\ IsFiniteSet(VMs) /\ IsFiniteSet(CTs)
    /\ MAX_CONCURRENT \in Nat \ {0}
    /\ MAX_GUESTS \in Nat \ {0}

Guests == VMs \union CTs

VARIABLES
    service,   \* what a handler runs: "none", "simple" or "all"
    targets,   \* the guests it backs up, in order
    limit,     \* max_concurrent
    delay,     \* delay_between: "none", "some", or a value > 0 cannot be asked of
    badMode,   \* a mode or compression that start_vzdump refuses to send
    step,      \* where each target is
    outcome,   \* what start_vzdump did for it
    counted,   \* as what each target is counted
    report     \* the two counters when the handler was done

vars == <<service, targets, limit, delay, badMode, step, outcome, counted,
          report>>
requestVars == <<targets, limit, delay, badMode>>

Steps == {"queued", "posting", "sleeping", "done"}
Outcomes == {"none", "upid", "null", "raised"}
Counters == {"success", "failure"}

(* Neither service has a schema: null or a text in delay_between gets here *)
(* and delay_between > 0 raises.                                           *)
Delays == {"none", "some", "unusable"}

MaxTargets == MAX_GUESTS + Cardinality(Guests)
NoReport == [success |-> 0, failures |-> 0, notified |-> FALSE]

TypeOK ==
    /\ service \in [Handlers -> {"none", "simple", "all"}]
    /\ \A h \in Handlers :
          /\ targets[h] \in Seq(Guests)
          /\ limit[h] \in 1..MAX_CONCURRENT
          /\ step[h] \in [1..Len(targets[h]) -> Steps]
          /\ outcome[h] \in [1..Len(targets[h]) -> Outcomes]
          /\ counted[h] \in [1..Len(targets[h]) -> SUBSET Counters]
          /\ report[h].success \in 0..MaxTargets
          /\ report[h].failures \in 0..MaxTargets
    /\ delay \in [Handlers -> Delays]
    /\ badMode \in [Handlers -> BOOLEAN]

Init ==
    /\ service = [h \in Handlers |-> "none"]
    /\ targets = [h \in Handlers |-> << >>]
    /\ limit = [h \in Handlers |-> 1]
    /\ delay = [h \in Handlers |-> "none"]
    /\ badMode = [h \in Handlers |-> FALSE]
    /\ step = [h \in Handlers |-> << >>]
    /\ outcome = [h \in Handlers |-> << >>]
    /\ counted = [h \in Handlers |-> << >>]
    /\ report = [h \in Handlers |-> NoReport]

Indices(h) == 1..Len(targets[h])

Request(h, kind, list, n, d, bad) ==
    /\ service[h] = "none"
    /\ service' = [service EXCEPT ![h] = kind]
    /\ targets' = [targets EXCEPT ![h] = list]
    /\ limit' = [limit EXCEPT ![h] = n]
    /\ delay' = [delay EXCEPT ![h] = d]
    /\ badMode' = [badMode EXCEPT ![h] = bad]
    /\ step' = [step EXCEPT ![h] = [i \in 1..Len(list) |-> "queued"]]
    /\ outcome' = [outcome EXCEPT ![h] = [i \in 1..Len(list) |-> "none"]]
    /\ counted' = [counted EXCEPT ![h] = [i \in 1..Len(list) |-> {}]]
    /\ report' = [report EXCEPT ![h] = NoReport]

(* create_vzdump_backup: the list is the user's, a guest may be in it      *)
(* twice; max_concurrent is read and never used.                           *)
CallSimple(h, list, d, bad) ==
    /\ list # << >>
    /\ Request(h, "simple", list, 1, d, bad)

(* The rows of data["vms"] and data["cts"] at the time of the call.         *)
Snapshots == [Guests -> {"local", "migrated", "absent"}]

OnNode(rows, S) == {g \in S : rows[g] = "local"}

(* backup_all: the chosen kinds, VMs first, without the migrated guests;   *)
(* mode and compression were validated, an empty list ends the handler.    *)
CallAll(h, rows, kinds, n, d) ==
    \E vs \in SetToSeqs(OnNode(rows, IF "vms" \in kinds THEN VMs ELSE {})),
       cs \in SetToSeqs(OnNode(rows, IF "cts" \in kinds THEN CTs ELSE {})) :
          /\ vs \o cs # << >>
          /\ Request(h, "all", vs \o cs, n, d, FALSE)

Posting(h) == {i \in Indices(h) : step[h][i] = "posting"}
Before(i) == 1..(i - 1)

(* Mutant: a target keeps its slot while it waits for the next one.        *)
HasSlotUntilAwake(h, i) ==
    IF service[h] = "simple"
    THEN \A j \in Before(i) : step[h][j] = "done"
    ELSE /\ \A j \in Before(i) : step[h][j] # "queued"
         /\ Cardinality({j \in Indices(h) : step[h][j] \in {"posting", "sleeping"}})
               < limit[h]

(* Mutant: anybody may overtake, and one more than the limit.              *)
HasSlotUnordered(h, i) ==
    IF service[h] = "simple"
    THEN \A j \in Before(i) : step[h][j] # "posting"
    ELSE Cardinality(Posting(h)) <= limit[h]

(* The loop takes one target after the other; the semaphore's waiters are  *)
(* served in order, and a target gives its slot back when its POST is over.*)
HasSlot(h, i) ==
    IF service[h] = "simple"
    THEN \A j \in Before(i) : step[h][j] = "done"
    ELSE /\ \A j \in Before(i) : step[h][j] # "queued"
         /\ Cardinality(Posting(h)) < limit[h]

SetStep(h, i, s) == step' = [step EXCEPT ![h][i] = s]
Count(h, i, S) == counted' = [counted EXCEPT ![h][i] = @ \union S]

StartPost(h, i) ==
    /\ step[h][i] = "queued" /\ HasSlot(h, i)
    /\ ~badMode[h]
    /\ SetStep(h, i, "posting")
    /\ UNCHANGED <<service, requestVars, outcome, counted, report>>

(* start_vzdump raises before it sends anything: no delay follows.         *)
RefuseToSend(h, i) ==
    /\ step[h][i] = "queued" /\ HasSlot(h, i)
    /\ badMode[h]
    /\ SetStep(h, i, "done")
    /\ outcome' = [outcome EXCEPT ![h][i] = "raised"]
    /\ Count(h, i, {"failure"})
    /\ UNCHANGED <<service, requestVars, report>>

(* The delay follows unless this was the last target.                      *)
Sleeps(h, i) == delay[h] = "some" /\ i < Len(targets[h])

(* Mutant: both services count the success before they look at the delay.  *)
CountedAtOnce(h, i) == {"success"} \union {c \in {"failure"} : delay[h] = "unusable"}

(* create_vzdump_backup adds to success_count before it looks at the delay,*)
(* in the try whose handler adds to error_count: a delay it cannot compare *)
(* counts the target twice.  backup_all returns (vmid, True) after the     *)
(* delay, or (vmid, False) from the handler although the POST was sent.    *)
CountedAfterPost(h, i) ==
    {c \in Counters :
        \/ c = "success" /\ service[h] = "simple"
        \/ c = "success" /\ delay[h] # "unusable" /\ ~Sleeps(h, i)
        \/ c = "failure" /\ delay[h] = "unusable"}

(* The POST is answered.                                                   *)
PostReturns(h, i, r) ==
    /\ step[h][i] = "posting"
    /\ outcome' = [outcome EXCEPT ![h][i] = r]
    /\ SetStep(h, i, IF Sleeps(h, i) THEN "sleeping" ELSE "done")
    /\ Count(h, i, CountedAfterPost(h, i))
    /\ UNCHANGED <<service, requestVars, report>>

WakeUp(h, i) ==
    /\ step[h][i] = "sleeping"
    /\ SetStep(h, i, "done")
    /\ Count(h, i, {"success"})
    /\ UNCHANGED <<service, requestVars, outcome, report>>

CountedAs(h, c) == {i \in Indices(h) : c \in counted[h][i]}

AllDone(h) == \A i \in Indices(h) : step[h][i] = "done"

(* Only backup_all raises a notification, when something failed.           *)
Summarise(h) ==
    /\ service[h] # "none"
    /\ AllDone(h)
    /\ report' = [report EXCEPT ![h] =
          [success  |-> Cardinality(CountedAs(h, "success")),
           failures |-> Cardinality(CountedAs(h, "failure")),
           notified |-> service[h] = "all" /\ CountedAs(h, "failure") # {}]]
    /\ service' = [service EXCEPT ![h] = "none"]
    /\ UNCHANGED <<requestVars, step, outcome, counted>>

Next ==
    \E h \in Handlers :
          \/ \E list \in BoundedSeq(Guests, MAX_GUESTS), d \in Delays, bad \in BOOLEAN :
                CallSimple(h, list, d, bad)
          \/ \E rows \in Snapshots, kinds \in SUBSET {"vms", "cts"},
                n \in 1..MAX_CONCURRENT, d \in Delays :
                CallAll(h, rows, kinds, n, d)
          \/ \E i \in Indices(h) :
                \/ StartPost(h, i)
                \/ RefuseToSend(h, i)
                \/ \E r \in {"upid", "null"} : PostReturns(h, i, r)
                \/ WakeUp(h, i)
          \/ Summarise(h)

Spec == Init /\ [][Next]_vars

(* A POST ends within REQUEST_TIMEOUT and the event loop runs what is      *)
(* ready.  The sleeps of create_vzdump_backup end; those of backup_all are *)
(* left without fairness on purpose, because nobody must wait for them.    *)
Fairness ==
    \A h \in Handlers :
       /\ \A i \in 1..MaxTargets :
             /\ WF_vars(i \in Indices(h) /\ (StartPost(h, i) \/ RefuseToSend(h, i)))
             /\ WF_vars(i \in Indices(h) /\ \E r \in {"upid", "null"} :
                                               PostReturns(h, i, r))
             /\ WF_vars(i \in Indices(h) /\ service[h] = "simple" /\ WakeUp(h, i))
       /\ WF_vars(Summarise(h))

FairSpec == Spec /\ Fairness

-----------------------------------------------------------------------------
(* Correctness.                                                            *)

(* Targets are taken in the order of the list, backup_all never has more   *)
(* POSTs in flight than max_concurrent and create_vzdump_backup one.  It is*)
(* no bound on the backups that run, which services.yaml:129 promises      *)
(* ("Maximum number of simultaneous backups"): the POST only queues one.   *)
TakenInOrder ==
    \A h \in Handlers : service[h] # "none" =>
       /\ \A i \in Indices(h) : \A j \in Before(i) :
             step[h][i] # "queued" => step[h][j] # "queued"
       /\ Cardinality(Posting(h)) <= limit[h]

(* Every guest of the list gets its turn: a start that fails stops nobody, *)
(* and in backup_all the delay of one guest, however long, holds up none   *)
(* of the others.  So delay_between does not space the backups out, as     *)
(* services.yaml:141 ("Seconds to wait between backups") and the log line  *)
(* "Waiting {delay_between}s before next backup..." have it: the sleep is  *)
(* outside the semaphore and only puts off the summary.                    *)
EveryTargetIsTried ==
    \A h \in Handlers : \A i \in 1..MaxTargets :
       service[h] # "none" /\ i \in Indices(h)
          ~> ~(i \in Indices(h) /\ step[h][i] = "queued")

(* Whatever failed and in whatever order the targets ended, the summary    *)
(* leaves out none of them and backup_all counts each once.  The log line  *)
(* of create_vzdump_backup ("Success: .. | Failures: .. | Total: ..") adds *)
(* up as well, except after an unusable delay: there each target that was  *)
(* sent is in both counters.  No failure is reported when none happened.   *)
CountedTwice(h) ==
    {i \in Indices(h) : /\ service[h] = "simple" /\ delay[h] = "unusable"
                        /\ outcome[h][i] \in {"upid", "null"}}

SummaryIsComplete ==
    [][\A h \in Handlers :
          service[h] # "none" /\ service'[h] = "none" =>
             /\ report'[h].success + report'[h].failures
                   = Len(targets[h]) + Cardinality(CountedTwice(h))
             /\ report'[h].failures = 0 <=>
                   /\ delay[h] # "unusable"
                   /\ \A i \in Indices(h) : outcome[h][i] \in {"upid", "null"}]_vars

(* "Backup of {vmid} started successfully", "Success: {success_count}": a  *)
(* target is counted as a success only if the node started its backup.     *)
SuccessMeansStarted ==
    [][\A h \in Handlers :
          service[h] # "none" /\ service'[h] = "none" =>
             report'[h].success <=
                Cardinality({i \in Indices(h) : outcome[h][i] = "upid"})]_vars
=============================================================================
