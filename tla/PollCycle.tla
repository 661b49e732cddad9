----------------------------- MODULE PollCycle -----------------------------
(***************************************************************************)
(* One refresh of a PVE coordinator (create_proxmox_coordinator): four     *)
(* cluster calls side by side, then the node's calls through limited_task, *)
(* at most SLOTS at a time and each with its own timeout once it runs, all *)
(* under an outer timeout.  The results come back by position and are      *)
(* unpacked in order.  A refresh that fails as a whole keeps the last      *)
(* snapshot.                                                               *)
(*                                                                         *)
(* DataUpdateCoordinator runs one refresh at a time; when it starts the    *)
(* next one is left open.  A payload is named by the section it belongs    *)
(* to.  A polling call that fails in the API client is None and its        *)
(* wrapper makes an empty list of it, so "nothing" is both the failed and  *)
(* the empty answer.                                                       *)
(***************************************************************************)
EXTENDS Integers, Sequences, FiniteSets, Coordinator

CONSTANTS
    Fixed,           \* the sections fetched on every refresh, in order
    Fragile,         \* sections whose unpacking trips over a malformed item
    OTHER_CLUSTER_CALLS, \* cluster calls next to cluster/resources (3)
    SLOTS,           \* Semaphore(5)
    TASK_TIMEOUT,
    CLUSTER_TIMEOUT  \* a login and a request, each up to REQUEST_TIMEOUT

Optional == {"hardware", "smart", "memory"}
FixedNames == {Fixed[i] : i \in 1..Len(Fixed)}
Sections == FixedNames \union Optional

ASSUME CycleAssumption ==
    /\ Fixed \in Seq(FixedNames)
    /\ \A i, j \in 1..Len(Fixed) : Fixed[i] = Fixed[j] => i = j
    /\ FixedNames \intersect Optional = {}
    /\ "empty" \notin Sections
    /\ Fragile \subseteq Sections
    /\ OTHER_CLUSTER_CALLS \in Nat
    /\ SLOTS \in Nat \ {0}
    /\ TASK_TIMEOUT \in Nat \ {0}
    /\ CLUSTER_TIMEOUT \in Nat \ {0}
    /\ OUTER_TIMEOUT \in Nat \ {0}

VARIABLES
    enabled,    \* the enable_* options, read when the coordinator is created
    phase,      \* "idle", "cluster" or "fanout"
    resources,  \* cluster/resources: "running", then a list or nothing usable
    clusterUp,  \* how many of the other cluster calls are under way
    task,       \* the state of each node call, by its position
    age,        \* how long it has been running, 0 if it is not
    elapsed,    \* how long the refresh has been running
    fanned,     \* what elapsed was when the node's calls were handed out
    data,       \* coordinator.data
    available   \* coordinator.last_update_success

vars == <<enabled, phase, resources, clusterUp, task, age, elapsed, fanned,
          data, available>>

(* The calls in the order they are handed to gather.                       *)
TaskList ==
    Fixed \o (IF "hardware" \in enabled THEN <<"hardware">> ELSE << >>)
          \o (IF "smart" \in enabled THEN <<"smart">> ELSE << >>)
          \o (IF "memory" \in enabled THEN <<"memory">> ELSE << >>)

Positions == 1..Len(TaskList)

Settled == {"list", "nothing", "bad", "timeout"}
Busy(i) == task[i] \in {"waiting", "running"}
Running == {i \in Positions : task[i] = "running"}
Waiting == {i \in Positions : task[i] = "waiting"}

Snapshots == [cluster : {"list", "nothing"},
              section : [Sections -> Sections \union {"empty"}]]

TypeOK ==
    /\ enabled \in SUBSET Optional
    /\ phase \in {"idle", "cluster", "fanout"}
    /\ resources \in {"running", "list", "nothing"}
    /\ clusterUp \in 0..OTHER_CLUSTER_CALLS
    /\ task \in [Positions -> Settled \union {"waiting", "running"}]
    /\ age \in [Positions -> 0..TASK_TIMEOUT]
    /\ elapsed \in 0..OUTER_TIMEOUT
    /\ fanned \in 0..OUTER_TIMEOUT
    /\ data \in Snapshots \union {NONE}
    /\ available \in BOOLEAN

Init ==
    /\ enabled \in SUBSET Optional
    /\ phase = "idle"
    /\ resources = "nothing" /\ clusterUp = 0
    /\ task = [i \in Positions |-> "waiting"]
    /\ age = [i \in Positions |-> 0]
    /\ elapsed = 0 /\ fanned = 0
    /\ data = NONE /\ available = FALSE

-----------------------------------------------------------------------------
StartRefresh ==
    /\ phase = "idle"
    /\ phase' = "cluster"
    /\ resources' = "running" /\ clusterUp' = OTHER_CLUSTER_CALLS
    /\ UNCHANGED <<enabled, task, age, elapsed, fanned, data, available>>

(* Mutant: whatever gather collected is taken, an exception included.      *)
ResourcesTakenAsIs(r) ==
    /\ phase = "cluster" /\ resources = "running"
    /\ resources' = IF r = "list" THEN "list" ELSE "exception"
    /\ UNCHANGED <<enabled, phase, clusterUp, task, age, elapsed, fanned,
                   data, available>>

(* gather(return_exceptions=True): an exception or anything that is no     *)
(* list leaves the section empty.                                          *)
ResourcesReturn(r) ==
    /\ phase = "cluster" /\ resources = "running"
    /\ resources' = r
    /\ UNCHANGED <<enabled, phase, clusterUp, task, age, elapsed, fanned,
                   data, available>>

ClusterCallReturns ==
    /\ phase = "cluster" /\ clusterUp > 0
    /\ clusterUp' = clusterUp - 1
    /\ UNCHANGED <<enabled, phase, resources, task, age, elapsed, fanned,
                   data, available>>

ClusterDone == resources # "running" /\ clusterUp = 0

StartFanout ==
    /\ phase = "cluster" /\ ClusterDone
    /\ phase' = "fanout"
    /\ fanned' = elapsed
    /\ UNCHANGED <<enabled, resources, clusterUp, task, age, elapsed, data,
                   available>>

(* Mutant: whoever waits may be woken.                                     *)
CanStartUnordered(i) ==
    /\ phase = "fanout"
    /\ i \in Waiting
    /\ Cardinality(Running) < SLOTS

(* The semaphore wakes its waiters in order; the task's own timeout starts *)
(* only now, inside it.                                                    *)
CanStart(i) ==
    /\ phase = "fanout"
    /\ i \in Waiting
    /\ \A j \in Waiting : i <= j
    /\ Cardinality(Running) < SLOTS

StartTask(i) ==
    /\ CanStart(i)
    /\ task' = [task EXCEPT ![i] = "running"]
    /\ UNCHANGED <<enabled, phase, resources, clusterUp, age, elapsed, fanned,
                   data, available>>

(* limited_task ends with r.                                               *)
Settle(i, r) ==
    /\ phase = "fanout" /\ task[i] = "running"
    /\ task' = [task EXCEPT ![i] = r]
    /\ age' = [age EXCEPT ![i] = 0]
    /\ UNCHANGED <<enabled, phase, resources, clusterUp, elapsed, fanned, data,
                   available>>

TaskReturns(i) ==
    \E r \in {"list", "nothing"}
             \union (IF TaskList[i] \in Fragile THEN {"bad"} ELSE {}) :
       Settle(i, r)

TaskTimesOut(i) ==
    /\ age[i] = TASK_TIMEOUT
    /\ Settle(i, "timeout")

FanoutDone == phase = "fanout" /\ \A i \in Positions : ~Busy(i)

-----------------------------------------------------------------------------
(* Unpacking goes through the sections in this order; those of an option   *)
(* that is off take no result and leave idx where it is.                   *)
UnpackOrder == Fixed \o <<"hardware", "smart", "memory">>
Takes(s) == s \notin Optional \ enabled
PlaceOf(s) == CHOOSE k \in 1..Len(UnpackOrder) : UnpackOrder[k] = s

(* Mutant: the block of SMART does not move idx on.                        *)
IndexSkipsSmart(s) ==
    Cardinality({k \in 1..PlaceOf(s) : /\ Takes(UnpackOrder[k])
                                       /\ UnpackOrder[k] = "smart" => s = "smart"})

(* Where idx stands when the section takes its result.                     *)
IndexOf(s) == Cardinality({k \in 1..PlaceOf(s) : Takes(UnpackOrder[k])})

Unpacked(s) ==
    IF Takes(s) /\ task[IndexOf(s)] = "list" THEN TaskList[IndexOf(s)]
    ELSE "empty"

EndRefresh ==
    /\ phase' = "idle"
    /\ resources' = "nothing" /\ clusterUp' = 0
    /\ task' = [i \in Positions |-> "waiting"]
    /\ age' = [i \in Positions |-> 0]
    /\ elapsed' = 0 /\ fanned' = 0
    /\ UNCHANGED enabled

Publish ==
    /\ FanoutDone
    /\ \A i \in Positions : task[i] # "bad"
    /\ data' = [cluster |-> resources,
                section |-> [s \in Sections |-> Unpacked(s)]]
    /\ available' = TRUE
    /\ EndRefresh

Abort == KeepPrevious(data, available) /\ EndRefresh

UnpackFails ==
    /\ FanoutDone
    /\ \E i \in Positions : task[i] = "bad"
    /\ Abort

OuterTimeout ==
    /\ phase # "idle"
    /\ elapsed = OUTER_TIMEOUT
    /\ Abort

(* Time passes only when the event loop has nothing left to do.            *)
Tick ==
    /\ phase # "idle"
    /\ elapsed < OUTER_TIMEOUT
    /\ phase = "cluster" => ~ClusterDone /\ elapsed < CLUSTER_TIMEOUT
    /\ phase = "fanout" =>
          /\ ~FanoutDone
          /\ \A i \in Positions : ~CanStart(i)
          /\ \A i \in Running : age[i] < TASK_TIMEOUT
    /\ elapsed' = elapsed + 1
    /\ age' = [i \in Positions |-> IF i \in Running THEN age[i] + 1 ELSE age[i]]
    /\ UNCHANGED <<enabled, phase, resources, clusterUp, task, fanned, data,
                   available>>

-----------------------------------------------------------------------------
Next ==
    \/ StartRefresh
    \/ \E r \in {"list", "nothing"} : ResourcesReturn(r)
    \/ ClusterCallReturns
    \/ StartFanout
    \/ \E i \in Positions :
          \/ StartTask(i)
          \/ TaskReturns(i)
          \/ TaskTimesOut(i)
    \/ Publish
    \/ UnpackFails
    \/ OuterTimeout
    \/ Tick

Spec == Init /\ [][Next]_vars

-----------------------------------------------------------------------------
(* Correctness.                                                            *)

(* The calls are served in order, SLOTS at a time, and slow ones cost only  *)
(* the waves behind them: by the time q timeouts have passed since the      *)
(* calls were handed out, the first q waves are back or have just used up   *)
(* their time.  With the program's 5 slots and 20 s of 45 s the first five  *)
(* calls are safe from the outer timeout when the cluster's answers came    *)
(* within 25 s, the first ten within 5 s, and the last four never.          *)
EarlyCallsAreServed ==
    phase = "fanout" =>
       \A i \in Positions :
          i <= SLOTS * ((elapsed - fanned) \div TASK_TIMEOUT)
             => ~Busy(i) \/ age[i] = TASK_TIMEOUT

(* A new snapshot appears only when every call of this refresh is back,    *)
(* and each section holds the payload of its own call or is empty, for     *)
(* every combination of the options: the positions are never mixed up.     *)
SnapshotIsWhole ==
    [][data' # data =>
          /\ FanoutDone
          /\ data'.cluster = resources
          /\ \A i \in Positions :
                data'.section[TaskList[i]] =
                   IF task[i] = "list" THEN TaskList[i] ELSE "empty"
          /\ \A s \in Optional \ enabled : data'.section[s] = "empty"]_vars

(* Once a refresh has succeeded no failing refresh takes the entities      *)
(* down.                                                                   *)
SnapshotKeepsAvailable == data # NONE => available

(* The refresh implements the promise of LastGood.                         *)
Promise == INSTANCE LastGood WITH Snapshots <- Snapshots, NONE <- NONE,
                                  data <- data, available <- available
ImplementsLastGood == Promise!Spec

(* "Keep the last-known values and try again next interval; only fail hard *)
(* when nothing has ever succeeded (first update, host down, bad auth)": a *)
(* refresh in which no call brought anything publishes nothing.  (The      *)
(* cluster/resources of a host that answers lists at least the node.)      *)
DownHostPublishesNothing ==
    [][data' # data =>
          \/ data'.cluster = "list"
          \/ \E s \in Sections : data'.section[s] # "empty"]_vars
=============================================================================
