----------------------------- MODULE PbsRefresh -----------------------------
(***************************************************************************)
(* One refresh of a PBS coordinator (the PBS branch of                     *)
(* create_proxmox_coordinator): the datastores one after the other, four   *)
(* calls each, then three calls about the server, each awaited before the  *)
(* next is sent and all under one outer timeout.                           *)
(*                                                                         *)
(* A payload is named by the store it came from, so that one in a wrong    *)
(* row shows; NONE is the empty one.  A call that fails is empty for the   *)
(* wrapper in api.py, which leaves the try around gc and snapshots nothing *)
(* to catch; get_pbs_datastore_usage sends nothing and adds nothing.  How  *)
(* long a call takes is left open.                                         *)
(***************************************************************************)
EXTENDS Naturals, Sequences, Coordinator

CONSTANTS
    Stores,      \* the datastores the server may have
    StoreLists   \* the lists of them it may report or a user may select

ASSUME PbsAssumption ==
    /\ StoreLists \subseteq Seq(Stores)
    /\ OUTER_TIMEOUT \in Nat \ {0}
    /\ NONE \notin Stores /\ NONE \notin StoreLists

VARIABLES
    selected,      \* selected_storage of the entry: NONE or a list of stores
    withTasks,     \* enable_pbs_tasks
    walk,          \* "idle", "listing", "stores", "server" or "done"
    stores,        \* actual_stores of this refresh
    at,            \* the store being asked, by its position
    call,          \* the call under way, by its position
    row,           \* the answers of this store
    rows,          \* the sections of the stores so far
    reachable,     \* pbs_auth_status: whether the version came
    pbsElapsed,    \* how long the refresh has been running
    pbsData,       \* coordinator.data
    pbsAvailable   \* coordinator.last_update_success

optionVars == <<selected, withTasks>>
rowVars == <<at, row>>
promiseVars == <<pbsData, pbsAvailable>>
pbsVars == <<optionVars, walk, stores, rowVars, call, rows, reachable, pbsElapsed,
             promiseVars>>

StoreCalls == <<"status", "backups", "gc", "snapshots">>
ServerCalls == <<"node", "version", "tasks">>
StoreSections == {"pbs_datastores", "pbs_gc", "pbs_snapshots"}
SectionOf(c) == CASE c = "gc" -> "pbs_gc"
                  [] c = "snapshots" -> "pbs_snapshots"
                  [] OTHER -> "pbs_datastores"
Listed == {stores[i] : i \in 1..Len(stores)}

Rows == [StoreSections -> Stores \union {NONE}]
RowSets == UNION {[S -> Rows] : S \in SUBSET Stores}
Blank == [section \in StoreSections |-> NONE]
NoRows == [s \in {} |-> Blank]
PbsSnapshots == [rows : RowSets, reachable : BOOLEAN]

PbsTypeOK ==
    /\ selected \in StoreLists \union {NONE}
    /\ withTasks \in BOOLEAN
    /\ walk \in {"idle", "listing", "stores", "server", "done"}
    /\ stores \in StoreLists \union {<< >>}
    /\ walk = "stores" => at \in 1..Len(stores) /\ call \in 1..Len(StoreCalls)
    /\ walk = "server" => call \in 1..Len(ServerCalls)
    /\ row \in Rows
    /\ rows \in RowSets
    /\ reachable \in BOOLEAN
    /\ pbsElapsed \in 0..OUTER_TIMEOUT
    /\ pbsData \in PbsSnapshots \union {NONE}
    /\ pbsAvailable \in BOOLEAN

PbsInit ==
    /\ selected \in StoreLists \union {NONE}
    /\ withTasks \in BOOLEAN
    /\ walk = "idle" /\ pbsElapsed = 0
    /\ stores = << >> /\ at = 1 /\ call = 1
    /\ row = Blank /\ rows = NoRows /\ reachable = FALSE
    /\ pbsData = NONE /\ pbsAvailable = FALSE

-----------------------------------------------------------------------------
WalkOver(list) ==
    /\ stores' = list
    /\ walk' = IF list = << >> THEN "server" ELSE "stores"
    /\ at' = 1 /\ call' = 1 /\ row' = Blank

(* Mutant: the sections are filled into the previous snapshot.             *)
FirstRowsOfOld == IF pbsData = NONE THEN NoRows ELSE pbsData.rows

FirstRows == NoRows

(* An empty selection asks no store; without one the server is asked first *)
(* which stores it has.                                                    *)
PbsStart ==
    /\ walk = "idle"
    /\ pbsElapsed' = 0
    /\ rows' = FirstRows /\ reachable' = FALSE
    /\ IF selected = NONE
       THEN walk' = "listing" /\ UNCHANGED <<stores, rowVars, call>>
       ELSE WalkOver(selected)
    /\ UNCHANGED <<optionVars, promiseVars>>

ListStores(list) ==
    /\ walk = "listing"
    /\ WalkOver(list)
    /\ UNCHANGED <<optionVars, rows, reachable, pbsElapsed, promiseVars>>

(* Mutant: what the store before answered is still there.                  *)
NextStoreKeepsRow ==
    /\ call' = 1 /\ UNCHANGED row
    /\ IF at = Len(stores)
       THEN walk' = "server" /\ UNCHANGED at
       ELSE at' = at + 1 /\ UNCHANGED walk

NextStore ==
    /\ call' = 1 /\ row' = Blank
    /\ IF at = Len(stores)
       THEN walk' = "server" /\ UNCHANGED at
       ELSE at' = at + 1 /\ UNCHANGED walk

Filled(answered) ==
    IF answered THEN [row EXCEPT ![SectionOf(StoreCalls[call])] = stores[at]]
                ELSE row

(* One call of a store is back; the last one completes the store's row.    *)
StoreAnswers(answered) ==
    /\ walk = "stores"
    /\ IF call < Len(StoreCalls)
       THEN /\ call' = call + 1 /\ row' = Filled(answered)
            /\ UNCHANGED <<walk, at, rows>>
       ELSE /\ rows' = [s \in DOMAIN rows \union {stores[at]} |->
                           IF s = stores[at] THEN Filled(answered) ELSE rows[s]]
            /\ NextStore
    /\ UNCHANGED <<optionVars, stores, reachable, pbsElapsed, promiseVars>>

(* The tasks are asked for only if the entry wants them.                   *)
LastServerCall == IF withTasks THEN Len(ServerCalls) ELSE Len(ServerCalls) - 1

ServerAnswers(answered) ==
    /\ walk = "server"
    /\ reachable' = IF ServerCalls[call] = "version" THEN answered ELSE reachable
    /\ IF call < LastServerCall
       THEN call' = call + 1 /\ UNCHANGED walk
       ELSE walk' = "done" /\ UNCHANGED call
    /\ UNCHANGED <<optionVars, stores, rowVars, rows, pbsElapsed, promiseVars>>

(* The locals of the refresh are gone.                                     *)
PbsEnd ==
    /\ walk' = "idle"
    /\ stores' = << >> /\ at' = 1 /\ call' = 1
    /\ row' = Blank /\ rows' = NoRows /\ reachable' = FALSE
    /\ UNCHANGED <<optionVars, pbsElapsed>>

PbsPublish ==
    /\ walk = "done"
    /\ pbsData' = [rows |-> rows, reachable |-> reachable]
    /\ pbsAvailable' = TRUE
    /\ PbsEnd

PbsAbort == KeepPrevious(pbsData, pbsAvailable) /\ PbsEnd

(* Backups that cannot be sorted by their time, or one whose verification  *)
(* is null, fail the refresh of every store.                               *)
MalformedBackups ==
    /\ walk = "stores" /\ StoreCalls[call] = "backups"
    /\ PbsAbort

PbsTimeout ==
    /\ walk # "idle"
    /\ pbsElapsed = OUTER_TIMEOUT
    /\ PbsAbort

PbsTick ==
    /\ walk \in {"listing", "stores", "server"}
    /\ pbsElapsed < OUTER_TIMEOUT
    /\ pbsElapsed' = pbsElapsed + 1
    /\ UNCHANGED <<optionVars, walk, stores, rowVars, call, rows, reachable,
                   promiseVars>>

PbsNext ==
    \/ PbsStart
    \/ \E list \in StoreLists : ListStores(list)
    \/ \E answered \in BOOLEAN : StoreAnswers(answered) \/ ServerAnswers(answered)
    \/ PbsPublish
    \/ MalformedBackups
    \/ PbsTimeout
    \/ PbsTick

PbsSpec == PbsInit /\ [][PbsNext]_pbsVars

-----------------------------------------------------------------------------
(* A new snapshot has exactly the rows of the stores this refresh asked,   *)
(* each holding answers of its own store only, however the calls failed,   *)
(* whatever was cut off and whatever the snapshot before held.             *)
PbsSnapshotIsWhole ==
    [][pbsData' # pbsData =>
          /\ walk = "done"
          /\ DOMAIN pbsData'.rows = Listed
          /\ \A s \in Listed : \A section \in StoreSections :
                pbsData'.rows[s][section] \in {s, NONE}]_pbsVars
=============================================================================
