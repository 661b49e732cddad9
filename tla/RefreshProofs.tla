---------------------------- MODULE RefreshProofs ----------------------------
(***************************************************************************)
(* Theorems about PbsRefresh, whose snapshots never mix two stores, and    *)
(* about ClusterRefresh, which implements LastGood, for any stores, lists  *)
(* and timeouts.  And about Coordinators and CoordinatorData: the          *)
(* coordinator of an entry of any kind, with the sensors that go by it,    *)
(* keeps what its parts do.                                                *)
(***************************************************************************)
EXTENDS CoordinatorData, PollCycleProofs, SensorProofs, TLAPS

-----------------------------------------------------------------------------
(* What the walk over the stores knows: the rows so far are those of the   *)
(* stores behind it, and every row, the one being filled included, holds   *)
(* answers of its own store.                                               *)
Behind == {stores[j] : j \in 1..(at - 1)}

RowsSoFar ==
    /\ walk \in {"idle", "listing"} => DOMAIN rows = {}
    /\ walk = "stores" => DOMAIN rows = Behind
    /\ walk \in {"server", "done"} => DOMAIN rows = Listed

RowsAreOwn ==
    /\ walk = "stores" => \A x \in StoreSections : row[x] \in {stores[at], NONE}
    /\ \A s \in DOMAIN rows : \A x \in StoreSections : rows[s][x] \in {s, NONE}

PbsInv == PbsTypeOK /\ RowsSoFar /\ RowsAreOwn

(* The sections of a call are sections, and there are four and three calls.*)
LEMMA CallsAndSections ==
    /\ Len(StoreCalls) = 4 /\ Len(ServerCalls) = 3
    /\ \A c : SectionOf(c) \in StoreSections
  BY DEF StoreCalls, ServerCalls, SectionOf, StoreSections

(* A list the walk is given is a sequence of stores and not NONE.          *)
LEMMA ListsAreSequences ==
    \A list \in StoreLists : list \in Seq(Stores) /\ list # NONE
  BY PbsAssumption

(* The empty row and the empty set of rows.                                *)
LEMMA EmptyRows ==
    /\ Blank \in Rows /\ NoRows \in RowSets /\ DOMAIN NoRows = {}
    /\ \A x \in StoreSections : Blank[x] = NONE
<1>1. Blank \in Rows /\ \A x \in StoreSections : Blank[x] = NONE
  BY DEF Blank, Rows
<1>2. NoRows \in [{} -> Rows] /\ DOMAIN NoRows = {}
  BY DEF NoRows
<1> QED BY <1>1, <1>2 DEF RowSets

(* Sets of rows are functions from some of the stores.                     *)
LEMMA RowSetsAre ==
    \A r : r \in RowSets <=> r \in [DOMAIN r -> Rows] /\ DOMAIN r \subseteq Stores
<1>1. ASSUME NEW r \in RowSets
      PROVE  r \in [DOMAIN r -> Rows] /\ DOMAIN r \subseteq Stores
  <2>1. PICK S \in SUBSET Stores : r \in [S -> Rows]
    BY <1>1 DEF RowSets
  <2> QED BY <2>1
<1>2. ASSUME NEW r, r \in [DOMAIN r -> Rows], DOMAIN r \subseteq Stores
      PROVE  r \in RowSets
  BY <1>2 DEF RowSets
<1> QED BY <1>1, <1>2

(* The walk begins before the first store.                                 *)
LEMMA WalkBegins ==
    ASSUME NEW list \in StoreLists, WalkOver(list), rows' = NoRows
    PROVE  /\ stores' \in StoreLists \union {<< >>}
           /\ walk' \in {"stores", "server"}
           /\ walk' = "stores" => at' \in 1..Len(stores') /\ call' \in 1..Len(StoreCalls)
           /\ walk' = "server" => call' \in 1..Len(ServerCalls)
           /\ row' \in Rows /\ rows' \in RowSets
           /\ RowsSoFar' /\ RowsAreOwn'
<1>1. stores' = list /\ at' = 1 /\ call' = 1 /\ row' = Blank
  BY DEF WalkOver
<1>2. list \in Seq(Stores) /\ Len(list) \in Nat
  BY ListsAreSequences
<1>3. CASE list = << >>
  <2>1. walk' = "server" /\ Listed' = {}
    BY <1>1, <1>3 DEF WalkOver, Listed
  <2> QED BY <1>1, <2>1, EmptyRows, CallsAndSections DEF RowsSoFar, RowsAreOwn
<1>4. CASE list # << >>
  <2>1. walk' = "stores" /\ Len(list) >= 1 /\ Behind' = {}
    BY <1>1, <1>2, <1>4 DEF WalkOver, Behind
  <2> QED BY <1>1, <1>2, <2>1, EmptyRows, CallsAndSections DEF RowsSoFar, RowsAreOwn
<1> QED BY <1>3, <1>4

(* Nothing of a refresh is left behind.                                    *)
LEMMA EndIsClean ==
    ASSUME PbsInv, PbsEnd, pbsData' \in PbsSnapshots \union {NONE},
           pbsAvailable' \in BOOLEAN
    PROVE  PbsInv'
  BY EmptyRows DEF PbsInv, PbsTypeOK, PbsEnd, optionVars, RowsSoFar, RowsAreOwn

(* An abort keeps the snapshot.                                            *)
LEMMA AbortIsClean == PbsInv /\ PbsAbort => PbsInv'
<1> SUFFICES ASSUME PbsInv, PbsAbort PROVE PbsInv' OBVIOUS
<1>1. pbsData' \in PbsSnapshots \union {NONE} /\ pbsAvailable' \in BOOLEAN /\ PbsEnd
  BY DEF PbsInv, PbsTypeOK, PbsAbort, KeepPrevious
<1> QED BY <1>1, EndIsClean

(* One answer about a store, the last one included, keeps the rows right.  *)
LEMMA AnswersKeepRows ==
    ASSUME PbsInv, NEW answered \in BOOLEAN, StoreAnswers(answered)
    PROVE  PbsInv'
<1> USE CallsAndSections
<1>1. /\ walk = "stores" /\ at \in 1..Len(stores) /\ call \in 1..4
      /\ stores \in Seq(Stores) /\ Len(stores) \in Nat /\ stores[at] \in Stores
  BY ListsAreSequences DEF PbsInv, PbsTypeOK, StoreAnswers
<1> DEFINE F == Filled(answered)
<1>2. F \in Rows /\ \A x \in StoreSections : F[x] \in {stores[at], NONE}
  BY <1>1 DEF PbsInv, PbsTypeOK, RowsAreOwn, Filled, Rows
<1>3. /\ DOMAIN rows = Behind /\ rows \in [DOMAIN rows -> Rows] /\ DOMAIN rows \subseteq Stores
      /\ \A s \in DOMAIN rows : \A x \in StoreSections : rows[s][x] \in {s, NONE}
  BY <1>1, RowSetsAre DEF PbsInv, PbsTypeOK, RowsSoFar, RowsAreOwn
<1>4. /\ stores' = stores
      /\ UNCHANGED <<optionVars, reachable, pbsElapsed, promiseVars>>
  BY DEF StoreAnswers
<1>5. CASE call < 4
  <2>1. call' = call + 1 /\ row' = F /\ walk' = walk /\ at' = at /\ rows' = rows
    BY <1>5 DEF StoreAnswers
  <2>2. PbsTypeOK'
    BY <1>1, <1>2, <1>4, <1>5, <2>1 DEF PbsInv, PbsTypeOK, optionVars, promiseVars
  <2>3. RowsSoFar' /\ RowsAreOwn'
    BY <1>1, <1>2, <1>3, <1>4, <2>1 DEF RowsSoFar, RowsAreOwn, Behind
  <2> QED BY <2>2, <2>3 DEF PbsInv
<1>6. CASE call = 4
  <2>1. /\ rows' = [s \in DOMAIN rows \union {stores[at]} |->
                       IF s = stores[at] THEN F ELSE rows[s]]
        /\ NextStore
    BY <1>6 DEF StoreAnswers
  <2>2. rows' \in RowSets /\ DOMAIN rows' = Behind \union {stores[at]}
    BY <1>1, <1>2, <1>3, <2>1, RowSetsAre
  <2>3. \A s \in DOMAIN rows' : \A x \in StoreSections : rows'[s][x] \in {s, NONE}
    BY <1>2, <1>3, <2>1
  <2>4. Behind \union {stores[at]} = {stores[j] : j \in 1..at}
    BY <1>1 DEF Behind
  <2>5. call' = 1 /\ row' = Blank
    BY <2>1 DEF NextStore
  <2>6. CASE at = Len(stores)
    <3>1. walk' = "server" /\ at' = at
      BY <2>1, <2>6 DEF NextStore
    <3>2. Listed' = {stores[j] : j \in 1..at}
      BY <1>4, <2>6 DEF Listed
    <3>3. PbsTypeOK'
      BY <1>4, <2>2, <2>5, <3>1, EmptyRows DEF PbsInv, PbsTypeOK, optionVars, promiseVars
    <3> QED BY <2>2, <2>3, <2>4, <3>1, <3>2, <3>3 DEF PbsInv, RowsSoFar, RowsAreOwn
  <2>7. CASE at # Len(stores)
    <3>1. walk' = walk /\ at' = at + 1
      BY <2>1, <2>7 DEF NextStore
    <3>2. at' \in 1..Len(stores) /\ Behind' = {stores[j] : j \in 1..at}
      BY <1>1, <1>4, <2>7, <3>1 DEF Behind
    <3>3. PbsTypeOK'
      BY <1>1, <1>4, <2>2, <2>5, <3>1, <3>2, EmptyRows
      DEF PbsInv, PbsTypeOK, optionVars, promiseVars
    <3> QED BY <1>1, <2>2, <2>3, <2>4, <2>5, <3>1, <3>2, <3>3, EmptyRows
            DEF PbsInv, RowsSoFar, RowsAreOwn
  <2> QED BY <2>6, <2>7
<1> QED BY <1>1, <1>5, <1>6

(* One answer about the server.                                            *)
LEMMA ServerAnswersKeep ==
    ASSUME PbsInv, NEW answered \in BOOLEAN, ServerAnswers(answered)
    PROVE  PbsInv'
<1> USE CallsAndSections
<1>1. /\ walk = "server" /\ call \in 1..3
      /\ UNCHANGED <<optionVars, stores, rowVars, rows, pbsElapsed, promiseVars>>
  BY DEF PbsInv, PbsTypeOK, ServerAnswers
<1>2. reachable' \in BOOLEAN
  BY DEF PbsInv, PbsTypeOK, ServerAnswers
<1>3. LastServerCall \in 2..3
  BY DEF LastServerCall
<1>4. \/ walk' = "server" /\ call' \in 1..3
      \/ walk' = "done" /\ call' = call
  BY <1>1, <1>3 DEF ServerAnswers
<1>5. PbsTypeOK'
  BY <1>1, <1>2, <1>4 DEF PbsInv, PbsTypeOK, optionVars, rowVars, promiseVars
<1> QED BY <1>1, <1>4, <1>5
        DEF PbsInv, RowsSoFar, RowsAreOwn, Listed, rowVars

(* Every step keeps the invariant.                                         *)
LEMMA PbsStepKeeps == PbsInv /\ [PbsNext]_pbsVars => PbsInv'
<1> SUFFICES ASSUME PbsInv, [PbsNext]_pbsVars PROVE PbsInv' OBVIOUS
<1>1. CASE PbsStart
  <2>1. /\ rows' = NoRows /\ reachable' = FALSE /\ pbsElapsed' = 0
        /\ UNCHANGED <<optionVars, promiseVars>>
    BY <1>1 DEF PbsStart, FirstRows
  <2>2. 0 \in 0..OUTER_TIMEOUT
    BY PbsAssumption
  <2>3. CASE selected = NONE
    <3>1. walk' = "listing" /\ UNCHANGED <<stores, rowVars, call>>
      BY <1>1, <2>3 DEF PbsStart
    <3> QED BY <2>1, <2>2, <3>1, EmptyRows
            DEF PbsInv, PbsTypeOK, RowsSoFar, RowsAreOwn, optionVars, rowVars, promiseVars
  <2>4. CASE selected # NONE
    <3>1. selected \in StoreLists /\ WalkOver(selected)
      BY <1>1, <2>4 DEF PbsStart, PbsInv, PbsTypeOK
    <3> QED BY <2>1, <2>2, <3>1, WalkBegins DEF PbsInv, PbsTypeOK, optionVars, promiseVars
  <2> QED BY <2>3, <2>4
<1>2. ASSUME NEW list \in StoreLists, ListStores(list) PROVE PbsInv'
  <2>1. /\ WalkOver(list) /\ walk = "listing"
        /\ UNCHANGED <<optionVars, rows, reachable, pbsElapsed, promiseVars>>
    BY <1>2 DEF ListStores
  <2>2. rows = NoRows
    BY <2>1, RowSetsAre, EmptyRows DEF PbsInv, PbsTypeOK, RowsSoFar
  <2> QED BY <1>2, <2>1, <2>2, WalkBegins DEF PbsInv, PbsTypeOK, optionVars, promiseVars
<1>3. ASSUME NEW answered \in BOOLEAN, StoreAnswers(answered) PROVE PbsInv'
  BY <1>3, AnswersKeepRows
<1>4. ASSUME NEW answered \in BOOLEAN, ServerAnswers(answered) PROVE PbsInv'
  BY <1>4, ServerAnswersKeep
<1>5. CASE PbsPublish
  BY <1>5, EndIsClean DEF PbsPublish, PbsInv, PbsTypeOK, PbsSnapshots
<1>6. CASE MalformedBackups
  BY <1>6, AbortIsClean DEF MalformedBackups
<1>7. CASE PbsTimeout
  BY <1>7, AbortIsClean DEF PbsTimeout
<1>8. CASE PbsTick
  <2>1. pbsElapsed' \in 0..OUTER_TIMEOUT
    BY <1>8, PbsAssumption DEF PbsTick, PbsInv, PbsTypeOK
  <2> QED BY <1>8, <2>1
          DEF PbsTick, PbsInv, PbsTypeOK, RowsSoFar, RowsAreOwn, Listed, Behind,
              optionVars, rowVars, promiseVars
<1>9. CASE UNCHANGED pbsVars
  BY <1>9 DEF PbsInv, PbsTypeOK, RowsSoFar, RowsAreOwn, Listed, Behind,
              pbsVars, optionVars, rowVars, promiseVars
<1> QED BY <1>1, <1>2, <1>3, <1>4, <1>5, <1>6, <1>7, <1>8, <1>9 DEF PbsNext

(* The invariant of the walk holds in every behaviour.                     *)
THEOREM PbsInvariance == PbsSpec => []PbsInv
<1>0. 0 \in 0..OUTER_TIMEOUT
  BY PbsAssumption
<1>1. PbsInit => PbsInv
  BY <1>0, EmptyRows DEF PbsInit, PbsInv, PbsTypeOK, RowsSoFar, RowsAreOwn
<1> QED BY <1>1, PbsStepKeeps, PTL DEF PbsSpec

(* Every variable of the refresh keeps its type.                           *)
THEOREM PbsTypeCorrect == PbsSpec => []PbsTypeOK
<1>1. PbsInv => PbsTypeOK
  BY DEF PbsInv
<1> QED BY <1>1, PbsInvariance, PTL

(* Only publishing changes the snapshot.                                   *)
LEMMA OnlyPublishChanges ==
    ASSUME [PbsNext]_pbsVars, promiseVars' # promiseVars
    PROVE  PbsPublish \/ PbsAbort
  BY DEF PbsNext, PbsStart, ListStores, StoreAnswers, ServerAnswers,
         MalformedBackups, PbsTimeout, PbsTick, pbsVars

(* No snapshot mixes two stores, lacks a store or keeps one that was not   *)
(* asked, for any stores and any failures.                                 *)
THEOREM PbsSnapshotsAreWhole == PbsSpec => PbsSnapshotIsWhole
<1>1. ASSUME PbsInv, [PbsNext]_pbsVars, pbsData' # pbsData
      PROVE  /\ walk = "done"
             /\ DOMAIN pbsData'.rows = Listed
             /\ \A s \in Listed : \A section \in StoreSections :
                   pbsData'.rows[s][section] \in {s, NONE}
  <2>1. PbsPublish
    BY <1>1, OnlyPublishChanges DEF PbsAbort, KeepPrevious, promiseVars
  <2>2. walk = "done" /\ pbsData'.rows = rows
    BY <2>1 DEF PbsPublish
  <2> QED BY <1>1, <2>2 DEF PbsInv, RowsSoFar, RowsAreOwn
<1>2. PbsInv /\ [PbsNext]_pbsVars =>
         [pbsData' # pbsData =>
            /\ walk = "done"
            /\ DOMAIN pbsData'.rows = Listed
            /\ \A s \in Listed : \A section \in StoreSections :
                  pbsData'.rows[s][section] \in {s, NONE}]_pbsVars
  BY <1>1
<1> QED BY <1>2, PbsInvariance, PTL DEF PbsSpec, PbsSnapshotIsWhole

-----------------------------------------------------------------------------
(* The cluster coordinator.                                                *)

(* A section holds the answer of its own call or nothing.                  *)
LEMMA SectionsAreTyped ==
    \A s \in ClusterCalls : Section(s) \in ClusterCalls \union {"empty"}
  BY DEF Section

(* Every step of the cluster coordinator keeps its types.                  *)
LEMMA ClusterStepKeeps == ClusterTypeOK /\ [ClusterNext]_clusterVars => ClusterTypeOK'
<1> SUFFICES ASSUME ClusterTypeOK, [ClusterNext]_clusterVars PROVE ClusterTypeOK' OBVIOUS
<1> USE DEF ClusterTypeOK, NoCalls
<1>1. CASE ClusterStart
  BY <1>1, ClusterAssumption DEF ClusterStart
<1>2. ASSUME NEW c \in ClusterCalls, NEW r \in {"good", "empty", "broken"}, CallReturns(c, r)
      PROVE  ClusterTypeOK'
  BY <1>2 DEF CallReturns
<1>3. CASE ClusterPublish
  <2>1. clusterData' \in ClusterSnapshots
    <3>1. "jobs" \in ClusterCalls /\ "tasks" \in ClusterCalls /\ PlainSections \subseteq ClusterCalls
      BY DEF ClusterCalls, PlainSections
    <3> QED BY <1>3, <3>1, SectionsAreTyped DEF ClusterPublish, ClusterSnapshots
  <2> QED BY <1>3, <2>1 DEF ClusterPublish
<1>4. CASE BuildFails
  BY <1>4 DEF BuildFails, ClusterAbort
<1>5. CASE ClusterTimeout
  BY <1>5 DEF ClusterTimeout, ClusterAbort
<1>6. CASE ClusterTick
  BY <1>6, ClusterAssumption DEF ClusterTick
<1>7. CASE UNCHANGED clusterVars
  BY <1>7 DEF clusterVars
<1> QED BY <1>1, <1>2, <1>3, <1>4, <1>5, <1>6, <1>7 DEF ClusterNext

(* Every variable of the cluster refresh keeps its type.                   *)
THEOREM ClusterTypeCorrect == ClusterSpec => []ClusterTypeOK
<1>0. 0 \in 0..CLUSTER_OUTER_TIMEOUT
  BY ClusterAssumption
<1>1. ClusterInit => ClusterTypeOK
  BY <1>0 DEF ClusterInit, ClusterTypeOK, NoCalls
<1> QED BY <1>1, ClusterStepKeeps, PTL DEF ClusterSpec

(* What a step does to the snapshot and the availability.                  *)
LEMMA ClusterPublishesOrAborts ==
    ASSUME [ClusterNext]_clusterVars,
           <<clusterData, clusterAvailable>>' # <<clusterData, clusterAvailable>>
    PROVE  ClusterPublish \/ ClusterAbort
  BY DEF ClusterNext, ClusterStart, CallReturns, BuildFails, ClusterTimeout,
         ClusterTick, clusterVars

(* The refresh of the cluster coordinator implements what LastGood         *)
(* promises.                                                               *)
THEOREM ClusterRefreshImplementsLastGood == ClusterSpec => ClusterImplementsLastGood
<1>1. ClusterInit => ClusterPromise!Init
  BY DEF ClusterInit, ClusterPromise!Init
<1>2. ASSUME ClusterTypeOK, ClusterTypeOK', [ClusterNext]_clusterVars
      PROVE  [ClusterPromise!Next]_<<clusterData, clusterAvailable>>
  <2>1. CASE ClusterPublish
    <3>1. clusterData' \in ClusterSnapshots
      <4>1. "jobs" \in ClusterCalls /\ "tasks" \in ClusterCalls /\ PlainSections \subseteq ClusterCalls
        BY DEF ClusterCalls, PlainSections
      <4> QED BY <2>1, <4>1, SectionsAreTyped DEF ClusterPublish, ClusterSnapshots
    <3> QED BY <2>1, <3>1 DEF ClusterPublish, ClusterPromise!Next, ClusterPromise!Publish
  <2>2. CASE ClusterAbort
    BY <2>2 DEF ClusterAbort, ClusterPromise!Next, ClusterPromise!KeepLast,
                ClusterPromise!FailFirst
  <2> QED BY <1>2, <2>1, <2>2, ClusterPublishesOrAborts
<1> QED BY <1>1, <1>2, ClusterTypeCorrect, PTL
        DEF ClusterSpec, ClusterImplementsLastGood, ClusterPromise!Spec

-----------------------------------------------------------------------------
(* The coordinator of an entry.                                            *)

(* A coordinator of any kind is one of each kind, two of which never begin.*)
THEOREM CoordinatorIsOneOfEach == CoordinatorSpec => Spec /\ PbsSpec /\ ClusterSpec
<1>1. CoordinatorInit => Init /\ PbsInit /\ ClusterInit
  BY DEF CoordinatorInit
<1>2. ASSUME [CoordinatorNext]_coordinatorVars
      PROVE  [Next]_vars /\ [PbsNext]_pbsVars /\ [ClusterNext]_clusterVars
  <2>1. CASE UNCHANGED coordinatorVars
    BY <2>1 DEF coordinatorVars
  <2>2. CASE CoordinatorNext
    BY <2>2 DEF CoordinatorNext
  <2> QED BY <1>2, <2>1, <2>2
<1> QED BY <1>1, <1>2, PTL DEF CoordinatorSpec, Spec, PbsSpec, ClusterSpec

(* With its sensors it behaves like each of its parts.                     *)
LEMMA CoordinatorDataIsAllOfThem ==
    CoordinatorDataSpec => CoordinatorSpec /\ HistorySpec /\ MaintenanceSpec
<1>1. CoordinatorDataInit => CoordinatorInit /\ HistoryInit /\ MaintenanceInit
  BY DEF CoordinatorDataInit
<1>2. ASSUME [CoordinatorDataNext]_coordinatorDataVars
      PROVE  /\ [CoordinatorNext]_coordinatorVars
             /\ [HistoryNext]_historyVars
             /\ [MaintenanceNext]_maintenanceVars
  <2>1. CASE UNCHANGED coordinatorDataVars
    BY <2>1 DEF coordinatorDataVars
  <2>2. CASE CoordinatorDataNext
    BY <2>2 DEF CoordinatorDataNext
  <2> QED BY <1>2, <2>1, <2>2
<1> QED BY <1>1, <1>2, PTL DEF CoordinatorDataSpec, CoordinatorSpec, HistorySpec, MaintenanceSpec

(* What holds of the parts holds of a coordinator with its sensors, that   *)
(* is of the system the model is checked as.                               *)
THEOREM CoordinatorDataIsCorrect ==
    CoordinatorDataSpec =>
        /\ [](TypeOK /\ EarlyCallsAreServed /\ HealthyMeansRecent /\ ErrorIsCounted
              /\ MaintenanceIsTrue)
        /\ SnapshotIsWhole /\ PbsSnapshotIsWhole
        /\ ImplementsLastGood /\ ClusterImplementsLastGood
BY CoordinatorDataIsAllOfThem, CoordinatorIsOneOfEach, RefreshImplementsLastGood,
   ClusterRefreshImplementsLastGood, TypeCorrect, EarlyWavesAreServed, HealthIsRecent,
   MaintenanceTruth, SnapshotsAreWhole, PbsSnapshotsAreWhole, ErrorsAreCounted, PTL
=============================================================================
