------------------------ MODULE GuestEntitiesProofs ------------------------
(***************************************************************************)
(* Theorems about GuestEntities, for every set of guests and nodes.        *)
(***************************************************************************)
EXTENDS GuestEntities, TLAPS

-----------------------------------------------------------------------------
(* The inductive invariant.                                                *)

NothingReadYet == reading # "lists" => resources = Nowhere /\ listed = NotRead

(* What was read is where the guests have been seen since.                 *)
Traced ==
    /\ \A g \in Guests : where[g] \in seen[g]
    /\ resources # Nowhere => \A g \in Guests : resources[g] \in seen[g]
    /\ \A k \in Kinds : listed[k] # NONE =>
          /\ \A g \in listed[k] : Own \in seen[g]
          /\ listed[k] # {} =>
                \A g \in OfKind(k) \ listed[k] : \E n \in seen[g] : n # Own

(* A guest has its sensor and its buttons, or neither.                     *)
Together ==
    \A g \in Guests : <<"sensor", g>> \in registry <=> <<"button", g>> \in registry

IInv ==
    /\ TypeOK
    /\ NothingReadYet
    /\ Traced
    /\ Together

-----------------------------------------------------------------------------
(* What _build_vms_dict and _build_cts_dict make of the reads: true rows,  *)
(* of guests the selection asks for.                                       *)
LEMMA BuildIsTrue ==
    ASSUME GuestTypeOK, Traced, \A k \in Kinds : listed[k] # NONE,
           NEW g \in DOMAIN Build
    PROVE  /\ g \in Guests
           /\ Build[g] \in Rows
           /\ Build[g].current \in seen[g]
           /\ ~Build[g].migrated => Own \in seen[g]
           /\ Build[g].migrated =>
                 \A k \in Kinds : g \in OfKind(k) /\ listed[k] # {} => seen[g] # {Own}
           /\ \E k \in Kinds : /\ g \in OfKind(k)
                               /\ selected[k] = NONE \/ Names(selected[k], g)
<1> USE GuestAssumption
<1>1. PICK k \in Kinds : g \in Local(k) \union Away(k)
  BY DEF Build
<1>2. \A j \in Kinds : Local(j) \subseteq listed[j] /\ listed[j] \subseteq OfKind(j)
  BY DEF Local, GuestTypeOK
<1>3. /\ g \in OfKind(k) /\ g \in Guests
      /\ selected[k] = NONE \/ Names(selected[k], g)
  BY <1>1, <1>2 DEF Local, Away, Matches, OfKind, Guests, Kinds
<1>4. CASE \E j \in Kinds : g \in Local(j)
  <2>1. Build[g] = [current |-> Own, migrated |-> FALSE]
    BY <1>4 DEF Build
  <2>2. Own \in seen[g]
    BY <1>2, <1>4 DEF Traced
  <2> QED BY <1>3, <2>1, <2>2 DEF Rows
<1>5. CASE ~ \E j \in Kinds : g \in Local(j)
  <2>1. g \in Away(k)
    BY <1>1, <1>5
  <2>2. Build[g] = [current |-> resources[g], migrated |-> TRUE]
    BY <1>5 DEF Build
  <2>3. resources[g] # NONE /\ resources[g] \in Nodes
    BY <1>3, <2>1 DEF Away, GuestTypeOK
  <2>4. resources[g] \in seen[g]
    BY <1>3, <2>3 DEF Traced, Nowhere
  <2>5. ASSUME NEW j \in Kinds, g \in OfKind(j), listed[j] # {}
        PROVE  seen[g] # {Own}
    <3>1. CASE g \in listed[j]
      <4>1. j = k
        BY <1>3, <2>5, GuestAssumption DEF OfKind, Kinds
      <4> QED BY <1>5, <2>1, <3>1, <4>1 DEF Local, Away
    <3>2. CASE g \notin listed[j]
      BY <2>5, <3>2 DEF Traced
    <3> QED BY <3>1, <3>2
  <2> QED BY <1>3, <2>2, <2>3, <2>4, <2>5 DEF Rows
<1> QED BY <1>4, <1>5

(* Nobody who is asked for and was there is left out.                      *)
LEMMA BuildIsComplete ==
    ASSUME GuestTypeOK, Traced, \A k \in Kinds : listed[k] # NONE,
           NEW k \in Kinds, NEW g \in Guests, Wanted(k, g), NONE \notin seen[g],
           resources # Nowhere \/ (listed[k] # {} /\ seen[g] = {Own})
    PROVE  g \in DOMAIN Build
<1> USE GuestAssumption
<1>1. g \in Local(k) \/ g \in Away(k) => g \in DOMAIN Build
  BY DEF Build
<1>2. CASE resources # Nowhere
  <2>1. resources[g] # NONE
    BY <1>2 DEF Traced
  <2> QED BY <1>1, <2>1 DEF Wanted, Away
<1>3. CASE listed[k] # {} /\ seen[g] = {Own}
  <2>1. g \in listed[k]
    BY <1>3 DEF Traced, Wanted
  <2> QED BY <1>1, <2>1 DEF Wanted, Local
<1> QED BY <1>2, <1>3

-----------------------------------------------------------------------------
(* Each step keeps the invariant.                                          *)

(* The two kinds of guests, and the values the reads start from.           *)
LEMMA GuestFacts ==
    /\ Kinds = {"vms", "cts"}
    /\ OfKind("vms") = VMs /\ OfKind("cts") = CTs
    /\ \A k \in Kinds : OfKind(k) \subseteq Guests
    /\ NotRead \in [Kinds -> {NONE}]
    /\ Nowhere \in [Guests -> {NONE}]
  BY DEF Kinds, OfKind, Guests, NotRead, Nowhere

(* A load starts from a selection, no reads and an empty registry.         *)
LEMMA InitIInv == Init => IInv
<1> SUFFICES ASSUME Init
             PROVE  IInv
  OBVIOUS
<1> USE GuestAssumption, EntityAssumption DEF Init, GuestInit
<1>1. GuestTypeOK
  <2>1. \A k \in Kinds : selected[k] \in Selections(k)
    BY GuestFacts
  <2>2. DOMAIN guests = {}
    OBVIOUS
  <2> QED BY <2>1, <2>2, GuestFacts DEF GuestTypeOK
<1>2. TypeOK
  BY <1>1 DEF TypeOK, GuestTypeOK, Ids
<1>3. NothingReadYet
  BY DEF NothingReadYet
<1>4. Traced
  BY GuestFacts DEF Traced
<1>5. Together
  BY DEF Together
<1> QED BY <1>2, <1>3, <1>4, <1>5 DEF IInv

(* The cluster and the answers of its nodes.                               *)
LEMMA ClusterStep ==
    ASSUME IInv, Cluster
    PROVE  IInv'
<1> USE GuestAssumption DEF IInv
<1>1. ASSUME NEW g \in Guests, NEW n \in Nodes \union {NONE}, Relocate(g, n)
      PROVE  GuestTypeOK' /\ NothingReadYet' /\ Traced'
  <2>1. GuestTypeOK'
    BY <1>1 DEF Relocate, TypeOK, GuestTypeOK
  <2>2. NothingReadYet'
    BY <1>1 DEF Relocate, NothingReadYet
  <2>3. \A h \in Guests : seen[h] \subseteq seen'[h] \/ reading = "idle"
    BY <1>1 DEF Relocate, TypeOK, GuestTypeOK
  <2>4. \A h \in Guests : where'[h] \in seen'[h]
    BY <1>1 DEF Relocate, TypeOK, GuestTypeOK, Traced
  <2>5. CASE reading = "idle"
    <3>1. resources' = Nowhere /\ \A k \in Kinds : listed'[k] = NONE
      BY <1>1, <2>5, GuestFacts DEF Relocate, NothingReadYet
    <3> QED BY <2>1, <2>2, <2>4, <3>1 DEF Traced, Nowhere
  <2>6. CASE reading # "idle"
    <3>1. \A h \in Guests : seen[h] \subseteq seen'[h]
      BY <2>3, <2>6
    <3>2. resources' # Nowhere => \A h \in Guests : resources'[h] \in seen'[h]
      BY <1>1, <3>1 DEF Relocate, Traced, Nowhere
    <3>3. ASSUME NEW k \in Kinds, listed'[k] # NONE
          PROVE  /\ \A h \in listed'[k] : Own \in seen'[h]
                 /\ listed'[k] # {} =>
                       \A h \in OfKind(k) \ listed'[k] : \E m \in seen'[h] : m # Own
      <4>1. listed' = listed /\ listed[k] \subseteq Guests /\ OfKind(k) \subseteq Guests
        BY <1>1, <3>3, GuestFacts DEF Relocate, TypeOK, GuestTypeOK
      <4> QED BY <3>1, <3>3, <4>1 DEF Traced
    <3> QED BY <2>1, <2>2, <2>4, <3>2, <3>3 DEF Traced
  <2> QED BY <2>1, <2>2, <2>5, <2>6
<1>2. ASSUME NEW ok \in BOOLEAN, ReadResources(ok)
      PROVE  GuestTypeOK' /\ NothingReadYet' /\ Traced'
  <2>1. GuestTypeOK'
    BY <1>2, GuestFacts DEF ReadResources, TypeOK, GuestTypeOK
  <2>2. NothingReadYet'
    BY <1>2 DEF ReadResources, NothingReadYet
  <2>3. Traced'
    BY <1>2 DEF ReadResources, Traced, Nowhere
  <2> QED BY <2>1, <2>2, <2>3
<1>3. ASSUME NEW k \in Kinds, NEW ok \in BOOLEAN, ReadList(k, ok)
      PROVE  GuestTypeOK' /\ NothingReadYet' /\ Traced'
  <2>1. /\ DOMAIN listed = Kinds /\ DOMAIN listed' = Kinds
        /\ \A j \in Kinds : listed'[j] = IF j = k THEN IF ok THEN OnOwn(k) ELSE {}
                                          ELSE listed[j]
    BY <1>3 DEF ReadList, TypeOK, GuestTypeOK
  <2>2. GuestTypeOK'
    BY <1>3, <2>1 DEF ReadList, OnOwn, TypeOK, GuestTypeOK
  <2>3. NothingReadYet'
    BY <1>3 DEF ReadList, NothingReadYet
  <2>4. ASSUME NEW j \in Kinds, listed'[j] # NONE
        PROVE  /\ \A g \in listed'[j] : Own \in seen[g]
               /\ listed'[j] # {} =>
                     \A g \in OfKind(j) \ listed'[j] : \E n \in seen[g] : n # Own
    <3>1. CASE j # k
      BY <2>1, <2>4, <3>1 DEF Traced
    <3>2. CASE j = k
      <4>1. \A g \in OfKind(k) : where[g] \in seen[g]
        BY GuestFacts DEF Traced
      <4>2. listed'[k] = OnOwn(k) \/ listed'[k] = {}
        BY <2>1
      <4> QED BY <3>2, <4>1, <4>2 DEF OnOwn
    <3> QED BY <3>1, <3>2
  <2>5. Traced'
    BY <1>3, <2>4 DEF ReadList, Traced, Nowhere
  <2> QED BY <2>2, <2>3, <2>5
<1>4. UNCHANGED entityVars /\ (reading' # "idle" => reading # "idle")
  BY DEF Cluster, Relocate, ReadResources, ReadList
<1>5. GuestTypeOK' /\ NothingReadYet' /\ Traced'
  BY <1>1, <1>2, <1>3 DEF Cluster
<1> QED BY <1>4, <1>5 DEF entityVars, TypeOK, Together

(* Whatever ends a refresh forgets what it read.                           *)
LEMMA ForgetStep ==
    ASSUME GuestTypeOK, Traced, ForgetReads,
           DOMAIN guests' \subseteq Guests,
           \A g \in DOMAIN guests' : guests'[g] \in Rows
    PROVE  GuestTypeOK' /\ NothingReadYet' /\ Traced'
<1> USE GuestAssumption
<1>1. GuestTypeOK'
  BY GuestFacts DEF ForgetReads, GuestTypeOK
<1>2. NothingReadYet'
  BY DEF ForgetReads, NothingReadYet
<1>3. Traced'
  BY GuestFacts DEF ForgetReads, Traced, Nowhere
<1> QED BY <1>1, <1>2, <1>3

(* A published snapshot has rows of guests only.                           *)
LEMMA PublishStep ==
    ASSUME GuestTypeOK, Traced, PublishGuests
    PROVE  GuestTypeOK' /\ NothingReadYet' /\ Traced'
<1>1. \A g \in DOMAIN guests' : g \in Guests /\ guests'[g] \in Rows
  BY BuildIsTrue DEF PublishGuests
<1> QED BY <1>1, ForgetStep DEF PublishGuests

(* A failed refresh keeps the rows of the one before.                      *)
LEMMA AbortStep ==
    ASSUME GuestTypeOK, Traced, AbortReading
    PROVE  GuestTypeOK' /\ NothingReadYet' /\ Traced'
  BY ForgetStep DEF AbortReading, GuestTypeOK

(* What the sensor and button platforms create, for each guest alike.      *)
LEMMA CreatedTogether ==
    /\ Cleaned \union NewSensors \union NewIds("button")
          = {<<"sensor", "node">>} \union NewIds("sensor") \union NewIds("button")
    /\ NewIds("sensor") \union NewIds("button") \subseteq {"sensor", "button"} \X Guests
    /\ \A g : <<"sensor", g>> \in NewIds("sensor") <=> <<"button", g>> \in NewIds("button")
<1>1. NewSensors # {} /\ Cleaned \subseteq NewSensors
  BY DEF Cleaned, NewSensors
<1>2. \A g : \A k \in Kinds : g \in OfKind(k) => g \in Guests
  BY GuestFacts
<1> QED BY <1>1, <1>2 DEF NewSensors, NewIds

(* The first snapshot and the entities made of it.                         *)
LEMMA FirstSnapshotStep ==
    ASSUME IInv, FirstSnapshot
    PROVE  IInv'
<1> USE EntityAssumption DEF IInv, FirstSnapshot
<1>1. GuestTypeOK' /\ NothingReadYet' /\ Traced'
  BY PublishStep DEF TypeOK
<1>2. registry' = {<<"sensor", "node">>} \union NewIds("sensor") \union NewIds("button")
  BY CreatedTogether
<1>3. registry' \subseteq Ids
  BY <1>2, CreatedTogether DEF Ids
<1>4. TypeOK'
  BY <1>1, <1>3 DEF TypeOK
<1>5. ASSUME NEW g \in Guests
      PROVE  <<"sensor", g>> \in registry' <=> <<"button", g>> \in registry'
  <2>1. <<"sensor", g>> \in registry' <=> <<"sensor", g>> \in NewIds("sensor")
    BY <1>2 DEF NewIds
  <2>2. <<"button", g>> \in registry' <=> <<"button", g>> \in NewIds("button")
    BY <1>2 DEF NewIds
  <2> QED BY <2>1, <2>2, CreatedTogether
<1> QED BY <1>1, <1>4, <1>5 DEF Together

(* The entry is loaded, refreshed and unloaded.                            *)
LEMMA EntryStep ==
    ASSUME IInv, Load \/ FirstRefreshFails \/ Refresh \/ Unload
    PROVE  IInv'
<1> USE GuestAssumption DEF IInv
<1>1. CASE Load
  <2>1. GuestTypeOK'
    BY <1>1 DEF Load, TypeOK, GuestTypeOK
  <2>2. reading = "idle" /\ resources = Nowhere /\ \A k \in Kinds : listed[k] = NONE
    BY <1>1, GuestFacts DEF Load, TypeOK, NothingReadYet
  <2>3. NothingReadYet'
    BY <1>1, <2>2 DEF Load, NothingReadYet
  <2>4. Traced'
    BY <1>1, <2>2 DEF Load, Traced, Nowhere
  <2> QED BY <1>1, <2>1, <2>3, <2>4 DEF Load, TypeOK, Together
<1>2. CASE FirstRefreshFails
  <2>1. GuestTypeOK' /\ NothingReadYet' /\ Traced' /\ reading' = "idle"
    BY <1>2, AbortStep DEF FirstRefreshFails, AbortReading, ForgetReads, TypeOK
  <2> QED BY <1>2, <2>1 DEF FirstRefreshFails, TypeOK, Together
<1>3. CASE Refresh
  <2>1. CASE StartReading
    <3>1. GuestTypeOK' /\ NothingReadYet'
      BY <2>1 DEF StartReading, TypeOK, GuestTypeOK, NothingReadYet
    <3>2. Traced'
      BY <2>1 DEF StartReading, Traced, Nowhere
    <3> QED BY <1>3, <3>1, <3>2 DEF Refresh, entityVars, TypeOK, Together
  <2>2. CASE PublishGuests \/ AbortReading
    <3>1. GuestTypeOK' /\ NothingReadYet' /\ Traced'
      BY <2>2, PublishStep, AbortStep DEF TypeOK
    <3> QED BY <1>3, <3>1 DEF Refresh, entityVars, TypeOK, Together
  <2> QED BY <1>3, <2>1, <2>2 DEF Refresh
<1>4. CASE Unload
  <2>1. DOMAIN guests' = {}
    BY <1>4 DEF Unload
  <2>2. GuestTypeOK' /\ NothingReadYet' /\ Traced' /\ reading' = "idle"
    BY <1>4, <2>1, ForgetStep DEF Unload, ForgetReads, TypeOK
  <2> QED BY <1>4, <2>2 DEF Unload, TypeOK, Together
<1> QED BY <1>1, <1>2, <1>3, <1>4

(* The options dialog only touches the stored selection.                   *)
LEMMA DialogStep ==
    ASSUME IInv,
           \/ \E answered \in SUBSET Kinds : OpenForm(answered)
           \/ \E k \in Kinds, g \in Guests : Tick(k, g)
           \/ Submit
           \/ Dismiss
    PROVE  IInv'
<1> USE DEF IInv
<1>1. UNCHANGED guestVars /\ UNCHANGED <<entry, registry>>
  BY DEF OpenForm, Tick, Submit, Dismiss
<1>2. GuestTypeOK' /\ NothingReadYet' /\ Traced' /\ Together'
  BY <1>1 DEF guestVars, TypeOK, GuestTypeOK, NothingReadYet, Traced, Nowhere, Together
<1>3. (\A k \in Kinds : stored'[k] \in Selections(k)) /\ form' \in {NONE} \union Forms
  <2>1. ASSUME NEW answered \in SUBSET Kinds, OpenForm(answered)
        PROVE  stored' = stored /\ form' \in Forms
    <3>1. \A k \in Kinds : OnOwn(k) \subseteq OfKind(k)
      BY DEF OnOwn
    <3> QED BY <2>1, <3>1, GuestFacts DEF OpenForm, Preselect, Forms
  <2>2. ASSUME NEW k \in Kinds, NEW g \in Guests, Tick(k, g)
        PROVE  stored' = stored /\ form' \in Forms
    <3>1. form \in Forms
      BY <2>2 DEF Tick, TypeOK
    <3>2. form'.offered = form.offered
          /\ form'.ticked = [form.ticked EXCEPT ![k] = IF g \in @ THEN @ \ {g} ELSE @ \union {g}]
          /\ form' = [offered |-> form'.offered, ticked |-> form'.ticked]
      BY <2>2, <3>1 DEF Tick, Forms
    <3> QED BY <2>2, <3>1, <3>2 DEF Tick, Forms
  <2>3. CASE Submit
    <3>1. form \in Forms
      BY <2>3 DEF Submit, TypeOK
    <3> QED BY <2>3, <3>1 DEF Submit, Forms, Selections
  <2>4. CASE Dismiss
    BY <2>4 DEF Dismiss, TypeOK
  <2> QED BY <2>1, <2>2, <2>3, <2>4 DEF TypeOK
<1> QED BY <1>1, <1>2, <1>3 DEF TypeOK, guestVars

(* Every step of the whole keeps the inductive invariant.                  *)
LEMMA NextIInv == IInv /\ [Next]_vars => IInv'
<1>1. ASSUME IInv, UNCHANGED vars
      PROVE  IInv'
  BY <1>1 DEF vars, guestVars, entityVars, IInv, TypeOK, GuestTypeOK,
     NothingReadYet, Traced, Nowhere, Together
<1> QED BY <1>1, ClusterStep, FirstSnapshotStep, EntryStep, DialogStep DEF Next

-----------------------------------------------------------------------------
(* The theorems.                                                           *)

(* The inductive invariant holds in every reachable state.                 *)
THEOREM Invariance == Spec => []IInv
  BY InitIInv, NextIInv, PTL DEF Spec

(* Every variable keeps its type.                                          *)
THEOREM TypeCorrect == Spec => []TypeOK
<1>1. IInv => TypeOK
  BY DEF IInv
<1> QED BY <1>1, Invariance, PTL

(* _build_vms_dict and _build_cts_dict: every row of a new snapshot is of  *)
(* a guest the selection asks for and tells where it was.                  *)
THEOREM RowsNeverLie == Spec => RowsAreTrue
<1>1. ASSUME IInv, PublishGuests, NEW g \in DOMAIN guests'
      PROVE  /\ \E k \in Kinds : /\ g \in OfKind(k)
                                 /\ selected[k] = NONE \/ Names(selected[k], g)
             /\ guests'[g].current \in seen[g]
             /\ ~guests'[g].migrated => Own \in seen[g]
             /\ guests'[g].migrated =>
                   \A k \in Kinds : g \in OfKind(k) /\ listed[k] # {} => seen[g] # {Own}
  BY <1>1, BuildIsTrue DEF IInv, TypeOK, PublishGuests
<1> DEFINE A == PublishGuests =>
                   \A g \in DOMAIN guests' :
                      /\ \E k \in Kinds : /\ g \in OfKind(k)
                                          /\ selected[k] = NONE \/ Names(selected[k], g)
                      /\ guests'[g].current \in seen[g]
                      /\ ~guests'[g].migrated => Own \in seen[g]
                      /\ guests'[g].migrated =>
                            \A k \in Kinds : g \in OfKind(k) /\ listed[k] # {}
                                                => seen[g] # {Own}
<1>2. IInv => A
  BY <1>1
<1> QED BY <1>2, Invariance, PTL DEF RowsAreTrue

(* A selected guest that exists all through a refresh never misses from    *)
(* the new snapshot for having migrated in the middle of it.               *)
THEOREM MigrationIsSeamless == Spec => MigrationKeepsEntity
<1> DEFINE A == PublishGuests =>
                   \A k \in Kinds, g \in Guests :
                      /\ Wanted(k, g)
                      /\ NONE \notin seen[g]
                      /\ \/ resources # Nowhere
                         \/ listed[k] # {} /\ seen[g] = {Own}
                      => g \in DOMAIN guests'
<1>1. IInv => A
  BY BuildIsComplete DEF IInv, TypeOK, PublishGuests
<1> QED BY <1>1, Invariance, PTL DEF MigrationKeepsEntity

(* A load whose cluster/resources were answered deletes no sensor of a     *)
(* selected guest that existed all the while.                              *)
THEOREM LoadsDeleteNothingAlive == Spec => LoadSparesTheLiving
<1> DEFINE A == entry = "loading" /\ entry' = "loaded" /\ resources # Nowhere =>
                   \A k \in Kinds, g \in Guests :
                      /\ StillWanted(k, g)
                      /\ NONE \notin seen[g]
                      /\ <<"sensor", g>> \in registry
                      => <<"sensor", g>> \in registry'
<1>1. ASSUME IInv, [Next]_vars, entry = "loading", entry' = "loaded"
      PROVE  FirstSnapshot
  BY <1>1 DEF Next, vars, entityVars, Load, FirstRefreshFails, Refresh, Unload,
     OpenForm, Tick, Submit, Dismiss, Cluster
<1>2. ASSUME IInv, FirstSnapshot, resources # Nowhere,
             NEW k \in Kinds, NEW g \in Guests, StillWanted(k, g), NONE \notin seen[g]
      PROVE  <<"sensor", g>> \in registry'
  <2>1. g \in DOMAIN guests'
    BY <1>2, BuildIsComplete DEF IInv, TypeOK, FirstSnapshot, PublishGuests, StillWanted
  <2>2. <<"sensor", g>> \in NewIds("sensor")
    BY <1>2, <2>1 DEF NewIds, StillWanted, Wanted
  <2> QED BY <1>2, <2>2, CreatedTogether DEF FirstSnapshot
<1>3. IInv /\ [Next]_vars => A
  BY <1>1, <1>2
<1> QED BY <1>3, Invariance, PTL DEF Spec, LoadSparesTheLiving

(* A guest gets entities only when the stored selection asks for it, and   *)
(* its sensor and its buttons come and go together.                        *)
THEOREM DeselectedStayAway == Spec => DeselectedGetNothing
<1> DEFINE A == registry' # registry =>
                \A k \in Kinds : \A g \in OfKind(k) :
                   /\ <<"sensor", g>> \in registry' \ registry
                         => stored[k] = NONE \/ Names(stored[k], g)
                   /\ <<"sensor", g>> \in registry' <=> <<"button", g>> \in registry'
<1>1. ASSUME IInv', NEW k \in Kinds, NEW g \in OfKind(k)
      PROVE  <<"sensor", g>> \in registry' <=> <<"button", g>> \in registry'
  BY <1>1, GuestFacts DEF IInv, Together
<1>2. ASSUME IInv, [Next]_vars, registry' # registry
      PROVE  FirstSnapshot
  BY <1>2 DEF Next, vars, entityVars, Load, FirstRefreshFails, Refresh, Unload,
     OpenForm, Tick, Submit, Dismiss, Cluster
<1>3. ASSUME FirstSnapshot, NEW k \in Kinds, NEW g \in OfKind(k),
             <<"sensor", g>> \in registry'
      PROVE  stored[k] = NONE \/ Names(stored[k], g)
  <2>1. g \in Guests /\ g # "node"
    BY GuestFacts, EntityAssumption
  <2>2. <<"sensor", g>> \in NewIds("sensor")
    BY <1>3, <2>1, CreatedTogether DEF FirstSnapshot, NewIds
  <2>3. PICK j \in Kinds : g \in OfKind(j) /\ Matches(stored[j], g)
    BY <2>2 DEF NewIds
  <2>4. j = k
    BY <2>3, GuestFacts, GuestAssumption
  <2> QED BY <2>3, <2>4 DEF Matches
<1>4. IInv /\ IInv' /\ [Next]_vars => A
  BY <1>1, <1>2, <1>3
<1> QED BY <1>4, Invariance, PTL DEF Spec, DeselectedGetNothing

(* The options dialog opens with no guest ticked that is not selected.     *)
THEOREM DialogsTickWhatIsStored == Spec => NothingTickedUnasked
<1> DEFINE A == form = NONE /\ form' # NONE =>
                   \A k \in Kinds : \A g \in form'.ticked[k] : Matches(stored[k], g)
<1>1. ASSUME [Next]_vars, form = NONE, form' # NONE
      PROVE  \E answered \in SUBSET Kinds : OpenForm(answered)
  BY <1>1 DEF Next, vars, entityVars, Load, FirstSnapshot, FirstRefreshFails, Refresh,
     Unload, Tick, Submit, Dismiss, Cluster
<1>2. ASSUME NEW answered \in SUBSET Kinds, OpenForm(answered)
      PROVE  A
  BY <1>2 DEF OpenForm, Preselect, Matches, Names
<1>3. [Next]_vars => A
  BY <1>1, <1>2
<1> QED BY <1>3, PTL DEF Spec, NothingTickedUnasked
=============================================================================
