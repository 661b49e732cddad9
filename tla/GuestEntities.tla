---------------------------- MODULE GuestEntities ----------------------------
(***************************************************************************)
(* From the guests of a snapshot to the entities of a PVE entry: the entry *)
(* is loaded with the selection stored in it, the first refresh decides    *)
(* which sensors and buttons are created and which registry entries the    *)
(* cleanup removes, and the options dialog rewrites the stored selection   *)
(* while the cluster goes on changing (GuestMap).                          *)
(*                                                                         *)
(* The platforms are set up as soon as the first snapshot is there, and    *)
(* that is one step here: the awaits in between only load the platforms'   *)
(* code.  "sensor" cleans up before "button" adds its own (the order of    *)
(* PLATFORMS).  "node" stands for the entities that do not depend on a     *)
(* guest: the PVE section always creates some.                             *)
(***************************************************************************)
EXTENDS GuestMap

ASSUME EntityAssumption == "node" \notin Guests

VARIABLES
    stored,    \* entry.data["selected_vms"], ["selected_cts"]
    form,      \* the options dialog: what it offers and what is ticked
    entry,     \* "unloaded", "loading" or "loaded"
    registry   \* the entity registry entries of this config entry

entityVars == <<stored, form, entry, registry>>
vars == <<guestVars, entityVars>>

Ids == {<<"sensor", "node">>} \union ({"sensor", "button"} \X Guests)

Forms ==
    {f \in [offered : [Kinds -> SUBSET Guests], ticked : [Kinds -> SUBSET Guests]] :
        \A k \in Kinds : /\ f.offered[k] \subseteq OfKind(k)
                         /\ f.ticked[k] \subseteq f.offered[k]}

TypeOK ==
    /\ GuestTypeOK
    /\ \A k \in Kinds : stored[k] \in Selections(k)
    /\ form \in {NONE} \union Forms
    /\ entry \in {"unloaded", "loading", "loaded"}
    /\ reading # "idle" => entry # "unloaded"
    /\ registry \subseteq Ids

Init ==
    /\ GuestInit
    /\ stored = selected
    /\ form = NONE
    /\ entry = "unloaded"
    /\ registry = {}

-----------------------------------------------------------------------------
(* Loading the entry: a new coordinator, the selection as it is stored now.*)
Load ==
    /\ entry = "unloaded"
    /\ entry' = "loading"
    /\ selected' = stored
    /\ guests' = << >>
    /\ reading' = "cluster"
    /\ UNCHANGED <<where, resources, listed, seen, stored, form, registry>>

(* Mutant: the rows of the coordinator are not matched again.              *)
NewIdsOfRows(platform) == {<<platform, g>> : g \in DOMAIN guests'}

NewIds(platform) ==
    {<<platform, g>> : g \in {h \in DOMAIN guests' :
                                 \E k \in Kinds : /\ h \in OfKind(k)
                                                  /\ Matches(stored[k], h)}}

(* Mutant: a guest that is away gets no sensor.                            *)
NewSensorsAtHome ==
    {<<"sensor", "node">>} \union
    {id \in NewIds("sensor") : ~guests'[id[2]].migrated}

NewSensors == {<<"sensor", "node">>} \union NewIds("sensor")

(* The guard of the cleanup: it runs when there is any sensor at all.      *)
Cleaned == IF NewSensors # {} THEN registry \intersect NewSensors ELSE registry

FirstSnapshot ==
    /\ entry = "loading"
    /\ PublishGuests
    /\ registry' = Cleaned \union NewSensors \union NewIds("button")
    /\ entry' = "loaded"
    /\ UNCHANGED <<stored, form>>

(* UpdateFailed on the first refresh, or its 20 s are over: the entry is   *)
(* not ready and will be tried again.                                      *)
FirstRefreshFails ==
    /\ entry = "loading"
    /\ AbortReading
    /\ entry' = "unloaded"
    /\ UNCHANGED <<stored, form, registry>>

Refresh ==
    /\ entry = "loaded"
    /\ StartReading \/ PublishGuests \/ AbortReading
    /\ UNCHANGED entityVars

(* Mutant: a refresh under way outlives its entry.                         *)
UnloadKeepsReading ==
    /\ entry = "loaded"
    /\ entry' = "unloaded"
    /\ guests' = << >>
    /\ UNCHANGED <<where, selected, reading, resources, listed, seen>>
    /\ UNCHANGED <<stored, form, registry>>

Unload ==
    /\ entry = "loaded"
    /\ entry' = "unloaded"
    /\ guests' = << >>
    /\ ForgetReads
    /\ UNCHANGED <<stored, form, registry>>

-----------------------------------------------------------------------------
(* The options dialog.                                                     *)

(* Mutant: an empty selection is taken for a missing one.                  *)
PreselectOrAll(sel, offered) ==
    IF sel \in {NONE, {}} THEN offered ELSE sel \intersect offered

(* The options are vmids: what is stored by key is not ticked, and is gone *)
(* from the selection once the form is submitted.                          *)
Preselect(sel, offered) ==
    IF sel = NONE THEN offered ELSE sel \intersect offered

(* What get_vms and get_containers answer is offered; a failed call, like  *)
(* the fallback form without the fields, offers nothing.                   *)
OpenForm(answered) ==
    LET offered == [k \in Kinds |-> IF k \in answered THEN OnOwn(k) ELSE {}]
    IN  /\ form = NONE
        /\ form' = [offered |-> offered,
                    ticked  |-> [k \in Kinds |-> Preselect(stored[k], offered[k])]]
        /\ UNCHANGED <<guestVars, stored, entry, registry>>

Tick(k, g) ==
    /\ form # NONE
    /\ g \in form.offered[k]
    /\ form' = [form EXCEPT !.ticked[k] =
                   IF g \in @ THEN @ \ {g} ELSE @ \union {g}]
    /\ UNCHANGED <<guestVars, stored, entry, registry>>

(* The entry's data is rewritten; the running coordinator keeps the        *)
(* selection it was created with until the next load.                      *)
Submit ==
    /\ form # NONE
    /\ stored' = form.ticked
    /\ form' = NONE
    /\ UNCHANGED <<guestVars, entry, registry>>

Dismiss ==
    /\ form # NONE
    /\ form' = NONE
    /\ UNCHANGED <<guestVars, stored, entry, registry>>

Cluster ==
    /\ \/ \E g \in Guests, n \in Nodes \union {NONE} : Relocate(g, n)
       \/ \E ok \in BOOLEAN : ReadResources(ok)
       \/ \E k \in Kinds, ok \in BOOLEAN : ReadList(k, ok)
    /\ UNCHANGED entityVars

Next ==
    \/ Load
    \/ FirstSnapshot
    \/ FirstRefreshFails
    \/ Refresh
    \/ Unload
    \/ \E answered \in SUBSET Kinds : OpenForm(answered)
    \/ \E k \in Kinds, g \in Guests : Tick(k, g)
    \/ Submit
    \/ Dismiss
    \/ Cluster

Spec == Init /\ [][Next]_vars

-----------------------------------------------------------------------------
(* Correctness.                                                            *)

StillWanted(k, g) == Wanted(k, g) /\ Matches(stored[k], g)

(* Loading the entry never removes the sensor of a guest that is selected, *)
(* existed during the whole first refresh and whose cluster/resources were *)
(* answered, even when it migrated in the middle of it.                    *)
LoadSparesTheLiving ==
    [][entry = "loading" /\ entry' = "loaded" /\ resources # Nowhere =>
          \A k \in Kinds, g \in Guests :
             /\ StillWanted(k, g)
             /\ NONE \notin seen[g]
             /\ <<"sensor", g>> \in registry
             => <<"sensor", g>> \in registry']_vars

(* "[] -- the user deselected everything on purpose: show none": a guest   *)
(* gets an entity only if the stored selection asks for it, and a sensor   *)
(* comes with its buttons.                                                 *)
DeselectedGetNothing ==
    [][registry' # registry =>
       \A k \in Kinds : \A g \in OfKind(k) :
          /\ <<"sensor", g>> \in registry' \ registry
                => stored[k] = NONE \/ Names(stored[k], g)
          /\ <<"sensor", g>> \in registry' <=> <<"button", g>> \in registry'
      ]_vars

(* "or would turn a deliberately emptied selection back into everything":  *)
(* a dialog never opens with a guest ticked that is not selected.          *)
NothingTickedUnasked ==
    [][form = NONE /\ form' # NONE =>
          \A k \in Kinds : \A g \in form'.ticked[k] : Matches(stored[k], g)]_vars

(* "Guard: skip cleanup [...] An empty entity list during a partial-data   *)
(* fetch [...] would otherwise delete all previously registered entities": *)
(* the sensor of a guest that is selected and existed during the whole     *)
(* first refresh survives the load.                                        *)
CleanupSparesKnownGuests ==
    [][entry = "loading" /\ entry' = "loaded" =>
          \A k \in Kinds, g \in Guests :
             /\ StillWanted(k, g)
             /\ NONE \notin seen[g]
             /\ <<"sensor", g>> \in registry
             => <<"sensor", g>> \in registry']_vars
=============================================================================
