--------------------------- MODULE EntryLifecycle ---------------------------
(***************************************************************************)
(* The config entries of the integration (__init__.py): how PVE, PBS and   *)
(* CLUSTER entries are set up, unloaded, reloaded and removed, what they   *)
(* leave in hass.data, when the services are there, and the background     *)
(* task every PVE entry starts to create or remove the CLUSTER entry of    *)
(* its cluster.  All PVE entries belong to the same cluster.               *)
(*                                                                         *)
(* Home Assistant serialises the setup and unloading of one entry; the     *)
(* entries and the background tasks are concurrent with each other.        *)
(***************************************************************************)
EXTENDS Naturals, Sequences, FiniteSets, SequencesExt

CONSTANTS
    PVEs,       \* PVE entries, each configured for a node of its own
    PBSs,
    Clusters,   \* bound: identities of CLUSTER entries, used again
    Tasks,      \* bound: background tasks at a time, used again
    NONE

ASSUME EntryAssumption ==
    /\ PVEs \intersect PBSs = {}
    /\ (PVEs \union PBSs) \intersect Clusters = {}
    /\ NONE \notin PVEs \union PBSs \union Clusters

Configured == PVEs \union PBSs
Entries == Configured \union Clusters

VARIABLES
    state,      \* of each entry: "absent" before it is created, "starting"
                \* while its platforms are set up, "stuck" after a refused
                \* unload, "leftover" when it was removed like that
    parent,     \* parent_entry_id of a CLUSTER entry; one made by hand has none
    named,      \* the CLUSTER entries that say which cluster they are of
    enabled,    \* enable_cluster of a PVE entry
    data,       \* the keys of hass.data[DOMAIN], in insertion order
    services,   \* the services are registered
    task        \* the background tasks and the discovery flows they start

vars == <<state, parent, named, enabled, data, services, task>>

NoTask == [stage |-> "none", entry |-> NONE, enable |-> FALSE]

TypeOK ==
    /\ state \in [Entries -> {"absent", "unloaded", "setup", "starting",
                             "loaded", "stuck", "leftover", "removed"}]
    /\ parent \in [Clusters -> PVEs \union {NONE}]
    /\ enabled \in [PVEs -> BOOLEAN]
    /\ data \in Seq(Entries)
    /\ services \in BOOLEAN
    /\ task \in [Tasks -> [stage  : {"none", "sleeping", "flow", "asking"},
                           entry  : PVEs \union {NONE},
                           enable : BOOLEAN]]
    /\ named \subseteq Clusters
    /\ \A c \in Clusters : /\ parent[c] # NONE => c \in named
                           /\ c \in named => state[c] # "absent"

Init ==
    /\ state = [e \in Entries |-> "absent"]
    /\ parent = [c \in Clusters |-> NONE] /\ named = {}
    /\ enabled \in [PVEs -> BOOLEAN]
    /\ data = << >>
    /\ services = FALSE
    /\ task = [t \in Tasks |-> NoTask]

SetState(e, s) == state' = [state EXCEPT ![e] = s]
SetTask(t, r) == task' = [task EXCEPT ![t] = r]

-----------------------------------------------------------------------------
(* The entry itself.                                                       *)

(* An entry that is added again has an id of its own: a configured entry   *)
(* is created once.                                                        *)
Add(e) ==
    /\ e \in Configured /\ state[e] = "absent"
    /\ SetState(e, "setup")
    /\ UNCHANGED <<parent, named, enabled, data, services, task>>

(* A user may add a CLUSTER entry by hand, whether or not there is one.  It *)
(* has no parent, and no name when the cluster did not tell it.            *)
AddCluster(c) ==
    /\ c \in Clusters /\ state[c] = "absent"
    /\ SetState(c, "setup")
    /\ named' \in {named, named \union {c}}
    /\ UNCHANGED <<parent, enabled, data, services, task>>

(* A setup after a start, after a failed one or as the second half of a    *)
(* reload.                                                                 *)
BeginSetup(e) ==
    /\ state[e] = "unloaded"
    /\ SetState(e, "setup")
    /\ UNCHANGED <<parent, named, enabled, data, services, task>>

(* ConfigEntryNotReady: the first refresh failed or took over 20 s.        *)
SetupFails(e) ==
    /\ state[e] = "setup"
    /\ SetState(e, "unloaded")
    /\ UNCHANGED <<parent, named, enabled, data, services, task>>

(* register_services is called by PVE and PBS entries only.                *)
Register(e) == services' = (services \/ e \in Configured)

(* The first refresh is done: the entry is in hass.data and its services   *)
(* are there before the platforms are.                                     *)
Store(e) ==
    /\ state[e] = "setup"
    /\ SetState(e, "starting")
    /\ data' = Append(data, e)
    /\ Register(e)
    /\ UNCHANGED <<parent, named, enabled, task>>

(* The platforms are set up; one that fails says so itself.  A PVE entry   *)
(* also starts its background task, with enable_cluster as it is now.      *)
SetupDone(e) ==
    /\ state[e] = "starting"
    /\ SetState(e, "loaded")
    /\ \/ /\ e \in PVEs
          /\ \E t \in Tasks :
                /\ task[t].stage = "none"
                /\ SetTask(t, [stage |-> "sleeping", entry |-> e,
                               enable |-> enabled[e]])
       \/ e \notin PVEs /\ UNCHANGED task
    /\ UNCHANGED <<parent, named, enabled, data, services>>

(* Mutant: the services go with any entry.                                 *)
PopAlways(e) ==
    /\ data' = RemoveFirst(data, e)
    /\ services' = FALSE

(* The services go with the last entry of hass.data.                       *)
Pop(e) ==
    /\ data' = RemoveFirst(data, e)
    /\ services' = (services /\ RemoveFirst(data, e) # << >>)

(* The background task of a PVE entry is not stopped.                      *)
Unload(e) ==
    /\ state[e] = "loaded"
    /\ SetState(e, "unloaded")
    /\ Pop(e)
    /\ UNCHANGED <<parent, named, enabled, task>>

(* Mutant: hass.data is emptied although the platforms are still there.    *)
UnloadFailsPopping(e) ==
    /\ state[e] = "loaded"
    /\ SetState(e, "stuck")
    /\ Pop(e)
    /\ UNCHANGED <<parent, named, enabled, task>>

(* A platform refuses: nothing is popped, the entry is left alone until    *)
(* the restart.                                                            *)
UnloadFails(e) ==
    /\ state[e] = "loaded"
    /\ SetState(e, "stuck")
    /\ UNCHANGED <<parent, named, enabled, data, services, task>>

(* Nothing refers to a CLUSTER entry that is gone: its identity is free.   *)
Gone(e) == IF e \in Clusters THEN "absent" ELSE "removed"

(* What removing an entry does: one that is loaded is unloaded first, one  *)
(* that refused to unload leaves its data behind until the restart.        *)
Drop(e) ==
    /\ state[e] \in {"unloaded", "loaded", "stuck"}
    /\ IF state[e] = "stuck"
       THEN SetState(e, "leftover") /\ UNCHANGED <<parent, named>>
       ELSE /\ SetState(e, Gone(e))
            /\ parent' = [c \in Clusters |-> IF c = e THEN NONE ELSE parent[c]]
            /\ named' = named \ {e}
    /\ IF state[e] = "loaded" THEN Pop(e) ELSE UNCHANGED <<data, services>>

RemoveEntry(e) ==
    /\ Drop(e)
    /\ UNCHANGED <<enabled, task>>

(* Submitting the options of a PVE entry replaces entry.options; an        *)
(* enable_cluster stored there is gone and the default is True.            *)
SubmitOptions(p) ==
    /\ state[p] \in {"unloaded", "setup", "starting", "loaded", "stuck"}
    /\ enabled' = [enabled EXCEPT ![p] = TRUE]
    /\ UNCHANGED <<state, parent, named, data, services, task>>

Restart ==
    /\ state' = [e \in Entries |->
                    CASE state[e] = "leftover"             -> Gone(e)
                      [] state[e] \in {"absent", "removed"} -> state[e]
                      [] OTHER                             -> "unloaded"]
    /\ parent' = [c \in Clusters |-> IF state[c] = "leftover" THEN NONE
                                     ELSE parent[c]]
    /\ named' = {c \in named : state[c] # "leftover"}
    /\ data' = << >>
    /\ services' = FALSE
    /\ task' = [t \in Tasks |-> NoTask]
    /\ UNCHANGED enabled

-----------------------------------------------------------------------------
(* The background task, 2 s after the setup, and the discovery flow.       *)

Present == {c \in Clusters : state[c] \notin {"absent", "leftover"}}

(* The CLUSTER entries of this cluster, by their name.                     *)
Existing == Present \intersect named

(* Mutant: any CLUSTER entry of the cluster is removed.                    *)
AllOf(p) == Existing

OwnedBy(p) == {c \in Existing : parent[c] = p}

(* The name is taken from the coordinator's data: without it, or with an   *)
(* entry that exists already, there is nothing to do.                      *)
NothingToManage(t) ==
    /\ task[t].stage = "sleeping"
    /\ SetTask(t, NoTask)
    /\ UNCHANGED <<state, parent, named, enabled, data, services>>

(* The CLUSTER entries this PVE entry created are removed one by one.      *)
RemoveOwned(t) ==
    /\ task[t].stage = "sleeping" /\ ~task[t].enable
    /\ \E c \in OwnedBy(task[t].entry) :
          /\ Drop(c)
          /\ IF OwnedBy(task[t].entry) = {c} THEN SetTask(t, NoTask)
             ELSE UNCHANGED task
    /\ UNCHANGED enabled

StartFlow(t) ==
    /\ task[t].stage = "sleeping" /\ task[t].enable
    /\ Existing = {}
    /\ SetTask(t, [task[t] EXCEPT !.stage = "flow"])
    /\ UNCHANGED <<state, parent, named, enabled, data, services>>

(* The flow looks for an entry of the same cluster and aborts, ...         *)
CheckExisting(t) ==
    /\ task[t].stage = "flow"
    /\ IF Existing # {} THEN SetTask(t, NoTask)
       ELSE SetTask(t, [task[t] EXCEPT !.stage = "asking"])
    /\ UNCHANGED <<state, parent, named, enabled, data, services>>

(* Mutant: the new entry does not say which cluster it is of.              *)
CreateUnnamed(t) ==
    /\ task[t].stage = "asking"
    /\ \E c \in Clusters :
          /\ state[c] = "absent"
          /\ SetState(c, "setup")
          /\ parent' = [parent EXCEPT ![c] = task[t].entry]
    /\ SetTask(t, NoTask)
    /\ UNCHANGED <<named, enabled, data, services>>

(* ... asks for the name of the cluster, and only then creates the entry,  *)
(* which is set up at once.                                                *)
CreateCluster(t) ==
    /\ task[t].stage = "asking"
    /\ \E c \in Clusters :
          /\ state[c] = "absent"
          /\ SetState(c, "setup")
          /\ parent' = [parent EXCEPT ![c] = task[t].entry]
          /\ named' = named \union {c}
    /\ SetTask(t, NoTask)
    /\ UNCHANGED <<enabled, data, services>>

-----------------------------------------------------------------------------
Next ==
    \/ \E e \in Entries :
          \/ Add(e)
          \/ AddCluster(e)
          \/ BeginSetup(e)
          \/ SetupFails(e)
          \/ Store(e)
          \/ SetupDone(e)
          \/ Unload(e)
          \/ UnloadFails(e)
          \/ RemoveEntry(e)
    \/ \E p \in PVEs : SubmitOptions(p)
    \/ \E t \in Tasks :
          \/ NothingToManage(t)
          \/ RemoveOwned(t)
          \/ StartFlow(t)
          \/ CheckExisting(t)
          \/ CreateCluster(t)
    \/ Restart

Spec == Init /\ [][Next]_vars

(* _find_entry_for_node: the first entry of hass.data with that node; a    *)
(* CLUSTER entry carries the node of the PVE entry that created it, one    *)
(* made by hand carries "Proxmox", the name of no node here.               *)
NodeOf(e) == IF e \in Clusters THEN parent[e] ELSE e

FindEntryForNode(n) ==
    LET matching == SelectSeq(data, LAMBDA e : NodeOf(e) = n)
    IN  IF matching = << >> THEN NONE ELSE Head(matching)

-----------------------------------------------------------------------------
(* Correctness.                                                            *)

(* hass.data holds exactly the entries that are running, from before their *)
(* platforms are set up, each once, and those that refused to stop: an     *)
(* unload always finds its key and a service never the client of an entry  *)
(* that was unloaded.                                                      *)
DataIsLoaded ==
    /\ \A e \in Entries :
          state[e] \in {"starting", "loaded", "stuck", "leftover"} <=> e \in ToSet(data)
    /\ Cardinality(ToSet(data)) = Len(data)

(* The services are there as long as an entry that needs them runs, in     *)
(* whatever order the entries come and go, also when the last other one    *)
(* goes while this one's platforms are being set up, and not without any   *)
(* entry.                                                                  *)
ServicesFollowEntries ==
    /\ (\E e \in Configured : state[e] \in {"starting", "loaded", "stuck"}) => services
    /\ services => data # << >>

(* A CLUSTER entry goes only when the user removes it or when the task of  *)
(* the PVE entry that created it was started with enable_cluster off; one  *)
(* made by hand only when the user removes it.                             *)
OnlyItsParentRemoves ==
    [][\A c \in Present :
          c \notin Present' =>
             \/ RemoveEntry(c)
             \/ \E t \in Tasks : /\ task[t].stage = "sleeping"
                                 /\ task[t].entry = parent[c]
                                 /\ ~task[t].enable]_vars

(* "Return entry_data for the PVE entry that owns *node*": the services    *)
(* reach the PVE entry of their node whenever it is loaded.                *)
LookupFindsOwner ==
    \A p \in PVEs : state[p] = "loaded" => FindEntryForNode(p) = p
=============================================================================
