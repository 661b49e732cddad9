------------------------------ MODULE GuestMap ------------------------------
(***************************************************************************)
(* How the guests of a cluster become the "vms" and "cts" sections of one  *)
(* PVE coordinator's snapshot while they migrate, appear and disappear.    *)
(* A refresh reads cluster/resources first and the node's own lists later; *)
(* _build_vms_dict and _build_cts_dict join the two, the own list first.   *)
(*                                                                         *)
(* The key node:vmid of a row always carries the configured node, so a     *)
(* guest stands for the key of its row.  A polling call that failed is an empty list.  The     *)
(* module has no specification of its own: when refreshes are made is for  *)
(* GuestEntities to say.                                                   *)
(***************************************************************************)
EXTENDS Naturals, FiniteSets

CONSTANTS
    VMs, CTs,    \* guests by type; a vmid is unique in a cluster
    Movers,      \* the guests that come, go and migrate (a bound; all of them)
    Keyed,       \* the guests a stored selection may name by key (a bound)
    Nodes,
    Own,         \* the node this entry was configured for
    NONE         \* nowhere; as a selection: nothing stored

Kinds == {"vms", "cts"}
Guests == VMs \union CTs
OfKind(k) == IF k = "vms" THEN VMs ELSE CTs

(* "Supports legacy selections by raw VMID and newer selections by guest   *)
(* key": a guest stands for its vmid, Key(g) is its node:vmid.             *)
Key(g) == <<Own, g>>
Selections(k) ==
    {NONE} \union SUBSET OfKind(k) \union SUBSET {Key(g) : g \in OfKind(k) \intersect Keyed}

ASSUME GuestAssumption ==
    /\ VMs \intersect CTs = {}
    /\ Movers \subseteq Guests /\ Keyed \subseteq Guests
    /\ Own \in Nodes
    /\ NONE \notin Nodes

VARIABLES
    where,       \* the node each guest is on; NONE when it does not exist
    selected,    \* selected_vms and selected_cts, read when the coordinator
                 \* was created: a set of guests or NONE
    reading,     \* "idle", "cluster" or "lists"
    resources,   \* cluster/resources as it was answered
    listed,      \* the node's own list of each kind, NONE until it is back
    guests,      \* data["vms"] and data["cts"]: a guest's row, by guest
    seen         \* history: where each guest has been during the refresh

guestVars == <<where, selected, reading, resources, listed, guests, seen>>

Rows == [current : Nodes, migrated : BOOLEAN]

GuestTypeOK ==
    /\ where \in [Guests -> Nodes \union {NONE}]
    /\ \A k \in Kinds : selected[k] \in Selections(k)
    /\ reading \in {"idle", "cluster", "lists"}
    /\ resources \in [Guests -> Nodes \union {NONE}]
    /\ DOMAIN listed = Kinds
    /\ \A k \in Kinds : listed[k] \in {NONE} \union SUBSET OfKind(k)
    /\ DOMAIN guests \subseteq Guests
    /\ \A g \in DOMAIN guests : guests[g] \in Rows
    /\ seen \in [Guests -> SUBSET (Nodes \union {NONE})]

Nowhere == [g \in Guests |-> NONE]
NotRead == [k \in Kinds |-> NONE]

GuestInit ==
    /\ where \in [Guests -> Nodes \union {NONE}]
    /\ \E v \in Selections("vms"), c \in Selections("cts") :
          selected = [vms |-> v, cts |-> c]
    /\ reading = "idle"
    /\ resources = Nowhere /\ listed = NotRead
    /\ guests = << >>
    /\ seen = [g \in Guests |-> {where[g]}]

-----------------------------------------------------------------------------
(* The cluster: a guest is created, destroyed or migrates at any time.     *)
Relocate(g, n) ==
    /\ g \in Movers
    /\ where[g] # n
    /\ where' = [where EXCEPT ![g] = n]
    /\ seen' = [seen EXCEPT ![g] = IF reading = "idle" THEN {n} ELSE @ \union {n}]
    /\ UNCHANGED <<selected, reading, resources, listed, guests>>

StartReading ==
    /\ reading = "idle"
    /\ reading' = "cluster"
    /\ UNCHANGED <<where, selected, resources, listed, guests, seen>>

ReadResources(ok) ==
    /\ reading = "cluster"
    /\ resources' = IF ok THEN where ELSE Nowhere
    /\ reading' = "lists"
    /\ UNCHANGED <<where, selected, listed, guests, seen>>

OnOwn(k) == {g \in OfKind(k) : where[g] = Own}

ReadList(k, ok) ==
    /\ reading = "lists" /\ listed[k] = NONE
    /\ listed' = [listed EXCEPT ![k] = IF ok THEN OnOwn(k) ELSE {}]
    /\ UNCHANGED <<where, selected, reading, resources, guests, seen>>

-----------------------------------------------------------------------------
(* matches_selected_guest, for a key made from the configured node: by     *)
(* vmid or by key.                                                         *)
Names(sel, g) == sel # NONE /\ (g \in sel \/ Key(g) \in sel)

(* Mutant: "nothing stored" and "nothing chosen" are the same.             *)
MatchesUnlessEmpty(sel, g) == sel \in {NONE, {}} \/ Names(sel, g)

Matches(sel, g) == sel = NONE \/ Names(sel, g)

Local(k) == {g \in listed[k] : Matches(selected[k], g)}

(* Mutant: only the guests of the own node are taken from the resources.   *)
AwayOnOwnOnly(k) ==
    {g \in OfKind(k) \ Local(k) : resources[g] = Own /\ Matches(selected[k], g)}

Away(k) ==
    {g \in OfKind(k) \ Local(k) : resources[g] # NONE /\ Matches(selected[k], g)}

Build ==
    [g \in UNION {Local(k) \union Away(k) : k \in Kinds} |->
        IF \E k \in Kinds : g \in Local(k)
        THEN [current |-> Own, migrated |-> FALSE]
        ELSE [current |-> resources[g], migrated |-> TRUE]]

ForgetReads ==
    /\ reading' = "idle"
    /\ resources' = Nowhere /\ listed' = NotRead
    /\ seen' = [g \in Guests |-> {where[g]}]
    /\ UNCHANGED <<where, selected>>

PublishGuests ==
    /\ reading = "lists"
    /\ \A k \in Kinds : listed[k] # NONE
    /\ ForgetReads
    /\ guests' = Build

(* The refresh fails as a whole: the last rows stay.                       *)
AbortReading ==
    /\ reading # "idle"
    /\ guests' = guests
    /\ ForgetReads

-----------------------------------------------------------------------------
(* Correctness.                                                            *)

Wanted(k, g) == g \in OfKind(k) /\ Matches(selected[k], g)

(* "Entities stay available after live migration": a selected guest that   *)
(* existed all through the refresh is in the new snapshot if the resources *)
(* were answered, or if it never left the node and its list was answered,  *)
(* wherever it went between the reads.                                     *)
MigrationKeepsEntity ==
    [][PublishGuests =>
          \A k \in Kinds, g \in Guests :
             /\ Wanted(k, g)
             /\ NONE \notin seen[g]
             /\ \/ resources # Nowhere
                \/ listed[k] # {} /\ seen[g] = {Own}
             => g \in DOMAIN guests']_guestVars

(* Nothing is invented and nobody is misplaced: a row stands for a guest   *)
(* the selection asks for (all of them when nothing is stored, none of     *)
(* them when it is empty) that was, during this refresh, where the row     *)
(* says it is; a row that is not flagged was seen on the own node, and one *)
(* that is flagged, which backup_all skips, has been elsewhere, unless the *)
(* own list was not answered.                                              *)
RowsAreTrue ==
    [][PublishGuests =>
          \A g \in DOMAIN guests' :
             /\ \E k \in Kinds : /\ g \in OfKind(k)
                                 /\ selected[k] = NONE \/ Names(selected[k], g)
             /\ guests'[g].current \in seen[g]
             /\ ~guests'[g].migrated => Own \in seen[g]
             /\ guests'[g].migrated =>
                   \A k \in Kinds : g \in OfKind(k) /\ listed[k] # {}
                                       => seen[g] # {Own}]_guestVars
=============================================================================
