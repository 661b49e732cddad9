------------------------ MODULE EntryLifecycleProofs ------------------------
(***************************************************************************)
(* Theorems about EntryLifecycle, for any number of entries of each kind   *)
(* and of background tasks.                                                *)
(***************************************************************************)
EXTENDS EntryLifecycle, SequenceTheorems, FiniteSetTheorems, TLAPS

-----------------------------------------------------------------------------
(* hass.data as a list of different keys.                                  *)

Keys(s) == {s[i] : i \in 1..Len(s)}
Different(s) == \A i, j \in 1..Len(s) : s[i] = s[j] => i = j

(* Appending a new key.                                                    *)
LEMMA AppendKey ==
    ASSUME NEW s \in Seq(Entries), Different(s), NEW e \in Entries, e \notin Keys(s)
    PROVE  /\ Append(s, e) \in Seq(Entries)
           /\ Different(Append(s, e))
           /\ Keys(Append(s, e)) = Keys(s) \union {e}
           /\ Append(s, e) # << >>
<1> DEFINE t == Append(s, e)
<1>1. /\ t \in Seq(Entries) /\ Len(s) \in Nat /\ Len(t) = Len(s) + 1
      /\ \A i \in 1..Len(s) : t[i] = s[i]
      /\ t[Len(s) + 1] = e
  OBVIOUS
<1> HIDE DEF t
<1>2. \A i \in 1..Len(t) : i = Len(s) + 1 \/ i \in 1..Len(s)
  BY <1>1
<1>3. \A i \in 1..Len(s) : t[i] # e
  BY <1>1 DEF Keys
<1>4. Different(t)
  BY <1>1, <1>2, <1>3 DEF Different
<1>5. Keys(t) = Keys(s) \union {e}
  <2>1. Keys(t) \subseteq Keys(s) \union {e}
    BY <1>1, <1>2 DEF Keys
  <2>2. Keys(s) \subseteq Keys(t)
    <3>1. 1..Len(s) \subseteq 1..Len(t)
      BY <1>1
    <3> QED BY <1>1, <3>1 DEF Keys
  <2>3. e \in Keys(t)
    <3>1. Len(s) + 1 \in 1..Len(t)
      BY <1>1
    <3> QED BY <1>1, <3>1 DEF Keys
  <2> QED BY <2>1, <2>2, <2>3
<1>6. t # << >>
  BY <1>1
<1> QED BY <1>1, <1>4, <1>5, <1>6 DEF t

(* Popping a key that is there.                                            *)
LEMMA PopKey ==
    ASSUME NEW s \in Seq(Entries), Different(s), NEW e \in Keys(s)
    PROVE  /\ RemoveFirst(s, e) \in Seq(Entries)
           /\ Different(RemoveFirst(s, e))
           /\ Keys(RemoveFirst(s, e)) = Keys(s) \ {e}
<1> DEFINE I == {i \in 1..Len(s) : s[i] = e}
           at == Min(I)
           t == RemoveAt(s, at)
<1>1. PICK p \in 1..Len(s) : s[p] = e
  BY DEF Keys
<1>2. at \in 1..Len(s) /\ s[at] = e
  <2>1. I = {p}
    BY <1>1 DEF Different
  <2>2. p <= p
    BY LenProperties
  <2>3. at = p
    BY <2>1, <2>2 DEF Min
  <2> QED BY <1>1, <2>3
<1>3. RemoveFirst(s, e) = t
  <2>1. p \in I
    BY <1>1
  <2> QED BY <1>1, <2>1 DEF RemoveFirst, SelectInSeq
<1> HIDE DEF at
<1> DEFINE a == SubSeq(s, 1, at - 1)
           b == SubSeq(s, at + 1, Len(s))
<1>4. Len(s) \in Nat /\ \A i \in 1..Len(s) : s[i] \in Entries
  BY LenProperties, ElementOfSeq
<1>5. a \in Seq(Entries) /\ Len(a) = at - 1 /\ \A i \in 1..(at - 1) : a[i] = s[i]
  BY <1>2, <1>4
<1>6. b \in Seq(Entries) /\ Len(b) = Len(s) - at /\ \A i \in 1..(Len(s) - at) : b[i] = s[at + i]
  BY <1>2, <1>4
<1>7. t = a \o b
  BY DEF RemoveAt
<1> HIDE DEF a, b, t
<1>8. /\ a \o b \in Seq(Entries)
      /\ Len(a \o b) = Len(a) + Len(b)
      /\ \A i \in 1..(Len(a) + Len(b)) :
            (a \o b)[i] = IF i <= Len(a) THEN a[i] ELSE b[i - Len(a)]
  BY <1>5, <1>6, ConcatProperties
<1>9. t \in Seq(Entries) /\ Len(t) = Len(s) - 1
  BY <1>2, <1>4, <1>5, <1>6, <1>7, <1>8
<1>10. \A i \in 1..Len(t) : t[i] = IF i < at THEN s[i] ELSE s[i + 1]
  <2> SUFFICES ASSUME NEW i \in 1..Len(t)
               PROVE  t[i] = IF i < at THEN s[i] ELSE s[i + 1]
    OBVIOUS
  <2>1. CASE i < at
    BY <2>1, <1>2, <1>4, <1>5, <1>6, <1>7, <1>8, <1>9
  <2>2. CASE ~(i < at)
    <3>1. t[i] = b[i - Len(a)] /\ i - Len(a) \in 1..(Len(s) - at)
      BY <2>2, <1>2, <1>4, <1>5, <1>6, <1>7, <1>8, <1>9
    <3>2. b[i - Len(a)] = s[at + (i - Len(a))] /\ at + (i - Len(a)) = i + 1
      BY <3>1, <1>2, <1>4, <1>5, <1>6
    <3> QED BY <2>2, <3>1, <3>2
  <2> QED BY <2>1, <2>2
<1> DEFINE from(i) == IF i < at THEN i ELSE i + 1
<1>11. \A i \in 1..Len(t) : from(i) \in 1..Len(s) /\ from(i) # at /\ t[i] = s[from(i)]
  BY <1>2, <1>4, <1>9, <1>10
<1>12. \A i, j \in 1..Len(t) : from(i) = from(j) => i = j
  BY <1>2, <1>4, <1>9
<1>13. \A k \in 1..Len(s) : k # at => \E i \in 1..Len(t) : from(i) = k
  <2> SUFFICES ASSUME NEW k \in 1..Len(s), k # at
               PROVE  \E i \in 1..Len(t) : from(i) = k
    OBVIOUS
  <2>1. CASE k < at
    <3>1. k \in 1..Len(t) /\ from(k) = k
      BY <2>1, <1>2, <1>4, <1>9
    <3> QED BY <3>1
  <2>2. CASE k > at
    <3>1. k - 1 \in 1..Len(t) /\ from(k - 1) = k
      BY <2>2, <1>2, <1>4, <1>9
    <3> QED BY <3>1
  <2> QED BY <2>1, <2>2, <1>2, <1>4
<1> HIDE DEF from
<1>14. Different(t)
  BY <1>11, <1>12 DEF Different
<1>15. Keys(t) = Keys(s) \ {e}
  <2>1. Keys(t) \subseteq Keys(s) \ {e}
    BY <1>2, <1>11 DEF Keys, Different
  <2>2. ASSUME NEW x \in Keys(s), x # e
        PROVE  x \in Keys(t)
    <3>1. PICK k \in 1..Len(s) : s[k] = x /\ k # at
      BY <2>2, <1>2 DEF Keys
    <3>2. PICK i \in 1..Len(t) : from(i) = k
      BY <3>1, <1>13
    <3> QED BY <3>1, <3>2, <1>11 DEF Keys
  <2> QED BY <2>1, <2>2
<1> QED BY <1>3, <1>9, <1>14, <1>15

-----------------------------------------------------------------------------
(* The inductive invariant.                                                *)

Kept == {"starting", "loaded", "stuck", "leftover"}
Running == {"starting", "loaded", "stuck"}

(* The keys are those of the entries that run or refused to stop.          *)
KeysAreKept ==
    /\ Different(data)
    /\ \A e \in Entries : state[e] \in Kept <=> e \in Keys(data)

(* A task knows the PVE entry that started it.                             *)
TasksHaveEntries == \A t \in Tasks : task[t].stage # "none" => task[t].entry \in PVEs

IInv ==
    /\ TypeOK
    /\ KeysAreKept
    /\ TasksHaveEntries
    /\ ServicesFollowEntries

(* Appending, popping and leaving alone are all that happens to hass.data. *)
(* An entry starts to run.                                                 *)
LEMMA AppendStep ==
    ASSUME TypeOK, KeysAreKept, NEW e \in Entries,
           state[e] \notin Kept, SetState(e, "starting"), data' = Append(data, e)
    PROVE  data' \in Seq(Entries) /\ KeysAreKept' /\ data' # << >>
<1>1. e \notin Keys(data)
  BY DEF KeysAreKept
<1>2. /\ data' \in Seq(Entries) /\ Different(data') /\ data' # << >>
      /\ Keys(data') = Keys(data) \union {e}
  BY <1>1, AppendKey DEF TypeOK, KeysAreKept
<1>3. \A f \in Entries : state'[f] = IF f = e THEN "starting" ELSE state[f]
  BY DEF SetState, TypeOK
<1>4. \A f \in Entries : state'[f] \in Kept <=> f \in Keys(data')
  BY <1>2, <1>3 DEF KeysAreKept, Kept
<1> QED BY <1>2, <1>4 DEF KeysAreKept, Different, Keys

(* An entry that runs stops.                                               *)
LEMMA PopStep ==
    ASSUME TypeOK, KeysAreKept, ServicesFollowEntries, NEW e \in Entries,
           state[e] = "loaded", NEW s, s \notin Kept, SetState(e, s), Pop(e)
    PROVE  /\ data' \in Seq(Entries) /\ services' \in BOOLEAN
           /\ KeysAreKept' /\ ServicesFollowEntries'
<1>1. e \in Keys(data)
  BY DEF KeysAreKept, Kept
<1>2. /\ data' \in Seq(Entries) /\ Different(data')
      /\ Keys(data') = Keys(data) \ {e}
  BY <1>1, PopKey DEF TypeOK, KeysAreKept, Pop
<1>3. \A f \in Entries : state'[f] = IF f = e THEN s ELSE state[f]
  BY DEF SetState, TypeOK
<1>4. \A f \in Entries : state'[f] \in Kept <=> f \in Keys(data')
  BY <1>2, <1>3 DEF KeysAreKept
<1>5. KeysAreKept'
  BY <1>2, <1>4 DEF KeysAreKept, Different, Keys
<1>6. services' \in BOOLEAN /\ (services' <=> services /\ data' # << >>)
  BY DEF Pop, TypeOK
<1>7. ASSUME NEW f \in Configured, state'[f] \in Running
      PROVE  services'
  <2>1. f \in Entries
    BY DEF Entries
  <2>2. f # e /\ state[f] \in Running
    BY <1>3, <1>7, <2>1 DEF Kept, Running
  <2>3. services
    BY <2>2 DEF ServicesFollowEntries, Running
  <2>4. f \in Keys(data')
    BY <1>4, <1>7, <2>1 DEF Kept, Running
  <2>5. data' # << >>
    BY <2>4 DEF Keys
  <2> QED BY <1>6, <2>3, <2>5
<1>8. ServicesFollowEntries'
  BY <1>6, <1>7 DEF ServicesFollowEntries, Running
<1> QED BY <1>2, <1>5, <1>6, <1>8

(* Nobody starts or stops to run.                                          *)
LEMMA SameDataStep ==
    ASSUME TypeOK, KeysAreKept, ServicesFollowEntries, UNCHANGED <<data, services>>,
           \A e \in Entries : /\ state[e] \in Kept <=> state'[e] \in Kept
                              /\ state'[e] \in Running => state[e] \in Running
    PROVE  /\ data' \in Seq(Entries) /\ services' \in BOOLEAN
           /\ KeysAreKept' /\ ServicesFollowEntries'
<1>1. data' \in Seq(Entries) /\ services' \in BOOLEAN
  BY DEF TypeOK
<1>2. KeysAreKept'
  BY DEF KeysAreKept, Different, Keys
<1>3. ServicesFollowEntries'
  BY DEF ServicesFollowEntries, Entries, Running
<1> QED BY <1>1, <1>2, <1>3

-----------------------------------------------------------------------------
(* Each step keeps the invariant.  TypeOK is cut into what changes         *)
(* together.                                                               *)

States ==
    {"absent", "unloaded", "setup", "starting", "loaded", "stuck", "leftover", "removed"}

(* What is left of TypeOK besides hass.data and the services.              *)
EntriesTyped ==
    /\ state \in [Entries -> States]
    /\ parent \in [Clusters -> PVEs \union {NONE}]
    /\ named \subseteq Clusters
    /\ \A c \in Clusters : /\ parent[c] # NONE => c \in named
                           /\ c \in named => state[c] # "absent"

OptionsTyped == enabled \in [PVEs -> BOOLEAN]

TasksTyped ==
    task \in [Tasks -> [stage  : {"none", "sleeping", "flow", "asking"},
                        entry  : PVEs \union {NONE},
                        enable : BOOLEAN]]

DataTyped == data \in Seq(Entries) /\ services \in BOOLEAN

(* The parts make up TypeOK.                                               *)
LEMMA TypeParts ==
    /\ TypeOK <=> EntriesTyped /\ OptionsTyped /\ TasksTyped /\ DataTyped
    /\ TypeOK' <=> EntriesTyped' /\ OptionsTyped' /\ TasksTyped' /\ DataTyped'
  BY DEF TypeOK, EntriesTyped, OptionsTyped, TasksTyped, DataTyped, States

(* Nothing is there at the start.                                          *)
LEMMA InitIInv == Init => IInv
<1> SUFFICES ASSUME Init
             PROVE  IInv
  OBVIOUS
<1>1. TypeOK
  <2>1. DataTyped
    <3>1. services \in BOOLEAN
      BY DEF Init
    <3>2. data \in Seq(Entries)
      BY DEF Init
    <3> QED BY <3>1, <3>2 DEF DataTyped
  <2>2. named = {} /\ \A c \in Clusters : parent[c] = NONE
    BY DEF Init
  <2>3. OptionsTyped /\ TasksTyped
    BY DEF Init, OptionsTyped, TasksTyped, NoTask
  <2>4. EntriesTyped
    BY <2>2 DEF Init, EntriesTyped, States
  <2> QED BY <2>1, <2>3, <2>4, TypeParts
<1>2. KeysAreKept
  BY DEF Init, KeysAreKept, Different, Keys, Kept
<1>3. TasksHaveEntries
  BY DEF Init, TasksHaveEntries, NoTask
<1>4. ServicesFollowEntries
  BY DEF Init, ServicesFollowEntries, Entries
<1> QED BY <1>1, <1>2, <1>3, <1>4 DEF IInv

(* An entry changes its state, not whether it exists.                      *)
LEMMA StateStep ==
    ASSUME EntriesTyped, NEW e \in Entries, NEW s \in States \ {"absent"},
           SetState(e, s), UNCHANGED <<parent, named>>
    PROVE  /\ EntriesTyped'
           /\ \A f \in Entries : state'[f] = IF f = e THEN s ELSE state[f]
<1>1. \A f \in Entries : state'[f] = IF f = e THEN s ELSE state[f]
  BY DEF SetState, EntriesTyped
<1>2. Clusters \subseteq Entries
  BY DEF Entries
<1> QED BY <1>1, <1>2 DEF SetState, EntriesTyped

(* A task changes its stage and keeps its entry.                           *)
LEMMA TaskStep ==
    ASSUME TasksTyped, TasksHaveEntries, NEW t \in Tasks, task[t].stage # "none",
           \/ SetTask(t, NoTask)
           \/ \E s \in {"flow", "asking"} : SetTask(t, [task[t] EXCEPT !.stage = s])
    PROVE  TasksTyped' /\ TasksHaveEntries'
<1>1. CASE SetTask(t, NoTask)
  BY <1>1 DEF SetTask, NoTask, TasksTyped, TasksHaveEntries
<1>2. ASSUME NEW s \in {"flow", "asking"}, SetTask(t, [task[t] EXCEPT !.stage = s])
      PROVE  TasksTyped' /\ TasksHaveEntries'
  BY <1>2 DEF SetTask, TasksTyped, TasksHaveEntries
<1> QED BY <1>1, <1>2

(* The steps of an entry other than its removal.                           *)
LEMMA EntryStep ==
    ASSUME IInv, NEW e \in Entries,
           Add(e) \/ AddCluster(e) \/ BeginSetup(e) \/ SetupFails(e) \/ Store(e)
             \/ SetupDone(e) \/ Unload(e) \/ UnloadFails(e)
    PROVE  IInv'
<1> USE TypeParts DEF IInv
<1>1. CASE Add(e) \/ BeginSetup(e) \/ SetupFails(e) \/ UnloadFails(e)
  <2>1. PICK s \in {"setup", "unloaded", "stuck"} :
           /\ SetState(e, s)
           /\ s = "stuck" <=> state[e] = "loaded"
           /\ state[e] \in {"absent", "unloaded", "setup", "loaded"}
    BY <1>1 DEF Add, BeginSetup, SetupFails, UnloadFails
  <2>2. UNCHANGED <<parent, named, enabled, data, services, task>>
    BY <1>1 DEF Add, BeginSetup, SetupFails, UnloadFails
  <2>3. /\ EntriesTyped'
        /\ \A f \in Entries : state'[f] = IF f = e THEN s ELSE state[f]
    BY <2>1, <2>2, StateStep DEF States
  <2>4. DataTyped' /\ KeysAreKept' /\ ServicesFollowEntries'
    BY <2>1, <2>2, <2>3, SameDataStep DEF Kept, Running, DataTyped
  <2>5. OptionsTyped' /\ TasksTyped' /\ TasksHaveEntries'
    BY <2>2 DEF OptionsTyped, TasksTyped, TasksHaveEntries
  <2> QED BY <2>3, <2>4, <2>5
<1>2. CASE AddCluster(e)
  <2>1. /\ e \in Clusters /\ state[e] = "absent" /\ SetState(e, "setup")
        /\ named' \in {named, named \union {e}}
        /\ UNCHANGED <<parent, enabled, data, services, task>>
    BY <1>2 DEF AddCluster
  <2>2. \A f \in Entries : state'[f] = IF f = e THEN "setup" ELSE state[f]
    BY <2>1 DEF SetState, EntriesTyped
  <2>3. EntriesTyped'
    <3>1. state' \in [Entries -> States] /\ Clusters \subseteq Entries
      BY <2>1 DEF SetState, EntriesTyped, States, Entries
    <3> QED BY <2>1, <2>2, <3>1 DEF EntriesTyped
  <2>4. DataTyped' /\ KeysAreKept' /\ ServicesFollowEntries'
    BY <2>1, <2>2, SameDataStep DEF Kept, Running, DataTyped
  <2>5. OptionsTyped' /\ TasksTyped' /\ TasksHaveEntries'
    BY <2>1 DEF OptionsTyped, TasksTyped, TasksHaveEntries
  <2> QED BY <2>3, <2>4, <2>5
<1>4. CASE Store(e)
  <2>1. /\ EntriesTyped'
        /\ \A f \in Entries : state'[f] = IF f = e THEN "starting" ELSE state[f]
    BY <1>4, StateStep DEF Store, States
  <2>2. data' \in Seq(Entries) /\ KeysAreKept' /\ data' # << >>
    BY <1>4, AppendStep DEF Store, Kept
  <2>3. services' \in BOOLEAN /\ (services' <=> services \/ e \in Configured)
    BY <1>4 DEF Store, Register, DataTyped
  <2>4. ServicesFollowEntries'
    <3>1. Configured \subseteq Entries
      BY DEF Entries
    <3> QED BY <2>1, <2>2, <2>3, <3>1 DEF ServicesFollowEntries
  <2>5. OptionsTyped' /\ TasksTyped' /\ TasksHaveEntries'
    BY <1>4 DEF Store, OptionsTyped, TasksTyped, TasksHaveEntries
  <2> QED BY <2>1, <2>2, <2>3, <2>4, <2>5 DEF DataTyped
<1>5. CASE SetupDone(e)
  <2>1. /\ EntriesTyped'
        /\ \A f \in Entries : state'[f] = IF f = e THEN "loaded" ELSE state[f]
    BY <1>5, StateStep DEF SetupDone, States
  <2>2. DataTyped' /\ KeysAreKept' /\ ServicesFollowEntries'
    BY <1>5, <2>1, SameDataStep DEF SetupDone, Kept, Running, DataTyped
  <2>3. TasksTyped' /\ TasksHaveEntries'
    <3>1. CASE UNCHANGED task
      BY <3>1 DEF TasksTyped, TasksHaveEntries
    <3>2. CASE e \in PVEs /\ \E t \in Tasks :
                  SetTask(t, [stage |-> "sleeping", entry |-> e, enable |-> enabled[e]])
      <4>1. PICK t \in Tasks :
               SetTask(t, [stage |-> "sleeping", entry |-> e, enable |-> enabled[e]])
        BY <3>2
      <4>2. enabled[e] \in BOOLEAN
        BY <3>2 DEF OptionsTyped
      <4> QED BY <3>2, <4>1, <4>2 DEF SetTask, TasksTyped, TasksHaveEntries
    <3> QED BY <1>5, <3>1, <3>2 DEF SetupDone
  <2>4. OptionsTyped'
    BY <1>5 DEF SetupDone, OptionsTyped
  <2> QED BY <2>1, <2>2, <2>3, <2>4
<1>3. CASE Unload(e)
  <2>1. EntriesTyped'
    BY <1>3, StateStep DEF Unload, States
  <2>2. DataTyped' /\ KeysAreKept' /\ ServicesFollowEntries'
    BY <1>3, PopStep DEF Unload, Kept, DataTyped
  <2>3. OptionsTyped' /\ TasksTyped' /\ TasksHaveEntries'
    BY <1>3 DEF Unload, OptionsTyped, TasksTyped, TasksHaveEntries
  <2> QED BY <2>1, <2>2, <2>3
<1> QED BY <1>1, <1>2, <1>3, <1>4, <1>5

(* An entry is removed, by the user or by a task.                          *)
LEMMA DropStep ==
    ASSUME IInv, NEW e \in Entries, Drop(e)
    PROVE  EntriesTyped' /\ DataTyped' /\ KeysAreKept' /\ ServicesFollowEntries'
<1> USE TypeParts DEF IInv
<1>1. CASE state[e] = "stuck"
  <2>1. SetState(e, "leftover") /\ UNCHANGED <<parent, named, data, services>>
    BY <1>1 DEF Drop
  <2>2. EntriesTyped' /\ \A f \in Entries : state'[f] = IF f = e THEN "leftover" ELSE state[f]
    BY <1>1, <2>1, StateStep DEF States
  <2>3. DataTyped' /\ KeysAreKept' /\ ServicesFollowEntries'
    BY <1>1, <2>1, <2>2, SameDataStep DEF Kept, Running, DataTyped
  <2> QED BY <2>2, <2>3
<1>2. CASE state[e] # "stuck"
  <2>1. /\ SetState(e, Gone(e)) /\ state[e] \in {"unloaded", "loaded"}
        /\ parent' = [c \in Clusters |-> IF c = e THEN NONE ELSE parent[c]]
        /\ named' = named \ {e}
    BY <1>2 DEF Drop
  <2>2. /\ Gone(e) \in {"absent", "removed"}
        /\ Gone(e) = "absent" <=> e \in Clusters
    BY DEF Gone
  <2>3. \A f \in Entries : state'[f] = IF f = e THEN Gone(e) ELSE state[f]
    BY <2>1 DEF SetState, EntriesTyped
  <2>4. EntriesTyped'
    <3>1. state' \in [Entries -> States]
      BY <2>1, <2>2 DEF SetState, EntriesTyped, States
    <3>2. Clusters \subseteq Entries
      BY DEF Entries
    <3> QED BY <2>1, <2>2, <2>3, <3>1, <3>2 DEF EntriesTyped
  <2>5. DataTyped' /\ KeysAreKept' /\ ServicesFollowEntries'
    <3>1. CASE state[e] = "loaded"
      <4>1. Pop(e)
        BY <3>1 DEF Drop
      <4> QED BY <2>1, <2>2, <3>1, <4>1, PopStep DEF Kept, DataTyped
    <3>2. CASE state[e] = "unloaded"
      <4>1. UNCHANGED <<data, services>>
        BY <3>2 DEF Drop
      <4> QED BY <2>2, <2>3, <3>2, <4>1, SameDataStep DEF Kept, Running, DataTyped
    <3> QED BY <2>1, <3>1, <3>2
  <2> QED BY <2>4, <2>5
<1> QED BY <1>1, <1>2

(* Removals, options and the restart.                                      *)
LEMMA OuterStep ==
    ASSUME IInv,
           \/ \E e \in Entries : RemoveEntry(e)
           \/ \E p \in PVEs : SubmitOptions(p)
           \/ Restart
    PROVE  IInv'
<1> USE TypeParts DEF IInv
<1>1. ASSUME NEW e \in Entries, RemoveEntry(e)
      PROVE  IInv'
  <2>1. EntriesTyped' /\ DataTyped' /\ KeysAreKept' /\ ServicesFollowEntries'
    BY <1>1, DropStep DEF RemoveEntry
  <2>2. OptionsTyped' /\ TasksTyped' /\ TasksHaveEntries'
    BY <1>1 DEF RemoveEntry, OptionsTyped, TasksTyped, TasksHaveEntries
  <2> QED BY <2>1, <2>2
<1>2. ASSUME NEW p \in PVEs, SubmitOptions(p)
      PROVE  IInv'
  <2>1. UNCHANGED <<state, parent, named, data, services, task>> /\ OptionsTyped'
    BY <1>2 DEF SubmitOptions, OptionsTyped
  <2>2. DataTyped' /\ KeysAreKept' /\ ServicesFollowEntries'
    BY <2>1, SameDataStep DEF DataTyped
  <2>3. EntriesTyped' /\ TasksTyped' /\ TasksHaveEntries'
    BY <2>1 DEF EntriesTyped, TasksTyped, TasksHaveEntries
  <2> QED BY <2>1, <2>2, <2>3
<1>3. CASE Restart
  <2>1. \A e \in Entries :
           /\ state[e] = "leftover" => state'[e] = Gone(e)
           /\ state[e] \in {"absent", "removed"} => state'[e] = state[e]
           /\ state[e] \notin {"leftover", "absent", "removed"} => state'[e] = "unloaded"
    BY <1>3 DEF Restart
  <2>2. \A e \in Entries : /\ Gone(e) \in {"absent", "removed"}
                           /\ Gone(e) = "absent" <=> e \in Clusters
    BY DEF Gone
  <2>3. \A e \in Entries : state'[e] \in {"absent", "removed", "unloaded"}
    BY <2>1, <2>2
  <2>4. EntriesTyped'
    <3>1. state' \in [Entries -> States]
      <4>1. DOMAIN state' = Entries /\ state' = [e \in Entries |-> state'[e]]
        BY <1>3 DEF Restart
      <4> QED BY <4>1, <2>3 DEF States
    <3>2. Clusters \subseteq Entries
      BY DEF Entries
    <3>3. parent' = [c \in Clusters |-> IF state[c] = "leftover" THEN NONE ELSE parent[c]]
      BY <1>3 DEF Restart
    <3>4. named' = {c \in named : state[c] # "leftover"}
      BY <1>3 DEF Restart
    <3> QED BY <2>1, <2>2, <3>1, <3>2, <3>3, <3>4 DEF EntriesTyped
  <2>5. data' = << >> /\ services' = FALSE /\ UNCHANGED enabled
        /\ task' = [t \in Tasks |-> NoTask]
    BY <1>3 DEF Restart
  <2>6. KeysAreKept'
    BY <2>3, <2>5 DEF KeysAreKept, Different, Keys, Kept
  <2>7. ServicesFollowEntries'
    BY <2>3, <2>5 DEF ServicesFollowEntries, Entries
  <2>8. DataTyped' /\ OptionsTyped'
    <3>1. services' \in BOOLEAN
      BY <2>5
    <3>2. data' \in Seq(Entries)
      BY <2>5
    <3>3. OptionsTyped'
      BY <2>5 DEF OptionsTyped
    <3> QED BY <3>1, <3>2, <3>3 DEF DataTyped
  <2>9. TasksTyped' /\ TasksHaveEntries'
    BY <2>5 DEF TasksTyped, TasksHaveEntries, NoTask
  <2> QED BY <2>4, <2>6, <2>7, <2>8, <2>9
<1> QED BY <1>1, <1>2, <1>3

(* The steps of a background task and its flow.                            *)
LEMMA BackgroundStep ==
    ASSUME IInv, NEW t \in Tasks,
           \/ NothingToManage(t) \/ RemoveOwned(t) \/ StartFlow(t)
           \/ CheckExisting(t) \/ CreateCluster(t)
    PROVE  IInv'
<1> USE TypeParts DEF IInv
<1>1. CASE NothingToManage(t) \/ StartFlow(t) \/ CheckExisting(t)
  <2>1. UNCHANGED <<state, parent, named, enabled, data, services>>
    BY <1>1 DEF NothingToManage, StartFlow, CheckExisting
  <2>2. TasksTyped' /\ TasksHaveEntries'
    BY <1>1, TaskStep DEF NothingToManage, StartFlow, CheckExisting
  <2>3. DataTyped' /\ KeysAreKept' /\ ServicesFollowEntries'
    BY <2>1, SameDataStep DEF DataTyped
  <2>4. EntriesTyped' /\ OptionsTyped'
    BY <2>1 DEF EntriesTyped, OptionsTyped
  <2> QED BY <2>2, <2>3, <2>4
<1>2. CASE RemoveOwned(t)
  <2>1. PICK c \in Existing : Drop(c)
    BY <1>2 DEF RemoveOwned, OwnedBy
  <2>2. c \in Entries
    BY DEF Existing, Present, Entries
  <2>3. EntriesTyped' /\ DataTyped' /\ KeysAreKept' /\ ServicesFollowEntries'
    BY <2>1, <2>2, DropStep
  <2>4. TasksTyped' /\ TasksHaveEntries'
    <3>1. task[t].stage # "none" /\ (SetTask(t, NoTask) \/ UNCHANGED task)
      BY <1>2 DEF RemoveOwned
    <3>2. CASE UNCHANGED task
      BY <3>2 DEF TasksTyped, TasksHaveEntries
    <3> QED BY <3>1, <3>2, TaskStep
  <2>5. OptionsTyped'
    BY <1>2 DEF RemoveOwned, OptionsTyped
  <2> QED BY <2>3, <2>4, <2>5
<1>3. CASE CreateCluster(t)
  <2>1. PICK c \in Clusters :
           /\ state[c] = "absent" /\ SetState(c, "setup")
           /\ parent' = [parent EXCEPT ![c] = task[t].entry]
           /\ named' = named \union {c}
    BY <1>3 DEF CreateCluster
  <2>2. Clusters \subseteq Entries
    BY DEF Entries
  <2>3. \A f \in Entries : state'[f] = IF f = c THEN "setup" ELSE state[f]
    BY <2>1 DEF SetState, EntriesTyped
  <2>4. task[t].entry \in PVEs /\ task[t].entry # NONE
    BY <1>3, EntryAssumption DEF CreateCluster, TasksHaveEntries
  <2>5. EntriesTyped'
    <3>1. state' \in [Entries -> States]
      BY <2>1 DEF SetState, EntriesTyped, States
    <3>2. parent' \in [Clusters -> PVEs \union {NONE}]
          /\ \A d \in Clusters : parent'[d] = IF d = c THEN task[t].entry ELSE parent[d]
      BY <2>1, <2>4 DEF EntriesTyped
    <3> QED BY <2>1, <2>2, <2>3, <2>4, <3>1, <3>2 DEF EntriesTyped
  <2>6. TasksTyped' /\ TasksHaveEntries'
    BY <1>3, TaskStep DEF CreateCluster
  <2>7. UNCHANGED <<enabled, data, services>>
    BY <1>3 DEF CreateCluster
  <2>8. DataTyped' /\ KeysAreKept' /\ ServicesFollowEntries'
    BY <2>1, <2>2, <2>3, <2>7, SameDataStep DEF Kept, Running, DataTyped
  <2>9. OptionsTyped'
    BY <2>7 DEF OptionsTyped
  <2> QED BY <2>5, <2>6, <2>8, <2>9
<1> QED BY <1>1, <1>2, <1>3

(* Every step keeps the inductive invariant.                               *)
LEMMA NextIInv == IInv /\ [Next]_vars => IInv'
<1>1. ASSUME IInv, UNCHANGED vars
      PROVE  IInv'
  BY <1>1 DEF vars, IInv, TypeOK, KeysAreKept, Different, Keys, TasksHaveEntries,
     ServicesFollowEntries
<1> QED BY <1>1, EntryStep, OuterStep, BackgroundStep DEF Next

-----------------------------------------------------------------------------
(* The theorems.                                                           *)

(* The inductive invariant holds in every reachable state.                 *)
THEOREM Invariance == Spec => []IInv
  BY InitIInv, NextIInv, PTL DEF Spec

(* Every variable keeps its type.                                          *)
THEOREM TypeCorrect == Spec => []TypeOK
<1>1. IInv => TypeOK
  BY DEF IInv
<1> QED BY <1>1, Invariance, PTL

(* hass.data holds each entry that runs or refused to stop once, and no    *)
(* other: every unload finds its key.                                      *)
THEOREM DataFollowsEntries == Spec => []DataIsLoaded
<1>1. ASSUME IInv
      PROVE  DataIsLoaded
  <2>1. ToSet(data) = Keys(data) /\ data \in Seq(Entries)
    BY <1>1 DEF ToSet, Keys, IInv, TypeOK
  <2>2. Cardinality(Keys(data)) = Len(data)
    <3> DEFINE f == [i \in 1..Len(data) |-> data[i]]
    <3>1. f \in Bijection(1..Len(data), Keys(data))
      BY <1>1 DEF Bijection, Injection, Surjection, IsInjective, Keys, Different,
         IInv, KeysAreKept
    <3>2. Len(data) \in Nat
      BY <2>1
    <3> QED BY <3>1, <3>2, FS_CountingElements DEF ExistsBijection
  <2> QED BY <1>1, <2>1, <2>2 DEF DataIsLoaded, IInv, KeysAreKept, Kept
<1> QED BY <1>1, Invariance, PTL

(* The services are there while a PVE or PBS entry runs and gone with the  *)
(* last entry, in whatever order entries come, fail, reload and go.        *)
THEOREM ServicesGoWithTheLast == Spec => []ServicesFollowEntries
<1>1. IInv => ServicesFollowEntries
  BY DEF IInv
<1> QED BY <1>1, Invariance, PTL

(* No background task removes the CLUSTER entry of another PVE entry, or   *)
(* one that was made by hand.                                              *)
THEOREM ClustersAreRemovedByTheirParents == Spec => OnlyItsParentRemoves
<1> DEFINE A == \A c \in Present :
                   c \notin Present' =>
                      \/ RemoveEntry(c)
                      \/ \E t \in Tasks : /\ task[t].stage = "sleeping"
                                          /\ task[t].entry = parent[c]
                                          /\ ~task[t].enable
<1>1. ASSUME IInv, [Next]_vars, NEW c \in Present, c \notin Present'
      PROVE  \/ RemoveEntry(c)
             \/ \E t \in Tasks : /\ task[t].stage = "sleeping"
                                 /\ task[t].entry = parent[c]
                                 /\ ~task[t].enable
  <2>1. /\ c \in Clusters /\ c \in Entries
        /\ state[c] \notin {"absent", "leftover"} /\ state'[c] \in {"absent", "leftover"}
    BY <1>1 DEF Present, Entries
  <2>2. \A e \in Entries : \A s : SetState(e, s) => state'[c] = IF c = e THEN s ELSE state[c]
    BY <1>1, <2>1 DEF SetState, IInv, TypeOK
  <2>3. ASSUME NEW e \in Entries,
               Add(e) \/ AddCluster(e) \/ BeginSetup(e) \/ SetupFails(e) \/ Store(e)
                 \/ SetupDone(e) \/ Unload(e) \/ UnloadFails(e)
        PROVE  FALSE
    BY <2>1, <2>2, <2>3 DEF Add, AddCluster, BeginSetup, SetupFails, Store,
       SetupDone, Unload, UnloadFails
  <2>4. ASSUME NEW e \in Entries, Drop(e)
        PROVE  e = c
    BY <2>1, <2>2, <2>4 DEF Drop
  <2>5. ASSUME NEW e \in Entries, RemoveEntry(e)
        PROVE  RemoveEntry(c)
    BY <2>4, <2>5 DEF RemoveEntry
  <2>6. ASSUME NEW t \in Tasks, RemoveOwned(t)
        PROVE  /\ task[t].stage = "sleeping"
               /\ task[t].entry = parent[c]
               /\ ~task[t].enable
    <3>1. PICK d \in OwnedBy(task[t].entry) : Drop(d)
      BY <2>6 DEF RemoveOwned
    <3>2. d \in Entries /\ parent[d] = task[t].entry
      BY DEF OwnedBy, Existing, Present, Entries
    <3>3. d = c
      BY <2>4, <3>1, <3>2
    <3> QED BY <2>6, <3>2, <3>3 DEF RemoveOwned
  <2>7. ASSUME NEW t \in Tasks, CreateCluster(t)
        PROVE  FALSE
    <3>1. PICK d \in Clusters : SetState(d, "setup")
      BY <2>7 DEF CreateCluster
    <3> QED BY <3>1, <2>1, <2>2 DEF Entries
  <2>8. CASE Restart
    <3>1. state'[c] \in {"unloaded", "removed"}
      BY <2>1, <2>8 DEF Restart
    <3> QED BY <2>1, <3>1
  <2>9. CASE UNCHANGED state
    BY <2>1, <2>9
  <2>10. /\ \A p \in PVEs : SubmitOptions(p) => UNCHANGED state
         /\ \A t \in Tasks : NothingToManage(t) \/ StartFlow(t) \/ CheckExisting(t)
                                => UNCHANGED state
         /\ UNCHANGED vars => UNCHANGED state
    BY DEF SubmitOptions, NothingToManage, StartFlow, CheckExisting, vars
  <2> QED BY <1>1, <2>3, <2>5, <2>6, <2>7, <2>8, <2>9, <2>10 DEF Next
<1>2. IInv /\ [Next]_vars => A
  BY <1>1
<1> QED BY <1>2, Invariance, PTL DEF Spec, OnlyItsParentRemoves
=============================================================================
