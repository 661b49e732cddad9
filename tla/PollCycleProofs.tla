-------------------------- MODULE PollCycleProofs --------------------------
(***************************************************************************)
(* Theorems about PollCycle, for every list of calls, every number of      *)
(* slots and all timeouts; above all that a refresh implements LastGood.   *)
(***************************************************************************)
EXTENDS PollCycle, FiniteSetTheorems, WellFoundedInduction, TLAPS

-----------------------------------------------------------------------------
(* The walk of idx over the results and the order of the calls agree.      *)

(* How many places of the list an optional call takes.                     *)
Has(s) == IF s \in enabled THEN 1 ELSE 0

(* What Has is.                                                            *)
LEMMA HasIsBit ==
    /\ Has("hardware") \in Nat /\ Has("smart") \in Nat /\ Has("memory") \in Nat
    /\ IF "hardware" \in enabled THEN Has("hardware") = 1 ELSE Has("hardware") = 0
    /\ IF "smart" \in enabled THEN Has("smart") = 1 ELSE Has("smart") = 0
    /\ IF "memory" \in enabled THEN Has("memory") = 1 ELSE Has("memory") = 0
  BY DEF Has

(* The list with an optional call.                                         *)
With(s, o) == s \o (IF o \in enabled THEN <<o>> ELSE << >>)

(* An optional call comes after those in front of it, or not at all.       *)
LEMMA OneMore ==
    ASSUME NEW s \in Seq(Sections), NEW o \in Optional
    PROVE  /\ With(s, o) \in Seq(Sections)
           /\ Len(With(s, o)) = Len(s) + Has(o)
           /\ \A i \in 1..Len(s) : With(s, o)[i] = s[i]
           /\ o \in enabled => With(s, o)[Len(s) + 1] = o
<1>1. CASE o \in enabled
  <2>1. With(s, o) = Append(s, o) /\ Has(o) = 1 /\ o \in Sections
    BY <1>1 DEF With, Has, Sections
  <2> QED BY <2>1
<1>2. CASE o \notin enabled
  <2>1. With(s, o) = s /\ Has(o) = 0
    BY <1>2 DEF With, Has
  <2> QED BY <1>2, <2>1
<1> QED BY <1>1, <1>2

(* Where each call is in the list handed to gather.                        *)
LEMMA ListShape ==
    /\ TaskList \in Seq(Sections)
    /\ Len(TaskList) = Len(Fixed) + Has("hardware") + Has("smart") + Has("memory")
    /\ \A i \in 1..Len(Fixed) : TaskList[i] = Fixed[i]
    /\ "hardware" \in enabled => TaskList[Len(Fixed) + 1] = "hardware"
    /\ "smart" \in enabled => TaskList[Len(Fixed) + Has("hardware") + 1] = "smart"
    /\ "memory" \in enabled =>
          TaskList[Len(Fixed) + Has("hardware") + Has("smart") + 1] = "memory"
<1>0. {"hardware", "smart", "memory"} = Optional
  BY DEF Optional
<1> DEFINE H == With(Fixed, "hardware")
           S == With(H, "smart")
<1>1. Fixed \in Seq(Sections) /\ Len(Fixed) \in Nat
  BY CycleAssumption DEF Sections
<1>2. /\ H \in Seq(Sections) /\ Len(H) = Len(Fixed) + Has("hardware")
      /\ \A i \in 1..Len(Fixed) : H[i] = Fixed[i]
      /\ "hardware" \in enabled => H[Len(Fixed) + 1] = "hardware"
  BY <1>0, <1>1, OneMore
<1> HIDE DEF H
<1>3. /\ S \in Seq(Sections) /\ Len(S) = Len(H) + Has("smart")
      /\ \A i \in 1..Len(H) : S[i] = H[i]
      /\ "smart" \in enabled => S[Len(H) + 1] = "smart"
  BY <1>0, <1>2, OneMore
<1>4. TaskList = With(S, "memory")
  BY DEF TaskList, With, H
<1> HIDE DEF S
<1>5. /\ TaskList \in Seq(Sections) /\ Len(TaskList) = Len(S) + Has("memory")
      /\ \A i \in 1..Len(S) : TaskList[i] = S[i]
      /\ "memory" \in enabled => TaskList[Len(S) + 1] = "memory"
  BY <1>0, <1>3, <1>4, OneMore
<1>6. Len(H) \in Nat /\ Len(S) \in Nat
      /\ 1..Len(Fixed) \subseteq 1..Len(H) /\ 1..Len(H) \subseteq 1..Len(S)
  BY <1>1, <1>2, <1>3, HasIsBit
<1>7. /\ Len(TaskList) = Len(Fixed) + Has("hardware") + Has("smart") + Has("memory")
      /\ \A i \in 1..Len(Fixed) : TaskList[i] = Fixed[i]
  BY <1>2, <1>3, <1>5, <1>6
<1>8. "hardware" \in enabled => TaskList[Len(Fixed) + 1] = "hardware"
  <2> SUFFICES ASSUME "hardware" \in enabled
               PROVE  TaskList[Len(Fixed) + 1] = "hardware"
    OBVIOUS
  <2>1. Len(H) = Len(Fixed) + 1
    BY <1>2, HasIsBit
  <2>2. Len(Fixed) + 1 \in 1..Len(H) /\ Len(Fixed) + 1 \in 1..Len(S)
    BY <2>1, <1>1, <1>6
  <2> QED BY <2>2, <1>2, <1>3, <1>5
<1>9. "smart" \in enabled => TaskList[Len(Fixed) + Has("hardware") + 1] = "smart"
  <2> SUFFICES ASSUME "smart" \in enabled
               PROVE  TaskList[Len(Fixed) + Has("hardware") + 1] = "smart"
    OBVIOUS
  <2>1. Len(S) = Len(H) + 1
    BY <1>3, HasIsBit
  <2>2. Len(H) + 1 \in 1..Len(S)
    BY <2>1, <1>6
  <2> QED BY <2>2, <1>2, <1>3, <1>5
<1>10. "memory" \in enabled =>
          TaskList[Len(Fixed) + Has("hardware") + Has("smart") + 1] = "memory"
  BY <1>2, <1>3, <1>5
<1> QED BY <1>5, <1>7, <1>8, <1>9, <1>10

(* What the walk of idx has counted when it has passed k sections.         *)
Passed(k) == {j \in 1..k : Takes(UnpackOrder[j])}

(* One section further idx has moved by one or stands where it was.        *)
LEMMA WalkStep ==
    ASSUME NEW k \in Nat, NEW l, l = k + 1
    PROVE  /\ Takes(UnpackOrder[l]) => Cardinality(Passed(l)) = Cardinality(Passed(k)) + 1
           /\ ~ Takes(UnpackOrder[l]) => Cardinality(Passed(l)) = Cardinality(Passed(k))
<1>1. IsFiniteSet(1..k)
  BY FS_Interval
<1>2. IsFiniteSet(Passed(k))
  BY <1>1, FS_Subset DEF Passed
<1>3. l \notin Passed(k)
  BY DEF Passed
<1>4. 1..l = (1..k) \union {l}
  OBVIOUS
<1>5. Takes(UnpackOrder[l]) => Passed(l) = Passed(k) \union {l}
  BY <1>4 DEF Passed
<1>6. ~ Takes(UnpackOrder[l]) => Passed(l) = Passed(k)
  BY <1>4 DEF Passed
<1> QED BY <1>2, <1>3, <1>5, <1>6, FS_AddElement

(* The fixed sections come first and each takes a result, so idx stands at *)
(* their place; behind them it has passed them and the options that are on.*)
LEMMA WalkShape ==
    /\ \A i \in 1..Len(Fixed) : PlaceOf(Fixed[i]) = i /\ IndexOf(Fixed[i]) = i
    /\ "hardware" \in enabled => IndexOf("hardware") = Len(Fixed) + 1
    /\ "smart" \in enabled => IndexOf("smart") = Len(Fixed) + Has("hardware") + 1
    /\ "memory" \in enabled =>
          IndexOf("memory") = Len(Fixed) + Has("hardware") + Has("smart") + 1
<1> DEFINE n == Len(Fixed)
<1>1. /\ n \in Nat /\ Fixed \in Seq(FixedNames)
      /\ \A i, j \in 1..n : Fixed[i] = Fixed[j] => i = j
      /\ \A i \in 1..n : Fixed[i] \in FixedNames /\ Fixed[i] \notin Optional
  BY CycleAssumption DEF FixedNames
<1>2. /\ Len(UnpackOrder) = n + 3
      /\ \A i \in 1..n : UnpackOrder[i] = Fixed[i]
      /\ UnpackOrder[n + 1] = "hardware" /\ UnpackOrder[n + 2] = "smart"
      /\ UnpackOrder[n + 3] = "memory"
  <2>1. Fixed \in Seq(Sections)
    BY CycleAssumption DEF Sections
  <2>2. <<"hardware", "smart", "memory">> \in Seq(Sections)
    BY DEF Sections, Optional
  <2> QED BY <1>1, <2>1, <2>2 DEF UnpackOrder
<1> HIDE DEF n
<1>3. 1..(n + 3) = (1..n) \union {n + 1, n + 2, n + 3}
  BY <1>1
<1>4. \A i \in 1..(n + 3) : i \notin 1..n => UnpackOrder[i] \in Optional
  BY <1>2, <1>3 DEF Optional
<1>5. ASSUME NEW i, i \in 1..n
      PROVE  PlaceOf(Fixed[i]) = i
  <2>1. i \in 1..Len(UnpackOrder) /\ UnpackOrder[i] = Fixed[i]
    BY <1>1, <1>2, <1>3, <1>5
  <2>2. \A k \in 1..Len(UnpackOrder) : UnpackOrder[k] = Fixed[i] => k = i
    BY <1>1, <1>2, <1>4, <1>5
  <2> QED BY <2>1, <2>2 DEF PlaceOf
<1>6. /\ PlaceOf("hardware") = n + 1 /\ PlaceOf("smart") = n + 2
      /\ PlaceOf("memory") = n + 3
  <2>1. \A i \in 1..n : UnpackOrder[i] \notin {"hardware", "smart", "memory"}
    BY <1>1, <1>2 DEF Optional
  <2>2. \A k \in 1..Len(UnpackOrder) : /\ UnpackOrder[k] = "hardware" <=> k = n + 1
                                       /\ UnpackOrder[k] = "smart" <=> k = n + 2
                                       /\ UnpackOrder[k] = "memory" <=> k = n + 3
    BY <2>1, <1>1, <1>2, <1>3
  <2>3. {n + 1, n + 2, n + 3} \subseteq 1..Len(UnpackOrder)
    BY <1>1, <1>2, <1>3
  <2> QED BY <2>2, <2>3 DEF PlaceOf
<1>7. \A i \in 0..n : Cardinality(Passed(i)) = i
  <2>1. \A i \in 0..n : Passed(i) = 1..i
    <3>1. \A j \in 1..n : Takes(UnpackOrder[j])
      BY <1>1, <1>2 DEF Takes
    <3>2. \A i \in 0..n : 1..i \subseteq 1..n
      BY <1>1
    <3> QED BY <3>1, <3>2 DEF Passed
  <2>2. \A i \in 0..n : Cardinality(1..i) = i
    BY <1>1, FS_Interval
  <2> QED BY <2>1, <2>2
<1>8. \A s : IndexOf(s) = Cardinality(Passed(PlaceOf(s)))
  BY DEF IndexOf, Passed
<1>9. Cardinality(Passed(n + 1)) = n + Has("hardware")
  <2>1. Takes(UnpackOrder[n + 1]) <=> "hardware" \in enabled
    BY <1>2 DEF Takes, Optional
  <2>2. Cardinality(Passed(n)) = n
    BY <1>1, <1>7
  <2>3. /\ Takes(UnpackOrder[n + 1]) => Cardinality(Passed(n + 1)) = Cardinality(Passed(n)) + 1
        /\ ~ Takes(UnpackOrder[n + 1]) => Cardinality(Passed(n + 1)) = Cardinality(Passed(n))
    BY <1>1, <2>2, WalkStep
  <2> QED BY <1>1, <2>1, <2>2, <2>3, HasIsBit
<1>10. Cardinality(Passed(n + 2)) = n + Has("hardware") + Has("smart")
  <2>1. Takes(UnpackOrder[n + 2]) <=> "smart" \in enabled
    BY <1>2 DEF Takes, Optional
  <2>2. n + 1 \in Nat /\ n + 1 + 1 = n + 2
    BY <1>1
  <2>3. /\ Takes(UnpackOrder[n + 2]) => Cardinality(Passed(n + 2)) = Cardinality(Passed(n + 1)) + 1
        /\ ~ Takes(UnpackOrder[n + 2]) => Cardinality(Passed(n + 2)) = Cardinality(Passed(n + 1))
    BY <1>1, <2>2, WalkStep
  <2> QED BY <1>1, <2>1, <1>9, <2>3, HasIsBit
<1>11. Cardinality(Passed(n + 3)) = n + Has("hardware") + Has("smart") + Has("memory")
  <2>1. Takes(UnpackOrder[n + 3]) <=> "memory" \in enabled
    BY <1>2 DEF Takes, Optional
  <2>2. n + 2 \in Nat /\ n + 2 + 1 = n + 3
    BY <1>1
  <2>3. /\ Takes(UnpackOrder[n + 3]) => Cardinality(Passed(n + 3)) = Cardinality(Passed(n + 2)) + 1
        /\ ~ Takes(UnpackOrder[n + 3]) => Cardinality(Passed(n + 3)) = Cardinality(Passed(n + 2))
    BY <1>1, <2>2, WalkStep
  <2> QED BY <1>1, <2>1, <1>10, <2>3, HasIsBit
<1>12. \A i \in 1..n : PlaceOf(Fixed[i]) = i /\ IndexOf(Fixed[i]) = i
  BY <1>1, <1>5, <1>7, <1>8
<1>13. /\ "hardware" \in enabled => IndexOf("hardware") = n + 1
       /\ "smart" \in enabled => IndexOf("smart") = n + Has("hardware") + 1
       /\ "memory" \in enabled =>
             IndexOf("memory") = n + Has("hardware") + Has("smart") + 1
  BY <1>6, <1>8, <1>9, <1>10, <1>11, HasIsBit
<1> QED BY <1>12, <1>13 DEF n

(* The position of a section is the position of its call, and the other    *)
(* way round.                                                              *)
LEMMA IndexOfInverts ==
    /\ \A i \in Positions : /\ IndexOf(TaskList[i]) = i
                            /\ TaskList[i] \in Sections \ (Optional \ enabled)
    /\ \A s \in Sections \ (Optional \ enabled) :
          IndexOf(s) \in Positions /\ TaskList[IndexOf(s)] = s
<1>2. \A i \in 1..Len(Fixed) : IndexOf(Fixed[i]) = i
  BY WalkShape
<1>1. \A s \in FixedNames : /\ IndexOf(s) \in 1..Len(Fixed)
                            /\ Fixed[IndexOf(s)] = s
  BY <1>2 DEF FixedNames
<1>3. /\ "hardware" \in enabled => IndexOf("hardware") = Len(Fixed) + 1
      /\ "smart" \in enabled => IndexOf("smart") = Len(Fixed) + Has("hardware") + 1
      /\ "memory" \in enabled =>
            IndexOf("memory") = Len(Fixed) + Has("hardware") + Has("smart") + 1
  BY WalkShape
<1>4. Len(Fixed) \in Nat
  BY CycleAssumption
<1>5. ASSUME NEW i \in Positions
      PROVE  /\ IndexOf(TaskList[i]) = i
             /\ TaskList[i] \in Sections \ (Optional \ enabled)
  <2>1. CASE i \in 1..Len(Fixed)
    <3>1. TaskList[i] \in FixedNames
      BY <2>1, ListShape DEF FixedNames
    <3> QED BY <2>1, <3>1, <1>2, ListShape, CycleAssumption DEF Sections
  <2>2. CASE i \notin 1..Len(Fixed)
    <3>1. i \in Nat /\ i > Len(Fixed)
          /\ i <= Len(Fixed) + Has("hardware") + Has("smart") + Has("memory")
      BY <2>2, <1>4, ListShape, HasIsBit DEF Positions
    <3>2. CASE "hardware" \in enabled /\ i = Len(Fixed) + 1
      BY <3>2, <1>3, ListShape DEF Sections, Optional
    <3>3. CASE "smart" \in enabled /\ i = Len(Fixed) + Has("hardware") + 1
      BY <3>3, <1>3, ListShape DEF Sections, Optional
    <3>4. CASE "memory" \in enabled
               /\ i = Len(Fixed) + Has("hardware") + Has("smart") + 1
      BY <3>4, <1>3, ListShape DEF Sections, Optional
    <3>5. \/ "hardware" \in enabled /\ i = Len(Fixed) + 1
          \/ "smart" \in enabled /\ i = Len(Fixed) + Has("hardware") + 1
          \/ "memory" \in enabled /\ i = Len(Fixed) + Has("hardware") + Has("smart") + 1
      BY <3>1, <1>4, HasIsBit
    <3> QED BY <3>2, <3>3, <3>4, <3>5
  <2> QED BY <2>1, <2>2
<1>6. ASSUME NEW s \in Sections \ (Optional \ enabled)
      PROVE  IndexOf(s) \in Positions /\ TaskList[IndexOf(s)] = s
  <2>1. CASE s \in FixedNames
    <3>1. IndexOf(s) \in 1..Len(Fixed) /\ Fixed[IndexOf(s)] = s
      BY <2>1, <1>1
    <3>2. 1..Len(Fixed) \subseteq Positions
      BY <1>4, ListShape, HasIsBit DEF Positions
    <3> QED BY <3>1, <3>2, ListShape
  <2>2. CASE s = "hardware" /\ s \in enabled
    <3>1. Len(Fixed) + 1 \in Positions
      BY <2>2, <1>4, ListShape, HasIsBit DEF Positions
    <3> QED BY <2>2, <3>1, <1>3, ListShape
  <2>3. CASE s = "smart" /\ s \in enabled
    <3>1. Len(Fixed) + Has("hardware") + 1 \in Positions
      BY <2>3, <1>4, ListShape, HasIsBit DEF Positions
    <3> QED BY <2>3, <3>1, <1>3, ListShape
  <2>4. CASE s = "memory" /\ s \in enabled
    <3>1. Len(Fixed) + Has("hardware") + Has("smart") + 1 \in Positions
      BY <2>4, <1>4, ListShape, HasIsBit DEF Positions
    <3> QED BY <2>4, <3>1, <1>3, ListShape
  <2> QED BY <2>1, <2>2, <2>3, <2>4 DEF Sections, Optional
<1> QED BY <1>5, <1>6

-----------------------------------------------------------------------------
(* The inductive invariant.                                                *)

(* The wave a call belongs to when every call takes its whole time.        *)
Wave(i) == (i - 1) \div SLOTS

(* The calls of the node wait until the cluster's are back.                *)
FanoutComesLast ==
    /\ phase = "fanout" => ClusterDone
    /\ phase # "fanout" => \A i \in Positions : task[i] = "waiting"

(* Nobody waits longer than the waves before its own take, and who runs    *)
(* has been running since.                                                 *)
InWaves ==
    phase = "fanout" =>
       \A i \in Positions :
          /\ task[i] = "waiting" => elapsed - fanned <= TASK_TIMEOUT * Wave(i)
          /\ task[i] = "running" =>
                elapsed - fanned <= TASK_TIMEOUT * Wave(i) + age[i]

(* The calls are taken in the order of the list.                           *)
ServedInOrder ==
    \A i, j \in Positions :
       task[i] = "waiting" /\ task[j] # "waiting" => j < i

IInv ==
    /\ TypeOK
    /\ FanoutComesLast
    /\ ServedInOrder
    /\ InWaves

-----------------------------------------------------------------------------
(* The options do not change, and so neither do the calls.                 *)
LEMMA SameCalls ==
    ASSUME [Next]_vars
    PROVE  enabled' = enabled /\ TaskList' = TaskList /\ Positions' = Positions
<1>1. enabled' = enabled
  BY DEF Next, vars, StartRefresh, ResourcesReturn, ClusterCallReturns, StartFanout,
     StartTask, TaskReturns, TaskTimesOut, Settle, Publish, UnpackFails, OuterTimeout,
     Abort, KeepPrevious, EndRefresh, Tick
<1>2. TaskList' = TaskList
  BY <1>1 DEF TaskList
<1> QED BY <1>1, <1>2 DEF Positions

(* A section is unpacked to its own payload or left empty.                 *)
LEMMA UnpackedIsOwn ==
    /\ \A i \in Positions :
          Unpacked(TaskList[i]) = IF task[i] = "list" THEN TaskList[i] ELSE "empty"
    /\ \A s \in Optional \ enabled : Unpacked(s) = "empty"
    /\ \A s \in Sections : Unpacked(s) \in Sections \union {"empty"}
  BY IndexOfInverts DEF Unpacked, Takes

-----------------------------------------------------------------------------
(* Each step keeps the types and the order of the phases.                  *)

(* Nothing runs at the start.                                              *)
LEMMA InitIInv == Init => IInv
<1> SUFFICES ASSUME Init
             PROVE  IInv
  OBVIOUS
<1>1. TypeOK
  <2>1. age \in [Positions -> 0..TASK_TIMEOUT] /\ elapsed \in 0..OUTER_TIMEOUT
        /\ clusterUp \in 0..OTHER_CLUSTER_CALLS
    BY CycleAssumption DEF Init
  <2>2. available \in BOOLEAN
    BY DEF Init
  <2> QED BY <2>1, <2>2 DEF Init, TypeOK
<1>2. FanoutComesLast /\ ServedInOrder /\ InWaves
  BY DEF Init, FanoutComesLast, ServedInOrder, InWaves
<1> QED BY <1>1, <1>2 DEF IInv

(* However a refresh ends, the next one finds everything as at the start.  *)
LEMMA EndStep ==
    ASSUME TypeOK, EndRefresh, Positions' = Positions,
           data' \in Snapshots \union {NONE}, available' \in BOOLEAN
    PROVE  TypeOK' /\ FanoutComesLast'
<1> USE CycleAssumption
<1>1. TypeOK'
  BY DEF EndRefresh, TypeOK
<1>2. FanoutComesLast'
  BY DEF EndRefresh, FanoutComesLast
<1> QED BY <1>1, <1>2

(* What is published is a snapshot.                                        *)
LEMMA PublishIsSnapshot ==
    ASSUME IInv, Publish
    PROVE  data' \in Snapshots /\ available' = TRUE
<1>1. resources \in {"list", "nothing"}
  BY DEF IInv, TypeOK, FanoutComesLast, Publish, FanoutDone, ClusterDone
<1>2. [s \in Sections |-> Unpacked(s)] \in [Sections -> Sections \union {"empty"}]
  BY UnpackedIsOwn
<1> QED BY <1>1, <1>2 DEF Publish, Snapshots

(* However a call ends, limited_task ends with a result.                   *)
LEMMA EveryEndSettles ==
    ASSUME NEW i \in Positions, TaskReturns(i) \/ TaskTimesOut(i)
    PROVE  \E r \in Settled : Settle(i, r)
  BY DEF TaskReturns, TaskTimesOut, Settle, Settled

(* A call is started, answered or given up.                                *)
LEMMA TaskStep ==
    ASSUME TypeOK, FanoutComesLast, Positions' = Positions, NEW i \in Positions,
           StartTask(i) \/ TaskReturns(i) \/ TaskTimesOut(i)
    PROVE  TypeOK' /\ FanoutComesLast'
<1>1. PICK r \in Settled \union {"running"} : task' = [task EXCEPT ![i] = r]
  BY EveryEndSettles DEF StartTask, Settle
<1>2. /\ phase = "fanout"
      /\ UNCHANGED <<enabled, phase, resources, clusterUp, elapsed, fanned, data, available>>
      /\ age' = age \/ age' = [age EXCEPT ![i] = 0]
  BY EveryEndSettles DEF StartTask, CanStart, Settle
<1>3. TypeOK'
  <2>1. age' \in [Positions -> 0..TASK_TIMEOUT]
    BY <1>2, CycleAssumption DEF TypeOK
  <2> QED BY <1>1, <1>2, <2>1 DEF TypeOK
<1>4. FanoutComesLast'
  BY <1>2 DEF FanoutComesLast, ClusterDone
<1> QED BY <1>3, <1>4

(* Every other step.                                                       *)
LEMMA TypeStep ==
    ASSUME IInv, [Next]_vars
    PROVE  TypeOK' /\ FanoutComesLast'
<1> USE CycleAssumption
<1>1. Positions' = Positions
  BY SameCalls
<1> USE <1>1 DEF IInv
<1>2. CASE StartRefresh
  BY <1>2 DEF StartRefresh, TypeOK, FanoutComesLast, ClusterDone
<1>3. ASSUME NEW r \in {"list", "nothing"}, ResourcesReturn(r)
      PROVE  TypeOK' /\ FanoutComesLast'
  BY <1>3 DEF ResourcesReturn, TypeOK, FanoutComesLast, ClusterDone
<1>4. CASE ClusterCallReturns
  BY <1>4 DEF ClusterCallReturns, TypeOK, FanoutComesLast, ClusterDone
<1>5. CASE StartFanout
  BY <1>5 DEF StartFanout, TypeOK, FanoutComesLast, ClusterDone
<1>6. ASSUME NEW i \in Positions,
             StartTask(i) \/ TaskReturns(i) \/ TaskTimesOut(i)
      PROVE  TypeOK' /\ FanoutComesLast'
  BY <1>6, TaskStep
<1>7. CASE Publish
  BY <1>7, PublishIsSnapshot, EndStep DEF Publish
<1>8. CASE UnpackFails \/ OuterTimeout
  <2>1. data' \in Snapshots \union {NONE} /\ available' \in BOOLEAN /\ EndRefresh
    BY <1>8 DEF UnpackFails, OuterTimeout, Abort, KeepPrevious, TypeOK
  <2> QED BY <2>1, EndStep
<1>9. CASE Tick
  <2>1. age' \in [Positions -> 0..TASK_TIMEOUT]
    <3>1. \A i \in Running : age[i] < TASK_TIMEOUT
      <4>1. phase # "fanout" => Running = {}
        BY DEF FanoutComesLast, Running
      <4> QED BY <1>9, <4>1 DEF Tick
    <3>2. \A i \in Positions : age[i] \in 0..TASK_TIMEOUT
      BY DEF TypeOK
    <3>3. \A i \in Positions :
             (IF i \in Running THEN age[i] + 1 ELSE age[i]) \in 0..TASK_TIMEOUT
      BY <3>1, <3>2
    <3> QED BY <1>9, <3>3 DEF Tick
  <2>2. elapsed' \in 0..OUTER_TIMEOUT
    BY <1>9 DEF Tick, TypeOK
  <2>3. TypeOK'
    BY <1>9, <2>1, <2>2 DEF Tick, TypeOK
  <2>4. FanoutComesLast'
    BY <1>9 DEF Tick, TypeOK, FanoutComesLast, ClusterDone
  <2> QED BY <2>3, <2>4
<1>10. CASE UNCHANGED vars
  BY <1>10 DEF vars, TypeOK, FanoutComesLast, ClusterDone
<1> QED BY <1>2, <1>3, <1>4, <1>5, <1>6, <1>7, <1>8, <1>9, <1>10 DEF Next

-----------------------------------------------------------------------------
(* The waves: somebody who waits behind full slots waits behind a call of  *)
(* an earlier wave.                                                        *)

(* The waves of calls: non-negative, in order, SLOTS calls each.           *)
LEMMA WaveProperties ==
    ASSUME NEW i \in Nat \ {0}
    PROVE  /\ Wave(i) \in Nat
           /\ \A j \in Nat \ {0} : j <= i => Wave(j) <= Wave(i)
           /\ \A j \in Nat \ {0} : j + SLOTS <= i => Wave(j) + 1 <= Wave(i)
           /\ \A q \in Int : i <= SLOTS * q => Wave(i) + 1 <= q
<1>0. SLOTS \in Nat \ {0}
  BY CycleAssumption
<1>1. \A j \in Nat \ {0} : /\ Wave(j) \in Nat
                           /\ SLOTS * Wave(j) \in Int
                           /\ SLOTS * Wave(j) <= j - 1
                           /\ j - 1 < SLOTS * Wave(j) + SLOTS
  BY <1>0 DEF Wave
<1>2. \A x, y \in Int : SLOTS * x < SLOTS * y + SLOTS => x <= y
  BY <1>0
<1>3. \A x, y \in Int : SLOTS * x < SLOTS * y => x + 1 <= y
  BY <1>0
<1>4. ASSUME NEW j \in Nat \ {0}, j <= i
      PROVE  Wave(j) <= Wave(i)
  <2>1. SLOTS * Wave(j) < SLOTS * Wave(i) + SLOTS
    BY <1>0, <1>1, <1>4
  <2>2. Wave(j) \in Int /\ Wave(i) \in Int
    BY <1>1
  <2> QED BY <2>1, <2>2, <1>2
<1>5. ASSUME NEW j \in Nat \ {0}, j + SLOTS <= i
      PROVE  Wave(j) + 1 <= Wave(i)
  <2>1. SLOTS * Wave(j) < SLOTS * Wave(i)
    BY <1>0, <1>1, <1>5
  <2>2. Wave(j) \in Int /\ Wave(i) \in Int
    BY <1>1
  <2> QED BY <2>1, <2>2, <1>3
<1>6. ASSUME NEW q \in Int, i <= SLOTS * q
      PROVE  Wave(i) + 1 <= q
  <2>1. SLOTS * Wave(i) < SLOTS * q
    BY <1>0, <1>1, <1>6
  <2>2. Wave(i) \in Int
    BY <1>1
  <2> QED BY <2>1, <2>2, <1>3
<1> QED BY <1>1, <1>4, <1>5, <1>6

(* Somebody is the first who waits.                                        *)
LEMMA Least ==
    ASSUME NEW S \in SUBSET Nat, S # {}
    PROVE  \E m \in S : \A j \in S : m <= j
<1> DEFINE R == OpToRel(<, Nat)
<1>1. \A x, y \in Nat : x < y => <<x, y>> \in R
  BY DEF OpToRel
<1>2. IsWellFoundedOn(R, Nat)
  BY NatLessThanWellFounded
<1> HIDE DEF R
<1>3. PICK m \in S : \A j \in S : ~ (<<j, m>> \in R)
  BY <1>2, WFMin, Zenon
<1>4. \A j \in S : j \in Nat /\ m \in Nat /\ ~ (j < m)
  BY <1>1, <1>3
<1>5. \A j \in S : m <= j
  BY <1>4
<1> QED BY <1>5

(* Of SLOTS calls in front of another, one is SLOTS places in front of it. *)
LEMMA Pigeonhole ==
    ASSUME NEW i \in Nat \ {0}, NEW S \in SUBSET (Nat \ {0}),
           ~ (Cardinality(S) < SLOTS), \A j \in S : j < i
    PROVE  \E j \in S : j + SLOTS <= i
<1>0. SLOTS \in Nat \ {0}
  BY CycleAssumption
<1> SUFFICES ASSUME \A j \in S : ~ (j + SLOTS <= i)
             PROVE  FALSE
  OBVIOUS
<1> DEFINE I == (i - SLOTS + 1)..(i - 1)
<1>1. S \subseteq I
  BY <1>0
<1>2. IsFiniteSet(I) /\ Cardinality(I) = SLOTS - 1
  BY <1>0, FS_Interval
<1> HIDE DEF I
<1>3. IsFiniteSet(S) /\ Cardinality(S) <= Cardinality(I)
  BY <1>1, <1>2, FS_Subset
<1>4. Cardinality(S) \in Nat
  BY <1>3, FS_CardinalityType
<1> QED BY <1>0, <1>2, <1>3, <1>4

(* A tick that finds somebody waiting finds a call of the wave before that *)
(* has not had its whole time.                                             *)
LEMMA SomebodyInFront ==
    ASSUME IInv, Tick, phase = "fanout", NEW i \in Positions, task[i] = "waiting"
    PROVE  \E j \in Positions : /\ task[j] = "running"
                                /\ age[j] < TASK_TIMEOUT
                                /\ Wave(j) + 1 <= Wave(i)
<1>1. Positions \subseteq Nat \ {0}
  BY DEF Positions
<1>2. i \in Waiting /\ Waiting \subseteq Positions /\ Running \subseteq Positions
  BY DEF Waiting, Running
<1>3. PICK m \in Waiting : \A j \in Waiting : m <= j
  BY <1>1, <1>2, Least
<1>4. ~ (Cardinality(Running) < SLOTS)
  BY <1>2, <1>3 DEF Tick, CanStart
<1>5. \A j \in Running : j < m
  BY <1>1, <1>2, <1>3 DEF IInv, ServedInOrder, Running, Waiting
<1>6. PICK j \in Running : j + SLOTS <= m
  BY <1>1, <1>2, <1>4, <1>5, Pigeonhole
<1>7. j + SLOTS <= i
  <2>1. m <= i
    BY <1>2, <1>3
  <2> QED BY <2>1, <1>1, <1>2, <1>6, CycleAssumption
<1>8. Wave(j) + 1 <= Wave(i)
  BY <1>1, <1>2, <1>7, WaveProperties
<1> QED BY <1>2, <1>8 DEF Running, Tick

(* The calls start in order.                                               *)
LEMMA OrderStep ==
    ASSUME IInv, [Next]_vars
    PROVE  ServedInOrder'
<1>1. Positions' = Positions
  BY SameCalls
<1> USE <1>1 DEF IInv
<1>2. ASSUME NEW i \in Positions, StartTask(i)
      PROVE  ServedInOrder'
  <2>1. task[i] = "waiting" /\ \A j \in Positions : task[j] = "waiting" => i <= j
    BY <1>2 DEF StartTask, CanStart, Waiting
  <2>2. \A j \in Positions : task'[j] = IF j = i THEN "running" ELSE task[j]
    BY <1>2 DEF StartTask, TypeOK
  <2>3. Positions \subseteq Int
    BY DEF Positions
  <2> QED BY <2>1, <2>2, <2>3 DEF ServedInOrder
<1>3. ASSUME NEW i \in Positions,
             TaskReturns(i) \/ TaskTimesOut(i)
      PROVE  ServedInOrder'
  <2>0. PICK r \in Settled : Settle(i, r)
    BY <1>3, EveryEndSettles
  <2>1. task[i] = "running"
    BY <2>0 DEF Settle
  <2>2. \A j \in Positions : task'[j] = IF j = i THEN r ELSE task[j]
    BY <2>0 DEF Settle, TypeOK
  <2>3. r # "waiting"
    BY DEF Settled
  <2> QED BY <2>1, <2>2, <2>3 DEF ServedInOrder
<1>4. CASE Publish \/ UnpackFails \/ OuterTimeout
  <2>1. \A i \in Positions : task'[i] = "waiting"
    BY <1>4 DEF Publish, UnpackFails, OuterTimeout, Abort, KeepPrevious, EndRefresh
  <2> QED BY <2>1 DEF ServedInOrder
<1>5. CASE UNCHANGED task
  BY <1>5 DEF ServedInOrder
<1>6. (\/ StartRefresh \/ (\E r \in {"list", "nothing"} : ResourcesReturn(r))
       \/ ClusterCallReturns \/ StartFanout \/ Tick \/ UNCHANGED vars)
      => UNCHANGED task
  BY DEF StartRefresh, ResourcesReturn, ClusterCallReturns, StartFanout, Tick, vars
<1> QED BY <1>2, <1>3, <1>4, <1>5, <1>6 DEF Next

(* The clock is what the waves are about.                                  *)
LEMMA TickInWaves ==
    ASSUME IInv, Tick
    PROVE  InWaves'
<1>0. SLOTS \in Nat \ {0} /\ TASK_TIMEOUT \in Nat \ {0}
  BY CycleAssumption
<1>1. Positions' = Positions
  BY SameCalls DEF Next
<1> SUFFICES ASSUME phase = "fanout", NEW i \in Positions
             PROVE  /\ task[i] = "waiting" =>
                          elapsed' - fanned' <= TASK_TIMEOUT * Wave(i)
                    /\ task[i] = "running" =>
                          elapsed' - fanned' <= TASK_TIMEOUT * Wave(i) + age'[i]
  BY <1>1 DEF Tick, InWaves, Wave
<1>2. /\ elapsed \in Nat /\ elapsed' = elapsed + 1
      /\ fanned \in Nat /\ fanned' = fanned
      /\ \A j \in Positions : age[j] \in Nat
      /\ \A j \in Positions : Wave(j) \in Nat /\ TASK_TIMEOUT * Wave(j) \in Nat
  <2>1. \A j \in Positions : Wave(j) \in Nat
    BY WaveProperties DEF Positions
  <2>2. \A x \in Nat : TASK_TIMEOUT * x \in Nat
    BY <1>0
  <2>3. elapsed \in Nat /\ elapsed' = elapsed + 1 /\ fanned \in Nat /\ fanned' = fanned
    BY CycleAssumption DEF IInv, TypeOK, Tick
  <2>4. \A j \in Positions : age[j] \in Nat
    BY <1>0 DEF IInv, TypeOK
  <2> QED BY <2>1, <2>2, <2>3, <2>4
<1>3. CASE task[i] = "waiting"
  <2>1. PICK j \in Positions : /\ task[j] = "running"
                               /\ age[j] < TASK_TIMEOUT
                               /\ Wave(j) + 1 <= Wave(i)
    BY <1>3, SomebodyInFront
  <2>2. elapsed - fanned <= TASK_TIMEOUT * Wave(j) + age[j]
    BY <2>1 DEF IInv, InWaves
  <2>3. TASK_TIMEOUT * Wave(j) + TASK_TIMEOUT <= TASK_TIMEOUT * Wave(i)
    <3>1. \A x, y \in Nat : x + 1 <= y =>
             TASK_TIMEOUT * x + TASK_TIMEOUT <= TASK_TIMEOUT * y
      BY <1>0
    <3> QED BY <3>1, <2>1, <1>2
  <2>4. elapsed + 1 - fanned <= TASK_TIMEOUT * Wave(i)
    BY <1>0, <1>2, <2>1, <2>2, <2>3
  <2> QED BY <1>0, <1>2, <1>3, <2>4
<1>4. CASE task[i] = "running"
  <2>1. age'[i] = age[i] + 1
    BY <1>4 DEF Tick, Running
  <2>2. elapsed - fanned <= TASK_TIMEOUT * Wave(i) + age[i]
    BY <1>4 DEF IInv, InWaves
  <2> QED BY <1>0, <1>2, <1>4, <2>1, <2>2
<1> QED BY <1>3, <1>4

(* Only time moves a call behind its wave.                                 *)
LEMMA WaveStep ==
    ASSUME IInv, [Next]_vars
    PROVE  InWaves'
<1>0. SLOTS \in Nat \ {0} /\ TASK_TIMEOUT \in Nat \ {0}
  BY CycleAssumption
<1>1. Positions' = Positions
  BY SameCalls
<1>2. \A j \in Positions : TASK_TIMEOUT * Wave(j) \in Nat
  <2>1. \A j \in Positions : Wave(j) \in Nat
    BY WaveProperties DEF Positions
  <2>2. \A x \in Nat : TASK_TIMEOUT * x \in Nat
    BY <1>0
  <2> QED BY <2>1, <2>2
<1>3. elapsed \in Int /\ fanned \in Int /\ \A j \in Positions : age[j] \in Nat
  BY <1>0, CycleAssumption DEF IInv, TypeOK
<1>4. CASE StartFanout
  <2>1. /\ \A i \in Positions : task[i] = "waiting"
        /\ elapsed' = elapsed /\ fanned' = elapsed /\ task' = task
    BY <1>4 DEF StartFanout, IInv, FanoutComesLast
  <2>2. elapsed' - fanned' = 0
    BY <2>1, <1>3
  <2>3. \A i \in Positions : elapsed' - fanned' <= TASK_TIMEOUT * Wave(i)
    BY <2>2, <1>2
  <2> QED BY <1>1, <2>1, <2>3 DEF InWaves, Wave
<1>5. ASSUME NEW i \in Positions, StartTask(i)
      PROVE  InWaves'
  <2>1. /\ task[i] = "waiting" /\ phase = "fanout"
        /\ elapsed' = elapsed /\ fanned' = fanned /\ age' = age
        /\ \A j \in Positions : task'[j] = IF j = i THEN "running" ELSE task[j]
    BY <1>5 DEF StartTask, CanStart, Waiting, IInv, TypeOK
  <2>2. elapsed - fanned <= TASK_TIMEOUT * Wave(i) + age[i]
    <3>1. elapsed - fanned <= TASK_TIMEOUT * Wave(i)
      BY <2>1 DEF IInv, InWaves
    <3> QED BY <3>1, <1>0, <1>2, <1>3
  <2> QED BY <1>1, <2>1, <2>2 DEF IInv, InWaves, Wave
<1>6. ASSUME NEW i \in Positions,
             TaskReturns(i) \/ TaskTimesOut(i)
      PROVE  InWaves'
  <2>0. PICK r \in Settled : Settle(i, r)
    BY <1>6, EveryEndSettles
  <2>1. /\ phase = "fanout" /\ elapsed' = elapsed /\ fanned' = fanned
        /\ \A j \in Positions : task'[j] = IF j = i THEN r ELSE task[j]
        /\ \A j \in Positions \ {i} : age'[j] = age[j]
    BY <2>0 DEF Settle, IInv, TypeOK
  <2>2. r \notin {"waiting", "running"}
    BY DEF Settled
  <2> QED BY <1>1, <2>1, <2>2 DEF IInv, InWaves, Wave
<1>7. CASE Tick
  BY <1>7, TickInWaves
<1>8. CASE UNCHANGED vars
  BY <1>1, <1>8 DEF vars, IInv, InWaves, Wave
<1>9. (\/ StartRefresh \/ (\E r \in {"list", "nothing"} : ResourcesReturn(r))
       \/ ClusterCallReturns \/ Publish \/ UnpackFails \/ OuterTimeout)
      => phase' # "fanout"
  BY DEF StartRefresh, ResourcesReturn, ClusterCallReturns, Publish, UnpackFails,
     OuterTimeout, Abort, KeepPrevious, EndRefresh
<1>10. phase' # "fanout" => InWaves'
  BY DEF InWaves
<1> QED BY <1>4, <1>5, <1>6, <1>7, <1>8, <1>9, <1>10 DEF Next

(* Every step keeps the inductive invariant.                               *)
LEMMA NextIInv == IInv /\ [Next]_vars => IInv'
  BY TypeStep, OrderStep, WaveStep DEF IInv

-----------------------------------------------------------------------------
(* The theorems.                                                           *)

(* The inductive invariant holds in every reachable state.                 *)
THEOREM Invariance == Spec => []IInv
  BY InitIInv, NextIInv, PTL DEF Spec

(* Every variable keeps its type.                                          *)
THEOREM TypeCorrect == Spec => []TypeOK
<1>1. IInv => TypeOK
  BY DEF IInv
<1> QED BY <1>1, Invariance, PTL

(* Whatever the number of slots and the timeouts are, once q timeouts have *)
(* passed since the calls were handed out the first q waves are served.    *)
THEOREM EarlyWavesAreServed == Spec => []EarlyCallsAreServed
<1>1. ASSUME IInv, phase = "fanout", NEW i \in Positions,
             i <= SLOTS * ((elapsed - fanned) \div TASK_TIMEOUT)
      PROVE  ~Busy(i) \/ age[i] = TASK_TIMEOUT
  <2>0. /\ SLOTS \in Nat \ {0} /\ TASK_TIMEOUT \in Nat \ {0}
        /\ elapsed \in Int /\ fanned \in Int
    BY <1>1, CycleAssumption DEF IInv, TypeOK
  <2> DEFINE room == elapsed - fanned
             q == room \div TASK_TIMEOUT
  <2>1. room \in Int /\ q \in Int /\ TASK_TIMEOUT * q <= room
    BY <2>0
  <2> HIDE DEF q
  <2>2. i \in Nat \ {0} /\ i <= SLOTS * q
    BY <1>1 DEF Positions, q
  <2>3. Wave(i) \in Nat /\ Wave(i) + 1 <= q
    BY <2>1, <2>2, WaveProperties
  <2>4. TASK_TIMEOUT * Wave(i) \in Nat /\ TASK_TIMEOUT * Wave(i) + TASK_TIMEOUT <= room
    <3>1. \A x, y \in Int : x + 1 <= y =>
             TASK_TIMEOUT * x + TASK_TIMEOUT <= TASK_TIMEOUT * y
      BY <2>0
    <3>2. TASK_TIMEOUT * Wave(i) \in Nat /\ TASK_TIMEOUT * q \in Int
      BY <2>0, <2>1, <2>3
    <3> QED BY <3>1, <3>2, <2>0, <2>1, <2>3
  <2>5. task[i] # "waiting"
    BY <1>1, <2>0, <2>4 DEF IInv, InWaves
  <2>6. age[i] \in Nat /\ age[i] <= TASK_TIMEOUT
    BY <1>1, <2>0 DEF IInv, TypeOK
  <2>7. task[i] = "running" => age[i] = TASK_TIMEOUT
    BY <1>1, <2>0, <2>4, <2>6 DEF IInv, InWaves
  <2> QED BY <2>5, <2>7 DEF Busy
<1>2. IInv => EarlyCallsAreServed
  BY <1>1 DEF EarlyCallsAreServed
<1> QED BY <1>2, Invariance, PTL

(* Every section of a new snapshot holds what its own call of this refresh *)
(* returned: the walk of idx over the results is right for every list of   *)
(* calls and every combination of options.                                 *)
THEOREM SnapshotsAreWhole == Spec => SnapshotIsWhole
<1> DEFINE A == data' # data =>
                   /\ FanoutDone
                   /\ data'.cluster = resources
                   /\ \A i \in Positions :
                         data'.section[TaskList[i]] =
                            IF task[i] = "list" THEN TaskList[i] ELSE "empty"
                   /\ \A s \in Optional \ enabled : data'.section[s] = "empty"
<1>1. ASSUME [Next]_vars, data' # data
      PROVE  Publish
  BY <1>1 DEF Next, vars, StartRefresh, ResourcesReturn, ClusterCallReturns, StartFanout,
     StartTask, TaskReturns, TaskTimesOut, Settle, UnpackFails, OuterTimeout, Abort, KeepPrevious, Tick
<1>2. ASSUME Publish
      PROVE  A
  <2>1. data'.cluster = resources /\ data'.section = [s \in Sections |-> Unpacked(s)]
    BY <1>2 DEF Publish
  <2>2. \A i \in Positions : TaskList[i] \in Sections
    BY IndexOfInverts
  <2>3. Optional \subseteq Sections
    BY DEF Sections
  <2> QED BY <1>2, <2>1, <2>2, <2>3, UnpackedIsOwn DEF Publish
<1>3. [Next]_vars => A
  BY <1>1, <1>2
<1> QED BY <1>3, PTL DEF Spec, SnapshotIsWhole

(* Once there is a snapshot no failing refresh takes the entities down.    *)
THEOREM EntitiesStayUp == Spec => []SnapshotKeepsAvailable
<1>1. Init => SnapshotKeepsAvailable
  BY DEF Init, SnapshotKeepsAvailable
<1>2. SnapshotKeepsAvailable /\ [Next]_vars => SnapshotKeepsAvailable'
  BY DEF SnapshotKeepsAvailable, Next, vars, StartRefresh, ResourcesReturn,
     ClusterCallReturns, StartFanout, StartTask, TaskReturns, TaskTimesOut, Settle, Publish,
     UnpackFails, OuterTimeout, Abort, KeepPrevious, Tick
<1> QED BY <1>1, <1>2, PTL DEF Spec

(* The refresh of a PVE coordinator implements what LastGood promises: it  *)
(* replaces the snapshot as a whole, keeps the last one, or fails when     *)
(* there is none.                                                          *)
THEOREM RefreshImplementsLastGood == Spec => ImplementsLastGood
<1>1. Init => Promise!Init
  BY DEF Init, Promise!Init
<1>2. ASSUME IInv, [Next]_vars
      PROVE  [Promise!Next]_<<data, available>>
  <2>1. CASE Publish
    BY <1>2, <2>1, PublishIsSnapshot DEF Promise!Next, Promise!Publish
  <2>2. CASE UnpackFails \/ OuterTimeout
    <3>1. data' = data /\ available' = (data # NONE)
      BY <2>2 DEF UnpackFails, OuterTimeout, Abort, KeepPrevious
    <3> QED BY <3>1 DEF Promise!Next, Promise!KeepLast, Promise!FailFirst
  <2>3. CASE ~ (Publish \/ UnpackFails \/ OuterTimeout)
    BY <1>2, <2>3 DEF Next, vars, StartRefresh, ResourcesReturn, ClusterCallReturns,
       StartFanout, StartTask, TaskReturns, TaskTimesOut, Settle, Tick
  <2> QED BY <2>1, <2>2, <2>3
<1> QED BY <1>1, <1>2, Invariance, PTL DEF Spec, ImplementsLastGood, Promise!Spec
=============================================================================
