---------------------------- MODULE BackupProofs ----------------------------
(***************************************************************************)
(* Theorems about Backup, for any number of handlers and guests and any    *)
(* limit.                                                                  *)
(***************************************************************************)
EXTENDS Backup, SequenceTheorems, FiniteSetTheorems, TLAPS

-----------------------------------------------------------------------------
(* The inductive invariant.                                                *)

(* Each variable has a value for every handler.                            *)
PerHandler ==
    /\ service \in [Handlers -> {"none", "simple", "all"}]
    /\ delay \in [Handlers -> Delays]
    /\ badMode \in [Handlers -> BOOLEAN]
    /\ DOMAIN targets = Handlers /\ DOMAIN limit = Handlers
    /\ DOMAIN step = Handlers /\ DOMAIN outcome = Handlers
    /\ DOMAIN counted = Handlers /\ DOMAIN report = Handlers

(* The list of a handler is one that was asked for or gathered, and the    *)
(* books are kept about it; create_vzdump_backup ignores max_concurrent.   *)
Booked(h) ==
    /\ targets[h] \in Seq(Guests) /\ Len(targets[h]) <= MaxTargets
    /\ limit[h] \in 1..MAX_CONCURRENT
    /\ service[h] = "simple" => limit[h] = 1
    /\ service[h] # "none" => targets[h] # << >>
    /\ step[h] \in [1..Len(targets[h]) -> Steps]
    /\ outcome[h] \in [1..Len(targets[h]) -> Outcomes]
    /\ counted[h] \in [1..Len(targets[h]) -> SUBSET Counters]

(* The counters fit the list.                                              *)
Reported(h) == report[h].success \in 0..MaxTargets /\ report[h].failures \in 0..MaxTargets

(* As what a target is counted once it is done.                            *)
FinalCount(h, i) ==
    IF outcome[h][i] = "raised" THEN {"failure"}
    ELSE IF delay[h] # "unusable" THEN {"success"}
    ELSE IF service[h] = "simple" THEN {"success", "failure"}
    ELSE {"failure"}

(* While a handler runs, a target is counted only after its POST; when the *)
(* handler is at rest, nothing of it is under way.                         *)
Tallied(h) ==
    \A i \in Indices(h) :
       /\ service[h] = "none" => step[h][i] = "done"
       /\ service[h] # "none" =>
             /\ step[h][i] \in {"queued", "posting"} => counted[h][i] = {}
             /\ step[h][i] = "sleeping" =>
                   delay[h] = "some" /\ counted[h][i] \in SUBSET {"success"}
             /\ step[h][i] = "done" => counted[h][i] = FinalCount(h, i)

(* A target that was posted has its outcome.                               *)
Known(h) ==
    \A i \in Indices(h) :
       /\ step[h][i] = "sleeping" => outcome[h][i] \in {"upid", "null"}
       /\ step[h][i] = "done" => outcome[h][i] # "none"

(* Targets are taken in order and within the limit, also when the handler  *)
(* is done.                                                                *)
InOrder(h) ==
    /\ \A i \in Indices(h) : \A j \in Before(i) :
          step[h][i] # "queued" => step[h][j] # "queued"
    /\ Cardinality(Posting(h)) <= limit[h]

HandlerOK(h) == Booked(h) /\ Reported(h) /\ Known(h) /\ Tallied(h) /\ InOrder(h)

IInv ==
    /\ PerHandler
    /\ \A h \in Handlers : HandlerOK(h)

-----------------------------------------------------------------------------
(* The lists.                                                              *)

(* There are finitely many guests.                                         *)
LEMMA GuestsAreFinite ==
    /\ IsFiniteSet(Guests) /\ Cardinality(Guests) \in Nat
    /\ MaxTargets \in Nat
    /\ MAX_GUESTS <= MaxTargets /\ Cardinality(Guests) <= MaxTargets
<1>1. IsFiniteSet(Guests)
  BY BackupAssumption, FS_Union DEF Guests
<1>2. Cardinality(Guests) \in Nat
  BY <1>1, FS_CardinalityType
<1> QED BY <1>1, <1>2, BackupAssumption DEF MaxTargets

(* What a user may hand to create_vzdump_backup.                           *)
LEMMA BoundedLists ==
    ASSUME NEW list \in BoundedSeq(Guests, MAX_GUESTS)
    PROVE  list \in Seq(Guests) /\ Len(list) <= MaxTargets
<1>1. PICK m \in 0..MAX_GUESTS : list \in [1..m -> Guests]
  BY DEF BoundedSeq, SeqOf
<1>2. m \in Nat /\ m <= MAX_GUESTS
  BY BackupAssumption
<1>3. list \in Seq(Guests) /\ Len(list) = m
  BY <1>1, <1>2
<1> QED BY <1>2, <1>3, GuestsAreFinite, BackupAssumption

(* What backup_all makes of the guests of a node.                          *)
LEMMA GatheredLists ==
    ASSUME NEW S \in SUBSET VMs, NEW T \in SUBSET CTs,
           NEW vs \in SetToSeqs(S), NEW cs \in SetToSeqs(T)
    PROVE  vs \o cs \in Seq(Guests) /\ Len(vs \o cs) <= MaxTargets
<1>1. /\ IsFiniteSet(S) /\ Cardinality(S) \in Nat
      /\ IsFiniteSet(T) /\ Cardinality(T) \in Nat
  BY BackupAssumption, FS_Subset, FS_CardinalityType
<1>2. vs \in [1..Cardinality(S) -> S] /\ cs \in [1..Cardinality(T) -> T]
  BY DEF SetToSeqs
<1>3. S \subseteq Guests /\ T \subseteq Guests
  BY DEF Guests
<1>4. vs \in Seq(Guests) /\ Len(vs) = Cardinality(S)
  <2>1. vs \in [1..Cardinality(S) -> Guests]
    BY <1>2, <1>3
  <2> QED BY <2>1, <1>1
<1>5. cs \in Seq(Guests) /\ Len(cs) = Cardinality(T)
  <2>1. cs \in [1..Cardinality(T) -> Guests]
    BY <1>2, <1>3
  <2> QED BY <2>1, <1>1
<1>6. vs \o cs \in Seq(Guests) /\ Len(vs \o cs) = Cardinality(S) + Cardinality(T)
  BY <1>1, <1>4, <1>5, ConcatProperties
<1>7. Cardinality(S) + Cardinality(T) <= Cardinality(Guests)
  <2>1. S \intersect T = {}
    BY BackupAssumption
  <2>2. /\ IsFiniteSet(S \union T)
        /\ Cardinality(S \union T) = Cardinality(S) + Cardinality(T) - Cardinality({})
    BY <1>1, <2>1, FS_Union
  <2>3. Cardinality({}) = 0
    BY FS_EmptySet
  <2>4. Cardinality(S \union T) <= Cardinality(Guests)
    BY <1>3, GuestsAreFinite, FS_Subset
  <2> QED BY <1>1, <2>2, <2>3, <2>4
<1> QED BY <1>1, <1>6, <1>7, GuestsAreFinite

(* The targets of a handler are finitely many.                             *)
LEMMA FiniteTargets ==
    ASSUME NEW h \in Handlers, Booked(h), NEW S \in SUBSET Indices(h)
    PROVE  /\ IsFiniteSet(S) /\ Cardinality(S) \in Nat
           /\ Cardinality(S) <= Len(targets[h])
<1>1. Len(targets[h]) \in Nat
  BY DEF Booked
<1>2. IsFiniteSet(Indices(h)) /\ Cardinality(Indices(h)) = Len(targets[h])
  BY <1>1, FS_Interval DEF Indices
<1> QED BY <1>2, FS_Subset, FS_CardinalityType

-----------------------------------------------------------------------------
(* Each step keeps the invariant.                                          *)

(* Nobody has called yet.                                                  *)
LEMMA InitIInv == Init => IInv
<1> SUFFICES ASSUME Init
             PROVE  IInv
  OBVIOUS
<1>1. PerHandler
  BY DEF Init, PerHandler, Delays
<1>2. ASSUME NEW h \in Handlers
      PROVE  HandlerOK(h)
  <2>1. targets[h] = << >> /\ limit[h] = 1 /\ step[h] = << >> /\ outcome[h] = << >>
        /\ counted[h] = << >> /\ report[h] = NoReport /\ service[h] = "none"
    BY DEF Init
  <2>2. Booked(h)
    <3>1. Len(targets[h]) = 0
      BY <2>1
    <3>2. /\ step[h] \in [1..0 -> Steps] /\ outcome[h] \in [1..0 -> Outcomes]
          /\ counted[h] \in [1..0 -> SUBSET Counters]
      BY <2>1
    <3>3. targets[h] \in Seq(Guests)
      BY <2>1
    <3> QED BY <2>1, <3>1, <3>2, <3>3, BackupAssumption, GuestsAreFinite DEF Booked
  <2>3. Reported(h)
    BY <2>1, GuestsAreFinite DEF Reported, NoReport
  <2>4. Indices(h) = {}
    BY <2>1 DEF Indices
  <2>5. Known(h) /\ Tallied(h)
    BY <2>4 DEF Known, Tallied
  <2>6. Posting(h) = {}
    BY <2>4 DEF Posting
  <2>7. InOrder(h)
    BY <2>1, <2>4, <2>6, FS_EmptySet DEF InOrder
  <2> QED BY <2>2, <2>3, <2>5, <2>7 DEF HandlerOK
<1> QED BY <1>1, <1>2 DEF IInv

(* A step of one handler leaves the others as they are.                    *)
LEMMA LocalStep ==
    ASSUME IInv, PerHandler', NEW h \in Handlers, HandlerOK(h)',
           \A g \in Handlers \ {h} :
              /\ service'[g] = service[g] /\ targets'[g] = targets[g]
              /\ limit'[g] = limit[g] /\ step'[g] = step[g]
              /\ outcome'[g] = outcome[g] /\ report'[g] = report[g]
              /\ counted'[g] = counted[g] /\ delay'[g] = delay[g]
    PROVE  IInv'
<1>1. ASSUME NEW g \in Handlers \ {h}
      PROVE  HandlerOK(g)'
  <2>1. HandlerOK(g)
    BY DEF IInv
  <2>2. Booked(g)' /\ Reported(g)'
    BY <2>1 DEF HandlerOK, Booked, Reported
  <2>3. Indices(g)' = Indices(g) /\ Posting(g)' = Posting(g)
    BY DEF Indices, Posting
  <2>4. Known(g)' /\ InOrder(g)'
    BY <2>1, <2>3 DEF HandlerOK, Known, InOrder
  <2>5. Tallied(g)'
    BY <2>1, <2>3 DEF HandlerOK, Tallied, FinalCount
  <2> QED BY <2>2, <2>4, <2>5 DEF HandlerOK
<1> QED BY <1>1 DEF IInv

(* A handler is called.                                                    *)
LEMMA RequestStep ==
    ASSUME IInv, NEW h \in Handlers, NEW kind \in {"simple", "all"},
           NEW list \in Seq(Guests), Len(list) <= MaxTargets, list # << >>,
           NEW n \in 1..MAX_CONCURRENT, kind = "simple" => n = 1,
           NEW d \in Delays, NEW bad \in BOOLEAN, Request(h, kind, list, n, d, bad)
    PROVE  IInv'
<1>1. PerHandler'
  BY DEF IInv, PerHandler, Request
<1>2. /\ service'[h] = kind /\ targets'[h] = list /\ limit'[h] = n
      /\ step'[h] = [i \in 1..Len(list) |-> "queued"]
      /\ outcome'[h] = [i \in 1..Len(list) |-> "none"]
      /\ counted'[h] = [i \in 1..Len(list) |-> {}]
      /\ report'[h] = NoReport
  BY DEF IInv, PerHandler, Request
<1>3. Booked(h)'
  BY <1>2 DEF Booked, Steps, Outcomes
<1>4. Reported(h)'
  BY <1>2, GuestsAreFinite DEF Reported, NoReport
<1>5. \A i \in Indices(h)' : step'[h][i] = "queued" /\ counted'[h][i] = {}
  BY <1>2 DEF Indices
<1>6. Known(h)' /\ Tallied(h)'
  BY <1>2, <1>5 DEF Known, Tallied
<1>7. InOrder(h)'
  <2>1. Posting(h)' = {}
    BY <1>5 DEF Posting
  <2>2. Cardinality(Posting(h)') <= limit'[h]
    BY <1>2, <2>1, FS_EmptySet
  <2> QED BY <1>5, <2>2 DEF InOrder
<1>8. HandlerOK(h)'
  BY <1>3, <1>4, <1>6, <1>7 DEF HandlerOK
<1>9. \A g \in Handlers \ {h} :
         /\ service'[g] = service[g] /\ targets'[g] = targets[g]
         /\ limit'[g] = limit[g] /\ step'[g] = step[g]
         /\ outcome'[g] = outcome[g] /\ report'[g] = report[g]
         /\ counted'[g] = counted[g] /\ delay'[g] = delay[g]
  BY DEF IInv, PerHandler, Request
<1> QED BY <1>1, <1>8, <1>9, LocalStep

(* Both services make a request.                                           *)
LEMMA CallStep ==
    ASSUME IInv, NEW h \in Handlers,
           \/ \E list \in BoundedSeq(Guests, MAX_GUESTS), d \in Delays, bad \in BOOLEAN :
                 CallSimple(h, list, d, bad)
           \/ \E rows \in Snapshots, kinds \in SUBSET {"vms", "cts"},
                 n \in 1..MAX_CONCURRENT, d \in Delays :
                 CallAll(h, rows, kinds, n, d)
    PROVE  IInv'
<1>1. ASSUME NEW list \in BoundedSeq(Guests, MAX_GUESTS), NEW d \in Delays,
             NEW bad \in BOOLEAN, CallSimple(h, list, d, bad)
      PROVE  IInv'
  <2>1. 1 \in 1..MAX_CONCURRENT
    BY BackupAssumption
  <2>2. list \in Seq(Guests) /\ Len(list) <= MaxTargets
    BY BoundedLists
  <2>3. list # << >> /\ Request(h, "simple", list, 1, d, bad)
    BY <1>1 DEF CallSimple
  <2> QED BY <2>1, <2>2, <2>3, RequestStep
<1>2. ASSUME NEW rows \in Snapshots, NEW kinds \in SUBSET {"vms", "cts"},
             NEW n \in 1..MAX_CONCURRENT, NEW d \in Delays, CallAll(h, rows, kinds, n, d)
      PROVE  IInv'
  <2> DEFINE S == OnNode(rows, IF "vms" \in kinds THEN VMs ELSE {})
             T == OnNode(rows, IF "cts" \in kinds THEN CTs ELSE {})
  <2>1. S \subseteq VMs /\ T \subseteq CTs
    BY DEF OnNode
  <2>2. PICK vs \in SetToSeqs(S), cs \in SetToSeqs(T) :
           vs \o cs # << >> /\ Request(h, "all", vs \o cs, n, d, FALSE)
    BY <1>2 DEF CallAll
  <2> HIDE DEF S, T
  <2>3. vs \o cs \in Seq(Guests) /\ Len(vs \o cs) <= MaxTargets
    BY <2>1, <2>2, GatheredLists
  <2> QED BY <2>2, <2>3, RequestStep
<1> QED BY <1>1, <1>2

(* A target moves on, with its outcome known once its POST is over.        *)
LEMMA MoveStep ==
    ASSUME IInv, NEW h \in Handlers, NEW i \in Indices(h),
           step[h][i] # "done",
           NEW s \in Steps \ {"queued"}, NEW r \in Outcomes, NEW C \in SUBSET Counters,
           SetStep(h, i, s), UNCHANGED <<service, requestVars, report>>,
           \/ outcome' = [outcome EXCEPT ![h][i] = r]
           \/ outcome' = outcome /\ r = outcome[h][i],
           \/ counted' = [counted EXCEPT ![h][i] = C]
           \/ counted' = counted /\ C = counted[h][i],
           s = "sleeping" => r \in {"upid", "null"} /\ delay[h] = "some" /\ C \subseteq {"success"},
           s = "done" => r # "none",
           s = "posting" => C = {},
           s = "done" => C = IF r = "raised" THEN {"failure"}
                             ELSE IF delay[h] # "unusable" THEN {"success"}
                             ELSE IF service[h] = "simple" THEN {"success", "failure"}
                             ELSE {"failure"},
           \A j \in Before(i) : step[h][j] # "queued",
           Cardinality({j \in Indices(h) : (IF j = i THEN s ELSE step[h][j]) = "posting"})
              <= limit[h]
    PROVE  IInv'
<1>1. HandlerOK(h) /\ PerHandler
  BY DEF IInv
<1>2. PerHandler'
  BY <1>1 DEF PerHandler, SetStep, requestVars
<1>3. \A g \in Handlers : /\ service'[g] = service[g] /\ targets'[g] = targets[g]
                          /\ limit'[g] = limit[g] /\ report'[g] = report[g]
                          /\ delay'[g] = delay[g]
                          /\ Indices(g)' = Indices(g)
  BY DEF requestVars, Indices
<1>4. \A g \in Handlers \ {h} : /\ step'[g] = step[g] /\ outcome'[g] = outcome[g]
                                /\ counted'[g] = counted[g]
  BY <1>1 DEF SetStep, PerHandler
<1>5. /\ step'[h] \in [1..Len(targets[h]) -> Steps]
      /\ \A j \in Indices(h) : step'[h][j] = IF j = i THEN s ELSE step[h][j]
  <2>1. step[h] \in [1..Len(targets[h]) -> Steps]
    BY <1>1 DEF HandlerOK, Booked
  <2>2. step'[h] = [step[h] EXCEPT ![i] = s]
    BY <1>1 DEF SetStep, PerHandler
  <2> QED BY <2>1, <2>2 DEF Indices
<1>6. /\ outcome'[h] \in [1..Len(targets[h]) -> Outcomes]
      /\ \A j \in Indices(h) : outcome'[h][j] = IF j = i THEN r ELSE outcome[h][j]
  <2>1. outcome[h] \in [1..Len(targets[h]) -> Outcomes]
    BY <1>1 DEF HandlerOK, Booked
  <2>2. outcome'[h] = [outcome[h] EXCEPT ![i] = r] \/ (outcome'[h] = outcome[h] /\ r = outcome[h][i])
    BY <1>1 DEF PerHandler
  <2> QED BY <2>1, <2>2 DEF Indices
<1>12. /\ counted'[h] \in [1..Len(targets[h]) -> SUBSET Counters]
       /\ \A j \in Indices(h) : counted'[h][j] = IF j = i THEN C ELSE counted[h][j]
  <2>1. counted[h] \in [1..Len(targets[h]) -> SUBSET Counters]
    BY <1>1 DEF HandlerOK, Booked
  <2>2. counted'[h] = [counted[h] EXCEPT ![i] = C] \/ (counted'[h] = counted[h] /\ C = counted[h][i])
    BY <1>1 DEF PerHandler
  <2> QED BY <2>1, <2>2 DEF Indices
<1>7. Booked(h)'
  BY <1>1, <1>3, <1>5, <1>6, <1>12 DEF HandlerOK, Booked
<1>8. Reported(h)'
  BY <1>1, <1>3 DEF HandlerOK, Reported
<1>9. Known(h)'
  BY <1>1, <1>3, <1>5, <1>6 DEF HandlerOK, Known
<1>13. Tallied(h)'
  <2>1. service[h] # "none"
    BY <1>1 DEF HandlerOK, Tallied
  <2>2. ASSUME NEW j \in Indices(h)
        PROVE  /\ step'[h][j] \in {"queued", "posting"} => counted'[h][j] = {}
               /\ step'[h][j] = "sleeping" =>
                     delay'[h] = "some" /\ counted'[h][j] \in SUBSET {"success"}
               /\ step'[h][j] = "done" => counted'[h][j] = FinalCount(h, j)'
    <3>1. CASE j = i
      BY <3>1, <1>3, <1>5, <1>6, <1>12 DEF FinalCount
    <3>2. CASE j # i
      BY <3>2, <2>1, <1>1, <1>3, <1>5, <1>6, <1>12 DEF FinalCount, HandlerOK, Tallied
    <3> QED BY <3>1, <3>2
  <2> QED BY <1>3, <2>1, <2>2 DEF Tallied
<1>10. InOrder(h)'
  <2>1. \A k \in Indices(h) : Before(k) \subseteq Indices(h)
    <3>1. Len(targets[h]) \in Nat
      BY <1>1 DEF HandlerOK, Booked
    <3> QED BY <3>1 DEF Before, Indices
  <2>2. \A k \in Indices(h) : \A j \in Before(k) :
           step'[h][k] # "queued" => step'[h][j] # "queued"
    BY <1>1, <1>5, <2>1 DEF HandlerOK, InOrder
  <2>3. Posting(h)' = {j \in Indices(h) : (IF j = i THEN s ELSE step[h][j]) = "posting"}
    BY <1>3, <1>5 DEF Posting
  <2> QED BY <1>3, <2>2, <2>3 DEF InOrder
<1>11. HandlerOK(h)'
  BY <1>7, <1>8, <1>9, <1>10, <1>13 DEF HandlerOK
<1> QED BY <1>2, <1>3, <1>4, <1>11, LocalStep

(* A target that leaves the POST, or never gets there, frees a slot.       *)
LEMMA FewerPosting ==
    ASSUME IInv, NEW h \in Handlers, NEW i \in Indices(h), NEW s, s # "posting"
    PROVE  Cardinality({j \in Indices(h) : (IF j = i THEN s ELSE step[h][j]) = "posting"})
              <= limit[h]
<1> DEFINE P == {j \in Indices(h) : (IF j = i THEN s ELSE step[h][j]) = "posting"}
<1>1. P \subseteq Posting(h) /\ Posting(h) \subseteq Indices(h)
  BY DEF Posting
<1> HIDE DEF P
<1>2. Booked(h) /\ limit[h] \in Int /\ Cardinality(Posting(h)) <= limit[h]
  BY DEF IInv, HandlerOK, Booked, InOrder
<1>3. /\ IsFiniteSet(Posting(h)) /\ Cardinality(Posting(h)) \in Nat
      /\ Cardinality(P) \in Nat
  BY <1>1, <1>2, FiniteTargets
<1>4. Cardinality(P) <= Cardinality(Posting(h))
  BY <1>1, <1>3, FS_Subset
<1> QED BY <1>2, <1>3, <1>4 DEF P

(* The next target takes a slot.                                           *)
LEMMA StartStep ==
    ASSUME IInv, NEW h \in Handlers, NEW i \in Indices(h), StartPost(h, i)
    PROVE  IInv'
<1>1. Booked(h) /\ InOrder(h) /\ limit[h] \in Nat
  BY DEF IInv, HandlerOK, Booked
<1> DEFINE P == {j \in Indices(h) : (IF j = i THEN "posting" ELSE step[h][j]) = "posting"}
<1>2. step[h][i] = "queued" /\ HasSlot(h, i)
  BY DEF StartPost
<1>3. \A j \in Before(i) : step[h][j] # "queued"
  BY <1>2 DEF HasSlot
<1>4. P = Posting(h) \union {i} /\ i \notin Posting(h) /\ Posting(h) \subseteq Indices(h)
  BY <1>2 DEF Posting
<1>5. Cardinality(P) = Cardinality(Posting(h)) + 1 /\ Cardinality(Posting(h)) \in Nat
  <2>1. IsFiniteSet(Posting(h)) /\ Cardinality(Posting(h)) \in Nat
    BY <1>1, <1>4, FiniteTargets
  <2> HIDE DEF P
  <2> QED BY <2>1, <1>4, FS_AddElement
<1>6. ASSUME service[h] = "simple"
      PROVE  Cardinality(P) <= limit[h]
  <2>1. ASSUME NEW k \in Posting(h)
        PROVE  FALSE
    <3>1. k \in Indices(h) /\ step[h][k] = "posting" /\ k # i
      BY <1>2 DEF Posting
    <3>2. i \in Int /\ k \in Int /\ 1 <= i /\ 1 <= k
      BY <3>1 DEF Indices
    <3>3. CASE k < i
      <4>1. k \in Before(i)
        BY <3>2, <3>3 DEF Before
      <4> QED BY <4>1, <3>1, <1>2, <1>6 DEF HasSlot
    <3>4. CASE i < k
      <4>1. i \in Before(k)
        BY <3>2, <3>4 DEF Before
      <4> QED BY <4>1, <3>1, <1>1, <1>2 DEF InOrder
    <3> QED BY <3>1, <3>2, <3>3, <3>4
  <2>2. Cardinality(Posting(h)) = 0
    BY <2>1, FS_EmptySet
  <2>3. limit[h] = 1
    BY <1>1, <1>6 DEF Booked
  <2> QED BY <1>5, <2>2, <2>3
<1>7. ASSUME service[h] # "simple"
      PROVE  Cardinality(P) <= limit[h]
  <2>1. Cardinality(Posting(h)) < limit[h]
    BY <1>2, <1>7 DEF HasSlot
  <2> HIDE DEF P
  <2> QED BY <2>1, <1>1, <1>5
<1>8. Cardinality(P) <= limit[h]
  BY <1>6, <1>7
<1>9. outcome[h][i] \in Outcomes
  BY <1>1 DEF Booked, Indices
<1>10. counted[h][i] = {}
  BY <1>2 DEF IInv, HandlerOK, Tallied
<1> QED BY <1>2, <1>3, <1>8, <1>9, <1>10, MoveStep DEF StartPost, Steps

(* A running target has been counted for nothing, or as a success early.   *)
LEMMA StillToCount ==
    ASSUME IInv, NEW h \in Handlers, NEW i \in Indices(h), step[h][i] # "done"
    PROVE  /\ service[h] \in {"simple", "all"} /\ delay[h] \in Delays
           /\ step[h][i] \in {"queued", "posting"} => counted[h][i] = {}
           /\ step[h][i] = "sleeping" => /\ delay[h] = "some"
                                         /\ counted[h][i] \subseteq {"success"}
                                         /\ outcome[h][i] \in {"upid", "null"}
  BY DEF IInv, PerHandler, HandlerOK, Known, Tallied

(* start_vzdump raises.                                                    *)
LEMMA RefuseStep ==
    ASSUME IInv, NEW h \in Handlers, NEW i \in Indices(h), RefuseToSend(h, i)
    PROVE  IInv'
<1>1. step[h][i] = "queued" /\ \A j \in Before(i) : step[h][j] # "queued"
  BY DEF RefuseToSend, HasSlot
<1>2. /\ SetStep(h, i, "done") /\ outcome' = [outcome EXCEPT ![h][i] = "raised"]
      /\ counted' = [counted EXCEPT ![h][i] = {"failure"}]
      /\ UNCHANGED <<service, requestVars, report>>
  BY <1>1, StillToCount DEF RefuseToSend, Count, IInv, PerHandler
<1> DEFINE s == "done"
<1>3. s \in Steps \ {"queued"} /\ s \notin {"posting", "sleeping"} /\ SetStep(h, i, s)
  BY <1>2 DEF Steps
<1>4. "raised" \in Outcomes /\ "raised" # "none" /\ {"failure"} \in SUBSET Counters
  BY DEF Outcomes, Counters
<1> HIDE DEF s
<1>5. Cardinality({j \in Indices(h) : (IF j = i THEN s ELSE step[h][j]) = "posting"})
         <= limit[h]
  BY <1>3, FewerPosting
<1> QED BY <1>1, <1>2, <1>3, <1>4, <1>5, MoveStep

(* The POST is over.                                                       *)
LEMMA ReturnStep ==
    ASSUME IInv, NEW h \in Handlers, NEW i \in Indices(h),
           NEW r \in {"upid", "null"}, PostReturns(h, i, r)
    PROVE  IInv'
<1> DEFINE C == CountedAfterPost(h, i)
           s == IF Sleeps(h, i) THEN "sleeping" ELSE "done"
<1>1. step[h][i] = "posting" /\ \A j \in Before(i) : step[h][j] # "queued"
  BY DEF PostReturns, IInv, HandlerOK, InOrder
<1>2. service[h] \in {"simple", "all"} /\ delay[h] \in Delays /\ counted[h][i] = {}
  BY <1>1, StillToCount
<1>3. /\ SetStep(h, i, s) /\ outcome' = [outcome EXCEPT ![h][i] = r]
      /\ counted' = [counted EXCEPT ![h][i] = C]
      /\ UNCHANGED <<service, requestVars, report>>
  <2>1. counted' = [counted EXCEPT ![h][i] = counted[h][i] \union C]
    BY DEF PostReturns, Count, IInv, PerHandler
  <2>2. counted[h][i] \union C = C
    BY <1>2
  <2> HIDE DEF C
  <2> QED BY <2>1, <2>2 DEF PostReturns
<1>4. C \in SUBSET Counters /\ s \in Steps \ {"queued", "posting"}
  BY DEF CountedAfterPost, Steps
<1>5. s = "sleeping" => delay[h] = "some" /\ C \subseteq {"success"}
  BY <1>2 DEF CountedAfterPost, Sleeps
<1>6. s = "done" => C = IF delay[h] # "unusable" THEN {"success"}
                        ELSE IF service[h] = "simple" THEN {"success", "failure"}
                        ELSE {"failure"}
  <2>1. CASE delay[h] # "unusable"
    BY <2>1 DEF CountedAfterPost, Counters
  <2>2. CASE delay[h] = "unusable" /\ service[h] = "simple"
    BY <2>2 DEF CountedAfterPost, Counters
  <2>3. CASE delay[h] = "unusable" /\ service[h] # "simple"
    BY <2>3 DEF CountedAfterPost, Counters
  <2> QED BY <2>1, <2>2, <2>3
<1> HIDE DEF C, s
<1> QED BY <1>1, <1>3, <1>4, <1>5, <1>6, FewerPosting, MoveStep DEF Outcomes

(* The delay is over.                                                      *)
LEMMA WakeStep ==
    ASSUME IInv, NEW h \in Handlers, NEW i \in Indices(h), WakeUp(h, i)
    PROVE  IInv'
<1>1. step[h][i] = "sleeping" /\ \A j \in Before(i) : step[h][j] # "queued"
  BY DEF WakeUp, IInv, HandlerOK, InOrder
<1>2. /\ delay[h] = "some" /\ counted[h][i] \union {"success"} = {"success"}
      /\ outcome[h][i] \in {"upid", "null"}
  BY <1>1, StillToCount
<1>3. /\ SetStep(h, i, "done") /\ counted' = [counted EXCEPT ![h][i] = {"success"}]
      /\ UNCHANGED <<service, requestVars, report>> /\ outcome' = outcome
  BY <1>2 DEF WakeUp, Count, IInv, PerHandler
<1> QED BY <1>1, <1>2, <1>3, FewerPosting, MoveStep DEF Steps, Outcomes, Counters

(* Every step of a target.                                                 *)
LEMMA TargetStep ==
    ASSUME IInv, NEW h \in Handlers, NEW i \in Indices(h),
           \/ StartPost(h, i)
           \/ RefuseToSend(h, i)
           \/ \E r \in {"upid", "null"} : PostReturns(h, i, r)
           \/ WakeUp(h, i)
    PROVE  IInv'
  BY StartStep, RefuseStep, ReturnStep, WakeStep

(* What the two counters add up to.                                        *)
LEMMA SummaryCounts ==
    ASSUME IInv, NEW h \in Handlers, Summarise(h)
    PROVE  /\ report'[h].success \in 0..MaxTargets /\ report'[h].failures \in 0..MaxTargets
           /\ report'[h].success + report'[h].failures
                 = Len(targets[h]) + Cardinality(CountedTwice(h))
           /\ report'[h].failures = 0 <=>
                 /\ delay[h] # "unusable"
                 /\ \A i \in Indices(h) : outcome[h][i] \in {"upid", "null"}
           /\ \A g \in Handlers \ {h} : report'[g] = report[g]
           /\ DOMAIN report' = Handlers
<1> DEFINE S == CountedAs(h, "success")
           F == CountedAs(h, "failure")
<1>1. Booked(h) /\ DOMAIN report = Handlers /\ MaxTargets \in Nat
  BY GuestsAreFinite DEF IInv, PerHandler, HandlerOK
<1>2. \A i \in Indices(h) : counted[h][i] = FinalCount(h, i) /\ outcome[h][i] # "none"
  BY DEF IInv, HandlerOK, Known, Tallied, Summarise, AllDone
<1>3. /\ S \union F = Indices(h) /\ S \intersect F = CountedTwice(h)
      /\ F = {i \in Indices(h) : outcome[h][i] = "raised" \/ delay[h] = "unusable"}
  BY <1>1, <1>2 DEF CountedAs, FinalCount, CountedTwice, Booked, Indices, Outcomes
<1>4. S \subseteq Indices(h) /\ F \subseteq Indices(h)
  BY DEF CountedAs
<1>5. /\ report'[h].success = Cardinality(S) /\ report'[h].failures = Cardinality(F)
      /\ \A g \in Handlers \ {h} : report'[g] = report[g]
      /\ DOMAIN report' = Handlers
  BY <1>1 DEF Summarise
<1> HIDE DEF S, F
<1>6. /\ IsFiniteSet(S) /\ Cardinality(S) \in Nat /\ Cardinality(S) <= Len(targets[h])
      /\ IsFiniteSet(F) /\ Cardinality(F) \in Nat /\ Cardinality(F) <= Len(targets[h])
      /\ Cardinality(S \intersect F) \in Nat
  BY <1>1, <1>4, FiniteTargets
<1>7. Len(targets[h]) \in Nat /\ Len(targets[h]) <= MaxTargets
  BY <1>1 DEF Booked
<1>8. Cardinality(Indices(h)) = Len(targets[h])
  BY <1>7, FS_Interval DEF Indices
<1>9. Cardinality(S) + Cardinality(F)
         = Len(targets[h]) + Cardinality(CountedTwice(h))
  <2>1. Cardinality(S \union F)
           = Cardinality(S) + Cardinality(F) - Cardinality(S \intersect F)
    BY <1>6, FS_Union
  <2>2. Cardinality(S \union F) = Len(targets[h])
    BY <1>3, <1>8
  <2>3. Cardinality(S \intersect F) = Cardinality(CountedTwice(h))
    BY <1>3
  <2> QED BY <2>1, <2>2, <2>3, <1>6, <1>7
<1>10. Cardinality(F) = 0 <=> F = {}
  BY <1>6, FS_EmptySet
<1>11. F = {} <=> /\ delay[h] # "unusable"
                  /\ \A i \in Indices(h) : outcome[h][i] \in {"upid", "null"}
  <2>1. Indices(h) # {}
    <3>1. targets[h] # << >> /\ targets[h] \in Seq(Guests)
      BY <1>1 DEF Summarise, Booked
    <3>2. Len(targets[h]) # 0
      BY <3>1, EmptySeq
    <3> QED BY <3>2, <1>7 DEF Indices
  <2>2. \A i \in Indices(h) : outcome[h][i] \in {"upid", "null", "raised"}
    BY <1>1, <1>2 DEF Booked, Indices, Outcomes
  <2> QED BY <1>3, <2>1, <2>2
<1>12. report'[h].failures = 0 <=> F = {}
  BY <1>5, <1>10
<1>13. /\ report'[h].success \in 0..MaxTargets /\ report'[h].failures \in 0..MaxTargets
       /\ report'[h].success + report'[h].failures
             = Len(targets[h]) + Cardinality(CountedTwice(h))
  BY <1>1, <1>5, <1>6, <1>7, <1>9
<1> QED BY <1>5, <1>11, <1>12, <1>13

(* The handler is done.                                                    *)
LEMMA SummariseStep ==
    ASSUME IInv, NEW h \in Handlers, Summarise(h)
    PROVE  IInv'
<1>1. HandlerOK(h) /\ PerHandler
  BY DEF IInv
<1>2. /\ UNCHANGED <<targets, limit, delay, badMode, step, outcome, counted>>
      /\ service' = [service EXCEPT ![h] = "none"]
  BY DEF Summarise, requestVars
<1>3. PerHandler'
  BY <1>1, <1>2, SummaryCounts DEF PerHandler
<1>4. service'[h] = "none" /\ \A g \in Handlers \ {h} : service'[g] = service[g]
  BY <1>1, <1>2 DEF PerHandler
<1>5. Booked(h)'
  BY <1>1, <1>2, <1>4 DEF HandlerOK, Booked
<1>6. Reported(h)'
  BY SummaryCounts DEF Reported
<1>7. Known(h)' /\ InOrder(h)'
  BY <1>1, <1>2 DEF HandlerOK, Known, InOrder, Indices, Posting
<1>8. Tallied(h)'
  BY <1>2, <1>4 DEF Tallied, Summarise, AllDone, Indices
<1>9. HandlerOK(h)'
  BY <1>5, <1>6, <1>7, <1>8 DEF HandlerOK
<1> QED BY <1>2, <1>3, <1>4, <1>9, SummaryCounts, LocalStep

(* Every step keeps the inductive invariant.                               *)
LEMMA NextIInv == IInv /\ [Next]_vars => IInv'
<1>1. ASSUME IInv, UNCHANGED vars
      PROVE  IInv'
  <2>1. PerHandler'
    BY <1>1 DEF vars, requestVars, IInv, PerHandler
  <2>2. ASSUME NEW h \in Handlers
        PROVE  HandlerOK(h)'
    <3>1. HandlerOK(h)
      BY <1>1 DEF IInv
    <3>2. Booked(h)' /\ Reported(h)'
      BY <1>1, <3>1 DEF vars, requestVars, HandlerOK, Booked, Reported
    <3>3. Indices(h)' = Indices(h) /\ Posting(h)' = Posting(h)
      BY <1>1 DEF vars, requestVars, Indices, Posting
    <3>4. Known(h)' /\ Tallied(h)' /\ InOrder(h)'
      BY <1>1, <3>1, <3>3 DEF vars, requestVars, HandlerOK, Known, Tallied, FinalCount, InOrder
    <3> QED BY <3>2, <3>4 DEF HandlerOK
  <2> QED BY <2>1, <2>2 DEF IInv
<1> QED BY <1>1, CallStep, TargetStep, SummariseStep DEF Next

-----------------------------------------------------------------------------
(* The theorems.                                                           *)

(* The inductive invariant holds in every reachable state.                 *)
THEOREM Invariance == Spec => []IInv
  BY InitIInv, NextIInv, PTL DEF Spec

(* Every variable keeps its type.                                          *)
THEOREM TypeCorrect == Spec => []TypeOK
<1>1. IInv => TypeOK
  BY DEF IInv, PerHandler, HandlerOK, Booked, Reported, TypeOK
<1> QED BY <1>1, Invariance, PTL

(* However long the list and however its POSTs end, targets start in the   *)
(* order of the list and within the limit of the service.                  *)
THEOREM TargetsAreTakenInOrder == Spec => []TakenInOrder
<1>1. IInv => TakenInOrder
  BY DEF IInv, HandlerOK, InOrder, TakenInOrder
<1> QED BY <1>1, Invariance, PTL

(* However many targets there are, whatever failed and in whatever order   *)
(* they ended, the two counters add up: no target is left out, and only an *)
(* unusable delay of create_vzdump_backup has targets in both.             *)
THEOREM SummariesAreComplete == Spec => SummaryIsComplete
<1> DEFINE A == \A h \in Handlers :
                   service[h] # "none" /\ service'[h] = "none" =>
                      /\ report'[h].success + report'[h].failures
                            = Len(targets[h]) + Cardinality(CountedTwice(h))
                      /\ report'[h].failures = 0 <=>
                            /\ delay[h] # "unusable"
                            /\ \A i \in Indices(h) : outcome[h][i] \in {"upid", "null"}
<1>1. ASSUME IInv, [Next]_vars, NEW h \in Handlers,
             service[h] # "none", service'[h] = "none"
      PROVE  Summarise(h)
  <2>1. service \in [Handlers -> {"none", "simple", "all"}]
    BY <1>1 DEF IInv, PerHandler
  <2>2. PICK g \in Handlers :
           \/ \E list \in BoundedSeq(Guests, MAX_GUESTS), d \in Delays, bad \in BOOLEAN :
                 CallSimple(g, list, d, bad)
           \/ \E rows \in Snapshots, kinds \in SUBSET {"vms", "cts"},
                 n \in 1..MAX_CONCURRENT, d \in Delays :
                 CallAll(g, rows, kinds, n, d)
           \/ \E i \in Indices(g) :
                 \/ StartPost(g, i)
                 \/ RefuseToSend(g, i)
                 \/ \E r \in {"upid", "null"} : PostReturns(g, i, r)
                 \/ WakeUp(g, i)
           \/ Summarise(g)
    BY <1>1 DEF Next, vars
  <2>3. \A kind \in {"simple", "all"} : \A list, n, d, bad :
           Request(g, kind, list, n, d, bad) =>
              service'[h] = IF h = g THEN kind ELSE service[h]
    BY <2>1 DEF Request
  <2>4. \A i \in Indices(g) : \A r : StartPost(g, i) \/ RefuseToSend(g, i)
                                   \/ PostReturns(g, i, r) \/ WakeUp(g, i)
                                 => service' = service
    BY DEF StartPost, RefuseToSend, PostReturns, WakeUp
  <2>5. Summarise(g) => h = g
    BY <1>1, <2>1 DEF Summarise
  <2> QED BY <1>1, <2>2, <2>3, <2>4, <2>5 DEF CallSimple, CallAll
<1>2. IInv /\ [Next]_vars => A
  BY <1>1, SummaryCounts
<1> QED BY <1>2, Invariance, PTL DEF Spec, SummaryIsComplete
=============================================================================
