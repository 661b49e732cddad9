--------------------------- MODULE SidecarProofs ---------------------------
(***************************************************************************)
(* Theorems about Sidecar, for any endpoints, timeouts and backlog, and    *)
(* about SidecarData, the sidecar with the entities that show what it      *)
(* measures.                                                               *)
(***************************************************************************)
EXTENDS SidecarData, SensorProofs, FiniteSetTheorems, SequenceTheorems, TLAPS

-----------------------------------------------------------------------------
(* What is logged goes with what is remembered as warned about, and that   *)
(* with how the last request ended.                                        *)
WarnedAreFailed == warned = {e \in Endpoints : latest[e] = "failed"}

SidecarInv == TypeOK /\ WarnedAreFailed /\ EveryOutageIsLoggedOnce

(* What a client's step needs to know, and what it keeps.                  *)
ClientTypes ==
    /\ asking \subseteq Endpoints
    /\ latest \in [Endpoints -> {"none", "data", "failed"}]
    /\ warned \subseteq Endpoints
    /\ logged \in [Endpoints -> Nat]

ClientInv == ClientTypes /\ WarnedAreFailed /\ EveryOutageIsLoggedOnce

(* An answer ends an outage.                                               *)
LEMMA AnswersEndOutages ==
    ASSUME ClientInv, NEW e \in Endpoints, Answered(e)
    PROVE  ClientInv'
<1> USE DEF ClientInv, ClientTypes, Answered
<1>1. ClientTypes'
  OBVIOUS
<1>2. WarnedAreFailed'
  BY DEF WarnedAreFailed
<1>3. EveryOutageIsLoggedOnce'
  BY DEF EveryOutageIsLoggedOnce
<1> QED BY <1>1, <1>2, <1>3

(* A failure begins an outage or goes on with one.                         *)
LEMMA FailuresBeginOutages ==
    ASSUME ClientInv, NEW es \in SUBSET Endpoints, Fail(es)
    PROVE  ClientInv'
<1>1. /\ asking' = asking \ es
      /\ latest' = [e \in Endpoints |-> IF e \in es THEN "failed" ELSE latest[e]]
      /\ warned' = warned \union es
      /\ logged' = [e \in Endpoints |->
                       IF e \in es \ warned THEN logged[e] + 1 ELSE logged[e]]
  BY DEF Fail
<1>2. ClientTypes'
  BY <1>1 DEF ClientInv, ClientTypes
<1>3. WarnedAreFailed'
  BY <1>1 DEF ClientInv, ClientTypes, WarnedAreFailed
<1>4. ASSUME NEW e \in Endpoints
      PROVE  logged'[e] = IF latest'[e] = "failed" THEN 1 ELSE 0
  <2>1. e \in warned <=> latest[e] = "failed"
    BY <1>4 DEF ClientInv, WarnedAreFailed
  <2>2. logged[e] = IF latest[e] = "failed" THEN 1 ELSE 0
    BY <1>4 DEF ClientInv, EveryOutageIsLoggedOnce
  <2>3. CASE e \in es \ warned
    BY <1>1, <1>4, <2>1, <2>2, <2>3
  <2>4. CASE e \notin es \ warned
    BY <1>1, <1>4, <2>1, <2>2, <2>4
  <2> QED BY <2>3, <2>4
<1> QED BY <1>2, <1>3, <1>4 DEF ClientInv, EveryOutageIsLoggedOnce

(* The rest of the types.                                                  *)
ServerTypes ==
    /\ up \in BOOLEAN /\ well \in BOOLEAN
    /\ backlog \in Seq(Connections) /\ Len(backlog) <= BACKLOG
    /\ serving \in Connections \union {Idle}
    /\ work \in 0..SLOW_WORK
    /\ \A e \in Endpoints : patience[e] \in 0..PATIENCE[e]
    /\ next \in 0..PERIOD

(* The types of both sides.                                                *)
LEMMA TypesOfBoth == TypeOK <=> ServerTypes /\ ClientTypes
  BY DEF TypeOK, ServerTypes, ClientTypes

(* A client that gives up leaves its connection where it is.               *)
LEMMA GivenUpIsConnection ==
    ASSUME NEW c \in Connections, NEW e PROVE GiveUp(c, e) \in Connections
  BY DEF GiveUp, Connections

(* An idle server stays idle when a client gives up.                       *)
LEMMA IdleStaysIdle == \A e : GiveUp(Idle, e) = Idle
  BY DEF GiveUp, Idle

(* The requests that are heard are connections and fit in the backlog.     *)
LEMMA HeardFit ==
    ASSUME TypeOK, NEW order \in SetToSeqs(Asked)
    PROVE  /\ backlog \o Connected(Heard(order)) \in Seq(Connections)
           /\ Len(backlog \o Connected(Heard(order))) <= BACKLOG
<1> DEFINE room == BACKLOG - Len(backlog)
           n == IF Len(order) < room THEN Len(order) ELSE room
<1>1. backlog \in Seq(Connections) /\ Len(backlog) \in Nat /\ room \in Nat
  BY SidecarAssumption DEF TypeOK
<1>2. order \in Seq(Endpoints) /\ Len(order) \in Nat
  <2>1. Cardinality(Endpoints) \in Nat
    BY SidecarAssumption, FS_CardinalityType
  <2> QED BY <2>1 DEF SetToSeqs, Asked
<1>3. n \in 0..Len(order) /\ n <= room
  BY <1>1, <1>2
<1>4. Heard(order) \in Seq(Endpoints) /\ Len(Heard(order)) = n
  BY <1>1, <1>2, <1>3 DEF Heard
<1>5. Connected(Heard(order)) \in Seq(Connections) /\ Len(Connected(Heard(order))) = n
  <2>1. \A i \in 1..n : Heard(order)[i] \in Endpoints
    BY <1>3, <1>4
  <2>2. \A i \in 1..n : [endpoint |-> Heard(order)[i], waits |-> TRUE] \in Connections
    BY <2>1 DEF Connections
  <2>3. n \in Nat
    BY <1>3
  <2> QED BY <1>4, <2>2, <2>3 DEF Connected
<1> HIDE DEF n
<1>6. /\ backlog \o Connected(Heard(order)) \in Seq(Connections)
      /\ Len(backlog \o Connected(Heard(order))) = Len(backlog) + n
  BY <1>1, <1>5, ConcatProperties
<1>7. Len(backlog) + n <= BACKLOG
  <2>1. BACKLOG \in Nat /\ n \in Nat
    BY <1>2, <1>3, SidecarAssumption DEF n
  <2> QED BY <1>1, <1>3, <2>1
<1> QED BY <1>6, <1>7

(* The empty backlog is one.                                               *)
LEMMA NoBacklog == << >> \in Seq(Connections) /\ Len(<< >>) = 0
  OBVIOUS

(* Every step keeps the invariant.                                         *)
LEMMA StepKeeps == SidecarInv /\ [Next]_vars => SidecarInv'
<1> SUFFICES ASSUME SidecarInv, [Next]_vars PROVE SidecarInv' OBVIOUS
<1>0. TypeOK /\ ServerTypes /\ ClientTypes /\ ClientInv
  BY TypesOfBoth DEF SidecarInv, ClientInv
<1>a. ASSUME ServerTypes', ClientInv' PROVE SidecarInv'
  BY <1>a DEF SidecarInv, ClientInv, ClientTypes, ServerTypes, TypeOK
<1>b. ASSUME UNCHANGED clientVars PROVE ClientInv'
  BY <1>0, <1>b DEF clientVars, ClientInv, ClientTypes, WarnedAreFailed,
                    EveryOutageIsLoggedOnce
<1>1. CASE Poll
  <2>1. PERIOD \in 0..PERIOD /\ next' = PERIOD /\ UNCHANGED well
    BY <1>1, SidecarAssumption DEF Poll
  <2>2. CASE up
    <3>1. /\ asking' = Asked
          /\ patience' = [e \in Endpoints |-> PATIENCE[e]]
          /\ UNCHANGED <<up, serving, work, latest, warned, logged>>
      BY <1>1, <2>2 DEF Poll
    <3>2. PICK order \in SetToSeqs(Asked) : backlog' = backlog \o Connected(Heard(order))
      BY <1>1, <2>2 DEF Poll
    <3>3. backlog' \in Seq(Connections) /\ Len(backlog') <= BACKLOG
      BY <1>0, <3>2, HeardFit
    <3>4. \A e \in Endpoints : patience'[e] \in 0..PATIENCE[e]
      BY <3>1, SidecarAssumption
    <3>5. ServerTypes'
      BY <1>0, <2>1, <3>1, <3>3, <3>4 DEF ServerTypes
    <3>6. ClientInv'
      BY <1>0, <3>1 DEF ClientInv, ClientTypes, WarnedAreFailed,
                        EveryOutageIsLoggedOnce, Asked
    <3> QED BY <1>a, <3>5, <3>6
  <2>3. CASE ~up
    <3>1. Fail(Asked) /\ UNCHANGED serverVars
      BY <1>1, <2>3 DEF Poll
    <3>2. ServerTypes'
      BY <1>0, <2>1, <3>1 DEF ServerTypes, serverVars, Fail
    <3>3. Asked \in SUBSET Endpoints
      BY DEF Asked
    <3> QED BY <1>0, <1>a, <3>1, <3>2, <3>3, FailuresBeginOutages
  <2> QED BY <2>2, <2>3
<1>2. ASSUME NEW e \in Endpoints, TimeOut(e) PROVE SidecarInv'
  <2>1. /\ Fail({e}) /\ UNCHANGED <<up, work, well, next>>
        /\ backlog' = [i \in 1..Len(backlog) |-> GiveUp(backlog[i], e)]
        /\ serving' = GiveUp(serving, e)
    BY <1>2 DEF TimeOut
  <2>2. backlog' \in Seq(Connections) /\ Len(backlog') = Len(backlog)
    <3>1. \A i \in 1..Len(backlog) : GiveUp(backlog[i], e) \in Connections
      BY <1>0, GivenUpIsConnection DEF ServerTypes
    <3>2. Len(backlog) \in Nat
      BY <1>0 DEF ServerTypes
    <3> QED BY <2>1, <3>1, <3>2
  <2>3. serving' \in Connections \union {Idle}
    BY <1>0, <2>1, GivenUpIsConnection, IdleStaysIdle DEF ServerTypes
  <2>4. ServerTypes'
    BY <1>0, <2>1, <2>2, <2>3 DEF ServerTypes, Fail
  <2> QED BY <1>0, <1>2, <1>a, <2>1, <2>4, FailuresBeginOutages
<1>3. CASE Accept
  <2>1. serving' \in Connections /\ backlog' \in Seq(Connections)
        /\ Len(backlog') <= BACKLOG
    BY <1>0, <1>3, SidecarAssumption DEF Accept, ServerTypes
  <2>2. work' \in 0..SLOW_WORK /\ UNCHANGED <<up, well, next>> /\ UNCHANGED clientVars
    BY <1>3 DEF Accept
  <2>3. ServerTypes'
    BY <1>0, <2>1, <2>2 DEF ServerTypes, clientVars
  <2> QED BY <1>a, <1>b, <2>2, <2>3
<1>4. CASE Respond
  <2>1. serving # Idle /\ serving' = Idle /\ UNCHANGED <<up, backlog, work, well, next>>
    BY <1>4 DEF Respond
  <2>2. serving \in Connections /\ serving.endpoint \in Endpoints
    BY <1>0, <2>1 DEF ServerTypes, Connections
  <2>3. CASE Answered(serving.endpoint)
    <3>1. ServerTypes'
      BY <1>0, <2>1, <2>3 DEF ServerTypes, Answered
    <3> QED BY <1>0, <1>a, <2>2, <2>3, <3>1, AnswersEndOutages
  <2>4. CASE Fail({serving.endpoint})
    <3>1. ServerTypes'
      BY <1>0, <2>1, <2>4 DEF ServerTypes, Fail
    <3>2. {serving.endpoint} \in SUBSET Endpoints
      BY <2>2
    <3> QED BY <1>0, <1>a, <2>4, <3>1, <3>2, FailuresBeginOutages
  <2>5. CASE UNCHANGED clientVars
    <3>1. ServerTypes'
      BY <1>0, <2>1, <2>5 DEF ServerTypes, clientVars
    <3> QED BY <1>a, <1>b, <2>5, <3>1
  <2> QED BY <1>4, <2>3, <2>4, <2>5 DEF Respond
<1>5. CASE Crash
  <2>1. up' = FALSE /\ backlog' = << >> /\ serving' = Idle /\ work' = 0 /\ Fail(asking)
        /\ UNCHANGED <<well, next>>
    BY <1>5 DEF Crash
  <2>2. 0 \in 0..SLOW_WORK /\ 0 <= BACKLOG
    BY SidecarAssumption
  <2>3. ServerTypes'
    <3>1. backlog' \in Seq(Connections) /\ Len(backlog') = 0
      BY <2>1, NoBacklog
    <3>2. patience' = patience
      BY <2>1 DEF Fail
    <3> QED BY <1>0, <2>1, <2>2, <3>1, <3>2 DEF ServerTypes
  <2>4. asking \in SUBSET Endpoints
    BY <1>0 DEF ClientTypes
  <2> QED BY <1>0, <1>a, <2>1, <2>3, <2>4, FailuresBeginOutages
<1>6. CASE Start
  BY <1>0, <1>6, <1>a, <1>b DEF Start, ServerTypes, clientVars
<1>7. CASE Recover
  BY <1>0, <1>7, <1>a, <1>b DEF Recover, ServerTypes, serverVars, clientVars
<1>8. CASE Tick
  <2>1. work' \in 0..SLOW_WORK /\ next' \in 0..PERIOD
    BY <1>0, <1>8, SidecarAssumption DEF Tick, ServerTypes
  <2>2. \A e \in Endpoints : patience'[e] \in 0..PATIENCE[e]
    <3>1. ASSUME NEW e \in Endpoints PROVE patience'[e] \in 0..PATIENCE[e]
      <4>1. PATIENCE[e] \in Nat /\ patience[e] \in 0..PATIENCE[e]
        BY <1>0, <3>1, SidecarAssumption DEF ServerTypes
      <4>2. e \in asking => patience[e] > 0
        BY <1>8, <3>1 DEF Tick
      <4>3. patience'[e] = IF e \in asking THEN patience[e] - 1 ELSE 0
        BY <1>8, <3>1 DEF Tick
      <4> QED BY <4>1, <4>2, <4>3
    <3> QED BY <3>1
  <2>3. UNCHANGED <<up, backlog, serving, asking, latest, warned, logged, well>>
    BY <1>8 DEF Tick
  <2>4. ServerTypes'
    BY <1>0, <2>1, <2>2, <2>3 DEF ServerTypes
  <2>5. ClientInv'
    BY <1>0, <2>3 DEF ClientInv, ClientTypes, WarnedAreFailed, EveryOutageIsLoggedOnce
  <2> QED BY <1>a, <2>4, <2>5
<1>9. CASE UNCHANGED vars
  BY <1>0, <1>9, <1>a, <1>b DEF vars, serverVars, clientVars, ServerTypes
<1> QED BY <1>1, <1>2, <1>3, <1>4, <1>5, <1>6, <1>7, <1>8, <1>9 DEF Next

(* A server that has just started, with no request yet, is in order.       *)
LEMMA SidecarStarts == Init => SidecarInv
<1> SUFFICES ASSUME Init PROVE SidecarInv OBVIOUS
<1>1. /\ 0 \in 0..SLOW_WORK /\ 0 \in 0..PERIOD /\ 0 <= BACKLOG
      /\ \A e \in Endpoints : 0 \in 0..PATIENCE[e]
  BY SidecarAssumption
<1>2. TypeOK
  <2>1. backlog \in Seq(Connections) /\ Len(backlog) <= BACKLOG
    BY <1>1, NoBacklog DEF Init
  <2>2. /\ latest \in [Endpoints -> {"none", "data", "failed"}]
        /\ logged \in [Endpoints -> Nat]
        /\ \A e \in Endpoints : patience[e] \in 0..PATIENCE[e]
    BY <1>1 DEF Init
  <2> QED BY <1>1, <2>1, <2>2 DEF Init, TypeOK
<1>3. WarnedAreFailed /\ EveryOutageIsLoggedOnce
  BY DEF Init, WarnedAreFailed, EveryOutageIsLoggedOnce
<1> QED BY <1>2, <1>3 DEF SidecarInv

(* The books of the client and the types hold in every behaviour.          *)
THEOREM SidecarInvariance == Spec => []SidecarInv
BY SidecarStarts, StepKeeps, PTL DEF Spec

(* Every variable of the server and the client keeps its type; above all   *)
(* the backlog never takes more than its places.                           *)
THEOREM TypeCorrect == Spec => []TypeOK
<1>1. SidecarInv => TypeOK
  BY DEF SidecarInv
<1> QED BY <1>1, SidecarInvariance, PTL

(* Every outage of an endpoint is logged exactly once, for any endpoints,  *)
(* timeouts and failures of the server.                                    *)
THEOREM OutagesAreLoggedOnce == Spec => []EveryOutageIsLoggedOnce
<1>1. SidecarInv => EveryOutageIsLoggedOnce
  BY DEF SidecarInv
<1> QED BY <1>1, SidecarInvariance, PTL

-----------------------------------------------------------------------------
(* Requests and connections.                                               *)

(* An answer ends the request it was made for: whoever waits on a          *)
(* connection is waited for by the refresh under way, on that connection   *)
(* alone, and a connection left over from a refresh before has nobody      *)
(* waiting.                                                                *)
OneConnectionEach ==
    /\ serving.waits => serving.endpoint \in asking
    /\ \A i \in 1..Len(backlog) : backlog[i].waits =>
          /\ backlog[i].endpoint \in asking
          /\ serving.waits => serving.endpoint # backlog[i].endpoint
          /\ \A j \in 1..Len(backlog) :
                backlog[j].waits /\ backlog[j].endpoint = backlog[i].endpoint => j = i

(* The client has given up on every request before the next refresh.       *)
RefreshesStayApart == \A e \in asking : patience[e] < next

(* Nobody waits for a service that is down.                                *)
NobodyAsksInVain == ~up => backlog = << >> /\ serving = Idle /\ asking = {}

RequestsInv == OneConnectionEach /\ RefreshesStayApart /\ NobodyAsksInVain

(* The requests of one refresh are of different endpoints.                 *)
LEMMA HeardDiffer ==
    ASSUME TypeOK, NEW order \in SetToSeqs(Asked)
    PROVE  LET heard == Connected(Heard(order))
           IN  /\ heard \in Seq(Connections)
               /\ \A i \in 1..Len(heard) : heard[i].waits /\ heard[i].endpoint \in Asked
               /\ \A i, j \in 1..Len(heard) : heard[i].endpoint = heard[j].endpoint => i = j
<1> DEFINE room == BACKLOG - Len(backlog)
           n == IF Len(order) < room THEN Len(order) ELSE room
<1>1. Len(backlog) \in Nat /\ room \in Nat
  BY SidecarAssumption DEF TypeOK
<1>2. /\ order \in Seq(Endpoints) /\ Len(order) \in Nat
      /\ \A i, j \in 1..Len(order) : i # j => order[i] # order[j]
  <2>1. Cardinality(Endpoints) \in Nat
    BY SidecarAssumption, FS_CardinalityType
  <2> QED BY <2>1 DEF SetToSeqs, Asked
<1>3. n \in 0..Len(order)
  BY <1>1, <1>2
<1>4. /\ Len(Heard(order)) = n
      /\ \A i \in 1..n : Heard(order)[i] = order[i]
  BY <1>1, <1>2, <1>3 DEF Heard
<1> HIDE DEF n
<1>5. \A i \in 1..n : Heard(order)[i] \in Endpoints
  BY <1>2, <1>3, <1>4
<1>6. \A i \in 1..n : [endpoint |-> Heard(order)[i], waits |-> TRUE] \in Connections
  BY <1>5 DEF Connections
<1>7. /\ Connected(Heard(order)) \in Seq(Connections)
      /\ Len(Connected(Heard(order))) = n
      /\ \A i \in 1..n : Connected(Heard(order))[i] = [endpoint |-> Heard(order)[i], waits |-> TRUE]
  <2>1. n \in Nat
    BY <1>3
  <2>2. Connected(Heard(order)) = [i \in 1..n |-> [endpoint |-> Heard(order)[i], waits |-> TRUE]]
    BY <1>4 DEF Connected
  <2> QED BY <1>6, <2>1, <2>2
<1>8. \A i, j \in 1..n : order[i] = order[j] => i = j
  BY <1>2, <1>3
<1> QED BY <1>4, <1>5, <1>7, <1>8 DEF Asked

(* A refresh adds a connection for every endpoint that is heard, behind    *)
(* those that nobody waits for any more.                                   *)
LEMMA PollConnects ==
    ASSUME TypeOK, RequestsInv, Poll
    PROVE  RequestsInv'
<1>1. asking = {} /\ next' = PERIOD
  BY DEF Poll
<1>2. /\ ~serving.waits
      /\ \A i \in 1..Len(backlog) : ~backlog[i].waits
  BY <1>1 DEF RequestsInv, OneConnectionEach
<1>3. CASE up
  <2>1. /\ asking' = Endpoints /\ UNCHANGED <<up, serving>>
        /\ patience' = [e \in Endpoints |-> PATIENCE[e]]
    BY <1>3 DEF Poll, Asked
  <2>2. PICK order \in SetToSeqs(Asked) : backlog' = backlog \o Connected(Heard(order))
    BY <1>3 DEF Poll
  <2> DEFINE heard == Connected(Heard(order))
  <2>3. /\ heard \in Seq(Connections) /\ Len(heard) \in Nat
        /\ \A i \in 1..Len(heard) : heard[i].waits /\ heard[i].endpoint \in Endpoints
        /\ \A i, j \in 1..Len(heard) : heard[i].endpoint = heard[j].endpoint => i = j
    BY HeardDiffer DEF Asked
  <2>4. backlog \in Seq(Connections) /\ Len(backlog) \in Nat
    BY DEF TypeOK
  <2> HIDE DEF heard
  <2>5. /\ Len(backlog') = Len(backlog) + Len(heard)
        /\ \A i \in 1..Len(backlog') :
              backlog'[i] = IF i <= Len(backlog) THEN backlog[i] ELSE heard[i - Len(backlog)]
    BY <2>2, <2>3, <2>4, ConcatProperties DEF heard
  <2>6. \A i \in 1..Len(backlog') : backlog'[i].waits =>
           /\ i - Len(backlog) \in 1..Len(heard)
           /\ backlog'[i] = heard[i - Len(backlog)]
    <3> SUFFICES ASSUME NEW i \in 1..Len(backlog'), backlog'[i].waits
                 PROVE  /\ i - Len(backlog) \in 1..Len(heard)
                        /\ backlog'[i] = heard[i - Len(backlog)]
      OBVIOUS
    <3>1. i \in 1..(Len(backlog) + Len(heard))
      BY <2>5
    <3>2. ~(i <= Len(backlog))
      BY <1>2, <2>4, <2>5, <3>1
    <3> QED BY <2>3, <2>4, <2>5, <3>1, <3>2
  <2>7. OneConnectionEach'
    <3>1. ~serving'.waits
      BY <1>2, <2>1
    <3>2. ASSUME NEW i \in 1..Len(backlog'), backlog'[i].waits
          PROVE  /\ backlog'[i].endpoint \in asking'
                 /\ \A j \in 1..Len(backlog') :
                       backlog'[j].waits /\ backlog'[j].endpoint = backlog'[i].endpoint => j = i
      <4>1. backlog'[i].endpoint \in asking'
        BY <2>1, <2>3, <2>6, <3>2
      <4>2. ASSUME NEW j \in 1..Len(backlog'), backlog'[j].waits,
                   backlog'[j].endpoint = backlog'[i].endpoint
            PROVE  j = i
        <5>1. /\ i - Len(backlog) \in 1..Len(heard) /\ j - Len(backlog) \in 1..Len(heard)
              /\ heard[j - Len(backlog)].endpoint = heard[i - Len(backlog)].endpoint
          BY <2>6, <3>2, <4>2
        <5>3. j - Len(backlog) = i - Len(backlog)
          BY <2>3, <5>1
        <5>2. i \in Int /\ j \in Int
          BY <2>3, <2>4, <2>5
        <5> QED BY <2>4, <5>2, <5>3
      <4> QED BY <4>1, <4>2
    <3> QED BY <3>1, <3>2 DEF OneConnectionEach
  <2>8. RefreshesStayApart'
    BY <1>1, <2>1, SidecarAssumption DEF RefreshesStayApart
  <2> QED BY <1>3, <2>1, <2>7, <2>8 DEF RequestsInv, NobodyAsksInVain
<1>4. CASE ~up
  <2>1. asking' = {} /\ UNCHANGED <<up, backlog, serving>>
    BY <1>1, <1>4 DEF Poll, Fail, serverVars
  <2> QED BY <1>1, <1>2, <1>4, <2>1 DEF RequestsInv, OneConnectionEach, RefreshesStayApart,
                                       NobodyAsksInVain
<1> QED BY <1>3, <1>4

(* Every step keeps requests and connections together.                     *)
LEMMA RequestsStep ==
    ASSUME TypeOK, RequestsInv, [Next]_vars
    PROVE  RequestsInv'
<1>0. /\ OneConnectionEach /\ RefreshesStayApart /\ NobodyAsksInVain
      /\ backlog \in Seq(Connections) /\ Len(backlog) \in Nat
      /\ next \in Nat /\ \A e \in Endpoints : patience[e] \in Nat
      /\ asking \subseteq Endpoints
  BY SidecarAssumption DEF TypeOK, RequestsInv
<1>a. ASSUME UNCHANGED <<up, backlog, serving, asking, patience, next>>
      PROVE  RequestsInv'
  BY <1>a DEF RequestsInv, OneConnectionEach, RefreshesStayApart, NobodyAsksInVain
<1>1. CASE Poll
  BY <1>1, PollConnects
<1>2. ASSUME NEW e \in Endpoints, TimeOut(e)
      PROVE  RequestsInv'
  <2>1. /\ asking' = asking \ {e} /\ UNCHANGED <<up, patience, next>>
        /\ backlog' = [i \in 1..Len(backlog) |-> GiveUp(backlog[i], e)]
        /\ serving' = GiveUp(serving, e)
        /\ up
    BY <1>0, <1>2 DEF TimeOut, Fail, NobodyAsksInVain
  <2>2. \A c \in Connections \union {Idle} :
           /\ GiveUp(c, e).endpoint = c.endpoint
           /\ GiveUp(c, e).waits => c.waits /\ c.endpoint # e
    BY DEF GiveUp, Connections, Idle
  <2>3. serving \in Connections \union {Idle} /\ \A i \in 1..Len(backlog) : backlog[i] \in Connections
    BY <1>0 DEF TypeOK
  <2>4. Len(backlog') = Len(backlog)
    BY <1>0, <2>1
  <2>5. /\ serving'.endpoint = serving.endpoint
        /\ serving'.waits => serving.waits /\ serving.endpoint # e
        /\ \A i \in 1..Len(backlog) :
              /\ backlog'[i].endpoint = backlog[i].endpoint
              /\ backlog'[i].waits => backlog[i].waits /\ backlog[i].endpoint # e
    BY <2>1, <2>2, <2>3
  <2>6. OneConnectionEach'
    BY <1>0, <2>1, <2>4, <2>5 DEF OneConnectionEach
  <2> QED BY <1>0, <2>1, <2>6 DEF RequestsInv, RefreshesStayApart, NobodyAsksInVain
<1>3. CASE Accept
  <2>1. /\ up /\ serving = Idle /\ backlog # << >>
        /\ serving' = Head(backlog) /\ backlog' = Tail(backlog)
        /\ UNCHANGED <<up, asking, patience, next>>
    BY <1>3 DEF Accept, clientVars
  <2>2. /\ Len(backlog) >= 1 /\ serving' = backlog[1]
        /\ Len(backlog') = Len(backlog) - 1
        /\ \A i \in 1..Len(backlog') : i + 1 \in 1..Len(backlog) /\ backlog'[i] = backlog[i + 1]
    BY <1>0, <2>1
  <2>3. OneConnectionEach'
    <3>1. 1 \in 1..Len(backlog) /\ \A i \in 1..Len(backlog') : i + 1 # 1
      BY <1>0, <2>2
    <3>2. serving'.waits => serving'.endpoint \in asking'
      BY <1>0, <2>1, <2>2, <3>1 DEF OneConnectionEach
    <3>3. ASSUME NEW i \in 1..Len(backlog'), backlog'[i].waits
          PROVE  /\ backlog'[i].endpoint \in asking'
                 /\ serving'.waits => serving'.endpoint # backlog'[i].endpoint
      BY <1>0, <2>1, <2>2, <3>1, <3>3 DEF OneConnectionEach
    <3>4. ASSUME NEW i \in 1..Len(backlog'), backlog'[i].waits,
                 NEW j \in 1..Len(backlog'), backlog'[j].waits,
                 backlog'[j].endpoint = backlog'[i].endpoint
          PROVE  j = i
      <4>1. j + 1 = i + 1
        BY <1>0, <2>2, <3>4 DEF OneConnectionEach
      <4> QED BY <1>0, <2>2, <4>1
    <3> QED BY <3>2, <3>3, <3>4 DEF OneConnectionEach
  <2> QED BY <1>0, <2>1, <2>3 DEF RequestsInv, RefreshesStayApart, NobodyAsksInVain
<1>4. CASE Respond
  <2>1. serving # Idle /\ serving' = Idle /\ UNCHANGED <<up, backlog, next>>
    BY <1>4 DEF Respond
  <2>2. up /\ ~serving'.waits
    BY <1>0, <2>1 DEF NobodyAsksInVain, Idle
  <2>3. CASE serving.waits
    <3>1. asking' = asking \ {serving.endpoint} /\ UNCHANGED patience
      BY <1>4, <2>3 DEF Respond, Answered, Fail
    <3> QED BY <1>0, <2>1, <2>2, <2>3, <3>1
            DEF RequestsInv, OneConnectionEach, RefreshesStayApart, NobodyAsksInVain
  <2>4. CASE ~serving.waits
    <3>1. UNCHANGED <<asking, patience>>
      BY <1>4, <2>4 DEF Respond, clientVars
    <3> QED BY <1>0, <2>1, <2>2, <2>4, <3>1
            DEF RequestsInv, OneConnectionEach, RefreshesStayApart, NobodyAsksInVain
  <2> QED BY <2>3, <2>4
<1>5. CASE Crash
  <2>1. up' = FALSE /\ backlog' = << >> /\ serving' = Idle /\ asking' = {}
    BY <1>5 DEF Crash, Fail
  <2>2. ~serving'.waits /\ Len(backlog') = 0
    BY <2>1, NoBacklog DEF Idle
  <2> QED BY <2>1, <2>2 DEF RequestsInv, OneConnectionEach, RefreshesStayApart, NobodyAsksInVain
<1>6. CASE Start
  BY <1>0, <1>6 DEF Start, clientVars, RequestsInv, OneConnectionEach, RefreshesStayApart,
                    NobodyAsksInVain
<1>7. CASE Recover
  BY <1>7, <1>a DEF Recover, serverVars, clientVars
<1>8. CASE Tick
  <2>1. /\ UNCHANGED <<up, backlog, serving, asking>>
        /\ \A e \in asking : patience[e] > 0
        /\ patience' = [e \in Endpoints |-> IF e \in asking THEN patience[e] - 1 ELSE 0]
        /\ next' = IF next > 0 THEN next - 1 ELSE 0
    BY <1>8 DEF Tick
  <2>2. ASSUME NEW e \in asking PROVE patience'[e] < next'
    <3>1. patience[e] \in Nat /\ patience[e] < next /\ patience'[e] = patience[e] - 1
      BY <1>0, <2>1, <2>2 DEF RefreshesStayApart
    <3> QED BY <1>0, <2>1, <3>1
  <2> QED BY <1>0, <2>1, <2>2 DEF RequestsInv, OneConnectionEach, RefreshesStayApart,
                                 NobodyAsksInVain
<1>9. CASE UNCHANGED vars
  BY <1>9, <1>a DEF vars, serverVars, clientVars
<1> QED BY <1>1, <1>2, <1>3, <1>4, <1>5, <1>6, <1>7, <1>8, <1>9 DEF Next

(* However slow the node and however often the service goes down, no       *)
(* answer is taken for that of another request, and refreshes of the       *)
(* client do not overlap.                                                  *)
THEOREM AnswersMeetTheirRequests == Spec => []RequestsInv
<1>1. Init => RequestsInv
  <2>1. Init => ~serving.waits /\ Len(backlog) = 0
    BY NoBacklog DEF Init, Idle
  <2> QED BY <2>1 DEF Init, RequestsInv, OneConnectionEach, RefreshesStayApart, NobodyAsksInVain
<1>2. TypeOK /\ RequestsInv /\ [Next]_vars => RequestsInv'
  BY RequestsStep
<1> QED BY <1>1, <1>2, TypeCorrect, PTL DEF Spec

-----------------------------------------------------------------------------
(* The sidecar and its entities.                                           *)
SidecarDataInv == SidecarInv /\ SmartInv /\ HardwareOk

(* A server with every request answered is in order,                       *)
LEMMA AnsweredIsFine == AllAnswered => SidecarInv
<1> SUFFICES ASSUME AllAnswered PROVE SidecarInv OBVIOUS
<1>1. /\ 0 \in 0..SLOW_WORK /\ 0 \in 0..PERIOD /\ 0 <= BACKLOG
      /\ \A e \in Endpoints : 0 \in 0..PATIENCE[e]
  BY SidecarAssumption
<1>2. backlog \in Seq(Connections) /\ Len(backlog) <= BACKLOG
  BY <1>1, NoBacklog DEF AllAnswered
<1>3. /\ latest \in [Endpoints -> {"none", "data", "failed"}]
      /\ logged \in [Endpoints -> Nat]
      /\ \A e \in Endpoints : patience[e] \in 0..PATIENCE[e]
  BY <1>1 DEF AllAnswered
<1>4. TypeOK
  BY <1>1, <1>2, <1>3 DEF AllAnswered, TypeOK
<1>5. WarnedAreFailed /\ EveryOutageIsLoggedOnce
  BY DEF AllAnswered, WarnedAreFailed, EveryOutageIsLoggedOnce
<1> QED BY <1>4, <1>5 DEF SidecarInv

(* so is a node without a disk,                                            *)
LEMMA NoDiskIsFine == NoDisk => SmartInv
<1> SUFFICES ASSUME NoDisk PROVE SmartInv OBVIOUS
<1>1. Len(rack) = 0 /\ DiskNumbers = {}
  BY DEF NoDisk, DiskNumbers
<1>2. DisksOk
  BY <1>1 DEF DisksOk, NoDisk
<1> QED BY <1>1, <1>2 DEF SmartInv, AlarmsHaveCause, WearShows

(* and a board without a reading.                                          *)
LEMMA NoBoardIsFine == NoBoard => HardwareOk
  BY DEF NoBoard, HardwareOk, Places

(* A step is one of each, two of which do nothing.                         *)
LEMMA StepsAreOfOne ==
    ASSUME [SidecarDataNext]_sidecarDataVars
    PROVE  [Next]_vars /\ [SmartNext]_smartVars /\ [HardwareNext]_hardwareVars
<1>1. CASE UNCHANGED sidecarDataVars
  BY <1>1 DEF sidecarDataVars
<1>2. CASE SidecarDataNext
  BY <1>2 DEF SidecarDataNext, Serves
<1> QED BY <1>1, <1>2

(* Whichever of the three a behaviour follows, all of them stay in order.  *)
THEOREM SidecarDataInvariance == SidecarDataSpec => []SidecarDataInv
<1>1. SidecarDataInit => SidecarDataInv
  BY AnsweredIsFine, NoDiskIsFine, NoBoardIsFine, SidecarStarts, SmartStarts, HardwareStarts
  DEF SidecarDataInit, SidecarDataInv
<1>2. SidecarDataInv /\ [SidecarDataNext]_sidecarDataVars => SidecarDataInv'
  BY StepsAreOfOne, StepKeeps, SmartStepKeeps, HardwareStepKeeps DEF SidecarDataInv
<1> QED BY <1>1, <1>2, PTL DEF SidecarDataSpec

(* All that the sidecar with its entities is checked for but its recovery. *)
THEOREM SidecarDataIsCorrect ==
    SidecarDataSpec =>
        /\ [](TypeOK /\ EveryOutageIsLoggedOnce /\ AlarmsHaveCause)
        /\ WearNeverHeals /\ ReadingsStayApart
<1>1. SidecarDataInv =>
         /\ TypeOK /\ EveryOutageIsLoggedOnce /\ AlarmsHaveCause
         /\ CpuAgrees /\ SmartInv /\ HardwareOk
  BY CpuWalksAgree DEF SidecarDataInv, SidecarInv, SmartInv
<1>2. [SidecarDataNext]_sidecarDataVars => [SmartNext]_smartVars /\ [HardwareNext]_hardwareVars
  BY StepsAreOfOne
<1> QED BY <1>1, <1>2, SidecarDataInvariance, NoStepHeals, NoStepLeaks, PTL
        DEF SidecarDataSpec, WearNeverHeals, ReadingsStayApart
=============================================================================
