------------------------------ MODULE Sidecar ------------------------------
(***************************************************************************)
(* The sidecar on a node and its client.  The server (pve-sensors-api.py)  *)
(* is an HTTPServer without threads: it takes one connection after the     *)
(* other from a backlog of a few places and runs smartctl and the like     *)
(* while the rest waits.  The client (_sidecar_get) asks all endpoints in  *)
(* every refresh, each with a timeout of its own, makes {} of any failure, *)
(* and logs an endpoint that fails once until it answers again.            *)
(*                                                                         *)
(* A client that gives up closes its connection; the server finds out only *)
(* when it has done the work and writes the answer.                        *)
(***************************************************************************)
EXTENDS Naturals, Sequences, FiniteSets, SequencesExt

CONSTANTS
    Endpoints,
    PATIENCE,    \* per endpoint, the client's timeout
    WORK,        \* per endpoint, what its commands take on a well node
    SLOW_WORK,   \* the longest any of them takes: every disk hits its timeout
    PERIOD,      \* from one refresh to the next
    BACKLOG      \* request_queue_size of socketserver

ASSUME SidecarAssumption ==
    /\ IsFiniteSet(Endpoints)
    /\ PATIENCE \in [Endpoints -> Nat \ {0}]
    /\ WORK \in [Endpoints -> Nat]
    /\ SLOW_WORK \in Nat /\ \A e \in Endpoints : WORK[e] <= SLOW_WORK
    /\ PERIOD \in Nat /\ \A e \in Endpoints : PATIENCE[e] < PERIOD
    /\ BACKLOG \in Nat \ {0}

VARIABLES
    up,        \* the service runs
    well,      \* from now on the disks answer quickly and nothing crashes
    backlog,   \* connections not accepted yet: the endpoint, and whether its
               \* client still waits
    serving,   \* the request being handled: like a connection, or none
    work,      \* what its commands still take
    patience,  \* per endpoint, what is left of the timeout of a request
    asking,    \* the endpoints with a request on its way
    next,      \* time to the next refresh
    latest,    \* per endpoint, how its last request ended
    warned,    \* _sidecar_warned
    logged     \* per endpoint, warnings logged since its last answer

serverVars == <<up, backlog, serving, work>>
clientVars == <<patience, asking, latest, warned, logged>>
vars == <<serverVars, clientVars, well, next>>

Connections == [endpoint : Endpoints, waits : BOOLEAN]
Idle == [endpoint |-> "none", waits |-> FALSE]

TypeOK ==
    /\ up \in BOOLEAN /\ well \in BOOLEAN
    /\ backlog \in Seq(Connections) /\ Len(backlog) <= BACKLOG
    /\ serving \in Connections \union {Idle}
    /\ work \in 0..SLOW_WORK
    /\ \A e \in Endpoints : patience[e] \in 0..PATIENCE[e]
    /\ asking \subseteq Endpoints
    /\ next \in 0..PERIOD
    /\ latest \in [Endpoints -> {"none", "data", "failed"}]
    /\ warned \subseteq Endpoints
    /\ logged \in [Endpoints -> Nat]

Init ==
    /\ up \in BOOLEAN /\ well = FALSE
    /\ backlog = << >> /\ serving = Idle /\ work = 0
    /\ patience = [e \in Endpoints |-> 0] /\ asking = {}
    /\ next = 0
    /\ latest = [e \in Endpoints |-> "none"]
    /\ warned = {}
    /\ logged = [e \in Endpoints |-> 0]

-----------------------------------------------------------------------------
(* The client.                                                             *)

(* Mutant: an endpoint that failed once is never warned about again.       *)
AnsweredStaysWarned(e) ==
    /\ asking' = asking \ {e}
    /\ latest' = [latest EXCEPT ![e] = "data"]
    /\ logged' = [logged EXCEPT ![e] = 0]
    /\ UNCHANGED <<patience, warned>>

Answered(e) ==
    /\ asking' = asking \ {e}
    /\ latest' = [latest EXCEPT ![e] = "data"]
    /\ warned' = warned \ {e}
    /\ logged' = [logged EXCEPT ![e] = 0]
    /\ UNCHANGED patience

(* except Exception: _sidecar_warn_once, {} for the caller.                *)
Fail(es) ==
    /\ asking' = asking \ es
    /\ latest' = [e \in Endpoints |-> IF e \in es THEN "failed" ELSE latest[e]]
    /\ warned' = warned \union es
    /\ logged' = [e \in Endpoints |->
                     IF e \in es \ warned THEN logged[e] + 1 ELSE logged[e]]
    /\ UNCHANGED patience

(* Mutant: what was warned about is not asked again.                       *)
AskedUnlessWarned == Endpoints \ warned

Asked == Endpoints

(* Mutant: the backlog takes everybody.                                    *)
HeardAll(order) == order

(* The requests that still find a place in the backlog.                    *)
Heard(order) ==
    LET room == BACKLOG - Len(backlog)
    IN  SubSeq(order, 1, IF Len(order) < room THEN Len(order) ELSE room)

Connected(order) ==
    [i \in 1..Len(order) |-> [endpoint |-> order[i], waits |-> TRUE]]

(* The requests of a refresh leave side by side and arrive in any order;   *)
(* one that finds the backlog full is not heard.                           *)
Poll ==
    /\ next = 0 /\ asking = {}
    /\ next' = PERIOD
    /\ IF up
       THEN /\ asking' = Asked
            /\ patience' = [e \in Endpoints |-> PATIENCE[e]]
            /\ \E order \in SetToSeqs(Asked) :
                  backlog' = backlog \o Connected(Heard(order))
            /\ UNCHANGED <<up, serving, work, latest, warned, logged>>
       ELSE Fail(Asked) /\ UNCHANGED serverVars
    /\ UNCHANGED well

GiveUp(connection, e) ==
    IF connection.endpoint = e THEN [connection EXCEPT !.waits = FALSE] ELSE connection

TimeOut(e) ==
    /\ e \in asking /\ patience[e] = 0
    /\ Fail({e})
    /\ backlog' = [i \in 1..Len(backlog) |-> GiveUp(backlog[i], e)]
    /\ serving' = GiveUp(serving, e)
    /\ UNCHANGED <<up, work, well, next>>

-----------------------------------------------------------------------------
(* The server.                                                             *)
Accept ==
    /\ up /\ serving = Idle /\ backlog # << >>
    /\ serving' = Head(backlog) /\ backlog' = Tail(backlog)
    /\ \E w \in 0..SLOW_WORK :
          /\ well => w <= WORK[Head(backlog).endpoint]
          /\ work' = w
    /\ UNCHANGED <<up, clientVars, well, next>>

(* The handler answers, with data or with an error; nobody may be left to  *)
(* read it, which the server survives.                                     *)
Respond ==
    /\ serving # Idle /\ work = 0
    /\ serving' = Idle
    /\ IF serving.waits
       THEN \/ Answered(serving.endpoint)
            \/ ~well /\ Fail({serving.endpoint})
       ELSE UNCHANGED clientVars
    /\ UNCHANGED <<up, backlog, work, well, next>>

(* The service goes down with everything it had not answered; systemd      *)
(* starts it again (Restart=always).                                       *)
Crash ==
    /\ up /\ ~well
    /\ up' = FALSE
    /\ backlog' = << >> /\ serving' = Idle /\ work' = 0
    /\ Fail(asking)
    /\ UNCHANGED <<well, next>>

Start ==
    /\ ~up
    /\ up' = TRUE
    /\ UNCHANGED <<backlog, serving, work, clientVars, well, next>>

Recover ==
    /\ ~well /\ well' = TRUE
    /\ UNCHANGED <<serverVars, clientVars, next>>

(* Time passes when nobody has anything to do at once.                     *)
Tick ==
    /\ ~(up /\ serving = Idle /\ backlog # << >>)
    /\ serving # Idle => work > 0
    /\ \A e \in asking : patience[e] > 0
    /\ asking # {} \/ next > 0
    /\ work' = IF work > 0 THEN work - 1 ELSE 0
    /\ patience' = [e \in Endpoints |-> IF e \in asking THEN patience[e] - 1 ELSE 0]
    /\ next' = IF next > 0 THEN next - 1 ELSE 0
    /\ UNCHANGED <<up, backlog, serving, asking, latest, warned, logged, well>>

Next ==
    \/ Poll
    \/ \E e \in Endpoints : TimeOut(e)
    \/ Accept \/ Respond
    \/ Crash \/ Start
    \/ Recover
    \/ Tick

(* The event loop and the server run whatever is due, time passes, systemd *)
(* restarts the service; that the node gets well is the premise.           *)
Spec == /\ Init /\ [][Next]_vars
        /\ WF_vars(Poll) /\ WF_vars(Accept) /\ WF_vars(Respond)
        /\ \A e \in Endpoints : WF_vars(TimeOut(e))
        /\ WF_vars(Start) /\ WF_vars(Recover) /\ WF_vars(Tick)

-----------------------------------------------------------------------------
(* "Log a down/failing sidecar endpoint once per host until it recovers":  *)
(* of every outage of an endpoint exactly one warning is logged, also of   *)
(* the second one and of a service that went down in between.              *)
EveryOutageIsLoggedOnce ==
    \A e \in Endpoints : logged[e] = IF latest[e] = "failed" THEN 1 ELSE 0

(* Requests whose client has gone do not pile up for good: however long    *)
(* the disks were slow and however full the backlog got, once they are     *)
(* quick again every endpoint brings data in every refresh from some       *)
(* moment on.                                                              *)
SidecarRecovers == <>[](\A e \in Endpoints : latest[e] = "data")
=============================================================================
