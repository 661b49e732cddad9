---------------------------- MODULE SharedTicket ----------------------------
(***************************************************************************)
(* What one ticket for many calls promises, to the calls and to the node   *)
(* they log in at: a call leaves with the ticket that is usable, or with   *)
(* the one its own login brought; there is one login at a time, only while *)
(* no ticket is usable, and none until a failed one is some time ago.      *)
(***************************************************************************)
CONSTANTS Calls, Tickets, NONE

VARIABLES
    usable,    \* the ticket the calls are given, or NONE
    login,     \* the call that logs in, or NONE
    cooling,   \* a login failed not long ago
    given      \* per call, the ticket its request carries, or NONE

Init ==
    /\ usable = NONE /\ login = NONE /\ cooling = FALSE
    /\ given = [c \in Calls |-> NONE]

Give(c) ==
    /\ usable # NONE /\ given[c] = NONE
    /\ given' = [given EXCEPT ![c] = usable]
    /\ UNCHANGED <<usable, login, cooling>>

StartLogin(c) ==
    /\ login = NONE /\ usable = NONE /\ ~cooling
    /\ login' = c
    /\ UNCHANGED <<usable, cooling, given>>

LoginOk(c) ==
    /\ login = c /\ login' = NONE
    /\ usable = NONE /\ usable' \in Tickets
    /\ given[c] = NONE /\ given' = [given EXCEPT ![c] = usable']
    /\ cooling' = FALSE

LoginFail(c) ==
    /\ login = c /\ login' = NONE
    /\ cooling' = TRUE
    /\ UNCHANGED <<usable, given>>

(* The call does not wait for the login it began.                          *)
Abandon(c) ==
    /\ login = c /\ login' = NONE
    /\ UNCHANGED <<usable, cooling, given>>

(* A request ends; its answer may tell that the ticket is good no more.    *)
Return(c) ==
    /\ given' = [given EXCEPT ![c] = NONE]
    /\ usable' \in {usable, NONE}
    /\ UNCHANGED <<login, cooling>>

(* Time passes: a ticket gets too old, a failure is forgotten.             *)
Lapse ==
    /\ usable' \in {usable, NONE}
    /\ cooling' => cooling
    /\ UNCHANGED <<login, given>>

Next ==
    \/ \E c \in Calls :
          \/ Give(c)
          \/ StartLogin(c) \/ LoginOk(c) \/ LoginFail(c) \/ Abandon(c)
          \/ Return(c)
    \/ Lapse

Spec == Init /\ [][Next]_<<usable, login, cooling, given>>
=============================================================================
