---------------------------- MODULE AuthRecovery ----------------------------
(***************************************************************************)
(* AuthTicket under a server that may misbehave for as long as it likes    *)
(* and is well from some moment on: from then on it answers every login    *)
(* and every request in time, honours what it issued until it runs out,    *)
(* and nobody cancels a call.  The polling calls keep coming.              *)
(***************************************************************************)
EXTENDS AuthTicket

VARIABLE stable    \* the server is well and stays so

recoveryVars == <<vars, stable>>

Recover ==
    /\ ~stable
    /\ stable' = TRUE
    /\ UNCHANGED vars

Honest(c) ==
    \/ Accepts(c) /\ Answer(c, "200")
    \/ ~Accepts(c) /\ Answer(c, "401")

WellStep(c) ==
    \/ Begin(c)
    \/ TakeLock(c)
    \/ IssueTicket(c, TRUE)
    \/ LoginOk(c)
    \/ Honest(c)
    \/ Receive(c)

RecoveryInit == Init /\ stable = FALSE

RecoveryNext ==
    \/ Recover
    \/ /\ IF stable THEN Tick \/ \E c \in Calls : WellStep(c) ELSE Next
       /\ UNCHANGED stable

RecoverySpec ==
    /\ RecoveryInit
    /\ [][RecoveryNext]_recoveryVars
    /\ WF_recoveryVars(Recover)
    /\ WF_recoveryVars(stable /\ Tick /\ UNCHANGED stable)
    /\ \A c \in Calls :
          WF_recoveryVars(stable /\ WellStep(c) /\ UNCHANGED stable)

(* Whatever the server did before (revoked tickets, refused logins, lost   *)
(* answers) and whatever 401s were still on their way when it recovered,   *)
(* from some moment on every call of the client brings data again: no      *)
(* stale ticket, stale CSRF token or armed cooldown is kept for good.      *)
Recovers == <>[](\A c \in Calls : result[c] \in {"none", "data"})
=============================================================================
