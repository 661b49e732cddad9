--------------------------- MODULE MCAuthRecovery ---------------------------
(* An instance of AuthRecovery for TLC: two calls, one of them a write.    *)
EXTENDS AuthRecovery

CONSTANTS c1, c2, t1, t2, t3
=============================================================================
