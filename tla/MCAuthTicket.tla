---------------------------- MODULE MCAuthTicket ----------------------------
(* Instances of AuthTicket for TLC: two calls that share a client, one of  *)
(* them a polling write, the other a validating read.                      *)
EXTENDS AuthTicket

CONSTANTS c1, c2, t1, t2, t3

=============================================================================
