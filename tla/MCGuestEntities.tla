-------------------------- MODULE MCGuestEntities --------------------------
(* Instances of GuestEntities for TLC: a VM that migrates and a container *)
(* that stays, so that both kinds and their two selections meet.          *)
EXTENDS GuestEntities

CONSTANTS v1, ct1, n1, n2
=============================================================================
