------------------------------ MODULE MCBackup ------------------------------
(* Instances of Backup for TLC.                                            *)
EXTENDS Backup

CONSTANTS h1, v1, v2, ct1
=============================================================================
