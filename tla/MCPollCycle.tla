---------------------------- MODULE MCPollCycle ----------------------------
(* An instance of PollCycle for TLC.                                       *)
EXTENDS PollCycle

OnlyVms == <<"vms">>
=============================================================================
