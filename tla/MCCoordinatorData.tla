------------------------- MODULE MCCoordinatorData -------------------------
(* An instance of CoordinatorData for TLC.  Five calls for two slots need  *)
(* three waves, like fourteen for five; the two backup jobs share a guest. *)
EXTENDS CoordinatorData

CONSTANTS s1, s2, g1, g2

FixedSections == <<"node", "vms">>
Lists == {<< >>, <<s1>>, <<s2, s1>>}
(* The name of s2 is that of s1 in capitals, so none begins with another.  *)
Itself == {<<s, s>> : s \in {s1, s2}}
Capitals == Itself \union {<<s1, s2>>, <<s2, s1>>}
SomeJobs == <<<<g1, g2>>, <<g1>>>>
=============================================================================
