-------------------------- MODULE MCEntryLifecycle --------------------------
(* Instances of EntryLifecycle for TLC.  Neither the module nor its        *)
(* properties tell the entries of a kind, or the tasks, apart.             *)
EXTENDS EntryLifecycle

CONSTANTS p1, p2, b1, k1, k2, t1, t2

Alike == Permutations(PVEs) \union Permutations(Clusters) \union Permutations(Tasks)
=============================================================================
