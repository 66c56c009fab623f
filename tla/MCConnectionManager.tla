------------------------- MODULE MCConnectionManager -------------------------
(* Instances of ConnectionManager for TLC: two terminals of one user, or one *)
(* process at a time.                                                        *)
EXTENDS ConnectionManager, TLC

CONSTANTS p1, p2, h1, h2

Alike == Permutations(Procs) \cup Permutations(Handles)
=============================================================================
