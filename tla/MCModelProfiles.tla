---------------------------- MODULE MCModelProfiles ----------------------------
(* An instance of ModelProfiles for TLC. *)
EXTENDS ModelProfiles, TLC

Alike == Permutations(Procs) \cup Permutations(Ids \ {Default})
=============================================================================
