--------------------------- MODULE MCCredentialFile ---------------------------
(* An instance of CredentialFile for TLC.  Processes, payloads and inodes are *)
(* treated alike, the invariants and the refinement included.                 *)
EXTENDS CredentialFile, TLC

Alike == Permutations(Procs) \cup Permutations(Payloads) \cup Permutations(Files)
=============================================================================
