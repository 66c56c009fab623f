------------------------------ MODULE AtomicFile ------------------------------
(***************************************************************************)
(* What schemapilot/paths.py promises of a credential file: a write takes  *)
(* effect all at once or not at all, and whatever is read is what some     *)
(* write put there, whole.                                                 *)
(***************************************************************************)
CONSTANTS
    Procs,     \* the processes that load and save the file
    Payloads,  \* what they save
    Nothing    \* there is no file, or no write under way

VARIABLES
    contents,  \* what the file holds
    stable,    \* what it would hold after a power loss
    pending,   \* pending[p]: what p is writing
    got        \* got[p]: what p read last

fileVars == <<contents, stable, pending, got>>

Init ==
    /\ contents = Nothing
    /\ stable = Nothing
    /\ pending = [p \in Procs |-> Nothing]
    /\ got = [p \in Procs |-> Nothing]

Begin(p, v) ==
    /\ pending[p] = Nothing
    /\ pending' = [pending EXCEPT ![p] = v]
    /\ UNCHANGED <<contents, stable, got>>

Commit(p) ==
    /\ pending[p] # Nothing
    /\ contents' = pending[p]
    /\ pending' = [pending EXCEPT ![p] = Nothing]
    /\ UNCHANGED <<stable, got>>

(* A write or a read fails, or its process dies. *)
Abandon(p) ==
    /\ pending' = [pending EXCEPT ![p] = Nothing]
    /\ got' \in {got, [got EXCEPT ![p] = Nothing]}
    /\ UNCHANGED <<contents, stable>>

(* However long a read takes, it returns what the file held at one moment. *)
Read(p) ==
    /\ got' = [got EXCEPT ![p] = contents]
    /\ UNCHANGED <<contents, stable, pending>>

Settle ==
    /\ stable' = contents
    /\ UNCHANGED <<contents, pending, got>>

PowerLoss ==
    /\ contents' = stable
    /\ pending' = [p \in Procs |-> Nothing]
    /\ got' = [p \in Procs |-> Nothing]
    /\ UNCHANGED stable

Next ==
    \/ \E p \in Procs :
        \/ \E v \in Payloads : Begin(p, v)
        \/ Commit(p) \/ Abandon(p) \/ Read(p)
    \/ Settle
    \/ PowerLoss

Spec == Init /\ [][Next]_fileVars

=============================================================================
