--------------------------- MODULE ActiveDatabase ---------------------------
(***************************************************************************)
(* What a DatabaseManager (schemapilot/db.py) promises the rest of its     *)
(* process: it works on one database or on none, and it moves to another   *)
(* at once or not at all.                                                  *)
(***************************************************************************)
CONSTANTS
    Clients,    \* the processes
    Databases,
    NoDatabase

VARIABLES
    running,  \* running[p]: p is there
    asked,    \* asked[p]: the database p was asked to move to
    using     \* using[p]: the database p's queries and introspection go to

vars == <<running, asked, using>>

Init ==
    /\ running = [p \in Clients |-> FALSE]
    /\ asked = [p \in Clients |-> NoDatabase]
    /\ using = [p \in Clients |-> NoDatabase]

(* A process starts and goes for the database of the last session, if any. *)
Enter(p) ==
    /\ ~ running[p]
    /\ running' = [running EXCEPT ![p] = TRUE]
    /\ \E d \in Databases \cup {NoDatabase} : asked' = [asked EXCEPT ![p] = d]
    /\ UNCHANGED using

Leave(p) ==
    /\ running[p]
    /\ running' = [running EXCEPT ![p] = FALSE]
    /\ asked' = [asked EXCEPT ![p] = NoDatabase]
    /\ using' = [using EXCEPT ![p] = NoDatabase]

Ask(p) ==
    /\ running[p] /\ asked[p] = NoDatabase
    /\ \E d \in Databases : asked' = [asked EXCEPT ![p] = d]
    /\ UNCHANGED <<running, using>>

Move(p) ==
    /\ asked[p] # NoDatabase
    /\ using' = [using EXCEPT ![p] = asked[p]]
    /\ asked' = [asked EXCEPT ![p] = NoDatabase]
    /\ UNCHANGED running

Stay(p) ==
    /\ asked[p] # NoDatabase
    /\ asked' = [asked EXCEPT ![p] = NoDatabase]
    /\ UNCHANGED <<running, using>>

(* The profile of the database in use is deleted. *)
Disconnect(p) ==
    /\ running[p] /\ asked[p] = NoDatabase
    /\ using' = [using EXCEPT ![p] = NoDatabase]
    /\ UNCHANGED <<running, asked>>

Next ==
    \E p \in Clients :
        Enter(p) \/ Leave(p) \/ Ask(p) \/ Move(p) \/ Stay(p) \/ Disconnect(p)

Spec == Init /\ [][Next]_vars

=============================================================================
