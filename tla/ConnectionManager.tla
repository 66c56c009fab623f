-------------------------- MODULE ConnectionManager --------------------------
(***************************************************************************)
(* schemapilot/db.py: the connection registry and the engine of every      *)
(* running SchemaPilot process, and the connections.json they share.       *)
(*                                                                         *)
(* A process loads connections.json once, when its DatabaseManager is      *)
(* built, connects to the profile flagged is_active, and then is either a  *)
(* one-shot command line (--add-conn, --select-conn, --delete-conn) or a   *)
(* REPL, whose only operation on the registry is /use.  A switch is a      *)
(* sequence of steps (build the candidate engine, probe it, swap, release  *)
(* the old engine, persist the flag): other processes run, and this one    *)
(* may be killed, between any two of them.                                 *)
(*                                                                         *)
(* Profiles are numbered in the order in which they were created.  A       *)
(* registry is a Python dict, an id (uuid4) is created once, and an entry  *)
(* is only ever appended, so every dict is in creation order and the       *)
(* number stands for the position in it.                                   *)
(***************************************************************************)
EXTENDS Naturals, FiniteSets

CONSTANTS
    Procs,        \* the SchemaPilot processes of one user
    Handles,      \* identities of SQLAlchemy engine objects
    NoEngine,     \* Python's None, for an engine
    MaxProfiles,  \* bound: profiles created over the whole behaviour
    Faults        \* which file operations may fail: a subset of {"load", "save"}

ASSUME MaxProfilesAssumption == MaxProfiles \in Nat
ASSUME FaultsAssumption == Faults \subseteq {"load", "save"}

Conns == 1 .. MaxProfiles
NoConn == 0       \* Python's None, for a connection id

(* An engine object, and the profile from which it was built (none for the *)
(* throwaway engine that tests a configuration not saved yet).             *)
Engine == [handle : Handles, of : Conns \cup {NoConn}]

ASSUME NoEngineAssumption == NoEngine \notin Engine

VARIABLES
    file,    \* connections.json
    reg,     \* reg[p]: DatabaseManager.connections of process p
    active,  \* active[p]: DatabaseManager.active_id
    engine,  \* engine[p]: DatabaseManager.engine
    pc,      \* pc[p]: what p does next
    want,    \* want[p]: conn_id of the select_connection under way
    then,    \* then[p]: where select_connection returns to
    cand,    \* cand[p]: candidate (or test_engine), not yet self.engine
    prev,    \* prev[p]: previous_engine, not yet disposed
    live,    \* live[p]: engines that hold a pool, created and not disposed
    next,    \* the number of the next profile to be created
    saved,   \* history: profiles reported saved, and not reported deleted since
    chosen   \* history: the profile last reported selected, until deleted

memory == <<reg, active, engine>>
switch == <<want, then, cand, prev>>
vars == <<file, memory, pc, switch, live, next, saved, chosen>>

-----------------------------------------------------------------------------
(* Registries: the entries and, among them, those whose is_active is true. *)

Registry == {r \in [ids : SUBSET Conns, flagged : SUBSET Conns] : r.flagged \subseteq r.ids}
NoProfiles == [ids |-> {}, flagged |-> {}]

First(S) == CHOOSE c \in S : \A d \in S : c <= d

(* The profile a process connects to when it starts. *)
TargetIgnoringFlag(r) == First(r.ids)
Target(r) == IF r.flagged # {} THEN First(r.flagged) ELSE First(r.ids)

Extended(r, c) == [r EXCEPT !.ids = @ \cup {c}]

ForgottenKeepingFlag(r, c) == [r EXCEPT !.ids = @ \ {c}]
Forgotten(r, c) == [ids |-> r.ids \ {c}, flagged |-> r.flagged \ {c}]

FlaggedToo(r, c) == [r EXCEPT !.flagged = @ \cup {c}]
FlaggedOnly(r, c) == [r EXCEPT !.flagged = {c}]

(* save_connections: the whole registry replaces the file, or the exception *)
(* is logged and swallowed and the file stays as it was.                    *)
SaveNothing(r) == UNCHANGED file
Save(r) == \/ file' = r
           \/ "save" \in Faults /\ UNCHANGED file

Init ==
    /\ file = NoProfiles
    /\ reg = [p \in Procs |-> NoProfiles]
    /\ active = [p \in Procs |-> NoConn]
    /\ engine = [p \in Procs |-> NoEngine]
    /\ pc = [p \in Procs |-> "off"]
    /\ want = [p \in Procs |-> NoConn]
    /\ then = [p \in Procs |-> "done"]
    /\ cand = [p \in Procs |-> NoEngine]
    /\ prev = [p \in Procs |-> NoEngine]
    /\ live = [p \in Procs |-> {}]
    /\ next = 1
    /\ saved = {}
    /\ chosen = NoConn

Goto(p, label) == pc' = [pc EXCEPT ![p] = label]

(* Enter select_connection(c), to continue at `back' afterwards. *)
BeginSwitch(p, c, back) ==
    /\ want' = [want EXCEPT ![p] = c]
    /\ then' = [then EXCEPT ![p] = back]
    /\ Goto(p, "create")

(* Return from it, with or without an exception. *)
Return(p) ==
    /\ Goto(p, then[p])
    /\ want' = [want EXCEPT ![p] = NoConn]
    /\ then' = [then EXCEPT ![p] = "done"]

-----------------------------------------------------------------------------
(* Starting and stopping. *)

(* __init__: load_connections, then auto_connect_active. *)
Start(p) ==
    /\ pc[p] = "off"
    /\ \E r \in {file} \cup (IF "load" \in Faults THEN {NoProfiles} ELSE {}) :
        /\ reg' = [reg EXCEPT ![p] = r]
        /\ IF r.ids = {}
              THEN Goto(p, "ready") /\ UNCHANGED <<want, then>>
              ELSE BeginSwitch(p, Target(r), "ready")
    /\ UNCHANGED <<file, active, engine, cand, prev, live, next, saved, chosen>>

(* The process exits, or is killed between any two steps: its memory and *)
(* its sockets go with it.                                               *)
Stop(p) ==
    /\ pc[p] # "off"
    /\ Goto(p, "off")
    /\ reg' = [reg EXCEPT ![p] = NoProfiles]
    /\ active' = [active EXCEPT ![p] = NoConn]
    /\ engine' = [engine EXCEPT ![p] = NoEngine]
    /\ cand' = [cand EXCEPT ![p] = NoEngine]
    /\ prev' = [prev EXCEPT ![p] = NoEngine]
    /\ live' = [live EXCEPT ![p] = {}]
    /\ want' = [want EXCEPT ![p] = NoConn]
    /\ then' = [then EXCEPT ![p] = "done"]
    /\ UNCHANGED <<file, next, saved, chosen>>

(* interactive_shell: from here on the process only switches. *)
OpenRepl(p) ==
    /\ pc[p] = "ready"
    /\ Goto(p, "prompt")
    /\ UNCHANGED <<file, memory, switch, live, next, saved, chosen>>

-----------------------------------------------------------------------------
(* select_connection, step by step. *)

(* An engine object for profile c comes to life as p's candidate. *)
NewEngine(p, c) ==
    \E h \in Handles \ {e.handle : e \in live[p]} :
        /\ cand' = [cand EXCEPT ![p] = [handle |-> h, of |-> c]]
        /\ live' = [live EXCEPT ![p] = @ \cup {[handle |-> h, of |-> c]}]

CreateDroppingActive(p) ==
    /\ pc[p] = "create"
    /\ \E h \in Handles :
        /\ cand' = [cand EXCEPT ![p] = [handle |-> h, of |-> want[p]]]
        /\ live' = [live EXCEPT ![p] = {[handle |-> h, of |-> want[p]]}]
    /\ engine' = [engine EXCEPT ![p] = NoEngine]
    /\ active' = [active EXCEPT ![p] = NoConn]
    /\ Goto(p, "probe")
    /\ UNCHANGED <<file, reg, want, then, prev, next, saved, chosen>>

Create(p) ==
    /\ pc[p] = "create"
    /\ NewEngine(p, want[p])
    /\ Goto(p, "probe")
    /\ UNCHANGED <<file, memory, want, then, prev, next, saved, chosen>>

(* Unknown engine name, missing driver, malformed URL: nothing was built. *)
CannotCreate(p) ==
    /\ pc[p] = "create"
    /\ Return(p)
    /\ UNCHANGED <<file, memory, cand, prev, live, next, saved, chosen>>

(* SELECT 1 raised: only the candidate is disposed, and the error is raised. *)
ProbeFailsKeepingCandidate(p) ==
    /\ pc[p] = "probe"
    /\ cand' = [cand EXCEPT ![p] = NoEngine]
    /\ Return(p)
    /\ UNCHANGED <<file, memory, prev, live, next, saved, chosen>>

ProbeFailsDroppingActive(p) ==
    /\ pc[p] = "probe"
    /\ live' = [live EXCEPT ![p] = {}]
    /\ cand' = [cand EXCEPT ![p] = NoEngine]
    /\ engine' = [engine EXCEPT ![p] = NoEngine]
    /\ active' = [active EXCEPT ![p] = NoConn]
    /\ Return(p)
    /\ UNCHANGED <<file, reg, prev, next, saved, chosen>>

ProbeFails(p) ==
    /\ pc[p] = "probe"
    /\ live' = [live EXCEPT ![p] = @ \ {cand[p]}]
    /\ cand' = [cand EXCEPT ![p] = NoEngine]
    /\ Return(p)
    /\ UNCHANGED <<file, memory, prev, next, saved, chosen>>

(* The candidate answered: engine and active_id are swapped together. *)
SwapEngineOnly(p) ==
    /\ pc[p] = "probe"
    /\ prev' = [prev EXCEPT ![p] = engine[p]]
    /\ engine' = [engine EXCEPT ![p] = cand[p]]
    /\ cand' = [cand EXCEPT ![p] = NoEngine]
    /\ Goto(p, "release")
    /\ UNCHANGED <<file, reg, active, want, then, live, next, saved, chosen>>

Swap(p) ==
    /\ pc[p] = "probe"
    /\ prev' = [prev EXCEPT ![p] = engine[p]]
    /\ engine' = [engine EXCEPT ![p] = cand[p]]
    /\ active' = [active EXCEPT ![p] = want[p]]
    /\ cand' = [cand EXCEPT ![p] = NoEngine]
    /\ Goto(p, "release")
    /\ UNCHANGED <<file, reg, want, then, live, next, saved, chosen>>

(* The old pool is released; auto-connect (persist=False) ends here. *)
Release(p) ==
    /\ pc[p] = "release"
    /\ live' = [live EXCEPT ![p] = @ \ {prev[p]}]
    /\ prev' = [prev EXCEPT ![p] = NoEngine]
    /\ IF then[p] = "ready"
          THEN Return(p)
          ELSE Goto(p, "persist") /\ UNCHANGED <<want, then>>
    /\ UNCHANGED <<file, memory, cand, next, saved, chosen>>

(* _persist_active, and the return True its caller reports as a switch. *)
Persist(p) ==
    /\ pc[p] = "persist"
    /\ LET r == FlaggedOnly(reg[p], want[p])
       IN  reg' = [reg EXCEPT ![p] = r] /\ Save(r)
    /\ chosen' = want[p]
    /\ Return(p)
    /\ UNCHANGED <<active, engine, cand, prev, live, next, saved>>

-----------------------------------------------------------------------------
(* The operations that ask for a switch. *)

(* /use at the REPL prompt. *)
Use(p) ==
    /\ pc[p] = "prompt"
    /\ \E c \in reg[p].ids : BeginSwitch(p, c, "prompt")
    /\ UNCHANGED <<file, memory, cand, prev, live, next, saved, chosen>>

(* --select-conn; an id that is not in the registry is reported not found. *)
SelectConn(p) ==
    /\ pc[p] = "ready"
    /\ \/ \E c \in reg[p].ids : BeginSwitch(p, c, "done")
       \/ Goto(p, "done") /\ UNCHANGED <<want, then>>
    /\ UNCHANGED <<file, memory, cand, prev, live, next, saved, chosen>>

(* --add-conn: test_connection builds a throwaway engine (failing to build  *)
(* it is a failed test, as below)...                                        *)
TestConn(p) ==
    /\ pc[p] = "ready"
    /\ NewEngine(p, NoConn)
    /\ Goto(p, "test")
    /\ UNCHANGED <<file, memory, want, then, prev, next, saved, chosen>>

(* ...whose probe fails or succeeds, and which is disposed either way. *)
TestConnEnds(p) ==
    /\ pc[p] = "test"
    /\ live' = [live EXCEPT ![p] = @ \ {cand[p]}]
    /\ cand' = [cand EXCEPT ![p] = NoEngine]
    /\ \E label \in {"add", "done"} : Goto(p, label)
    /\ UNCHANGED <<file, memory, want, then, prev, next, saved, chosen>>

(* add_connection under a fresh id, selected at once if nothing is active. *)
AddConn(p) ==
    /\ pc[p] = "add"
    /\ next <= MaxProfiles
    /\ LET r == Extended(reg[p], next)
       IN  reg' = [reg EXCEPT ![p] = r] /\ Save(r)
    /\ next' = next + 1
    /\ saved' = saved \cup {next}
    /\ IF active[p] = NoConn
          THEN BeginSwitch(p, next, "done")
          ELSE Goto(p, "done") /\ UNCHANGED <<want, then>>
    /\ UNCHANGED <<active, engine, cand, prev, live, chosen>>

(* --delete-conn: the entry goes, the file is saved and, if it was the *)
(* active one, its engine is disposed.                                 *)
DeleteLeavingActive(p, c) == UNCHANGED <<active, engine, live>>
DeleteActive(p, c) ==
    IF active[p] = c
       THEN /\ live' = [live EXCEPT ![p] = @ \ {engine[p]}]
            /\ engine' = [engine EXCEPT ![p] = NoEngine]
            /\ active' = [active EXCEPT ![p] = NoConn]
       ELSE UNCHANGED <<active, engine, live>>

DeleteConn(p) ==
    /\ pc[p] = "ready"
    /\ \E c \in reg[p].ids :
        /\ reg' = [reg EXCEPT ![p] = Forgotten(reg[p], c)]
        /\ Save(Forgotten(reg[p], c))
        /\ DeleteActive(p, c)
        /\ saved' = saved \ {c}
        /\ chosen' = IF chosen = c THEN NoConn ELSE chosen
    /\ Goto(p, "done")
    /\ UNCHANGED <<switch, next>>

Step(p) ==
    \/ Start(p) \/ Stop(p) \/ OpenRepl(p)
    \/ Create(p) \/ CannotCreate(p) \/ ProbeFails(p)
    \/ Swap(p) \/ Release(p) \/ Persist(p)
    \/ Use(p) \/ SelectConn(p)
    \/ TestConn(p) \/ TestConnEnds(p) \/ AddConn(p) \/ DeleteConn(p)

Next == \E p \in Procs : Step(p)

Spec == Init /\ [][Next]_vars

-----------------------------------------------------------------------------
(* Properties. *)

Labels == {"off", "ready", "prompt", "done", "create", "probe", "release",
           "persist", "test", "add"}
AtRest == {"ready", "prompt", "done"}

(* The type of every variable. *)
TypeOK ==
    /\ file \in Registry
    /\ reg \in [Procs -> Registry]
    /\ active \in [Procs -> Conns \cup {NoConn}]
    /\ engine \in [Procs -> Engine \cup {NoEngine}]
    /\ pc \in [Procs -> Labels]
    /\ want \in [Procs -> Conns \cup {NoConn}]
    /\ then \in [Procs -> AtRest]
    /\ cand \in [Procs -> Engine \cup {NoEngine}]
    /\ prev \in [Procs -> Engine \cup {NoEngine}]
    /\ live \in [Procs -> SUBSET Engine]
    /\ next \in 1 .. MaxProfiles + 1
    /\ saved \subseteq Conns
    /\ chosen \in Conns \cup {NoConn}

(* Queries go to the database that active_id names: the engine in use was   *)
(* built from that profile and its pool is open, in every state of a switch *)
(* (db.py:207-210, "can never disagree").                                   *)
EngineServesActive ==
    \A p \in Procs :
        /\ engine[p] = NoEngine <=> active[p] = NoConn
        /\ engine[p] # NoEngine =>
               engine[p] \in live[p] /\ engine[p].of = active[p]

(* No switch, failed switch, deletion or connection test leaves a pool open: *)
(* between operations the only live engine is the one in use                 *)
(* (db.py:166, 215-216).                                                     *)
NoEngineLeak ==
    \A p \in Procs : pc[p] \in AtRest => live[p] = {engine[p]} \ {NoEngine}

(* The active connection always has a profile in the registry, so           *)
(* active_spec is never None and active_config never empty while an engine  *)
(* is in use (db.py:102-113 read the registry through active_id).           *)
ActiveIsRegistered ==
    \A p \in Procs : active[p] # NoConn => active[p] \in reg[p].ids

(* The persisted flag can name only one profile, whoever wrote the file and *)
(* whenever it was killed, so that `next(... is_active)' has one answer     *)
(* (db.py:230-231, 246).                                                    *)
OneFlag ==
    \A r \in {file} \cup {reg[p] : p \in Procs} :
        \A c, d \in r.flagged : c = d

(* Between operations, a process that is connected and has a flagged profile *)
(* is connected to that one (db.py:234-253, 228-232).                        *)
FlagNamesActive ==
    \A p \in Procs :
        pc[p] \in AtRest /\ active[p] # NoConn => reg[p].flagged \subseteq {active[p]}

(* A switch whose candidate is not usable is a no-op (db.py:178-180): no     *)
(* step of a switch before the swap, from the request for it on, touches the *)
(* engine in use, active_id, a registry or the file, or disposes the engine  *)
(* in use; and giving up leaves that engine alone open.                      *)
FailedSwitchIsNoOp ==
    [][\A p \in Procs :
        LET asks == pc[p] \in AtRest /\ pc'[p] = "create"
            tries == pc[p] = "create" /\ pc'[p] = "probe"
            givesUp == pc[p] \in {"create", "probe"} /\ pc'[p] \in AtRest
        IN  /\ asks \/ tries \/ givesUp =>
                   UNCHANGED <<file, memory>> /\ {engine[p]} \ {NoEngine} \subseteq live'[p]
            /\ givesUp => live'[p] = {engine[p]} \ {NoEngine}]_vars

(* connections.json holds exactly the profiles that were reported saved and  *)
(* not reported deleted since (db.py:60, cli.py:203, cli.py:251).            *)
FileHoldsSavedProfiles == file.ids = saved

(* "the next process starts on the same database" (db.py:229): a starting   *)
(* process goes for the profile last reported selected, if it still exists. *)
RestartKeepsSelection ==
    \A p \in Procs :
        pc[p] = "create" /\ then[p] = "ready" /\ chosen # NoConn => want[p] = chosen

(* Seen from outside, a switch happens at the swap or not at all: a process  *)
(* serves the database it served until then, and afterwards the one it was   *)
(* asked for (db.py:175-182).  What serves a query is the engine, whatever   *)
(* active_id says meanwhile.                                                 *)
Asking(p) == IF pc[p] \in {"create", "probe"} THEN want[p] ELSE NoConn
Serving(p) == IF engine[p] = NoEngine THEN NoConn ELSE engine[p].of

Manager ==
    INSTANCE ActiveDatabase
        WITH Clients <- Procs, Databases <- Conns, NoDatabase <- NoConn,
             running <- [p \in Procs |-> pc[p] # "off"],
             asked <- [p \in Procs |-> Asking(p)],
             using <- [p \in Procs |-> Serving(p)]

ImplementsActiveDatabase == Manager!Spec

=============================================================================
