----------------------------- MODULE ModelProfiles -----------------------------
(***************************************************************************)
(* schemapilot/llm.py: the LLM profiles of every running process, and the  *)
(* models.json they share.                                                 *)
(*                                                                         *)
(* A process loads models.json when its ModelProfileManager is built and   *)
(* activates the first profile if none is flagged.  --add-model then waits *)
(* for its user's answers; each flag is one operation, of up to two saves, *)
(* between which other processes run and this one may be killed.  A save   *)
(* is atomic: CredentialFile shows how.                                    *)
(***************************************************************************)
EXTENDS Sequences, SequencesExt

CONSTANTS
    Procs,    \* the SchemaPilot processes of one user
    Ids,      \* profile identifiers, chosen by the user
    Default,  \* "default", the profile --save-llm writes
    NoId,     \* Python's None, for a profile identifier
    Faults    \* what may fail: a subset of {"load", "save", "kill"}

ASSUME DefaultAssumption == Default \in Ids
ASSUME NoIdAssumption == NoId \notin Ids
ASSUME FaultsAssumption == Faults \subseteq {"load", "save", "kill"}

VARIABLES
    file,      \* models.json
    profiles,  \* profiles[p]: ModelProfileManager.profiles
    active,    \* active[p]: ModelProfileManager.active_id
    pc,        \* pc[p]: what p does next
    want,      \* want[p]: the profile p has added and is about to select
    chosen     \* history: the profile the user selected, until it is deleted

vars == <<file, profiles, active, pc, want, chosen>>

(* The profiles, a dict in insertion order, and those whose is_active is set. *)
NoProfiles == [order |-> <<>>, flagged |-> {}]

IdsOf(r) == Range(r.order)

(* An existing entry keeps its place, and loses its flag (llm.py:55). *)
Stored(r, i) ==
    [order |-> IF i \in IdsOf(r) THEN r.order ELSE Append(r.order, i),
     flagged |-> r.flagged \ {i}]

DeletedKeepingFlag(r, i) == [r EXCEPT !.order = RemoveFirst(@, i)]
Deleted(r, i) == [order |-> RemoveFirst(r.order, i), flagged |-> r.flagged \ {i}]

FlaggedOnly(r, i) == [r EXCEPT !.flagged = {i}]

(* The profile flagged in the file, the first one if several are. *)
FirstListed(r) == IF r.order = <<>> THEN NoId ELSE Head(r.order)
Flagged(r) ==
    IF r.flagged = {} THEN NoId ELSE r.order[SelectInSeq(r.order, LAMBDA i : i \in r.flagged)]

(* save_profiles: an exception is logged and swallowed. *)
Save(r) == \/ file' = r
           \/ "save" \in Faults /\ UNCHANGED file

Init ==
    /\ file = NoProfiles
    /\ profiles = [p \in Procs |-> NoProfiles]
    /\ active = [p \in Procs |-> NoId]
    /\ pc = [p \in Procs |-> "off"]
    /\ want = [p \in Procs |-> NoId]
    /\ chosen = NoId

Goto(p, label) == pc' = [pc EXCEPT ![p] = label]

Keep(p, r) == profiles' = [profiles EXCEPT ![p] = r]
KeepAndSave(p, r) == Keep(p, r) /\ Save(r)

-----------------------------------------------------------------------------

(* __init__: load_profiles, then auto_activate_first. *)
Start(p) ==
    /\ pc[p] = "off"
    /\ \E r \in {file} \cup (IF "load" \in Faults THEN {NoProfiles} ELSE {}) :
        /\ Keep(p, r)
        /\ active' = [active EXCEPT ![p] = Flagged(r)]
    /\ Goto(p, "init")
    /\ UNCHANGED <<file, want, chosen>>

(* select_profile(i), of a profile that exists. *)
Activate(p, i) ==
    /\ KeepAndSave(p, FlaggedOnly(profiles[p], i))
    /\ active' = [active EXCEPT ![p] = i]

After == [init |-> "ready", deleted |-> "done"]

AutoActivateFirst(p) ==
    /\ pc[p] \in DOMAIN After
    /\ IF profiles[p].order # <<>> /\ active[p] = NoId
          THEN Activate(p, Head(profiles[p].order))
          ELSE UNCHANGED <<file, profiles, active>>
    /\ Goto(p, After[pc[p]])
    /\ UNCHANGED <<want, chosen>>

(* --add-model: select_profile follows if nothing is active. *)
AddModel(p, i) ==
    /\ pc[p] = "ready"
    /\ KeepAndSave(p, Stored(profiles[p], i))
    /\ IF active[p] = NoId
          THEN Goto(p, "select") /\ want' = [want EXCEPT ![p] = i]
          ELSE Goto(p, "done") /\ UNCHANGED want
    /\ UNCHANGED <<active, chosen>>

(* --save-llm: select_profile always follows. *)
SaveLlm(p) ==
    /\ pc[p] = "ready"
    /\ KeepAndSave(p, Stored(profiles[p], Default))
    /\ Goto(p, "select")
    /\ want' = [want EXCEPT ![p] = Default]
    /\ UNCHANGED <<active, chosen>>

SelectAdded(p) ==
    /\ pc[p] = "select"
    /\ Activate(p, want[p])
    /\ chosen' = want[p]
    /\ Goto(p, "done")
    /\ want' = [want EXCEPT ![p] = NoId]

(* --select-model *)
SelectModel(p, i) ==
    /\ pc[p] = "ready"
    /\ i \in IdsOf(profiles[p])
    /\ Activate(p, i)
    /\ chosen' = i
    /\ Goto(p, "done")
    /\ UNCHANGED want

(* --delete-model: if it was active, auto_activate_first follows. *)
DeleteModelLeavingActive(p, i) ==
    /\ pc[p] = "ready"
    /\ i \in IdsOf(profiles[p])
    /\ KeepAndSave(p, Deleted(profiles[p], i))
    /\ chosen' = IF chosen = i THEN NoId ELSE chosen
    /\ Goto(p, "done")
    /\ UNCHANGED <<active, want>>

DeleteModel(p, i) ==
    /\ pc[p] = "ready"
    /\ i \in IdsOf(profiles[p])
    /\ KeepAndSave(p, Deleted(profiles[p], i))
    /\ chosen' = IF chosen = i THEN NoId ELSE chosen
    /\ IF active[p] = i
          THEN active' = [active EXCEPT ![p] = NoId] /\ Goto(p, "deleted")
          ELSE UNCHANGED active /\ Goto(p, "done")
    /\ UNCHANGED want

(* The process exits, or is killed between two steps. *)
Stop(p) ==
    /\ pc[p] \in {"ready", "done"} \/ (pc[p] # "off" /\ "kill" \in Faults)
    /\ Goto(p, "off")
    /\ Keep(p, NoProfiles)
    /\ active' = [active EXCEPT ![p] = NoId]
    /\ want' = [want EXCEPT ![p] = NoId]
    /\ UNCHANGED <<file, chosen>>

Step(p) ==
    \/ Start(p) \/ AutoActivateFirst(p) \/ SaveLlm(p) \/ SelectAdded(p) \/ Stop(p)
    \/ \E i \in Ids : AddModel(p, i) \/ SelectModel(p, i) \/ DeleteModel(p, i)

Next == \E p \in Procs : Step(p)

Spec == Init /\ [][Next]_vars

-----------------------------------------------------------------------------
(* Properties. *)

Registries == {file} \cup {profiles[p] : p \in Procs}

(* The type of every variable; a dict has a key once. *)
TypeOK ==
    /\ \A r \in Registries :
        /\ IsInjective(r.order)
        /\ IdsOf(r) \subseteq Ids
        /\ r.flagged \subseteq IdsOf(r)
    /\ active \in [Procs -> Ids \cup {NoId}]
    /\ pc \in [Procs -> {"off", "init", "ready", "select", "deleted", "done"}]
    /\ want \in [Procs -> Ids \cup {NoId}]
    /\ chosen \in Ids \cup {NoId}

(* A process that has profiles has an active one among them once it is built *)
(* and when it is done, deletions included: questions never fall back to the *)
(* environment's model while a profile exists (llm.py:80-84, 100-112).       *)
AModelIsActive ==
    \A p \in Procs : pc[p] \in {"ready", "done"} /\ profiles[p].order # <<>> =>
        active[p] \in IdsOf(profiles[p])

(* A process never keeps a flag on a profile other than its active one, so   *)
(* there is at most one flag and whoever loads what it saved activates that  *)
(* profile or chooses afresh (llm.py:32-36, 73-76).                          *)
FlagFollowsActive ==
    \A p \in Procs : profiles[p].flagged \subseteq {active[p]}

(* --select-model is there to "Set the active AI model profile by its ID"    *)
(* (README.md:164): with no other process at work, whoever starts next uses  *)
(* the profile that was selected last.                                       *)
SelectionPersists ==
    \A p \in Procs : pc[p] = "ready" /\ chosen # NoId => active[p] = chosen

=============================================================================
