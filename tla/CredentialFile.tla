---------------------------- MODULE CredentialFile ----------------------------
(***************************************************************************)
(* schemapilot/paths.py: how connections.json and models.json are written, *)
(* by several processes, any of which may fail, be interrupted or die at   *)
(* any step, on a machine that may lose power; and how they are read.      *)
(*                                                                         *)
(* A file is what an inode is: a name in the directory refers to one, a    *)
(* rename makes the name refer to another, and whoever has a file open     *)
(* keeps the one that was opened.                                          *)
(***************************************************************************)


CONSTANTS
    Procs,     \* the processes that load and save the file
    Payloads,  \* what they save
    Nothing,   \* no payload
    Files,     \* bound: the inodes of the file system
    NoFile,    \* no inode
    Mishaps    \* what may go wrong besides errors that are raised and caught

ASSUME NothingAssumption == Nothing \notin Payloads
ASSUME NoFileAssumption == NoFile \notin Files
ASSUME MishapsAssumption == Mishaps \subseteq {"interrupt", "kill", "power loss", "unlink"}

VARIABLES
    entry,    \* the inode the file's name refers to
    stable,   \* the inode it refers to on the disk
    data,     \* data[f]: what has been written to f
    synced,   \* the inodes whose data is on the disk
    pc,       \* pc[p]: what p does next
    payload,  \* payload[p]: what p is saving
    tmp,      \* tmp[p]: the temporary file of p's save
    litter,   \* temporary files with a name in the directory and no owner
    held,     \* held[p]: the inode p has open for reading
    got       \* got[p]: what p last loaded

directory == <<entry, stable, litter>>
reading == <<held, got>>
vars == <<directory, data, synced, pc, payload, tmp, reading>>

(* Not a payload: a file just created, and one cut short. *)
Empty == "empty"
Torn == "torn"
ASSUME UnreadableAssumption == {Empty, Torn} \cap Payloads = {}

Init ==
    /\ entry = NoFile
    /\ stable = NoFile
    /\ data = [f \in Files |-> Empty]
    /\ synced = {}
    /\ pc = [p \in Procs |-> "idle"]
    /\ payload = [p \in Procs |-> Nothing]
    /\ tmp = [p \in Procs |-> NoFile]
    /\ litter = {}
    /\ held = [p \in Procs |-> NoFile]
    /\ got = [p \in Procs |-> Nothing]

At(p, label) == pc[p] = label
Goto(p, label) == pc' = [pc EXCEPT ![p] = label]

InUse == {entry, stable} \cup litter \cup {tmp[p] : p \in Procs} \cup {held[p] : p \in Procs}
Put(p, content) == data' = [data EXCEPT ![tmp[p]] = content]

-----------------------------------------------------------------------------
(* Loading. *)

(* os.path.exists, then open... *)
OpenFile(p) ==
    /\ At(p, "idle")
    /\ entry # NoFile
    /\ held' = [held EXCEPT ![p] = entry]
    /\ Goto(p, "read")
    /\ UNCHANGED <<directory, data, synced, payload, tmp, got>>

FindNoFile(p) ==
    /\ At(p, "idle")
    /\ entry = NoFile
    /\ got' = [got EXCEPT ![p] = Nothing]
    /\ UNCHANGED <<directory, data, synced, pc, payload, tmp, held>>

(* ...and json.load: what cannot be parsed, or read, is loaded as {}. *)
ReadFile(p) ==
    /\ At(p, "read")
    /\ got' = [got EXCEPT ![p] = IF data[held[p]] \in Payloads THEN data[held[p]] ELSE Nothing]
    /\ held' = [held EXCEPT ![p] = NoFile]
    /\ Goto(p, "idle")
    /\ UNCHANGED <<directory, data, synced, payload, tmp>>

ReadFails(p) ==
    /\ At(p, "read")
    /\ got' = [got EXCEPT ![p] = Nothing]
    /\ held' = [held EXCEPT ![p] = NoFile]
    /\ Goto(p, "idle")
    /\ UNCHANGED <<directory, data, synced, payload, tmp>>

-----------------------------------------------------------------------------
(* Saving: write_credential_json. *)

BeginSave(p) ==
    /\ At(p, "idle")
    /\ \E v \in Payloads : payload' = [payload EXCEPT ![p] = v]
    /\ Goto(p, "mkstemp")
    /\ UNCHANGED <<directory, data, synced, tmp, reading>>

Return(p) ==
    /\ Goto(p, "idle")
    /\ payload' = [payload EXCEPT ![p] = Nothing]

(* mkstemp: a file under a name no other process uses. *)
MakeTempUnderFixedName(p) ==
    /\ At(p, "mkstemp")
    /\ \E f \in ((Files \ InUse) \cup {tmp[q] : q \in Procs}) \ {NoFile} :
        /\ tmp' = [tmp EXCEPT ![p] = f]
        /\ data' = [data EXCEPT ![f] = Empty]
        /\ synced' = synced \ {f}
    /\ Goto(p, "write")
    /\ UNCHANGED <<directory, payload, reading>>

MakeTempInPlace(p) ==
    /\ At(p, "mkstemp")
    /\ \E f \in IF entry = NoFile THEN Files \ InUse ELSE {entry} :
        /\ tmp' = [tmp EXCEPT ![p] = f]
        /\ data' = [data EXCEPT ![f] = Empty]
        /\ synced' = synced \ {f}
    /\ Goto(p, "write")
    /\ UNCHANGED <<directory, payload, reading>>

MakeTemp(p) ==
    /\ At(p, "mkstemp")
    /\ \E f \in Files \ InUse :
        /\ tmp' = [tmp EXCEPT ![p] = f]
        /\ data' = [data EXCEPT ![f] = Empty]
        /\ synced' = synced \ {f}
    /\ Goto(p, "write")
    /\ UNCHANGED <<directory, payload, reading>>

(* Whatever is raised before there is a temporary file. *)
MakeTempFailsInsideTry(p) ==
    /\ At(p, "mkstemp")
    /\ Goto(p, "unlink")
    /\ UNCHANGED <<directory, data, synced, payload, tmp, reading>>

MakeTempFails(p) ==
    /\ At(p, "mkstemp")
    /\ Return(p)
    /\ UNCHANGED <<directory, data, synced, tmp, reading>>

(* json.dump, in pieces, the last of them with the flush. *)
WriteSome(p) ==
    /\ At(p, "write")
    /\ Put(p, Torn)
    /\ UNCHANGED <<directory, synced, pc, payload, tmp, reading>>

WriteAll(p) ==
    /\ At(p, "write")
    /\ Put(p, payload[p])
    /\ Goto(p, "fsync")
    /\ UNCHANGED <<directory, synced, payload, tmp, reading>>

SyncNothing(p) ==
    /\ At(p, "fsync")
    /\ Goto(p, "replace")
    /\ UNCHANGED <<directory, data, synced, payload, tmp, reading>>

Sync(p) ==
    /\ At(p, "fsync")
    /\ synced' = synced \cup {tmp[p]}
    /\ Goto(p, "replace")
    /\ UNCHANGED <<directory, data, payload, tmp, reading>>

(* os.replace: the file's name refers to the new file from now on. *)
Replace(p) ==
    /\ At(p, "replace")
    /\ entry' = tmp[p]
    /\ tmp' = [tmp EXCEPT ![p] = NoFile]
    /\ Return(p)
    /\ UNCHANGED <<stable, litter, data, synced, reading>>

(* An Exception from fchmod on is caught... *)
Raise(p) ==
    /\ pc[p] \in {"write", "fsync", "replace"}
    /\ Goto(p, "unlink")
    /\ UNCHANGED <<directory, data, synced, payload, tmp, reading>>

(* ...and raised again once the temporary file is removed, if it can be. *)
Unlink(p) ==
    /\ At(p, "unlink")
    /\ \/ UNCHANGED litter
       \/ "unlink" \in Mishaps /\ litter' = litter \cup {tmp[p]}
    /\ tmp' = [tmp EXCEPT ![p] = NoFile]
    /\ Return(p)
    /\ UNCHANGED <<entry, stable, data, synced, reading>>

-----------------------------------------------------------------------------
(* The end of a process, and of all of them. *)

(* ^C raises KeyboardInterrupt, which is no Exception, and nothing runs in a *)
(* process that is killed: either way the temporary file stays.              *)
Vanish(p) ==
    /\ ~ At(p, "idle")
    /\ litter' = (litter \cup {tmp[p]}) \ {NoFile}
    /\ tmp' = [tmp EXCEPT ![p] = NoFile]
    /\ held' = [held EXCEPT ![p] = NoFile]
    /\ got' = [got EXCEPT ![p] = Nothing]
    /\ Return(p)
    /\ UNCHANGED <<entry, stable, data, synced>>

Interrupt(p) == "interrupt" \in Mishaps /\ Vanish(p)
Kill(p) == "kill" \in Mishaps /\ Vanish(p)

(* The kernel writes the directory to the disk, whenever it sees fit. *)
WriteDirectory ==
    /\ stable' = entry
    /\ UNCHANGED <<entry, litter, data, synced, pc, payload, tmp, reading>>

(* The directory is as the disk has it, temporary names may be on it or not, *)
(* and a file that was not synced may be incomplete.                         *)
PowerLoss ==
    /\ "power loss" \in Mishaps
    /\ entry' = stable
    /\ litter' \in SUBSET ((litter \cup {tmp[p] : p \in Procs}) \ {NoFile})
    /\ \E lost \in SUBSET (InUse \ synced) :
        data' = [f \in Files |-> IF f \in lost THEN Torn ELSE data[f]]
    /\ pc' = [p \in Procs |-> "idle"]
    /\ payload' = [p \in Procs |-> Nothing]
    /\ tmp' = [p \in Procs |-> NoFile]
    /\ held' = [p \in Procs |-> NoFile]
    /\ got' = [p \in Procs |-> Nothing]
    /\ UNCHANGED <<stable, synced>>

Step(p) ==
    \/ OpenFile(p) \/ FindNoFile(p) \/ ReadFile(p) \/ ReadFails(p)
    \/ BeginSave(p) \/ MakeTemp(p) \/ MakeTempFails(p) \/ WriteSome(p) \/ WriteAll(p)
    \/ Sync(p) \/ Replace(p) \/ Raise(p) \/ Unlink(p)
    \/ Interrupt(p) \/ Kill(p)

Next == (\E p \in Procs : Step(p)) \/ WriteDirectory \/ PowerLoss

Spec == Init /\ [][Next]_vars

-----------------------------------------------------------------------------
(* Properties. *)

Saving == {"write", "fsync", "replace", "unlink"}

(* The type of every variable. *)
TypeOK ==
    /\ entry \in Files \cup {NoFile}
    /\ stable \in Files \cup {NoFile}
    /\ data \in [Files -> Payloads \cup {Empty, Torn}]
    /\ synced \subseteq Files
    /\ pc \in [Procs -> {"idle", "read", "mkstemp"} \cup Saving]
    /\ payload \in [Procs -> Payloads \cup {Nothing}]
    /\ tmp \in [Procs -> Files \cup {NoFile}]
    /\ litter \subseteq Files
    /\ held \in [Procs -> Files \cup {NoFile}]
    /\ got \in [Procs -> Payloads \cup {Nothing}]

(* The file is never half-written, after a power loss neither, and nobody    *)
(* has a half-written file open (paths.py:49-51).                            *)
NeverTorn ==
    \A f \in ({entry, stable} \cup {held[p] : p \in Procs}) \ {NoFile} :
        data[f] \in Payloads

(* A temporary file is the work of one save, and no name but its own refers  *)
(* to it: no two saves write into the same file, none into the live one.     *)
TempsAreOwned ==
    \A p \in Procs : tmp[p] # NoFile =>
        /\ tmp[p] \notin {entry, stable} \cup litter
        /\ \A q \in Procs : tmp[p] # held[q] /\ (q # p => tmp[p] # tmp[q])

(* "Never leave the temp file behind" (paths.py:65).                         *)
NothingLeftBehind == litter = {}

(* The file, as those who load and save it see it: what a load that is under *)
(* way is going to return counts as read when the file was opened.           *)
Content(f) == IF f = NoFile THEN Nothing ELSE data[f]
Loaded == [p \in Procs |-> IF held[p] # NoFile THEN data[held[p]] ELSE got[p]]

File == INSTANCE AtomicFile WITH
    contents <- Content(entry),
    stable <- Content(stable),
    pending <- payload,
    got <- Loaded

(* Every save takes effect at its os.replace, whole or not at all, and every *)
(* load returns what the file held when it was opened (paths.py:49-51).      *)
ImplementsAtomicFile == File!Spec

=============================================================================
