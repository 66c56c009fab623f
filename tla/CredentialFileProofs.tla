------------------------- MODULE CredentialFileProofs -------------------------
(***************************************************************************)
(* What writing through a temporary file guarantees for any number of      *)
(* processes, payloads and inodes, whatever goes wrong.                    *)
(***************************************************************************)
EXTENDS CredentialFile, TLAPS

(* What a process holds at each label, and how far its save has come. *)
Progressed(p) ==
    /\ tmp[p] # NoFile <=> pc[p] \in Saving
    /\ held[p] # NoFile <=> pc[p] = "read"
    /\ payload[p] # Nothing <=> pc[p] \in Saving \cup {"mkstemp"}
    /\ pc[p] \in {"fsync", "replace"} => data[tmp[p]] = payload[p]
    /\ pc[p] = "replace" => tmp[p] \in synced

(* The live file, and the one that would be live after a power loss, are on *)
(* the disk: this is what makes the directory's word enough.                *)
OnDisk == {entry, stable} \ {NoFile} \subseteq synced

IInv == TypeOK /\ NeverTorn /\ TempsAreOwned /\ OnDisk /\ \A p \in Procs : Progressed(p)

-----------------------------------------------------------------------------
(* A file made by MakeTemp is nobody else's. *)
LEMMA FreshFile ==
    ASSUME NEW f \in Files \ InUse
    PROVE  /\ f # NoFile /\ f # entry /\ f # stable /\ f \notin litter
           /\ \A q \in Procs : tmp[q] # f /\ held[q] # f
BY NoFileAssumption DEF InUse

(* Every variable keeps its type. *)
LEMMA TypeStep == IInv /\ [Next]_vars => TypeOK'
<1>. SUFFICES ASSUME IInv, [Next]_vars
              PROVE  TypeOK'
    OBVIOUS
<1>. USE DEF IInv, TypeOK, Saving, At, Goto, Return, directory, reading
<1>1. ASSUME NEW p \in Procs, Step(p) PROVE TypeOK'
    <2>1. CASE OpenFile(p) \/ FindNoFile(p) \/ ReadFile(p) \/ ReadFails(p)
        BY <2>1 DEF OpenFile, FindNoFile, ReadFile, ReadFails
    <2>2. CASE BeginSave(p) \/ MakeTempFails(p)
        BY <2>2 DEF BeginSave, MakeTempFails
    <2>3. CASE MakeTemp(p)
        BY <2>3 DEF MakeTemp
    <2>4. CASE WriteSome(p) \/ WriteAll(p)
        <3>1. pc[p] = "write"
            BY <2>4 DEF WriteSome, WriteAll
        <3>2. tmp[p] \in Files /\ payload[p] \in Payloads
            BY <3>1 DEF Progressed
        <3>. QED
            BY <2>4, <3>2 DEF WriteSome, WriteAll, Put
    <2>5. CASE Sync(p)
        <3>1. tmp[p] \in Files
            BY <2>5 DEF Sync, Progressed
        <3>. QED
            BY <2>5, <3>1 DEF Sync
    <2>6. CASE Replace(p) \/ Raise(p)
        BY <2>6 DEF Replace, Raise
    <2>7. CASE Unlink(p)
        <3>1. tmp[p] \in Files
            BY <2>7 DEF Unlink, Progressed
        <3>. QED
            BY <2>7, <3>1 DEF Unlink
    <2>8. CASE Vanish(p)
        BY <2>8 DEF Vanish
    <2>. QED
        BY <1>1, <2>1, <2>2, <2>3, <2>4, <2>5, <2>6, <2>7, <2>8 DEF Step, Interrupt, Kill
<1>2. CASE WriteDirectory
    BY <1>2 DEF WriteDirectory
<1>3. CASE PowerLoss
    <2>1. litter' \subseteq Files
        <3>1. {tmp[p] : p \in Procs} \subseteq Files \cup {NoFile}
            OBVIOUS
        <3>. QED
            BY <1>3, <3>1 DEF PowerLoss
    <2>2. PICK lost \in SUBSET (InUse \ synced) :
             data' = [f \in Files |-> IF f \in lost THEN Torn ELSE data[f]]
        BY <1>3 DEF PowerLoss
    <2>3. data' \in [Files -> Payloads \cup {Empty, Torn}]
        BY <2>2
    <2>. QED
        BY <1>3, <2>1, <2>3 DEF PowerLoss
<1>4. CASE UNCHANGED vars
    BY <1>4 DEF vars
<1>. QED
    BY <1>1, <1>2, <1>3, <1>4 DEF Next

(* No step gives a temporary file a second owner or a second name: mkstemp  *)
(* makes a new one, and os.replace takes it from its owner.                 *)
LEMMA OwnedStep == IInv /\ [Next]_vars => TempsAreOwned'
<1>. SUFFICES ASSUME IInv, [Next]_vars
              PROVE  TempsAreOwned'
    OBVIOUS
<1>. USE DEF IInv, TypeOK, Saving, TempsAreOwned, At, Goto, Return, directory, reading
<1>1. ASSUME NEW p \in Procs, Step(p) PROVE TempsAreOwned'
    <2>1. CASE OpenFile(p)
        BY <2>1 DEF OpenFile
    <2>2. CASE FindNoFile(p) \/ ReadFile(p) \/ ReadFails(p)
        BY <2>2, NoFileAssumption DEF FindNoFile, ReadFile, ReadFails
    <2>3. CASE BeginSave(p) \/ MakeTempFails(p) \/ WriteSome(p) \/ WriteAll(p)
        BY <2>3 DEF BeginSave, MakeTempFails, WriteSome, WriteAll
    <2>4. CASE Sync(p) \/ Raise(p)
        BY <2>4 DEF Sync, Raise
    <2>5. CASE MakeTemp(p)
        <3>1. PICK f \in Files \ InUse : tmp' = [tmp EXCEPT ![p] = f]
            BY <2>5 DEF MakeTemp
        <3>. QED
            BY <2>5, <3>1, FreshFile DEF MakeTemp
    <2>6. CASE Replace(p)
        <3>1. tmp[p] # NoFile
            BY <2>6 DEF Replace, Progressed
        <3>. QED
            BY <2>6, <3>1 DEF Replace
    <2>7. CASE Unlink(p)
        <3>1. tmp[p] # NoFile
            BY <2>7 DEF Unlink, Progressed
        <3>. QED
            BY <2>7, <3>1 DEF Unlink
    <2>8. CASE Vanish(p)
        BY <2>8, NoFileAssumption DEF Vanish
    <2>. QED
        BY <1>1, <2>1, <2>2, <2>3, <2>4, <2>5, <2>6, <2>7, <2>8 DEF Step, Interrupt, Kill
<1>2. CASE WriteDirectory
    BY <1>2 DEF WriteDirectory
<1>3. CASE PowerLoss
    BY <1>3 DEF PowerLoss
<1>4. CASE UNCHANGED vars
    BY <1>4 DEF vars
<1>. QED
    BY <1>1, <1>2, <1>3, <1>4 DEF Next

(* What is live stays whole and on the disk: only os.replace makes a file   *)
(* live, after fsync, and nobody writes into a live file.                   *)
LEMMA WholeStep == IInv /\ [Next]_vars => NeverTorn' /\ OnDisk'
<1>. SUFFICES ASSUME IInv, [Next]_vars
              PROVE  NeverTorn' /\ OnDisk'
    OBVIOUS
<1>. USE DEF IInv, TypeOK, Saving, NeverTorn, OnDisk, At, Goto, Return, directory, reading
<1>1. ASSUME NEW p \in Procs, Step(p) PROVE NeverTorn' /\ OnDisk'
    <2>1. CASE OpenFile(p)
        BY <2>1 DEF OpenFile
    <2>2. CASE FindNoFile(p) \/ ReadFile(p) \/ ReadFails(p)
        BY <2>2 DEF FindNoFile, ReadFile, ReadFails
    <2>3. CASE BeginSave(p) \/ MakeTempFails(p) \/ Raise(p) \/ Unlink(p) \/ Sync(p)
        BY <2>3 DEF BeginSave, MakeTempFails, Raise, Unlink, Sync
    <2>4. CASE MakeTemp(p)
        <3>1. PICK f \in Files \ InUse :
                 data' = [data EXCEPT ![f] = Empty] /\ synced' = synced \ {f}
            BY <2>4 DEF MakeTemp
        <3>. QED
            BY <2>4, <3>1, FreshFile DEF MakeTemp
    <2>5. CASE WriteSome(p) \/ WriteAll(p)
        <3>1. tmp[p] # NoFile /\ tmp[p] # entry /\ tmp[p] # stable
            BY <2>5 DEF WriteSome, WriteAll, Progressed, TempsAreOwned
        <3>2. \A q \in Procs : tmp[p] # held[q]
            BY <3>1 DEF TempsAreOwned
        <3>. QED
            BY <2>5, <3>1, <3>2 DEF WriteSome, WriteAll, Put
    <2>6. CASE Replace(p)
        <3>1. tmp[p] \in synced /\ data[tmp[p]] = payload[p] /\ payload[p] \in Payloads
            BY <2>6 DEF Replace, Progressed
        <3>. QED
            BY <2>6, <3>1 DEF Replace
    <2>7. CASE Vanish(p)
        BY <2>7 DEF Vanish
    <2>. QED
        BY <1>1, <2>1, <2>2, <2>3, <2>4, <2>5, <2>6, <2>7 DEF Step, Interrupt, Kill
<1>2. CASE WriteDirectory
    BY <1>2 DEF WriteDirectory
<1>3. CASE PowerLoss
    <2>1. PICK lost \in SUBSET (InUse \ synced) :
             data' = [f \in Files |-> IF f \in lost THEN Torn ELSE data[f]]
        BY <1>3 DEF PowerLoss
    <2>2. stable # NoFile => data'[stable] = data[stable]
        BY <2>1
    <2>. QED
        BY <1>3, <2>2 DEF PowerLoss
<1>4. CASE UNCHANGED vars
    BY <1>4 DEF vars
<1>. QED
    BY <1>1, <1>2, <1>3, <1>4 DEF Next

(* Every save moves on from what the step before left it. *)
LEMMA ProgressStep == IInv /\ [Next]_vars => \A q \in Procs : Progressed(q)'
<1>. SUFFICES ASSUME IInv, [Next]_vars, NEW q \in Procs
              PROVE  Progressed(q)'
    OBVIOUS
<1>. USE DEF IInv, TypeOK, Saving, Progressed, At, Goto, Return, directory, reading
<1>1. ASSUME NEW p \in Procs, Step(p) PROVE Progressed(q)'
    <2>1. CASE OpenFile(p)
        BY <2>1, NoFileAssumption DEF OpenFile
    <2>2. CASE FindNoFile(p)
        BY <2>2 DEF FindNoFile
    <2>3. CASE ReadFile(p) \/ ReadFails(p)
        BY <2>3 DEF ReadFile, ReadFails
    <2>4. CASE BeginSave(p) \/ MakeTempFails(p)
        BY <2>4, NothingAssumption DEF BeginSave, MakeTempFails
    <2>5. CASE MakeTemp(p)
        <3>1. PICK f \in Files \ InUse :
                 /\ tmp' = [tmp EXCEPT ![p] = f]
                 /\ data' = [data EXCEPT ![f] = Empty]
                 /\ synced' = synced \ {f}
            BY <2>5 DEF MakeTemp
        <3>2. f # NoFile /\ tmp[q] # f
            BY FreshFile
        <3>3. pc' = [pc EXCEPT ![p] = "write"] /\ UNCHANGED <<payload, held, got>>
            BY <2>5 DEF MakeTemp
        <3>4. CASE q = p
            BY <2>5, <3>1, <3>2, <3>3, <3>4 DEF MakeTemp
        <3>5. CASE q # p
            BY <3>1, <3>2, <3>3, <3>5
        <3>. QED
            BY <3>4, <3>5
    <2>6. CASE WriteSome(p) \/ WriteAll(p)
        <3>1. q # p => tmp[q] # tmp[p]
            BY <2>6 DEF WriteSome, WriteAll, TempsAreOwned
        <3>2. tmp[p] \in Files
            BY <2>6 DEF WriteSome, WriteAll
        <3>3. CASE q = p
            BY <2>6, <3>2, <3>3 DEF WriteSome, WriteAll, Put
        <3>4. CASE q # p
            BY <2>6, <3>1, <3>4 DEF WriteSome, WriteAll, Put
        <3>. QED
            BY <3>3, <3>4
    <2>7. CASE Sync(p)
        BY <2>7 DEF Sync
    <2>8. CASE Replace(p) \/ Raise(p)
        BY <2>8 DEF Replace, Raise
    <2>9. CASE Unlink(p)
        BY <2>9 DEF Unlink
    <2>10. CASE Vanish(p)
        BY <2>10 DEF Vanish
    <2>. QED
        BY <1>1, <2>1, <2>2, <2>3, <2>4, <2>5, <2>6, <2>7, <2>8, <2>9, <2>10
        DEF Step, Interrupt, Kill
<1>2. CASE WriteDirectory
    BY <1>2 DEF WriteDirectory
<1>3. CASE PowerLoss
    BY <1>3 DEF PowerLoss
<1>4. CASE UNCHANGED vars
    BY <1>4 DEF vars
<1>. QED
    BY <1>1, <1>2, <1>3, <1>4 DEF Next

LEMMA Initially == Init => IInv
BY NoFileAssumption
DEF Init, IInv, TypeOK, NeverTorn, TempsAreOwned, OnDisk, Progressed, Saving

LEMMA Inductive == IInv /\ [Next]_vars => IInv'
<1>. SUFFICES ASSUME IInv, [Next]_vars
              PROVE  IInv'
    OBVIOUS
<1>. QED
    BY TypeStep, OwnedStep, WholeStep, ProgressStep DEF IInv

-----------------------------------------------------------------------------
(* The invariants hold in every behaviour. *)
THEOREM InvariantHolds == Spec => []IInv
BY Initially, Inductive, PTL DEF Spec

(* Every variable keeps its type. *)
THEOREM TypeCorrect == Spec => []TypeOK
<1>1. IInv => TypeOK
    BY DEF IInv
<1>. QED
    BY <1>1, InvariantHolds, PTL

(* The file is never half-written, whatever goes wrong and whenever. *)
THEOREM FileIsNeverTorn == Spec => []NeverTorn
<1>1. IInv => NeverTorn
    BY DEF IInv
<1>. QED
    BY <1>1, InvariantHolds, PTL

(* No two saves share a temporary file, and none is live. *)
THEOREM TempsHaveOneOwner == Spec => []TempsAreOwned
<1>1. IInv => TempsAreOwned
    BY DEF IInv
<1>. QED
    BY <1>1, InvariantHolds, PTL

-----------------------------------------------------------------------------
(* The refinement.  Nothing that the abstract file shows changes when the   *)
(* data of a file nobody has open and no name refers to is changed.         *)
LEMMA UnseenData ==
    ASSUME IInv, NEW f \in Files, f # entry, f # stable, \A q \in Procs : held[q] # f,
           NEW content, data' = [data EXCEPT ![f] = content],
           UNCHANGED <<directory, payload, reading>>
    PROVE  UNCHANGED File!fileVars
<1>1. Content(entry)' = Content(entry) /\ Content(stable)' = Content(stable)
    BY DEF Content, directory, IInv, TypeOK
<1>2. Loaded' = Loaded
    BY DEF Loaded, reading, IInv, TypeOK
<1>. QED
    BY <1>1, <1>2 DEF File!fileVars

LEMMA RefinesInit == Init => File!Init
BY DEF Init, File!Init, Content, Loaded

LEMMA RefinesStep == IInv /\ [Next]_vars => [File!Next]_(File!fileVars)
<1>. SUFFICES ASSUME IInv, [Next]_vars
              PROVE  File!Next \/ UNCHANGED File!fileVars
    BY DEF File!fileVars
<1>. USE DEF IInv, TypeOK, Saving, At, Goto, Return, directory, reading, Content, Loaded
<1>1. ASSUME NEW p \in Procs, Step(p) PROVE File!Next \/ UNCHANGED File!fileVars
    <2>1. CASE OpenFile(p)
        <3>1. File!Read(p)
            BY <2>1, NoFileAssumption DEF OpenFile, File!Read
        <3>. QED
            BY <3>1 DEF File!Next
    <2>2. CASE FindNoFile(p)
        <3>1. held[p] = NoFile
            BY <2>2 DEF FindNoFile, Progressed
        <3>2. File!Read(p)
            BY <2>2, <3>1 DEF FindNoFile, File!Read
        <3>. QED
            BY <3>2 DEF File!Next
    <2>3. CASE ReadFile(p)
        <3>1. held[p] # NoFile /\ data[held[p]] \in Payloads
            BY <2>3 DEF ReadFile, Progressed, NeverTorn
        <3>. QED
            BY <2>3, <3>1 DEF ReadFile, File!fileVars
    <2>4. CASE ReadFails(p)
        <3>1. payload[p] = Nothing
            BY <2>4 DEF ReadFails, Progressed
        <3>2. File!Abandon(p)
            BY <2>4, <3>1 DEF ReadFails, File!Abandon
        <3>. QED
            BY <3>2 DEF File!Next
    <2>5. CASE BeginSave(p)
        <3>1. payload[p] = Nothing
            BY <2>5 DEF BeginSave, Progressed
        <3>2. \E v \in Payloads : File!Begin(p, v)
            BY <2>5, <3>1 DEF BeginSave, File!Begin
        <3>. QED
            BY <3>2 DEF File!Next
    <2>6. CASE MakeTemp(p)
        <3>1. PICK f \in Files \ InUse : data' = [data EXCEPT ![f] = Empty]
            BY <2>6 DEF MakeTemp
        <3>2. UNCHANGED <<directory, payload, reading>>
            BY <2>6 DEF MakeTemp
        <3>. QED
            BY <3>1, <3>2, FreshFile, UnseenData
    <2>7. CASE WriteSome(p) \/ WriteAll(p)
        <3>1. tmp[p] \in Files /\ tmp[p] # entry /\ tmp[p] # stable
            BY <2>7 DEF WriteSome, WriteAll, Progressed, TempsAreOwned
        <3>2. \A q \in Procs : held[q] # tmp[p]
            BY <3>1, NoFileAssumption DEF TempsAreOwned
        <3>3. UNCHANGED <<directory, payload, reading>>
            BY <2>7 DEF WriteSome, WriteAll
        <3>4. PICK content : data' = [data EXCEPT ![tmp[p]] = content]
            BY <2>7 DEF WriteSome, WriteAll, Put
        <3>. QED
            BY <3>1, <3>2, <3>3, <3>4, UnseenData
    <2>8. CASE Sync(p) \/ Raise(p)
        BY <2>8 DEF Sync, Raise, File!fileVars
    <2>9. CASE Replace(p)
        <3>1. payload[p] # Nothing /\ tmp[p] # NoFile /\ data[tmp[p]] = payload[p]
            BY <2>9 DEF Replace, Progressed
        <3>2. File!Commit(p)
            BY <2>9, <3>1 DEF Replace, File!Commit
        <3>. QED
            BY <3>2 DEF File!Next
    <2>10. CASE MakeTempFails(p) \/ Unlink(p)
        <3>1. File!Abandon(p)
            BY <2>10 DEF MakeTempFails, Unlink, File!Abandon
        <3>. QED
            BY <3>1 DEF File!Next
    <2>11. CASE Vanish(p)
        <3>1. File!Abandon(p)
            BY <2>11 DEF Vanish, File!Abandon
        <3>. QED
            BY <3>1 DEF File!Next
    <2>. QED
        BY <1>1, <2>1, <2>2, <2>3, <2>4, <2>5, <2>6, <2>7, <2>8, <2>9, <2>10, <2>11
        DEF Step, Interrupt, Kill
<1>2. CASE WriteDirectory
    <2>1. File!Settle
        BY <1>2 DEF WriteDirectory, File!Settle
    <2>. QED
        BY <2>1 DEF File!Next
<1>3. CASE PowerLoss
    <2>1. PICK lost \in SUBSET (InUse \ synced) :
             data' = [f \in Files |-> IF f \in lost THEN Torn ELSE data[f]]
        BY <1>3 DEF PowerLoss
    <2>2. stable # NoFile => data'[stable] = data[stable]
        BY <2>1 DEF OnDisk
    <2>3. File!PowerLoss
        BY <1>3, <2>2 DEF PowerLoss, File!PowerLoss
    <2>. QED
        BY <2>3 DEF File!Next
<1>4. CASE UNCHANGED vars
    BY <1>4 DEF vars, File!fileVars
<1>. QED
    BY <1>1, <1>2, <1>3, <1>4 DEF Next

(* Every save is atomic and every load returns what one of them saved,      *)
(* whole.                                                                   *)
THEOREM SavesAreAtomic == Spec => ImplementsAtomicFile
<1>1. Spec => File!Init /\ [][File!Next]_(File!fileVars)
    BY RefinesInit, RefinesStep, InvariantHolds, PTL DEF Spec
<1>. QED
    BY <1>1 DEF ImplementsAtomicFile, File!Spec

=============================================================================
