------------------------- MODULE ModelProfilesProofs -------------------------
(***************************************************************************)
(* Proofs about ModelProfiles, for every set of processes and profiles.    *)
(*                                                                         *)
(* The inductive invariant is local: what a process holds in memory is     *)
(* Coherent with its label, and models.json flags at most one profile,     *)
(* whichever process saved it last.  Each step is summarised by Moves: the *)
(* values it leaves its process with, and that the file is either as it    *)
(* was or what the process now holds.  StepMoves shows that every action   *)
(* is such a move to coherent values, MovePreserves that such a move keeps *)
(* the invariant.                                                          *)
(***************************************************************************)
EXTENDS ModelProfiles, WellFoundedInduction, SequenceTheorems, TLAPS

-----------------------------------------------------------------------------
(* The registries, and what the operations on them do. *)

(* A nonempty set of naturals has its minimum. *)
LEMMA LeastIsThere ==
    ASSUME NEW S \in SUBSET Nat, S # {}
    PROVE  Min(S) \in S
<1>0. S \subseteq Nat
    OBVIOUS
<1>1. PICK n \in S : \A m \in S : ~ (<<m, n>> \in OpToRel(<, Nat))
    BY <1>0, NatLessThanWellFounded, WFMin
<1>2. ASSUME NEW m \in S PROVE n =< m
    <2>1. ~ (m < n)
        BY <1>0, <1>1 DEF OpToRel
    <2>. QED
        BY <1>0, <2>1
<1>. QED
    BY <1>2 DEF Min

(* What models.json and a manager hold: the dict's keys in order, each once, *)
(* and flags on some of them.                                                *)
Registry ==
    {r \in [order : Seq(Ids), flagged : SUBSET Ids] :
        IsInjective(r.order) /\ r.flagged \subseteq IdsOf(r)}

(* What load_profiles takes for the active profile is a flagged one. *)
LEMMA FirstFlagged ==
    ASSUME NEW r \in Registry, r.flagged # {}
    PROVE  Flagged(r) \in r.flagged
<1>1. r.order \in Seq(Ids) /\ r.flagged \subseteq IdsOf(r)
    BY DEF Registry
<1>. DEFINE I == {n \in 1 .. Len(r.order) : r.order[n] \in r.flagged}
<1>2. I # {} /\ I \in SUBSET Nat
    BY <1>1 DEF IdsOf, Range
<1>3. SelectInSeq(r.order, LAMBDA i : i \in r.flagged) = Min(I)
    BY <1>2 DEF SelectInSeq
<1>. QED
    BY <1>2, <1>3, LeastIsThere DEF Flagged

(* Deleting a key of a dict deletes that key only, and leaves the others once. *)
LEMMA Removed ==
    ASSUME NEW s \in Seq(Ids), IsInjective(s), NEW i \in Ids
    PROVE  /\ RemoveFirst(s, i) \in Seq(Ids)
           /\ IsInjective(RemoveFirst(s, i))
           /\ Range(RemoveFirst(s, i)) = Range(s) \ {i}
<1>1. CASE i \notin Range(s)
    <2>1. RemoveFirst(s, i) = s
        BY <1>1 DEF RemoveFirst, SelectInSeq, Range
    <2>. QED
        BY <1>1, <2>1
<1>2. CASE i \in Range(s)
    <2>. DEFINE I == {n \in 1 .. Len(s) : s[n] = i}
                k == Min(I)
                t == RemoveFirst(s, i)
                before == SubSeq(s, 1, k - 1)
                after == SubSeq(s, k + 1, Len(s))
    <2>1. I # {} /\ I \in SUBSET Nat
        BY <1>2 DEF Range
    <2>2. k \in 1 .. Len(s) /\ s[k] = i
        BY <2>1, LeastIsThere
    <2>3. t = before \o after
        BY <2>1 DEF RemoveFirst, RemoveAt, SelectInSeq
    <2>. HIDE DEF I, k, t
    <2>4. /\ before \in Seq(Ids) /\ Len(before) = k - 1
          /\ \A n \in 1 .. k - 1 : before[n] = s[n]
          /\ after \in Seq(Ids) /\ Len(after) = Len(s) - k
          /\ \A n \in 1 .. Len(s) - k : after[n] = s[k + n]
        BY <2>2
    <2>. HIDE DEF before, after
    <2>5. Len(s) \in Nat /\ k \in Nat
        BY <2>2
    <2>6. /\ t \in Seq(Ids)
          /\ Len(t) = Len(before) + Len(after)
          /\ \A n \in 1 .. Len(before) + Len(after) :
                t[n] = IF n <= Len(before) THEN before[n] ELSE after[n - Len(before)]
        BY <2>3, <2>4, ConcatProperties
    <2>7. t \in Seq(Ids) /\ Len(t) = Len(s) - 1
        BY <2>2, <2>4, <2>5, <2>6
    <2>8. ASSUME NEW n \in 1 .. Len(t)
          PROVE  t[n] = s[IF n < k THEN n ELSE n + 1]
        <3>1. t[n] = IF n <= k - 1 THEN before[n] ELSE after[n - (k - 1)]
            <4>1. n \in 1 .. Len(before) + Len(after)
                BY <2>6
            <4>2. t[n] = IF n <= Len(before) THEN before[n] ELSE after[n - Len(before)]
                BY <4>1, <2>6
            <4>. QED
                BY <2>4, <4>2
        <3>2. CASE n < k
            <4>1. n \in 1 .. k - 1
                BY <2>5, <3>2
            <4>. QED
                BY <2>4, <3>1, <3>2, <4>1
        <3>3. CASE ~ (n < k)
            <4>1. /\ n - (k - 1) \in 1 .. Len(s) - k /\ k + (n - (k - 1)) = n + 1
                  /\ ~ (n <= k - 1)
                BY <2>2, <2>7, <2>5, <3>3
            <4>2. after[n - (k - 1)] = s[n + 1]
                BY <2>4, <4>1
            <4>. QED
                BY <3>1, <3>3, <4>1, <4>2
        <3>. QED
            BY <3>2, <3>3
    <2>9. IsInjective(t)
        <3>1. ASSUME NEW m \in 1 .. Len(t), NEW n \in 1 .. Len(t), t[m] = t[n]
              PROVE  m = n
            <4>1. (IF m < k THEN m ELSE m + 1) = (IF n < k THEN n ELSE n + 1)
                BY <2>2, <2>7, <2>8, <3>1 DEF IsInjective
            <4>. QED
                BY <2>2, <4>1
        <3>. QED
            BY <2>7, <3>1 DEF IsInjective
    <2>10. Range(t) = Range(s) \ {i}
        <3>1. ASSUME NEW n \in 1 .. Len(s), s[n] # i PROVE s[n] \in Range(t)
            <4>1. CASE n < k
                BY <2>2, <2>7, <2>8, <3>1, <4>1 DEF Range
            <4>2. CASE n > k
                <5>1. n - 1 \in 1 .. Len(t) /\ t[n - 1] = s[n]
                    BY <2>2, <2>7, <2>8, <4>2
                <5>. QED
                    BY <2>7, <5>1 DEF Range
            <4>. QED
                BY <2>2, <3>1, <4>1, <4>2
        <3>2. ASSUME NEW n \in 1 .. Len(t) PROVE t[n] \in Range(s) \ {i}
            BY <2>2, <2>7, <2>8, <3>2 DEF IsInjective, Range
        <3>. QED
            BY <2>7, <3>1, <3>2 DEF Range
    <2>. QED
        BY <2>7, <2>9, <2>10 DEF t
<1>. QED
    BY <1>1, <1>2

(* What storing, deleting and flagging profile i makes of a registry. *)
LEMMA RegistryOps ==
    ASSUME NEW r \in Registry, NEW i \in Ids
    PROVE  /\ IdsOf(r) \subseteq Ids /\ (r.order = <<>> <=> IdsOf(r) = {})
           /\ r.order # <<>> => Head(r.order) \in IdsOf(r)
           /\ Stored(r, i) \in Registry /\ IdsOf(Stored(r, i)) = IdsOf(r) \cup {i}
           /\ Stored(r, i).flagged = r.flagged \ {i}
           /\ Deleted(r, i) \in Registry /\ IdsOf(Deleted(r, i)) = IdsOf(r) \ {i}
           /\ Deleted(r, i).flagged = r.flagged \ {i}
           /\ IdsOf(FlaggedOnly(r, i)) = IdsOf(r) /\ FlaggedOnly(r, i).flagged = {i}
           /\ i \in IdsOf(r) => FlaggedOnly(r, i) \in Registry
<1>1. /\ r = [order |-> r.order, flagged |-> r.flagged]
      /\ r.order \in Seq(Ids) /\ IsInjective(r.order)
      /\ r.flagged \subseteq IdsOf(r)
    BY DEF Registry
<1>2. IdsOf(r) \subseteq Ids
    BY <1>1 DEF IdsOf, Range
<1>3. r.order # <<>> => Head(r.order) \in IdsOf(r)
    BY <1>1 DEF IdsOf, Range
<1>4. r.order = <<>> => IdsOf(r) = {}
    BY DEF IdsOf, Range
<1>5. ASSUME i \notin IdsOf(r)
      PROVE  /\ Append(r.order, i) \in Seq(Ids) /\ IsInjective(Append(r.order, i))
             /\ Range(Append(r.order, i)) = IdsOf(r) \cup {i}
    BY <1>1, <1>5, AppendProperties DEF IdsOf, Range, IsInjective
<1>6. /\ Stored(r, i) \in Registry /\ IdsOf(Stored(r, i)) = IdsOf(r) \cup {i}
      /\ Stored(r, i).flagged = r.flagged \ {i}
    BY <1>1, <1>2, <1>5 DEF Stored, Registry, IdsOf
<1>7. /\ Deleted(r, i) \in Registry /\ IdsOf(Deleted(r, i)) = IdsOf(r) \ {i}
      /\ Deleted(r, i).flagged = r.flagged \ {i}
    BY <1>1, <1>2, Removed DEF Deleted, Registry, IdsOf
<1>8. /\ IdsOf(FlaggedOnly(r, i)) = IdsOf(r) /\ FlaggedOnly(r, i).flagged = {i}
      /\ i \in IdsOf(r) => FlaggedOnly(r, i) \in Registry
    BY <1>1, <1>2 DEF FlaggedOnly, Registry, IdsOf
<1>. QED
    BY <1>2, <1>3, <1>4, <1>6, <1>7, <1>8

(* The registry of a process that has loaded nothing is a registry. *)
LEMMA NoProfilesType ==
    NoProfiles \in Registry /\ IdsOf(NoProfiles) = {} /\ NoProfiles.flagged = {}
BY DEF NoProfiles, Registry, IdsOf, Range, IsInjective

-----------------------------------------------------------------------------
(* The inductive invariant. *)
Labels == {"off", "init", "ready", "select", "deleted", "done"}
MaybeId == Ids \cup {NoId}

Typed ==
    /\ file \in Registry
    /\ profiles \in [Procs -> Registry]
    /\ active \in [Procs -> MaybeId]
    /\ pc \in [Procs -> Labels]
    /\ want \in [Procs -> MaybeId]
    /\ chosen \in MaybeId

(* What a process with profiles r, active profile a and added profile w   *)
(* has to be like at label l.                                             *)
Coherent(r, a, l, w) ==
    /\ a # NoId => a \in IdsOf(r)
    /\ l \in {"ready", "done"} /\ a = NoId => r.order = <<>>
    /\ l = "select" => w \in IdsOf(r)
    /\ r.flagged \subseteq {a}

(* S has at most one element. *)
AtMostOne(S) == \A i, j \in S : i = j

IInv ==
    /\ Typed
    /\ AtMostOne(file.flagged)
    /\ \A p \in Procs : Coherent(profiles[p], active[p], pc[p], want[p])

(* A step of p that leaves it with r, a, l and w, and changes no other. *)
Moves(p, r, a, l, w) ==
    /\ profiles' = [profiles EXCEPT ![p] = r]
    /\ active' = [active EXCEPT ![p] = a]
    /\ pc' = [pc EXCEPT ![p] = l]
    /\ want' = [want EXCEPT ![p] = w]
    /\ file' \in {file, r}
    /\ chosen' \in MaybeId

(* A move to coherent values keeps the invariant: the other processes are as *)
(* they were, and the file has the flags it had or the mover's.              *)
LEMMA MovePreserves ==
    ASSUME IInv, NEW p \in Procs,
           NEW r \in Registry, NEW a \in MaybeId, NEW l \in Labels, NEW w \in MaybeId,
           Moves(p, r, a, l, w), Coherent(r, a, l, w), AtMostOne(r.flagged)
    PROVE  IInv'
<1>1. Typed'
    BY DEF Moves, IInv, Typed
<1>2. AtMostOne(file.flagged)'
    BY DEF Moves, IInv, AtMostOne
<1>3. ASSUME NEW q \in Procs PROVE Coherent(profiles[q], active[q], pc[q], want[q])'
    <2>1. CASE q = p
        <3>1. profiles'[q] = r /\ active'[q] = a /\ pc'[q] = l /\ want'[q] = w
            BY <2>1 DEF Moves, IInv, Typed
        <3>. QED
            BY <3>1 DEF Coherent
    <2>2. CASE q # p
        <3>1. /\ profiles'[q] = profiles[q] /\ active'[q] = active[q]
              /\ pc'[q] = pc[q] /\ want'[q] = want[q]
            BY <2>2 DEF Moves, IInv, Typed
        <3>. QED
            BY <3>1 DEF Coherent, IInv
    <2>. QED
        BY <2>1, <2>2
<1>. QED
    BY <1>1, <1>2, <1>3 DEF IInv

(* Every action of a process is a move to coherent values. *)
LEMMA StepMoves ==
    ASSUME IInv, NEW p \in Procs, Step(p)
    PROVE  \E r \in Registry, a \in MaybeId, l \in Labels, w \in MaybeId :
              Moves(p, r, a, l, w) /\ Coherent(r, a, l, w)
<1>. DEFINE Goal == \E r \in Registry, a \in MaybeId, l \in Labels, w \in MaybeId :
                       Moves(p, r, a, l, w) /\ Coherent(r, a, l, w)
<1>1. /\ file \in Registry /\ profiles[p] \in Registry
      /\ active[p] \in MaybeId /\ pc[p] \in Labels /\ want[p] \in MaybeId /\ chosen \in MaybeId
      /\ Coherent(profiles[p], active[p], pc[p], want[p])
      /\ AtMostOne(file.flagged)
    BY DEF IInv, Typed
<1>2. /\ profiles = [profiles EXCEPT ![p] = profiles[p]]
      /\ active = [active EXCEPT ![p] = active[p]]
      /\ want = [want EXCEPT ![p] = want[p]]
    BY DEF IInv, Typed
<1>. USE <1>1, <1>2
<1>3. CASE Start(p)
    <2>1. PICK r \in {file, NoProfiles} :
             profiles' = [profiles EXCEPT ![p] = r] /\ active' = [active EXCEPT ![p] = Flagged(r)]
        BY <1>3 DEF Start, Keep
    <2>2. r \in Registry /\ AtMostOne(r.flagged)
        BY NoProfilesType DEF AtMostOne
    <2>3. Flagged(r) \in MaybeId /\ (Flagged(r) # NoId => Flagged(r) \in IdsOf(r)) /\ r.flagged \subseteq {Flagged(r)}
        <3>1. CASE r.flagged = {}
            BY <3>1 DEF Flagged, MaybeId
        <3>2. CASE r.flagged # {}
            BY <2>2, <3>2, FirstFlagged DEF Registry, AtMostOne, MaybeId
        <3>. QED
            BY <3>1, <3>2
    <2>4. Moves(p, r, Flagged(r), "init", want[p])
        BY <1>3, <2>1 DEF Start, Moves, Goto
    <2>5. Coherent(r, Flagged(r), "init", want[p])
        BY <2>3 DEF Coherent
    <2>. QED
        BY <2>2, <2>3, <2>4, <2>5 DEF Labels
<1>4. ASSUME NEW i \in IdsOf(profiles[p]), NEW l \in Labels, NEW w \in MaybeId,
             Activate(p, i), Goto(p, l), l # "select",
             want' = [want EXCEPT ![p] = w], chosen' \in MaybeId
      PROVE  Goal
    <2>1. i \in Ids
        BY DefaultAssumption, RegistryOps
    <2>2. FlaggedOnly(profiles[p], i) \in Registry
        BY <2>1, RegistryOps
    <2>3. Moves(p, FlaggedOnly(profiles[p], i), i, l, w)
        BY <1>4 DEF Moves, Activate, KeepAndSave, Keep, Save, Goto
    <2>4. Coherent(FlaggedOnly(profiles[p], i), i, l, w)
        BY <1>4, <2>1, RegistryOps, NoIdAssumption DEF Coherent
    <2>. QED
        BY <2>1, <2>2, <2>3, <2>4 DEF MaybeId
<1>5. CASE AutoActivateFirst(p)
    <2>1. PICK l \in {"ready", "done"} : Goto(p, l)
        BY <1>5 DEF AutoActivateFirst, After
    <2>2. CASE profiles[p].order # <<>> /\ active[p] = NoId
        <3>1. Head(profiles[p].order) \in IdsOf(profiles[p])
            BY <2>2, DefaultAssumption, RegistryOps
        <3>. QED
            BY <1>4, <1>5, <2>1, <2>2, <3>1 DEF AutoActivateFirst, Labels
    <2>3. CASE ~ (profiles[p].order # <<>> /\ active[p] = NoId)
        <3>1. Moves(p, profiles[p], active[p], l, want[p])
            BY <1>5, <2>1, <2>3 DEF AutoActivateFirst, Moves, Goto
        <3>2. Coherent(profiles[p], active[p], l, want[p])
            BY <2>1, <2>3 DEF Coherent
        <3>. QED
            BY <2>1, <3>1, <3>2 DEF Labels
    <2>. QED
        BY <2>2, <2>3
<1>6. ASSUME NEW i \in Ids, KeepAndSave(p, Stored(profiles[p], i)), pc[p] = "ready", UNCHANGED <<active, chosen>>,
             \/ Goto(p, "select") /\ want' = [want EXCEPT ![p] = i]
             \/ Goto(p, "done") /\ UNCHANGED want /\ active[p] # NoId
      PROVE  Goal
    <2>1. PICK l \in {"select", "done"}, w \in MaybeId :
             /\ Goto(p, l) /\ want' = [want EXCEPT ![p] = w]
             /\ l = "select" => w = i
             /\ l = "done" => active[p] # NoId
        BY <1>6 DEF MaybeId
    <2>2. Moves(p, Stored(profiles[p], i), active[p], l, w)
        BY <1>6, <2>1 DEF Moves, KeepAndSave, Keep, Save, Goto
    <2>3. /\ Stored(profiles[p], i) \in Registry
          /\ IdsOf(Stored(profiles[p], i)) = IdsOf(profiles[p]) \cup {i}
          /\ Stored(profiles[p], i).flagged = profiles[p].flagged \ {i}
        BY RegistryOps
    <2>4. Coherent(Stored(profiles[p], i), active[p], l, w)
        BY <2>1, <2>3 DEF Coherent
    <2>. QED
        BY <2>1, <2>2, <2>3, <2>4 DEF Labels
<1>7. ASSUME NEW i \in Ids, AddModel(p, i) PROVE Goal
    BY <1>6, <1>7 DEF AddModel
<1>8. CASE SaveLlm(p)
    BY <1>6, <1>8, DefaultAssumption DEF SaveLlm
<1>9. CASE SelectAdded(p)
    <2>1. want[p] \in IdsOf(profiles[p])
        BY <1>9 DEF SelectAdded, Coherent
    <2>. QED
        BY <1>4, <1>9, <2>1 DEF SelectAdded, Labels, MaybeId
<1>10. ASSUME NEW i \in Ids, SelectModel(p, i) PROVE Goal
    BY <1>4, <1>10 DEF SelectModel, Labels, MaybeId
<1>11. ASSUME NEW i \in Ids, DeleteModel(p, i) PROVE Goal
    <2>1. PICK l \in {"deleted", "done"}, a \in MaybeId :
             /\ Goto(p, l) /\ active' = [active EXCEPT ![p] = a]
             /\ l = "deleted" => a = NoId
             /\ l = "done" => a = active[p]
             /\ a = IF active[p] = i THEN NoId ELSE active[p]
        BY <1>11 DEF DeleteModel, MaybeId
    <2>2. Moves(p, Deleted(profiles[p], i), a, l, want[p])
        BY <1>11, <2>1 DEF DeleteModel, Moves, KeepAndSave, Keep, Save, Goto, MaybeId
    <2>3. /\ Deleted(profiles[p], i) \in Registry
          /\ IdsOf(Deleted(profiles[p], i)) = IdsOf(profiles[p]) \ {i}
          /\ Deleted(profiles[p], i).flagged = profiles[p].flagged \ {i}
        BY RegistryOps
    <2>4. active[p] # NoId
        <3>1. i \in IdsOf(profiles[p]) /\ pc[p] = "ready"
            BY <1>11 DEF DeleteModel
        <3>2. profiles[p].order # <<>>
            BY <3>1, RegistryOps
        <3>. QED
            BY <3>1, <3>2 DEF Coherent
    <2>5. Coherent(Deleted(profiles[p], i), a, l, want[p])
        <3>1. CASE active[p] = i
            BY <2>1, <2>3, <2>4, <3>1 DEF Coherent
        <3>2. CASE active[p] # i
            BY <2>1, <2>3, <2>4, <3>2 DEF Coherent
        <3>. QED
            BY <3>1, <3>2
    <2>. QED
        BY <2>1, <2>2, <2>3, <2>5 DEF Labels
<1>12. CASE Stop(p)
    <2>1. Moves(p, NoProfiles, NoId, "off", NoId)
        BY <1>12 DEF Stop, Moves, Keep, Goto
    <2>2. Coherent(NoProfiles, NoId, "off", NoId)
        BY NoProfilesType DEF Coherent
    <2>. QED
        BY <2>1, <2>2, NoProfilesType DEF Labels, MaybeId
<1>. QED
    BY <1>3, <1>5, <1>7, <1>8, <1>9, <1>10, <1>11, <1>12 DEF Step

(* Every step keeps the invariant. *)
LEMMA StepPreserves == ASSUME IInv, [Next]_vars PROVE IInv'
<1>1. ASSUME NEW p \in Procs, Step(p) PROVE IInv'
    <2>1. PICK r \in Registry, a \in MaybeId, l \in Labels, w \in MaybeId :
             Moves(p, r, a, l, w) /\ Coherent(r, a, l, w)
        BY <1>1, StepMoves
    <2>2. AtMostOne(r.flagged)
        BY <2>1 DEF Coherent, AtMostOne
    <2>. QED
        BY <2>1, <2>2, MovePreserves
<1>2. CASE UNCHANGED vars
    BY <1>2 DEF vars, IInv, Typed
<1>. QED
    BY <1>1, <1>2 DEF Next

(* No process runs and models.json is missing: the invariant holds. *)
LEMMA InitIsCoherent == Init => IInv
<1>. SUFFICES ASSUME Init PROVE IInv
    OBVIOUS
<1>1. Typed
    BY NoProfilesType DEF Init, Typed, Labels, MaybeId
<1>2. AtMostOne(file.flagged)
    BY NoProfilesType DEF Init, AtMostOne
<1>3. ASSUME NEW p \in Procs PROVE Coherent(profiles[p], active[p], pc[p], want[p])
    BY NoProfilesType DEF Init, Coherent
<1>. QED
    BY <1>1, <1>2, <1>3 DEF IInv

(* The inductive invariant holds in every state of every behaviour. *)
THEOREM Invariance == Spec => []IInv
<1>. QED
    BY InitIsCoherent, StepPreserves, PTL DEF Spec

(* Every registry, in memory or in the file, is a dict that has a key once and *)
(* flags only profiles it has; the other variables keep their types.           *)
THEOREM ProfilesTyped == Spec => []TypeOK
<1>1. IInv => TypeOK
    <2>. SUFFICES ASSUME IInv PROVE TypeOK
        OBVIOUS
    <2>1. Registries \subseteq Registry
        BY DEF IInv, Typed, Registries
    <2>2. \A r \in Registry : IsInjective(r.order) /\ IdsOf(r) \subseteq Ids /\ r.flagged \subseteq IdsOf(r)
        BY DEF Registry, IdsOf, Range
    <2>. QED
        BY <2>1, <2>2 DEF TypeOK, IInv, Typed, Labels, MaybeId
<1>. QED
    BY <1>1, Invariance, PTL

(* However the processes interleave, fail to load or save, or are killed, one  *)
(* that has profiles has an active one among them once it is built and when it *)
(* is done (auto_activate_first, llm.py:80-84).                                *)
THEOREM ActiveWhileProfiles == Spec => []AModelIsActive
<1>1. IInv => AModelIsActive
    BY DEF IInv, Coherent, AModelIsActive
<1>. QED
    BY <1>1, Invariance, PTL

(* The is_active flags a process holds, and so those it saves, are on its *)
(* active profile only (llm.py:55, 73-76).                                *)
THEOREM FlagIsActive == Spec => []FlagFollowsActive
<1>1. IInv => FlagFollowsActive
    BY DEF IInv, Coherent, FlagFollowsActive
<1>. QED
    BY <1>1, Invariance, PTL

=============================================================================
