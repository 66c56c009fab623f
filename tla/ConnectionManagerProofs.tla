----------------------- MODULE ConnectionManagerProofs -----------------------
(***************************************************************************)
(* What ConnectionManager guarantees for any number of processes, profiles *)
(* and engines, whichever file operations fail.                            *)
(***************************************************************************)
EXTENDS ConnectionManager, WellFoundedInduction, TLAPS

(* The invariants the theorems establish are not inductive: they hold       *)
(* because of what a process holds at each label, which these say.          *)

(* The engines a process keeps open are exactly the ones its variables hold, *)
(* and a candidate or a previous engine is never the one in use.             *)
HoldsItsEngines(p) ==
    /\ live[p] = {engine[p], cand[p], prev[p]} \ {NoEngine}
    /\ cand[p] # NoEngine <=> pc[p] \in {"probe", "test"}
    /\ cand[p] # NoEngine => cand[p] # engine[p]
    /\ prev[p] # NoEngine => pc[p] = "release" /\ prev[p] # engine[p]
    /\ engine[p] = NoEngine <=> active[p] = NoConn
    /\ engine[p] # NoEngine => engine[p].of = active[p]
    /\ pc[p] = "off" => engine[p] = NoEngine

(* The profile being switched to is registered, the candidate is built from *)
(* it, and after the swap it is the active one.                             *)
KnowsItsTarget(p) ==
    /\ pc[p] \in {"create", "probe", "release", "persist"} => want[p] \in reg[p].ids
    /\ pc[p] = "probe" => cand[p].of = want[p]
    /\ pc[p] \in {"release", "persist"} => active[p] = want[p]
    /\ pc[p] = "persist" => then[p] # "ready"
    /\ active[p] # NoConn => active[p] \in reg[p].ids

(* The flag agrees with the active profile except between a swap and the   *)
(* _persist_active that follows; auto-connect goes for the flagged profile. *)
FlagFollows(p) ==
    /\ (pc[p] \in {"release", "persist"} => then[p] = "ready") /\ active[p] # NoConn =>
           reg[p].flagged \subseteq {active[p]}
    /\ pc[p] \in {"create", "probe"} /\ then[p] = "ready" =>
           reg[p].flagged \subseteq {want[p]}

IInv == /\ TypeOK
        /\ OneFlag
        /\ \A p \in Procs : HoldsItsEngines(p) /\ KnowsItsTarget(p) /\ FlagFollows(p)
-----------------------------------------------------------------------------
(* Every nonempty set of profiles has a first one. *)
LEMMA FirstOfProfiles ==
    ASSUME NEW S \in SUBSET Conns, S # {}
    PROVE  First(S) \in S
<1>1. S \subseteq Nat
    BY MaxProfilesAssumption DEF Conns
<1>2. PICK c \in S : \A d \in S : ~ (<<d, c>> \in OpToRel(<, Nat))
    BY <1>1, NatLessThanWellFounded, WFMin
<1>3. ASSUME NEW d \in S PROVE c <= d
    <2>1. c \in Nat /\ d \in Nat
        BY <1>1
    <2>2. ~ (d < c)
        BY <1>2, <2>1 DEF OpToRel
    <2>. QED
        BY <2>1, <2>2
<1>. QED
    BY <1>3 DEF First

(* What the operations of a registry return. *)
LEMMA RegistryOps ==
    ASSUME NEW r \in Registry, NEW c \in Conns
    PROVE  /\ r.ids \subseteq Conns
           /\ r.flagged \subseteq r.ids
           /\ Extended(r, c) \in Registry
           /\ Extended(r, c).ids = r.ids \cup {c}
           /\ Extended(r, c).flagged = r.flagged
           /\ Forgotten(r, c) \in Registry
           /\ Forgotten(r, c).ids = r.ids \ {c}
           /\ Forgotten(r, c).flagged = r.flagged \ {c}
           /\ FlaggedOnly(r, c).ids = r.ids
           /\ FlaggedOnly(r, c).flagged = {c}
           /\ c \in r.ids => FlaggedOnly(r, c) \in Registry
BY DEF Registry, Extended, Forgotten, FlaggedOnly

LEMMA NoProfilesType == NoProfiles \in Registry
BY DEF Registry, NoProfiles

(* Auto-connect goes for a registered profile, the flagged one if there is one. *)
LEMMA TargetOfRegistry ==
    ASSUME NEW r \in Registry, r.ids # {}
    PROVE  /\ Target(r) \in r.ids
           /\ (\A c, d \in r.flagged : c = d) => r.flagged \subseteq {Target(r)}
<1>1. r.ids \in SUBSET Conns /\ r.flagged \in SUBSET Conns /\ r.flagged \subseteq r.ids
    BY DEF Registry
<1>2. r.flagged # {} => First(r.flagged) \in r.flagged
    BY <1>1, FirstOfProfiles
<1>3. First(r.ids) \in r.ids
    BY <1>1, FirstOfProfiles
<1>. QED
    BY <1>1, <1>2, <1>3 DEF Target

-----------------------------------------------------------------------------
(* Every variable keeps its type, for any number of processes and profiles *)
(* and any failures.  The flag of a registry needs KnowsItsTarget: it is   *)
(* given to a registered profile only.                                     *)
LEMMA TypeStep == IInv /\ [Next]_vars => TypeOK'
<1>. SUFFICES ASSUME IInv, [Next]_vars
              PROVE  TypeOK'
    OBVIOUS
<1>. USE DEF IInv, TypeOK, Labels, AtRest, Goto, memory, switch
<1>1. ASSUME NEW p \in Procs, Start(p) PROVE TypeOK'
    <2>1. PICK r \in {file} \cup (IF "load" \in Faults THEN {NoProfiles} ELSE {}) :
             /\ reg' = [reg EXCEPT ![p] = r]
             /\ IF r.ids = {}
                   THEN Goto(p, "ready") /\ UNCHANGED <<want, then>>
                   ELSE BeginSwitch(p, Target(r), "ready")
        BY <1>1 DEF Start
    <2>2. r \in Registry
        BY NoProfilesType
    <2>3. CASE r.ids = {}
        BY <1>1, <2>1, <2>2, <2>3 DEF Start
    <2>4. CASE r.ids # {}
        <3>1. Target(r) \in Conns
            BY <2>2, <2>4, TargetOfRegistry DEF Registry
        <3>. QED
            BY <1>1, <2>1, <2>2, <2>4, <3>1 DEF Start, BeginSwitch
    <2>. QED
        BY <2>3, <2>4
<1>2. ASSUME NEW p \in Procs, Stop(p) PROVE TypeOK'
    BY <1>2, NoProfilesType DEF Stop
<1>3. ASSUME NEW p \in Procs, OpenRepl(p) PROVE TypeOK'
    BY <1>3 DEF OpenRepl
<1>4. ASSUME NEW p \in Procs, Create(p) PROVE TypeOK'
    BY <1>4 DEF Create, NewEngine, Engine
<1>5. ASSUME NEW p \in Procs, CannotCreate(p) PROVE TypeOK'
    BY <1>5 DEF CannotCreate, Return
<1>6. ASSUME NEW p \in Procs, ProbeFails(p) PROVE TypeOK'
    BY <1>6 DEF ProbeFails, Return
<1>7. ASSUME NEW p \in Procs, Swap(p) PROVE TypeOK'
    BY <1>7 DEF Swap
<1>8. ASSUME NEW p \in Procs, Release(p) PROVE TypeOK'
    BY <1>8 DEF Release, Return
<1>9. ASSUME NEW p \in Procs, Persist(p) PROVE TypeOK'
    <2>1. want[p] \in reg[p].ids /\ reg[p] \in Registry
        BY <1>9 DEF Persist, KnowsItsTarget
    <2>2. want[p] \in Conns /\ FlaggedOnly(reg[p], want[p]) \in Registry
        BY <2>1, RegistryOps DEF Registry
    <2>. QED
        BY <1>9, <2>2 DEF Persist, Return, Save
<1>10. ASSUME NEW p \in Procs, Use(p) PROVE TypeOK'
    <2>1. reg[p].ids \subseteq Conns
        BY DEF Registry
    <2>. QED
        BY <1>10, <2>1 DEF Use, BeginSwitch
<1>11. ASSUME NEW p \in Procs, SelectConn(p) PROVE TypeOK'
    <2>1. reg[p].ids \subseteq Conns
        BY DEF Registry
    <2>. QED
        BY <1>11, <2>1 DEF SelectConn, BeginSwitch
<1>12. ASSUME NEW p \in Procs, TestConn(p) PROVE TypeOK'
    BY <1>12 DEF TestConn, NewEngine, Engine
<1>13. ASSUME NEW p \in Procs, TestConnEnds(p) PROVE TypeOK'
    BY <1>13 DEF TestConnEnds
<1>14. ASSUME NEW p \in Procs, AddConn(p) PROVE TypeOK'
    <2>1. next \in Conns /\ next + 1 \in 1 .. MaxProfiles + 1
        BY <1>14, MaxProfilesAssumption DEF AddConn, Conns
    <2>2. Extended(reg[p], next) \in Registry
        BY <2>1, RegistryOps
    <2>. QED
        BY <1>14, <2>1, <2>2 DEF AddConn, BeginSwitch, Save
<1>15. ASSUME NEW p \in Procs, DeleteConn(p) PROVE TypeOK'
    <2>1. PICK c \in reg[p].ids :
             /\ reg' = [reg EXCEPT ![p] = Forgotten(reg[p], c)]
             /\ Save(Forgotten(reg[p], c))
             /\ DeleteActive(p, c)
             /\ saved' = saved \ {c}
             /\ chosen' = IF chosen = c THEN NoConn ELSE chosen
        BY <1>15 DEF DeleteConn
    <2>2. Forgotten(reg[p], c) \in Registry
        <3>1. c \in Conns
            BY DEF Registry
        <3>. QED
            BY <3>1, RegistryOps
    <2>. QED
        BY <1>15, <2>1, <2>2 DEF DeleteConn, DeleteActive, Save
<1>16. CASE UNCHANGED vars
    BY <1>16 DEF vars
<1>. QED
    BY <1>1, <1>2, <1>3, <1>4, <1>5, <1>6, <1>7, <1>8, <1>9, <1>10, <1>11, <1>12, <1>13, <1>14, <1>15, <1>16 DEF Next, Step

-----------------------------------------------------------------------------
(* A step of one process leaves what every other process holds alone. *)
Same(q) ==
    /\ reg'[q] = reg[q] /\ active'[q] = active[q] /\ engine'[q] = engine[q]
    /\ pc'[q] = pc[q] /\ want'[q] = want[q] /\ then'[q] = then[q]
    /\ cand'[q] = cand[q] /\ prev'[q] = prev[q] /\ live'[q] = live[q]

LEMMA StepIsLocal ==
    ASSUME TypeOK, NEW p \in Procs, NEW q \in Procs, q # p, Step(p)
    PROVE  Same(q)
<1>. USE DEF TypeOK, Same, Goto, Return, BeginSwitch, NewEngine, memory, switch
<1>1. CASE Start(p)
    BY <1>1 DEF Start
<1>2. CASE Stop(p)
    BY <1>2 DEF Stop
<1>3. CASE OpenRepl(p)
    BY <1>3 DEF OpenRepl
<1>4. CASE Create(p)
    BY <1>4 DEF Create
<1>5. CASE CannotCreate(p)
    BY <1>5 DEF CannotCreate
<1>6. CASE ProbeFails(p)
    BY <1>6 DEF ProbeFails
<1>7. CASE Swap(p)
    BY <1>7 DEF Swap
<1>8. CASE Release(p)
    BY <1>8 DEF Release
<1>9. CASE Persist(p)
    BY <1>9 DEF Persist
<1>10. CASE Use(p)
    BY <1>10 DEF Use
<1>11. CASE SelectConn(p)
    BY <1>11 DEF SelectConn
<1>12. CASE TestConn(p)
    BY <1>12 DEF TestConn
<1>13. CASE TestConnEnds(p)
    BY <1>13 DEF TestConnEnds
<1>14. CASE AddConn(p)
    BY <1>14 DEF AddConn
<1>15. CASE DeleteConn(p)
    BY <1>15 DEF DeleteConn, DeleteActive
<1>. QED
    BY <1>1, <1>2, <1>3, <1>4, <1>5, <1>6, <1>7, <1>8, <1>9, <1>10, <1>11, <1>12, <1>13, <1>14, <1>15 DEF Step

-----------------------------------------------------------------------------
(* A step of p keeps what p itself holds in order. *)
LEMMA EnginesStep ==
    ASSUME IInv, TypeOK', NEW p \in Procs, Step(p)
    PROVE  HoldsItsEngines(p)'
<1>. USE DEF IInv, TypeOK, HoldsItsEngines, Goto, memory, switch
<1>1. CASE Start(p)
    BY <1>1 DEF Start, BeginSwitch
<1>2. CASE Stop(p)
    BY <1>2 DEF Stop
<1>3. CASE OpenRepl(p)
    BY <1>3 DEF OpenRepl
<1>4. CASE Create(p)
    BY <1>4, NoEngineAssumption DEF Create, NewEngine, Engine
<1>5. CASE CannotCreate(p)
    BY <1>5 DEF CannotCreate, Return, AtRest
<1>6. CASE ProbeFails(p)
    BY <1>6 DEF ProbeFails, Return, AtRest
<1>7. CASE Swap(p)
    <2>1. want[p] \in Conns /\ cand[p].of = want[p]
        BY <1>7 DEF Swap, KnowsItsTarget, Registry
    <2>2. want[p] # NoConn
        BY <2>1 DEF Conns, NoConn
    <2>. QED
        BY <1>7, <2>1, <2>2 DEF Swap
<1>8. CASE Release(p)
    BY <1>8 DEF Release, Return
<1>9. CASE Persist(p)
    BY <1>9 DEF Persist, Return, AtRest
<1>10. CASE Use(p)
    BY <1>10 DEF Use, BeginSwitch
<1>11. CASE SelectConn(p)
    BY <1>11 DEF SelectConn, BeginSwitch
<1>12. CASE TestConn(p)
    BY <1>12, NoEngineAssumption DEF TestConn, NewEngine, Engine
<1>13. CASE TestConnEnds(p)
    BY <1>13 DEF TestConnEnds
<1>14. CASE AddConn(p)
    BY <1>14 DEF AddConn, BeginSwitch
<1>15. CASE DeleteConn(p)
    BY <1>15 DEF DeleteConn, DeleteActive
<1>. QED
    BY <1>1, <1>2, <1>3, <1>4, <1>5, <1>6, <1>7, <1>8, <1>9, <1>10, <1>11, <1>12, <1>13, <1>14, <1>15 DEF Step

LEMMA TargetStep ==
    ASSUME IInv, TypeOK', NEW p \in Procs, Step(p)
    PROVE  KnowsItsTarget(p)'
<1>. USE DEF IInv, TypeOK, KnowsItsTarget, Goto, memory, switch
<1>1. CASE Start(p)
    <2>1. PICK r \in {file} \cup (IF "load" \in Faults THEN {NoProfiles} ELSE {}) :
             /\ reg' = [reg EXCEPT ![p] = r]
             /\ IF r.ids = {}
                   THEN Goto(p, "ready") /\ UNCHANGED <<want, then>>
                   ELSE BeginSwitch(p, Target(r), "ready")
        BY <1>1 DEF Start
    <2>2. pc[p] = "off" /\ active'[p] = active[p] /\ reg'[p] = r /\ r \in Registry
        BY <1>1, <2>1, NoProfilesType DEF Start
    <2>3. active[p] = NoConn
        BY <2>2 DEF HoldsItsEngines
    <2>4. CASE r.ids = {}
        BY <2>1, <2>2, <2>3, <2>4
    <2>5. CASE r.ids # {}
        <3>1. Target(r) \in r.ids
            BY <2>2, <2>5, TargetOfRegistry
        <3>. QED
            BY <2>1, <2>2, <2>3, <2>5, <3>1 DEF BeginSwitch
    <2>. QED
        BY <2>4, <2>5
<1>2. CASE Stop(p)
    BY <1>2 DEF Stop
<1>3. CASE OpenRepl(p)
    BY <1>3 DEF OpenRepl
<1>4. CASE Create(p)
    BY <1>4 DEF Create, NewEngine
<1>5. CASE CannotCreate(p)
    BY <1>5 DEF CannotCreate, Return, AtRest
<1>6. CASE ProbeFails(p)
    BY <1>6 DEF ProbeFails, Return, AtRest
<1>7. CASE Swap(p)
    BY <1>7 DEF Swap
<1>8. CASE Release(p)
    BY <1>8 DEF Release, Return
<1>9. CASE Persist(p)
    BY <1>9 DEF Persist, Return, AtRest, FlaggedOnly
<1>10. CASE Use(p)
    BY <1>10 DEF Use, BeginSwitch
<1>11. CASE SelectConn(p)
    BY <1>11 DEF SelectConn, BeginSwitch
<1>12. CASE TestConn(p)
    BY <1>12 DEF TestConn, NewEngine, Engine
<1>13. CASE TestConnEnds(p)
    BY <1>13 DEF TestConnEnds
<1>14. CASE AddConn(p)
    BY <1>14 DEF AddConn, BeginSwitch, Extended
<1>15. CASE DeleteConn(p)
    <2>1. PICK c \in reg[p].ids :
             /\ reg' = [reg EXCEPT ![p] = Forgotten(reg[p], c)]
             /\ DeleteActive(p, c)
        BY <1>15 DEF DeleteConn
    <2>2. reg'[p].ids = reg[p].ids \ {c}
        BY <2>1 DEF Forgotten
    <2>3. active'[p] = NoConn \/ (active'[p] = active[p] /\ active[p] # c)
        BY <2>1 DEF DeleteActive
    <2>. QED
        BY <1>15, <2>2, <2>3 DEF DeleteConn
<1>. QED
    BY <1>1, <1>2, <1>3, <1>4, <1>5, <1>6, <1>7, <1>8, <1>9, <1>10, <1>11, <1>12, <1>13, <1>14, <1>15 DEF Step

LEMMA FlagStep ==
    ASSUME IInv, TypeOK', NEW p \in Procs, Step(p)
    PROVE  FlagFollows(p)'
<1>. USE DEF IInv, TypeOK, FlagFollows, Goto, memory, switch
<1>1. CASE Start(p)
    <2>1. PICK r \in {file} \cup (IF "load" \in Faults THEN {NoProfiles} ELSE {}) :
             /\ reg' = [reg EXCEPT ![p] = r]
             /\ IF r.ids = {}
                   THEN Goto(p, "ready") /\ UNCHANGED <<want, then>>
                   ELSE BeginSwitch(p, Target(r), "ready")
        BY <1>1 DEF Start
    <2>2. pc[p] = "off" /\ active'[p] = active[p] /\ reg'[p] = r /\ r \in Registry
        BY <1>1, <2>1, NoProfilesType DEF Start
    <2>3. active[p] = NoConn
        BY <2>2 DEF HoldsItsEngines
    <2>4. CASE r.ids = {}
        BY <2>1, <2>2, <2>3, <2>4
    <2>5. CASE r.ids # {}
        <3>1. \A c, d \in r.flagged : c = d
            BY <2>1 DEF OneFlag, NoProfiles
        <3>2. r.flagged \subseteq {Target(r)}
            BY <2>2, <2>5, <3>1, TargetOfRegistry
        <3>. QED
            BY <2>1, <2>2, <2>3, <2>5, <3>2 DEF BeginSwitch
    <2>. QED
        BY <2>4, <2>5
<1>2. CASE Stop(p)
    BY <1>2 DEF Stop
<1>3. CASE OpenRepl(p)
    BY <1>3 DEF OpenRepl
<1>4. CASE Create(p)
    BY <1>4 DEF Create, NewEngine
<1>5. CASE CannotCreate(p)
    BY <1>5 DEF CannotCreate, Return, AtRest
<1>6. CASE ProbeFails(p)
    BY <1>6 DEF ProbeFails, Return, AtRest
<1>7. CASE Swap(p)
    BY <1>7 DEF Swap, KnowsItsTarget
<1>8. CASE Release(p)
    BY <1>8 DEF Release, Return
<1>9. CASE Persist(p)
    BY <1>9 DEF Persist, Return, AtRest, FlaggedOnly, KnowsItsTarget
<1>10. CASE Use(p)
    BY <1>10 DEF Use, BeginSwitch
<1>11. CASE SelectConn(p)
    BY <1>11 DEF SelectConn, BeginSwitch
<1>12. CASE TestConn(p)
    BY <1>12 DEF TestConn, NewEngine, Engine
<1>13. CASE TestConnEnds(p)
    BY <1>13 DEF TestConnEnds
<1>14. CASE AddConn(p)
    BY <1>14 DEF AddConn, BeginSwitch, Extended
<1>15. CASE DeleteConn(p)
    BY <1>15 DEF DeleteConn, DeleteActive, Forgotten
<1>. QED
    BY <1>1, <1>2, <1>3, <1>4, <1>5, <1>6, <1>7, <1>8, <1>9, <1>10, <1>11, <1>12, <1>13, <1>14, <1>15 DEF Step

-----------------------------------------------------------------------------
(* No save leaves two profiles flagged: a file is some process's registry, *)
(* and a process flags one profile and unflags the others at once.         *)
LEMMA OneFlagStep == IInv /\ [Next]_vars => OneFlag'
<1>. SUFFICES ASSUME IInv, [Next]_vars PROVE OneFlag'
    OBVIOUS
<1>. USE DEF IInv, TypeOK, memory, switch
<1>. DEFINE Single(r) == \A c, d \in r.flagged : c = d
<1>1. Single(file) /\ \A q \in Procs : Single(reg[q])
    BY DEF OneFlag
<1>2. SUFFICES Single(file') /\ \A q \in Procs : Single(reg'[q])
    BY DEF OneFlag
<1>3. CASE UNCHANGED vars
    BY <1>1, <1>3 DEF vars
<1>4. ASSUME NEW p \in Procs, Step(p)
      PROVE  Single(file') /\ \A q \in Procs : Single(reg'[q])
    <2>1. SUFFICES /\ Single(file')
                   /\ Single(reg'[p])
                   /\ \A q \in Procs \ {p} : reg'[q] = reg[q]
        BY <1>1
    <2>2. \A q \in Procs \ {p} : reg'[q] = reg[q]
        BY <1>4, StepIsLocal DEF Same
    <2>3. CASE Start(p)
        BY <1>1, <2>2, <2>3 DEF Start, NoProfiles
    <2>4. CASE Stop(p)
        BY <1>1, <2>2, <2>4 DEF Stop, NoProfiles
    <2>5. CASE Persist(p)
        <3>1. FlaggedOnly(reg[p], want[p]).flagged = {want[p]}
            BY DEF FlaggedOnly, Registry
        <3>. QED
            BY <1>1, <2>2, <2>5, <3>1 DEF Persist, Save
    <2>6. CASE AddConn(p)
        <3>1. Extended(reg[p], next).flagged = reg[p].flagged
            BY DEF Extended, Registry
        <3>. QED
            BY <1>1, <2>2, <2>6, <3>1 DEF AddConn, Save
    <2>7. CASE DeleteConn(p)
        <3>1. \A c \in reg[p].ids : Forgotten(reg[p], c).flagged \subseteq reg[p].flagged
            BY DEF Forgotten
        <3>. QED
            BY <1>1, <2>2, <2>7, <3>1 DEF DeleteConn, Save
    <2>8. CASE UNCHANGED <<file, reg>>
        BY <1>1, <2>8
    <2>. QED
        BY <1>4, <2>3, <2>4, <2>5, <2>6, <2>7, <2>8
           DEF Step, OpenRepl, Create, CannotCreate, ProbeFails, Swap, Release,
               Use, SelectConn, TestConn, TestConnEnds
<1>. QED
    BY <1>3, <1>4 DEF Next

-----------------------------------------------------------------------------
(* The inductive invariant. *)
LEMMA Initially == Init => IInv
<1>. SUFFICES ASSUME Init PROVE IInv
    OBVIOUS
<1>1. TypeOK
    BY NoProfilesType, MaxProfilesAssumption DEF Init, TypeOK, Labels, AtRest
<1>2. OneFlag
    BY DEF Init, OneFlag, NoProfiles
<1>3. ASSUME NEW p \in Procs
      PROVE  HoldsItsEngines(p) /\ KnowsItsTarget(p) /\ FlagFollows(p)
    BY DEF Init, HoldsItsEngines, KnowsItsTarget, FlagFollows
<1>. QED
    BY <1>1, <1>2, <1>3 DEF IInv

LEMMA Inductive == IInv /\ [Next]_vars => IInv'
<1>. SUFFICES ASSUME IInv, [Next]_vars PROVE IInv'
    OBVIOUS
<1>1. TypeOK'
    BY TypeStep
<1>2. OneFlag'
    BY OneFlagStep
<1>3. ASSUME NEW q \in Procs
      PROVE  (HoldsItsEngines(q) /\ KnowsItsTarget(q) /\ FlagFollows(q))'
    <2>1. HoldsItsEngines(q) /\ KnowsItsTarget(q) /\ FlagFollows(q)
        BY DEF IInv
    <2>2. CASE Same(q)
        BY <2>1, <2>2 DEF Same, HoldsItsEngines, KnowsItsTarget, FlagFollows
    <2>3. CASE Step(q)
        BY <1>1, <2>3, EnginesStep, TargetStep, FlagStep
    <2>4. CASE UNCHANGED vars
        BY <2>2, <2>4 DEF vars, Same, memory, switch
    <2>5. ASSUME NEW p \in Procs, Step(p), p # q PROVE Same(q)
        BY <2>5, StepIsLocal DEF IInv
    <2>. QED
        BY <2>2, <2>3, <2>4, <2>5 DEF Next
<1>. QED
    BY <1>1, <1>2, <1>3 DEF IInv

(* IInv holds throughout, for every set of processes and every failure. *)
THEOREM InvariantHolds == Spec => []IInv
BY Initially, Inductive, PTL DEF Spec

(* Every variable has its type, in every reachable state. *)
THEOREM TypeCorrect == Spec => []TypeOK
<1>1. IInv => TypeOK
    BY DEF IInv
<1>. QED
    BY InvariantHolds, <1>1, PTL

(* Queries always reach the database that active_id names (db.py:207-213). *)
THEOREM EngineAgreesWithActive == Spec => []EngineServesActive
<1>1. IInv => EngineServesActive
    BY DEF IInv, HoldsItsEngines, EngineServesActive
<1>. QED
    BY InvariantHolds, <1>1, PTL

(* Between operations only the engine in use is open (db.py:215-221). *)
THEOREM NoLeak == Spec => []NoEngineLeak
<1>1. IInv => NoEngineLeak
    BY DEF IInv, HoldsItsEngines, NoEngineLeak, AtRest
<1>. QED
    BY InvariantHolds, <1>1, PTL

(* active_id always names a profile of the registry (db.py:102-113). *)
THEOREM ActiveRegistered == Spec => []ActiveIsRegistered
<1>1. IInv => ActiveIsRegistered
    BY DEF IInv, KnowsItsTarget, ActiveIsRegistered
<1>. QED
    BY InvariantHolds, <1>1, PTL

(* At most one profile is flagged in any registry and in the file, whatever *)
(* the interleaving of the processes that save it (db.py:228-232).          *)
THEOREM FlagIsUnique == Spec => []OneFlag
<1>1. IInv => OneFlag
    BY DEF IInv
<1>. QED
    BY InvariantHolds, <1>1, PTL

(* Between operations the flag and the connection agree (db.py:234-253). *)
THEOREM FlagAgreesWithActive == Spec => []FlagNamesActive
<1>1. IInv => FlagNamesActive
    BY DEF IInv, FlagFollows, FlagNamesActive, AtRest
<1>. QED
    BY InvariantHolds, <1>1, PTL

(* A switch that fails was a no-op from the request for it to the return from *)
(* it, in every step of it (db.py:178-180): up to the swap nothing of the     *)
(* engine in use, active_id, the registries and the file is touched.          *)
THEOREM FailedSwitchChangesNothing == Spec => FailedSwitchIsNoOp
<1>. DEFINE Asks(p) == pc[p] \in AtRest /\ pc'[p] = "create"
            Tries(p) == pc[p] = "create" /\ pc'[p] = "probe"
            GivesUp(p) == pc[p] \in {"create", "probe"} /\ pc'[p] \in AtRest
            NoOp == \A p \in Procs :
                /\ Asks(p) \/ Tries(p) \/ GivesUp(p) =>
                       UNCHANGED <<file, memory>> /\ {engine[p]} \ {NoEngine} \subseteq live'[p]
                /\ GivesUp(p) => live'[p] = {engine[p]} \ {NoEngine}
<1>1. ASSUME IInv, [Next]_vars PROVE [NoOp]_vars
    <2>1. SUFFICES ASSUME NEW p \in Procs, Asks(p) \/ Tries(p) \/ GivesUp(p),
                          NEW q \in Procs, Step(q)
                   PROVE  /\ UNCHANGED <<file, memory>>
                          /\ {engine[p]} \ {NoEngine} \subseteq live'[p]
                          /\ GivesUp(p) => live'[p] = {engine[p]} \ {NoEngine}
        BY <1>1 DEF Next
    <2>2. q = p
        BY <1>1, <2>1, StepIsLocal DEF Same, IInv, AtRest
    <2>3. CASE Asks(p)
        <3>1. Use(p) \/ SelectConn(p)
            BY <1>1, <2>2, <2>3, <2>1 DEF IInv, TypeOK, Step, Start, Stop, OpenRepl, Create,
                   CannotCreate, ProbeFails, Swap, Release, Persist, TestConn, TestConnEnds,
                   AddConn, DeleteConn, Goto, AtRest
        <3>. QED
            BY <1>1, <2>3, <3>1 DEF IInv, HoldsItsEngines, Use, SelectConn, memory, AtRest
    <2>4. CASE Tries(p)
        <3>1. Create(p)
            BY <1>1, <2>2, <2>4, <2>1 DEF IInv, TypeOK, Step, Start, Stop, OpenRepl,
                   CannotCreate, ProbeFails, Swap, Release, Persist, Use, SelectConn, TestConn,
                   TestConnEnds, AddConn, DeleteConn, Goto, Return, AtRest
        <3>. QED
            BY <1>1, <2>4, <3>1 DEF IInv, TypeOK, HoldsItsEngines, Create, NewEngine, memory, AtRest
    <2>5. CASE GivesUp(p)
        <3>1. CannotCreate(p) \/ ProbeFails(p)
            BY <1>1, <2>1, <2>2, <2>5 DEF IInv, TypeOK, Step, Start, Stop, OpenRepl, Create,
                   Swap, Release, Persist, Use, SelectConn, TestConn, TestConnEnds, AddConn,
                   DeleteConn, Goto, AtRest
        <3>. QED
            BY <1>1, <2>5, <3>1 DEF IInv, TypeOK, HoldsItsEngines, CannotCreate, ProbeFails, memory
    <2>. QED
        BY <2>1, <2>3, <2>4, <2>5
<1>. QED
    BY <1>1, InvariantHolds, PTL DEF Spec, FailedSwitchIsNoOp

-----------------------------------------------------------------------------
(* One terminal and a disk that works: db.py's reports are true of the next  *)
(* process only then.  With two terminals the file can lose a profile that   *)
(* the other saved (run cm_terminals), and a save that fails is only logged. *)
OneTerminal == Faults = {} /\ \A p, q \in Procs : p = q

(* What makes them true is that memory and file never part: a running process *)
(* holds the registry that is on disk, where the profile last reported        *)
(* selected is the flagged one.                                               *)
FileAndMemoryAgree ==
    /\ FileHoldsSavedProfiles
    /\ RestartKeepsSelection
    /\ chosen # NoConn => file.flagged = {chosen}
    /\ \A p \in Procs : pc[p] # "off" => reg[p] = file

LEMMA AgreementStep ==
    ASSUME OneTerminal, IInv, FileAndMemoryAgree, [Next]_vars
    PROVE  FileAndMemoryAgree'
<1>. USE DEF IInv, TypeOK, memory, switch, Goto, FileAndMemoryAgree, FileHoldsSavedProfiles,
             RestartKeepsSelection
<1>1. CASE UNCHANGED vars
    BY <1>1 DEF vars
<1>2. ASSUME NEW p \in Procs, Step(p) PROVE FileAndMemoryAgree'
    <2>. DEFINE Agrees(q) ==
                  /\ pc[q] # "off" => reg[q] = file
                  /\ pc[q] = "create" /\ then[q] = "ready" /\ chosen # NoConn => want[q] = chosen
    <2>1. \A q \in Procs : q = p
        BY DEF OneTerminal
    <2>2. Agrees(p)
        OBVIOUS
    <2>3. SUFFICES /\ file'.ids = saved'
                   /\ chosen' # NoConn => file'.flagged = {chosen'}
                   /\ Agrees(p)'
        BY <2>1
    <2>4. CASE Start(p)
        <3>1. /\ reg' = [reg EXCEPT ![p] = file]
              /\ IF file.ids = {}
                    THEN Goto(p, "ready") /\ UNCHANGED <<want, then>>
                    ELSE BeginSwitch(p, Target(file), "ready")
            BY <2>4 DEF Start, OneTerminal
        <3>2. chosen # NoConn => Target(file) = chosen
            <4>1. First({chosen}) = chosen
                BY FirstOfProfiles, MaxProfilesAssumption DEF First, Conns, NoConn
            <4>. QED
                BY <4>1 DEF Target
        <3>. QED
            BY <2>2, <2>4, <3>1, <3>2 DEF Start, BeginSwitch
    <2>5. CASE Stop(p)
        BY <2>5 DEF Stop
    <2>6. CASE Persist(p)
        <3>1. want[p] \in Conns /\ reg[p] \in Registry /\ reg[p] = file
            BY <2>6 DEF Persist, KnowsItsTarget, Registry
        <3>2. /\ FlaggedOnly(reg[p], want[p]).ids = reg[p].ids
              /\ FlaggedOnly(reg[p], want[p]).flagged = {want[p]}
            BY <3>1, RegistryOps
        <3>. QED
            BY <2>6, <3>1, <3>2 DEF Persist, Return, Save, OneTerminal, AtRest
    <2>7. CASE AddConn(p)
        <3>1. next \in Conns /\ reg[p] \in Registry /\ reg[p] = file
            BY <2>7, MaxProfilesAssumption DEF AddConn, Conns
        <3>2. /\ Extended(reg[p], next).ids = reg[p].ids \cup {next}
              /\ Extended(reg[p], next).flagged = reg[p].flagged
            BY <3>1, RegistryOps
        <3>. QED
            BY <2>7, <3>1, <3>2 DEF AddConn, BeginSwitch, Save, OneTerminal
    <2>8. CASE DeleteConn(p)
        <3>1. PICK c \in reg[p].ids :
                 /\ reg' = [reg EXCEPT ![p] = Forgotten(reg[p], c)]
                 /\ Save(Forgotten(reg[p], c))
                 /\ saved' = saved \ {c}
                 /\ chosen' = IF chosen = c THEN NoConn ELSE chosen
            BY <2>8 DEF DeleteConn
        <3>2. c \in Conns /\ reg[p] \in Registry /\ reg[p] = file
            BY <2>8 DEF DeleteConn, Registry
        <3>3. /\ Forgotten(reg[p], c).ids = reg[p].ids \ {c}
              /\ Forgotten(reg[p], c).flagged = reg[p].flagged \ {c}
            BY <3>2, RegistryOps
        <3>. QED
            BY <2>8, <3>1, <3>2, <3>3 DEF DeleteConn, Save, OneTerminal
    <2>9. CASE /\ UNCHANGED <<file, reg, saved, chosen>>
               /\ pc[p] # "off"
               /\ pc'[p] = "create" => then'[p] # "ready"
        BY <2>2, <2>9
    <2>. QED
        BY <1>2, <2>4, <2>5, <2>6, <2>7, <2>8, <2>9
           DEF Step, OpenRepl, Create, CannotCreate, ProbeFails, Swap, Release, Return,
               Use, SelectConn, BeginSwitch, TestConn, TestConnEnds, AtRest
<1>. QED
    BY <1>1, <1>2 DEF Next

LEMMA AgreementHolds ==
    ASSUME OneTerminal
    PROVE  Spec => []FileAndMemoryAgree
<1>1. Init => FileAndMemoryAgree
    BY DEF Init, FileAndMemoryAgree, FileHoldsSavedProfiles, RestartKeepsSelection, NoProfiles
<1>2. IInv /\ FileAndMemoryAgree /\ [Next]_vars => FileAndMemoryAgree'
    BY AgreementStep
<1>. QED
    BY <1>1, <1>2, InvariantHolds, PTL DEF Spec

(* From one terminal and with saves that succeed, connections.json holds the *)
(* profiles that were reported saved and not reported deleted, in every      *)
(* state of every operation and after a kill at any step (db.py:60,          *)
(* cli.py:203, cli.py:251).                                                  *)
THEOREM ReportsAreTrue ==
    ASSUME OneTerminal
    PROVE  Spec => []FileHoldsSavedProfiles
<1>1. FileAndMemoryAgree => FileHoldsSavedProfiles
    BY DEF FileAndMemoryAgree
<1>. QED
    BY AgreementHolds, <1>1, PTL

(* From one terminal and with saves that succeed, "the next process starts   *)
(* on the same database" (db.py:229) as the one last reported selected.      *)
THEOREM NextProcessSameDatabase ==
    ASSUME OneTerminal
    PROVE  Spec => []RestartKeepsSelection
<1>1. FileAndMemoryAgree => RestartKeepsSelection
    BY DEF FileAndMemoryAgree
<1>. QED
    BY AgreementHolds, <1>1, PTL

-----------------------------------------------------------------------------
(* A manager works on one database and moves to another at once or not at   *)
(* all: what a step of p shows of p is a step of ActiveDatabase.             *)
Shows(p) ==
    LET runs == pc[p] # "off"
        asks == Asking(p)
        uses == Serving(p)
    IN \/ runs' = runs /\ asks' = asks /\ uses' = uses
       \/ ~ runs /\ runs' /\ asks' \in Conns \cup {NoConn} /\ uses' = uses
       \/ runs /\ ~ runs' /\ asks' = NoConn /\ uses' = NoConn
       \/ runs /\ runs' /\ asks = NoConn /\ asks' \in Conns /\ uses' = uses
       \/ runs' = runs /\ asks # NoConn /\ asks' = NoConn /\ uses' = asks
       \/ runs' = runs /\ asks # NoConn /\ asks' = NoConn /\ uses' = uses
       \/ runs /\ runs' /\ asks = NoConn /\ asks' = NoConn /\ uses' = NoConn

LEMMA StepShows ==
    ASSUME IInv, IInv', NEW p \in Procs, Step(p)
    PROVE  Shows(p)
<1>1. TypeOK /\ TypeOK' /\ HoldsItsEngines(p) /\ HoldsItsEngines(p)'
      /\ KnowsItsTarget(p) /\ KnowsItsTarget(p)' /\ reg[p].ids \subseteq Conns
      /\ reg'[p].ids \subseteq Conns
    BY DEF IInv, TypeOK, Registry
<1>2. NoConn \notin Conns
    BY DEF Conns, NoConn
<1>. USE <1>1, <1>2, NoEngineAssumption DEF TypeOK, HoldsItsEngines, KnowsItsTarget, Shows, Asking, Serving, Goto, memory, switch
<1>3. CASE Start(p)
    BY <1>3 DEF Start, BeginSwitch
<1>4. CASE Stop(p)
    BY <1>4 DEF Stop
<1>5. CASE OpenRepl(p)
    BY <1>5 DEF OpenRepl
<1>6. CASE Create(p)
    BY <1>6 DEF Create
<1>7. CASE CannotCreate(p)
    BY <1>7 DEF CannotCreate, Return, AtRest
<1>8. CASE ProbeFails(p)
    BY <1>8 DEF ProbeFails, Return, AtRest
<1>9. CASE Swap(p)
    BY <1>9 DEF Swap
<1>10. CASE Release(p)
    BY <1>10 DEF Release, Return, AtRest
<1>11. CASE Persist(p)
    BY <1>11 DEF Persist, Return, AtRest
<1>12. CASE Use(p)
    BY <1>12 DEF Use, BeginSwitch
<1>13. CASE SelectConn(p)
    BY <1>13 DEF SelectConn, BeginSwitch
<1>14. CASE TestConn(p)
    BY <1>14 DEF TestConn
<1>15. CASE TestConnEnds(p)
    BY <1>15 DEF TestConnEnds
<1>16. CASE AddConn(p)
    BY <1>16 DEF AddConn, BeginSwitch
<1>17. CASE DeleteConn(p)
    BY <1>17 DEF DeleteConn, DeleteActive
<1>. QED
    BY <1>3, <1>4, <1>5, <1>6, <1>7, <1>8, <1>9, <1>10, <1>11, <1>12, <1>13, <1>14, <1>15, <1>16, <1>17 DEF Step

LEMMA RefinesInit == Init => Manager!Init
BY DEF Init, Manager!Init, Asking, Serving

LEMMA RefinesStep == IInv /\ IInv' /\ [Next]_vars => [Manager!Next]_(Manager!vars)
<1>. SUFFICES ASSUME IInv, IInv', [Next]_vars
              PROVE  [Manager!Next]_(Manager!vars)
    OBVIOUS
<1>. DEFINE running == [p \in Procs |-> pc[p] # "off"]
            asked == [p \in Procs |-> Asking(p)]
            using == [p \in Procs |-> Serving(p)]
<1>1. CASE UNCHANGED vars
    BY <1>1 DEF vars, memory, switch, Manager!vars, Asking, Serving
<1>2. ASSUME NEW p \in Procs, Step(p)
      PROVE  [Manager!Next]_(Manager!vars)
    <2>1. ASSUME NEW q \in Procs, q # p
          PROVE  running'[q] = running[q] /\ asked'[q] = asked[q] /\ using'[q] = using[q]
        BY <1>2, <2>1, StepIsLocal DEF IInv, Same, Asking, Serving
    <2>2. /\ running' = [running EXCEPT ![p] = running'[p]]
          /\ asked' = [asked EXCEPT ![p] = asked'[p]]
          /\ using' = [using EXCEPT ![p] = using'[p]]
        BY <2>1
    <2>3. /\ running[p] = (pc[p] # "off") /\ running'[p] = (pc'[p] # "off")
          /\ asked[p] = Asking(p) /\ asked'[p] = Asking(p)'
          /\ using[p] = Serving(p) /\ using'[p] = Serving(p)'
        OBVIOUS
    <2>4. Shows(p)
        BY <1>2, StepShows
    <2>5. \/ running'[p] = running[p] /\ asked'[p] = asked[p] /\ using'[p] = using[p]
          \/ /\ ~ running[p] /\ running'[p]
             /\ asked'[p] \in Conns \cup {NoConn} /\ using'[p] = using[p]
          \/ running[p] /\ ~ running'[p] /\ asked'[p] = NoConn /\ using'[p] = NoConn
          \/ /\ running[p] /\ running'[p] /\ asked[p] = NoConn
             /\ asked'[p] \in Conns /\ using'[p] = using[p]
          \/ /\ running'[p] = running[p] /\ asked[p] # NoConn
             /\ asked'[p] = NoConn /\ using'[p] = asked[p]
          \/ /\ running'[p] = running[p] /\ asked[p] # NoConn
             /\ asked'[p] = NoConn /\ using'[p] = using[p]
          \/ /\ running[p] /\ running'[p] /\ asked[p] = NoConn
             /\ asked'[p] = NoConn /\ using'[p] = NoConn
        BY <2>4 DEF Shows
    <2>6. /\ running'[p] \in BOOLEAN /\ running[p] \in BOOLEAN
          /\ running = [running EXCEPT ![p] = running[p]]
          /\ asked = [asked EXCEPT ![p] = asked[p]]
          /\ using = [using EXCEPT ![p] = using[p]]
        OBVIOUS
    <2>. HIDE DEF running, asked, using
    <2>7. CASE running'[p] = running[p] /\ asked'[p] = asked[p] /\ using'[p] = using[p]
        <3>1. running' = running /\ asked' = asked /\ using' = using
            BY <2>2, <2>6, <2>7
        <3>. QED
            BY <3>1 DEF Manager!vars, running, asked, using
    <2>8. CASE ~ running[p] /\ running'[p] /\ asked'[p] \in Conns \cup {NoConn}
               /\ using'[p] = using[p]
        <3>1. running' = [running EXCEPT ![p] = TRUE] /\ using' = using
            BY <2>2, <2>6, <2>8
        <3>2. \E d \in Conns \cup {NoConn} : asked' = [asked EXCEPT ![p] = d]
            BY <2>2, <2>8
        <3>. QED
            BY <2>8, <3>1, <3>2 DEF Manager!Next, Manager!Enter, running, asked, using
    <2>9. CASE running[p] /\ ~ running'[p] /\ asked'[p] = NoConn /\ using'[p] = NoConn
        <3>1. running' = [running EXCEPT ![p] = FALSE] /\ asked' = [asked EXCEPT ![p] = NoConn]
              /\ using' = [using EXCEPT ![p] = NoConn]
            BY <2>2, <2>6, <2>9
        <3>. QED
            BY <2>9, <3>1 DEF Manager!Next, Manager!Leave, running, asked, using
    <2>10. CASE /\ running[p] /\ running'[p] /\ asked[p] = NoConn
                /\ asked'[p] \in Conns /\ using'[p] = using[p]
        <3>1. running' = running /\ using' = using
            BY <2>2, <2>6, <2>10
        <3>2. \E d \in Conns : asked' = [asked EXCEPT ![p] = d]
            BY <2>2, <2>10
        <3>. QED
            BY <2>10, <3>1, <3>2 DEF Manager!Next, Manager!Ask, running, asked, using
    <2>11. CASE /\ running'[p] = running[p] /\ asked[p] # NoConn
                /\ asked'[p] = NoConn /\ using'[p] = asked[p]
        <3>1. running' = running /\ asked' = [asked EXCEPT ![p] = NoConn]
              /\ using' = [using EXCEPT ![p] = asked[p]]
            BY <2>2, <2>6, <2>11
        <3>. QED
            BY <2>11, <3>1 DEF Manager!Next, Manager!Move, running, asked, using
    <2>12. CASE /\ running'[p] = running[p] /\ asked[p] # NoConn
                /\ asked'[p] = NoConn /\ using'[p] = using[p]
        <3>1. running' = running /\ asked' = [asked EXCEPT ![p] = NoConn] /\ using' = using
            BY <2>2, <2>6, <2>12
        <3>. QED
            BY <2>12, <3>1 DEF Manager!Next, Manager!Stay, running, asked, using
    <2>13. CASE /\ running[p] /\ running'[p] /\ asked[p] = NoConn
                /\ asked'[p] = NoConn /\ using'[p] = NoConn
        <3>1. running' = running /\ asked' = asked
              /\ using' = [using EXCEPT ![p] = NoConn]
            BY <2>2, <2>6, <2>13
        <3>. QED
            BY <2>13, <3>1 DEF Manager!Next, Manager!Disconnect, running, asked, using
    <2>. QED
        BY <2>5, <2>7, <2>8, <2>9, <2>10, <2>11, <2>12, <2>13
<1>. QED
    BY <1>1, <1>2 DEF Next

(* The detailed switch implements the atomic one, for every number of       *)
(* processes and profiles (db.py:175-182).                                  *)
THEOREM SwitchIsAtomic == Spec => ImplementsActiveDatabase
BY RefinesInit, RefinesStep, InvariantHolds, PTL DEF Spec, ImplementsActiveDatabase, Manager!Spec

=============================================================================
