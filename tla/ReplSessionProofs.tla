-------------------------- MODULE ReplSessionProofs --------------------------
(***************************************************************************)
(* What the session guarantees for any databases, tables, statements and   *)
(* policies, and however many switches and questions.                      *)
(***************************************************************************)
EXTENDS ReplSession, TLAPS

(* What the invariants rest on: what the cache, the session and the agent   *)
(* hold at each point.                                                      *)

(* A catalog held is of the connection in use and newer than the last       *)
(* switch; a question on the command line has none, and nothing was asked   *)
(* before the session starts.                                               *)
CacheIsOfActive ==
    /\ metadata # NoMetadata =>
           /\ active # NoConn /\ connectionId = active
           /\ metadata.of = active /\ metadata.read = uses
    /\ at \in {"start", "one-shot"} => metadata = NoMetadata /\ pins = {}
    /\ at = "start" => asked = 0

BeforeSelection == {"idle", "setup", "spec", "introspect", "select"}
WithCatalog == {"select", "sample", "generate", "audit", "execute", "analyze"}

(* How far a question has come at each phase. *)
Progressed ==
    /\ phase # "idle" => active # NoConn
    /\ phase = "idle" => catalog = NoMetadata
    /\ phase # "idle" /\ catalog = NoMetadata => metadata = NoMetadata
    /\ phase \in BeforeSelection => selected = {}
    /\ phase \in BeforeSelection \cup {"sample"} => attempts = 0 /\ sampled = {}
    /\ phase \in WithCatalog => catalog # NoMetadata
    /\ phase = "generate" => attempts < MaxAttempts
    /\ phase = "audit" => sql \in Statements
    /\ phase \in {"execute", "analyze"} => sql \in Approved[active]

(* The pins of a question and what was selected for it are in its catalog. *)
CatalogTables == IF catalog = NoMetadata THEN {} ELSE catalog.tables
TablesAreInCatalog == pinned \subseteq CatalogTables /\ selected \subseteq CatalogTables

IInv ==
    /\ TypeOK
    /\ CacheIsOfActive
    /\ Progressed
    /\ TablesAreInCatalog
    /\ SampledAfterWarning
    /\ PinsAreInCatalog
    /\ QuestionSeesSessionCatalog
    /\ PinsReachThePrompt
    /\ SelectedHere

(* The selection recorded during a question is that question's, once it has *)
(* one and unless it ends with an error or without tables.                  *)
AfterSelection == {"sample", "generate", "audit", "execute", "analyze"}
SelectedForAsked == lastSelection # NoSelection /\ lastSelection.question = asked

WhyInv ==
    /\ SelectedLast
    /\ at = "start" => lastSelection = NoSelection
    /\ at = "asking" =>
           /\ phase \in AfterSelection => SelectedForAsked
           /\ phase = "over" /\ outcome \notin {"error", "no tables"} => SelectedForAsked

(* What was sent and what was told at each phase. *)
RowsProgressed ==
    /\ phase \in BeforeSelection \cup {"sample"} => told = {}
    /\ phase \in {"setup", "spec", "introspect", "select", "sample"} => ran = {}
    /\ phase = "analyze" => [sql |-> sql, on |-> active] \in ran
    /\ phase # "over" => told \subseteq Samples(sampled, active)

RowsInv == OnlyAuditedSqlOrSamplesRun /\ ToldSamplesOrAnswer /\ RowsProgressed

-----------------------------------------------------------------------------
(* What a reading of the schema returns. *)
LEMMA MetadataType ==
    ASSUME NEW m \in Metadata
    PROVE  /\ m # NoMetadata
           /\ m.of \in Conns /\ m.tables \subseteq Tables /\ m.read \in Nat
BY NoMetadataAssumption DEF Metadata

LEMMA MetadataRead ==
    ASSUME NEW c \in Conns, uses \in Nat, NEW m \in MetadataOf(c)
    PROVE  m \in Metadata /\ m.of = c /\ m.read = uses
BY TablesOfAssumption DEF MetadataOf, Metadata, Readable

(* What /use loads is stamped with the switch it belongs to. *)
LEMMA MetadataReread ==
    ASSUME NEW m \in Metadata, NEW n \in Nat
    PROVE  LET k == [m EXCEPT !.read = n]
           IN  k \in Metadata /\ k.of = m.of /\ k.tables = m.tables /\ k.read = n
BY DEF Metadata

(* What was selected is part of the catalog and holds its pins. *)
LEMMA SelectionsHoldPins ==
    ASSUME NEW tables, NEW wanted, NEW cap, wanted \subseteq tables,
           NEW S \in Selections(tables, wanted, cap)
    PROVE  S \subseteq tables /\ wanted \subseteq S
BY DEF Selections

(* The sample queries of tables are among the statements that may be sent. *)
LEMMA SamplesAreSent ==
    ASSUME NEW S \in SUBSET Tables, NEW c \in Conns
    PROVE  Samples(S, c) \subseteq Sent
BY DEF Samples, Sent

(* What is recorded of a selection is not None. *)
LEMMA RecordedIsSelection ==
    ASSUME IInv, KeepSelection
    PROVE  lastSelection' # NoSelection
<1>1. lastSelection' = [tables |-> selected', question |-> asked, on |-> active]
    BY DEF KeepSelection
<1>2. active \in Conns /\ asked \in Nat /\ catalog \in Metadata
    BY MaxQuestionsAssumption
       DEF KeepSelection, SelectTables, IInv, TypeOK, CacheTypeOK, AgentTypeOK, Progressed, WithCatalog
<1>3. selected' \subseteq Tables
    BY <1>2, MetadataType, SelectionsHoldPins
       DEF KeepSelection, SelectTables, IInv, TablesAreInCatalog, CatalogTables
<1>. QED
    BY <1>1, <1>2, <1>3, NoSelectionAssumption DEF Selection

(* A bounded counter that is not yet at its bound. *)
LEMMA OneMore ==
    ASSUME NEW max \in Nat, NEW n \in 0 .. max, n < max
    PROVE  n + 1 \in 0 .. max
OBVIOUS

-----------------------------------------------------------------------------
(* The steps of the agent, but for the selection: they leave the cache, the *)
(* pins and the recorded selection alone.                                   *)

(* They keep the types, the count of attempts within its bound. *)
LEMMA AgentStepType ==
    ASSUME IInv, AgentStep
    PROVE  TypeOK'
<1>a. /\ MaxAttempts \in Nat
      /\ attempts \in 0 .. MaxAttempts
      /\ phase = "generate" => attempts < MaxAttempts
    BY DEF IInv, TypeOK, AgentTypeOK, Progressed, MaxAttempts
<1>. USE DEF IInv, TypeOK, CacheTypeOK, AgentTypeOK, Progressed, Phases, Outcomes, Over,
         question, rows, cacheVars, sessionVars
<1>0. UNCHANGED <<cacheVars, sessionVars>>
    BY DEF AgentStep
<1>1. CASE SetUpLlm
    BY <1>0, <1>1 DEF SetUpLlm
<1>2. CASE FindSpec
    BY <1>0, <1>2 DEF FindSpec
<1>3. CASE UseCatalog
    BY <1>0, <1>3 DEF UseCatalog
<1>4. CASE Introspect
    BY <1>0, <1>4, MetadataRead DEF Introspect
<1>5. CASE NoTables
    BY <1>0, <1>5 DEF NoTables
<1>6. CASE WarnOfSamples
    BY <1>0, <1>6 DEF WarnOfSamples
<1>7. CASE CollectSamples
    <2>1. active \in Conns /\ Samples(selected, active) \subseteq Sent
        BY <1>7, SamplesAreSent DEF CollectSamples
    <2>2. sampled' \subseteq Tables /\ ran' \subseteq Sent
        BY <1>7, <2>1 DEF CollectSamples
    <2>. QED
        BY <1>0, <1>7, <2>2 DEF CollectSamples
<1>8. CASE Generate
    <2>1. phase = "generate" /\ attempts' = attempts + 1
        BY <1>8 DEF Generate
    <2>2. attempts' \in 0 .. MaxAttempts
        BY <1>a, <2>1, OneMore
    <2>3. /\ phase' \in Phases /\ phase' # "idle" /\ at \in {"asking", "one-shot"}
          /\ sql' \in Statements \cup {NoSql}
          /\ outcome' \in Outcomes
        BY <1>8 DEF Generate
    <2>4. UNCHANGED <<catalog, pinned, selected, sampled, warned, ran>>
        BY <1>8 DEF Generate
    <2>5. told' \subseteq Sent
        <3>1. active \in Conns
            BY <1>8 DEF Generate
        <3>. QED
            BY <1>8, <3>1, SamplesAreSent DEF Generate
    <2>. QED
        BY <1>0, <2>2, <2>3, <2>4, <2>5
<1>9. CASE Audit
    BY <1>0, <1>9 DEF Audit
<1>10. CASE RunSql
    <2>1. sql \in Statements /\ active \in Conns
        BY <1>10, ApprovedAssumption DEF RunSql
    <2>2. [sql |-> sql, on |-> active] \in Sent
        BY <2>1 DEF Sent
    <2>3. ran' \subseteq Sent
        BY <1>10, <2>2 DEF RunSql
    <2>4. /\ phase' \in Phases /\ phase' # "idle" /\ at \in {"asking", "one-shot"}
          /\ outcome' \in Outcomes
        BY <1>10 DEF RunSql
    <2>5. UNCHANGED <<question, warned, told>>
        BY <1>10 DEF RunSql
    <2>. QED
        BY <1>0, <2>3, <2>4, <2>5
<1>11. CASE Analyze
    <2>0. sql \in Statements /\ active \in Conns
        BY <1>11, ApprovedAssumption DEF Analyze
    <2>1. [sql |-> sql, on |-> active] \in Sent
        BY <2>0 DEF Sent
    <2>2. /\ told' \subseteq Sent
          /\ phase' = "over" /\ at \in {"asking", "one-shot"} /\ outcome' \in Outcomes
          /\ UNCHANGED <<question, warned, ran>>
        BY <1>11, <2>1 DEF Analyze
    <2>. QED
        BY <1>0, <2>2
<1>. QED
    BY <1>1, <1>2, <1>3, <1>4, <1>5, <1>6, <1>7, <1>8, <1>9, <1>10, <1>11 DEF AgentStep, QuietStep

(* They keep the rest: what is audited is what runs, and what is sampled was *)
(* announced.                                                                *)
LEMMA AgentStepSafe ==
    ASSUME IInv, AgentStep
    PROVE  IInv'
<1>. USE DEF IInv, CacheIsOfActive, Progressed, TablesAreInCatalog, SampledAfterWarning,
         PinsAreInCatalog, QuestionSeesSessionCatalog, PinsReachThePrompt, SelectedHere,
         BeforeSelection, WithCatalog, CatalogTables, IsWarm, TableNames,
         Over, question, rows, cacheVars, sessionVars
<1>0. UNCHANGED <<cacheVars, sessionVars>> /\ TypeOK'
    BY AgentStepType DEF AgentStep
<1>a. /\ active \in Conns \cup {NoConn} /\ uses \in Nat /\ attempts \in Nat
      /\ ran \subseteq Sent
    BY DEF TypeOK, CacheTypeOK, AgentTypeOK
<1>1. CASE SetUpLlm
    BY <1>0, <1>a, <1>1 DEF SetUpLlm
<1>2. CASE FindSpec
    BY <1>0, <1>a, <1>2 DEF FindSpec
<1>3. CASE UseCatalog
    BY <1>0, <1>a, <1>3 DEF UseCatalog
<1>4. CASE Introspect
    <2>0. phase = "introspect" /\ catalog = NoMetadata /\ active \in Conns
        BY <1>4, <1>a DEF Introspect
    <2>1. ASSUME NEW m \in MetadataOf(active), catalog' = m, phase' = "select", UNCHANGED outcome
          PROVE  IInv'
        <3>1. m # NoMetadata /\ m.of = active
            BY <1>a, <2>0, <2>1, MetadataRead, MetadataType
        <3>2. metadata = NoMetadata
            BY <2>0, <3>1
        <3>. QED
            BY <1>0, <1>4, <2>0, <2>1, <3>1, <3>2 DEF Introspect
    <2>2. CASE Over("error") /\ UNCHANGED catalog
        BY <1>0, <1>4, <2>0, <2>2 DEF Introspect
    <2>. QED
        BY <1>4, <2>1, <2>2 DEF Introspect
<1>5. CASE NoTables
    BY <1>0, <1>a, <1>5 DEF NoTables
<1>6. CASE WarnOfSamples
    BY <1>0, <1>a, <1>6 DEF WarnOfSamples
<1>7. CASE CollectSamples
    <2>1. sampled' \subseteq selected /\ (sampled' # {} => active \in OptIn \cap warned)
        BY <1>7 DEF CollectSamples
    <2>2. /\ catalog # NoMetadata /\ phase = "sample" /\ phase' = "generate"
          /\ UNCHANGED <<catalog, pinned, selected, attempts, sql, warned, told, outcome>>
        BY <1>7 DEF CollectSamples
    <2>. QED
        BY <1>0, <1>7, <2>1, <2>2 DEF CollectSamples, MaxAttempts
<1>8. CASE Generate
    BY <1>0, <1>a, <1>8 DEF Generate
<1>9. CASE Audit
    BY <1>0, <1>a, <1>9 DEF Audit
<1>10. CASE RunSql
    BY <1>0, <1>a, <1>10 DEF RunSql
<1>11. CASE Analyze
    BY <1>0, <1>a, <1>11 DEF Analyze
<1>. QED
    BY <1>1, <1>2, <1>3, <1>4, <1>5, <1>6, <1>7, <1>8, <1>9, <1>10, <1>11 DEF AgentStep, QuietStep

-----------------------------------------------------------------------------
(* At the prompt: whatever warm() comes to, the cache is of the connection  *)
(* in use and knows every pin that it knew.                                 *)
LEMMA WarmKeepsCatalog ==
    ASSUME IInv, active # NoConn, Warm, UNCHANGED <<active, uses>>
    PROVE  /\ CacheTypeOK'
           /\ metadata' # NoMetadata =>
                  connectionId' = active /\ metadata'.of = active /\ metadata'.read = uses
           /\ pins \subseteq TableNames'
<1>. USE DEF IInv, TypeOK, CacheTypeOK, CacheIsOfActive, PinsAreInCatalog, TableNames, IsWarm
<1>1. CASE WarmHit \/ WarmRaises
    BY <1>1 DEF WarmHit, WarmRaises, KeepMetadata
<1>2. CASE WarmMiss
    <2>1. PICK m \in MetadataOf(active) : Load(m, active)
        BY <1>2 DEF WarmMiss
    <2>2. m \in Metadata /\ m.of = active /\ m.read = uses
        BY <2>1, MetadataRead
    <2>3. pins = {}
        BY <1>2 DEF WarmMiss
    <2>. QED
        BY <2>1, <2>2, <2>3 DEF Load
<1>. QED
    BY <1>1, <1>2 DEF Warm

(* Commands and key presses happen between questions. *)
LEMMA PromptStepSafe ==
    ASSUME IInv,
           \/ Enter \/ TypeMention \/ ShowCatalog \/ TypeSql \/ Exit
           \/ Use \/ UseUnreadable \/ UseFails
    PROVE  IInv'
<1>. USE DEF IInv, TypeOK, CacheTypeOK, AgentTypeOK,
         CacheIsOfActive, Progressed, TablesAreInCatalog, SampledAfterWarning,
         PinsAreInCatalog, QuestionSeesSessionCatalog, PinsReachThePrompt, SelectedHere,
         BeforeSelection, WithCatalog, CatalogTables, IsWarm, TableNames,
         question, rows, agentVars, cacheVars
<1>1. CASE Enter
    <2>1. CASE active = NoConn
        BY <1>1, <2>1 DEF Enter, KeepMetadata
    <2>2. CASE active # NoConn
        BY <1>1, <2>2, WarmKeepsCatalog DEF Enter
    <2>. QED
        BY <2>1, <2>2
<1>2. CASE TypeMention
    BY <1>2, MetadataType DEF TypeMention
<1>3. CASE ShowCatalog
    BY <1>3, WarmKeepsCatalog DEF ShowCatalog
<1>4. CASE TypeSql
    <2>1. PICK s \in Approved[active] : ran' = {[sql |-> s, on |-> active]}
        BY <1>4 DEF TypeSql
    <2>2. s \in Statements /\ active \in Conns
        BY <1>4, <2>1, ApprovedAssumption DEF TypeSql
    <2>3. ran' \subseteq Sent
        BY <2>1, <2>2 DEF Sent
    <2>. QED
        BY <1>4, <2>3 DEF TypeSql
<1>5. CASE Exit
    BY <1>5 DEF Exit
<1>6. CASE Use
    BY <1>6, MetadataRead, MetadataReread, NoConnAssumption DEF Use, TypeUse, DropSelectionAndPins, Load
<1>7. CASE UseUnreadable
    BY <1>7, NoConnAssumption DEF UseUnreadable, TypeUse, DropSelectionAndPins, Invalidate
<1>8. CASE UseFails
    BY <1>8 DEF UseFails, TypeUse, DropSelectionAndPins, Invalidate
<1>. QED
    BY <1>1, <1>2, <1>3, <1>4, <1>5, <1>6, <1>7, <1>8

(* A question is handed to the agent, in the session or without one. *)
LEMMA AskSafe ==
    ASSUME IInv, OneShot \/ Ask
    PROVE  IInv'
<1>a. /\ MaxQuestions \in Nat \ {0}
      /\ asked \in 0 .. MaxQuestions
      /\ at = "start" => asked < MaxQuestions
    BY MaxQuestionsAssumption DEF IInv, TypeOK, CacheIsOfActive
<1>b. ASSUME Ask
      PROVE  /\ CacheTypeOK'
             /\ metadata' # NoMetadata =>
                    connectionId' = active /\ metadata'.of = active /\ metadata'.read = uses
             /\ pins \subseteq TableNames'
    <2>1. Warm /\ active # NoConn /\ UNCHANGED <<active, uses>>
        BY <1>b DEF Ask, AskHandingOver, Warm
    <2>. QED
        BY <2>1, WarmKeepsCatalog
<1>. USE DEF IInv, TypeOK, CacheTypeOK, AgentTypeOK,
         CacheIsOfActive, Progressed, TablesAreInCatalog, SampledAfterWarning,
         PinsAreInCatalog, QuestionSeesSessionCatalog, PinsReachThePrompt, SelectedHere,
         BeforeSelection, WithCatalog, CatalogTables, IsWarm, TableNames,
         Phases, Outcomes, question, rows, agentVars, cacheVars
<1>1. CASE OneShot
    <2>1. CASE active = NoConn
        BY <1>1, <2>1 DEF OneShot
    <2>2. CASE active # NoConn
        <3>1. asked' \in 0 .. MaxQuestions
            <4>1. at = "start" /\ asked' = asked + 1
                BY <1>1, <2>2 DEF OneShot
            <4>. QED
                BY <1>a, <4>1, OneMore
        <3>2. at' = "one-shot" /\ at = "start" /\ UNCHANGED <<cacheVars, pins, lastSelection>>
            BY <1>1, <2>2 DEF OneShot
        <3>3. Execute({}, NoMetadata)
            BY <1>1, <2>2 DEF OneShot
        <3>. QED
            BY <2>2, <3>1, <3>2, <3>3 DEF Execute
    <2>. QED
        BY <2>1, <2>2
<1>2. CASE Ask
    <2>0. at = "prompt" /\ active \in Conns /\ UNCHANGED <<active, uses, pins, lastSelection>>
        BY <1>2 DEF Ask, AskHandingOver
    <2>1. asked' \in 0 .. MaxQuestions
        <3>1. asked < MaxQuestions /\ asked' = asked + 1
            BY <1>2 DEF Ask, AskHandingOver
        <3>. QED
            BY <1>a, <3>1, OneMore
    <2>2. PICK given \in {metadata', NoMetadata} :
              Execute(pins, given) /\ (given = NoMetadata => metadata' = NoMetadata)
        BY <1>2 DEF Ask, AskHandingOver, WarmHit, WarmMiss, WarmRaises, KeepMetadata
    <2>3. at' = "asking"
        BY <1>2 DEF Ask, AskHandingOver
    <2>4. /\ phase = "idle" /\ phase' = "setup" /\ catalog' = given /\ pinned' = pins
          /\ ran' = {} /\ told' = {} /\ outcome' = "none"
          /\ UNCHANGED <<selected, sampled, warned, attempts, sql>>
        BY <2>2 DEF Execute
    <2>5. TypeOK'
        BY <1>2, <1>b, <2>0, <2>1, <2>2, <2>3, <2>4
    <2>6. CacheIsOfActive'
        BY <1>2, <1>b, <2>0, <2>3, NoConnAssumption
    <2>7. Progressed'
        <3>1. attempts' = 0 /\ sampled' = {} /\ selected' = {} /\ active' # NoConn
            BY <2>0, <2>4, NoConnAssumption
        <3>. QED
            BY <2>2, <2>4, <3>1
    <2>8. TablesAreInCatalog'
        BY <1>2, <1>b, <2>2, <2>4
    <2>9. /\ SampledAfterWarning' /\ PinsAreInCatalog'
          /\ QuestionSeesSessionCatalog' /\ PinsReachThePrompt' /\ SelectedHere'
        BY <1>2, <1>b, <2>0, <2>2, <2>3, <2>4
    <2>. QED
        BY <2>5, <2>6, <2>7, <2>8, <2>9
<1>. QED
    BY <1>1, <1>2

(* A question selects its tables and ends. *)
LEMMA QuestionStepSafe ==
    ASSUME IInv, KeepSelection \/ IgnoreSelection \/ Finish \/ OneShotEnds \/ Interrupt
    PROVE  IInv'
<1>. USE DEF IInv, TypeOK, CacheTypeOK, AgentTypeOK,
         CacheIsOfActive, Progressed, TablesAreInCatalog, SampledAfterWarning,
         PinsAreInCatalog, QuestionSeesSessionCatalog, PinsReachThePrompt, SelectedHere,
         BeforeSelection, WithCatalog, CatalogTables, IsWarm, TableNames,
         Phases, question, rows, agentVars, cacheVars, sessionVars
<1>1. ASSUME SelectTables, active \in Conns
      PROVE  /\ catalog # NoMetadata /\ pinned \subseteq selected' /\ selected' \subseteq catalog.tables
             /\ catalog.tables \subseteq Tables
             /\ phase = "select" /\ phase' = "sample"
             /\ UNCHANGED <<catalog, pinned, sampled, attempts, sql, warned, rows, outcome>>
    BY <1>1, SelectionsHoldPins, MetadataType DEF SelectTables
<1>2. CASE KeepSelection
    <2>1. SelectTables /\ active \in Conns
        BY <1>2 DEF KeepSelection, SelectTables
    <2>2. /\ at = "asking"
          /\ lastSelection' = [tables |-> selected', question |-> asked, on |-> active]
          /\ UNCHANGED <<cacheVars, at, pins, asked>>
        BY <1>2 DEF KeepSelection
    <2>3. asked \in Nat
        OBVIOUS
    <2>4. lastSelection' \in Selection /\ lastSelection'.on = active
        BY <1>1, <2>1, <2>2, <2>3 DEF Selection
    <2>. QED
        BY <1>1, <2>1, <2>2, <2>4
<1>3. CASE IgnoreSelection
    <2>1. SelectTables /\ active \in Conns
        BY <1>3 DEF IgnoreSelection, SelectTables
    <2>2. UNCHANGED <<cacheVars, sessionVars>>
        BY <1>3 DEF IgnoreSelection
    <2>. QED
        BY <1>1, <2>1, <2>2
<1>4. CASE Finish
    BY <1>4 DEF Finish, Forget, MaxAttempts
<1>5. CASE OneShotEnds
    BY <1>5 DEF OneShotEnds, Forget, MaxAttempts
<1>6. CASE Interrupt
    BY <1>6 DEF Interrupt, Forget, MaxAttempts, Running
<1>. QED
    BY <1>2, <1>3, <1>4, <1>5, <1>6

-----------------------------------------------------------------------------
(* What was sent, and the rows that were told. *)

(* Nothing was sent for a question that has not come to its samples. *)
LEMMA NothingSent ==
    ASSUME ran' = {}, told' = {}, phase' # "analyze"
    PROVE  RowsInv'
BY DEF RowsInv, OnlyAuditedSqlOrSamplesRun, ToldSamplesOrAnswer, RowsProgressed

(* Between questions there is nothing but the record of what was sent. *)
LEMMA SentIsKept ==
    ASSUME RowsInv, phase' = "idle", told' = {}, UNCHANGED ran, warned \subseteq warned'
    PROVE  RowsInv'
<1>1. OnlyAuditedSqlOrSamplesRun'
    BY DEF RowsInv, OnlyAuditedSqlOrSamplesRun
<1>. QED
    BY <1>1 DEF RowsInv, ToldSamplesOrAnswer, RowsProgressed

(* The sample queries of what was selected, where samples were announced. *)
LEMMA SamplesSafe ==
    ASSUME NEW r \in Samples(selected, active), selected \subseteq Tables, active \in OptIn \cap warned
    PROVE  /\ r.on \in OptIn \cap warned
           /\ \E t \in Tables : r.sql = SampleOf(t) /\ (phase # "idle" => t \in selected)
<1>1. PICK t \in selected : r = [sql |-> SampleOf(t), on |-> active]
    BY DEF Samples
<1>2. r.on = active /\ r.sql = SampleOf(t)
    BY <1>1
<1>. QED
    BY <1>2

(* The steps of the agent send what the sentry accepted or announced samples, *)
(* and tell rows of the one or the other.                                     *)
LEMMA AgentStepRows ==
    ASSUME IInv, RowsInv, AgentStep
    PROVE  RowsInv'
<1>0. UNCHANGED active
    BY DEF AgentStep, cacheVars
<1>a. selected \subseteq Tables
    BY DEF IInv, TypeOK, AgentTypeOK
<1>1. CASE SetUpLlm \/ FindSpec \/ UseCatalog \/ Introspect \/ NoTables \/ WarnOfSamples
    BY <1>1, NothingSent
       DEF SetUpLlm, FindSpec, UseCatalog, Introspect, NoTables, WarnOfSamples, Over, rows,
           RowsInv, RowsProgressed, BeforeSelection
<1>2. CASE CollectSamples
    <2>1. /\ phase = "sample" /\ phase' = "generate" /\ ran = {} /\ told = {}
          /\ UNCHANGED <<selected, warned, told>>
        BY <1>2 DEF CollectSamples, RowsInv, RowsProgressed
    <2>2. CASE active \notin OptIn
        BY <1>2, <2>1, <2>2, NothingSent DEF CollectSamples
    <2>3. CASE active \in OptIn
        <3>1. active \in warned /\ ran' = Samples(selected, active)
            BY <1>2, <2>1, <2>3 DEF CollectSamples
        <3>2. OnlyAuditedSqlOrSamplesRun'
            BY <1>a, <2>1, <2>3, <3>1, SamplesSafe DEF OnlyAuditedSqlOrSamplesRun
        <3>. QED
            BY <2>1, <3>2 DEF RowsInv, ToldSamplesOrAnswer, RowsProgressed, BeforeSelection
    <2>. QED
        BY <2>2, <2>3
<1>3. CASE Generate
    <2>1. /\ phase = "generate" /\ phase' \in {"audit", "over"}
          /\ told' = told \cup Samples(sampled, active)
          /\ UNCHANGED <<selected, sampled, warned, ran>>
        BY <1>3 DEF Generate, Over
    <2>2. told' \subseteq Samples(sampled', active')
        BY <1>0, <2>1 DEF RowsInv, RowsProgressed
    <2>3. OnlyAuditedSqlOrSamplesRun'
        BY <2>1 DEF RowsInv, OnlyAuditedSqlOrSamplesRun
    <2>. QED
        BY <2>1, <2>2, <2>3 DEF RowsInv, ToldSamplesOrAnswer, RowsProgressed, BeforeSelection
<1>4. CASE Audit
    <2>1. /\ phase = "audit" /\ phase' \in {"execute", "over"}
          /\ UNCHANGED <<selected, sampled, warned, ran, told>>
        BY <1>4 DEF Audit, Over, question, rows
    <2>2. told' \subseteq Samples(sampled', active')
        BY <1>0, <2>1 DEF RowsInv, RowsProgressed
    <2>3. OnlyAuditedSqlOrSamplesRun'
        BY <2>1 DEF RowsInv, OnlyAuditedSqlOrSamplesRun
    <2>. QED
        BY <2>1, <2>2, <2>3 DEF RowsInv, ToldSamplesOrAnswer, RowsProgressed, BeforeSelection
<1>5. CASE RunSql
    <2>1. /\ phase = "execute" /\ phase' \in {"generate", "analyze", "over"}
          /\ ran' = ran \cup {[sql |-> sql, on |-> active]}
          /\ UNCHANGED <<selected, sampled, sql, warned, told>>
        BY <1>5 DEF RunSql, Over, question
    <2>2. told' \subseteq Samples(sampled', active')
        BY <1>0, <2>1 DEF RowsInv, RowsProgressed
    <2>3. sql \in Approved[active]
        BY <2>1 DEF IInv, Progressed
    <2>4. OnlyAuditedSqlOrSamplesRun'
        BY <2>1, <2>3 DEF RowsInv, OnlyAuditedSqlOrSamplesRun
    <2>. QED
        BY <1>0, <2>1, <2>2, <2>4 DEF RowsInv, ToldSamplesOrAnswer, RowsProgressed, BeforeSelection
<1>6. CASE Analyze
    <2>1. /\ phase = "analyze" /\ phase' = "over"
          /\ told' \subseteq told \cup {[sql |-> sql, on |-> active]}
          /\ UNCHANGED <<selected, sampled, sql, warned, ran>>
        BY <1>6 DEF Analyze, Over, question
    <2>2. /\ sql \in Approved[active] /\ [sql |-> sql, on |-> active] \in ran
          /\ told \subseteq Samples(sampled, active)
        BY <2>1 DEF IInv, Progressed, RowsInv, RowsProgressed
    <2>3. OnlyAuditedSqlOrSamplesRun'
        BY <2>1 DEF RowsInv, OnlyAuditedSqlOrSamplesRun
    <2>4. ToldSamplesOrAnswer'
        BY <1>0, <2>1, <2>2 DEF ToldSamplesOrAnswer
    <2>. QED
        BY <2>1, <2>3, <2>4 DEF RowsInv, RowsProgressed, BeforeSelection
<1>. QED
    BY <1>1, <1>2, <1>3, <1>4, <1>5, <1>6 DEF AgentStep, QuietStep

(* The other steps send nothing but what is typed as /sql. *)
LEMMA SessionStepRows ==
    ASSUME IInv, RowsInv, Next, ~ AgentStep
    PROVE  RowsInv'
<1>0. (at \in {"start", "prompt"} => phase = "idle") /\ (phase = "idle" => told = {})
    BY DEF IInv, TypeOK, RowsInv, RowsProgressed, BeforeSelection
<1>1. CASE \/ Enter \/ TypeMention \/ ShowCatalog \/ Exit
           \/ Use \/ UseUnreadable \/ UseFails \/ (OneShot /\ UNCHANGED agentVars)
    <2>1. phase = "idle" /\ UNCHANGED agentVars
        BY <1>0, <1>1 DEF Enter, TypeMention, ShowCatalog, Exit, Use, UseUnreadable, UseFails,
               TypeUse, OneShot
    <2>. QED
        BY <1>0, <2>1, SentIsKept DEF agentVars, rows
<1>2. CASE TypeSql
    <2>1. PICK s \in Approved[active] : ran' = {[sql |-> s, on |-> active]}
        BY <1>2 DEF TypeSql
    <2>2. phase' = "idle" /\ told' = {}
        BY <1>0, <1>2 DEF TypeSql
    <2>3. OnlyAuditedSqlOrSamplesRun'
        BY <2>1 DEF OnlyAuditedSqlOrSamplesRun
    <2>. QED
        BY <2>2, <2>3 DEF RowsInv, ToldSamplesOrAnswer, RowsProgressed
<1>3. CASE Ask \/ (OneShot /\ ~ UNCHANGED agentVars)
    BY <1>3, NothingSent DEF Ask, AskHandingOver, OneShot, Execute
<1>4. CASE KeepSelection \/ IgnoreSelection
    <2>1. SelectTables
        BY <1>4 DEF KeepSelection, IgnoreSelection
    <2>. QED
        BY <2>1, NothingSent DEF SelectTables, rows, RowsInv, RowsProgressed, BeforeSelection
<1>5. CASE Finish \/ OneShotEnds \/ Interrupt
    <2>1. Forget
        BY <1>5 DEF Finish, OneShotEnds, Interrupt
    <2>. QED
        BY <2>1, SentIsKept DEF Forget
<1>. QED
    BY <1>1, <1>2, <1>3, <1>4, <1>5 DEF Next, Question

LEMMA RowsStutter ==
    ASSUME RowsInv, UNCHANGED vars
    PROVE  RowsInv'
BY DEF vars, question, rows, agentVars, cacheVars, RowsInv, OnlyAuditedSqlOrSamplesRun,
       ToldSamplesOrAnswer, RowsProgressed

-----------------------------------------------------------------------------
(* The selection recorded for /why. *)
LEMMA WhyKept ==
    ASSUME IInv, WhyInv, [Next]_vars
    PROVE  WhyInv'
<1>. USE DEF WhyInv, SelectedLast, SelectedForAsked
<1>0. at \in {"start", "prompt"} => phase = "idle"
    BY DEF IInv, TypeOK
<1>1. CASE AgentStep
    <2>1. UNCHANGED <<at, lastSelection, asked>>
        BY <1>1 DEF AgentStep, sessionVars
    <2>2. /\ phase' \in AfterSelection => phase \in AfterSelection
          /\ phase' = "over" /\ phase \notin AfterSelection =>
                 outcome' \in {"error", "no tables"}
          /\ phase # "over"
          /\ at \notin {"start", "prompt"}
        BY <1>0, <1>1 DEF AgentStep, QuietStep, SetUpLlm, FindSpec, UseCatalog, Introspect, NoTables,
               WarnOfSamples, CollectSamples, Generate, Audit, RunSql, Analyze, Over, AfterSelection
    <2>. QED
        BY <2>1, <2>2
<1>2. CASE KeepSelection
    <2>1. /\ lastSelection' = [tables |-> selected', question |-> asked, on |-> active]
          /\ lastSelection' \in Selection \cup {NoSelection}
          /\ at' = "asking" /\ asked' = asked
        BY <1>2, QuestionStepSafe DEF KeepSelection, IInv, TypeOK
    <2>2. lastSelection' # NoSelection
        BY <1>2, RecordedIsSelection
    <2>3. lastSelection'.question = asked'
        BY <2>1
    <2>. QED
        BY <2>1, <2>2, <2>3
<1>3. CASE IgnoreSelection \/ OneShotEnds \/ Interrupt \/ Exit
    BY <1>3 DEF IgnoreSelection, OneShotEnds, Interrupt, Exit, sessionVars
<1>4. CASE Finish
    <2>1. /\ at = "asking" /\ phase = "over" /\ at' = "prompt"
          /\ UNCHANGED <<lastSelection, asked, outcome>>
        BY <1>4 DEF Finish, Forget
    <2>. QED
        BY <2>1
<1>5. CASE Enter
    BY <1>5 DEF Enter
<1>6. CASE TypeMention \/ ShowCatalog \/ TypeSql
    BY <1>6 DEF TypeMention, ShowCatalog, TypeSql, agentVars
<1>7. CASE Use \/ UseUnreadable \/ UseFails
    BY <1>7 DEF Use, UseUnreadable, UseFails, TypeUse, DropSelectionAndPins
<1>8. CASE OneShot
    BY <1>8 DEF OneShot
<1>9. CASE Ask
    BY <1>9 DEF Ask, AskHandingOver, Execute, AfterSelection
<1>10. CASE UNCHANGED vars
    BY <1>10 DEF vars, agentVars, sessionVars
<1>. QED
    BY <1>1, <1>2, <1>3, <1>4, <1>5, <1>6, <1>7, <1>8, <1>9, <1>10 DEF Next, Question

-----------------------------------------------------------------------------
(* The invariant, and what follows from it. *)

LEMMA InitSafe == Init => IInv
BY MaxQuestionsAssumption
   DEF Init, AgentInit, IInv, TypeOK, CacheTypeOK, AgentTypeOK, MaxAttempts,
         CacheIsOfActive, Progressed, TablesAreInCatalog, SampledAfterWarning,
         PinsAreInCatalog, QuestionSeesSessionCatalog, PinsReachThePrompt, SelectedHere,
         BeforeSelection, WithCatalog, CatalogTables, IsWarm, TableNames, Phases, Outcomes

LEMMA StutterSafe ==
    ASSUME IInv, UNCHANGED vars
    PROVE  IInv'
BY DEF vars, question, rows, agentVars, cacheVars, sessionVars,
       IInv, TypeOK, CacheTypeOK, AgentTypeOK,
         CacheIsOfActive, Progressed, TablesAreInCatalog, SampledAfterWarning,
         PinsAreInCatalog, QuestionSeesSessionCatalog, PinsReachThePrompt, SelectedHere,
         CatalogTables, IsWarm, TableNames

LEMMA Invariance == Spec => []IInv
<1>1. IInv /\ [Next]_vars => IInv'
    BY AgentStepSafe, PromptStepSafe, AskSafe, QuestionStepSafe, StutterSafe DEF Next, Question
<1>. QED
    BY <1>1, InitSafe, PTL DEF Spec

LEMMA RowsInvariance == Spec => []RowsInv
<1>1. Init => RowsInv
    BY DEF Init, AgentInit, RowsInv, OnlyAuditedSqlOrSamplesRun, ToldSamplesOrAnswer, RowsProgressed
<1>2. IInv /\ RowsInv /\ [Next]_vars => RowsInv'
    BY AgentStepRows, SessionStepRows, RowsStutter
<1>. QED
    BY <1>1, <1>2, Invariance, PTL DEF Spec

LEMMA WhyInvariance == Spec => []WhyInv
<1>1. Init => WhyInv
    BY DEF Init, WhyInv, SelectedLast
<1>. QED
    BY <1>1, WhyKept, Invariance, PTL DEF Spec

(* Every variable keeps its type, and a question is under way exactly while *)
(* the session waits for one.                                               *)
THEOREM SessionTyped == Spec => []TypeOK
<1>1. IInv => TypeOK
    BY DEF IInv
<1>. QED
    BY <1>1, Invariance, PTL

(* The catalog served describes the database in use, as read since the last *)
(* switch, whatever failed in between.                                      *)
THEOREM CatalogCurrent == Spec => []CatalogIsCurrent
<1>1. IInv => CatalogIsCurrent
    BY DEF IInv, CacheIsOfActive, CatalogIsCurrent, IsWarm
<1>. QED
    BY <1>1, Invariance, PTL

(* Every pin names a table of the catalog on hand, after failed switches    *)
(* and failed readings too.                                                 *)
THEOREM PinsInCatalog == Spec => []PinsAreInCatalog
<1>1. IInv => PinsAreInCatalog
    BY DEF IInv
<1>. QED
    BY <1>1, Invariance, PTL

(* A question is answered from the catalog that the completer offers from,  *)
(* and that one is of the database the query will run on.                   *)
THEOREM OneCatalog == Spec => []QuestionSeesSessionCatalog
<1>1. IInv => QuestionSeesSessionCatalog
    BY DEF IInv
<1>. QED
    BY <1>1, Invariance, PTL

(* A pin typed is in the prompt of the question it was typed for, whatever  *)
(* the cap, the number of tables and the number of pins.                    *)
THEOREM PinsReached == Spec => []PinsReachThePrompt
<1>1. IInv => PinsReachThePrompt
    BY DEF IInv
<1>. QED
    BY <1>1, Invariance, PTL

(* No step ends a question without forgetting its pins, ^C included. *)
THEOREM PinsSpent == Spec => PinsAreSpent
<1>1. ASSUME [Next]_vars, at = "asking", at' # "asking"
      PROVE  pins' = {}
    <2>. USE <1>1 DEF sessionVars
    <2>1. CASE Finish \/ Interrupt
        BY <2>1 DEF Finish, Interrupt
    <2>2. CASE KeepSelection \/ IgnoreSelection \/ OneShotEnds \/ AgentStep
        BY <2>2 DEF KeepSelection, IgnoreSelection, OneShotEnds, AgentStep
    <2>3. CASE \/ Enter \/ TypeMention \/ ShowCatalog \/ TypeSql \/ Exit
               \/ Use \/ UseUnreadable \/ UseFails \/ OneShot \/ Ask
        BY <2>3 DEF Enter, TypeMention, ShowCatalog, TypeSql, Exit, Use, UseUnreadable, UseFails,
                    TypeUse, OneShot, Ask, AskHandingOver
    <2>4. CASE UNCHANGED vars
        BY <2>4 DEF vars
    <2>. QED
        BY <2>1, <2>2, <2>3, <2>4 DEF Next, Question
<1>. QED
    BY <1>1, PTL DEF Spec, PinsAreSpent

(* What /why has recorded was selected on the connection in use and, at the  *)
(* prompt, for the last question, unless that one ended in an error or       *)
(* without tables.                                                           *)
THEOREM SelectionOfConnection == Spec => []SelectionIsOfThisConnection
<1>1. IInv /\ WhyInv => SelectionIsOfThisConnection
    BY DEF IInv, WhyInv, SelectionIsOfThisConnection
<1>. QED
    BY <1>1, Invariance, WhyInvariance, PTL

(* Whatever statement is sent, the policy of its database has accepted it, be *)
(* it generated, repaired or typed, or it is the sample query of a table that *)
(* was selected, on a connection that opted in and after the warning.         *)
THEOREM OnlyApprovedOrSamples == Spec => []OnlyAuditedSqlOrSamplesRun
<1>1. RowsInv => OnlyAuditedSqlOrSamplesRun
    BY DEF RowsInv
<1>. QED
    BY <1>1, RowsInvariance, PTL

(* Whatever rows a prompt holds, they are sample rows of tables that were     *)
(* selected, on a connection that opted in and after the warning, or those of *)
(* the accepted statement that answers the question.                          *)
THEOREM SamplesAnnounced == Spec => []SamplesOnlyAfterWarning
<1>1. IInv /\ RowsInv => SamplesOnlyAfterWarning
    BY DEF IInv, RowsInv, SamplesOnlyAfterWarning
<1>. QED
    BY <1>1, Invariance, RowsInvariance, PTL
=============================================================================
