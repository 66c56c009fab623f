-------------------------------- MODULE Agent --------------------------------
(***************************************************************************)
(* schemapilot/agent.py, execute(): one question from LLM set-up to answer.*)
(*                                                                         *)
(* execute() is an async generator run by a single thread.  Each action    *)
(* here is what it does between two awaits, yields or calls that may raise,*)
(* so the caller's handling of an event, or a ^C, comes between them.      *)
(***************************************************************************)
EXTENDS SchemaCache, TableSelection

CONSTANTS
    Statements,  \* SQL texts, as far as the sentry tells them apart
    NoSql,       \* no statement yet
    Approved,    \* Approved[c]: what the sentry accepts under c's engine policy
    OptIn,       \* connections whose profile sets include_samples
    PromptCap    \* MAX_PROMPT_TABLES

ASSUME ApprovedAssumption == Approved \in [Conns -> SUBSET Statements]
ASSUME NoSqlAssumption == NoSql \notin Statements
ASSUME OptInAssumption == OptIn \subseteq Conns
ASSUME PromptCapAssumption == PromptCap \in Nat \ {0}

MaxAttempts == 3

VARIABLES
    phase,     \* where execute() stands
    catalog,   \* its `catalog': handed over, or introspected
    pinned,    \* its `pinned_tables'
    selected,  \* the tables whose schema goes into the prompt
    sampled,   \* the tables of which real rows go into the prompt
    warned,    \* _sample_warnings_emitted (the LLM target is fixed)
    attempts,  \* generations so far
    sql,       \* sql_query
    ran,       \* history: [sql, on] of the statements sent for this question
    told,      \* history: those of which rows went into a prompt of this question
    outcome    \* history: how the last question ended

question == <<catalog, pinned, selected, sampled, attempts, sql>>
rows == <<ran, told>>
agentVars == <<phase, question, warned, rows, outcome>>

Phases == {"idle", "setup", "spec", "introspect", "select", "sample", "generate",
           "audit", "execute", "analyze", "over"}
Outcomes == {"none", "answer", "no tables", "blocked", "error", "exception"}

(* The statements sent for a question: what the model wrote or the user      *)
(* typed, and the sample query of a table.                                   *)
SampleOf(t) == <<"sample", t>>
Samples(S, c) == {[sql |-> SampleOf(t), on |-> c] : t \in S}
Sent == [sql : Statements \cup {SampleOf(t) : t \in Tables}, on : Conns]

Running == phase \notin {"idle", "over"}

AgentInit ==
    /\ phase = "idle"
    /\ catalog = NoMetadata
    /\ pinned = {}
    /\ selected = {}
    /\ sampled = {}
    /\ warned = {}
    /\ attempts = 0
    /\ sql = NoSql
    /\ ran = {}
    /\ told = {}
    /\ outcome = "none"

(* execute(query, pinned_tables = pins, catalog = given) is called... *)
Execute(pins, given) ==
    /\ phase = "idle"
    /\ phase' = "setup"
    /\ catalog' = given
    /\ pinned' = pins
    /\ ran' = {}
    /\ told' = {}
    /\ outcome' = "none"
    /\ UNCHANGED <<selected, sampled, warned, attempts, sql>>

(* ...the generator ends, with its last event or an exception... *)
Over(how) == phase' = "over" /\ outcome' = how

(* ...and its locals go. *)
ForgetAllButAttempts ==
    /\ phase' = "idle"
    /\ catalog' = NoMetadata
    /\ pinned' = {}
    /\ selected' = {}
    /\ sampled' = {}
    /\ sql' = NoSql
    /\ told' = {}
    /\ UNCHANGED <<attempts, warned, ran, outcome>>

Forget ==
    /\ phase' = "idle"
    /\ catalog' = NoMetadata
    /\ pinned' = {}
    /\ selected' = {}
    /\ sampled' = {}
    /\ attempts' = 0
    /\ sql' = NoSql
    /\ told' = {}
    /\ UNCHANGED <<warned, ran, outcome>>

-----------------------------------------------------------------------------

(* get_llm: a missing key or unknown provider is an error event. *)
SetUpLlm ==
    /\ phase = "setup"
    /\ \/ phase' = "spec" /\ UNCHANGED outcome
       \/ Over("error")
    /\ UNCHANGED <<question, warned, rows>>

(* The active spec, without which the database is offline. *)
FindSpec ==
    /\ phase = "spec"
    /\ IF active = NoConn
          THEN Over("error")
          ELSE phase' = "introspect" /\ UNCHANGED outcome
    /\ UNCHANGED <<question, warned, rows>>

(* A catalog that was handed over is taken as it is; else it is read here. *)
AlwaysIntrospect ==
    /\ phase = "introspect"
    /\ \E m \in MetadataOf(active) : catalog' = m
    /\ phase' = "select"
    /\ UNCHANGED <<pinned, selected, sampled, attempts, sql, warned, rows, outcome>>

UseCatalog ==
    /\ phase = "introspect"
    /\ catalog # NoMetadata
    /\ phase' = "select"
    /\ UNCHANGED <<question, warned, rows, outcome>>

Introspect ==
    /\ phase = "introspect"
    /\ catalog = NoMetadata
    /\ \/ \E m \in MetadataOf(active) : catalog' = m /\ phase' = "select" /\ UNCHANGED outcome
       \/ Over("error") /\ UNCHANGED catalog
    /\ UNCHANGED <<pinned, selected, sampled, attempts, sql, warned, rows>>

NoTables ==
    /\ phase = "select"
    /\ catalog.tables = {}
    /\ Over("no tables")
    /\ UNCHANGED <<question, warned, rows>>

(* select_relevant_tables. *)
SelectTables ==
    /\ phase = "select"
    /\ catalog.tables # {}
    /\ selected' \in Selections(catalog.tables, pinned, PromptCap)
    /\ phase' = "sample"
    /\ UNCHANGED <<catalog, pinned, sampled, attempts, sql, warned, rows, outcome>>

(* The one-time warning that real rows will be sent, before they are read. *)
WarnOfSamples ==
    /\ phase = "sample"
    /\ active \in OptIn \ warned
    /\ warned' = warned \cup {active}
    /\ UNCHANGED <<phase, question, rows, outcome>>

(* collect_samples: the sample query of every selected table is sent as it  *)
(* is built, past the sentry, and a table for which it fails is left out.    *)
SampleUnwarned ==
    /\ phase = "sample"
    /\ active \in OptIn
    /\ sampled' \in SUBSET selected
    /\ ran' = ran \cup Samples(selected, active)
    /\ phase' = "generate"
    /\ UNCHANGED <<catalog, pinned, selected, attempts, sql, warned, told, outcome>>

CollectSamples ==
    /\ phase = "sample"
    /\ IF active \in OptIn
          THEN /\ active \in warned
               /\ ran' = ran \cup Samples(selected, active)
               /\ sampled' \in SUBSET selected
          ELSE /\ UNCHANGED ran
               /\ sampled' = {}
    /\ phase' = "generate"
    /\ UNCHANGED <<catalog, pinned, selected, attempts, sql, warned, told, outcome>>

(* generate_sql: the prompt holds the schema and the sample rows; the model  *)
(* answers anything; its exceptions are not caught and end the generator.    *)
Generate ==
    /\ phase = "generate"
    /\ attempts' = attempts + 1
    /\ told' = told \cup Samples(sampled, active)
    /\ \/ sql' \in Statements /\ phase' = "audit" /\ UNCHANGED outcome
       \/ Over("exception") /\ UNCHANGED sql
    /\ UNCHANGED <<catalog, pinned, selected, sampled, warned, ran>>

(* validate_sql_query, on every attempt; a blocked query is not retried. *)
AuditFirstOnly ==
    /\ phase = "audit"
    /\ IF attempts > 1 \/ sql \in Approved[active]
          THEN phase' = "execute" /\ UNCHANGED outcome
          ELSE Over("blocked")
    /\ UNCHANGED <<question, warned, rows>>

Audit ==
    /\ phase = "audit"
    /\ IF sql \in Approved[active]
          THEN phase' = "execute" /\ UNCHANGED outcome
          ELSE Over("blocked")
    /\ UNCHANGED <<question, warned, rows>>

(* db.execute_query: rows, or an error that is fed back to the model until *)
(* the attempts run out.                                                   *)
RetryForever ==
    /\ phase = "execute"
    /\ ran' = ran \cup {[sql |-> sql, on |-> active]}
    /\ phase' \in {"generate", "analyze"}
    /\ attempts' = 0
    /\ UNCHANGED <<catalog, pinned, selected, sampled, sql, warned, told, outcome>>

RunSql ==
    /\ phase = "execute"
    /\ ran' = ran \cup {[sql |-> sql, on |-> active]}
    /\ \/ phase' = "analyze" /\ UNCHANGED outcome
       \/ IF attempts < MaxAttempts
             THEN phase' = "generate" /\ UNCHANGED outcome
             ELSE Over("error")
    /\ UNCHANGED <<question, warned, told>>

(* analyze_and_format puts result rows into a prompt and catches what the    *)
(* model raises, not what building the prompt does; then the last event,     *)
(* whose raw rows json.dumps does not take if they hold a Decimal, a date or *)
(* bytes.                                                                    *)
Analyze ==
    /\ phase = "analyze"
    /\ \/ told' = told \cup {[sql |-> sql, on |-> active]} /\ Over("answer")
       \/ told' \in {told, told \cup {[sql |-> sql, on |-> active]}} /\ Over("exception")
    /\ UNCHANGED <<question, warned, ran>>

(* Every step of the generator but the selection, whose event the caller keeps. *)
QuietStep ==
    \/ SetUpLlm \/ FindSpec \/ UseCatalog \/ Introspect \/ NoTables
    \/ WarnOfSamples \/ CollectSamples
    \/ Generate \/ Audit \/ RunSql \/ Analyze

-----------------------------------------------------------------------------

AgentTypeOK ==
    /\ phase \in Phases
    /\ catalog \in Metadata \cup {NoMetadata}
    /\ pinned \subseteq Tables
    /\ selected \subseteq Tables
    /\ sampled \subseteq Tables
    /\ warned \subseteq Conns
    /\ attempts \in 0 .. MaxAttempts
    /\ sql \in Statements \cup {NoSql}
    /\ ran \subseteq Sent
    /\ told \subseteq Sent
    /\ outcome \in Outcomes

(* A statement that the model generated or repaired, or that the user typed, *)
(* reaches a database only if the sentry accepted it under that database's   *)
(* own engine policy (agent.py:460, commands.py:276).  All else that is sent *)
(* is the sample query of a table that was selected, on a connection that    *)
(* opted in and after the user was warned (agent.py:335-346, 424-438).       *)
OnlyAuditedSqlOrSamplesRun ==
    \A r \in ran :
        \/ r.sql \in Approved[r.on]
        \/ /\ r.on \in OptIn \cap warned
           /\ \E t \in Tables : r.sql = SampleOf(t) /\ (phase # "idle" => t \in selected)

(* The only rows in a prompt are sample rows, of tables that were selected,  *)
(* from a connection that opted in, after the user was warned (agent.py:326, *)
(* 424-438), and at the end the rows of the answer, for which nobody opts in *)
(* and nobody is warned: those of the statement run last, which the sentry   *)
(* accepted (agent.py:281-302).                                              *)
SampledAfterWarning ==
    sampled # {} =>
        /\ active \in OptIn \cap warned
        /\ sampled \subseteq selected /\ selected \subseteq catalog.tables

ToldSamplesOrAnswer ==
    \A r \in told :
        \/ r \in Samples(sampled, active)
        \/ /\ phase = "over" /\ r = [sql |-> sql, on |-> active]
           /\ r \in ran /\ sql \in Approved[active]

SamplesOnlyAfterWarning == SampledAfterWarning /\ ToldSamplesOrAnswer

=============================================================================
