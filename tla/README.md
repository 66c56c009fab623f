# TLA+ models of SchemaPilot

SchemaPilot is a local terminal client that answers questions about a database: it keeps
connection profiles and LLM profiles in two JSON files, holds one live SQLAlchemy engine,
caches the schema of the active connection, and runs each question through an agent that
selects tables, asks a model for SQL, audits it, runs it and summarises the rows. These
modules model the parts of it that keep state and the algorithms between a database and a prompt,
state what makes them correct, check that on small instances with TLC and prove every invariant of
it with TLAPS. Paths below are relative to
`src/schemapilot/`.

## 1. Inventory

| Component | State | Operations | Interacts with |
|---|---|---|---|
| Connection registry and engine (`db.py` `DatabaseManager`) | `connections` (a dict with an `is_active` flag per entry), `active_id`, `engine` | load and auto-connect at start; `select_connection` (build, probe, swap, dispose, persist), `test_connection`, `add_connection`, `delete_connection`, `execute_query`, `get_schema_metadata` | `connections.json`; the CLI flags; `/use`; the agent reads `active_spec` and `active_config` |
| Credential files (`paths.py`) | `connections.json`, `models.json`, temporary files | `write_credential_json`: mkstemp, write, fsync, rename, clean-up | every save of the two managers, from any process |
| LLM profiles (`llm.py` `ModelProfileManager`) | `profiles`, `active_id` | load, `auto_activate_first`, `add_profile`, `select_profile`, `delete_profile` | `models.json`; the CLI flags; `get_llm` reads the active profile per question |
| Schema cache (`catalog.py` `SchemaCache`) | `_metadata`, `_connection_id` | `warm`, `invalidate`, reads that are empty when cold | reads the database; completer, `/tables`, `/schema` and the agent read it |
| Agent (`agent.py` `execute`) | locals of one question, `_sample_warnings_emitted` | set-up, introspection, selection, samples, generate, audit, execute, retry, analyse | LLM, sentry, pruning, database; streams events to its caller |
| REPL (`repl/`) | `pinned_tables`, `last_selection`, the cache | `/use`, `/tables`, `/schema`, `/sql`, `/why`, `/exit`, questions, `@` completion, ^C | everything above |
| One-shot question (`cli.py` `execute_query`) | none | the agent without cache or pins, then exit | agent |
| Introspection (`db.py` `_reflect`) | locals of one reading | resolves the namespace, lists schemas, reflects tables and keys, skips what fails | inspector of the active engine; engine spec; fills the cache |
| Pruning (`pruning.py`) | locals of one selection | resolves pins, scores, seeds, expands one hop, fills | catalog, names; called by the agent |
| Names (`names.py`) | none | match, resolve, complete | completer, cache, pruning |
| Sentry (`security.py`) | none | resolve the policy, parse, classify, walk | engine specs; the agent and `/sql` |
| Engine specs (`engines/`), configuration | none | static data | introspection, sentry, agent |
| Rendering (`rendering.py`) | none | formatting | CLI and REPL |

What is hard here:

- *Several processes* (two terminals, or a one-shot flag beside an open shell) share the two
  files without a lock. Each loads a file once and saves all of it.
- *A switch is a sequence* of build, probe, swap, dispose and persist, each of which may fail,
  and the process may be killed between any two of them.
- *Errors are swallowed* by design in many places: a failed load is an empty registry, a failed
  save is a log line, a table that cannot be reflected is skipped.
- *The session is a web of callbacks*: a keypress pins a table, events of the agent arrive between
  its steps, `/use` may fail half-way, and ^C is not an `Exception`.
- *The agent retries*: up to three generated statements per question, each to be audited.
- *A catalog is read call by call* while others may change the database, on six engines that
  disagree on what a schema is called, how it is listed and how a name is qualified.
- *Names are dotted strings* made in one place and read in four (completer, cache, pruning,
  sampler), and pieces may themselves hold dots or differ in case only.
- *A prompt has few slots*, and three loops compete for them: seeds, neighbours, fill.

What makes each part correct: the engine in use is the one `active_id` names and nothing else stays
open; the flag in the file has one meaning and is what the user last selected; a credential file is
never torn; a catalog served is the one of the connection in use; a pin is in the prompt of the
next question and is then spent; SQL that is generated, repaired or typed is audited before it
runs, and sample rows are read and sent after a warning only (the sample queries themselves are not
audited, and the rows of an answer go to the model without opt-in or warning); every question ends;
a catalog is of the configured namespace and says what it lacks; a plain name means one table to
everybody; a selection keeps pins, bridges and best matches within its cap; what the sentry lets
through changes nothing. The hazards with their source lines and the properties for each are in
`PROJECT.json`.

## 2. Modules

| Module | Models | State and actions |
|---|---|---|
| `ConnectionManager` | `db.py` `DatabaseManager`, the connection flags of `cli.py`, `/use` as far as the registry goes | per process: `reg` (connections), `active`, `engine`, and a program counter `pc`; `file` is `connections.json`. One action per step of a switch: `Create`, `ProbeFails`, `Swap`, `Release`, `Persist`; one per command: `SelectConn`, `TestConn`, `AddConn`, `DeleteConn`, `Use`; `Start`, `Stop` |
| `ActiveDatabase` | the promise of `select_connection`: a switch happens at once or not at all | per process `running`, `asked` (the database it was asked to move to), `using`; `Ask`, `Move`, `Stay`, `Disconnect` |
| `AtomicFile` | the promise of `paths.py`: a write happens at once or not at all, a read returns one version | `contents`, `stable` (what a power loss falls back to), `pending`, `got` |
| `CredentialFile` | `write_credential_json` and the loads of both managers, on inodes | `entry` and `stable` are the inodes the name refers to, in memory and on disk; `tmp`, `data`, `synced`, `litter`, `held`. One action per system call, `Raise`/`Unlink` for the except branch, `Interrupt`, `Kill`, `PowerLoss`, `WriteDirectory` |
| `ModelProfiles` | `llm.py` `ModelProfileManager`, the model flags of `cli.py` | per process: `profiles` (a dict as a sequence of ids and a set of flags), `active`, `pc`. Operations with two saves are two actions |
| `SchemaCache` | `catalog.py` | `metadata`, `connectionId`, `active`; `Warm` as hit, miss or exception |
| `TableSelection` | what `select_relevant_tables` promises its callers | the operator `Selections`, which `Agent` uses and `Pruning` is checked against |
| `Agent` | `agent.py` `execute()` | `phase` stands for the place in the generator; one action between two awaits, yields or calls that may raise |
| `ReplSession` | `repl/session.py`, `commands.py`, `completion.py`, and `execute_query` of `cli.py`; EXTENDS `Agent`, which EXTENDS `SchemaCache` | `at`, `pins`, `lastSelection`; one action per command and callback; an agent step is a step of the session; `OneShot` is the question on the command line |
| `Engines` | `engines/`: the six specs, aliases, `get_spec` | constant records; `SpecsNamed` is empty for an unknown name |
| `Names` | `names.py`, the sole candidate of `completion.py` | operators; a name is a sequence of atoms |
| `Introspection` | `db.py` `get_schema_metadata` and its callees | `stage`, `targets`, `inventory`, `index`, `tables`, `relationships`, `skipped`; one action per call of the inspector, each of which may raise |
| `Pruning` | `pruning.py` `select_relevant_tables` and its callees | `step`, `toPin`, `forced`, `room`, `hops`, `chosen`, `reasons`; one action per turn of each loop |
| `PromptTables` | the chain from a database to the tables of a prompt: EXTENDS `Introspection` and `Pruning`, adds the pins and `table_name_parts` of `agent.py` | `pins`; a reading, then pins, then a selection |
| `Sentry` | `security.py` `validate_sql_query` | `check` stands for the place in the function; `toClassify` and `toWalk` are what its recursion and its walk have left |
| `ConnectionManagerProofs`, `CredentialFileProofs`, `ModelProfilesProofs`, `ReplSessionProofs`, `SentryProofs`, `PromptTablesProofs` | theorems about the module of that name | see section 5 |
| `IntrospectionProofs`, `PruningProofs` | the inductive invariants of a reading and of a selection, as lemmas for `PromptTablesProofs` | see section 5 |
| `MC*` | TLC instances | model values, symmetry |

How they compose: `ReplSession` composes session, cache and agent in one state machine, because
they share state and run in one thread. In it a `/use` is atomic: `ConnectionManager` shows why a
failed switch is a no-op and a successful one swaps everything, so `active` suffices. A save is
one step in `ConnectionManager` and `ModelProfiles`: `CredentialFile` shows that it is atomic.
What the session knows of a switch is `ActiveDatabase`, which `ConnectionManager` implements with
a refinement mapping (`running` is a live process, `asked` the target of a switch before its
swap, `using` the profile of its engine). `PromptTables` composes the four parts that share
dotted names. `Agent` takes a selection from `Selections`; `Pruning` is checked to choose one of
those (`SelectionIsAsPromised`). `Agent` takes verdicts from the constant `Approved`; `Sentry` is
where they come from.

Abstractions that matter to a reader of the code:

- Identifiers, tables, statements and payloads are model values. A connection profile is a
  number, in order of creation, since a dict keeps insertion order and the CLI's ids are fresh.
  LLM profile ids are chosen by the user, so `ModelProfiles` keeps the order explicitly.
- The content of a profile (passwords, URLs) is left out; so a profile is either there or not, and
  an update is visible only in the flag.
- In the session, introspection returns any subset of the tables that exist, or raises; how that
  comes about is in `Introspection`.
- In the session, the sentry is the constant `Approved`, a set of statements per connection.
- A dotted name is the sequence of its pieces, and the pieces are atoms with a lower-case form
  (`Lower`). What `normalise()` takes from a piece (quotes anywhere, blanks and `@` at the ends of
  the name) is the constant `Cleaned`, by the place of the piece; as in the code it is applied to
  what is typed or pinned and not to the catalog's keys. A name is *plain* if only its case is lost.
  What is half-typed is its finished pieces and the set of atoms that begin with the last one.
- The statements sent for a question are kept in `ran`, the sample queries of `collect_samples`
  (`SampleOf(t)`) included, and those of which rows went into a prompt in `told`, the result rows of
  the analysis prompt included.
- How a question scores against a table (`score_tables`) is any number; ties are broken in any
  order, of which the code takes the alphabetical one.
- A statement is a tree whose nodes are labelled with what the sentry can tell of them: kind, class
  or keyword, and the `name` that sqlglot reports of a function, which for a typed one is that of its
  operand. The parser is outside. What a node may do when it is run (`Harmless`) is stated apart
  from the checks, from its kind, `ReadingWords` and the constant `Outside`.
- The inspector is external: it lists what is there, may raise at any call, and reports the
  schema of a foreign key unless it is the referring table's or, as SQLAlchemy's for PostgreSQL,
  one on the search path (`searchPath` of a source).
- The argument `schemas=` of `get_schema_metadata` is left out, since no caller passes it, and
  `max_tables=` is the same setting as the default. `force=` of `warm` is passed by `/use` alone,
  after an `invalidate`, where it changes nothing.
- `session.pin_table` runs in two models: `ReplSession` keeps when a pin is set and dropped,
  `PromptTables` what it resolves to.
- The agent reads `active_spec` once per question. Nothing in the session can switch during a
  question, so the model reads `active` each time.
- `/why`, `/help` and `/engines` only print. A refused command (unknown name, no
  connection, blocked `/sql`) changes nothing and is no action. ^C at the prompt drops the line
  and nothing else, which is a stuttering step; ^C during a command ends the program as `Exit`
  does.

History variables (`saved`, `chosen`, `uses`, `asked`, `ran`, `told`, `outcome`, and the fields `of`,
`read`, `question`, `on` of records) appear in properties and bounds only; no guard of the code's
own control depends on them.

## 3. Runs

| Run | Instance | Shows |
|---|---|---|
| `cm_processes` | 2 processes, 2 profiles, 2 engine handles, failing loads and saves | the invariants of the switch and the registry: `EngineServesActive`, `NoEngineLeak`, `ActiveIsRegistered`, `OneFlag`, `FlagNamesActive`, `FailedSwitchIsNoOp`, and the refinement `ImplementsActiveDatabase` |
| `cm_restarts` | 1 process at a time, 4 profiles, no I/O faults, killed anywhere | `FileHoldsSavedProfiles`, `RestartKeepsSelection` |
| `cm_terminals` (violation) | 2 processes, no I/O faults | a lost update: the file loses a profile that was reported saved |
| `cred_writes` | 2 processes, 2 payloads, 4 inodes, everything may go wrong | `NeverTorn`, `TempsAreOwned`, `ImplementsAtomicFile` |
| `cred_interrupt` (violation) | the same with ^C only | a temporary file is left behind |
| `models_processes` | 2 processes, 3 ids, failing loads and saves, kills | `AModelIsActive`, `FlagFollowsActive` |
| `models_update` (violation) | 1 process at a time, 2 ids, no faults | updating the selected profile deselects it for the next process |
| `repl_session` | 2 connections with 3 and 2 tables sharing a name, prompt cap 2, 3 statements, 2 switches, 2 questions | the invariants of the session (`CatalogIsCurrent`, `QuestionSeesSessionCatalog`, `PinsAreInCatalog`, `PinsReachThePrompt`, `SelectionIsOfThisConnection`, `OnlyAuditedSqlOrSamplesRun`, `SamplesOnlyAfterWarning`), `PinsAreSpent` and the liveness property `QuestionEnds` |
| `prompt_tables` | 9 databases on the 6 engines, up to 4 tables in scope, caps -1, 2 and 9 for the catalog, 0 and 3 for the prompt, 2 failing calls, 2 pins, scores 0 to 2 | of the catalog `CatalogIsOfTheNamespace`, `EveryTableIsAccountedFor`, `EmptyMeansEmpty`, `LinksAreKeysAsFiled`; of names `SampleNamesTheTable`, `PinsResolveToThemselves`; of the selection `SelectionIsAsPromised`, `BridgesGetRoom`, `OneHopOnly`, `BestMatchesFirst` |
| `sentry` | every tree of up to three nodes over the statement and part labels of `MCSentry`, and pairs of statements with a hidden part; 9 engine names, one unknown; both modes | `SafeMeansHarmless`, `NoFalseAlarm` |
| `links_search_path` (violation) | 1 PostgreSQL database, no failing call | `LinksAreTheForeignKeys`: a foreign key to a table of `public` is filed under the referring schema |
| `repl_notables` (violation) | 1 switch, 1 question | an empty catalog that hides a failed read is kept as warm and handed over, and ends as "No tables detected" |

Why the bounds are enough. Two processes give every pairwise interference on a shared file; a third
adds no new kind of step, and the proofs in section 5 hold for any number. Two handles per process
are the most that are ever alive in it (the engine in use and a candidate). Four profiles let the
active one be neither the first nor the last. Four inodes are the live file, the one on the disk
and a temporary file per process. Three tables under a cap of two make pruning choose, and three
pins exceed the cap. Two switches let a session leave a connection and return to it; two questions
let the second see what the first left. The number of attempts (3) is the code's. The databases of
`prompt_tables` hold one quirk each: several schemas with keys across them, twins that differ in
case, a namespace that is called a database, system schemas in capitals, composite schemas of two
and three pieces, a catalog from the profile, names with dots and their suffixes, a name with a
quote in it, no schema, no table. On PostgreSQL `public` is on the search path and `sales` is not,
and foreign keys cross between them both ways. Four tables are more than a prompt of three, so
pins, a seed, a bridge and a left-over compete; four tables also make a chain of two hops. Two
failures lose both a listing and a table. Four nodes put a part below a statement of a block.
`MaxFailures`, `MaxPins`, `Typings` and `Scores` are bounds of the model. `MaxProfiles`, `MaxUses`,
`MaxQuestions`, `Files` and `Handles` are bounds of the model, not of the program.

Symmetry is used where values are alike: processes and handles in `MCConnectionManager`,
processes, payloads and inodes in `MCCredentialFile`, processes and non-default ids in
`MCModelProfiles`. No liveness property is checked under symmetry. Deadlock is checked
except where the code ends: in the session's runs (`at = "exited"`), in `prompt_tables` (the
selection is returned) and in `sentry` (the verdict is).

Fairness. Only `FairSpec` of `ReplSession` assumes any: weak fairness of the steps of a question.
The event loop resumes the generator whenever it can run, and the model and the drivers are taken
to return or raise. The user owes nothing, so no fairness is assumed of commands.
`QuestionEnds` would fail without the bound on attempts.

## 4. Disagreements found while modelling

1. `cm_terminals`: `save_connections` writes what the process loaded at its start (`db.py:55`), so
   two terminals lose each other's profiles, although each reported "saved and verified".
2. `cred_interrupt`: the clean-up of the temporary file is under `except Exception`
   (`paths.py:64`), and ^C is not one.
3. `models_update`: `add_profile` clears the flag of the profile it updates (`llm.py:55`) even when
   it is the active one.
4. `repl_notables`: a listing or reflection failure that is swallowed (`db.py:384`, `db.py:429`)
   becomes an empty catalog; the session keeps it as warm, hands it over with the question
   (`repl/session.py:345-348`), and the agent says "No tables detected".
5. `links_search_path`: a foreign key whose schema the inspector leaves out is taken to be in the
   referring table's (`db.py:422`). On PostgreSQL it is left out for a schema on the search path, so
   `sales.orders -> public.customers` becomes `sales.orders -> sales.customers`. The link is lost, or
   leads to another table if there is one of that name.

Smaller ones, not run: a failed save is reported as success (`db.py:56`); a failed load followed by
a save replaces the file by an almost empty one (`db.py:45`). In a session:

- The pins of a line cancelled with ^C go into the next question (`repl/session.py:421`).
- `last_selection` is not reset when a question starts (`repl/session.py:266`): after one that
  failed before selecting, `/why` reports that of an earlier one, contrary to `repl/commands.py:318`.
  `SelectionIsOfThisConnection` excepts the outcomes after which this can be.
- A query has run and been summarised when `json.dumps` meets a `Decimal`, a date or bytes in the
  raw rows and raises (`agent.py:489-494`): the answer is lost. `build_analysis_prompt` is outside
  the `try` too (`agent.py:306`). In `Agent` both are the "exception" of `Analyze`.

In the sentry: a typed function reports the name of its operand, so `CAST(url AS String)` on
ClickHouse and `LENGTH('copy')` anywhere are refused as calls of a blocked function, although "typed
nodes such as exp.Sum report name=\"\"" (`security.py:192-196`). `NoFalseAlarm` excepts them
(`Misread`).

On the way from the database to the prompt:

- `reflection_failed` is false when listing itself failed (`db.py:441`), so `EmptyMeansEmpty`
  excepts listings that failed; `repl_notables` is what comes of it.
- No slot is reserved for bridges when the ranked tables fit the cap (`pruning.py:276`), and
  pins may take the reserve when they leave less room than it needs (`pruning.py:277`), although
  the comment before says what happens then. `BridgesGetRoom` is stated for the other cases.
- Of two tables whose names differ in case only, neither can be named: both match exactly, so a
  typed pin stays ambiguous however it is qualified (`names.py:72`), and `/schema` shows them
  without columns, since `columns()` resolves its key again (`catalog.py:145-150`). The
  completer does not offer either alone, so `PinsResolveToThemselves` holds.
- The completer does not offer `tpch.tiny.orders` for `@tiny.or` (`names.py:108`), although
  `tiny.orders` resolves to it (`names.py:76`).
- A catalog key of two tables may be the same string (schema `a.b` with table `c`, schema `a`
  with table `b.c`); the later overwrites the earlier (`db.py:412`). Not in the instance.
- A table whose name holds a quote (`we"ird`, `tests/test_pruning.py:232`) or has a blank or `@` at
  an end can be pinned and is then not found: `normalise()` takes them from the pin and not from the
  keys (`names.py:46-49`, `names.py:72-80`), although `repl/completion.py:115-118` says that this is
  what sharing the normalisation prevents. `PinsResolveToThemselves` is stated for plain names.

## 5. Proofs

TLC's instances are small; the following holds for every value of the constants, under the named
assumptions of the modules. Every invariant and action property that a passing run checks, and
both refinements, are theorems of `Spec`; only the liveness property is not. In the session the
theorems are of `Spec`, so of `FairSpec` too. The assumptions come in three kinds.

- What a constant is: `NoConn`, `NoEngine`, `NoFile`, `Nothing`, `NoSelection` are not values of
  the kind they stand in for, bounds are natural numbers (and at least one question may be asked),
  `Faults` and `Mishaps` name known faults, a `Source` and a tree of `Sentry` are well formed.
- What the model takes as the truth about a database, so that the properties have something to
  compare the code with: `ScopeAssumption` (which schemas are the user's), `PathAssumption` (which
  identifiers lead to a table), `OutsideAssumption` (which functions and classes reach files or
  hosts: the ones the lists of `engines/` and `security.py` name. That the lists may lack one is
  the sentry's stated limit, `security.py:33-36`, and nothing here says that they are complete).
- Where the code has a limit: `DottedKeysAssumption`, that no two tables of a database have the
  same dotted key. `db.py:412` keeps one of them otherwise, and the catalog's properties fail.

**`ConnectionManagerProofs`**: `TypeOK`, `EngineServesActive`, `NoEngineLeak`,
`ActiveIsRegistered`, `OneFlag`, `FlagNamesActive` and the action property `FailedSwitchIsNoOp`.
None of the invariants but the type is inductive: they hold *between* the steps of a switch only
because of what a process holds at each label. `IInv` adds that per process: `HoldsItsEngines` (the
open engines are exactly the ones its variables hold, and a candidate exists only while it is
probed), `KnowsItsTarget` (the target is registered, the candidate is built from it, after the swap
it is active) and `FlagFollows` (the flag agrees with the active profile except between swap and
persist, and auto-connect goes for the flagged one). One lemma per part shows that every action
preserves it; `StepIsLocal` says that a step of one process leaves the others' variables alone, and
`FirstOfProfiles` that a nonempty set of profiles has a first one. `SwitchIsAtomic` proves the
refinement of `ActiveDatabase` from the same invariant: `StepShows` says what a step shows of its
process (nothing, or one of six changes), and `RefinesStep` that each of these is an action of
`ActiveDatabase`, since the step shows nothing of the others. The swap is where a switch takes
effect; a failed creation or probe is `Stay`, and building, releasing and persisting do not show.

`ReportsAreTrue` and `NextProcessSameDatabase` prove `FileHoldsSavedProfiles` and
`RestartKeepsSelection`. They have a hypothesis, `OneTerminal`: one process at a time (killed and
restarted at will) and file operations that succeed. It is needed, since `cm_terminals` violates the
first with two. `FileAndMemoryAgree` strengthens them: a running process holds the registry on
disk, where the profile last reported selected is the flagged one.

**`CredentialFileProofs`**: `TypeOK`, `NeverTorn`, `TempsAreOwned`, and that `CredentialFile`
implements `AtomicFile`. The strengthening says how far a save has come at each label
(`Progressed`: after the write the temporary file holds the payload, after fsync it is synced)
and that the live file and the one the disk names are synced (`OnDisk`), which is what a
power loss needs. In the refinement a save takes effect at `Replace`, a read at `OpenFile`,
and every other step is a failure of a pending operation or a stuttering step; `UnseenData` says
that writing into a file that nobody has open and no name refers to does not show.

**`ModelProfilesProofs`**: `TypeOK`, `AModelIsActive`, `FlagFollowsActive`, for any processes, ids
and faults. A process between two saves of one operation has no active model and yet profiles, so
the invariant says per label what a process holds (`Coherent`), and that the file, whoever saved it
last, flags at most one profile, which is what a process that starts from it needs. `Removed`
is the lemma that carries most: taking an id out of a dict leaves the order and the other ids.

**`ReplSessionProofs`**: `TypeOK`, `CatalogIsCurrent`, `PinsAreInCatalog`,
`QuestionSeesSessionCatalog`, `PinsReachThePrompt`, `SelectionIsOfThisConnection`,
`OnlyAuditedSqlOrSamplesRun`, `SamplesOnlyAfterWarning` and the action property `PinsAreSpent`.
They lean on each other, so they are proved together, in three invariants: `IInv` of catalog, pins
and phases, `RowsInv` of what was sent (`ran`) and of which rows went into a prompt (`told`), and
`WhyInv` of the question the recorded selection was made for. Two facts are added.
`CacheIsOfActive`: a catalog held is of the connection in use *and* younger than the last switch,
and a question on the command line has none. `Progressed`: what the agent holds at each phase,
above all that a statement which is about to run was approved by the policy of the connection
*then* in use, which no switch can change during a question. `TablesAreInCatalog` gives the
selection its type. The proof does not look into pruning: `SelectionsHoldPins` is what it needs of
`TableSelection`.

**`PromptTablesProofs`** proves the eleven invariants of `prompt_tables`. The invariant is a
conjunction of three, each kept by the steps of its component and untouched by the others':

- `ReadingInv` (`IntrospectionProofs`). `CatalogIsOfTheNamespace`, `EveryTableIsAccountedFor`,
  `EmptyMeansEmpty` and `LinksAreKeysAsFiled` compare a catalog with a database when all is read;
  along the way `Listing` says that what is listed is of the namespace and listed once, `Complete`
  that what was not refused is listed or will be, and `Cataloged`, `Accounted` and `Linked` what
  came of the tables attempted so far. Two facts make a step of one table leave the others alone:
  schemas are listed either all by name or the default one alone (`TargetsAreTheScope`), and keys do
  not collide (`KeyOfOneTable`). `SamplesMeanTables` then takes `table_name_parts` apart: the
  catalog it recovers from a key is the one that `_qualify` put there.
- `PruningInv` (`PruningProofs`). `SelectionIsAsPromised`, `OneHopOnly` and `BestMatchesFirst` are
  nearly inductive. `BridgesGetRoom` is about the end of three loops and needs an account of the
  slots: `Seeding` bounds what the seeds may still take, `Expanding` says that whatever was added
  since is a neighbour and that the hops done have all theirs in.
- `PinsInv`: each plain pin is the only match of its own name. This holds because completer and
  resolver both ignore case (`SameStart`, `SameBareName`), because a key that is the only match of
  any name is that of its own (`MatchMeansItself`), and the catalog is read before there are pins.

`SelectionKeepsPromise` is what lets `Agent` take any of `Selections` for a call of
`select_relevant_tables`.

**`SentryProofs`**: `SafeMeansHarmless` and `NoFalseAlarm`, for statements of any size and depth. The
verdict is about a tree, the code looks at a node at a time: `Classified` says that there is a set
of statements already permitted whose blocks lead into it or to what waits, `Walked` that
every node `walk()` has passed would not have stopped it. When nothing waits the set holds every
statement of the tree (`AllAreClassified`, by the least statement outside it: a parent
comes before its children), which is where the unbounded depth is dealt with without recursion.

What the prover asked of the models. Recursive operators are out of its reach, and so are
`SelectSeq`, `SortSeq`, `:>` and `@@`, for which it has no facts. So the recursion of `security.py`
is the two sets `toClassify` and `toWalk`, "sorted by score" is the set of all sorted
arrangements (ties in any order), and schemas are listed in any order. Each of these admits the
code's behaviour and more.

Only model-checked: `QuestionEnds` (liveness is beyond the prover), the violations of section 4,
and that the assumptions can be met, which TLC checks on each instance.

## 6. Not modelled

- The text side of scoring (`pruning.py:43-131`: tokens, plurals, fuzzy ratios, weights), of names
  (the characters that `Cleaned` and `Lower` stand for) and of SQL (sqlglot): what they yield is an
  input of the models.
- Columns, types and primary keys in a catalog: no decision modelled here reads them.
- URL, connect-argument and pool builders of `engines/`: a missing driver or a malformed URL is
  `CannotCreate`. The settings of `config.py` other than the two budgets.
- `rendering.py`, prompts, error wording, the log, the conversation history.
- File modes: `mkstemp` creates 0600 files and `fchmod` repeats it, in every order of steps.
- Library calls the CLI never makes: `add_connection` over an existing id, two questions at once.

## 7. Plan

Done: 1 `ConnectionManager` with its proofs; 2 `SchemaCache`, `Agent`, `ReplSession`;
3 `CredentialFile` refining `AtomicFile`, with its proofs; 4 `ModelProfiles`; 5 `Engines`,
`Names`, `Introspection`; 6 `Pruning` and the chain `PromptTables`; 7 `Sentry`;
8 `ActiveDatabase`, with the proof that `ConnectionManager` implements it; 9 proofs of all
invariants of `ModelProfiles`, `ReplSession`, `PromptTables` and `Sentry`, and of the restarts of
`ConnectionManager` for one terminal.

To come: the lemmas of `Names` for their own sake (a qualified name resolves to at most one table
unless two differ in case only); that the steps of a question other than its last ones decrease a
measure, which is the part of `QuestionEnds` that needs no fairness.
