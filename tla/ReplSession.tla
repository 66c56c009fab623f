----------------------------- MODULE ReplSession -----------------------------
(***************************************************************************)
(* schemapilot/repl: the interactive session.  It owns the schema cache    *)
(* and the pins, hands both to the agent with a question, and keeps the    *)
(* agent's table selection for /why.  A question on the command line       *)
(* (cli.py) is asked of the same agent with neither.                       *)
(*                                                                         *)
(* The session is single-threaded, but it is made of callbacks: the        *)
(* completer pins a table at a keypress, the agent's events arrive between *)
(* its steps, a command may fail half-way, and ^C may come at any moment.  *)
(***************************************************************************)
EXTENDS Agent

CONSTANTS
    NoSelection,   \* Python's None, for last_selection
    MaxUses,       \* bound: how many times /use is typed
    MaxQuestions   \* bound: how many questions are asked

ASSUME MaxQuestionsAssumption == MaxQuestions \in Nat \ {0}

VARIABLES
    at,             \* where the session stands
    pins,           \* ReplSession.pinned_tables
    lastSelection,  \* ReplSession.last_selection
    asked           \* history: questions handed to the agent so far

sessionVars == <<at, pins, lastSelection, asked>>
vars == <<cacheVars, agentVars, sessionVars>>

(* A recorded selection: its tables and, as history, the question it was   *)
(* made for and the connection that question went to.                      *)
Selection == [tables : SUBSET Tables, question : Nat, on : Conns]

ASSUME NoSelectionAssumption == NoSelection \notin Selection

Init ==
    /\ active \in Conns \cup {NoConn}     \* whatever auto-connect came to
    /\ metadata = NoMetadata
    /\ connectionId = NoConn
    /\ uses = 0
    /\ AgentInit
    /\ at = "start"
    /\ pins = {}
    /\ lastSelection = NoSelection
    /\ asked = 0

-----------------------------------------------------------------------------
(* At the prompt. *)

(* run(): warm on entry, then prompt. *)
Enter ==
    /\ at = "start"
    /\ at' = "prompt"
    /\ IF active = NoConn THEN KeepMetadata ELSE Warm
    /\ UNCHANGED <<active, uses, agentVars, pins, lastSelection, asked>>

(* The completer pins the one table that the @mention being typed can mean; *)
(* it knows only the tables of a warm catalog.  ^C drops the line, not the  *)
(* pin.                                                                     *)
TypeMention ==
    /\ at = "prompt"
    /\ \E t \in TableNames : pins' = pins \cup {t}
    /\ UNCHANGED <<cacheVars, agentVars, at, lastSelection, asked>>

(* /use: the cache, the last selection and the pins are dropped before      *)
(* select_connection, which may fail; a catalog that cannot be read after a *)
(* successful switch is reported and left cold.                             *)
DropPins == pins' = {} /\ UNCHANGED lastSelection
DropSelection == lastSelection' = NoSelection /\ UNCHANGED pins
DropSelectionAndPins == lastSelection' = NoSelection /\ pins' = {}

TypeUse ==
    /\ at = "prompt" /\ uses < MaxUses
    /\ uses' = uses + 1
    /\ DropSelectionAndPins
    /\ UNCHANGED <<agentVars, at, asked>>

UseFails ==
    /\ TypeUse
    /\ Invalidate
    /\ UNCHANGED active

UseUnreadable ==
    /\ TypeUse
    /\ Invalidate
    /\ active' \in Conns

Use ==
    /\ TypeUse
    /\ \E c \in Conns :
        /\ active' = c
        /\ \E m \in MetadataOf(c) : Load([m EXCEPT !.read = uses'], c)

(* /tables and /schema: need a connection, and warm the catalog if cold. *)
ShowCatalog ==
    /\ at = "prompt"
    /\ active # NoConn
    /\ Warm
    /\ UNCHANGED <<active, uses, agentVars, at, pins, lastSelection, asked>>

(* /sql: the same sentry, then the same execute_query. *)
TypeSql ==
    /\ at = "prompt"
    /\ active # NoConn
    /\ \E s \in Approved[active] : ran' = {[sql |-> s, on |-> active]}
    /\ UNCHANGED <<cacheVars, phase, question, warned, told, outcome, at, pins, lastSelection, asked>>

(* /exit and end of file. *)
Exit ==
    /\ at = "prompt"
    /\ at' = "exited"
    /\ UNCHANGED <<cacheVars, agentVars, pins, lastSelection, asked>>

-----------------------------------------------------------------------------
(* `schemapilot "question"': no session, so no cache, no pins and nobody to *)
(* keep the selection for.                                                  *)
OneShot ==
    /\ at = "start"
    /\ IF active = NoConn
          THEN at' = "exited" /\ UNCHANGED <<agentVars, asked>>
          ELSE at' = "one-shot" /\ Execute({}, NoMetadata) /\ asked' = asked + 1
    /\ UNCHANGED <<cacheVars, pins, lastSelection>>

IgnoreSelection ==
    /\ at = "one-shot"
    /\ SelectTables
    /\ UNCHANGED <<cacheVars, sessionVars>>

OneShotEnds ==
    /\ at = "one-shot" /\ phase = "over"
    /\ Forget
    /\ at' = "exited"
    /\ UNCHANGED <<cacheVars, pins, lastSelection, asked>>

-----------------------------------------------------------------------------
(* A question in the session. *)

(* ask(): refused without a connection; else _agent_kwargs warms the       *)
(* catalog, and a catalog that cannot be read is not handed over.          *)
AskHandingOver(given) ==
    /\ at = "prompt" /\ asked < MaxQuestions
    /\ active # NoConn
    /\ Execute(pins, given)
    /\ at' = "asking"
    /\ asked' = asked + 1
    /\ UNCHANGED <<active, uses, pins, lastSelection>>

Ask ==
    \/ WarmHit /\ AskHandingOver(metadata)
    \/ WarmMiss /\ AskHandingOver(metadata')
    \/ WarmRaises /\ AskHandingOver(NoMetadata)

(* The schema_selection event is kept for /why. *)
KeepSelection ==
    /\ at = "asking"
    /\ SelectTables
    /\ lastSelection' = [tables |-> selected', question |-> asked, on |-> active]
    /\ UNCHANGED <<cacheVars, at, pins, asked>>

(* Any other event updates the spinner or is rendered. *)
AgentStep ==
    /\ QuietStep
    /\ UNCHANGED <<cacheVars, sessionVars>>

(* The `finally' of ask(), after the last event or an exception. *)
FinishUnlessException ==
    /\ at = "asking" /\ phase = "over"
    /\ Forget
    /\ at' = "prompt"
    /\ IF outcome = "exception" THEN UNCHANGED pins ELSE pins' = {}
    /\ UNCHANGED <<cacheVars, lastSelection, asked>>

Finish ==
    /\ at = "asking" /\ phase = "over"
    /\ Forget
    /\ at' = "prompt"
    /\ pins' = {}
    /\ UNCHANGED <<cacheVars, lastSelection, asked>>

(* ^C during a question is not an Exception: the `finally' runs and the    *)
(* KeyboardInterrupt leaves run(), so the program ends.                    *)
Interrupt ==
    /\ Running
    /\ Forget
    /\ at' = "exited"
    /\ pins' = {}
    /\ UNCHANGED <<cacheVars, lastSelection, asked>>

Question == KeepSelection \/ IgnoreSelection \/ AgentStep \/ Finish \/ OneShotEnds

Next ==
    \/ Enter \/ TypeMention
    \/ Use \/ UseUnreadable \/ UseFails \/ ShowCatalog \/ TypeSql \/ Exit
    \/ OneShot \/ Ask \/ Question \/ Interrupt

Spec == Init /\ [][Next]_vars

(* The event loop resumes the generator whenever it can run, and every call *)
(* to the model or to a driver returns or raises; the user owes nothing.    *)
FairSpec == Spec /\ WF_vars(Question)

-----------------------------------------------------------------------------
(* Properties. *)

(* The type of every variable. *)
TypeOK ==
    /\ CacheTypeOK
    /\ AgentTypeOK
    /\ at \in {"start", "one-shot", "prompt", "asking", "exited"}
    /\ pins \subseteq Tables
    /\ lastSelection \in Selection \cup {NoSelection}
    /\ asked \in 0 .. MaxQuestions
    /\ at \in {"asking", "one-shot"} <=> phase # "idle"

(* Every pin names a table of the catalog on hand, so it resolves when the   *)
(* question it was typed for is asked, whatever /use did in between          *)
(* (completion.py:102-107, session.py:238-240).                              *)
PinsAreInCatalog == pins \subseteq TableNames

(* The completer, /schema, pin resolution and the prompt describe the same   *)
(* catalog (session.py:326-331): while a catalog is held, the question uses  *)
(* that one, and it is always one of the database the query will run on.     *)
QuestionSeesSessionCatalog ==
    catalog # NoMetadata =>
        /\ catalog.of = active
        /\ IsWarm => catalog = metadata

(* "@table pins a table so the next question definitely sees it"             *)
(* (commands.py:117): every pin is in the prompt, past the cap if need be.   *)
PinsReachThePrompt ==
    phase \in {"sample", "generate", "audit", "execute", "analyze"} => pinned \subseteq selected

(* A pin lasts for one question, however that question ends                  *)
(* (session.py:280-283).                                                     *)
PinsAreSpent == [][at = "asking" /\ at' # "asking" => pins' = {}]_vars

(* /why reports a selection made on the connection in use (session.py:239)   *)
(* and, at the prompt, for the last question asked, unless that one ended in *)
(* an error or for want of tables: then it may be that of an earlier one,    *)
(* which is not "which tables the last question sent" (commands.py:318).     *)
SelectedHere == lastSelection # NoSelection => lastSelection.on = active

SelectedLast ==
    at = "prompt" /\ outcome \notin {"error", "no tables"} /\ lastSelection # NoSelection =>
        lastSelection.question = asked

SelectionIsOfThisConnection == SelectedHere /\ SelectedLast

(* "No tables detected" is the answer for an empty database, not for one     *)
(* whose tables could not be read, so that a session whose catalog could not *)
(* be read still answers (session.py:349-352).                               *)
NoTablesMeansEmpty ==
    at = "asking" /\ IsWarm /\ outcome = "no tables" => TablesOf[active] = {}

(* Every question comes back to the prompt or ends the program.              *)
QuestionEnds == at \in {"asking", "one-shot"} ~> at \in {"prompt", "exited"}

=============================================================================
