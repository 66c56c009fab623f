-------------------------------- MODULE Sentry --------------------------------
(***************************************************************************)
(* schemapilot/security.py, validate_sql_query(): whether a statement may  *)
(* run.  One step per check, in the order of the code.                     *)
(*                                                                         *)
(* A parsed statement is a tree: node 1 is its root, parent[n] < n, and    *)
(* label[n] is a record [kind, word, name] of what the sentry can tell of n: *)
(*   block       several statements, the children of the node              *)
(*   query       Select, Union, Values...;                                 *)
(*   show        Show or Describe                                          *)
(*   command     what sqlglot could not parse; word is its first keyword   *)
(*   mutation    Insert, Update, Delete                                    *)
(*   blocked     a class of ALWAYS_BLOCKED or ALWAYS_BLOCKED_CHILDREN      *)
(*   pragma      PRAGMA <word>                                             *)
(*   pragma set  PRAGMA with a value or an argument                        *)
(*   alias       `<word> <identifier>', TABLE t among them                 *)
(*   function    a function sqlglot has no class for; word is its name     *)
(*   part        any other class of node; word is the class                *)
(* For blocked and part, word is the class of the node.  name is the name  *)
(* sqlglot gives a function, "" for every other node: that of a function it *)
(* has a class for is not the function's, but the operand's of a CAST and  *)
(* the text of a first argument that is a literal.                         *)
(***************************************************************************)
EXTENDS Engines, FiniteSets, Sequences

CONSTANTS
    Trees,      \* the statements, as [label, parent]
    NoTree,     \* what a text that is blank or does not parse comes to
    EngineArgs, \* values of the argument `engine', "" for None
    Outside     \* <<engine, word>>: a function or class that reaches files or hosts

Kinds == {"block", "query", "show", "command", "mutation", "blocked", "pragma", "pragma set",
          "alias", "function", "part"}

ASSUME TreesAssumption ==
    \A t \in Trees :
        /\ t.label \in Seq([kind : Kinds, word : STRING, name : STRING])
        /\ t.parent \in [DOMAIN t.label -> 0 .. Len(t.label)]
        /\ t.label # <<>>
        /\ \A n \in DOMAIN t.label :
              /\ t.parent[n] < n /\ (t.parent[n] = 0 => n = 1)
              /\ t.label[n].kind = "function" => t.label[n].name = t.label[n].word
              /\ t.label[n].kind \notin {"function", "part"} => t.label[n].name = ""
ASSUME NoTreeAssumption == NoTree \notin Trees

VARIABLES
    tree,           \* `expression', the statement as parsed
    engine,         \* the arguments `engine'...
    dialect,        \* ...`dialect'...
    allowMutation,  \* ...and `allow_mutation'
    check,          \* the check that comes next
    specs,          \* {spec}, or {} before it is resolved
    toClassify,     \* statements _statement_reason has still to look at
    toWalk,         \* nodes that walk() has still to come to
    verdict         \* "pending", "safe" or "refused"

arguments == <<tree, engine, dialect, allowMutation>>
vars == <<arguments, check, specs, toClassify, toWalk, verdict>>

Nodes == DOMAIN tree.label
Kind(n) == tree.label[n].kind
Word(n) == tree.label[n].word
Name(n) == tree.label[n].name
Children(n) == {m \in Nodes : tree.parent[m] = n}
Policy == CHOOSE s \in specs : TRUE

Init ==
    /\ tree \in Trees \cup {NoTree}
    /\ engine \in EngineArgs
    /\ dialect \in {"postgresql", "sqlite", "oracle"}
    /\ engine # "" => dialect = "oracle"       \* ignored then
    /\ allowMutation \in BOOLEAN
    /\ check = "resolve"
    /\ specs = {}
    /\ toClassify = {}
    /\ toWalk = {}
    /\ verdict = "pending"

Refuse == verdict' = "refused" /\ check' = "over"

-----------------------------------------------------------------------------

(* _resolve_spec: the named engine or, without one, the legacy mapping of   *)
(* the dialect.                                                             *)
Downgrade(name) == IF SpecsNamed(name) # {} THEN SpecsNamed(name) ELSE SpecsNamed("mysql")
Named(name) == SpecsNamed(name)

Legacy(name) ==
    IF name \in {"postgres", "postgresql", "sqlite"} THEN SpecsNamed(name) ELSE SpecsNamed("mysql")

ResolveSpec ==
    /\ check = "resolve"
    /\ specs' = IF engine # "" THEN Named(engine) ELSE Legacy(dialect)
    /\ IF specs' = {}
          THEN Refuse
          ELSE check' = "parse" /\ UNCHANGED verdict
    /\ UNCHANGED <<arguments, toClassify, toWalk>>

(* A blank text is refused before, one that does not parse after the spec   *)
(* is resolved.                                                             *)
Parse ==
    /\ check = "parse"
    /\ IF tree = NoTree
          THEN Refuse /\ UNCHANGED <<toClassify, toWalk>>
          ELSE /\ check' = "classify"
               /\ toClassify' = {1}
               /\ toWalk' = Nodes
               /\ UNCHANGED verdict
    /\ UNCHANGED <<arguments, specs>>

(* The floor that holds whatever the engine. *)
GlobalDangerousFunctions == FilesystemFuncs \cup PostgresFuncs \cup {"copy"}

(* What reaches out is what the lists of the registry name, of the functions *)
(* and classes that occur: that the lists may miss one is the sentry's      *)
(* stated limit (security.py:33-36).                                        *)
ASSUME OutsideAssumption ==
    \A t \in Trees, s \in EngineSpecs : \A n \in DOMAIN t.label :
        LET reachesOut == <<s.name, t.label[n].word>> \in Outside
        IN  /\ t.label[n].kind = "function" =>
                  (reachesOut <=>
                     t.label[n].word \in s.dangerousFunctions \cup GlobalDangerousFunctions)
            /\ t.label[n].kind = "part" => (reachesOut <=> t.label[n].word \in s.dangerousNodes)

(* _dangerous_reason: by the class of a node and by the name of a function. *)
Dangerous(n) ==
    \/ Kind(n) \in {"blocked", "part"} /\ Word(n) \in Policy.dangerousNodes
    \/ Name(n) # "" /\ Name(n) \in Policy.dangerousFunctions \cup GlobalDangerousFunctions

(* _statement_reason, of one statement that is not a Block. *)
NoCommandIsReadOnly(n) ==
    \/ Kind(n) = "pragma" /\ Word(n) \in Policy.readonlyPragmas
    \/ Kind(n) \in {"query", "show"}
    \/ Kind(n) = "alias" /\ Word(n) = "TABLE"

ReadOnly(n) ==
    \/ Kind(n) = "command" /\ Word(n) \in Policy.readonlyCommands
    \/ Kind(n) = "pragma" /\ Word(n) \in Policy.readonlyPragmas
    \/ Kind(n) \in {"query", "show"}
    \/ Kind(n) = "alias" /\ Word(n) = "TABLE"

Permitted(n) ==
    /\ ~ Dangerous(n)
    /\ ReadOnly(n) \/ (Kind(n) = "mutation" /\ allowMutation)

(* A Block is as good as its statements, each of which is classified. *)
Classify ==
    /\ check = "classify"
    /\ \E n \in toClassify :
        CASE Kind(n) = "block" ->
               /\ toClassify' = (toClassify \ {n}) \cup Children(n)
               /\ UNCHANGED <<check, verdict>>
          [] Kind(n) # "block" /\ Permitted(n) ->
               /\ toClassify' = toClassify \ {n}
               /\ UNCHANGED <<check, verdict>>
          [] OTHER -> Refuse /\ UNCHANGED toClassify
    /\ UNCHANGED <<arguments, specs, toWalk>>

EndClassification ==
    /\ check = "classify"
    /\ toClassify = {}
    /\ check' = "walk"
    /\ UNCHANGED <<arguments, specs, toClassify, toWalk, verdict>>

(* The classes that mean the same wherever they occur (_STATEMENT_NODES). *)
IsStatementNode(n) == Kind(n) \in {"command", "pragma", "pragma set", "blocked", "mutation"}

WalkForFunctions ==
    /\ check = "walk"
    /\ \E n \in toWalk :
        /\ IF Dangerous(n) THEN Refuse ELSE UNCHANGED <<check, verdict>>
        /\ toWalk' = toWalk \ {n}
    /\ UNCHANGED <<arguments, specs, toClassify>>

Walk ==
    /\ check = "walk"
    /\ \E n \in toWalk :
        /\ IF Dangerous(n) \/ (n # 1 /\ IsStatementNode(n) /\ ~ Permitted(n))
              THEN Refuse
              ELSE UNCHANGED <<check, verdict>>
        /\ toWalk' = toWalk \ {n}
    /\ UNCHANGED <<arguments, specs, toClassify>>

EndWalk ==
    /\ check = "walk"
    /\ toWalk = {}
    /\ check' = "over"
    /\ verdict' = "safe"
    /\ UNCHANGED <<arguments, specs, toClassify, toWalk>>

Next == ResolveSpec \/ Parse \/ Classify \/ EndClassification \/ Walk \/ EndWalk

Spec == Init /\ [][Next]_vars

-----------------------------------------------------------------------------
(* Properties.  They rest on what a node does when the database runs it,    *)
(* whatever the sentry thinks of it.                                        *)

(* Nodes that are run as statements of their own: only blocks are above.    *)
IsStatement(n) ==
    \E S \in SUBSET Nodes :
        /\ n \in S
        /\ \A m \in S \ {1} : tree.parent[m] \in S /\ Kind(tree.parent[m]) = "block"

(* Commands and pragmas that only report. *)
ReadingWords ==
    {"SHOW", "DESCRIBE", "DESC", "EXISTS",
     "database_list", "collation_list", "compile_options", "function_list", "module_list",
     "show_tables", "database_size", "version", "platform"}

Harmless(n) ==
    /\ Kind(n) \notin {"blocked", "pragma set"}
    /\ Kind(n) = "mutation" => allowMutation
    /\ Kind(n) \in {"command", "pragma"} => Word(n) \in ReadingWords
    /\ Kind(n) \in {"function", "part"} => <<Policy.name, Word(n)>> \notin Outside
    /\ Kind(n) \in {"alias", "function", "part"} /\ IsStatement(n) =>
          Kind(n) = "alias" /\ Word(n) = "TABLE"

(* What the sentry lets through changes nothing and reaches no file or host, *)
(* in any of its statements and however deep (security.py:19-27, 358-369);   *)
(* allow_mutation adds INSERT, UPDATE and DELETE and nothing else            *)
(* (security.py:64); and it is judged by the engine that was named           *)
(* (security.py:163-168).                                                    *)
SafeMeansHarmless ==
    verdict = "safe" =>
        /\ \A n \in Nodes : Harmless(n)
        /\ engine # "" => Policy.name = CanonicalName(engine)

(* A function that sqlglot has a class for, and whose operand or argument is *)
(* named like a listed function: CAST(url AS String) on ClickHouse and       *)
(* LENGTH('copy') everywhere.  The sentry takes it for that function, though *)
(* "typed nodes such as exp.Sum report name=''" (security.py:193-194).       *)
Misread(n) ==
    Kind(n) = "part" /\ Name(n) \in Policy.dangerousFunctions \cup GlobalDangerousFunctions

(* What it refuses is not a read that the engine declares: "a set of only    *)
(* {Select, Union} default-denies valid read-only SQL" (security.py:89-92),  *)
(* but for the functions that it misreads.                                   *)
NoFalseAlarm ==
    verdict = "refused" =>
        \/ specs = {}
        \/ tree = NoTree
        \/ \E n \in Nodes :
              \/ ~ Harmless(n)
              \/ Misread(n)
              \/ Kind(n) = "command" /\ Word(n) \notin Policy.readonlyCommands
              \/ Kind(n) = "pragma" /\ Word(n) \notin Policy.readonlyPragmas

=============================================================================
