---------------------------- MODULE PromptTables ----------------------------
(***************************************************************************)
(* From a database to the tables of one prompt: the catalog is read        *)
(* (Introspection), the user pins what the completer offers alone (Names), *)
(* the agent selects (Pruning) and may sample what was selected.  The      *)
(* names that db.py makes must mean to each of them what db.py meant.      *)
(***************************************************************************)
EXTENDS Introspection, Pruning

CONSTANTS
    Typings,      \* half-typed names, as [pieces, begins]
    Scores,       \* how well a table may match a question
    PromptCaps,   \* values of MAX_PROMPT_TABLES, any integers
    MaxPins       \* bound: pins per question

ASSUME TypingsAssumption ==
    \A typed \in Typings : typed.pieces \in Seq(Atoms) /\ typed.begins \subseteq Atoms
ASSUME ScoresAssumption == Scores \subseteq Nat
ASSUME PromptCapsAssumption == PromptCaps \subseteq Int
ASSUME MaxPinsAssumption == MaxPins \in Nat

VARIABLE pins   \* ReplSession.pinned_tables

vars == <<reading, pruning, pins>>

Init == IntrospectionInit /\ PruningInit /\ pins = <<>>

(* _at_completions pins the one candidate; pin_table resolves it to itself  *)
(* or keeps it as it is, and keeps each pin once.                           *)
Pinned(t) ==
    LET resolved == ResolveTableName(t, DOMAIN tables)
    IN IF resolved # NoName THEN resolved ELSE t

PinTable ==
    /\ IsRead /\ step = "idle"
    /\ Len(pins) < MaxPins
    /\ \E t \in Pinnable(Typings, DOMAIN tables) :
          pins' = IF Pinned(t) \in Range(pins) THEN pins ELSE Append(pins, Pinned(t))
    /\ UNCHANGED <<reading, pruning>>

AskAbout(scoring, maxPromptTables) ==
    SelectRelevantTables(DOMAIN tables, relationships, pins, scoring, maxPromptTables)

Ask ==
    /\ IsRead
    /\ \E scoring \in [DOMAIN tables -> Scores], maxPromptTables \in PromptCaps :
          AskAbout(scoring, maxPromptTables)
    /\ UNCHANGED <<reading, pins>>

Read == IntrospectionNext /\ UNCHANGED <<pruning, pins>>
Prune == PruningNext /\ UNCHANGED <<reading, pins>>

Next == Read \/ PinTable \/ Ask \/ Prune

Spec == Init /\ [][Next]_vars

-----------------------------------------------------------------------------

(* table_name_parts: the identifiers of a sample query, from a catalog entry. *)
PartsOfKey(key, entry) == [i \in DOMAIN key |-> <<key[i]>>]

TableNameParts(key, entry) ==
    LET suffix == entry.schema \o entry.table
        catalog == IF IsStrictSuffix(suffix, key)
                      THEN <<SubSeq(key, 1, Len(key) - Len(suffix))>>
                      ELSE <<>>
        schema == CASE entry.schema = NoName -> <<>>
                    [] Engine.composite /\ Len(entry.schema) > 1 ->
                          <<Front(entry.schema), BareName(entry.schema)>>
                    [] OTHER -> <<entry.schema>>
    IN catalog \o schema \o <<entry.table>>

-----------------------------------------------------------------------------
(* Properties. *)

(* The type of every variable. *)
TypeOK ==
    /\ IntrospectionTypeOK
    /\ PruningTypeOK
    /\ pins \in Seq(DOMAIN tables)

(* A dotted key names its table to the sampler: the identifiers quoted in    *)
(* the sample query denote the table the entry was read from, also when a    *)
(* table, a schema or a database has a dot in its name (agent.py:50-63).     *)
SampleNamesTheTable ==
    \A key \in DOMAIN tables :
        LET entry == tables[key]
        IN TableNameParts(key, entry) =
              (IF entry.schema = NoName THEN <<>> ELSE source.path[entry.schema]) \o <<entry.table>>

(* What the completer pins, pruning resolves to that very table, however     *)
(* many other keys end in its name or differ from it in case only: a pin     *)
(* comes back as a problem or as another table only if its name has quotes,  *)
(* or blanks or `@' at an end (pruning.py:153-157, names.py:44-49).          *)
PinsResolveToThemselves ==
    LET plain == {t \in Range(pins) : IsPlain(t)}
    IN IF step = "idle"
          THEN IsRead => \A t \in Pinnable(Typings, DOMAIN tables) : IsPlain(t) => Pinned(t) = t
          ELSE /\ plain \subseteq Range(forced) \cup Range(toPin)
               /\ problems \subseteq Range(pins) \ plain
               /\ Range(pins) = plain => Range(forced) \subseteq plain

=============================================================================
