---------------------------- MODULE Introspection ----------------------------
(***************************************************************************)
(* schemapilot/db.py, get_schema_metadata(): how the catalog of the active *)
(* connection is read.  One step per call of the inspector, since each may *)
(* raise: the database refuses, or another client dropped the table since  *)
(* it was listed.                                                          *)
(***************************************************************************)
EXTENDS Engines, Names, Integers

CONSTANTS
    Sources,      \* databases and the profiles that connect to them
    CatalogCaps,  \* values of CATALOG_MAX_TABLES, any integers
    MaxFailures   \* bound: calls of the inspector that raise, per reading

(* A source is a record of                                                  *)
(*   engine   its EngineSpec                                                *)
(*   config   the profile: its "schema", "database" and "catalog"           *)
(*   schemas  what get_schema_names() lists, in an order of its own         *)
(*   default  the schema that schema=None means                             *)
(*   tables   tables[s]: the names of the tables in schema s, in order      *)
(*   path     path[s]: the SQL identifiers that denote schema s             *)
(*   scope    the schemas that the profile and the engine leave to the user *)
(*   keys     foreign keys [from, to] between tables <<schema, name>>       *)
(*   searchPath  the schemas whose tables need no schema to be named        *)
ASSUME SourcesAssumption ==
    \A s \in Sources :
        /\ s.engine \in EngineSpecs
        /\ s.config \in [{"schema", "database", "catalog"} -> Seq(Atoms)]
        /\ DOMAIN s.tables \subseteq Seq(Atoms) \ {NoName}
        /\ \A schema \in DOMAIN s.tables :
              /\ s.tables[schema] \in Seq(Seq(Atoms) \ {NoName})
              /\ IsInjective(s.tables[schema])
        /\ s.schemas \subseteq DOMAIN s.tables /\ IsFiniteSet(s.schemas)
        /\ s.default \in DOMAIN s.tables
        /\ s.scope \subseteq DOMAIN s.tables
        /\ DOMAIN s.path = DOMAIN s.tables
        /\ s.searchPath \subseteq DOMAIN s.tables
        /\ \A k \in s.keys : {k.from, k.to} \subseteq (DOMAIN s.tables) \X Seq(Atoms)
ASSUME CatalogCapsAssumption == CatalogCaps \subseteq Int
ASSUME MaxFailuresAssumption == MaxFailures \in Nat

VARIABLES
    source,         \* the active connection
    catalogCap,     \* `cap'
    stage,          \* where get_schema_metadata() stands
    targets,        \* the rest of `target_schemas'
    inventory,      \* `inventory', of <<schema, table>>
    index,          \* the index in `attempted' of the table at hand
    tables,         \* `tables_metadata': from keys to [schema, table]
    relationships,  \* `relationships', as pairs of keys
    skipped,        \* `skipped'
    unlisted,       \* history: names or tables of a schema could not be listed
    linked,         \* history: the tables whose foreign keys were read
    failures        \* counter for the bound

reading == <<source, catalogCap, stage, targets, inventory, index, tables, relationships,
             skipped, unlisted, linked, failures>>

Config(field) == IF field = "none" THEN NoName ELSE source.config[field]
Engine == source.engine

IntrospectionInit ==
    /\ source \in Sources
    /\ catalogCap \in CatalogCaps
    /\ stage = "connect"
    /\ targets = <<>>
    /\ inventory = <<>>
    /\ index = 1
    /\ tables = <<>>
    /\ relationships = {}
    /\ skipped = {}
    /\ unlisted = FALSE
    /\ linked = {}
    /\ failures = 0

Fails ==
    /\ failures < MaxFailures
    /\ failures' = failures + 1

-----------------------------------------------------------------------------
(* Which schemas to reflect. *)

(* engine.connect() and inspect(): an exception here is the caller's. *)
Connect ==
    /\ stage = "connect"
    /\ \/ stage' = "resolve" /\ UNCHANGED failures
       \/ stage' = "raised" /\ Fails
    /\ UNCHANGED <<source, catalogCap, targets, inventory, index, tables, relationships,
                   skipped, unlisted, linked>>

(* Whether a listed schema is one of the engine's own.  A composite name is *)
(* split at its last dot and either half may be the system's.               *)
IsSystemAsAWhole(name) == InLowerCase(name) \in {<<s>> : s \in Engine.systemSchemas}

IsSystemOf(engine, name) ==
    LET system == {<<s>> : s \in engine.systemSchemas}
        halves == {Front(name), BareName(name)}
    IN IF engine.composite
          THEN \E half \in halves : InLowerCase(half) \in system
          ELSE InLowerCase(name) \in system

IsSystem(name) == IsSystemOf(Engine, name)

(* Names tell an engine's own schemas: what a profile without a namespace    *)
(* leaves to the user are the other schemas that the database lists, and     *)
(* the one that no schema at all means.                                      *)
ASSUME ScopeAssumption ==
    \A s \in Sources :
        IF s.engine.parts < 2
           THEN s.scope = {s.default}
           ELSE LET namespace == s.config[s.engine.namespaceField]
                    userSchemas == {schema \in s.schemas : ~ IsSystemOf(s.engine, schema)}
                IN IF namespace # NoName
                      THEN s.scope = {namespace} \cap DOMAIN s.tables
                      ELSE /\ s.default \in s.scope
                           /\ s.scope = (IF userSchemas = {} THEN {s.default} ELSE userSchemas)

OrDefault(schemas) == IF schemas = <<>> THEN <<NoName>> ELSE schemas

(* The profile's namespace, under the key this engine keeps it. *)
AlwaysSchemaField == Config("schema")
ConfiguredNamespace == Config(Engine.namespaceField)

(* _resolve_schemas and _enumerate_schemas. *)
ResolveSchemas ==
    /\ stage = "resolve"
    /\ stage' = "list"
    /\ IF Engine.parts < 2
          THEN targets' = <<NoName>> /\ UNCHANGED <<unlisted, failures>>
       ELSE IF ConfiguredNamespace # NoName
          THEN targets' = <<ConfiguredNamespace>> /\ UNCHANGED <<unlisted, failures>>
       ELSE \/ /\ \E names \in SetToSeqs({s \in source.schemas : ~ IsSystem(s)}) :
                     targets' = OrDefault(names)
               /\ UNCHANGED <<unlisted, failures>>
            \/ /\ targets' = <<NoName>>
               /\ unlisted' = TRUE
               /\ Fails
    /\ UNCHANGED <<source, catalogCap, inventory, index, tables, relationships, skipped, linked>>

-----------------------------------------------------------------------------
(* Which tables to attempt. *)

SchemaMeant(schema) == IF schema = NoName THEN source.default ELSE schema

(* inspector.get_table_names(schema = ...); an unknown schema has no tables. *)
TablesIn(schema) ==
    IF SchemaMeant(schema) \in DOMAIN source.tables THEN source.tables[SchemaMeant(schema)] ELSE <<>>

ListTables ==
    /\ stage = "list"
    /\ targets # <<>>
    /\ LET schema == Head(targets)
           found == [i \in DOMAIN TablesIn(schema) |-> <<schema, TablesIn(schema)[i]>>]
       IN \/ inventory' = inventory \o found /\ UNCHANGED <<unlisted, failures>>
          \/ UNCHANGED inventory /\ unlisted' = TRUE /\ Fails
    /\ targets' = Tail(targets)
    /\ UNCHANGED <<source, catalogCap, stage, index, tables, relationships, skipped, linked>>

AllListed ==
    /\ stage = "list"
    /\ targets = <<>>
    /\ stage' = "reflect"
    /\ UNCHANGED <<source, catalogCap, targets, inventory, index, tables, relationships,
                   skipped, unlisted, linked, failures>>

(* inventory[:cap], as Python slices: a negative cap counts from the end. *)
Attempted ==
    SubSeq(inventory, 1, IF catalogCap >= 0
                            THEN IF catalogCap < Len(inventory) THEN catalogCap ELSE Len(inventory)
                            ELSE Len(inventory) + catalogCap)

Truncated == Len(inventory) > catalogCap

-----------------------------------------------------------------------------
(* Reading one table. *)

(* _qualify: the catalog prefix is the profile's, for engines of three-part *)
(* names whose schemas do not carry one.                                    *)
DottedKey(s, schema, table) ==
    IF schema = NoName
       THEN table
    ELSE IF s.engine.parts >= 3 /\ Len(schema) = 1
       THEN s.config["catalog"] \o schema \o table
       ELSE schema \o table

Qualify(schema, table) == DottedKey(source, schema, table)

(* No key can stand for two tables: dots in names do not make the names of   *)
(* two tables, or of a table and of what a foreign key refers to, in its     *)
(* schema or taken for one of the referring schema, alike.                   *)
(* (The catalog is a dict and would keep the last of them.)                  *)
TablesListedBy(s) == UNION {{schema} \X Range(s.tables[schema]) : schema \in DOMAIN s.tables}
TablesReferredTo(s) == {k.to : k \in s.keys} \cup {<<k.from[1], k.to[2]>> : k \in s.keys}
TablesKnownTo(s) == TablesListedBy(s) \cup TablesReferredTo(s)

KeysMeaning(s, table) ==
    {DottedKey(s, schema, table[2]) :
        schema \in {table[1]} \cup (IF table[1] = s.default THEN {NoName} ELSE {})}

ASSUME DottedKeysAssumption ==
    \A s \in Sources : \A t, u \in TablesKnownTo(s) :
        KeysMeaning(s, t) \cap KeysMeaning(s, u) # {} => t = u

(* A composite schema is two identifiers, the database and its schema, and   *)
(* one that lacks its catalog is found in the profile's.                     *)
ASSUME PathAssumption ==
    \A s \in Sources : s.engine.parts >= 2 =>
        \A schema \in DOMAIN s.tables :
            s.path[schema] =
                IF Len(schema) = 1
                   THEN IF s.engine.parts >= 3 /\ s.config["catalog"] # NoName
                           THEN <<s.config["catalog"], schema>>
                           ELSE <<schema>>
                ELSE IF s.engine.composite
                   THEN <<Front(schema), BareName(schema)>>
                   ELSE <<schema>>

Entry(schema, table) == [schema |-> schema, table |-> table]

SkipSilently(key) ==
    /\ index' = index + 1
    /\ stage' = "reflect"
    /\ UNCHANGED skipped
    /\ Fails

SkipTable(key) ==
    /\ skipped' = skipped \cup {key}
    /\ index' = index + 1
    /\ stage' = "reflect"
    /\ Fails

(* Primary key and columns: the table is in the catalog once they are read. *)
ReflectTable ==
    /\ stage = "reflect"
    /\ index <= Len(Attempted)
    /\ LET schema == Attempted[index][1]
           table == Attempted[index][2]
           key == Qualify(schema, table)
       IN \/ /\ tables' = [k \in DOMAIN tables \cup {key} |->
                            IF k = key THEN Entry(schema, table) ELSE tables[k]]
             /\ stage' = "link"
             /\ UNCHANGED <<index, skipped, failures>>
          \/ SkipTable(key) /\ UNCHANGED tables
    /\ UNCHANGED <<source, catalogCap, targets, inventory, relationships, unlisted, linked>>

(* The inspector leaves out the schema a foreign key refers to when it is   *)
(* the referring table's own, and when it is one on the search path, as     *)
(* SQLAlchemy's does for PostgreSQL.                                        *)
LeftOut(k) == k.to[1] # k.from[1] /\ k.to[1] \in source.searchPath
ReportedSchema(k) == IF k.to[1] = k.from[1] \/ LeftOut(k) THEN NoName ELSE k.to[1]

KeysFrom(schema, table) == {k \in source.keys : k.from = <<SchemaMeant(schema), table>>}

(* The relationships of one table, as pairs of catalog keys. *)
LinksWithinSchema(schema, table) ==
    {<<Qualify(schema, table), Qualify(schema, k.to[2])>> : k \in KeysFrom(schema, table)}

LinksOf(schema, table) ==
    {<<Qualify(schema, table),
       Qualify(IF ReportedSchema(k) # NoName THEN ReportedSchema(k) ELSE schema, k.to[2])>> :
         k \in KeysFrom(schema, table)}

ReflectKeys ==
    /\ stage = "link"
    /\ LET schema == Attempted[index][1]
           table == Attempted[index][2]
       IN \/ /\ relationships' = relationships \cup LinksOf(schema, table)
             /\ linked' = linked \cup {<<SchemaMeant(schema), table>>}
             /\ index' = index + 1
             /\ stage' = "reflect"
             /\ UNCHANGED <<skipped, failures>>
          \/ SkipTable(Qualify(schema, table)) /\ UNCHANGED <<relationships, linked>>
    /\ UNCHANGED <<source, catalogCap, targets, inventory, tables, unlisted>>

AllRead ==
    /\ stage = "reflect"
    /\ index > Len(Attempted)
    /\ stage' = "read"
    /\ UNCHANGED <<source, catalogCap, targets, inventory, index, tables, relationships,
                   skipped, unlisted, linked, failures>>

(* reflection_failed, as returned. *)
NeverFlagged == FALSE
ReflectionFailed == Attempted # <<>> /\ DOMAIN tables = {}

IntrospectionNext ==
    \/ Connect \/ ResolveSchemas \/ ListTables \/ AllListed
    \/ ReflectTable \/ ReflectKeys \/ AllRead

-----------------------------------------------------------------------------
(* Properties. *)

IntrospectionTypeOK ==
    /\ source \in Sources
    /\ catalogCap \in CatalogCaps
    /\ stage \in {"connect", "resolve", "list", "reflect", "link", "read", "raised"}
    /\ targets \in Seq(Seq(Atoms))
    /\ inventory \in Seq(Seq(Atoms) \X Seq(Atoms))
    /\ index \in 1 .. Len(inventory) + 1
    /\ DOMAIN tables \subseteq Seq(Atoms)
    /\ \A k \in DOMAIN tables : tables[k] \in [schema : Seq(Atoms), table : Seq(Atoms)]
    /\ relationships \subseteq Seq(Atoms) \X Seq(Atoms)
    /\ skipped \subseteq Seq(Atoms)
    /\ unlisted \in BOOLEAN
    /\ linked \subseteq Seq(Atoms) \X Seq(Atoms)
    /\ failures \in 0 .. MaxFailures

IsRead == stage = "read"

(* The table an entry of the catalog describes. *)
TableOf(entry) == <<SchemaMeant(entry.schema), entry.table>>

(* The catalog holds tables of the configured namespace, or else of the      *)
(* user's schemas: neither the engine's own nor another database the account *)
(* can see (db.py:282-290).                                                  *)
CatalogIsOfTheNamespace ==
    \A key \in DOMAIN tables : TableOf(tables[key])[1] \in source.scope

(* A table that was listed and attempted is in the catalog with its keys or  *)
(* is reported as skipped, and one that was not attempted is either beyond   *)
(* the cap, which `truncated' says, or could not be listed (db.py:386-434).  *)
EveryTableIsAccountedFor ==
    IsRead =>
        /\ \A i \in DOMAIN Attempted :
              LET key == Qualify(Attempted[i][1], Attempted[i][2])
                  table == <<SchemaMeant(Attempted[i][1]), Attempted[i][2]>>
              IN IF key \in skipped
                    THEN table \notin linked
                    ELSE table \in linked /\ key \in DOMAIN tables /\ TableOf(tables[key]) = table
        /\ ~ Truncated /\ ~ unlisted =>
              \A schema \in source.scope : \A n \in DOMAIN source.tables[schema] :
                  \E i \in DOMAIN Attempted :
                      /\ SchemaMeant(Attempted[i][1]) = schema
                      /\ Attempted[i][2] = source.tables[schema][n]

(* "A wholesale reflection failure looks identical to an empty database      *)
(* unless we say so" (db.py:436): an empty catalog without a flag, all of    *)
(* whose schemas were listed, means there are no tables.                     *)
EmptyMeansEmpty ==
    IsRead /\ DOMAIN tables = {} /\ ~ ReflectionFailed /\ ~ Truncated /\ ~ unlisted =>
        \A schema \in source.scope : source.tables[schema] = <<>>

(* Where the schema is left out db.py takes the referring table's (422).     *)
FiledUnder(k) == IF LeftOut(k) THEN <<k.from[1], k.to[2]>> ELSE k.to

IsKeyFrom(k, r) == k.from = TableOf(tables[r[1]])

(* Between tables of the catalog there is a link exactly for each foreign    *)
(* key that could be read: across schemas to the table it refers to, unless  *)
(* the inspector left its schema out, and then to none or to the table of    *)
(* that name in the referring schema (db.py:421-428).                        *)
LinksAreKeysAsFiled ==
    IsRead =>
        \A r \in (DOMAIN tables) \X (DOMAIN tables) :
            r \in relationships <=>
                /\ TableOf(tables[r[1]]) \in linked
                /\ \E k \in source.keys : IsKeyFrom(k, r) /\ FiledUnder(k) = TableOf(tables[r[2]])

(* The links between tables of the catalog are the foreign keys the database *)
(* has between them: "Extract foreign keys for relationship mapping"         *)
(* (db.py:419), each to the table it refers to (db.py:421-428).              *)
LinksAreTheForeignKeys ==
    IsRead =>
        \A r \in (DOMAIN tables) \X (DOMAIN tables) :
            r \in relationships <=>
                /\ TableOf(tables[r[1]]) \in linked
                /\ \E k \in source.keys : IsKeyFrom(k, r) /\ k.to = TableOf(tables[r[2]])

=============================================================================
