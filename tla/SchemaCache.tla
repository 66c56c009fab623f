----------------------------- MODULE SchemaCache -----------------------------
(***************************************************************************)
(* schemapilot/catalog.py: the one in-memory copy of the schema of the     *)
(* active connection, and the reads of the database that fill it.          *)
(*                                                                         *)
(* `active' is DatabaseManager.active_id, which ConnectionManager models:  *)
(* here it only changes by a whole select_connection.                      *)
(***************************************************************************)
EXTENDS Naturals, FiniteSets

CONSTANTS
    Conns,       \* the connection profiles of the registry
    NoConn,      \* Python's None, for a connection id
    Tables,      \* qualified table names
    TablesOf,    \* TablesOf[c]: the tables that exist in c's database
    NoMetadata   \* Python's None, for a schema

ASSUME NoConnAssumption == NoConn \notin Conns
ASSUME TablesOfAssumption == TablesOf \in [Conns -> SUBSET Tables]

VARIABLES
    active,        \* db.active_id
    metadata,      \* SchemaCache._metadata
    connectionId,  \* SchemaCache._connection_id
    uses           \* history: how many times a switch was asked for

cacheVars == <<active, metadata, connectionId, uses>>

(* What one read of the schema returns.  `of' and `read' are history: the   *)
(* database that was read, and the number of switches asked for by then.    *)
Metadata == [of : Conns, tables : SUBSET Tables, read : Nat]

ASSUME NoMetadataAssumption == NoMetadata \notin Metadata

(* get_schema_metadata over the open connection: a table or a whole schema  *)
(* that cannot be listed or reflected is logged and skipped, so any part of *)
(* the tables that exist may come back, and no exception says so.           *)
Readable(c) == SUBSET TablesOf[c]

MetadataOf(c) == [of : {c}, tables : Readable(c), read : {uses}]

(* Metadata is served only for the connection it was loaded for. *)
IsWarm == metadata # NoMetadata /\ connectionId = active

(* What the completer and the commands see. *)
TableNames == IF IsWarm THEN metadata.tables ELSE {}

KeepMetadata == UNCHANGED <<metadata, connectionId>>

InvalidateNothing == KeepMetadata
Invalidate ==
    /\ metadata' = NoMetadata
    /\ connectionId' = NoConn

(* The metadata m, read from connection c, becomes the catalog. *)
Load(m, c) ==
    /\ metadata' = m
    /\ connectionId' = c

(* warm(): a hit returns the metadata held, a miss reads the database and   *)
(* keeps what it returned, or raises and keeps nothing new.                 *)
WarmHit == IsWarm /\ KeepMetadata
WarmMiss == ~ IsWarm /\ active # NoConn /\ \E m \in MetadataOf(active) : Load(m, active)
WarmRaises == ~ IsWarm /\ KeepMetadata

Warm == WarmHit \/ WarmMiss \/ WarmRaises

CacheTypeOK ==
    /\ active \in Conns \cup {NoConn}
    /\ metadata \in Metadata \cup {NoMetadata}
    /\ connectionId \in Conns \cup {NoConn}
    /\ uses \in Nat

(* The catalog served describes the database now connected, read since the   *)
(* last switch was asked for: neither the previous database's tables nor a   *)
(* copy from before the switch (catalog.py:18-19).                           *)
CatalogIsCurrent ==
    IsWarm => metadata.of = active /\ metadata.read = uses

=============================================================================
