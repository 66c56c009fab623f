------------------------------- MODULE Engines -------------------------------
(***************************************************************************)
(* schemapilot/engines: what the registry says about each SQL engine, as   *)
(* far as introspection, table names and the sentry depend on it.  Names   *)
(* in these sets are compared in lower case, so they are given in it.      *)
(***************************************************************************)
EXTENDS Naturals

(* EngineSpec: one dataclass instance per engine.                           *)
(*   parts           depth of a qualified name (sql_name_parts)             *)
(*   composite       whether schemas are listed as `database.schema'        *)
(*   namespaceField  the profile key of the schema to reflect, or "none"    *)
EngineSpec(name, parts, composite, field, schemas, commands, pragmas, functions, nodes) ==
    [name |-> name, parts |-> parts, composite |-> composite,
     namespaceField |-> field, systemSchemas |-> schemas,
     readonlyCommands |-> commands, readonlyPragmas |-> pragmas,
     dangerousFunctions |-> functions, dangerousNodes |-> nodes]

FilesystemFuncs == {"load_file", "system", "cmd_exec", "sys_exec", "sys_eval"}
PostgresFuncs == {"pg_read_file", "pg_read_binary_file", "pg_write_file", "pg_ls_dir",
                  "lo_import", "lo_export"}
ShowCommands == {"SHOW", "DESCRIBE", "DESC"}

Postgres == EngineSpec("postgres", 2, FALSE, "schema",
    {"information_schema", "pg_catalog", "pg_toast"},
    {}, {}, FilesystemFuncs \cup PostgresFuncs, {"Copy"})

MySql == EngineSpec("mysql", 2, FALSE, "database",
    {"information_schema", "mysql", "performance_schema", "sys"},
    ShowCommands, {}, FilesystemFuncs, {})

Sqlite == EngineSpec("sqlite", 1, FALSE, "none",
    {},
    {}, {"database_list", "collation_list", "compile_options", "function_list", "module_list"},
    {"load_extension", "readfile", "writefile", "edit", "fsdir"}, {"Attach", "Detach"})

DuckDb == EngineSpec("duckdb", 3, TRUE, "schema",
    {"system", "temp", "information_schema", "pg_catalog"},
    ShowCommands, {"database_list", "show_tables", "database_size", "version", "platform"},
    {"read_csv_auto", "read_json", "read_json_auto", "read_text", "read_blob", "glob", "sniff_csv"},
    {"ReadCSV", "ReadParquet", "Attach", "Detach", "Copy", "Export"})

Trino == EngineSpec("trino", 3, FALSE, "schema",
    {"information_schema"},
    ShowCommands, {}, {}, {})

ClickHouse == EngineSpec("clickhouse", 2, FALSE, "database",
    {"system", "information_schema"},
    ShowCommands \cup {"EXISTS"}, {},
    {"file", "url", "s3", "s3cluster", "remote", "remotesecure", "hdfs", "mysql", "postgresql",
     "jdbc", "odbc"}, {})

EngineSpecs == {Postgres, MySql, Sqlite, DuckDb, Trino, ClickHouse}

(* The names a profile or a caller may use for an engine: ENGINES and ALIASES. *)
CanonicalName(name) ==
    CASE name \in {"postgresql", "pg"} -> "postgres"
      [] name = "mariadb" -> "mysql"
      [] name = "chdb" -> "clickhouse"
      [] name = "presto" -> "trino"
      [] OTHER -> name

(* get_spec: no spec is a ValueError. *)
SpecsNamed(name) == {s \in EngineSpecs : s.name = CanonicalName(name)}

=============================================================================
