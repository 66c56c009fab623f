------------------------------ MODULE MCSentry ------------------------------
(* An instance of Sentry for TLC: every tree of up to three nodes over the   *)
(* labels below, and two statements with a part hidden in one of them.       *)
EXTENDS Sentry

CONSTANT noTree

Label(kind, word) == [kind |-> kind, word |-> word, name |-> IF kind = "function" THEN word ELSE ""]
Typed(class, name) == [kind |-> "part", word |-> class, name |-> name]

Block == Label("block", "")
StatementLabels ==
    {Label("query", ""), Label("show", ""), Label("mutation", ""),
     Label("command", "SHOW"), Label("command", "EXISTS"), Label("command", "EXPLAIN"),
     Label("blocked", "Drop"), Label("blocked", "Copy"),
     Label("pragma", "database_list"), Label("pragma", "user_version"), Label("pragma set", ""),
     Label("alias", "TABLE"), Label("alias", "RESET"),
     Label("function", "load_file"), Label("part", "Kill")}
PartLabels ==
    {Label("query", ""), Label("mutation", ""), Label("blocked", "Into"),
     Label("function", "load_file"), Label("function", "copy"), Label("function", "read_json"),
     Label("function", "s3"), Label("part", "Column"),
     Typed("Cast", "url"), Typed("Length", "copy"), Typed("ReadCSV", "file"),
     Label("alias", "RESET")}

Below(label) ==
    CASE label.kind = "block" -> StatementLabels \cup {Block}
      [] label.kind \in {"query", "mutation"} -> PartLabels
      [] OTHER -> {}

Grown(trees) ==
    UNION {{[label |-> Append(t.label, l), parent |-> Append(t.parent, p)] : l \in Below(t.label[p])} :
              <<t, p>> \in {tp \in trees \X (1 .. 3) : tp[2] \in DOMAIN tp[1].label}}

One == {[label |-> <<l>>, parent |-> <<0>>] : l \in StatementLabels \cup {Block}}
Two == Grown(One)
Three == Grown(Two)
TwoStatements == {t \in Three : t.label[1] = Block /\ t.parent[3] = 1}
Hidden == {t \in Grown(TwoStatements) : t.parent[4] # 1 /\ t.label[t.parent[4]] # Block}

TreesValue == One \cup Two \cup Three \cup Hidden

EngineArgsValue == {"", "postgres", "pg", "mysql", "sqlite", "duckdb", "trino", "chdb", "postgress"}

Names == {s.name : s \in EngineSpecs}
OutsideValue ==
    (Names \X {"load_file", "copy"}) \cup
    {<<"duckdb", "read_json">>, <<"duckdb", "ReadCSV">>, <<"clickhouse", "s3">>}
=============================================================================
