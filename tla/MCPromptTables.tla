--------------------------- MODULE MCPromptTables ---------------------------
(* An instance of PromptTables for TLC: one small database per quirk of the  *)
(* engines - several schemas, system schemas in capitals, a namespace that    *)
(* is called a database, composite schemas, catalogs, dotted and             *)
(* case-colliding table names, an empty database.                            *)
EXTENDS PromptTables

AtomsValue == {"orders", "Orders", "items", "customers", "2024", "public", "sales", "shop",
               "my", "main", "system", "mysql", "default", "tpch", "tiny", "sf1", "",
               "information_schema", "INFORMATION_SCHEMA", "we\"ird", "weird"}
LowerValue == [a \in AtomsValue |->
                  CASE a = "Orders" -> "orders"
                    [] a = "INFORMATION_SCHEMA" -> "information_schema"
                    [] OTHER -> a]
CleanedValue == [place \in Places |-> [a \in AtomsValue |-> IF a = "we\"ird" THEN "weird" ELSE a]]

orders == <<"orders">>
Orders_ == <<"Orders">>
items == <<"items">>
customers == <<"customers">>
salesOrders == <<"sales", "orders">>
public == <<"public">>
sales == <<"sales">>
shop == <<"shop">>

Profile(schema, database, catalog) ==
    "schema" :> schema @@ "database" :> database @@ "catalog" :> catalog

Key(fromSchema, from, toSchema, to) == [from |-> <<fromSchema, from>>, to |-> <<toSchema, to>>]

Source(engine, config, schemas, default, tables_, path, scope, keys_, searchPath) ==
    [engine |-> engine, config |-> config, schemas |-> schemas, default |-> default,
     tables |-> tables_, path |-> path, scope |-> scope, keys |-> keys_,
     searchPath |-> searchPath]

(* Plain schemas are one identifier each. *)
Plain(schemas) == [s \in schemas |-> <<s>>]

PostgresTables ==
    public :> <<customers, orders>> @@ sales :> <<items, orders>> @@ <<"information_schema">> :> <<items>>
PostgresKeys == {Key(sales, orders, public, customers), Key(sales, items, sales, orders),
                 Key(public, orders, sales, items)}
PostgresAll ==
    Source(Postgres, Profile(NoName, shop, NoName), {<<"information_schema">>, public, sales},
           public, PostgresTables, Plain(DOMAIN PostgresTables), {public, sales}, PostgresKeys,
           {public})

TwinTables == public :> <<orders>> @@ sales :> <<orders, Orders_, items>>
PostgresTwins ==
    Source(Postgres, Profile(sales, shop, NoName), {public, sales}, public, TwinTables,
           Plain(DOMAIN TwinTables), {sales},
           {Key(sales, items, sales, orders), Key(sales, orders, public, orders)}, {public})

MySqlTables == shop :> <<orders, items>> @@ sales :> <<orders>> @@ <<"mysql">> :> <<items>>
MySqlOne ==
    Source(MySql, Profile(NoName, shop, NoName), {<<"mysql">>, sales, shop}, shop, MySqlTables,
           Plain(DOMAIN MySqlTables), {shop}, {Key(shop, items, shop, orders)}, {})

ClickHouseTables ==
    <<"default">> :> <<orders>> @@ <<"INFORMATION_SCHEMA">> :> <<items>> @@ <<"system">> :> <<items>>
ClickHouseAll ==
    Source(ClickHouse, Profile(NoName, NoName, NoName),
           {<<"INFORMATION_SCHEMA">>, <<"default">>, <<"system">>}, <<"default">>,
           ClickHouseTables, Plain(DOMAIN ClickHouseTables), {<<"default">>}, {}, {})

DuckDbTables ==
    <<"shop", "main">> :> <<orders, <<"sales", "2024">>>> @@
    <<"my", "shop", "main">> :> <<orders>> @@
    <<"system", "main">> :> <<items>>
DuckDbAll ==
    Source(DuckDb, Profile(NoName, NoName, NoName),
           {<<"shop", "main">>, <<"my", "shop", "main">>, <<"system", "main">>}, <<"shop", "main">>,
           DuckDbTables,
           [s \in DOMAIN DuckDbTables |-> <<SubSeq(s, 1, Len(s) - 1), <<"main">>>>],
           {<<"shop", "main">>, <<"my", "shop", "main">>}, {}, {})

TrinoTables == <<"tiny">> :> <<customers, orders>> @@ <<"sf1">> :> <<orders>>
TrinoOne ==
    Source(Trino, Profile(<<"tiny">>, NoName, <<"tpch">>), {<<"sf1">>, <<"tiny">>}, <<"tiny">>,
           TrinoTables, [s \in DOMAIN TrinoTables |-> <<<<"tpch">>, s>>], {<<"tiny">>}, {}, {})

(* SQLite has no schemas; its tables are kept under an anonymous one. *)
NoSchema == <<"">>
SqliteTables(names, keys_) ==
    Source(Sqlite, Profile(NoName, NoName, NoName), {}, NoSchema, NoSchema :> names,
           NoSchema :> <<>>, {NoSchema}, keys_, {})
SqliteShop ==
    SqliteTables(<<customers, items, salesOrders, <<"shop", "sales", "orders">>>>,
                 {Key(NoSchema, salesOrders, NoSchema, customers),
                  Key(NoSchema, items, NoSchema, salesOrders),
                  Key(NoSchema, salesOrders, NoSchema, salesOrders)})
SqliteQuoted == SqliteTables(<<items, <<"we\"ird">>>>, {})
SqliteEmpty == SqliteTables(<<>>, {})

SourcesValue == {PostgresAll, PostgresTwins, MySqlOne, ClickHouseAll, DuckDbAll, TrinoOne,
                 SqliteShop, SqliteQuoted, SqliteEmpty}
SearchPathSources == {PostgresAll}

(* "@orders", "@or", "@sales.", "@i", "@c", "@shop.main.sales", "@we" and the like. *)
TypingsValue ==
    {[pieces |-> <<>>, begins |-> {a}] : a \in {"orders", "items", "customers", "sales", "tpch"}} \cup
    {[pieces |-> <<>>, begins |-> {"weird", "we\"ird"}],
     [pieces |-> sales, begins |-> {"orders"}], [pieces |-> public, begins |-> {"orders"}],
     [pieces |-> <<"shop", "main">>, begins |-> {"sales"}]}

CatalogCapsValue == {-1, 2, 9}
ScoresValue == {0, 1, 2}
PromptCapsValue == {0, 3}
=============================================================================
