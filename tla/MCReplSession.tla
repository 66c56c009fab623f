---------------------------- MODULE MCReplSession ----------------------------
(* An instance of ReplSession for TLC: two databases that share a table name, *)
(* different engine policies, one of the profiles opted in to samples.       *)
EXTENDS ReplSession, TLC

CONSTANTS shop, archive, orders, customers, items, logs, select, show, drop

ConnsValue == {shop, archive}
TablesValue == {orders, customers, items, logs}
TablesOfValue == shop :> {orders, customers, items} @@ archive :> {orders, logs}
ApprovedValue == shop :> {select} @@ archive :> {select, show}
=============================================================================
