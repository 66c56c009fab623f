--------------------------- MODULE TableSelection ---------------------------
(***************************************************************************)
(* What select_relevant_tables (schemapilot/pruning.py) promises to those  *)
(* who call it.  Agent relies on it, Pruning shows how it comes about.     *)
(***************************************************************************)
EXTENDS Naturals, FiniteSets

(* Everything when it fits, else a choice that holds every pin the catalog *)
(* knows and exceeds the cap only for pins.                                *)
SelectionsForgettingPins(tables, pins, cap) ==
    {S \in SUBSET tables : S # {} /\ Cardinality(S) <= cap}

Selections(tables, pins, cap) ==
    IF Cardinality(tables) <= cap
       THEN {tables}
       ELSE {S \in SUBSET tables :
                /\ S # {}
                /\ pins \cap tables \subseteq S
                /\ Cardinality(S) <= cap \/ S = pins \cap tables}

=============================================================================
