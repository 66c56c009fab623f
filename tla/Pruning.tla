------------------------------- MODULE Pruning -------------------------------
(***************************************************************************)
(* schemapilot/pruning.py, select_relevant_tables(): which tables of a     *)
(* catalog a question is answered with.  One step per turn of its loops.   *)
(*                                                                         *)
(* How a table scores against a question is abstracted to a number, 0 for  *)
(* no match; the order among tables of equal score is left open, except    *)
(* that it is alphabetical in the code, so any order is possible.          *)
(***************************************************************************)
EXTENDS TableSelection, Names, Integers

VARIABLES
    step,      \* where select_relevant_tables() stands
    keys,      \* the keys of catalog["tables"]
    links,     \* catalog["relationships"], as pairs of names
    scores,    \* scores[t]: how well table t matches the question
    cap,       \* `cap'
    toPin,     \* the rest of `pinned'
    forced,    \* the pins that resolved, in order
    problems,  \* the pins that did not
    unseen,    \* the ranked tables the seeding loop has not come to
    room,      \* the slots left of `seed_room'
    hops,      \* _expand_one_hop's copy of `selected'
    hop,       \* the index in `hops' of the table at hand
    chosen,    \* `selected', in the order of selection
    reasons    \* `reasons', as the loop that selected each table

pruning == <<step, keys, links, scores, cap, toPin, forced, problems, unseen, room, hops, hop,
             chosen, reasons>>
request == <<keys, links, scores, cap>>

FkReserveRatio == 4

Larger(a, b) == IF a > b THEN a ELSE b

PruningInit ==
    /\ step = "idle"
    /\ keys = {}
    /\ links = {}
    /\ scores = <<>>
    /\ cap = 1
    /\ toPin = <<>>
    /\ forced = <<>>
    /\ problems = {}
    /\ unseen = {}
    /\ room = 0
    /\ hops = <<>>
    /\ hop = 1
    /\ chosen = <<>>
    /\ reasons = <<>>

CapAsGiven(maxPromptTables) == maxPromptTables
CapOf(maxPromptTables) == Larger(1, maxPromptTables)

(* The call, MAX_PROMPT_TABLES being what the environment set it to. *)
SelectRelevantTables(catalogKeys, relationships, pins, scoring, maxPromptTables) ==
    /\ step = "idle"
    /\ step' = "pins"
    /\ keys' = catalogKeys
    /\ links' = relationships
    /\ scores' = scoring
    /\ cap' = CapOf(maxPromptTables)
    /\ toPin' = pins
    /\ UNCHANGED <<forced, problems, unseen, room, hops, hop, chosen, reasons>>

(* resolve_pinned: a pin that means one table forces it, once; any other is *)
(* reported.                                                                *)
ResolvePin ==
    /\ step = "pins"
    /\ toPin # <<>>
    /\ LET matches == MatchTableNames(Head(toPin), keys)
       IN IF Cardinality(matches) = 1
             THEN /\ \E t \in matches :
                        forced' = IF t \in Range(forced) THEN forced ELSE Append(forced, t)
                  /\ UNCHANGED problems
             ELSE problems' = problems \cup {Head(toPin)} /\ UNCHANGED forced
    /\ toPin' = Tail(toPin)
    /\ UNCHANGED <<step, request, unseen, room, hops, hop, chosen, reasons>>

(* The result is sorted by score. *)
ByScore(S) ==
    {s \in SetToSeqs(S) : \A i, j \in DOMAIN s : i < j => scores[s[i]] >= scores[s[j]]}

(* A small catalog is sent whole, an empty one is not selected from. *)
SendAll ==
    /\ step = "pins"
    /\ toPin = <<>>
    /\ Cardinality(keys) <= cap
    /\ step' = "done"
    /\ chosen' \in ByScore(keys)
    /\ reasons' = [t \in keys |-> IF t \in Range(forced) THEN "pinned" ELSE "all"]
    /\ UNCHANGED <<request, toPin, forced, problems, unseen, room, hops, hop>>

(* The tables that match the question, or all if none does. *)
Ranked ==
    LET matching == {t \in keys : scores[t] > 0}
    IN IF matching # {} THEN matching ELSE keys

(* The slots held back for foreign-key neighbours. *)
BridgeShare == Larger(1, cap \div FkReserveRatio)

NoReserve == 0
Reserve == IF Cardinality(Ranked) > cap THEN BridgeShare ELSE 0

ForcePins ==
    /\ step = "pins"
    /\ toPin = <<>>
    /\ Cardinality(keys) > cap
    /\ step' = "seed"
    /\ chosen' = forced
    /\ reasons' = [t \in Range(forced) |-> "pinned"]
    /\ unseen' = Ranked
    /\ room' = Larger(1, cap - Len(forced) - Reserve)
    /\ UNCHANGED <<request, toPin, forced, problems, hops, hop>>

-----------------------------------------------------------------------------

(* The next of these tables in the order of their scores. *)
AnyOf(S) == S
BestOf(S) == {t \in S : \A u \in S : scores[t] >= scores[u]}

Take(t, reason) ==
    /\ chosen' = Append(chosen, t)
    /\ reasons' = [u \in DOMAIN reasons \cup {t} |-> IF u = t THEN reason ELSE reasons[u]]

(* One of the first seed_room ranked tables; it uses its slot even when it  *)
(* is a pin already.                                                        *)
Seed ==
    /\ step = "seed"
    /\ room > 0 /\ unseen # {} /\ Len(chosen) < cap
    /\ \E t \in BestOf(unseen) :
        /\ unseen' = unseen \ {t}
        /\ IF t \in DOMAIN reasons
              THEN UNCHANGED <<chosen, reasons>>
              ELSE Take(t, "lexical")
    /\ room' = room - 1
    /\ UNCHANGED <<step, request, toPin, forced, problems, hops, hop>>

EndSeeding ==
    /\ step = "seed"
    /\ room = 0 \/ unseen = {} \/ Len(chosen) >= cap
    /\ step' = "expand"
    /\ hops' = chosen
    /\ UNCHANGED <<request, toPin, forced, problems, unseen, room, hop, chosen, reasons>>

(* _adjacency: the tables of the catalog linked to t, either way. *)
Neighbours(t) ==
    {u \in keys \ {t} : <<t, u>> \in links \/ <<u, t>> \in links}

(* _expand_one_hop: the neighbours of the tables chosen so far, not those  *)
(* of the neighbours.                                                      *)
HopsLeftBeyondCap == hop <= Len(hops)
HopsLeft == hop <= Len(hops) /\ Len(chosen) < cap
NewNeighbours == Neighbours(hops[hop]) \ DOMAIN reasons

NextHop ==
    /\ step = "expand"
    /\ HopsLeft
    /\ NewNeighbours = {}
    /\ hop' = hop + 1
    /\ UNCHANGED <<step, request, toPin, forced, problems, unseen, room, hops, chosen, reasons>>

ExpandTransitively ==
    /\ step = "expand"
    /\ HopsLeft
    /\ \E u \in NewNeighbours : Take(u, "neighbour") /\ hops' = Append(hops, u)
    /\ UNCHANGED <<step, request, toPin, forced, problems, unseen, room, hop>>

Expand ==
    /\ step = "expand"
    /\ HopsLeft
    /\ \E u \in NewNeighbours : Take(u, "neighbour")
    /\ UNCHANGED <<step, request, toPin, forced, problems, unseen, room, hops, hop>>

EndExpansion ==
    /\ step = "expand"
    /\ ~ HopsLeft
    /\ step' = "fill"
    /\ UNCHANGED <<request, toPin, forced, problems, unseen, room, hops, hop, chosen, reasons>>

(* What the hop left of the budget goes to the next-best ranked tables. *)
Fill ==
    /\ step = "fill"
    /\ Len(chosen) < cap
    /\ \E t \in BestOf(Ranked \ DOMAIN reasons) : Take(t, "lexical")
    /\ UNCHANGED <<step, request, toPin, forced, problems, unseen, room, hops, hop>>

EndFilling ==
    /\ step = "fill"
    /\ Len(chosen) >= cap \/ Ranked \subseteq DOMAIN reasons
    /\ step' = "done"
    /\ chosen' \in ByScore(Range(chosen))
    /\ UNCHANGED <<request, toPin, forced, problems, unseen, room, hops, hop, reasons>>

PruningNext ==
    \/ ResolvePin \/ SendAll \/ ForcePins
    \/ Seed \/ EndSeeding \/ NextHop \/ Expand \/ EndExpansion \/ Fill \/ EndFilling

-----------------------------------------------------------------------------
(* Properties. *)

PruningTypeOK ==
    /\ step \in {"idle", "pins", "seed", "expand", "fill", "done"}
    /\ keys \subseteq Seq(Atoms)
    /\ links \subseteq Seq(Atoms) \X Seq(Atoms)
    /\ scores \in [keys -> Nat]
    /\ cap \in Nat \ {0}
    /\ toPin \in Seq(Seq(Atoms))
    /\ forced \in Seq(keys)
    /\ problems \subseteq Seq(Atoms)
    /\ unseen \subseteq keys
    /\ room \in Nat
    /\ hops \in Seq(keys)
    /\ hop \in 1 .. Len(hops) + 1
    /\ chosen \in Seq(keys)
    /\ DOMAIN reasons = Range(chosen)
    /\ \A t \in DOMAIN reasons : reasons[t] \in {"pinned", "lexical", "neighbour", "all"}

Because(reason) == {t \in DOMAIN reasons : reasons[t] = reason}

(* What is selected is what the callers are promised: every resolved pin and *)
(* no more than the cap, unless the pins alone exceed it (pruning.py:231,    *)
(* 297).                                                                     *)
SelectionIsAsPromised ==
    step = "done" /\ keys # {} =>
        Range(chosen) \in Selections(keys, Range(forced), cap)

(* "Filling all 12 slots with lexical hits is how you end up with two ends   *)
(* of a join and no bridge table" (pruning.py:274): when more tables match   *)
(* than fit, and the pins leave room, either all the neighbours of pins and  *)
(* seeds are in or a quarter of the slots are neighbours.                    *)
BridgesGetRoom ==
    /\ step \in {"fill", "done"}
    /\ Cardinality(Ranked) > cap
    /\ Len(forced) + BridgeShare < cap
    => \/ \A t \in Range(hops) : Neighbours(t) \subseteq DOMAIN reasons
       \/ Cardinality(Because("neighbour")) >= BridgeShare

(* "Exactly ONE hop, never a transitive closure" (pruning.py:210): a table   *)
(* that is there as a neighbour is linked to one that is not.                *)
OneHopOnly ==
    \A t \in Because("neighbour") :
        \E u \in DOMAIN reasons \ Because("neighbour") : u \in Neighbours(t)

(* A table is never selected for its score while a better match is left out, *)
(* whichever of the two loops took it (pruning.py:261, 278-295).             *)
BestMatchesFirst ==
    \A t \in Because("lexical") :
        \A u \in keys : scores[u] > scores[t] => u \in DOMAIN reasons

=============================================================================
