----------------------------- MODULE PruningProofs -----------------------------
(***************************************************************************)
(* Proofs about Pruning, for every catalog, request and cap.               *)
(*                                                                         *)
(* Pruning's steps are some of the steps of a program that calls it, so    *)
(* the results are lemmas about its steps, and PromptTablesProofs draws the*)
(* theorems.  SelectionIsAsPromised, OneHopOnly and BestMatchesFirst are   *)
(* nearly inductive.  BridgesGetRoom says what is true at the end and needs*)
(* an account of the slots along the way: Seeding bounds what the seeds may*)
(* still take, Expanding says that whatever is chosen beyond the hops is a *)
(* neighbour, so a full prompt has the share that seeding left free.  The  *)
(* lemmas about lists are those of IntrospectionProofs.                    *)
(***************************************************************************)
EXTENDS Pruning, IntrospectionProofs

-----------------------------------------------------------------------------
(* The inductive invariant. *)

Selecting == step \in {"seed", "expand", "fill"}

(* More tables match than fit, and the pins leave room for bridges. *)
Contended == Cardinality(Ranked) > cap /\ Len(forced) + BridgeShare < cap

(* Before a table is chosen. *)
Resolving ==
    step \in {"idle", "pins"} =>
        /\ chosen = <<>> /\ hops = <<>> /\ hop = 1 /\ unseen = {}
        /\ step = "idle" => forced = <<>>

(* While tables are chosen: there is a choice to make, the pins are in, and *)
(* only they may exceed the cap.                                            *)
Bounded ==
    Selecting =>
        /\ Cardinality(keys) > cap
        /\ Range(forced) \subseteq Range(chosen)
        /\ Len(chosen) <= cap \/ chosen = forced

Seeding ==
    step = "seed" =>
        /\ hops = <<>> /\ hop = 1
        /\ Because("neighbour") = {}
        /\ unseen \subseteq Ranked
        /\ Ranked \ unseen \subseteq DOMAIN reasons
        /\ chosen = <<>> => room > 0 /\ unseen # {}
        /\ Contended => Len(chosen) + room <= cap - BridgeShare

Expanding ==
    step = "expand" =>
        /\ Range(hops) \subseteq DOMAIN reasons \ Because("neighbour")
        /\ Cardinality(Because("neighbour")) = Len(chosen) - Len(hops)
        /\ \A i \in 1 .. hop - 1 : Neighbours(hops[i]) \subseteq DOMAIN reasons
        /\ Contended => Len(hops) <= cap - BridgeShare

Chosen == step \in {"expand", "fill"} => chosen # <<>>

PruningInv ==
    /\ PruningTypeOK
    /\ IsFiniteSet(keys)
    /\ Resolving /\ Bounded /\ Seeding /\ Expanding /\ Chosen
    /\ SelectionIsAsPromised /\ BridgesGetRoom /\ OneHopOnly /\ BestMatchesFirst

-----------------------------------------------------------------------------
(* The numbers and the choices of one selection. *)

(* Larger(1, n), the code's max(1, n), is a positive number. *)
LEMMA LargerType ==
    ASSUME NEW n \in Int PROVE Larger(1, n) \in Nat \ {0} /\ Larger(1, n) >= n
BY DEF Larger

(* A quarter of the cap is at least one slot, and leaves one unless the cap  *)
(* is one (pruning.py:271-276).                                              *)
LEMMA Budgets ==
    ASSUME cap \in Nat \ {0}
    PROVE  BridgeShare \in Nat \ {0} /\ (BridgeShare < cap \/ cap = 1) /\ Reserve \in {0, BridgeShare}
<1>1. cap \div 4 \in Nat /\ (cap \div 4 < cap)
    OBVIOUS
<1>. QED
    BY <1>1 DEF BridgeShare, Reserve, Larger, FkReserveRatio

(* There is something to rank, and a better match than a ranked table is ranked. *)
LEMMA RankedTables ==
    ASSUME scores \in [keys -> Nat]
    PROVE  /\ Ranked \subseteq keys
           /\ keys # {} => Ranked # {}
           /\ \A t \in Ranked, u \in keys : scores[u] > scores[t] => u \in Ranked
BY DEF Ranked

(* What the request decides stays decided. *)
LEMMA RequestKept ==
    ASSUME UNCHANGED request
    PROVE  /\ Ranked' = Ranked /\ BridgeShare' = BridgeShare
           /\ UNCHANGED forced => Contended' = Contended
           /\ \A t : Neighbours(t)' = Neighbours(t)
<1>. USE DEF request
<1>1. Ranked' = Ranked /\ BridgeShare' = BridgeShare
    BY DEF Ranked, BridgeShare
<1>2. \A t : Neighbours(t)' = Neighbours(t)
    BY DEF Neighbours
<1>. QED
    BY <1>1, <1>2 DEF Contended

(* A table is taken, with the loop that took it as its reason. *)
LEMMA Taken ==
    ASSUME NEW t \in keys, t \notin DOMAIN reasons, NEW reason, Take(t, reason),
           chosen \in Seq(keys), DOMAIN reasons = Range(chosen)
    PROVE  /\ chosen' \in Seq(keys) /\ chosen' # <<>> /\ Len(chosen') = Len(chosen) + 1
           /\ Range(chosen') = Range(chosen) \cup {t}
           /\ DOMAIN reasons' = Range(chosen')
           /\ reasons'[t] = reason
           /\ \A u \in DOMAIN reasons : u # t /\ reasons'[u] = reasons[u]
           /\ Because(reason)' = Because(reason) \cup {t}
           /\ \A r : r # reason => Because(r)' = Because(r)
<1>1. /\ chosen' \in Seq(keys) /\ chosen' # <<>> /\ Len(chosen') = Len(chosen) + 1
      /\ Range(chosen') = Range(chosen) \cup {t}
    BY RangeOfAppend DEF Take
<1>2. /\ DOMAIN reasons' = DOMAIN reasons \cup {t} /\ reasons'[t] = reason
      /\ \A u \in DOMAIN reasons : u # t /\ reasons'[u] = reasons[u]
    BY DEF Take
<1>. QED
    BY <1>1, <1>2 DEF Because

-----------------------------------------------------------------------------
(* Each step keeps the invariant. *)

(* select_relevant_tables is called: a request of any catalog, pins and      *)
(* scores starts a selection in which nothing is chosen.                     *)
LEMMA CallSafe ==
    ASSUME PruningInv,
           NEW catalogKeys, NEW joins, NEW pins, NEW scoring, NEW maxPromptTables \in Int,
           catalogKeys \subseteq Seq(Atoms), IsFiniteSet(catalogKeys),
           joins \subseteq Seq(Atoms) \X Seq(Atoms),
           pins \in Seq(Seq(Atoms)), scoring \in [catalogKeys -> Nat],
           SelectRelevantTables(catalogKeys, joins, pins, scoring, maxPromptTables)
    PROVE  PruningInv'
<1>1. /\ step' = "pins" /\ UNCHANGED <<forced, problems, unseen, room, hops, hop, chosen, reasons>>
      /\ forced = <<>> /\ chosen = <<>> /\ hops = <<>> /\ hop = 1 /\ unseen = {}
    BY DEF SelectRelevantTables, PruningInv, Resolving
<1>2. DOMAIN reasons = {}
    BY <1>1 DEF PruningInv, PruningTypeOK, Range
<1>3. cap' \in Nat \ {0}
    BY LargerType DEF SelectRelevantTables, CapOf
<1>4. PruningTypeOK'
    BY <1>1, <1>2, <1>3 DEF SelectRelevantTables, PruningInv, PruningTypeOK, Range
<1>5. IsFiniteSet(keys)'
    BY DEF SelectRelevantTables
<1>6. Resolving' /\ Bounded' /\ Seeding' /\ Expanding' /\ Chosen'
    BY <1>1 DEF Resolving, Bounded, Seeding, Expanding, Chosen, Selecting
<1>7. SelectionIsAsPromised' /\ BridgesGetRoom' /\ OneHopOnly' /\ BestMatchesFirst'
    BY <1>1, <1>2 DEF SelectionIsAsPromised, BridgesGetRoom, OneHopOnly, BestMatchesFirst, Because
<1>. QED
    BY <1>4, <1>5, <1>6, <1>7 DEF PruningInv

(* A pinned name is matched with keys of the catalog only. *)
LEMMA PinMatchesKeys ==
    ASSUME NEW name, NEW K PROVE MatchTableNames(name, K) \subseteq K
BY DEF MatchTableNames, ExactMatches, SuffixMatches, LeafMatches

(* A pin is resolved, or becomes a problem: nothing is chosen yet. *)
LEMMA ResolvePinSafe == ASSUME PruningInv, ResolvePin PROVE PruningInv'
<1>1. /\ step = "pins" /\ toPin # <<>> /\ toPin' = Tail(toPin)
      /\ UNCHANGED <<step, keys, links, scores, cap, unseen, room, hops, hop, chosen, reasons>>
    BY DEF ResolvePin, request
<1>2. chosen = <<>> /\ hops = <<>> /\ hop = 1 /\ unseen = {} /\ DOMAIN reasons = {}
    BY <1>1 DEF PruningInv, Resolving, PruningTypeOK, Range
<1>3. toPin \in Seq(Seq(Atoms)) /\ Head(toPin) \in Seq(Atoms) /\ toPin' \in Seq(Seq(Atoms))
    BY <1>1 DEF PruningInv, PruningTypeOK
<1>4. forced' \in Seq(keys) /\ problems' \subseteq Seq(Atoms)
    <2>1. forced \in Seq(keys) /\ problems \subseteq Seq(Atoms)
        BY DEF PruningInv, PruningTypeOK
    <2>2. CASE UNCHANGED forced /\ problems' = problems \cup {Head(toPin)}
        BY <1>3, <2>1, <2>2
    <2>3. CASE \E t \in MatchTableNames(Head(toPin), keys) :
                  /\ forced' = IF t \in Range(forced) THEN forced ELSE Append(forced, t)
                  /\ UNCHANGED problems
        BY <2>1, <2>3, PinMatchesKeys
    <2>. QED
        BY <2>2, <2>3 DEF ResolvePin
<1>5. PruningTypeOK'
    BY <1>1, <1>3, <1>4 DEF PruningInv, PruningTypeOK
<1>6. IsFiniteSet(keys)' /\ Resolving' /\ Bounded' /\ Seeding' /\ Expanding' /\ Chosen'
    BY <1>1, <1>2 DEF PruningInv, Resolving, Bounded, Seeding, Expanding, Chosen, Selecting
<1>7. SelectionIsAsPromised' /\ BridgesGetRoom' /\ OneHopOnly' /\ BestMatchesFirst'
    BY <1>1, <1>2 DEF SelectionIsAsPromised, BridgesGetRoom, OneHopOnly, BestMatchesFirst, Because
<1>. QED
    BY <1>5, <1>6, <1>7 DEF PruningInv

(* A catalog that fits is sent whole, so that nothing is left out and there  *)
(* are no seeds or neighbours.                                               *)
LEMMA SendAllSafe == ASSUME PruningInv, SendAll PROVE PruningInv'
<1>1. /\ step = "pins" /\ step' = "done" /\ Cardinality(keys) <= cap
      /\ UNCHANGED <<keys, links, scores, cap, toPin, forced, problems, unseen, room, hops, hop>>
      /\ DOMAIN reasons' = keys
      /\ \A t \in keys : reasons'[t] \in {"pinned", "all"}
    BY DEF SendAll, request
<1>2. chosen' \in Seq(keys) /\ Range(chosen') = keys
    BY SortedIsWhole DEF SendAll, ByScore, PruningInv
<1>3. PruningTypeOK'
    BY <1>1, <1>2 DEF PruningInv, PruningTypeOK
<1>4. IsFiniteSet(keys)' /\ Resolving' /\ Bounded' /\ Seeding' /\ Expanding' /\ Chosen'
    BY <1>1 DEF PruningInv, Resolving, Bounded, Seeding, Expanding, Chosen, Selecting
<1>5. SelectionIsAsPromised'
    BY <1>1, <1>2 DEF SelectionIsAsPromised, Selections
<1>6. BridgesGetRoom'
    <2>1. ~ (Cardinality(Ranked) > cap)
        <3>1. Ranked \subseteq keys
            BY RankedTables DEF PruningInv, PruningTypeOK
        <3>2. Cardinality(Ranked) <= Cardinality(keys) /\ Cardinality(Ranked) \in Nat /\ Cardinality(keys) \in Nat
            BY <3>1, FS_Subset, FS_CardinalityType DEF PruningInv
        <3>. QED
            BY <1>1, <3>2 DEF PruningInv, PruningTypeOK
    <2>2. Ranked' = Ranked /\ cap' = cap
        BY <1>1, RequestKept DEF request
    <2>. QED
        BY <2>1, <2>2 DEF BridgesGetRoom
<1>7. Because("neighbour")' = {} /\ Because("lexical")' = {}
    BY <1>1 DEF Because
<1>8. OneHopOnly' /\ BestMatchesFirst'
    BY <1>7 DEF OneHopOnly, BestMatchesFirst
<1>. QED
    BY <1>3, <1>4, <1>5, <1>6, <1>8 DEF PruningInv

(* The pins go in first; what is reserved for bridges is left free when more *)
(* tables match than fit and the pins leave room.                            *)
LEMMA ForcePinsSafe == ASSUME PruningInv, ForcePins PROVE PruningInv'
<1>1. /\ step' = "seed" /\ Cardinality(keys) > cap
      /\ UNCHANGED <<keys, links, scores, cap, toPin, forced, problems, hops, hop>>
      /\ chosen' = forced /\ DOMAIN reasons' = Range(forced)
      /\ \A t \in Range(forced) : reasons'[t] = "pinned"
      /\ unseen' = Ranked /\ room' = Larger(1, cap - Len(forced) - Reserve)
      /\ hops = <<>> /\ hop = 1
    BY DEF ForcePins, request, PruningInv, Resolving
<1>2. /\ cap \in Nat \ {0} /\ forced \in Seq(keys) /\ Len(forced) \in Nat
      /\ scores \in [keys -> Nat]
    BY DEF PruningInv, PruningTypeOK
<1>3. BridgeShare \in Nat \ {0} /\ Reserve \in {0, BridgeShare}
    BY <1>2, Budgets
<1>4. room' \in Nat \ {0}
    <2>1. cap - Len(forced) - Reserve \in Int
        BY <1>2, <1>3
    <2>. QED
        BY <1>1, <2>1, LargerType
<1>5. Ranked \subseteq keys /\ Ranked # {}
    BY <1>1, <1>2, RankedTables, FS_EmptySet
<1>6. PruningTypeOK'
    BY <1>1, <1>2, <1>4, <1>5 DEF PruningInv, PruningTypeOK
<1>7. IsFiniteSet(keys)' /\ Resolving' /\ Bounded' /\ Expanding' /\ Chosen'
    BY <1>1 DEF PruningInv, Resolving, Bounded, Expanding, Chosen, Selecting
<1>8. Because("neighbour")' = {} /\ Because("lexical")' = {}
    BY <1>1 DEF Because
<1>9. Seeding'
    <2>1. Ranked' = Ranked /\ BridgeShare' = BridgeShare /\ Contended' = Contended
        BY <1>1, RequestKept DEF request
    <2>2. Contended => Len(forced) + room' <= cap - BridgeShare
        <3>1. Contended => Reserve = BridgeShare /\ Len(forced) + BridgeShare < cap
            BY DEF Contended, Reserve
        <3>. QED
            BY <1>1, <1>2, <1>3, <3>1 DEF Larger
    <2>. QED
        BY <1>1, <1>4, <1>5, <1>8, <2>1, <2>2 DEF Seeding
<1>10. SelectionIsAsPromised' /\ BridgesGetRoom'
    BY <1>1 DEF SelectionIsAsPromised, BridgesGetRoom
<1>11. OneHopOnly' /\ BestMatchesFirst'
    BY <1>8 DEF OneHopOnly, BestMatchesFirst
<1>. QED
    BY <1>6, <1>7, <1>9, <1>10, <1>11 DEF PruningInv

(* A table that is the best of the ranked ones left may be taken. *)
LEMMA BestIsTaken ==
    ASSUME PruningInv, NEW left, NEW t \in BestOf(left), Take(t, "lexical"), t \notin DOMAIN reasons,
           UNCHANGED request, left \subseteq Ranked, Ranked \ left \subseteq DOMAIN reasons
    PROVE  BestMatchesFirst' /\ (OneHopOnly' /\ Because("neighbour")' = Because("neighbour"))
<1>1. t \in Ranked /\ t \in keys /\ scores \in [keys -> Nat]
    BY RankedTables DEF PruningInv, PruningTypeOK, BestOf
<1>2. /\ DOMAIN reasons' = DOMAIN reasons \cup {t}
      /\ Because("lexical")' = Because("lexical") \cup {t}
      /\ Because("neighbour")' = Because("neighbour")
    BY <1>1, Taken DEF PruningInv, PruningTypeOK
<1>3. ASSUME NEW u \in keys, scores[u] > scores[t] PROVE u \in DOMAIN reasons
    <2>1. u \in Ranked
        BY <1>1, <1>3, RankedTables
    <2>2. u \notin left
        BY <1>1, <1>3 DEF BestOf
    <2>. QED
        BY <2>1, <2>2
<1>4. keys' = keys /\ scores' = scores /\ \A u : Neighbours(u)' = Neighbours(u)
    BY RequestKept DEF request
<1>5. BestMatchesFirst'
    BY <1>2, <1>3, <1>4 DEF PruningInv, BestMatchesFirst
<1>6. OneHopOnly'
    BY <1>2, <1>4 DEF PruningInv, OneHopOnly
<1>. QED
    BY <1>2, <1>5, <1>6

(* The best ranked table becomes a seed, or was a pin: either way one slot   *)
(* of the seeds' room is used.                                               *)
LEMMA SeedSafe == ASSUME PruningInv, Seed PROVE PruningInv'
<1>1. /\ step = "seed" /\ room > 0 /\ Len(chosen) < cap /\ room' = room - 1
      /\ UNCHANGED <<step, keys, links, scores, cap, toPin, forced, problems, hops, hop>>
      /\ hops = <<>> /\ hop = 1
    BY DEF Seed, request, PruningInv, Seeding
<1>2. /\ cap \in Nat \ {0} /\ chosen \in Seq(keys) /\ Len(chosen) \in Nat /\ room \in Nat
      /\ scores \in [keys -> Nat] /\ DOMAIN reasons = Range(chosen)
      /\ unseen \subseteq keys
    BY DEF PruningInv, PruningTypeOK
<1>3. /\ Because("neighbour") = {} /\ unseen \subseteq Ranked /\ Ranked \ unseen \subseteq DOMAIN reasons
      /\ Contended => Len(chosen) + room <= cap - BridgeShare
    BY <1>1 DEF PruningInv, Seeding
<1>4. /\ Ranked' = Ranked /\ BridgeShare' = BridgeShare /\ Contended' = Contended
      /\ \A t : Neighbours(t)' = Neighbours(t)
    BY <1>1, RequestKept DEF request
<1>5. BridgeShare \in Nat
    BY <1>2, Budgets
<1>6. room' \in Nat /\ room' = room - 1
    BY <1>1, <1>2
<1>7. SelectionIsAsPromised' /\ BridgesGetRoom' /\ Resolving' /\ Expanding' /\ Chosen' /\ IsFiniteSet(keys)'
    BY <1>1 DEF PruningInv, SelectionIsAsPromised, BridgesGetRoom, Resolving, Expanding, Chosen
<1>8. PICK t \in BestOf(unseen) :
         /\ unseen' = unseen \ {t}
         /\ IF t \in DOMAIN reasons THEN UNCHANGED <<chosen, reasons>> ELSE Take(t, "lexical")
    BY DEF Seed
<1>9. t \in unseen /\ t \in keys
    BY <1>2, <1>8 DEF BestOf
<1>10. CASE t \in DOMAIN reasons
    <2>1. UNCHANGED <<chosen, reasons>>
        BY <1>8, <1>10
    <2>2. PruningTypeOK'
        BY <1>1, <1>2, <1>6, <1>8, <2>1 DEF PruningInv, PruningTypeOK
    <2>3. Bounded'
        BY <1>1, <2>1 DEF PruningInv, Bounded, Selecting
    <2>4. chosen # <<>>
        BY <1>2, <1>10, SeqRange
    <2>5. Because("neighbour")' = {}
        BY <1>3, <2>1 DEF Because
    <2>6. Contended => Len(chosen) + room' <= cap - BridgeShare
        BY <1>2, <1>3, <1>5, <1>6
    <2>7. Seeding'
        BY <1>1, <1>3, <1>4, <1>8, <1>10, <2>1, <2>4, <2>5, <2>6 DEF Seeding
    <2>8. OneHopOnly' /\ BestMatchesFirst'
        BY <1>1, <1>4, <2>1 DEF PruningInv, OneHopOnly, BestMatchesFirst, Because
    <2>. QED
        BY <1>7, <2>2, <2>3, <2>7, <2>8 DEF PruningInv
<1>11. CASE t \notin DOMAIN reasons
    <2>1. Take(t, "lexical")
        BY <1>8, <1>11
    <2>2. /\ chosen' \in Seq(keys) /\ chosen' # <<>> /\ Len(chosen') = Len(chosen) + 1
          /\ Range(chosen') = Range(chosen) \cup {t}
          /\ DOMAIN reasons' = Range(chosen')
          /\ reasons'[t] = "lexical"
          /\ \A u \in DOMAIN reasons : u # t /\ reasons'[u] = reasons[u]
        BY <1>2, <1>9, <1>11, <2>1, Taken
    <2>3. PruningTypeOK'
        BY <1>1, <1>2, <1>6, <1>8, <2>2 DEF PruningInv, PruningTypeOK
    <2>4. BestMatchesFirst' /\ OneHopOnly' /\ Because("neighbour")' = {}
        BY <1>1, <1>3, <1>11, <2>1, BestIsTaken DEF request
    <2>5. Len(chosen') <= cap
        BY <1>1, <1>2, <2>2
    <2>6. Bounded'
        BY <1>1, <2>2, <2>5 DEF PruningInv, Bounded, Selecting
    <2>7. Contended => Len(chosen') + room' <= cap - BridgeShare
        BY <1>2, <1>3, <1>5, <1>6, <2>2
    <2>8. Seeding'
        BY <1>1, <1>2, <1>3, <1>4, <1>8, <2>2, <2>4, <2>7 DEF Seeding
    <2>. QED
        BY <1>7, <2>3, <2>4, <2>6, <2>8 DEF PruningInv
<1>. QED
    BY <1>10, <1>11

(* The seeds and pins become the hops; when tables are contended they have   *)
(* left BridgeShare slots.                                                   *)
LEMMA EndSeedingSafe == ASSUME PruningInv, EndSeeding PROVE PruningInv'
<1>1. /\ step = "seed" /\ step' = "expand" /\ hops' = chosen /\ hop = 1
      /\ room = 0 \/ unseen = {} \/ Len(chosen) >= cap
      /\ UNCHANGED <<keys, links, scores, cap, toPin, forced, problems, unseen, room, hop, chosen, reasons>>
    BY DEF EndSeeding, request, PruningInv, Seeding
<1>2. /\ cap \in Nat \ {0} /\ chosen \in Seq(keys) /\ Len(chosen) \in Nat /\ room \in Nat
      /\ DOMAIN reasons = Range(chosen)
    BY DEF PruningInv, PruningTypeOK
<1>3. chosen # <<>>
    BY <1>1, <1>2 DEF PruningInv, Seeding
<1>4. /\ Because("neighbour") = {} /\ Because("neighbour")' = {}
      /\ Contended => Len(chosen) + room <= cap - BridgeShare
    BY <1>1 DEF PruningInv, Seeding, Because
<1>5. /\ Ranked' = Ranked /\ BridgeShare' = BridgeShare /\ Contended' = Contended
      /\ \A t : Neighbours(t)' = Neighbours(t)
    BY <1>1, RequestKept DEF request
<1>6. PruningTypeOK'
    <2>1. hop' \in 1 .. Len(hops') + 1
        BY <1>1, <1>2
    <2>. QED
        BY <1>1, <1>2, <2>1 DEF PruningInv, PruningTypeOK
<1>7. IsFiniteSet(keys)' /\ Resolving' /\ Bounded' /\ Seeding' /\ Chosen'
    BY <1>1, <1>3 DEF PruningInv, Resolving, Bounded, Seeding, Chosen, Selecting
<1>8. Contended => Len(chosen) <= cap - BridgeShare
    BY <1>2, <1>4, Budgets
<1>9. Cardinality({}) = Len(chosen) - Len(chosen)
    BY <1>2, FS_EmptySet
<1>10. \A i \in 1 .. hop - 1 : FALSE
    BY <1>1
<1>11. Expanding'
    BY <1>1, <1>2, <1>4, <1>5, <1>8, <1>9, <1>10 DEF Expanding
<1>12. SelectionIsAsPromised' /\ BridgesGetRoom'
    BY <1>1 DEF SelectionIsAsPromised, BridgesGetRoom
<1>13. OneHopOnly' /\ BestMatchesFirst'
    BY <1>1, <1>5 DEF PruningInv, OneHopOnly, BestMatchesFirst, Because
<1>. QED
    BY <1>6, <1>7, <1>11, <1>12, <1>13 DEF PruningInv

(* A hop is left when all its neighbours are in. *)
LEMMA NextHopSafe == ASSUME PruningInv, NextHop PROVE PruningInv'
<1>1. /\ step = "expand" /\ hop <= Len(hops) /\ NewNeighbours = {} /\ hop' = hop + 1
      /\ UNCHANGED <<step, keys, links, scores, cap, toPin, forced, problems, unseen, room, hops,
                     chosen, reasons>>
    BY DEF NextHop, HopsLeft, request
<1>2. hops \in Seq(keys) /\ Len(hops) \in Nat /\ hop \in 1 .. Len(hops) + 1
    BY DEF PruningInv, PruningTypeOK
<1>3. /\ Ranked' = Ranked /\ BridgeShare' = BridgeShare /\ Contended' = Contended
      /\ \A t : Neighbours(t)' = Neighbours(t)
    BY <1>1, RequestKept DEF request
<1>4. hop' \in 1 .. Len(hops) + 1
    BY <1>1, <1>2
<1>5. PruningTypeOK'
    BY <1>1, <1>4 DEF PruningInv, PruningTypeOK
<1>6. \A i \in 1 .. hop' - 1 : Neighbours(hops[i]) \subseteq DOMAIN reasons
    <2>1. Neighbours(hops[hop]) \subseteq DOMAIN reasons
        BY <1>1 DEF NewNeighbours
    <2>2. \A i \in 1 .. hop' - 1 : i = hop \/ i \in 1 .. hop - 1
        BY <1>1, <1>2
    <2>. QED
        BY <1>1, <2>1, <2>2 DEF PruningInv, Expanding
<1>7. Because("neighbour")' = Because("neighbour") /\ Because("lexical")' = Because("lexical")
    BY <1>1 DEF Because
<1>8. Expanding'
    BY <1>1, <1>3, <1>6, <1>7 DEF PruningInv, Expanding
<1>9. IsFiniteSet(keys)' /\ Resolving' /\ Bounded' /\ Seeding' /\ Chosen'
    BY <1>1 DEF PruningInv, Resolving, Bounded, Seeding, Chosen, Selecting
<1>10. SelectionIsAsPromised' /\ BridgesGetRoom'
    BY <1>1 DEF SelectionIsAsPromised, BridgesGetRoom
<1>11. OneHopOnly' /\ BestMatchesFirst'
    BY <1>1, <1>3, <1>7 DEF PruningInv, OneHopOnly, BestMatchesFirst
<1>. QED
    BY <1>5, <1>8, <1>9, <1>10, <1>11 DEF PruningInv

(* A neighbour of a hop is taken: it is linked to a table that is in for     *)
(* another reason, and is one more neighbour.                                *)
LEMMA ExpandSafe == ASSUME PruningInv, Expand PROVE PruningInv'
<1>1. /\ step = "expand" /\ hop <= Len(hops) /\ Len(chosen) < cap
      /\ UNCHANGED <<step, keys, links, scores, cap, toPin, forced, problems, unseen, room, hops, hop>>
    BY DEF Expand, HopsLeft, request
<1>2. PICK u \in NewNeighbours : Take(u, "neighbour")
    BY DEF Expand
<1>3. /\ hops \in Seq(keys) /\ hop \in 1 .. Len(hops) /\ chosen \in Seq(keys) /\ Len(chosen) \in Nat
      /\ Len(hops) \in Nat /\ cap \in Nat /\ DOMAIN reasons = Range(chosen)
    BY <1>1 DEF PruningInv, PruningTypeOK
<1>4. u \in keys /\ u \in Neighbours(hops[hop]) /\ u \notin DOMAIN reasons
    BY <1>2 DEF NewNeighbours, Neighbours
<1>5. /\ Ranked' = Ranked /\ BridgeShare' = BridgeShare /\ Contended' = Contended
      /\ \A t : Neighbours(t)' = Neighbours(t)
    BY <1>1, RequestKept DEF request
<1>6. /\ chosen' \in Seq(keys) /\ chosen' # <<>> /\ Len(chosen') = Len(chosen) + 1
      /\ Range(chosen') = Range(chosen) \cup {u}
      /\ DOMAIN reasons' = Range(chosen')
      /\ reasons'[u] = "neighbour"
      /\ \A t \in DOMAIN reasons : t # u /\ reasons'[t] = reasons[t]
      /\ Because("neighbour")' = Because("neighbour") \cup {u}
      /\ Because("lexical")' = Because("lexical")
    BY <1>2, <1>3, <1>4, Taken
<1>7. PruningTypeOK'
    BY <1>1, <1>6 DEF PruningInv, PruningTypeOK
<1>8. Len(chosen') <= cap
    BY <1>1, <1>3, <1>6
<1>9. IsFiniteSet(keys)' /\ Resolving' /\ Bounded' /\ Seeding' /\ Chosen'
    BY <1>1, <1>6, <1>8 DEF PruningInv, Resolving, Bounded, Seeding, Chosen, Selecting
<1>10. Cardinality(Because("neighbour")') = Len(chosen') - Len(hops)
    <2>1. IsFiniteSet(Because("neighbour")) /\ u \notin Because("neighbour")
        <3>1. Because("neighbour") \subseteq keys
            BY <1>3, SeqRange DEF Because
        <3>. QED
            BY <1>4, <3>1, FS_Subset DEF Because, PruningInv
    <2>2. Cardinality(Because("neighbour") \cup {u}) = Cardinality(Because("neighbour")) + 1
        BY <2>1, FS_AddElement
    <2>3. Cardinality(Because("neighbour")) = Len(chosen) - Len(hops)
        BY <1>1 DEF PruningInv, Expanding
    <2>4. Cardinality(Because("neighbour")') = Cardinality(Because("neighbour") \cup {u})
        BY <1>6
    <2>5. Cardinality(Because("neighbour")') = (Len(chosen) - Len(hops)) + 1
        BY <2>2, <2>3, <2>4
    <2>. QED
        BY <1>3, <1>6, <2>5
<1>11. Range(hops) \subseteq DOMAIN reasons' \ Because("neighbour")'
    <2>1. Range(hops) \subseteq DOMAIN reasons \ Because("neighbour")
        BY <1>1 DEF PruningInv, Expanding
    <2>. QED
        BY <1>3, <1>4, <1>6, <2>1
<1>12. \A i \in 1 .. hop - 1 : Neighbours(hops[i]) \subseteq DOMAIN reasons'
    BY <1>1, <1>3, <1>6 DEF PruningInv, Expanding
<1>13. Expanding'
    BY <1>1, <1>5, <1>10, <1>11, <1>12 DEF PruningInv, Expanding
<1>14. OneHopOnly'
    <2>1. hops[hop] \in Range(hops) /\ hops[hop] \in keys
        BY <1>3, SeqRange
    <2>2. hops[hop] \in Neighbours(u)
        BY <1>4, <2>1 DEF Neighbours
    <2>3. hops[hop] \in DOMAIN reasons' \ Because("neighbour")'
        BY <1>11, <2>1
    <2>4. ASSUME NEW t \in Because("neighbour")
          PROVE  \E v \in DOMAIN reasons' \ Because("neighbour")' : v \in Neighbours(t)
        <3>1. PICK v \in DOMAIN reasons \ Because("neighbour") : v \in Neighbours(t)
            BY <2>4 DEF PruningInv, OneHopOnly
        <3>2. v \in DOMAIN reasons' \ Because("neighbour")'
            BY <1>3, <1>4, <1>6, <3>1
        <3>. QED
            BY <3>1, <3>2
    <2>. QED
        BY <1>5, <1>6, <2>2, <2>3, <2>4 DEF OneHopOnly
<1>15. BestMatchesFirst'
    BY <1>1, <1>3, <1>6 DEF PruningInv, BestMatchesFirst
<1>16. SelectionIsAsPromised' /\ BridgesGetRoom'
    BY <1>1 DEF SelectionIsAsPromised, BridgesGetRoom
<1>. QED
    BY <1>7, <1>9, <1>13, <1>14, <1>15, <1>16 DEF PruningInv

(* Expansion ends with every neighbour in, or with the cap reached: then     *)
(* everything beyond the hops, a quarter at least, is neighbours.            *)
LEMMA EndExpansionSafe == ASSUME PruningInv, EndExpansion PROVE PruningInv'
<1>1. /\ step = "expand" /\ step' = "fill" /\ (~ (hop <= Len(hops)) \/ ~ (Len(chosen) < cap))
      /\ UNCHANGED <<keys, links, scores, cap, toPin, forced, problems, unseen, room, hops, hop,
                     chosen, reasons>>
    BY DEF EndExpansion, HopsLeft, request
<1>2. /\ hops \in Seq(keys) /\ Len(hops) \in Nat /\ hop \in 1 .. Len(hops) + 1
      /\ Len(chosen) \in Nat /\ cap \in Nat \ {0}
    BY DEF PruningInv, PruningTypeOK
<1>3. /\ Ranked' = Ranked /\ BridgeShare' = BridgeShare /\ Contended' = Contended
      /\ \A t : Neighbours(t)' = Neighbours(t)
    BY <1>1, RequestKept DEF request
<1>4. PruningTypeOK'
    BY <1>1 DEF PruningInv, PruningTypeOK
<1>5. IsFiniteSet(keys)' /\ Resolving' /\ Bounded' /\ Seeding' /\ Expanding' /\ Chosen'
    BY <1>1 DEF PruningInv, Resolving, Bounded, Seeding, Expanding, Chosen, Selecting
<1>6. Because("neighbour")' = Because("neighbour") /\ Because("lexical")' = Because("lexical")
    BY <1>1 DEF Because
<1>7. ASSUME Contended
      PROVE  \/ \A t \in Range(hops) : Neighbours(t) \subseteq DOMAIN reasons
             \/ Cardinality(Because("neighbour")) >= BridgeShare
    <2>1. CASE ~ (hop <= Len(hops))
        <3>1. \A i \in 1 .. Len(hops) : i \in 1 .. hop - 1
            BY <1>2, <2>1
        <3>2. \A i \in 1 .. Len(hops) : Neighbours(hops[i]) \subseteq DOMAIN reasons
            BY <1>1, <3>1 DEF PruningInv, Expanding
        <3>. QED
            BY <1>2, <3>2, SeqRange
    <2>2. CASE ~ (Len(chosen) < cap)
        <3>1. /\ Cardinality(Because("neighbour")) = Len(chosen) - Len(hops)
              /\ Len(hops) <= cap - BridgeShare
            BY <1>1, <1>7 DEF PruningInv, Expanding
        <3>. QED
            BY <1>2, <2>2, <3>1, Budgets
    <2>. QED
        BY <1>1, <2>1, <2>2
<1>8. BridgesGetRoom'
    BY <1>1, <1>3, <1>6, <1>7 DEF BridgesGetRoom, Contended
<1>9. SelectionIsAsPromised'
    BY <1>1 DEF SelectionIsAsPromised
<1>10. OneHopOnly' /\ BestMatchesFirst'
    BY <1>1, <1>3, <1>6 DEF PruningInv, OneHopOnly, BestMatchesFirst
<1>. QED
    BY <1>4, <1>5, <1>8, <1>9, <1>10 DEF PruningInv

(* The best ranked table left fills a slot. *)
LEMMA FillSafe == ASSUME PruningInv, Fill PROVE PruningInv'
<1>1. /\ step = "fill" /\ Len(chosen) < cap
      /\ UNCHANGED <<step, keys, links, scores, cap, toPin, forced, problems, unseen, room, hops, hop>>
    BY DEF Fill, request
<1>2. PICK t \in BestOf(Ranked \ DOMAIN reasons) : Take(t, "lexical")
    BY DEF Fill
<1>3. /\ chosen \in Seq(keys) /\ Len(chosen) \in Nat /\ cap \in Nat /\ DOMAIN reasons = Range(chosen)
      /\ scores \in [keys -> Nat]
    BY DEF PruningInv, PruningTypeOK
<1>4. t \in keys /\ t \notin DOMAIN reasons
    BY <1>2, <1>3, RankedTables DEF BestOf
<1>5. /\ Ranked' = Ranked /\ BridgeShare' = BridgeShare
      /\ \A u : Neighbours(u)' = Neighbours(u)
    BY <1>1, RequestKept DEF request
<1>6. /\ chosen' \in Seq(keys) /\ chosen' # <<>> /\ Len(chosen') = Len(chosen) + 1
      /\ Range(chosen') = Range(chosen) \cup {t}
      /\ DOMAIN reasons' = Range(chosen')
      /\ reasons'[t] = "lexical"
      /\ \A u \in DOMAIN reasons : u # t /\ reasons'[u] = reasons[u]
    BY <1>2, <1>3, <1>4, Taken
<1>7. PruningTypeOK'
    BY <1>1, <1>6 DEF PruningInv, PruningTypeOK
<1>8. Len(chosen') <= cap
    BY <1>1, <1>3, <1>6
<1>9. IsFiniteSet(keys)' /\ Resolving' /\ Bounded' /\ Seeding' /\ Expanding' /\ Chosen'
    BY <1>1, <1>6, <1>8 DEF PruningInv, Resolving, Bounded, Seeding, Expanding, Chosen, Selecting
<1>10. BestMatchesFirst' /\ OneHopOnly' /\ Because("neighbour")' = Because("neighbour")
    BY <1>1, <1>2, <1>4, BestIsTaken DEF request
<1>11. BridgesGetRoom'
    BY <1>1, <1>3, <1>5, <1>6, <1>10 DEF PruningInv, BridgesGetRoom
<1>12. SelectionIsAsPromised'
    BY <1>1 DEF SelectionIsAsPromised
<1>. QED
    BY <1>7, <1>9, <1>10, <1>11, <1>12 DEF PruningInv

(* The chosen tables are put in order, which neither loses nor adds one. *)
LEMMA EndFillingSafe == ASSUME PruningInv, EndFilling PROVE PruningInv'
<1>1. /\ step = "fill" /\ step' = "done" /\ chosen' \in SetToSeqs(Range(chosen))
      /\ UNCHANGED <<keys, links, scores, cap, toPin, forced, problems, unseen, room, hops, hop,
                     reasons>>
    BY DEF EndFilling, ByScore, request
<1>2. chosen \in Seq(keys) /\ Len(chosen) \in Nat /\ cap \in Nat /\ DOMAIN reasons = Range(chosen)
    BY DEF PruningInv, PruningTypeOK
<1>3. /\ Range(chosen) \subseteq keys /\ Range(chosen) # {} /\ IsFiniteSet(Range(chosen))
      /\ Cardinality(Range(chosen)) <= Len(chosen) /\ Cardinality(Range(chosen)) \in Nat
    BY <1>1, <1>2, SeqRange, RangeIsBounded, FS_CardinalityType DEF PruningInv, Chosen
<1>4. chosen' \in Seq(keys) /\ Range(chosen') = Range(chosen)
    <2>1. chosen' \in Seq(Range(chosen)) /\ Range(chosen') = Range(chosen)
        BY <1>1, <1>3, SortedIsWhole
    <2>. QED
        BY <1>3, <2>1
<1>5. PruningTypeOK'
    BY <1>1, <1>4 DEF PruningInv, PruningTypeOK
<1>6. IsFiniteSet(keys)' /\ Resolving' /\ Bounded' /\ Seeding' /\ Expanding' /\ Chosen'
    BY <1>1 DEF PruningInv, Resolving, Bounded, Seeding, Expanding, Chosen, Selecting
<1>7. SelectionIsAsPromised'
    <2>1. /\ Cardinality(keys) > cap /\ Range(forced) \subseteq Range(chosen)
          /\ Len(chosen) <= cap \/ chosen = forced
        BY <1>1 DEF PruningInv, Bounded, Selecting
    <2>2. Cardinality(Range(chosen)) <= cap \/ Range(chosen) = Range(forced) \cap keys
        BY <1>2, <1>3, <2>1
    <2>3. ~ (Cardinality(keys) <= cap)
        BY <1>2, <2>1, FS_CardinalityType DEF PruningInv
    <2>4. Range(chosen) \in Selections(keys, Range(forced), cap)
        BY <1>3, <2>1, <2>2, <2>3 DEF Selections
    <2>. QED
        BY <1>1, <1>4, <2>4 DEF SelectionIsAsPromised
<1>8. /\ Ranked' = Ranked /\ BridgeShare' = BridgeShare
      /\ \A t : Neighbours(t)' = Neighbours(t)
    BY <1>1, RequestKept DEF request
<1>9. Because("neighbour")' = Because("neighbour") /\ Because("lexical")' = Because("lexical")
    BY <1>1 DEF Because
<1>10. BridgesGetRoom'
    BY <1>1, <1>8, <1>9 DEF PruningInv, BridgesGetRoom
<1>11. OneHopOnly' /\ BestMatchesFirst'
    BY <1>1, <1>8, <1>9 DEF PruningInv, OneHopOnly, BestMatchesFirst
<1>. QED
    BY <1>5, <1>6, <1>7, <1>10, <1>11 DEF PruningInv

(* Every step of a selection keeps the invariant, and so does a step that is *)
(* not one of pruning's.                                                     *)
LEMMA PruningSafe == ASSUME PruningInv, PruningNext PROVE PruningInv'
BY ResolvePinSafe, SendAllSafe, ForcePinsSafe, SeedSafe, EndSeedingSafe, NextHopSafe, ExpandSafe,
   EndExpansionSafe, FillSafe, EndFillingSafe DEF PruningNext

(* A step of another component leaves pruning as it is. *)
LEMMA PruningStutter == ASSUME PruningInv, UNCHANGED pruning PROVE PruningInv'
<1>1. /\ Ranked' = Ranked /\ BridgeShare' = BridgeShare /\ Contended' = Contended
      /\ \A t : Neighbours(t)' = Neighbours(t)
    BY RequestKept DEF pruning, request
<1>2. \A r : Because(r)' = Because(r)
    BY DEF pruning, Because
<1>. QED
    BY <1>1, <1>2 DEF PruningInv, pruning, PruningTypeOK, Resolving, Bounded, Seeding, Expanding, Chosen,
        Selecting, SelectionIsAsPromised, BridgesGetRoom, OneHopOnly, BestMatchesFirst

(* Before the first request nothing is selected. *)
LEMMA PruningStart == PruningInit => PruningInv
<1>. SUFFICES ASSUME PruningInit PROVE PruningInv
    OBVIOUS
<1>1. /\ step = "idle" /\ keys = {} /\ chosen = <<>> /\ DOMAIN reasons = {} /\ IsFiniteSet(keys)
    BY FS_EmptySet DEF PruningInit
<1>2. PruningTypeOK
    BY <1>1 DEF PruningInit, PruningTypeOK, Range
<1>3. Resolving /\ Bounded /\ Seeding /\ Expanding /\ Chosen
    BY DEF PruningInit, Resolving, Bounded, Seeding, Expanding, Chosen, Selecting
<1>4. SelectionIsAsPromised /\ BridgesGetRoom /\ OneHopOnly /\ BestMatchesFirst
    BY <1>1 DEF SelectionIsAsPromised, BridgesGetRoom, OneHopOnly, BestMatchesFirst, Because
<1>. QED
    BY <1>1, <1>2, <1>3, <1>4 DEF PruningInv

================================================================================
