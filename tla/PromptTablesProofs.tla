--------------------------- MODULE PromptTablesProofs ---------------------------
(***************************************************************************)
(* Proofs about PromptTables, for every database, typed text and question. *)
(*                                                                         *)
(* The invariant has a part per component.  ReadingInv is that of          *)
(* IntrospectionProofs.  PruningInv is that of PruningProofs, whose        *)
(* requests are well formed because the catalog is.  PinsInv: every pin    *)
(* that normalise() takes nothing but the case from is the only match of   *)
(* its own name, which holds because completer and resolver both ignore    *)
(* case, and the catalog does not change once there are pins.              *)
(***************************************************************************)
EXTENDS PromptTables, PruningProofs

-----------------------------------------------------------------------------
(* The inductive invariant. *)

PinsInv ==
    /\ pins \in Seq(DOMAIN tables)
    /\ pins # <<>> => IsRead
    /\ \A t \in Range(pins) : IsPlain(t) => MatchTableNames(t, DOMAIN tables) = {t}
    /\ step # "idle" => Range(toPin) \subseteq Range(pins)
    /\ step = "idle" => problems = {} /\ forced = <<>>
    /\ step # "idle" => IsRead /\ keys = DOMAIN tables
    /\ PinsResolveToThemselves

IInv == ReadingInv /\ PruningInv /\ PinsInv

-----------------------------------------------------------------------------
(* What a pinned name means. *)

(* The name of a table has a piece at least. *)
DottedNames == Seq(Atoms) \ {NoName}

(* Names that differ in case only start with the same typed texts. *)
LEMMA SameStart ==
    ASSUME NEW j \in DottedNames, NEW k \in DottedNames, InLowerCase(j) = InLowerCase(k),
           NEW typed \in Typings, StartsWith(j, typed)
    PROVE  StartsWith(k, typed)
<1>1. j \in Seq(Atoms) /\ k \in Seq(Atoms) /\ typed.pieces \in Seq(Atoms)
    BY TypingsAssumption DEF DottedNames
<1>2. Len(j) = Len(k) /\ \A i \in 1 .. Len(j) : Lower[j[i]] = Lower[k[i]]
    BY <1>1 DEF InLowerCase
<1>3. Len(typed.pieces) + 1 \in 1 .. Len(j)
    BY <1>1 DEF StartsWith
<1>. QED
    BY <1>2, <1>3 DEF StartsWith

(* Names that differ in case only have bare names that do. *)
LEMMA SameBareName ==
    ASSUME NEW j \in DottedNames, NEW k \in DottedNames, InLowerCase(j) = InLowerCase(k)
    PROVE  BareName(j) \in DottedNames /\ InLowerCase(BareName(j)) = InLowerCase(BareName(k))
<1>1. j \in Seq(Atoms) /\ k \in Seq(Atoms) /\ Len(j) \in 1 .. Len(j) /\ Len(k) \in 1 .. Len(k)
    BY DEF DottedNames, NoName
<1>2. Len(j) = Len(k) /\ \A i \in 1 .. Len(j) : Lower[j[i]] = Lower[k[i]]
    BY <1>1 DEF InLowerCase
<1>3. Last(j) \in Atoms /\ Last(k) \in Atoms /\ Lower[Last(j)] = Lower[Last(k)]
    BY <1>1, <1>2 DEF Last
<1>4. \A a \in Atoms : <<a>> \in Seq(Atoms) /\ <<a>> # <<>> /\ DOMAIN <<a>> = {1} /\ <<a>>[1] = a
    OBVIOUS
<1>. QED
    BY <1>3, <1>4 DEF BareName, InLowerCase, DottedNames, NoName

(* A plain name of a piece at least is compared as it is. *)
LEMMA PlainIsNamed ==
    ASSUME NEW t \in DottedNames, IsPlain(t)
    PROVE  Normalise(t) = InLowerCase(t) /\ Normalise(t) # NoName
<1>1. t \in Seq(Atoms) /\ Len(t) \in DOMAIN t
    BY DEF DottedNames, NoName
<1>2. DOMAIN InLowerCase(t) = DOMAIN t
    BY DEF InLowerCase
<1>3. DOMAIN <<>> = {}
    OBVIOUS
<1>. QED
    BY <1>1, <1>2, <1>3 DEF IsPlain, NoName

(* A plain key that shares its lower case with no other key is the only      *)
(* match of its own name.                                                    *)
LEMMA AloneMeansItself ==
    ASSUME NEW K \in SUBSET DottedNames, NEW t \in K, IsPlain(t),
           \A k \in K : InLowerCase(k) = InLowerCase(t) => k = t
    PROVE  MatchTableNames(t, K) = {t}
<1>1. Normalise(t) = InLowerCase(t) /\ Normalise(t) # NoName
    BY PlainIsNamed
<1>2. ExactMatches(Normalise(t), K) = {t}
    BY <1>1 DEF ExactMatches
<1>. QED
    BY <1>1, <1>2 DEF MatchTableNames

(* So is a plain key that is the only match of any name: those that differ   *)
(* from it in case only would have matched that name too.                    *)
LEMMA MatchMeansItself ==
    ASSUME NEW K \in SUBSET DottedNames, NEW name, NEW t, MatchTableNames(name, K) = {t}, IsPlain(t)
    PROVE  t \in K /\ MatchTableNames(t, K) = {t}
<1>1. t \in K
    BY PinMatchesKeys
<1>2. ASSUME NEW k \in K, InLowerCase(k) = InLowerCase(t) PROVE k = t
    <2>1. k \in DottedNames /\ t \in DottedNames
        BY <1>1
    <2>2. InLowerCase(BareName(k)) = InLowerCase(BareName(t))
        BY <1>2, <2>1, SameBareName
    <2>3. \A needle : /\ t \in ExactMatches(needle, K) => k \in ExactMatches(needle, K)
                      /\ t \in SuffixMatches(needle, K) => k \in SuffixMatches(needle, K)
                      /\ t \in LeafMatches(needle, K) => k \in LeafMatches(needle, K)
        BY <1>2, <2>2 DEF ExactMatches, SuffixMatches, LeafMatches
    <2>4. k \in MatchTableNames(name, K)
        BY <2>3 DEF MatchTableNames
    <2>. QED
        BY <2>4
<1>. QED
    BY <1>1, <1>2, AloneMeansItself

(* A table that the completer offers alone is, of all keys, the only exact   *)
(* match of its name: what distinguishes two keys for the completer, which   *)
(* ignores case, distinguishes them for the resolver.                        *)
LEMMA PinnableMeansItself ==
    ASSUME NEW K \in SUBSET DottedNames, NEW t \in Pinnable(Typings, K)
    PROVE  t \in K /\ (IsPlain(t) => MatchTableNames(t, K) = {t})
<1>1. PICK typed \in Typings : t \in K /\ CompletionCandidates(typed, K) = {t}
    BY DEF Pinnable
<1>2. ASSUME NEW k \in K, InLowerCase(k) = InLowerCase(t) PROVE k = t
    <2>1. k \in DottedNames /\ t \in DottedNames
        BY <1>1
    <2>2. StartsWith(t, typed) \/ StartsWith(BareName(t), typed)
        BY <1>1 DEF CompletionCandidates
    <2>3. /\ BareName(k) \in DottedNames /\ BareName(t) \in DottedNames
          /\ InLowerCase(BareName(t)) = InLowerCase(BareName(k))
        BY <1>2, <2>1, SameBareName
    <2>4. StartsWith(k, typed) \/ StartsWith(BareName(k), typed)
        <3>1. CASE StartsWith(t, typed)
            BY <1>2, <2>1, <3>1, SameStart
        <3>2. CASE StartsWith(BareName(t), typed)
            BY <2>3, <3>2, SameStart
        <3>. QED
            BY <2>2, <3>1, <3>2
    <2>. QED
        BY <1>1, <2>4 DEF CompletionCandidates
<1>. QED
    BY <1>1, <1>2, AloneMeansItself

(* So what is put among the pins is that table (`@table'), and in any case a *)
(* table of the catalog that means itself if it is plain.                    *)
LEMMA PinIsItself ==
    ASSUME DOMAIN tables \subseteq DottedNames, NEW t \in Pinnable(Typings, DOMAIN tables)
    PROVE  /\ IsPlain(t) => Pinned(t) = t
           /\ Pinned(t) \in DOMAIN tables
           /\ IsPlain(Pinned(t)) => MatchTableNames(Pinned(t), DOMAIN tables) = {Pinned(t)}
<1>1. t \in DOMAIN tables /\ t # NoName /\ (IsPlain(t) => MatchTableNames(t, DOMAIN tables) = {t})
    BY PinnableMeansItself DEF DottedNames
<1>2. CASE \E k \in DOMAIN tables : MatchTableNames(t, DOMAIN tables) = {k}
    <2>1. PICK k \in DOMAIN tables : MatchTableNames(t, DOMAIN tables) = {k}
        BY <1>2
    <2>2. ResolveTableName(t, DOMAIN tables) = k /\ k # NoName
        BY <2>1 DEF ResolveTableName, DottedNames
    <2>3. Pinned(t) = k
        BY <2>2 DEF Pinned
    <2>. QED
        BY <1>1, <2>1, <2>3, MatchMeansItself
<1>3. CASE ~ \E k \in DOMAIN tables : MatchTableNames(t, DOMAIN tables) = {k}
    <2>1. Pinned(t) = t
        BY <1>3 DEF Pinned, ResolveTableName
    <2>. QED
        BY <1>1, <1>3, <2>1
<1>. QED
    BY <1>2, <1>3

-----------------------------------------------------------------------------
(* Pins, and what a selection makes of them. *)

(* The keys of the catalog are names of a piece at least. *)
LEMMA KeysAreNames ==
    ASSUME ReadingInv PROVE DOMAIN tables \subseteq DottedNames
BY KeysAreOfNames DEF DottedNames

(* What the completer offers alone and is plain is pinned as it is. *)
PlainPinsAreThemselves ==
    \A t \in Pinnable(Typings, DOMAIN tables) : IsPlain(t) => Pinned(t) = t

LEMMA OffersMeanThemselves == ReadingInv => PlainPinsAreThemselves
BY KeysAreNames, PinIsItself DEF PlainPinsAreThemselves

(* While the catalog is read there are no pins. *)
LEMMA ReadKeepsPins ==
    ASSUME ReadingInv', PinsInv, ~ IsRead, UNCHANGED <<pruning, pins>> PROVE PinsInv'
<1>1. pins = <<>> /\ step = "idle"
    BY DEF PinsInv
<1>2. pins' = <<>> /\ step' = "idle" /\ problems' = {} /\ forced' = <<>>
    BY <1>1 DEF PinsInv, pruning
<1>3. PlainPinsAreThemselves'
    BY OffersMeanThemselves, PTL
<1>4. PinsResolveToThemselves'
    BY <1>2, <1>3 DEF PinsResolveToThemselves, PlainPinsAreThemselves
<1>. QED
    BY <1>2, <1>4 DEF PinsInv, Range

(* A pinned table means itself. *)
LEMMA PinKeepsPins ==
    ASSUME ReadingInv, PinsInv, PinTable PROVE PinsInv'
<1>1. /\ IsRead /\ step = "idle" /\ UNCHANGED <<reading, pruning>> /\ pins \in Seq(DOMAIN tables)
      /\ \A t \in Range(pins) : IsPlain(t) => MatchTableNames(t, DOMAIN tables) = {t}
    BY DEF PinTable, PinsInv
<1>2. PICK t \in Pinnable(Typings, DOMAIN tables) :
         pins' = IF Pinned(t) \in Range(pins) THEN pins ELSE Append(pins, Pinned(t))
    BY DEF PinTable
<1>. DEFINE p == Pinned(t)
<1>3. p \in DOMAIN tables /\ (IsPlain(p) => MatchTableNames(p, DOMAIN tables) = {p})
    BY KeysAreNames, PinIsItself
<1>. HIDE DEF p
<1>4. /\ pins' \in Seq(DOMAIN tables)
      /\ \A u \in Range(pins') : IsPlain(u) => MatchTableNames(u, DOMAIN tables) = {u}
    <2>1. CASE pins' = pins
        BY <1>1, <2>1
    <2>2. CASE pins' = Append(pins, p)
        <3>1. Append(pins, p) \in Seq(DOMAIN tables) /\ Range(Append(pins, p)) = Range(pins) \cup {p}
            BY <1>1, <1>3, RangeOfAppend
        <3>. QED
            BY <1>1, <1>3, <2>2, <3>1
    <2>. QED
        BY <1>2, <2>1, <2>2 DEF p
<1>5. PinsResolveToThemselves'
    <2>1. UNCHANGED <<tables, stage, step>> /\ step = "idle"
        BY <1>1 DEF reading, pruning
    <2>. QED
        BY <2>1, KeysAreNames, PinIsItself DEF PinsResolveToThemselves, Pinned
<1>. QED
    BY <1>1, <1>4, <1>5 DEF PinsInv, reading, pruning, IsRead

(* A question hands over the pins as they are. *)
LEMMA AskKeepsPins ==
    ASSUME PinsInv, Ask PROVE PinsInv'
<1>1. /\ IsRead /\ step = "idle" /\ step' = "pins" /\ keys' = DOMAIN tables /\ toPin' = pins
      /\ UNCHANGED <<reading, pins, forced, problems>>
      /\ forced = <<>> /\ problems = {}
    BY DEF Ask, AskAbout, SelectRelevantTables, PinsInv
<1>. QED
    BY <1>1 DEF PinsInv, reading, IsRead, PinsResolveToThemselves, Range

(* Resolving one pin moves it from those to resolve to those forced, or to   *)
(* the problems if it is not plain; the other steps of a selection touch     *)
(* neither.                                                                  *)
LEMMA PruneKeepsPins ==
    ASSUME PruningInv, PinsInv, PruningNext, UNCHANGED <<reading, pins>> PROVE PinsInv'
<1>1. step # "idle" /\ step' # "idle" /\ keys' = keys
    BY DEF PruningNext, ResolvePin, SendAll, ForcePins, Seed, EndSeeding, NextHop, Expand, EndExpansion,
        Fill, EndFilling, request
<1>. DEFINE plain == {t \in Range(pins) : IsPlain(t)}
<1>2. /\ plain \subseteq Range(forced) \cup Range(toPin)
      /\ problems \subseteq Range(pins) \ plain
      /\ Range(pins) = plain => Range(forced) \subseteq plain
      /\ Range(toPin) \subseteq Range(pins)
      /\ IsRead /\ keys = DOMAIN tables
      /\ \A t \in plain : MatchTableNames(t, keys) = {t}
    BY <1>1 DEF PinsInv, PinsResolveToThemselves
<1>3. plain \subseteq Range(pins)
    OBVIOUS
<1>. HIDE DEF plain
<1>4. /\ plain \subseteq Range(forced') \cup Range(toPin')
      /\ problems' \subseteq Range(pins) \ plain
      /\ Range(pins) = plain => Range(forced') \subseteq plain
      /\ Range(toPin') \subseteq Range(pins)
    <2>1. CASE ResolvePin
        <3>. DEFINE t == Head(toPin)
        <3>1. toPin # <<>> /\ toPin' = Tail(toPin) /\ toPin \in Seq(Seq(Atoms)) /\ forced \in Seq(keys)
            BY <2>1 DEF ResolvePin, PruningInv, PruningTypeOK
        <3>2. Range(toPin) = {t} \cup Range(toPin') /\ t \in Range(toPin)
            BY <3>1, HeadAndTail
        <3>3. CASE t \in plain
            <4>1. MatchTableNames(t, keys) = {t} /\ t \in keys
                BY <1>2, <3>3, PinMatchesKeys
            <4>2. Cardinality({t}) = 1
                BY FS_Singleton
            <4>3. /\ problems' = problems
                  /\ forced' = IF t \in Range(forced) THEN forced ELSE Append(forced, t)
                BY <2>1, <4>1, <4>2 DEF ResolvePin
            <4>4. Range(forced') = Range(forced) \cup {t}
                BY <3>1, <4>1, <4>3, RangeOfAppend
            <4>. QED
                BY <1>2, <3>2, <3>3, <4>3, <4>4
        <3>4. CASE t \notin plain
            <4>1. t \in Range(pins) /\ ~ (Range(pins) = plain)
                BY <1>2, <3>2, <3>4
            <4>2. problems' \subseteq problems \cup {t}
                BY <2>1 DEF ResolvePin
            <4>3. Range(forced) \subseteq Range(forced')
                <5>1. CASE forced' = forced
                    BY <5>1
                <5>2. CASE \E u \in MatchTableNames(t, keys) : forced' = Append(forced, u)
                    <6>1. PICK u \in MatchTableNames(t, keys) : forced' = Append(forced, u)
                        BY <5>2
                    <6>2. u \in keys
                        BY PinMatchesKeys
                    <6>. QED
                        BY <3>1, <6>1, <6>2, RangeOfAppend
                <5>. QED
                    BY <2>1, <5>1, <5>2 DEF ResolvePin
            <4>. QED
                BY <1>2, <3>2, <3>4, <4>1, <4>2, <4>3
        <3>. QED
            BY <3>3, <3>4
    <2>2. CASE ~ ResolvePin
        <3>1. UNCHANGED <<problems, forced, toPin>>
            BY <2>2 DEF PruningNext, SendAll, ForcePins, Seed, EndSeeding, NextHop, Expand, EndExpansion,
                Fill, EndFilling
        <3>. QED
            BY <1>2, <3>1
    <2>. QED
        BY <2>1, <2>2
<1>5. UNCHANGED <<tables, stage, pins>> /\ pins \in Seq(DOMAIN tables)
    BY DEF PinsInv, reading
<1>6. PinsResolveToThemselves'
    BY <1>1, <1>4, <1>5 DEF PinsResolveToThemselves, plain
<1>. QED
    BY <1>1, <1>2, <1>4, <1>5, <1>6 DEF PinsInv, IsRead

-----------------------------------------------------------------------------
(* What a sample query quotes. *)

(* The catalog that precedes schema and table in a key is told from its      *)
(* length, and there is none to quote when nothing precedes them.            *)
LEMMA CatalogOfKey ==
    ASSUME NEW catalog \in Seq(Atoms), NEW suffix \in Seq(Atoms)
    PROVE  /\ catalog # <<>> => IsStrictSuffix(suffix, catalog \o suffix)
           /\ SubSeq(catalog \o suffix, 1, Len(catalog \o suffix) - Len(suffix)) = catalog
           /\ ~ IsStrictSuffix(suffix, suffix)
BY EndsWith DEF IsStrictSuffix

(* Joining three names in either order gives the same dotted name. *)
LEMMA JoinedTwice ==
    ASSUME NEW s \in Seq(Atoms), NEW t \in Seq(Atoms), NEW u \in Seq(Atoms)
    PROVE  (s \o t) \o u = s \o (t \o u) /\ <<>> \o t = t
BY ConcatAssociative, ConcatEmptySeq

(* Identifiers in a row. *)
LEMMA InARow ==
    ASSUME NEW x, NEW y
    PROVE  /\ <<x>> \o <<y>> = <<x, y>>
           /\ <<>> \o <<>> = <<>> /\ <<>> \o <<x>> = <<x>> /\ <<>> \o <<x, y>> = <<x, y>>
<1>1. <<x>> \in Seq({x, y}) /\ <<y>> \in Seq({x, y}) /\ <<x, y>> \in Seq({x, y}) /\ <<>> \in Seq({x, y})
    OBVIOUS
<1>. DEFINE joined == <<x>> \o <<y>>
            pair == <<x, y>>
<1>2. joined \in Seq({x, y}) /\ Len(joined) = 2
    BY <1>1, ConcatProperties
<1>3. joined[1] = x /\ joined[2] = y
    BY <1>1
<1>4. pair \in Seq({x, y}) /\ Len(pair) = 2 /\ pair[1] = x /\ pair[2] = y
    OBVIOUS
<1>. HIDE DEF joined, pair
<1>5. joined = pair
    <2>1. joined = [i \in 1 .. 2 |-> joined[i]] /\ pair = [i \in 1 .. 2 |-> pair[i]]
        BY <1>2, <1>4
    <2>2. \A i \in 1 .. 2 : joined[i] = pair[i]
        BY <1>3, <1>4
    <2>. QED
        BY <2>1, <2>2
<1>6. <<>> \o <<>> = <<>> /\ <<>> \o <<x>> = <<x>> /\ <<>> \o <<x, y>> = <<x, y>>
    BY <1>1, ConcatEmptySeq
<1>. QED
    BY <1>5, <1>6 DEF joined, pair

(* The identifiers of an entry are those of its schema and its table. *)
LEMMA SampleOfEntry ==
    ASSUME source \in Sources, NEW schema \in Seq(Atoms), NEW table \in Seq(Atoms),
           schema = NoName \/ (schema \in DOMAIN source.tables /\ ~ (Engine.parts < 2)),
           NEW entry, entry.schema = schema, entry.table = table
    PROVE  TableNameParts(Qualify(schema, table), entry) =
              (IF schema = NoName THEN <<>> ELSE source.path[schema]) \o <<table>>
<1>. DEFINE key == Qualify(schema, table)
            suffix == schema \o table
            catalog == source.config["catalog"]
<1>1. suffix \in Seq(Atoms) /\ catalog \in Seq(Atoms) /\ Engine = source.engine /\ Engine.parts \in Nat
    BY JoinedType, ConfigType, SourceType DEF Engine
<1>2. CASE schema = NoName
    <2>. DEFINE prefix == IF IsStrictSuffix(suffix, key)
                             THEN <<SubSeq(key, 1, Len(key) - Len(suffix))>>
                             ELSE <<>>
    <2>1. TableNameParts(key, entry) = prefix \o <<>> \o <<table>>
        <3>1. ~ (Len(schema) > 1)
            BY <1>2 DEF NoName
        <3>. QED
            BY <1>2, <3>1 DEF TableNameParts
    <2>2. key = table /\ suffix = table
        BY <1>2, JoinedTwice DEF Qualify, DottedKey, NoName
    <2>. HIDE DEF key, suffix
    <2>3. ~ IsStrictSuffix(suffix, key)
        BY <1>1, <2>2, CatalogOfKey
    <2>4. prefix = <<>>
        BY <2>3
    <2>. QED
        BY <1>2, <2>1, <2>4, InARow DEF key
<1>3. CASE schema # NoName
    <2>. DEFINE parts == IF Engine.composite /\ Len(schema) > 1
                            THEN <<Front(schema), BareName(schema)>>
                            ELSE <<schema>>
                prefix == IF IsStrictSuffix(suffix, key)
                             THEN <<SubSeq(key, 1, Len(key) - Len(suffix))>>
                             ELSE <<>>
    <2>1. TableNameParts(key, entry) = prefix \o parts \o <<table>>
        BY <1>3 DEF TableNameParts
    <2>2. Len(schema) \in Nat \ {0}
        BY <1>3 DEF NoName
    <2>3. source.path[schema] =
             IF Len(schema) = 1
                THEN IF Engine.parts >= 3 /\ catalog # NoName THEN <<catalog, schema>> ELSE <<schema>>
             ELSE IF Engine.composite
                THEN <<Front(schema), BareName(schema)>>
                ELSE <<schema>>
        <3>1. Engine.parts >= 2
            BY <1>1, <1>3
        <3>. QED
            BY <1>1, <1>3, <3>1, PathAssumption
    <2>. HIDE DEF key, suffix, catalog
    <2>4. key = IF Engine.parts >= 3 /\ Len(schema) = 1 THEN (catalog \o schema) \o table ELSE suffix
        BY <1>1, <1>3 DEF key, suffix, catalog, Qualify, DottedKey
    <2>5. /\ (catalog \o schema) \o table = catalog \o suffix
          /\ <<>> \o suffix = suffix
        BY <1>1, JoinedTwice DEF suffix
    <2>6. prefix = IF Engine.parts >= 3 /\ Len(schema) = 1 /\ catalog # NoName THEN <<catalog>> ELSE <<>>
        <3>1. CASE Engine.parts >= 3 /\ Len(schema) = 1 /\ catalog # NoName
            <4>1. key = catalog \o suffix
                BY <2>4, <2>5, <3>1
            <4>2. IsStrictSuffix(suffix, key) /\ SubSeq(key, 1, Len(key) - Len(suffix)) = catalog
                BY <1>1, <3>1, <4>1, CatalogOfKey DEF NoName
            <4>. QED
                BY <3>1, <4>2
        <3>2. CASE ~ (Engine.parts >= 3 /\ Len(schema) = 1 /\ catalog # NoName)
            <4>1. key = suffix
                BY <2>4, <2>5, <3>2 DEF NoName
            <4>2. ~ IsStrictSuffix(suffix, key)
                BY <1>1, <4>1, CatalogOfKey
            <4>. QED
                BY <3>2, <4>2
        <3>. QED
            BY <3>1, <3>2
    <2>7. parts = IF Len(schema) = 1 THEN <<schema>>
                  ELSE IF Engine.composite THEN <<Front(schema), BareName(schema)>> ELSE <<schema>>
        <3>1. \A n \in Nat \ {0} : IF n = 1 THEN ~ (n > 1) ELSE n > 1
            OBVIOUS
        <3>. QED
            BY <2>2, <3>1
    <2>. HIDE DEF prefix, parts
    <2>8. prefix \o parts = source.path[schema]
        BY <2>3, <2>6, <2>7, InARow
    <2>. QED
        BY <1>3, <2>1, <2>8 DEF key
<1>. QED
    BY <1>2, <1>3

(* So a sample query is of the table that the entry was read from            *)
(* (agent.py:50-63).                                                         *)
LEMMA SamplesMeanTables == ASSUME ReadingInv PROVE SampleNamesTheTable
<1>1. source \in Sources /\ inventory \in Seq(Seq(Atoms) \X Seq(Atoms)) /\ Listing
    BY DEF ReadingInv, ReadingTyped, IntrospectionTypeOK
<1>2. ASSUME NEW key \in DOMAIN tables
      PROVE  TableNameParts(key, tables[key]) =
                (IF tables[key].schema = NoName THEN <<>> ELSE source.path[tables[key].schema])
                \o <<tables[key].table>>
    <2>1. PICK i \in DOMAIN inventory :
             /\ key = Qualify(inventory[i][1], inventory[i][2])
             /\ tables[key].schema = inventory[i][1] /\ tables[key].table = inventory[i][2]
        BY EntryListed
    <2>2. /\ inventory[i] \in Seq(Atoms) \X Seq(Atoms) /\ inventory[i] \in Range(inventory)
          /\ inventory[i][1] = NoName \/ inventory[i][1] \in DOMAIN source.tables
        BY <1>1, ListedIsKnown
    <2>3. /\ inventory[i][1] \in Seq(Atoms) /\ inventory[i][2] \in Seq(Atoms)
          /\ inventory[i][1] \in Asked
        BY <2>2 DEF Asked
    <2>4. inventory[i][1] = NoName \/ (inventory[i][1] \in DOMAIN source.tables /\ ~ (Engine.parts < 2))
        BY <1>1, <2>2, <2>3 DEF Listing
    <2>. DEFINE schema == inventory[i][1]
                table == inventory[i][2]
                entry == tables[key]
    <2>5. /\ schema \in Seq(Atoms) /\ table \in Seq(Atoms)
          /\ schema = NoName \/ (schema \in DOMAIN source.tables /\ ~ (Engine.parts < 2))
          /\ entry.schema = schema /\ entry.table = table /\ key = Qualify(schema, table)
        BY <2>1, <2>3, <2>4
    <2>. HIDE DEF schema, table, entry
    <2>6. TableNameParts(Qualify(schema, table), entry) =
             (IF schema = NoName THEN <<>> ELSE source.path[schema]) \o <<table>>
        BY <1>1, <2>5, SampleOfEntry
    <2>. QED
        BY <2>5, <2>6 DEF entry
<1>. QED
    BY <1>2 DEF SampleNamesTheTable

-----------------------------------------------------------------------------

(* The invariant holds initially... *)
LEMMA InitSafe == Init => IInv
<1>. SUFFICES ASSUME Init PROVE IInv
    OBVIOUS
<1>1. PinsInv
    BY DEF Init, IntrospectionInit, IsRead, PruningInit, PinsInv, PinsResolveToThemselves, Range
<1>. QED
    BY <1>1, ReadingStart, PruningStart DEF Init, IInv

(* ...and every step keeps it: Read disturbs the catalog only, PinTable the  *)
(* pins, Ask and Prune the selection.                                        *)
LEMMA StepSafe == ASSUME IInv, [Next]_vars PROVE IInv'
<1>1. ReadingInv /\ PruningInv /\ PinsInv
    BY DEF IInv
<1>2. CASE Read
    BY <1>1, <1>2, ReadingSafe, PruningStutter, ReadKeepsPins DEF Read, IInv
<1>3. CASE PinTable
    BY <1>1, <1>3, ReadingStutter, PruningStutter, PinKeepsPins DEF PinTable, IInv
<1>4. CASE Ask
    <2>1. PICK scoring \in [DOMAIN tables -> Scores], maxPromptTables \in PromptCaps :
             SelectRelevantTables(DOMAIN tables, relationships, pins, scoring, maxPromptTables)
        BY <1>4 DEF Ask, AskAbout
    <2>2. /\ DOMAIN tables \subseteq Seq(Atoms) /\ IsFiniteSet(DOMAIN tables)
          /\ relationships \subseteq Seq(Atoms) \X Seq(Atoms)
          /\ pins \in Seq(DOMAIN tables)
        BY <1>1 DEF ReadingInv, ReadingTyped, IntrospectionTypeOK, PinsInv
    <2>3. scoring \in [DOMAIN tables -> Nat]
        BY ScoresAssumption
    <2>4. maxPromptTables \in Int
        BY PromptCapsAssumption
    <2>5. pins \in Seq(Seq(Atoms))
        BY <2>2
    <2>6. PruningInv'
        BY <1>1, <2>1, <2>2, <2>3, <2>4, <2>5, CallSafe
    <2>. QED
        BY <1>1, <1>4, <2>6, ReadingStutter, AskKeepsPins DEF Ask, IInv
<1>5. CASE Prune
    BY <1>1, <1>5, ReadingStutter, PruningSafe, PruneKeepsPins DEF Prune, IInv
<1>6. CASE UNCHANGED vars
    <2>1. UNCHANGED reading /\ UNCHANGED pruning /\ UNCHANGED pins
        BY <1>6 DEF vars
    <2>2. PinsInv'
        BY <1>1, <2>1 DEF PinsInv, PinsResolveToThemselves, Pinned, reading, pruning, IsRead
    <2>. QED
        BY <1>1, <2>1, <2>2, ReadingStutter, PruningStutter DEF IInv
<1>. QED
    BY <1>2, <1>3, <1>4, <1>5, <1>6 DEF Next

(* The invariant holds of every behaviour. *)
THEOREM Invariance == Spec => []IInv
<1>. QED
    BY InitSafe, StepSafe, PTL DEF Spec

(* The catalog, the pins and the selection have their types: a selection is  *)
(* never of a table that was not read (db.py:348-462,                        *)
(* pruning.py:224-301).                                                      *)
THEOREM PromptTablesTyped == Spec => []TypeOK
<1>1. IInv => TypeOK
    BY DEF IInv, ReadingInv, ReadingTyped, PruningInv, PinsInv, TypeOK
<1>. QED
    BY <1>1, Invariance, PTL

(* What is selected is what the callers are promised, whatever the catalog,  *)
(* the pins and the scores: every resolved pin, and no more tables than the  *)
(* cap unless the pins alone exceed it (pruning.py:231, 297). Agent and      *)
(* ReplSession rest on it through TableSelection.                            *)
THEOREM SelectionKeepsPromise == Spec => []SelectionIsAsPromised
<1>1. IInv => SelectionIsAsPromised
    BY DEF IInv, PruningInv
<1>. QED
    BY <1>1, Invariance, PTL

(* When more tables match than fit and the pins leave room, every neighbour  *)
(* of pins and seeds is in or a quarter of the slots are neighbours: the     *)
(* seeds never crowd out the bridge table of a join (pruning.py:274).        *)
THEOREM BridgesHaveRoom == Spec => []BridgesGetRoom
<1>1. IInv => BridgesGetRoom
    BY DEF IInv, PruningInv
<1>. QED
    BY <1>1, Invariance, PTL

(* A table that is in as a neighbour is linked to one that is in for another *)
(* reason: "exactly ONE hop, never a transitive closure" (pruning.py:210).   *)
THEOREM NoSecondHop == Spec => []OneHopOnly
<1>1. IInv => OneHopOnly
    BY DEF IInv, PruningInv
<1>. QED
    BY <1>1, Invariance, PTL

(* No table is in for its score while a better match is left out, although   *)
(* two loops separated by the expansion take them (pruning.py:261, 278-295). *)
THEOREM BetterMatchesIn == Spec => []BestMatchesFirst
<1>1. IInv => BestMatchesFirst
    BY DEF IInv, PruningInv
<1>. QED
    BY <1>1, Invariance, PTL

(* A pin comes back as the table the completer offered, never as a problem   *)
(* or as another table, in any catalog, unless normalise() takes quotes,     *)
(* blanks or `@' from its name (pruning.py:153-157, names.py:44-49).         *)
THEOREM PinsMeanThemselves == Spec => []PinsResolveToThemselves
<1>1. IInv => PinsResolveToThemselves
    BY DEF IInv, PinsInv
<1>. QED
    BY <1>1, Invariance, PTL

(* The catalog holds tables of the configured namespace or of the user's     *)
(* schemas only, whichever way the engine names them and in whatever order   *)
(* the driver lists them (db.py:282-290, 349-383).                           *)
THEOREM CatalogOfNamespace == Spec => []CatalogIsOfTheNamespace
<1>1. IInv => CatalogIsOfTheNamespace
    BY ReadingInNamespace DEF IInv
<1>. QED
    BY <1>1, Invariance, PTL

(* Every table that was listed is in the catalog with its keys, is reported  *)
(* as skipped, or is beyond the cap, whichever calls failed (db.py:386-434). *)
THEOREM TablesAccountedFor == Spec => []EveryTableIsAccountedFor
<1>1. IInv => EveryTableIsAccountedFor
    BY ReadingAccounts DEF IInv
<1>. QED
    BY <1>1, Invariance, PTL

(* An empty catalog that is not flagged is of a database without tables      *)
(* (db.py:436).                                                              *)
THEOREM EmptyIsEmpty == Spec => []EmptyMeansEmpty
<1>1. IInv => EmptyMeansEmpty
    BY ReadingEmpty DEF IInv
<1>. QED
    BY <1>1, Invariance, PTL

(* Between tables of the catalog the relationships are the foreign keys that *)
(* could be read, across schemas too, except that a key whose schema the     *)
(* inspector left out is filed under the referring one (db.py:421-428).      *)
THEOREM LinksAreKeys == Spec => []LinksAreKeysAsFiled
<1>1. IInv => LinksAreKeysAsFiled
    BY ReadingLinks DEF IInv
<1>. QED
    BY <1>1, Invariance, PTL

(* The identifiers that a sample query quotes denote the table the entry was *)
(* read from, wherever there are dots in names (agent.py:50-63).             *)
THEOREM SamplesNameTables == Spec => []SampleNamesTheTable
<1>1. IInv => SampleNamesTheTable
    BY SamplesMeanTables DEF IInv
<1>. QED
    BY <1>1, Invariance, PTL

=================================================================================
