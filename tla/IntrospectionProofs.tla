-------------------------- MODULE IntrospectionProofs --------------------------
(***************************************************************************)
(* Proofs about Introspection, for every database, profile and cap, and    *)
(* whichever calls of the inspector fail.                                  *)
(*                                                                         *)
(* Reading the catalog is a part of PromptTables, so the results are       *)
(* lemmas about its steps, and PromptTablesProofs draws the theorems.  The *)
(* properties compare the catalog with the database once it is read; the   *)
(* invariant says along the way what was listed (Listing, Complete) and    *)
(* what came of the tables attempted so far (Cataloged, Accounted,         *)
(* Linked).  What holds it together is that no two entries of the          *)
(* inventory share a key or a table, so that reading one disturbs none of  *)
(* the others: schemas are listed once, either all by name or the default  *)
(* one alone, and dotted keys do not collide (DottedKeysAssumption).       *)
(***************************************************************************)
EXTENDS Introspection, FiniteSetTheorems, FunctionTheorems, SequenceTheorems, TLAPS

-----------------------------------------------------------------------------
(* The inductive invariant. *)

(* The table that an entry of the inventory denotes, and its catalog key. *)
TableAt(i) == <<SchemaMeant(inventory[i][1]), inventory[i][2]>>
KeyAt(i) == Qualify(inventory[i][1], inventory[i][2])

(* The schemas by which tables were, or will be, listed. *)
Asked == Range(targets) \cup {p[1] : p \in Range(inventory)}

(* The types, and how far the index may be. *)
ReadingTyped ==
    /\ IntrospectionTypeOK
    /\ IsFiniteSet(DOMAIN tables)
    /\ stage \in {"reflect", "link", "read"} => index <= Len(Attempted) + 1
    /\ stage = "link" => index <= Len(Attempted)
    /\ stage = "read" => index = Len(Attempted) + 1

(* Nothing happens before its time. *)
Waiting ==
    /\ stage \in {"connect", "resolve", "raised"} => inventory = <<>> /\ targets = <<>> /\ ~ unlisted
    /\ stage \notin {"reflect", "link", "read"} =>
          index = 1 /\ DOMAIN tables = {} /\ relationships = {} /\ skipped = {} /\ linked = {}
    /\ stage # "list" => targets = <<>>

(* What is listed is of the namespace, and is listed once. *)
Listing ==
    /\ \A schema \in Range(targets) :
          SchemaMeant(schema) \in DOMAIN source.tables => SchemaMeant(schema) \in source.scope
    /\ \A p \in Range(inventory) :
          /\ p[1] \in DOMAIN source.tables \cup {NoName}
          /\ SchemaMeant(p[1]) \in source.scope
          /\ p[2] \in Range(source.tables[SchemaMeant(p[1])])
    /\ Asked = {NoName} \/ NoName \notin Asked
    /\ Engine.parts < 2 => Asked \subseteq {NoName}
    /\ IsInjective(targets)
    /\ \A p \in Range(inventory) : p[1] \notin Range(targets)
    /\ IsInjective(inventory)

(* What was not refused is listed, or will be. *)
Complete ==
    stage \notin {"connect", "resolve", "raised"} /\ ~ unlisted =>
        \A schema \in source.scope :
            \/ \E target \in Range(targets) : SchemaMeant(target) = schema
            \/ \A table \in Range(source.tables[schema]) :
                  \E p \in Range(inventory) : SchemaMeant(p[1]) = schema /\ p[2] = table

(* What came of the tables that were attempted. *)
Cataloged ==
    /\ \A key \in DOMAIN tables :
          \E j \in DOMAIN inventory : key = KeyAt(j) /\ tables[key] = Entry(inventory[j][1], inventory[j][2])
    /\ stage = "link" => KeyAt(index) \in DOMAIN tables

(* Each table attempted before the one at hand was either skipped or read    *)
(* with its keys.                                                            *)
Accounted ==
    /\ \A key \in skipped : \E j \in 1 .. index - 1 : key = KeyAt(j)
    /\ \A table \in linked : \E j \in 1 .. index - 1 : table = TableAt(j)
    /\ \A j \in 1 .. index - 1 :
          IF KeyAt(j) \in skipped THEN TableAt(j) \notin linked
                                  ELSE TableAt(j) \in linked /\ KeyAt(j) \in DOMAIN tables

(* The relationships are those of the tables whose keys were read. *)
Linked ==
    /\ \A r \in relationships :
          \E j \in DOMAIN inventory : TableAt(j) \in linked /\ r \in LinksOf(inventory[j][1], inventory[j][2])
    /\ \A j \in DOMAIN inventory :
          TableAt(j) \in linked => LinksOf(inventory[j][1], inventory[j][2]) \subseteq relationships

ReadingInv == ReadingTyped /\ Waiting /\ Listing /\ Complete /\ Cataloged /\ Accounted /\ Linked

-----------------------------------------------------------------------------
(* Lists, which PruningProofs uses too. *)

(* The range of a list is what stands at its indices. *)
LEMMA SeqRange ==
    ASSUME NEW S, NEW s \in Seq(S)
    PROVE  /\ Range(s) \subseteq S
           /\ (IF s = <<>> THEN Range(s) = {} ELSE Range(s) # {})
           /\ \A x \in Range(s) : \E i \in 1 .. Len(s) : x = s[i]
           /\ \A i \in 1 .. Len(s) : s[i] \in Range(s)
<1>1. DOMAIN s = 1 .. Len(s) /\ Len(s) \in Nat /\ \A i \in 1 .. Len(s) : s[i] \in S
    OBVIOUS
<1>2. s # <<>> => 1 \in 1 .. Len(s)
    OBVIOUS
<1>3. s = <<>> => DOMAIN s = {}
    OBVIOUS
<1>4. Range(s) \subseteq S
    BY <1>1 DEF Range
<1>5. IF s = <<>> THEN Range(s) = {} ELSE Range(s) # {}
    BY <1>1, <1>2, <1>3 DEF Range
<1>6. \A x \in Range(s) : \E i \in 1 .. Len(s) : x = s[i]
    BY <1>1 DEF Range
<1>7. \A i \in 1 .. Len(s) : s[i] \in Range(s)
    BY <1>1 DEF Range
<1>. QED
    BY <1>4, <1>5, <1>6, <1>7

(* An appended list has one element more, and one more in its range. *)
LEMMA RangeOfAppend ==
    ASSUME NEW S, NEW s \in Seq(S), NEW t \in S
    PROVE  /\ Append(s, t) \in Seq(S) /\ Append(s, t) # <<>>
           /\ Len(Append(s, t)) = Len(s) + 1
           /\ Range(Append(s, t)) = Range(s) \cup {t}
<1>1. /\ Append(s, t) \in Seq(S) /\ Len(Append(s, t)) = Len(s) + 1
      /\ \A i \in 1 .. Len(s) : Append(s, t)[i] = s[i]
      /\ Append(s, t)[Len(s) + 1] = t
      /\ Len(s) \in Nat
    OBVIOUS
<1>. QED
    BY <1>1 DEF Range

(* A list followed by another has the elements of both. *)
LEMMA Concatenated ==
    ASSUME NEW S, NEW s \in Seq(S), NEW t \in Seq(S)
    PROVE  /\ s \o t \in Seq(S)
           /\ Range(s \o t) = Range(s) \cup Range(t)
           /\ IsInjective(s) /\ IsInjective(t) /\ Range(s) \cap Range(t) = {} => IsInjective(s \o t)
<1>1. /\ s \o t \in Seq(S) /\ Len(s \o t) = Len(s) + Len(t)
      /\ \A i \in 1 .. Len(s) + Len(t) : (s \o t)[i] = IF i <= Len(s) THEN s[i] ELSE t[i - Len(s)]
    BY ConcatProperties
<1>2. Len(s) \in Nat /\ Len(t) \in Nat
    OBVIOUS
<1>. DEFINE c == s \o t
<1>3. DOMAIN c = 1 .. Len(s) + Len(t) /\ DOMAIN s = 1 .. Len(s) /\ DOMAIN t = 1 .. Len(t)
    BY <1>1
<1>4. ASSUME NEW i \in DOMAIN c
      PROVE  \/ i \in DOMAIN s /\ c[i] = s[i]
             \/ i \notin DOMAIN s /\ i - Len(s) \in DOMAIN t /\ c[i] = t[i - Len(s)]
    <2>1. i \in 1 .. Len(s) + Len(t) /\ c[i] = IF i <= Len(s) THEN s[i] ELSE t[i - Len(s)]
        BY <1>1, <1>3
    <2>2. IF i <= Len(s) THEN i \in DOMAIN s ELSE i \notin DOMAIN s /\ i - Len(s) \in DOMAIN t
        BY <1>2, <1>3, <2>1
    <2>. QED
        BY <2>1, <2>2
<1>5. \A i \in DOMAIN s : i \in DOMAIN c /\ c[i] = s[i]
    BY <1>1, <1>2, <1>3
<1>6. \A i \in DOMAIN t : i + Len(s) \in DOMAIN c /\ c[i + Len(s)] = t[i]
    BY <1>1, <1>2, <1>3
<1>7. c \in Seq(S)
    BY <1>1
<1>. HIDE DEF c
<1>8. Range(c) = Range(s) \cup Range(t)
    BY <1>4, <1>5, <1>6 DEF Range
<1>9. ASSUME IsInjective(s), IsInjective(t), Range(s) \cap Range(t) = {}, NEW i \in DOMAIN c, NEW j \in DOMAIN c, c[i] = c[j]
      PROVE  i = j
    <2>1. CASE i \in DOMAIN s /\ j \in DOMAIN s
        BY <1>4, <1>9, <2>1 DEF IsInjective
    <2>2. CASE i \notin DOMAIN s /\ j \notin DOMAIN s
        <3>1. i - Len(s) \in DOMAIN t /\ j - Len(s) \in DOMAIN t /\ t[i - Len(s)] = t[j - Len(s)]
            BY <1>4, <1>9, <2>2
        <3>2. i - Len(s) = j - Len(s)
            BY <1>9, <3>1 DEF IsInjective
        <3>. QED
            BY <1>2, <1>3, <3>2
    <2>3. ASSUME NEW k \in DOMAIN c, NEW l \in DOMAIN c, k \in DOMAIN s, l \notin DOMAIN s
          PROVE  c[k] # c[l]
        <3>1. c[k] \in Range(s) /\ c[l] \in Range(t)
            BY <1>4, <2>3 DEF Range
        <3>. QED
            BY <1>9, <3>1
    <2>. QED
        BY <1>9, <2>1, <2>2, <2>3
<1>10. IsInjective(s) /\ IsInjective(t) /\ Range(s) \cap Range(t) = {} => IsInjective(c)
    BY <1>9 DEF IsInjective
<1>. QED
    BY <1>7, <1>8, <1>10 DEF c

(* A list is its head and its tail. *)
LEMMA HeadAndTail ==
    ASSUME NEW S, NEW s \in Seq(S), s # <<>>
    PROVE  /\ Tail(s) \in Seq(S) /\ Head(s) \in S
           /\ Range(s) = {Head(s)} \cup Range(Tail(s))
           /\ IsInjective(s) => Head(s) \notin Range(Tail(s)) /\ IsInjective(Tail(s))
<1>1. /\ Len(s) \in Nat \ {0} /\ Head(s) = s[1] /\ DOMAIN s = 1 .. Len(s)
      /\ DOMAIN Tail(s) = 1 .. Len(s) - 1
      /\ \A i \in 1 .. Len(s) - 1 : Tail(s)[i] = s[i + 1]
      /\ Tail(s) \in Seq(S) /\ Head(s) \in S
    OBVIOUS
<1>2. ASSUME NEW i \in 1 .. Len(s), i # 1 PROVE s[i] \in Range(Tail(s))
    <2>1. i - 1 \in 1 .. Len(s) - 1 /\ Tail(s)[i - 1] = s[i]
        BY <1>1, <1>2
    <2>. QED
        BY <1>1, <2>1 DEF Range
<1>3. \A i \in DOMAIN Tail(s) : i + 1 \in DOMAIN s /\ i + 1 # 1 /\ Tail(s)[i] = s[i + 1]
    BY <1>1
<1>4. 1 \in DOMAIN s
    BY <1>1
<1>5. Range(s) = {Head(s)} \cup Range(Tail(s))
    BY <1>1, <1>2, <1>3, <1>4 DEF Range
<1>6. ASSUME IsInjective(s) PROVE Head(s) \notin Range(Tail(s))
    BY <1>1, <1>3, <1>4, <1>6 DEF Range, IsInjective
<1>7. ASSUME IsInjective(s), NEW i \in DOMAIN Tail(s), NEW j \in DOMAIN Tail(s), Tail(s)[i] = Tail(s)[j]
      PROVE  i = j
    <2>1. i + 1 = j + 1
        BY <1>3, <1>7 DEF IsInjective
    <2>. QED
        BY <1>1, <2>1
<1>. QED
    BY <1>1, <1>5, <1>6, <1>7 DEF IsInjective

(* The elements of a list, each with the same value before it. *)
Paired(x, s) == [i \in DOMAIN s |-> <<x, s[i]>>]

(* Pairing keeps them apart. *)
LEMMA PairedType ==
    ASSUME NEW S, NEW T, NEW s \in Seq(S), NEW x \in T
    PROVE  /\ Paired(x, s) \in Seq(T \X S)
           /\ \A p \in Range(Paired(x, s)) : p[1] = x /\ p[2] \in Range(s)
           /\ \A y \in Range(s) : <<x, y>> \in Range(Paired(x, s))
           /\ IsInjective(s) => IsInjective(Paired(x, s))
<1>1. Paired(x, s) \in Seq(T \X S)
    BY DEF Paired
<1>2. /\ \A p \in Range(Paired(x, s)) : p[1] = x /\ p[2] \in Range(s)
      /\ \A y \in Range(s) : <<x, y>> \in Range(Paired(x, s))
    BY DEF Range, Paired
<1>3. IsInjective(s) => IsInjective(Paired(x, s))
    BY DEF IsInjective, Paired
<1>. QED
    BY <1>1, <1>2, <1>3

(* Two lists in a row end with the second, before which stands the first. *)
LEMMA EndsWith ==
    ASSUME NEW S, NEW s \in Seq(S), NEW t \in Seq(S)
    PROVE  /\ IsSuffix(t, s \o t)
           /\ SubSeq(s \o t, 1, Len(s \o t) - Len(t)) = s
           /\ s # <<>> => s \o t # t
<1>1. /\ s \o t \in Seq(S) /\ Len(s \o t) = Len(s) + Len(t)
      /\ \A i \in 1 .. Len(s) + Len(t) : (s \o t)[i] = IF i <= Len(s) THEN s[i] ELSE t[i - Len(s)]
    BY ConcatProperties
<1>2. Len(s) \in Nat /\ Len(t) \in Nat /\ s \in [1 .. Len(s) -> S] /\ DOMAIN s = 1 .. Len(s)
    OBVIOUS
<1>. DEFINE c == s \o t
<1>. HIDE DEF c
<1>3. /\ c \in Seq(S) /\ Len(c) = Len(s) + Len(t)
      /\ \A i \in 1 .. Len(s) : c[i] = s[i]
      /\ \A i \in 1 .. Len(t) : c[Len(c) - i + 1] = t[Len(t) - i + 1]
    BY <1>1, <1>2 DEF c
<1>4. SubSeq(c, 1, Len(c) - Len(t)) = s
    <2>1. Len(c) - Len(t) = Len(s)
        BY <1>2, <1>3
    <2>2. SubSeq(c, 1, Len(s)) = [i \in 1 .. Len(s) |-> c[i]]
        BY <1>2, <1>3
    <2>. QED
        BY <1>2, <1>3, <2>1, <2>2
<1>5. /\ Reverse(c) = [i \in 1 .. Len(c) |-> c[Len(c) - i + 1]]
      /\ Reverse(t) = [i \in 1 .. Len(t) |-> t[Len(t) - i + 1]]
    BY DEF Reverse
<1>6. /\ Reverse(c) \in Seq(S) /\ Len(Reverse(c)) = Len(c)
      /\ Reverse(t) \in Seq(S) /\ Len(Reverse(t)) = Len(t)
    <2>1. \A i \in 1 .. Len(c) : Len(c) - i + 1 \in 1 .. Len(c)
        BY <1>2, <1>3
    <2>2. \A i \in 1 .. Len(t) : Len(t) - i + 1 \in 1 .. Len(t)
        BY <1>2
    <2>. QED
        BY <1>2, <1>3, <1>5, <2>1, <2>2
<1>7. /\ SubSeq(Reverse(t), 1, Len(t)) = [i \in 1 .. Len(t) |-> Reverse(t)[i]]
      /\ SubSeq(Reverse(c), 1, Len(t)) = [i \in 1 .. Len(t) |-> Reverse(c)[i]]
    BY <1>2, <1>3, <1>6
<1>8. \A i \in 1 .. Len(t) : i \in 1 .. Len(c) /\ Reverse(t)[i] = Reverse(c)[i]
    BY <1>2, <1>3, <1>5
<1>9. IsPrefix(Reverse(t), Reverse(c))
    <2>1. Len(Reverse(t)) <= Len(Reverse(c))
        BY <1>2, <1>3, <1>6
    <2>2. SubSeq(Reverse(t), 1, Len(t)) = SubSeq(Reverse(c), 1, Len(t))
        BY <1>7, <1>8
    <2>. QED
        BY <1>6, <2>1, <2>2 DEF IsPrefix
<1>10. s # <<>> => Len(s) # 0
    OBVIOUS
<1>11. s # <<>> => c # t
    BY <1>2, <1>3, <1>10
<1>. QED
    BY <1>4, <1>9, <1>11 DEF IsSuffix, c

(* There are n numbers from 1 to n. *)
LEMMA FirstNumbers ==
    ASSUME NEW n \in Nat
    PROVE  IsFiniteSet(1 .. n) /\ Cardinality(1 .. n) = n
<1>1. 1 \in Int /\ n \in Int /\ (IF 1 > n THEN 0 ELSE n - 1 + 1) = n
    OBVIOUS
<1>. QED
    BY <1>1, FS_Interval

(* A list is at least as long as it has elements. *)
LEMMA RangeIsBounded ==
    ASSUME NEW S, NEW s \in Seq(S)
    PROVE  IsFiniteSet(Range(s)) /\ Cardinality(Range(s)) <= Len(s)
<1>1. IsFiniteSet(1 .. Len(s)) /\ Cardinality(1 .. Len(s)) = Len(s) /\ Len(s) \in Nat
    BY FirstNumbers
<1>2. s \in Surjection(1 .. Len(s), Range(s))
    <2>1. DOMAIN s = 1 .. Len(s) /\ s \in [DOMAIN s -> Range(s)]
        BY DEF Range
    <2>. QED
        BY <2>1 DEF Surjection, Range
<1>. QED
    BY <1>1, <1>2, FS_Surjection

(* Sorting a set makes a list of exactly its elements, each once. *)
LEMMA SortedIsWhole ==
    ASSUME NEW S, IsFiniteSet(S), NEW s \in SetToSeqs(S)
    PROVE  s \in Seq(S) /\ Range(s) = S /\ IsInjective(s)
<1>1. Cardinality(S) \in Nat
    BY FS_CardinalityType
<1>2. IsFiniteSet(1 .. Cardinality(S)) /\ Cardinality(1 .. Cardinality(S)) = Cardinality(S)
    BY <1>1, FirstNumbers
<1>3. s \in [1 .. Cardinality(S) -> S] /\ s \in Injection(1 .. Cardinality(S), S) /\ IsInjective(s)
    BY DEF SetToSeqs, Injection, IsInjective
<1>4. s \in Surjection(1 .. Cardinality(S), S)
    BY <1>2, <1>3, FS_Injection
<1>. QED
    BY <1>1, <1>3, <1>4 DEF Surjection, Range

-----------------------------------------------------------------------------
(* Names and keys. *)

(* The parts of a source, and what the registry says about its engine. *)
LEMMA SourceType ==
    ASSUME source \in Sources
    PROVE  /\ source.config \in [{"schema", "database", "catalog"} -> Seq(Atoms)]
           /\ DOMAIN source.tables \subseteq Seq(Atoms) \ {NoName}
           /\ \A schema \in DOMAIN source.tables :
                 /\ source.tables[schema] \in Seq(Seq(Atoms) \ {NoName})
                 /\ IsInjective(source.tables[schema])
           /\ source.schemas \subseteq DOMAIN source.tables /\ IsFiniteSet(source.schemas)
           /\ source.default \in DOMAIN source.tables
           /\ source.scope \subseteq DOMAIN source.tables
           /\ \A k \in source.keys : {k.from, k.to} \subseteq (DOMAIN source.tables) \X Seq(Atoms)
           /\ Engine.namespaceField \in {"schema", "database", "none"}
           /\ Engine.parts \in Nat
           /\ ~ (Engine.parts < 2) => Engine.namespaceField # "none"
<1>1. \A e \in EngineSpecs : /\ e.namespaceField \in {"schema", "database", "none"}
                             /\ e.parts \in Nat
                             /\ ~ (e.parts < 2) => e.namespaceField # "none"
    BY DEF EngineSpecs, EngineSpec, Postgres, MySql, Sqlite, DuckDb, Trino, ClickHouse
<1>. QED
    BY <1>1, SourcesAssumption DEF Engine

(* A field of the profile is a name, empty when it is absent. *)
LEMMA ConfigType ==
    ASSUME source \in Sources
    PROVE  ConfiguredNamespace \in Seq(Atoms) /\ source.config["catalog"] \in Seq(Atoms)
BY SourceType DEF ConfiguredNamespace, Config, NoName

(* Joining names gives a name. *)
LEMMA JoinedType ==
    ASSUME NEW s \in Seq(Atoms), NEW t \in Seq(Atoms)
    PROVE  s \o t \in Seq(Atoms) /\ (t # NoName => s \o t # NoName)
<1>1. s \o t \in Seq(Atoms) /\ Len(s \o t) = Len(s) + Len(t)
    BY ConcatProperties
<1>2. ASSUME t # <<>> PROVE s \o t # <<>>
    <2>1. Len(s) \in Nat /\ Len(t) \in Nat \ {0}
        BY <1>2
    <2>2. Len(s \o t) # 0
        BY <1>1, <2>1
    <2>. QED
        BY <2>2
<1>. QED
    BY <1>1, <1>2 DEF NoName

(* Every key is a name, and not the empty one. *)
LEMMA QualifyType ==
    ASSUME source \in Sources, NEW schema \in Seq(Atoms), NEW table \in Seq(Atoms)
    PROVE  Qualify(schema, table) \in Seq(Atoms) /\ (table # NoName => Qualify(schema, table) # NoName)
<1>1. source.config["catalog"] \in Seq(Atoms)
    BY ConfigType
<1>2. source.config["catalog"] \o schema \in Seq(Atoms)
    BY <1>1, JoinedType
<1>. QED
    BY <1>2, JoinedType DEF Qualify, DottedKey

(* The schema that a schema means is one, and a schema of the database       *)
(* means itself.                                                             *)
LEMMA Meant ==
    ASSUME source \in Sources, NEW schema \in Seq(Atoms)
    PROVE  /\ SchemaMeant(schema) \in Seq(Atoms)
           /\ schema # NoName => SchemaMeant(schema) = schema
           /\ SchemaMeant(NoName) = source.default
BY SourceType DEF SchemaMeant

(* A key is a key of the table that it was made for... *)
LEMMA KeyOfTable ==
    ASSUME NEW schema, NEW table
    PROVE  Qualify(schema, table) \in KeysMeaning(source, <<SchemaMeant(schema), table>>)
<1>1. CASE schema = NoName
    BY <1>1 DEF KeysMeaning, SchemaMeant, Qualify
<1>2. CASE schema # NoName
    BY <1>2 DEF KeysMeaning, SchemaMeant, Qualify
<1>. QED
    BY <1>1, <1>2

(* ...and of no other. *)
LEMMA KeyOfOneTable ==
    ASSUME source \in Sources, NEW t \in TablesKnownTo(source), NEW u \in TablesKnownTo(source),
           NEW key \in KeysMeaning(source, t), key \in KeysMeaning(source, u)
    PROVE  t = u
<1>1. KeysMeaning(source, t) \cap KeysMeaning(source, u) # {}
    OBVIOUS
<1>. QED
    BY <1>1, DottedKeysAssumption

(* What is listed is known. *)
LEMMA ListedIsKnown ==
    ASSUME Listing, inventory \in Seq(Seq(Atoms) \X Seq(Atoms)), source \in Sources, NEW i \in DOMAIN inventory
    PROVE  /\ TableAt(i) \in TablesKnownTo(source)
           /\ KeyAt(i) \in KeysMeaning(source, TableAt(i))
           /\ inventory[i] \in Range(inventory)
           /\ inventory[i] \in Seq(Atoms) \X Seq(Atoms)
           /\ inventory[i][2] # NoName
           /\ inventory[i][1] = NoName \/ inventory[i][1] \in DOMAIN source.tables
<1>1. inventory[i] \in Range(inventory) /\ inventory[i] \in Seq(Atoms) \X Seq(Atoms)
    BY SeqRange
<1>2. /\ inventory[i][1] \in DOMAIN source.tables \cup {NoName}
      /\ SchemaMeant(inventory[i][1]) \in source.scope
      /\ inventory[i][2] \in Range(source.tables[SchemaMeant(inventory[i][1])])
    BY <1>1 DEF Listing
<1>3. SchemaMeant(inventory[i][1]) \in DOMAIN source.tables
    BY <1>2, SourceType
<1>4. TableAt(i) \in TablesKnownTo(source)
    <2>. DEFINE a == SchemaMeant(inventory[i][1])
                b == inventory[i][2]
    <2>1. <<a, b>> \in {a} \X Range(source.tables[a]) /\ a \in DOMAIN source.tables
        BY <1>2, <1>3
    <2>2. TableAt(i) = <<a, b>>
        BY DEF TableAt
    <2>. HIDE DEF a, b
    <2>. QED
        BY <2>1, <2>2 DEF TablesKnownTo, TablesListedBy
<1>5. KeyAt(i) \in KeysMeaning(source, TableAt(i))
    BY KeyOfTable DEF KeyAt, TableAt
<1>6. inventory[i][2] # NoName
    <2>1. source.tables[SchemaMeant(inventory[i][1])] \in Seq(Seq(Atoms) \ {NoName})
        BY <1>3, SourceType
    <2>2. Range(source.tables[SchemaMeant(inventory[i][1])]) \subseteq Seq(Atoms) \ {NoName}
        BY <2>1, SeqRange
    <2>. QED
        BY <1>2, <2>2
<1>. QED
    BY <1>1, <1>2, <1>4, <1>5, <1>6

(* Pairs are equal when their components are. *)
LEMMA PairsAlike ==
    ASSUME NEW A, NEW B, NEW p \in A \X B, NEW q \in A \X B, p[1] = q[1], p[2] = q[2]
    PROVE  p = q
OBVIOUS

(* A table is listed once, and has a key of its own. *)
LEMMA ListedOnce ==
    ASSUME Listing, inventory \in Seq(Seq(Atoms) \X Seq(Atoms)), source \in Sources,
           NEW i \in DOMAIN inventory, NEW j \in DOMAIN inventory, KeyAt(i) = KeyAt(j) \/ TableAt(i) = TableAt(j)
    PROVE  i = j
<1>1. /\ inventory[i] \in Range(inventory) /\ inventory[j] \in Range(inventory)
      /\ inventory[i] \in Seq(Atoms) \X Seq(Atoms) /\ inventory[j] \in Seq(Atoms) \X Seq(Atoms)
    BY ListedIsKnown
<1>2. TableAt(i) = TableAt(j)
    BY ListedIsKnown, KeyOfOneTable
<1>3. inventory[i][1] \in Asked /\ inventory[j][1] \in Asked
    BY <1>1 DEF Asked
<1>4. inventory[i][1] = inventory[j][1]
    <2>1. CASE Asked = {NoName}
        BY <1>3, <2>1
    <2>2. CASE NoName \notin Asked
        <3>1. inventory[i][1] \in Seq(Atoms) \ {NoName} /\ inventory[j][1] \in Seq(Atoms) \ {NoName}
            BY <1>1, <1>3, <2>2
        <3>2. SchemaMeant(inventory[i][1]) = SchemaMeant(inventory[j][1])
            BY <1>2 DEF TableAt
        <3>. QED
            BY <3>1, <3>2, Meant
    <2>. QED
        BY <2>1, <2>2 DEF Listing
<1>5. inventory[i] = inventory[j]
    <2>1. inventory[i][2] = inventory[j][2]
        BY <1>2 DEF TableAt
    <2>. QED
        BY <1>1, <1>4, <2>1, PairsAlike
<1>. QED
    BY <1>5 DEF Listing, IsInjective

-----------------------------------------------------------------------------
(* Listings. *)

(* The tables attempted are some of those listed, all if they fit. *)
LEMMA AttemptedType ==
    ASSUME inventory \in Seq(Seq(Atoms) \X Seq(Atoms)), catalogCap \in Int
    PROVE  /\ Attempted \in Seq(Seq(Atoms) \X Seq(Atoms))
           /\ Len(Attempted) \in Nat /\ Len(Attempted) <= Len(inventory)
           /\ \A i \in 1 .. Len(Attempted) : Attempted[i] = inventory[i] /\ i \in DOMAIN inventory
           /\ ~ Truncated => Attempted = inventory
<1>1. Len(inventory) \in Nat /\ Len(inventory) + catalogCap \in Int /\ Len(inventory) \in Int
    OBVIOUS
<1>. DEFINE n == IF catalogCap >= 0
                    THEN IF catalogCap < Len(inventory) THEN catalogCap ELSE Len(inventory)
                    ELSE Len(inventory) + catalogCap
<1>2. n \in Int /\ n <= Len(inventory) /\ Attempted = SubSeq(inventory, 1, n)
    BY <1>1 DEF Attempted
<1>3. ~ Truncated => n = Len(inventory)
    BY <1>1 DEF Truncated
<1>. HIDE DEF n
<1>4. SubSeq(inventory, 1, Len(inventory)) = inventory
    BY <1>1
<1>5. ~ Truncated => Attempted = inventory
    BY <1>2, <1>3, <1>4
<1>6. /\ Attempted \in Seq(Seq(Atoms) \X Seq(Atoms))
      /\ Len(Attempted) \in Nat /\ Len(Attempted) <= Len(inventory)
      /\ \A i \in 1 .. Len(Attempted) : Attempted[i] = inventory[i] /\ i \in DOMAIN inventory
    BY <1>1, <1>2
<1>. QED
    BY <1>5, <1>6

(* The table at hand. *)
LEMMA AtIndex ==
    ASSUME ReadingTyped, Listing, index <= Len(Attempted)
    PROVE  /\ index \in DOMAIN inventory /\ Attempted[index] = inventory[index]
           /\ inventory[index][1] \in Seq(Atoms) /\ inventory[index][2] \in Seq(Atoms)
           /\ KeyAt(index) \in Seq(Atoms) /\ KeyAt(index) # NoName
           /\ index + 1 \in 1 .. Len(inventory) + 1 /\ index + 1 <= Len(Attempted) + 1
           /\ \A j \in 1 .. index : j \in DOMAIN inventory
           /\ \A j \in 1 .. (index + 1) - 1 : j = index \/ j \in 1 .. index - 1
           /\ index \notin 1 .. index - 1 /\ index \in 1 .. (index + 1) - 1
           /\ \A j \in 1 .. index - 1 : j \in 1 .. (index + 1) - 1
<1>1. /\ source \in Sources /\ catalogCap \in Int /\ inventory \in Seq(Seq(Atoms) \X Seq(Atoms))
      /\ index \in 1 .. Len(inventory) + 1 /\ Len(inventory) \in Nat
    BY CatalogCapsAssumption DEF ReadingTyped, IntrospectionTypeOK
<1>2. index \in 1 .. Len(Attempted) /\ Len(Attempted) \in Nat /\ Len(Attempted) <= Len(inventory)
    BY <1>1, AttemptedType
<1>3. index \in DOMAIN inventory /\ Attempted[index] = inventory[index]
    BY <1>1, <1>2, AttemptedType
<1>4. /\ inventory[index][1] \in Seq(Atoms) /\ inventory[index][2] \in Seq(Atoms)
      /\ inventory[index][2] # NoName
    BY <1>1, <1>3, ListedIsKnown
<1>5. KeyAt(index) \in Seq(Atoms) /\ KeyAt(index) # NoName
    BY <1>1, <1>4, QualifyType DEF KeyAt
<1>6. /\ index + 1 \in 1 .. Len(inventory) + 1 /\ index + 1 <= Len(Attempted) + 1
      /\ \A j \in 1 .. index : j \in DOMAIN inventory
      /\ \A j \in 1 .. (index + 1) - 1 : j = index \/ j \in 1 .. index - 1
      /\ index \notin 1 .. index - 1 /\ index \in 1 .. (index + 1) - 1
      /\ \A j \in 1 .. index - 1 : j \in 1 .. (index + 1) - 1
    BY <1>1, <1>2
<1>. QED
    BY <1>3, <1>4, <1>5, <1>6

(* One schema to list. *)
LEMMA OneTarget ==
    ASSUME NEW x \in Seq(Atoms)
    PROVE  /\ <<x>> \in Seq(Seq(Atoms)) /\ Range(<<x>>) = {x} /\ IsInjective(<<x>>)
           /\ Range(<<>>) = {}
<1>1. <<x>> \in Seq(Seq(Atoms)) /\ DOMAIN <<x>> = {1} /\ <<x>>[1] = x /\ DOMAIN <<>> = {}
    OBVIOUS
<1>. QED
    BY <1>1 DEF Range, IsInjective

(* The schemas to list are the user's, each once. *)
LEMMA TargetsAreTheScope ==
    ASSUME source \in Sources, ResolveSchemas, ~ unlisted, unlisted \in BOOLEAN
    PROVE  /\ targets' \in Seq(Seq(Atoms)) /\ IsInjective(targets') /\ unlisted' \in BOOLEAN
           /\ \A x \in Range(targets') : SchemaMeant(x) \in DOMAIN source.tables => SchemaMeant(x) \in source.scope
           /\ Range(targets') = {NoName} \/ NoName \notin Range(targets')
           /\ Engine.parts < 2 => Range(targets') = {NoName}
           /\ ~ unlisted' => \A schema \in source.scope : \E x \in Range(targets') : SchemaMeant(x) = schema
<1>. DEFINE user == {schema \in source.schemas : ~ IsSystem(schema)}
<1>1. /\ source.engine = Engine /\ ConfiguredNamespace \in Seq(Atoms) /\ NoName \in Seq(Atoms)
      /\ source.default \in DOMAIN source.tables /\ source.scope \subseteq DOMAIN source.tables
      /\ DOMAIN source.tables \subseteq Seq(Atoms) \ {NoName}
    BY SourceType, ConfigType DEF Engine, NoName
<1>2. Engine.parts < 2 => source.scope = {source.default}
    BY ScopeAssumption DEF Engine
<1>. DEFINE namespace == source.config[Engine.namespaceField]
<1>3. ~ (Engine.parts < 2) => namespace = ConfiguredNamespace
    BY SourceType DEF ConfiguredNamespace, Config
<1>4. ~ (Engine.parts < 2) =>
         IF namespace # NoName
            THEN source.scope = {namespace} \cap DOMAIN source.tables
            ELSE /\ source.default \in source.scope
                 /\ source.scope = (IF user = {} THEN {source.default} ELSE user)
    BY ScopeAssumption DEF Engine, IsSystem
<1>5. user \subseteq DOMAIN source.tables /\ IsFiniteSet(user)
    <2>1. user \subseteq source.schemas
        OBVIOUS
    <2>. HIDE DEF user
    <2>. QED
        BY <2>1, SourceType, FS_Subset
<1>. HIDE DEF namespace
<1>6. ASSUME targets' = <<NoName>>, source.default \in source.scope, unlisted' \in BOOLEAN,
             ~ unlisted' => source.scope = {source.default}
      PROVE  /\ targets' \in Seq(Seq(Atoms)) /\ IsInjective(targets') /\ unlisted' \in BOOLEAN
             /\ \A x \in Range(targets') : SchemaMeant(x) \in source.scope
             /\ Range(targets') = {NoName}
             /\ ~ unlisted' => \A schema \in source.scope : \E x \in Range(targets') : SchemaMeant(x) = schema
    <2>1. targets' \in Seq(Seq(Atoms)) /\ IsInjective(targets') /\ Range(targets') = {NoName}
        BY <1>1, <1>6, OneTarget
    <2>2. SchemaMeant(NoName) = source.default
        BY <1>1, Meant
    <2>. QED
        BY <1>6, <2>1, <2>2
<1>7. CASE Engine.parts < 2
    <2>1. targets' = <<NoName>> /\ unlisted' = unlisted
        BY <1>7 DEF ResolveSchemas
    <2>. QED
        BY <1>2, <1>6, <1>7, <2>1
<1>8. CASE ~ (Engine.parts < 2) /\ ConfiguredNamespace # NoName
    <2>1. targets' = <<ConfiguredNamespace>> /\ unlisted' = unlisted
        BY <1>8 DEF ResolveSchemas
    <2>2. source.scope = {ConfiguredNamespace} \cap DOMAIN source.tables
        BY <1>3, <1>4, <1>8
    <2>3. SchemaMeant(ConfiguredNamespace) = ConfiguredNamespace
        BY <1>1, <1>8, Meant
    <2>4. targets' \in Seq(Seq(Atoms)) /\ Range(targets') = {ConfiguredNamespace} /\ IsInjective(targets')
        BY <1>1, <2>1, OneTarget
    <2>. QED
        BY <1>8, <2>1, <2>2, <2>3, <2>4
<1>9. CASE ~ (Engine.parts < 2) /\ ConfiguredNamespace = NoName
    <2>1. /\ source.default \in source.scope
          /\ source.scope = IF user = {} THEN {source.default} ELSE user
        BY <1>3, <1>4, <1>9
    <2>2. \/ \E names \in SetToSeqs(user) : targets' = OrDefault(names) /\ unlisted' = unlisted
          \/ targets' = <<NoName>> /\ unlisted' = TRUE
        BY <1>9 DEF ResolveSchemas
    <2>3. CASE targets' = <<NoName>> /\ unlisted' = TRUE
        BY <1>6, <2>1, <2>3
    <2>4. CASE \E names \in SetToSeqs(user) : targets' = OrDefault(names) /\ unlisted' = unlisted
        <3>1. PICK names \in SetToSeqs(user) : targets' = OrDefault(names) /\ unlisted' = unlisted
            BY <2>4
        <3>. HIDE DEF user
        <3>2. names \in Seq(user) /\ Range(names) = user /\ IsInjective(names)
            BY <1>5, SortedIsWhole
        <3>3. CASE names = <<>>
            <4>1. user = {} /\ targets' = <<NoName>>
                BY <3>1, <3>2, <3>3, SeqRange DEF OrDefault
            <4>. QED
                BY <1>6, <2>1, <3>1, <4>1
        <3>4. CASE names # <<>>
            <4>1. user # {} /\ targets' = names
                BY <3>1, <3>2, <3>4, SeqRange DEF OrDefault
            <4>2. source.scope = user /\ names \in Seq(Seq(Atoms))
                BY <1>1, <1>5, <2>1, <3>2, <4>1
            <4>3. \A x \in user : x \in Seq(Atoms) /\ x # NoName /\ SchemaMeant(x) = x
                BY <1>1, <1>5, Meant
            <4>. QED
                BY <1>9, <3>1, <3>2, <4>1, <4>2, <4>3
        <3>. QED
            BY <3>3, <3>4
    <2>. QED
        BY <2>2, <2>3, <2>4
<1>. QED
    BY <1>7, <1>8, <1>9

-----------------------------------------------------------------------------
(* The steps. *)

(* What depends on the listing only stays with it. *)
LEMMA SameListing ==
    ASSUME UNCHANGED <<source, inventory>>
    PROVE  /\ \A i : TableAt(i)' = TableAt(i) /\ KeyAt(i)' = KeyAt(i)
           /\ \A schema : SchemaMeant(schema)' = SchemaMeant(schema)
           /\ \A schema, table : LinksOf(schema, table)' = LinksOf(schema, table)
           /\ UNCHANGED targets => (Asked' = Asked /\ (Listing => Listing'))
           /\ UNCHANGED catalogCap => Attempted' = Attempted
<1>1. \A schema : SchemaMeant(schema)' = SchemaMeant(schema)
    BY DEF SchemaMeant
<1>2. \A schema, table : Qualify(schema, table)' = Qualify(schema, table)
    BY DEF Qualify
<1>3. \A schema, table : KeysFrom(schema, table)' = KeysFrom(schema, table)
    BY <1>1 DEF KeysFrom
<1>4. \A schema, table : LinksOf(schema, table)' = LinksOf(schema, table)
    BY <1>2, <1>3 DEF LinksOf, ReportedSchema, LeftOut
<1>5. \A i : TableAt(i)' = TableAt(i) /\ KeyAt(i)' = KeyAt(i)
    BY <1>1, <1>2 DEF TableAt, KeyAt
<1>6. ASSUME UNCHANGED targets PROVE Asked' = Asked /\ (Listing => Listing')
    <2>1. Asked' = Asked
        BY <1>6 DEF Asked
    <2>. QED
        BY <1>1, <1>6, <2>1 DEF Listing, Engine
<1>7. UNCHANGED catalogCap => Attempted' = Attempted
    BY DEF Attempted
<1>. QED
    BY <1>1, <1>4, <1>5, <1>6, <1>7

(* A call that fails is one of the few that may. *)
LEMMA FailsType == ASSUME Fails, failures \in 0 .. MaxFailures PROVE failures' \in 0 .. MaxFailures
BY MaxFailuresAssumption DEF Fails

(* The connection is made, or the error is the caller's. *)
LEMMA ConnectSafe == ASSUME ReadingInv, Connect PROVE ReadingInv'
<1>1. /\ stage = "connect" /\ stage' \in {"resolve", "raised"} /\ failures' \in 0 .. MaxFailures
      /\ UNCHANGED <<source, catalogCap, targets, inventory, index, tables, relationships,
                     skipped, unlisted, linked>>
    BY FailsType DEF Connect, ReadingInv, ReadingTyped, IntrospectionTypeOK
<1>2. /\ Listing'
      /\ inventory = <<>> /\ DOMAIN inventory = {} /\ DOMAIN tables = {} /\ relationships = {} /\ skipped = {} /\ linked = {}
      /\ index = 1 /\ targets = <<>> /\ ~ unlisted
    BY <1>1, SameListing DEF ReadingInv, Waiting
<1>3. ReadingTyped'
    BY <1>1 DEF ReadingInv, ReadingTyped, IntrospectionTypeOK
<1>4. Waiting' /\ Complete' /\ Cataloged'
    BY <1>1, <1>2 DEF Waiting, Complete, Cataloged
<1>5. \A j \in 1 .. index - 1 : FALSE
    BY <1>2
<1>6. Accounted' /\ Linked'
    BY <1>1, <1>2, <1>5 DEF Accounted, Linked
<1>. QED
    BY <1>2, <1>3, <1>4, <1>6 DEF ReadingInv

(* Nothing is attempted while schemas are resolved and tables are listed. *)
LEMMA NothingYet ==
    ASSUME index' = 1, DOMAIN tables' = {}, relationships' = {}, skipped' = {}, linked' = {}, stage' # "link"
    PROVE  Cataloged' /\ Accounted' /\ Linked'
<1>1. \A j \in 1 .. index' - 1 : FALSE
    OBVIOUS
<1>. QED
    BY <1>1 DEF Cataloged, Accounted, Linked

(* The schemas to list are those of the namespace. *)
LEMMA ResolveSchemasSafe == ASSUME ReadingInv, ResolveSchemas PROVE ReadingInv'
<1>1. /\ stage = "resolve" /\ stage' = "list" /\ failures' \in 0 .. MaxFailures
      /\ UNCHANGED <<source, catalogCap, inventory, index, tables, relationships, skipped, linked>>
      /\ inventory = <<>> /\ DOMAIN tables = {} /\ relationships = {} /\ skipped = {} /\ linked = {}
      /\ index = 1 /\ ~ unlisted /\ unlisted \in BOOLEAN /\ source \in Sources
    BY FailsType DEF ResolveSchemas, ReadingInv, ReadingTyped, IntrospectionTypeOK, Waiting
<1>2. /\ targets' \in Seq(Seq(Atoms)) /\ IsInjective(targets') /\ unlisted' \in BOOLEAN
      /\ \A x \in Range(targets') : SchemaMeant(x) \in DOMAIN source.tables => SchemaMeant(x) \in source.scope
      /\ Range(targets') = {NoName} \/ NoName \notin Range(targets')
      /\ Engine.parts < 2 => Range(targets') = {NoName}
      /\ ~ unlisted' => \A schema \in source.scope : \E x \in Range(targets') : SchemaMeant(x) = schema
    BY <1>1, TargetsAreTheScope
<1>3. Range(inventory) = {} /\ IsInjective(inventory)
    BY <1>1 DEF Range, IsInjective
<1>4. \A schema : SchemaMeant(schema)' = SchemaMeant(schema)
    BY <1>1, SameListing
<1>5. ReadingTyped'
    BY <1>1, <1>2 DEF ReadingInv, ReadingTyped, IntrospectionTypeOK
<1>6. Waiting'
    BY <1>1 DEF Waiting
<1>7. Listing'
    <2>1. Asked' = Range(targets')
        BY <1>1, <1>3 DEF Asked
    <2>. QED
        BY <1>1, <1>2, <1>3, <1>4, <2>1 DEF Listing, Engine
<1>8. Complete'
    BY <1>1, <1>2, <1>4 DEF Complete
<1>9. Cataloged' /\ Accounted' /\ Linked'
    BY <1>1, NothingYet
<1>. QED
    BY <1>5, <1>6, <1>7, <1>8, <1>9 DEF ReadingInv

(* The tables of a schema, each once. *)
LEMMA ListedType ==
    ASSUME source \in Sources, NEW schema \in Seq(Atoms)
    PROVE  /\ TablesIn(schema) \in Seq(Seq(Atoms)) /\ IsInjective(TablesIn(schema))
           /\ SchemaMeant(schema) \in DOMAIN source.tables => TablesIn(schema) = source.tables[SchemaMeant(schema)]
           /\ SchemaMeant(schema) \notin DOMAIN source.tables => Range(TablesIn(schema)) = {}
<1>1. CASE SchemaMeant(schema) \in DOMAIN source.tables
    <2>1. /\ source.tables[SchemaMeant(schema)] \in Seq(Seq(Atoms) \ {NoName})
          /\ IsInjective(source.tables[SchemaMeant(schema)])
        BY <1>1, SourceType
    <2>2. source.tables[SchemaMeant(schema)] \in Seq(Seq(Atoms))
        BY <2>1
    <2>. QED
        BY <1>1, <2>1, <2>2 DEF TablesIn
<1>2. CASE SchemaMeant(schema) \notin DOMAIN source.tables
    <2>1. TablesIn(schema) = <<>> /\ DOMAIN <<>> = {}
        BY <1>2 DEF TablesIn
    <2>. QED
        BY <1>2, <2>1 DEF Range, IsInjective
<1>. QED
    BY <1>1, <1>2

(* What a listing adds to the inventory. *)
LEMMA FoundType ==
    ASSUME source \in Sources, NEW schema \in Seq(Atoms)
    PROVE  /\ Paired(schema, TablesIn(schema)) \in Seq(Seq(Atoms) \X Seq(Atoms))
           /\ \A p \in Range(Paired(schema, TablesIn(schema))) : p[1] = schema /\ p[2] \in Range(TablesIn(schema))
           /\ \A y \in Range(TablesIn(schema)) : <<schema, y>> \in Range(Paired(schema, TablesIn(schema)))
           /\ IsInjective(Paired(schema, TablesIn(schema)))
<1>1. TablesIn(schema) \in Seq(Seq(Atoms)) /\ IsInjective(TablesIn(schema))
    BY ListedType
<1>. QED
    BY <1>1, PairedType

(* The tables of the next schema are listed, or that cannot be. *)
LEMMA ListTablesSafe == ASSUME ReadingInv, ListTables PROVE ReadingInv'
<1>. DEFINE schema == Head(targets)
            found == Paired(schema, TablesIn(schema))
<1>1. /\ stage = "list" /\ stage' = "list" /\ targets # <<>> /\ targets' = Tail(targets)
      /\ UNCHANGED <<source, catalogCap, stage, index, tables, relationships, skipped, linked>>
      /\ DOMAIN tables = {} /\ relationships = {} /\ skipped = {} /\ linked = {} /\ index = 1
      /\ source \in Sources /\ inventory \in Seq(Seq(Atoms) \X Seq(Atoms)) /\ targets \in Seq(Seq(Atoms))
      /\ unlisted \in BOOLEAN
      /\ Listing /\ Complete
    BY DEF ListTables, ReadingInv, ReadingTyped, IntrospectionTypeOK, Waiting
<1>2. /\ failures' \in 0 .. MaxFailures
      /\ \/ inventory' = inventory \o found /\ unlisted' = unlisted
         \/ inventory' = inventory /\ unlisted' = TRUE
    BY FailsType DEF ListTables, ReadingInv, ReadingTyped, IntrospectionTypeOK, Paired
<1>3. /\ schema \in Seq(Atoms) /\ targets' \in Seq(Seq(Atoms))
      /\ Range(targets) = {schema} \cup Range(targets')
      /\ schema \notin Range(targets') /\ IsInjective(targets')
    BY <1>1, HeadAndTail DEF Listing
<1>4. /\ found \in Seq(Seq(Atoms) \X Seq(Atoms)) /\ IsInjective(found)
      /\ \A p \in Range(found) : p[1] = schema /\ p[2] \in Range(TablesIn(schema))
      /\ \A x \in Range(TablesIn(schema)) : <<schema, x>> \in Range(found)
    BY <1>1, <1>3, FoundType
<1>. HIDE DEF schema, found
<1>5. \A x : SchemaMeant(x)' = SchemaMeant(x)
    BY <1>1 DEF SchemaMeant
<1>6. schema \in Range(targets) /\ (schema = NoName \/ SchemaMeant(schema) = schema)
    BY <1>1, <1>3, Meant
<1>7. Cataloged' /\ Accounted' /\ Linked'
    BY <1>1, NothingYet
<1>8. CASE inventory' = inventory /\ unlisted' = TRUE
    <2>1. Range(inventory') = Range(inventory) /\ Asked' \subseteq Asked
        BY <1>3, <1>8 DEF Asked
    <2>2. /\ Asked' = {NoName} \/ NoName \notin Asked'
          /\ Engine'.parts < 2 => Asked' \subseteq {NoName}
        BY <1>1, <2>1 DEF Listing, Engine
    <2>3. Listing'
        BY <1>1, <1>3, <1>5, <1>8, <2>2 DEF Listing
    <2>4. ReadingTyped' /\ Waiting' /\ Complete'
        BY <1>1, <1>2, <1>3, <1>8 DEF ReadingInv, ReadingTyped, IntrospectionTypeOK, Waiting, Complete
    <2>. QED
        BY <1>7, <2>3, <2>4 DEF ReadingInv
<1>9. CASE inventory' = inventory \o found /\ unlisted' = unlisted
    <2>1. Range(inventory) \cap Range(found) = {}
        BY <1>1, <1>4, <1>6 DEF Listing
    <2>2. /\ inventory' \in Seq(Seq(Atoms) \X Seq(Atoms)) /\ Range(inventory') = Range(inventory) \cup Range(found)
          /\ IsInjective(inventory')
        BY <1>1, <1>4, <1>9, <2>1, Concatenated DEF Listing
    <2>3. \A p \in Range(found) : SchemaMeant(schema) \in DOMAIN source.tables
        BY <1>1, <1>3, <1>4, ListedType
    <2>4. \A p \in Range(found) : /\ p[1] \in DOMAIN source.tables \cup {NoName}
                                  /\ SchemaMeant(p[1]) \in source.scope
                                  /\ p[2] \in Range(source.tables[SchemaMeant(p[1])])
        BY <1>1, <1>3, <1>4, <1>6, <2>3, ListedType DEF Listing
    <2>5. Asked' \subseteq Asked
        BY <1>3, <1>4, <2>2 DEF Asked
    <2>6. /\ Asked' = {NoName} \/ NoName \notin Asked'
          /\ Engine'.parts < 2 => Asked' \subseteq {NoName}
        BY <1>1, <2>5 DEF Listing, Engine
    <2>7. \A p \in Range(inventory') : p[1] \notin Range(targets')
        BY <1>1, <1>3, <1>4, <2>2 DEF Listing
    <2>8. Listing'
        BY <1>1, <1>3, <1>5, <2>2, <2>4, <2>6, <2>7 DEF Listing
    <2>9. ReadingTyped'
        <3>1. index' \in 1 .. Len(inventory') + 1
            BY <1>1, <2>2
        <3>. QED
            BY <1>1, <1>2, <1>3, <1>9, <2>2, <3>1 DEF ReadingInv, ReadingTyped, IntrospectionTypeOK
    <2>10. Waiting'
        BY <1>1 DEF Waiting
    <2>11. ASSUME ~ unlisted, NEW s \in source.scope
           PROVE  \/ \E x \in Range(targets') : SchemaMeant(x) = s
                  \/ \A table \in Range(source.tables[s]) :
                        \E p \in Range(inventory') : SchemaMeant(p[1]) = s /\ p[2] = table
        <3>1. CASE SchemaMeant(schema) = s
            <4>1. s \in DOMAIN source.tables
                BY <1>1, SourceType
            <4>2. TablesIn(schema) = source.tables[s]
                BY <1>1, <1>3, <3>1, <4>1, ListedType
            <4>3. \A table \in Range(source.tables[s]) : <<schema, table>> \in Range(inventory')
                BY <1>4, <2>2, <4>2
            <4>. QED
                BY <3>1, <4>3
        <3>2. CASE SchemaMeant(schema) # s
            BY <1>1, <1>3, <2>2, <2>11, <3>2 DEF Complete
        <3>. QED
            BY <3>1, <3>2
    <2>12. Complete'
        BY <1>1, <1>5, <1>9, <2>11 DEF Complete
    <2>. QED
        BY <1>7, <2>8, <2>9, <2>10, <2>12 DEF ReadingInv
<1>. QED
    BY <1>2, <1>8, <1>9

(* All schemas were tried: the tables are attempted next. *)
LEMMA AllListedSafe == ASSUME ReadingInv, AllListed PROVE ReadingInv'
<1>1. /\ stage = "list" /\ stage' = "reflect" /\ targets = <<>>
      /\ UNCHANGED <<source, catalogCap, targets, inventory, index, tables, relationships,
                     skipped, unlisted, linked, failures>>
      /\ DOMAIN tables = {} /\ relationships = {} /\ skipped = {} /\ linked = {} /\ index = 1
    BY DEF AllListed, ReadingInv, Waiting
<1>2. inventory \in Seq(Seq(Atoms) \X Seq(Atoms)) /\ catalogCap \in Int
    BY CatalogCapsAssumption DEF ReadingInv, ReadingTyped, IntrospectionTypeOK
<1>3. index <= Len(Attempted) + 1
    <2>1. Len(Attempted) \in Nat
        BY <1>2, AttemptedType
    <2>. QED
        BY <1>1, <2>1
<1>4. Listing' /\ Attempted' = Attempted /\ \A schema : SchemaMeant(schema)' = SchemaMeant(schema)
    BY <1>1, SameListing DEF ReadingInv
<1>5. ReadingTyped'
    BY <1>1, <1>3, <1>4 DEF ReadingInv, ReadingTyped, IntrospectionTypeOK
<1>6. Waiting'
    BY <1>1 DEF Waiting
<1>7. Complete'
    BY <1>1, <1>4 DEF Complete, ReadingInv
<1>8. Cataloged' /\ Accounted' /\ Linked'
    BY <1>1, NothingYet
<1>. QED
    BY <1>4, <1>5, <1>6, <1>7, <1>8 DEF ReadingInv

(* While tables are read, what was listed stays as it is. *)
LEMMA StillListed ==
    ASSUME ReadingInv, stage \in {"reflect", "link"}, stage' \in {"reflect", "link", "read"},
           UNCHANGED <<source, catalogCap, targets, inventory, unlisted>>
    PROVE  Waiting' /\ Listing' /\ Complete'
<1>1. Listing' /\ \A schema : SchemaMeant(schema)' = SchemaMeant(schema)
    BY SameListing DEF ReadingInv
<1>2. Waiting'
    BY DEF Waiting, ReadingInv
<1>3. Complete'
    BY <1>1 DEF Complete, ReadingInv
<1>. QED
    BY <1>1, <1>2, <1>3

(* A table that is skipped is none of those read before. *)
LEMMA SkipTableSafe ==
    ASSUME ReadingInv, stage \in {"reflect", "link"}, index <= Len(Attempted), SkipTable(KeyAt(index)),
           UNCHANGED <<source, catalogCap, targets, inventory, tables, relationships, unlisted, linked>>
    PROVE  ReadingInv'
<1>1. /\ skipped' = skipped \cup {KeyAt(index)} /\ index' = index + 1 /\ stage' = "reflect"
      /\ failures' \in 0 .. MaxFailures
    BY FailsType DEF SkipTable, ReadingInv, ReadingTyped, IntrospectionTypeOK
<1>2. /\ index \in DOMAIN inventory /\ KeyAt(index) \in Seq(Atoms)
      /\ index + 1 \in 1 .. Len(inventory) + 1 /\ index + 1 <= Len(Attempted) + 1
      /\ \A j \in 1 .. index : j \in DOMAIN inventory
      /\ \A j \in 1 .. (index + 1) - 1 : j = index \/ j \in 1 .. index - 1
      /\ index \notin 1 .. index - 1 /\ index \in 1 .. (index + 1) - 1
      /\ \A j \in 1 .. index - 1 : j \in 1 .. (index + 1) - 1
    BY AtIndex DEF ReadingInv
<1>3. \A j \in 1 .. index - 1 : j \in DOMAIN inventory /\ j # index
    <2>1. index \in Int
        BY <1>2
    <2>. QED
        BY <1>2, <2>1
<1>4. \A j \in 1 .. index - 1 : KeyAt(j) # KeyAt(index) /\ TableAt(j) # TableAt(index)
    BY <1>2, <1>3, ListedOnce DEF ReadingInv, ReadingTyped, IntrospectionTypeOK
<1>5. /\ \A i : TableAt(i)' = TableAt(i) /\ KeyAt(i)' = KeyAt(i)
      /\ \A schema, table : LinksOf(schema, table)' = LinksOf(schema, table)
      /\ Attempted' = Attempted
    BY SameListing
<1>6. Waiting' /\ Listing' /\ Complete'
    BY <1>1, StillListed
<1>7. ReadingTyped'
    BY <1>1, <1>2, <1>5 DEF ReadingInv, ReadingTyped, IntrospectionTypeOK
<1>8. Cataloged'
    <2>1. \A key \in DOMAIN tables :
             \E j \in DOMAIN inventory : key = KeyAt(j) /\ tables[key] = Entry(inventory[j][1], inventory[j][2])
        BY DEF ReadingInv, Cataloged
    <2>2. tables' = tables /\ inventory' = inventory
        OBVIOUS
    <2>. QED
        BY <1>1, <1>5, <2>1, <2>2 DEF Cataloged, Entry
<1>9. Accounted'
    <2>1. \A key \in skipped' : \E j \in 1 .. (index + 1) - 1 : key = KeyAt(j)
        BY <1>1, <1>2 DEF ReadingInv, Accounted
    <2>2. \A table \in linked : \E j \in 1 .. (index + 1) - 1 : table = TableAt(j)
        BY <1>2 DEF ReadingInv, Accounted
    <2>3. TableAt(index) \notin linked
        BY <1>4 DEF ReadingInv, Accounted
    <2>4. ASSUME NEW j \in 1 .. (index + 1) - 1
          PROVE  IF KeyAt(j) \in skipped' THEN TableAt(j) \notin linked
                                          ELSE TableAt(j) \in linked /\ KeyAt(j) \in DOMAIN tables
        <3>1. CASE j = index
            BY <1>1, <2>3, <3>1
        <3>2. CASE j \in 1 .. index - 1
            BY <1>1, <1>4, <3>2 DEF ReadingInv, Accounted
        <3>. QED
            BY <1>2, <3>1, <3>2
    <2>. QED
        BY <1>1, <1>5, <2>1, <2>2, <2>4 DEF Accounted
<1>10. Linked'
    <2>1. Linked
        BY DEF ReadingInv
    <2>. QED
        BY <1>5, <2>1 DEF Linked
<1>. QED
    BY <1>6, <1>7, <1>8, <1>9, <1>10 DEF ReadingInv

(* A table is read: its entry joins the catalog. *)
LEMMA ReflectTableSafe == ASSUME ReadingInv, ReflectTable PROVE ReadingInv'
<1>1. /\ stage = "reflect" /\ index <= Len(Attempted)
      /\ UNCHANGED <<source, catalogCap, targets, inventory, relationships, unlisted, linked>>
    BY DEF ReflectTable
<1>2. /\ index \in DOMAIN inventory /\ Attempted[index] = inventory[index]
      /\ inventory[index][1] \in Seq(Atoms) /\ inventory[index][2] \in Seq(Atoms)
      /\ KeyAt(index) \in Seq(Atoms)
    BY <1>1, AtIndex DEF ReadingInv
<1>. DEFINE key == KeyAt(index)
            entry == Entry(inventory[index][1], inventory[index][2])
<1>3. \/ /\ tables' = [k \in DOMAIN tables \cup {key} |-> IF k = key THEN entry ELSE tables[k]]
         /\ stage' = "link"
         /\ UNCHANGED <<index, skipped, failures>>
      \/ SkipTable(key) /\ UNCHANGED tables
    BY <1>2 DEF ReflectTable, KeyAt
<1>4. CASE SkipTable(key) /\ UNCHANGED tables
    BY <1>1, <1>4, SkipTableSafe
<1>5. CASE /\ tables' = [k \in DOMAIN tables \cup {key} |-> IF k = key THEN entry ELSE tables[k]]
           /\ stage' = "link"
           /\ UNCHANGED <<index, skipped, failures>>
    <2>1. entry \in [schema : Seq(Atoms), table : Seq(Atoms)]
        BY <1>2 DEF Entry
    <2>2. key \in Seq(Atoms)
        BY <1>2
    <2>. HIDE DEF key
    <2>3. /\ DOMAIN tables' = DOMAIN tables \cup {key} /\ tables'[key] = entry
          /\ \A k \in DOMAIN tables : k # key => tables'[k] = tables[k]
        BY <1>5
    <2>. HIDE DEF entry
    <2>4. /\ \A i : TableAt(i)' = TableAt(i) /\ KeyAt(i)' = KeyAt(i)
          /\ \A schema, table : LinksOf(schema, table)' = LinksOf(schema, table)
          /\ Attempted' = Attempted
        BY <1>1, SameListing
    <2>5. Waiting' /\ Listing' /\ Complete'
        BY <1>1, <1>5, StillListed
    <2>6. ReadingTyped'
        <3>1. IsFiniteSet(DOMAIN tables')
            BY <2>3, FS_AddElement DEF ReadingInv, ReadingTyped
        <3>2. /\ DOMAIN tables' \subseteq Seq(Atoms)
              /\ \A k \in DOMAIN tables' : tables'[k] \in [schema : Seq(Atoms), table : Seq(Atoms)]
            BY <2>1, <2>2, <2>3 DEF ReadingInv, ReadingTyped, IntrospectionTypeOK
        <3>3. index' = index /\ index' <= Len(Attempted') /\ index' <= Len(Attempted') + 1
            <4>1. index <= Len(Attempted) + 1
                BY <1>1 DEF ReadingInv, ReadingTyped
            <4>. QED
                BY <1>1, <1>5, <2>4, <4>1
        <3>. QED
            BY <1>1, <1>5, <3>1, <3>2, <3>3 DEF ReadingInv, ReadingTyped, IntrospectionTypeOK
    <2>7. Cataloged'
        <3>1. ASSUME NEW k \in DOMAIN tables'
              PROVE  \E j \in DOMAIN inventory : k = KeyAt(j) /\ tables'[k] = Entry(inventory[j][1], inventory[j][2])
            <4>1. CASE k = key
                BY <1>2, <2>3, <4>1 DEF key, entry
            <4>2. CASE k # key
                BY <2>3, <4>2 DEF ReadingInv, Cataloged
            <4>. QED
                BY <4>1, <4>2
        <3>2. KeyAt(index) \in DOMAIN tables'
            BY <2>3 DEF key
        <3>3. index' = index /\ inventory' = inventory
            BY <1>1, <1>5
        <3>. QED
            BY <2>4, <3>1, <3>2, <3>3 DEF Cataloged, Entry
    <2>8. Accounted'
        <3>1. /\ index' = index /\ skipped' = skipped /\ linked' = linked
              /\ \A k \in DOMAIN tables : k \in DOMAIN tables'
              /\ Accounted
            BY <1>1, <1>5, <2>3 DEF ReadingInv
        <3>. QED
            BY <2>4, <3>1 DEF Accounted
    <2>9. Linked'
        BY <1>1, <2>4 DEF Linked, ReadingInv
    <2>. QED
        BY <2>5, <2>6, <2>7, <2>8, <2>9 DEF ReadingInv
<1>. QED
    BY <1>3, <1>4, <1>5

(* Relationships join names. *)
LEMMA LinksType ==
    ASSUME source \in Sources, NEW schema \in Seq(Atoms), NEW table \in Seq(Atoms)
    PROVE  LinksOf(schema, table) \subseteq Seq(Atoms) \X Seq(Atoms)
<1>1. ASSUME NEW k \in KeysFrom(schema, table)
      PROVE  /\ Qualify(schema, table) \in Seq(Atoms)
             /\ Qualify(IF ReportedSchema(k) # NoName THEN ReportedSchema(k) ELSE schema, k.to[2])
                   \in Seq(Atoms)
    <2>1. k.to \in (DOMAIN source.tables) \X Seq(Atoms)
        BY SourceType DEF KeysFrom
    <2>2. k.to[1] \in Seq(Atoms) /\ k.to[2] \in Seq(Atoms) /\ NoName \in Seq(Atoms)
        BY <2>1, SourceType DEF NoName
    <2>3. (IF ReportedSchema(k) # NoName THEN ReportedSchema(k) ELSE schema) \in Seq(Atoms)
        BY <2>2 DEF ReportedSchema
    <2>. QED
        BY <2>2, <2>3, QualifyType
<1>. QED
    BY <1>1 DEF LinksOf

(* The keys of the table just read are read, or it is skipped after all. *)
LEMMA ReflectKeysSafe == ASSUME ReadingInv, ReflectKeys PROVE ReadingInv'
<1>1. /\ stage = "link" /\ index <= Len(Attempted)
      /\ UNCHANGED <<source, catalogCap, targets, inventory, tables, unlisted>>
    BY DEF ReflectKeys, ReadingInv, ReadingTyped
<1>2. /\ index \in DOMAIN inventory /\ Attempted[index] = inventory[index]
      /\ inventory[index][1] \in Seq(Atoms) /\ inventory[index][2] \in Seq(Atoms)
      /\ index + 1 \in 1 .. Len(inventory) + 1 /\ index + 1 <= Len(Attempted) + 1
      /\ \A j \in 1 .. index : j \in DOMAIN inventory
      /\ \A j \in 1 .. (index + 1) - 1 : j = index \/ j \in 1 .. index - 1
      /\ index \notin 1 .. index - 1 /\ index \in 1 .. (index + 1) - 1
      /\ \A j \in 1 .. index - 1 : j \in 1 .. (index + 1) - 1
    BY <1>1, AtIndex DEF ReadingInv
<1>. DEFINE links == LinksOf(inventory[index][1], inventory[index][2])
<1>3. \/ /\ relationships' = relationships \cup links
         /\ linked' = linked \cup {TableAt(index)}
         /\ index' = index + 1
         /\ stage' = "reflect"
         /\ UNCHANGED <<skipped, failures>>
      \/ SkipTable(KeyAt(index)) /\ UNCHANGED <<relationships, linked>>
    BY <1>2 DEF ReflectKeys, KeyAt, TableAt
<1>4. CASE SkipTable(KeyAt(index)) /\ UNCHANGED <<relationships, linked>>
    BY <1>1, <1>4, SkipTableSafe
<1>5. CASE /\ relationships' = relationships \cup links
           /\ linked' = linked \cup {TableAt(index)}
           /\ index' = index + 1
           /\ stage' = "reflect"
           /\ UNCHANGED <<skipped, failures>>
    <2>1. links \subseteq Seq(Atoms) \X Seq(Atoms)
        BY <1>2, LinksType DEF ReadingInv, ReadingTyped, IntrospectionTypeOK
    <2>. HIDE DEF links
    <2>2. /\ \A i : TableAt(i)' = TableAt(i) /\ KeyAt(i)' = KeyAt(i)
          /\ \A schema, table : LinksOf(schema, table)' = LinksOf(schema, table)
          /\ Attempted' = Attempted
        BY <1>1, SameListing
    <2>3. \A j \in 1 .. index - 1 : j \in DOMAIN inventory /\ j # index
        <3>1. index \in Int
            BY <1>2
        <3>. QED
            BY <1>2, <3>1
    <2>4. ASSUME NEW i \in DOMAIN inventory, i # index
          PROVE  KeyAt(i) # KeyAt(index) /\ TableAt(i) # TableAt(index)
        BY <1>2, <2>4, ListedOnce DEF ReadingInv, ReadingTyped, IntrospectionTypeOK
    <2>5. Waiting' /\ Listing' /\ Complete'
        BY <1>1, <1>5, StillListed
    <2>6. ReadingTyped'
        <3>1. TableAt(index) \in Seq(Atoms) \X Seq(Atoms)
            BY <1>2, Meant DEF TableAt, ReadingInv, ReadingTyped, IntrospectionTypeOK
        <3>2. /\ linked' \subseteq Seq(Atoms) \X Seq(Atoms)
              /\ relationships' \subseteq Seq(Atoms) \X Seq(Atoms)
            BY <1>5, <2>1, <3>1 DEF ReadingInv, ReadingTyped, IntrospectionTypeOK
        <3>. QED
            BY <1>1, <1>2, <1>5, <2>2, <3>2 DEF ReadingInv, ReadingTyped, IntrospectionTypeOK
    <2>7. Cataloged'
        BY <1>1, <1>5, <2>2 DEF ReadingInv, Cataloged, Entry
    <2>8. Accounted'
        <3>1. \A key \in skipped : \E j \in 1 .. (index + 1) - 1 : key = KeyAt(j)
            BY <1>2 DEF ReadingInv, Accounted
        <3>2. \A table \in linked' : \E j \in 1 .. (index + 1) - 1 : table = TableAt(j)
            BY <1>2, <1>5 DEF ReadingInv, Accounted
        <3>3. KeyAt(index) \notin skipped
            BY <2>3, <2>4 DEF ReadingInv, Accounted
        <3>4. KeyAt(index) \in DOMAIN tables
            BY <1>1 DEF ReadingInv, Cataloged
        <3>5. ASSUME NEW j \in 1 .. (index + 1) - 1
              PROVE  IF KeyAt(j) \in skipped THEN TableAt(j) \notin linked'
                                             ELSE TableAt(j) \in linked' /\ KeyAt(j) \in DOMAIN tables
            <4>1. CASE j = index
                BY <1>5, <3>3, <3>4, <4>1
            <4>2. CASE j \in 1 .. index - 1
                <5>1. TableAt(j) # TableAt(index)
                    BY <2>3, <2>4, <4>2
                <5>. QED
                    BY <1>5, <4>2, <5>1 DEF ReadingInv, Accounted
            <4>. QED
                BY <1>2, <4>1, <4>2
        <3>. QED
            BY <1>1, <1>5, <2>2, <3>1, <3>2, <3>5 DEF Accounted
    <2>9. Linked'
        <3>1. ASSUME NEW r \in relationships'
              PROVE  \E j \in DOMAIN inventory :
                        TableAt(j) \in linked' /\ r \in LinksOf(inventory[j][1], inventory[j][2])
            <4>1. CASE r \in links
                BY <1>2, <1>5, <4>1 DEF links
            <4>2. CASE r \in relationships
                BY <1>5, <4>2 DEF ReadingInv, Linked
            <4>. QED
                BY <1>5, <4>1, <4>2
        <3>2. ASSUME NEW j \in DOMAIN inventory, TableAt(j) \in linked'
              PROVE  LinksOf(inventory[j][1], inventory[j][2]) \subseteq relationships'
            <4>1. CASE j = index
                BY <1>5, <4>1 DEF links
            <4>2. CASE j # index
                <5>1. TableAt(j) \in linked
                    BY <1>5, <2>4, <3>2, <4>2
                <5>. QED
                    BY <1>5, <5>1 DEF ReadingInv, Linked
            <4>. QED
                BY <4>1, <4>2
        <3>3. inventory' = inventory
            BY <1>1
        <3>. QED
            BY <2>2, <3>1, <3>2, <3>3 DEF Linked
    <2>. QED
        BY <2>5, <2>6, <2>7, <2>8, <2>9 DEF ReadingInv
<1>. QED
    BY <1>3, <1>4, <1>5

(* The tables are through. *)
LEMMA AllReadSafe == ASSUME ReadingInv, AllRead PROVE ReadingInv'
<1>1. /\ stage = "reflect" /\ stage' = "read"
      /\ UNCHANGED <<source, catalogCap, targets, inventory, index, tables, relationships,
                     skipped, unlisted, linked, failures>>
    BY DEF AllRead
<1>2. /\ \A i : TableAt(i)' = TableAt(i) /\ KeyAt(i)' = KeyAt(i)
      /\ \A schema, table : LinksOf(schema, table)' = LinksOf(schema, table)
      /\ Attempted' = Attempted
    BY <1>1, SameListing
<1>3. Waiting' /\ Listing' /\ Complete'
    BY <1>1, StillListed
<1>4. ReadingTyped'
    <2>1. index > Len(Attempted) /\ index <= Len(Attempted) + 1
        BY <1>1 DEF AllRead, ReadingInv, ReadingTyped
    <2>2. index \in Int /\ Len(Attempted) \in Int
        BY AttemptedType, CatalogCapsAssumption DEF ReadingInv, ReadingTyped, IntrospectionTypeOK
    <2>3. index = Len(Attempted) + 1
        BY <2>1, <2>2
    <2>. QED
        BY <1>1, <1>2, <2>1, <2>3 DEF ReadingInv, ReadingTyped, IntrospectionTypeOK
<1>5. Cataloged' /\ Accounted' /\ Linked'
    BY <1>1, <1>2 DEF ReadingInv, Cataloged, Accounted, Linked, Entry
<1>. QED
    BY <1>3, <1>4, <1>5 DEF ReadingInv

(* Every step of reading the catalog keeps the invariant, and happens before *)
(* the catalog is read.                                                      *)
LEMMA ReadingSafe == ASSUME ReadingInv, IntrospectionNext PROVE ReadingInv' /\ ~ IsRead
<1>1. ~ IsRead
    BY DEF IntrospectionNext, Connect, ResolveSchemas, ListTables, AllListed, ReflectTable, ReflectKeys, AllRead, IsRead
<1>. QED
    BY <1>1, ConnectSafe, ResolveSchemasSafe, ListTablesSafe, AllListedSafe, ReflectTableSafe, ReflectKeysSafe,
       AllReadSafe DEF IntrospectionNext

(* What does not touch the reading leaves it as it is. *)
LEMMA ReadingStutter == ASSUME ReadingInv, UNCHANGED reading PROVE ReadingInv' /\ (IsRead' <=> IsRead)
<1>1. /\ \A i : TableAt(i)' = TableAt(i) /\ KeyAt(i)' = KeyAt(i)
      /\ \A schema : SchemaMeant(schema)' = SchemaMeant(schema)
      /\ \A schema, table : LinksOf(schema, table)' = LinksOf(schema, table)
      /\ Attempted' = Attempted /\ Listing'
    BY SameListing DEF reading, ReadingInv
<1>2. ReadingTyped' /\ Waiting' /\ Complete'
    BY <1>1 DEF reading, ReadingInv, ReadingTyped, IntrospectionTypeOK, Waiting, Complete
<1>3. Cataloged' /\ Accounted' /\ Linked'
    BY <1>1 DEF reading, ReadingInv, Cataloged, Accounted, Linked, Entry
<1>. QED
    BY <1>1, <1>2, <1>3 DEF ReadingInv, reading, IsRead

(* At the start nothing is listed. *)
LEMMA ReadingStart == ASSUME IntrospectionInit PROVE ReadingInv
<1>1. /\ stage = "connect" /\ inventory = <<>> /\ targets = <<>> /\ ~ unlisted /\ index = 1
      /\ tables = <<>> /\ DOMAIN tables = {} /\ relationships = {} /\ skipped = {} /\ linked = {}
      /\ DOMAIN inventory = {} /\ DOMAIN targets = {} /\ Len(inventory) = 0
    BY DEF IntrospectionInit
<1>2. Range(inventory) = {} /\ Range(targets) = {} /\ Asked = {}
    BY <1>1 DEF Range, Asked
<1>3. IsFiniteSet(DOMAIN tables)
    BY <1>1, FS_EmptySet
<1>4. ReadingTyped
    <2>1. /\ targets \in Seq(Seq(Atoms)) /\ inventory \in Seq(Seq(Atoms) \X Seq(Atoms))
          /\ index \in 1 .. Len(inventory) + 1 /\ failures \in 0 .. MaxFailures
        BY <1>1, MaxFailuresAssumption DEF IntrospectionInit
    <2>2. /\ source \in Sources /\ catalogCap \in CatalogCaps
          /\ stage \in {"connect", "resolve", "list", "reflect", "link", "read", "raised"}
          /\ unlisted \in BOOLEAN /\ linked \subseteq Seq(Atoms) \X Seq(Atoms) /\ skipped \subseteq Seq(Atoms)
          /\ relationships \subseteq Seq(Atoms) \X Seq(Atoms)
          /\ DOMAIN tables \subseteq Seq(Atoms)
        BY <1>1 DEF IntrospectionInit
    <2>3. stage \notin {"reflect", "link", "read"}
        BY <1>1
    <2>4. IntrospectionTypeOK
        BY <1>1, <2>1, <2>2 DEF IntrospectionTypeOK
    <2>. QED
        BY <1>3, <2>3, <2>4 DEF ReadingTyped
<1>5. Waiting /\ Complete /\ Cataloged /\ Linked
    BY <1>1 DEF Waiting, Complete, Cataloged, Linked
<1>6. Listing
    BY <1>1, <1>2 DEF Listing, IsInjective
<1>7. Accounted
    <2>1. \A j \in 1 .. index - 1 : FALSE
        BY <1>1
    <2>. QED
        BY <1>1, <2>1 DEF Accounted
<1>. QED
    BY <1>4, <1>5, <1>6, <1>7 DEF ReadingInv

-----------------------------------------------------------------------------
(* What the invariant says of a catalog. *)

(* An entry of the catalog is one of the tables listed. *)
LEMMA EntryListed ==
    ASSUME ReadingInv, NEW key \in DOMAIN tables
    PROVE  \E i \in DOMAIN inventory :
              /\ key = KeyAt(i) /\ key = Qualify(inventory[i][1], inventory[i][2])
              /\ tables[key].schema = inventory[i][1] /\ tables[key].table = inventory[i][2]
              /\ TableOf(tables[key]) = TableAt(i)
<1>1. PICK i \in DOMAIN inventory : key = KeyAt(i) /\ tables[key] = Entry(inventory[i][1], inventory[i][2])
    BY DEF ReadingInv, Cataloged
<1>2. tables[key].schema = inventory[i][1] /\ tables[key].table = inventory[i][2]
    BY <1>1 DEF Entry
<1>. QED
    BY <1>1, <1>2 DEF TableOf, TableAt, KeyAt

(* Keys are names of something. *)
LEMMA KeysAreOfNames == ASSUME ReadingInv PROVE DOMAIN tables \subseteq Seq(Atoms) \ {NoName}
<1>1. source \in Sources /\ inventory \in Seq(Seq(Atoms) \X Seq(Atoms)) /\ Listing
    BY DEF ReadingInv, ReadingTyped, IntrospectionTypeOK
<1>2. ASSUME NEW key \in DOMAIN tables PROVE key \in Seq(Atoms) \ {NoName}
    <2>1. PICK i \in DOMAIN inventory : key = Qualify(inventory[i][1], inventory[i][2])
        BY EntryListed
    <2>2. inventory[i] \in Seq(Atoms) \X Seq(Atoms) /\ inventory[i][2] # NoName
        BY <1>1, ListedIsKnown
    <2>3. inventory[i][1] \in Seq(Atoms) /\ inventory[i][2] \in Seq(Atoms)
        BY <2>2
    <2>. QED
        BY <1>1, <2>1, <2>2, <2>3, QualifyType
<1>. QED
    BY <1>2

(* What is listed is in the namespace, so what is read is (db.py:282-290). *)
LEMMA ReadingInNamespace == ASSUME ReadingInv PROVE CatalogIsOfTheNamespace
<1>1. source \in Sources /\ inventory \in Seq(Seq(Atoms) \X Seq(Atoms)) /\ Listing
    BY DEF ReadingInv, ReadingTyped, IntrospectionTypeOK
<1>2. ASSUME NEW key \in DOMAIN tables PROVE TableOf(tables[key])[1] \in source.scope
    <2>1. PICK i \in DOMAIN inventory : TableOf(tables[key]) = TableAt(i)
        BY EntryListed
    <2>2. inventory[i] \in Range(inventory)
        BY <1>1, ListedIsKnown
    <2>. QED
        BY <1>1, <2>1, <2>2 DEF Listing, TableAt
<1>. QED
    BY <1>2 DEF CatalogIsOfTheNamespace

(* Whatever was listed came to something (db.py:386-434). *)
LEMMA ReadingAccounts == ASSUME ReadingInv PROVE EveryTableIsAccountedFor
<1>. SUFFICES ASSUME IsRead PROVE EveryTableIsAccountedFor
    BY DEF EveryTableIsAccountedFor
<1>1. /\ source \in Sources /\ inventory \in Seq(Seq(Atoms) \X Seq(Atoms)) /\ Listing
      /\ catalogCap \in Int /\ targets = <<>> /\ index = Len(Attempted) + 1
    BY CatalogCapsAssumption DEF ReadingInv, ReadingTyped, IntrospectionTypeOK, Waiting, IsRead
<1>2. /\ Attempted \in Seq(Seq(Atoms) \X Seq(Atoms)) /\ Len(Attempted) \in Nat
      /\ \A i \in 1 .. Len(Attempted) : Attempted[i] = inventory[i] /\ i \in DOMAIN inventory
      /\ ~ Truncated => Attempted = inventory
    BY <1>1, AttemptedType
<1>3. \A i \in DOMAIN Attempted : /\ i \in DOMAIN inventory /\ Attempted[i] = inventory[i]
                                  /\ i \in 1 .. index - 1
    BY <1>1, <1>2
<1>4. ASSUME NEW i \in DOMAIN Attempted, KeyAt(i) \in DOMAIN tables
      PROVE  TableOf(tables[KeyAt(i)]) = TableAt(i)
    <2>1. PICK j \in DOMAIN inventory : KeyAt(i) = KeyAt(j) /\ TableOf(tables[KeyAt(i)]) = TableAt(j)
        BY <1>4, EntryListed
    <2>2. i = j
        BY <1>1, <1>3, <2>1, ListedOnce
    <2>. QED
        BY <2>1, <2>2
<1>5. \A i \in DOMAIN Attempted :
         IF KeyAt(i) \in skipped
            THEN TableAt(i) \notin linked
            ELSE TableAt(i) \in linked /\ KeyAt(i) \in DOMAIN tables /\ TableOf(tables[KeyAt(i)]) = TableAt(i)
    BY <1>3, <1>4 DEF ReadingInv, Accounted
<1>6. \A i \in DOMAIN Attempted :
         LET key == Qualify(Attempted[i][1], Attempted[i][2])
             table == <<SchemaMeant(Attempted[i][1]), Attempted[i][2]>>
         IN IF key \in skipped
               THEN table \notin linked
               ELSE table \in linked /\ key \in DOMAIN tables /\ TableOf(tables[key]) = table
    BY <1>3, <1>5 DEF KeyAt, TableAt
<1>7. ASSUME ~ Truncated, ~ unlisted, NEW schema \in source.scope, NEW n \in DOMAIN source.tables[schema]
      PROVE  \E i \in DOMAIN Attempted :
                SchemaMeant(Attempted[i][1]) = schema /\ Attempted[i][2] = source.tables[schema][n]
    <2>1. source.tables[schema][n] \in Range(source.tables[schema])
        BY DEF Range
    <2>2. Range(targets) = {}
        BY <1>1, OneTarget DEF Range
    <2>3. PICK p \in Range(inventory) : SchemaMeant(p[1]) = schema /\ p[2] = source.tables[schema][n]
        BY <1>7, <2>1, <2>2 DEF ReadingInv, Complete, IsRead
    <2>4. PICK i \in DOMAIN inventory : p = inventory[i]
        BY DEF Range
    <2>. QED
        BY <1>2, <1>7, <2>3, <2>4
<1>. QED
    BY <1>6, <1>7 DEF EveryTableIsAccountedFor

(* So a catalog that is empty without a flag is of a database without tables *)
(* (db.py:436).                                                              *)
LEMMA ReadingEmpty == ASSUME ReadingInv PROVE EmptyMeansEmpty
<1>. SUFFICES ASSUME IsRead, DOMAIN tables = {}, ~ ReflectionFailed, ~ Truncated, ~ unlisted,
                     NEW schema \in source.scope
              PROVE  source.tables[schema] = <<>>
    BY DEF EmptyMeansEmpty
<1>1. Attempted = <<>>
    BY DEF ReflectionFailed
<1>2. DOMAIN Attempted = {}
    BY <1>1
<1>3. DOMAIN source.tables[schema] = {}
    BY <1>2, ReadingAccounts DEF EveryTableIsAccountedFor
<1>4. source.tables[schema] \in Seq(Seq(Atoms) \ {NoName})
    BY SourceType DEF ReadingInv, ReadingTyped, IntrospectionTypeOK
<1>5. source.tables[schema] # <<>> => 1 \in DOMAIN source.tables[schema]
    BY <1>4
<1>. QED
    BY <1>3, <1>5

(* The schema by which the key that a foreign key refers to is made. *)
Referred(schema, k) == IF ReportedSchema(k) # NoName THEN ReportedSchema(k) ELSE schema

(* It makes a key of the table that the foreign key is filed under. *)
LEMMA ReferredIsMeant ==
    ASSUME source \in Sources, NEW schema \in Seq(Atoms), NEW k \in source.keys,
           k.from[1] = SchemaMeant(schema)
    PROVE  /\ Qualify(Referred(schema, k), k.to[2]) \in KeysMeaning(source, FiledUnder(k))
           /\ FiledUnder(k) \in TablesKnownTo(source)
           /\ FiledUnder(k)[2] = k.to[2]
           /\ Referred(schema, k) = IF FiledUnder(k)[1] = k.from[1] THEN schema ELSE FiledUnder(k)[1]
<1>1. k.to \in (DOMAIN source.tables) \X Seq(Atoms)
    BY SourceType
<1>2. k.to = <<k.to[1], k.to[2]>> /\ k.to[1] \in Seq(Atoms) \ {NoName}
    BY <1>1, SourceType
<1>3. FiledUnder(k) = <<FiledUnder(k)[1], k.to[2]>> /\ FiledUnder(k)[2] = k.to[2]
    BY <1>2 DEF FiledUnder
<1>4. Referred(schema, k) = IF FiledUnder(k)[1] = k.from[1] THEN schema ELSE FiledUnder(k)[1]
    BY <1>2 DEF Referred, ReportedSchema, FiledUnder, LeftOut
<1>5. SchemaMeant(Referred(schema, k)) = FiledUnder(k)[1]
    <2>1. CASE FiledUnder(k)[1] = k.from[1]
        BY <1>4, <2>1
    <2>2. CASE FiledUnder(k)[1] # k.from[1]
        <3>1. FiledUnder(k)[1] = k.to[1]
            BY <2>2 DEF FiledUnder
        <3>. QED
            BY <1>2, <1>4, <2>2, <3>1, Meant
    <2>. QED
        BY <2>1, <2>2
<1>6. Qualify(Referred(schema, k), k.to[2]) \in KeysMeaning(source, FiledUnder(k))
    <2>1. Qualify(Referred(schema, k), k.to[2])
             \in KeysMeaning(source, <<SchemaMeant(Referred(schema, k)), k.to[2]>>)
        BY KeyOfTable
    <2>. QED
        BY <1>3, <1>5, <2>1
<1>7. FiledUnder(k) \in TablesKnownTo(source)
    <2>1. FiledUnder(k) \in TablesReferredTo(source)
        BY DEF TablesReferredTo, FiledUnder
    <2>. QED
        BY <2>1 DEF TablesKnownTo
<1>. QED
    BY <1>3, <1>4, <1>6, <1>7

(* Links between tables of the catalog are foreign keys as filed, and the    *)
(* foreign keys that could be read are links (db.py:421-428).                *)
LEMMA ReadingLinks == ASSUME ReadingInv PROVE LinksAreKeysAsFiled
<1>1. source \in Sources /\ inventory \in Seq(Seq(Atoms) \X Seq(Atoms)) /\ Listing
    BY DEF ReadingInv, ReadingTyped, IntrospectionTypeOK
<1>2. ASSUME NEW i \in DOMAIN inventory
      PROVE  /\ inventory[i][1] \in Seq(Atoms) /\ inventory[i][1] \in Asked
             /\ TableAt(i) \in TablesKnownTo(source) /\ KeyAt(i) \in KeysMeaning(source, TableAt(i))
             /\ TableAt(i)[1] = SchemaMeant(inventory[i][1]) /\ TableAt(i)[2] = inventory[i][2]
    <2>1. /\ inventory[i] \in Seq(Atoms) \X Seq(Atoms) /\ inventory[i] \in Range(inventory)
          /\ TableAt(i) \in TablesKnownTo(source) /\ KeyAt(i) \in KeysMeaning(source, TableAt(i))
        BY <1>1, ListedIsKnown
    <2>2. inventory[i][1] \in Seq(Atoms) /\ inventory[i][1] \in Asked
        BY <2>1 DEF Asked
    <2>. QED
        BY <2>1, <2>2 DEF TableAt
<1>3. ASSUME NEW r \in relationships, r[1] \in DOMAIN tables, r[2] \in DOMAIN tables
      PROVE  /\ r \in (DOMAIN tables) \X (DOMAIN tables)
             /\ TableOf(tables[r[1]]) \in linked
             /\ \E k \in source.keys : IsKeyFrom(k, r) /\ FiledUnder(k) = TableOf(tables[r[2]])
    <2>1. PICK i \in DOMAIN inventory : TableAt(i) \in linked /\ r \in LinksOf(inventory[i][1], inventory[i][2])
        BY DEF ReadingInv, Linked
    <2>2. PICK k \in KeysFrom(inventory[i][1], inventory[i][2]) :
             r = <<KeyAt(i), Qualify(Referred(inventory[i][1], k), k.to[2])>>
        BY <2>1 DEF LinksOf, KeyAt, Referred
    <2>3. k \in source.keys /\ k.from = TableAt(i)
        BY DEF KeysFrom, TableAt
    <2>4. PICK j \in DOMAIN inventory : r[1] = KeyAt(j) /\ TableOf(tables[r[1]]) = TableAt(j)
        BY <1>3, EntryListed
    <2>5. PICK m \in DOMAIN inventory : r[2] = KeyAt(m) /\ TableOf(tables[r[2]]) = TableAt(m)
        BY <1>3, EntryListed
    <2>6. r[1] = KeyAt(i) /\ r[2] = Qualify(Referred(inventory[i][1], k), k.to[2])
        BY <2>2
    <2>7. i = j
        BY <1>1, <2>4, <2>6, ListedOnce
    <2>8. r[2] \in KeysMeaning(source, FiledUnder(k)) /\ FiledUnder(k) \in TablesKnownTo(source)
        BY <1>1, <1>2, <2>3, <2>6, ReferredIsMeant
    <2>9. FiledUnder(k) = TableAt(m)
        BY <1>1, <1>2, <2>5, <2>8, KeyOfOneTable
    <2>10. r \in (DOMAIN tables) \X (DOMAIN tables)
        BY <1>3, <2>2
    <2>. QED
        BY <2>1, <2>3, <2>4, <2>5, <2>7, <2>9, <2>10 DEF IsKeyFrom
<1>4. ASSUME NEW r \in (DOMAIN tables) \X (DOMAIN tables), TableOf(tables[r[1]]) \in linked,
             NEW k \in source.keys, IsKeyFrom(k, r), FiledUnder(k) = TableOf(tables[r[2]])
      PROVE  r \in relationships
    <2>1. r[1] \in DOMAIN tables /\ r[2] \in DOMAIN tables /\ r = <<r[1], r[2]>>
        BY <1>4
    <2>2. PICK i \in DOMAIN inventory : r[1] = KeyAt(i) /\ TableOf(tables[r[1]]) = TableAt(i)
        BY <2>1, EntryListed
    <2>3. PICK m \in DOMAIN inventory : r[2] = KeyAt(m) /\ TableOf(tables[r[2]]) = TableAt(m)
        BY <2>1, EntryListed
    <2>4. k.from = TableAt(i) /\ FiledUnder(k) = TableAt(m)
        BY <1>4, <2>2, <2>3 DEF IsKeyFrom
    <2>5. /\ Referred(inventory[i][1], k) =
                IF FiledUnder(k)[1] = k.from[1] THEN inventory[i][1] ELSE FiledUnder(k)[1]
          /\ FiledUnder(k)[2] = k.to[2]
        BY <1>1, <1>2, <2>4, ReferredIsMeant
    <2>6. Referred(inventory[i][1], k) = inventory[m][1]
        <3>1. CASE Asked = {NoName}
            <4>1. inventory[i][1] = NoName /\ inventory[m][1] = NoName
                BY <1>2, <3>1
            <4>2. FiledUnder(k)[1] = k.from[1]
                BY <1>2, <2>4, <4>1
            <4>. QED
                BY <2>5, <4>1, <4>2
        <3>2. CASE NoName \notin Asked
            <4>1. inventory[i][1] # NoName /\ inventory[m][1] # NoName
                BY <1>2, <3>2
            <4>2. SchemaMeant(inventory[i][1]) = inventory[i][1] /\ SchemaMeant(inventory[m][1]) = inventory[m][1]
                BY <1>1, <1>2, <4>1, Meant
            <4>3. k.from[1] = inventory[i][1] /\ FiledUnder(k)[1] = inventory[m][1]
                BY <1>2, <2>4, <4>2
            <4>. QED
                BY <2>5, <4>3
        <3>. QED
            BY <1>1, <3>1, <3>2 DEF Listing
    <2>7. Qualify(Referred(inventory[i][1], k), k.to[2]) = r[2]
        BY <1>2, <2>3, <2>4, <2>5, <2>6 DEF KeyAt
    <2>8. k \in KeysFrom(inventory[i][1], inventory[i][2])
        BY <2>4 DEF KeysFrom, TableAt
    <2>9. <<r[1], r[2]>> \in LinksOf(inventory[i][1], inventory[i][2])
        BY <2>2, <2>7, <2>8 DEF LinksOf, Referred, KeyAt
    <2>10. TableAt(i) \in linked
        BY <1>4, <2>2
    <2>. QED
        BY <2>1, <2>9, <2>10 DEF ReadingInv, Linked
<1>. QED
    BY <1>3, <1>4 DEF LinksAreKeysAsFiled

==============================================================================
