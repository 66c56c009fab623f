----------------------------- MODULE SentryProofs -----------------------------
(***************************************************************************)
(* Proofs about Sentry, for every set of statements.                       *)
(*                                                                         *)
(* A verdict is about a whole tree, and the code looks at one node at a    *)
(* time.  The invariant says what has been looked at: Classified, that     *)
(* there is a set of statements that are classified already, whose blocks  *)
(* lead to statements that are classified or wait for it; Walked, that the *)
(* nodes that walk() has passed would not have stopped it.  When nothing   *)
(* waits, the set holds every statement of the tree (AllAreClassified).    *)
(***************************************************************************)
EXTENDS Sentry, WellFoundedInduction, TLAPS

-----------------------------------------------------------------------------
(* The inductive invariant. *)

Begun == check \in {"classify", "walk"} \/ verdict = "safe"

Typed ==
    /\ tree \in Trees \cup {NoTree}
    /\ check \in {"resolve", "parse", "classify", "walk", "over"}
    /\ verdict \in {"pending", "safe", "refused"}
    /\ verdict # "pending" <=> check = "over"

Resolved ==
    /\ specs # {} => \E s \in EngineSpecs : specs = {s} /\ (engine # "" => s.name = CanonicalName(engine))
    /\ check = "parse" \/ Begun => specs # {}
    /\ Begun => tree \in Trees

Classified ==
    Begun =>
        /\ \A n \in toClassify : n \in Nodes /\ IsStatement(n)
        /\ check # "classify" => toClassify = {}
        /\ \E S \in SUBSET Nodes :
              /\ 1 \in S \cup toClassify
              /\ \A n \in S : IF Kind(n) = "block" THEN Children(n) \subseteq S \cup toClassify
                                                   ELSE Permitted(n)

Passes(n) == ~ Dangerous(n) /\ (n # 1 /\ IsStatementNode(n) => Permitted(n))

Walked ==
    Begun =>
        /\ toWalk \subseteq Nodes
        /\ \A n \in Nodes \ toWalk : Passes(n)
        /\ verdict = "safe" => toWalk = {}

IInv == Typed /\ Resolved /\ Classified /\ Walked /\ NoFalseAlarm

-----------------------------------------------------------------------------
(* What the registry says. *)

(* The six engines have names of their own. *)
LEMMA NamesAreUnique ==
    ASSUME NEW s \in EngineSpecs, NEW t \in EngineSpecs, s.name = t.name
    PROVE  s = t
<1>. USE DEF EngineSpec
<1>1. Postgres.name = "postgres"
    BY DEF Postgres
<1>2. MySql.name = "mysql"
    BY DEF MySql
<1>3. Sqlite.name = "sqlite"
    BY DEF Sqlite
<1>4. DuckDb.name = "duckdb"
    BY DEF DuckDb
<1>5. Trino.name = "trino"
    BY DEF Trino
<1>6. ClickHouse.name = "clickhouse"
    BY DEF ClickHouse
<1>. QED
    BY <1>1, <1>2, <1>3, <1>4, <1>5, <1>6 DEF EngineSpecs

(* So a name stands for one engine at most. *)
LEMMA OneSpec ==
    ASSUME NEW name, SpecsNamed(name) # {}
    PROVE  \E s \in EngineSpecs : SpecsNamed(name) = {s} /\ s.name = CanonicalName(name)
<1>1. PICK s \in EngineSpecs : s.name = CanonicalName(name)
    BY DEF SpecsNamed
<1>2. SpecsNamed(name) = {s}
    BY <1>1, NamesAreUnique DEF SpecsNamed
<1>. QED
    BY <1>1, <1>2

(* The commands and pragmas that an engine declares read-only do only report. *)
LEMMA DeclaredOnlyRead ==
    ASSUME NEW s \in EngineSpecs
    PROVE  s.readonlyCommands \cup s.readonlyPragmas \subseteq ReadingWords
<1>. USE DEF EngineSpec, ReadingWords, ShowCommands
<1>1. CASE s = Postgres
    BY <1>1 DEF Postgres
<1>2. CASE s = MySql
    BY <1>2 DEF MySql
<1>3. CASE s = Sqlite
    BY <1>3 DEF Sqlite
<1>4. CASE s = DuckDb
    BY <1>4 DEF DuckDb
<1>5. CASE s = Trino
    BY <1>5 DEF Trino
<1>6. CASE s = ClickHouse
    BY <1>6 DEF ClickHouse
<1>. QED
    BY <1>1, <1>2, <1>3, <1>4, <1>5, <1>6 DEF EngineSpecs

(* No list of functions holds the empty name. *)
LEMMA NoEmptyName ==
    ASSUME NEW s \in EngineSpecs
    PROVE  "" \notin s.dangerousFunctions \cup GlobalDangerousFunctions
<1>. USE DEF EngineSpec, FilesystemFuncs, PostgresFuncs, GlobalDangerousFunctions
<1>1. CASE s = Postgres
    BY <1>1 DEF Postgres
<1>2. CASE s = MySql
    BY <1>2 DEF MySql
<1>3. CASE s = Sqlite
    BY <1>3 DEF Sqlite
<1>4. CASE s = DuckDb
    BY <1>4 DEF DuckDb
<1>5. CASE s = Trino
    BY <1>5 DEF Trino
<1>6. CASE s = ClickHouse
    BY <1>6 DEF ClickHouse
<1>. QED
    BY <1>1, <1>2, <1>3, <1>4, <1>5, <1>6 DEF EngineSpecs

-----------------------------------------------------------------------------
(* Trees. *)

(* A list that is not empty has a first element. *)
LEMMA Indices ==
    ASSUME NEW S, NEW s \in Seq(S), s # <<>>
    PROVE  DOMAIN s = 1 .. Len(s) /\ Len(s) \in Nat \ {0} /\ \A i \in DOMAIN s : s[i] \in S
OBVIOUS

(* A node has a kind, and the root and its descendants are in order. *)
LEMMA TreeType ==
    ASSUME tree \in Trees
    PROVE  /\ Nodes \subseteq Nat \ {0} /\ 1 \in Nodes
           /\ \A n \in Nodes : Kind(n) \in Kinds /\ tree.parent[n] \in Nat /\ tree.parent[n] < n
           /\ \A n \in Nodes : (Kind(n) = "function" => Name(n) = Word(n))
                            /\ (Kind(n) \notin {"function", "part"} => Name(n) = "")
<1>1. /\ tree.label \in Seq([kind : Kinds, word : STRING, name : STRING]) /\ tree.label # <<>>
      /\ tree.parent \in [Nodes -> 0 .. Len(tree.label)]
      /\ \A n \in Nodes : tree.parent[n] < n
    BY TreesAssumption DEF Nodes
<1>2. Nodes = 1 .. Len(tree.label) /\ Len(tree.label) \in Nat \ {0}
    BY <1>1, Indices DEF Nodes
<1>3. \A n \in Nodes : tree.label[n] \in [kind : Kinds, word : STRING, name : STRING]
    BY <1>1, Indices DEF Nodes
<1>4. Nodes \subseteq Nat \ {0} /\ 1 \in Nodes
    BY <1>2
<1>5. \A n \in Nodes : Kind(n) \in Kinds
    BY <1>3 DEF Kind
<1>6. \A n \in Nodes : (Kind(n) = "function" => Name(n) = Word(n))
                    /\ (Kind(n) \notin {"function", "part"} => Name(n) = "")
    <2>1. \A n \in DOMAIN tree.label :
             /\ tree.label[n].kind = "function" => tree.label[n].name = tree.label[n].word
             /\ tree.label[n].kind \notin {"function", "part"} => tree.label[n].name = ""
        BY TreesAssumption
    <2>. QED
        BY <2>1 DEF Nodes, Kind, Word, Name
<1>7. \A n \in Nodes : Kind(n) \in Kinds /\ tree.parent[n] \in Nat /\ tree.parent[n] < n
    BY <1>1, <1>4, <1>5
<1>. QED
    BY <1>4, <1>6, <1>7

(* The root is a statement, and so are the children of a block that is one. *)
LEMMA BlocksHoldStatements ==
    ASSUME tree \in Trees
    PROVE  /\ IsStatement(1)
           /\ \A n \in Nodes : IsStatement(n) /\ Kind(n) = "block" => \A m \in Children(n) : IsStatement(m)
<1>1. IsStatement(1)
    BY TreeType DEF IsStatement
<1>2. ASSUME NEW n \in Nodes, IsStatement(n), Kind(n) = "block", NEW m \in Children(n)
      PROVE  IsStatement(m)
    <2>1. PICK S \in SUBSET Nodes :
             n \in S /\ \A k \in S \ {1} : tree.parent[k] \in S /\ Kind(tree.parent[k]) = "block"
        BY <1>2 DEF IsStatement
    <2>2. m \in Nodes /\ tree.parent[m] = n
        BY <1>2 DEF Children
    <2>3. S \cup {m} \in SUBSET Nodes
        BY <2>2
    <2>. QED
        BY <1>2, <2>1, <2>2, <2>3 DEF IsStatement
<1>. QED
    BY <1>1, <1>2

(* Following blocks down from the root reaches every statement: of those    *)
(* above a statement that is missed, the first would have been reached.     *)
LEMMA AllAreClassified ==
    ASSUME tree \in Trees, NEW S \in SUBSET Nodes, 1 \in S,
           \A n \in S : Kind(n) = "block" => Children(n) \subseteq S,
           NEW n \in Nodes, IsStatement(n)
    PROVE  n \in S
<1>1. PICK A \in SUBSET Nodes :
         n \in A /\ \A m \in A \ {1} : tree.parent[m] \in A /\ Kind(tree.parent[m]) = "block"
    BY DEF IsStatement
<1>. SUFFICES ASSUME n \notin S PROVE FALSE
    OBVIOUS
<1>2. A \ S \subseteq Nat /\ A \ S # {}
    BY <1>1, TreeType
<1>3. PICK m \in A \ S : \A k \in A \ S : ~ (<<k, m>> \in OpToRel(<, Nat))
    BY <1>2, NatLessThanWellFounded, WFMin
<1>4. m # 1 /\ m \in Nodes /\ tree.parent[m] \in A /\ Kind(tree.parent[m]) = "block"
    BY <1>1, <1>3
<1>5. tree.parent[m] \in Nat /\ m \in Nat /\ tree.parent[m] < m
    BY <1>4, TreeType
<1>6. tree.parent[m] \in S
    BY <1>3, <1>4, <1>5 DEF OpToRel
<1>7. m \in Children(tree.parent[m])
    BY <1>4 DEF Children
<1>. QED
    BY <1>3, <1>4, <1>6, <1>7

-----------------------------------------------------------------------------
(* What a check of one node is worth. *)

(* A node that would stop the walk for what it calls does reach out, or is  *)
(* blocked anyway, or is misread.                                           *)
LEMMA DangerousIsBlamed ==
    ASSUME tree \in Trees, NEW s \in EngineSpecs, specs = {s}, NEW n \in Nodes, Dangerous(n)
    PROVE  ~ Harmless(n) \/ Misread(n)
<1>1. Policy = s
    BY DEF Policy
<1>2. CASE Kind(n) = "blocked"
    BY <1>2 DEF Harmless
<1>3. CASE Kind(n) = "function"
    <2>0. Name(n) = Word(n)
        BY <1>3, TreeType
    <2>1. Word(n) \in s.dangerousFunctions \cup GlobalDangerousFunctions
        BY <1>1, <1>3, <2>0 DEF Dangerous
    <2>2. <<s.name, Word(n)>> \in Outside
        BY <1>3, <2>1, OutsideAssumption DEF Kind, Word, Nodes
    <2>. QED
        BY <1>1, <1>3, <2>2 DEF Harmless
<1>4. CASE Kind(n) = "part" /\ Word(n) \in Policy.dangerousNodes
    <2>1. <<s.name, Word(n)>> \in Outside
        BY <1>1, <1>4, OutsideAssumption DEF Kind, Word, Nodes
    <2>. QED
        BY <1>1, <1>4, <2>1 DEF Harmless
<1>5. CASE Kind(n) = "part" /\ Word(n) \notin Policy.dangerousNodes
    BY <1>5 DEF Dangerous, Misread
<1>6. CASE Kind(n) \notin {"blocked", "function", "part"}
    BY <1>6, TreeType DEF Dangerous
<1>. QED
    BY <1>2, <1>3, <1>4, <1>5, <1>6

(* Why a statement that is not permitted is refused rightly. *)
Blamed(n) ==
    \/ ~ Harmless(n)
    \/ Misread(n)
    \/ Kind(n) = "command" /\ Word(n) \notin Policy.readonlyCommands
    \/ Kind(n) = "pragma" /\ Word(n) \notin Policy.readonlyPragmas

LEMMA RefusalIsDeserved ==
    ASSUME tree \in Trees, NEW s \in EngineSpecs, specs = {s}, NEW n \in Nodes,
           IsStatement(n) \/ IsStatementNode(n), Kind(n) # "block", ~ Permitted(n)
    PROVE  Blamed(n)
<1>1. CASE Dangerous(n)
    BY <1>1, DangerousIsBlamed DEF Blamed
<1>2. CASE ~ Dangerous(n)
    <2>1. ~ ReadOnly(n) /\ ~ (Kind(n) = "mutation" /\ allowMutation)
        BY <1>2 DEF Permitted
    <2>2. Kind(n) \in Kinds \ {"block", "query", "show"}
        BY <2>1, TreeType DEF ReadOnly
    <2>. QED
        BY <2>1, <2>2 DEF ReadOnly, Blamed, Harmless, IsStatementNode, Kinds
<1>. QED
    BY <1>1, <1>2

(* A node that stops neither check does no harm. *)
LEMMA PassedIsHarmless ==
    ASSUME tree \in Trees, NEW s \in EngineSpecs, specs = {s}, NEW n \in Nodes, Passes(n),
           IsStatement(n) => Kind(n) = "block" \/ Permitted(n), n = 1 => IsStatement(n)
    PROVE  Harmless(n)
<1>1. Policy = s
    BY DEF Policy
<1>2. ~ Dangerous(n)
    BY DEF Passes
<1>3. IsStatementNode(n) => ReadOnly(n) \/ (Kind(n) = "mutation" /\ allowMutation)
    BY DEF Passes, Permitted, IsStatementNode
<1>4. Kind(n) \notin {"blocked", "pragma set"} /\ (Kind(n) = "mutation" => allowMutation)
    BY <1>3 DEF IsStatementNode, ReadOnly
<1>5. Kind(n) \in {"command", "pragma"} => Word(n) \in ReadingWords
    <2>1. Kind(n) \in {"command", "pragma"} => Word(n) \in s.readonlyCommands \cup s.readonlyPragmas
        BY <1>1, <1>3 DEF IsStatementNode, ReadOnly
    <2>. QED
        BY <2>1, DeclaredOnlyRead
<1>6. Kind(n) \in {"function", "part"} => <<Policy.name, Word(n)>> \notin Outside
    <2>1. Kind(n) = "function" => Name(n) = Word(n)
        BY TreeType
    <2>2. Name(n) = "" \/ Name(n) \notin s.dangerousFunctions \cup GlobalDangerousFunctions
        BY <1>1, <1>2 DEF Dangerous
    <2>3. Name(n) \notin s.dangerousFunctions \cup GlobalDangerousFunctions
        BY <2>2, NoEmptyName
    <2>4. Kind(n) = "function" => Word(n) \notin s.dangerousFunctions \cup GlobalDangerousFunctions
        BY <2>1, <2>3
    <2>5. Kind(n) = "part" => Word(n) \notin s.dangerousNodes
        BY <1>1, <1>2 DEF Dangerous
    <2>. QED
        BY <1>1, <2>4, <2>5, OutsideAssumption DEF Kind, Word, Nodes
<1>7. Kind(n) \in {"alias", "function", "part"} /\ IsStatement(n) => Kind(n) = "alias" /\ Word(n) = "TABLE"
    BY DEF Permitted, ReadOnly
<1>. QED
    BY <1>4, <1>5, <1>6, <1>7 DEF Harmless

-----------------------------------------------------------------------------
(* The steps. *)

(* At first nothing is looked at. *)
LEMMA InitSafe == Init => IInv
BY DEF Init, IInv, Typed, Resolved, Classified, Walked, Begun, NoFalseAlarm

(* Resolving the engine gives its policy alone, or refuses. *)
LEMMA ResolveSpecSafe == ASSUME IInv, ResolveSpec PROVE IInv'
<1>1. /\ check = "resolve" /\ verdict = "pending"
      /\ UNCHANGED <<tree, engine, dialect, allowMutation, toClassify, toWalk>>
    BY DEF ResolveSpec, arguments, IInv, Typed
<1>2. specs' # {} => \E s \in EngineSpecs : specs' = {s} /\ (engine # "" => s.name = CanonicalName(engine))
    BY OneSpec DEF ResolveSpec, Named, Legacy
<1>3. \/ specs' = {} /\ verdict' = "refused" /\ check' = "over"
      \/ specs' # {} /\ verdict' = "pending" /\ check' = "parse"
    BY <1>1 DEF ResolveSpec, Refuse
<1>. QED
    BY <1>1, <1>2, <1>3 DEF IInv, Typed, Resolved, Classified, Walked, Begun, NoFalseAlarm

(* A statement that parses waits at its root to be classified, and all of it *)
(* to be walked.                                                             *)
LEMMA ParseSafe == ASSUME IInv, Parse PROVE IInv'
<1>1. /\ check = "parse" /\ verdict = "pending" /\ specs # {} /\ tree \in Trees \cup {NoTree}
      /\ UNCHANGED <<tree, engine, dialect, allowMutation, specs>>
    BY DEF Parse, arguments, IInv, Typed, Resolved
<1>2. CASE tree = NoTree
    <2>1. verdict' = "refused" /\ check' = "over"
        BY <1>2 DEF Parse, Refuse
    <2>. QED
        BY <1>1, <1>2, <2>1 DEF IInv, Typed, Resolved, Classified, Walked, Begun, NoFalseAlarm
<1>3. CASE tree # NoTree
    <2>1. check' = "classify" /\ toClassify' = {1} /\ toWalk' = Nodes /\ verdict' = "pending"
        BY <1>1, <1>3 DEF Parse
    <2>2. tree \in Trees /\ 1 \in Nodes /\ IsStatement(1)
        BY <1>1, <1>3, TreeType, BlocksHoldStatements
    <2>3. Nodes' = Nodes /\ IsStatement(1)'
        BY <1>1, <2>2 DEF Nodes, IsStatement, Kind
    <2>4. Classified'
        <3>1. {} \in SUBSET Nodes' /\ 1 \in {} \cup toClassify' /\ 1 \in Nodes'
            BY <2>1, <2>2, <2>3
        <3>2. \A n \in {} : (IF Kind(n) = "block" THEN Children(n) \subseteq {} \cup toClassify ELSE Permitted(n))'
            OBVIOUS
        <3>3. \A n \in toClassify' : n \in Nodes' /\ IsStatement(n)'
            BY <2>1, <2>3, <3>1
        <3>. QED
            BY <2>1, <3>1, <3>2, <3>3 DEF Classified
    <2>. QED
        BY <1>1, <2>1, <2>2, <2>3, <2>4 DEF IInv, Typed, Resolved, Walked, Begun, NoFalseAlarm
<1>. QED
    BY <1>2, <1>3

(* The steps that follow leave the statement and the policy as they are. *)
LEMMA SameJudgement ==
    ASSUME UNCHANGED <<arguments, specs>>
    PROVE  /\ Nodes' = Nodes
           /\ \A n : /\ Kind(n)' = Kind(n) /\ Word(n)' = Word(n) /\ Name(n)' = Name(n) /\ Children(n)' = Children(n)
                    /\ Permitted(n)' = Permitted(n) /\ Passes(n)' = Passes(n)
                    /\ Harmless(n)' = Harmless(n) /\ IsStatement(n)' = IsStatement(n)
                    /\ Blamed(n)' = Blamed(n)
<1>1. /\ Nodes' = Nodes /\ Policy' = Policy
      /\ \A n : Kind(n)' = Kind(n) /\ Word(n)' = Word(n) /\ Name(n)' = Name(n)
    BY DEF arguments, Nodes, Kind, Word, Name, Policy
<1>2. UNCHANGED <<tree, allowMutation>>
    BY DEF arguments
<1>3. \A n : Children(n)' = Children(n) /\ IsStatement(n)' = IsStatement(n)
    BY <1>1, <1>2 DEF Children, IsStatement
<1>4. \A n : Dangerous(n)' = Dangerous(n) /\ ReadOnly(n)' = ReadOnly(n)
    BY <1>1 DEF Dangerous, ReadOnly
<1>5. \A n : Permitted(n)' = Permitted(n)
    BY <1>1, <1>2, <1>4 DEF Permitted
<1>6. \A n : Passes(n)' = Passes(n)
    BY <1>1, <1>4, <1>5 DEF Passes, IsStatementNode
<1>7. \A n : Harmless(n)' = Harmless(n)
    BY <1>1, <1>2, <1>3 DEF Harmless
<1>8. \A n : Blamed(n)' = Blamed(n)
    BY <1>1, <1>7 DEF Blamed, Misread
<1>. QED
    BY <1>1, <1>3, <1>5, <1>6, <1>7, <1>8

(* A block is replaced by its statements, a permitted statement is set       *)
(* aside, and any other is refused for a reason.                             *)
LEMMA ClassifySafe == ASSUME IInv, Classify PROVE IInv'
<1>1. /\ check = "classify" /\ verdict = "pending" /\ tree \in Trees
      /\ UNCHANGED <<arguments, specs, toWalk>>
    BY DEF Classify, IInv, Typed, Resolved, Begun
<1>2. PICK s \in EngineSpecs : specs = {s}
    BY <1>1 DEF IInv, Resolved, Begun
<1>3. PICK n \in toClassify :
         CASE Kind(n) = "block" ->
                /\ toClassify' = (toClassify \ {n}) \cup Children(n)
                /\ UNCHANGED <<check, verdict>>
           [] Kind(n) # "block" /\ Permitted(n) ->
                /\ toClassify' = toClassify \ {n}
                /\ UNCHANGED <<check, verdict>>
           [] OTHER -> Refuse /\ UNCHANGED toClassify
    BY DEF Classify
<1>4. /\ \A m \in toClassify : m \in Nodes /\ IsStatement(m)
      /\ n \in Nodes /\ IsStatement(n)
    BY <1>1, <1>3 DEF IInv, Classified, Begun
<1>5. PICK S \in SUBSET Nodes :
         /\ 1 \in S \cup toClassify
         /\ \A m \in S : IF Kind(m) = "block" THEN Children(m) \subseteq S \cup toClassify
                                              ELSE Permitted(m)
    BY <1>1 DEF IInv, Classified, Begun
<1>6. /\ Nodes' = Nodes
      /\ \A m : /\ Kind(m)' = Kind(m) /\ Children(m)' = Children(m)
               /\ Permitted(m)' = Permitted(m) /\ Passes(m)' = Passes(m)
               /\ IsStatement(m)' = IsStatement(m) /\ Blamed(m)' = Blamed(m)
    BY <1>1, SameJudgement
<1>7. UNCHANGED <<tree, engine, dialect, allowMutation>>
    BY <1>1 DEF arguments
<1>8. CASE /\ Kind(n) = "block" \/ Permitted(n)
           /\ UNCHANGED <<check, verdict>>
           /\ toClassify' = (toClassify \ {n}) \cup (IF Kind(n) = "block" THEN Children(n) ELSE {})
    <2>1. \A m \in toClassify' : m \in Nodes /\ IsStatement(m)
        BY <1>1, <1>4, <1>8, BlocksHoldStatements DEF Children
    <2>2. S \cup {n} \in SUBSET Nodes /\ 1 \in (S \cup {n}) \cup toClassify'
        BY <1>4, <1>5, <1>8
    <2>3. ASSUME NEW m \in S \cup {n}
          PROVE  IF Kind(m) = "block" THEN Children(m) \subseteq (S \cup {n}) \cup toClassify'
                                      ELSE Permitted(m)
        <3>1. CASE m = n
            BY <1>8, <3>1
        <3>2. CASE m # n
            <4>1. IF Kind(m) = "block" THEN Children(m) \subseteq S \cup toClassify ELSE Permitted(m)
                BY <1>5, <2>3, <3>2
            <4>2. S \cup toClassify \subseteq (S \cup {n}) \cup toClassify'
                BY <1>8
            <4>. QED
                BY <4>1, <4>2
        <3>. QED
            BY <3>1, <3>2
    <2>4. Classified'
        BY <1>1, <1>6, <1>8, <2>1, <2>2, <2>3 DEF Classified
    <2>. QED
        BY <1>1, <1>6, <1>7, <1>8, <2>4 DEF IInv, Typed, Resolved, Walked, Begun, NoFalseAlarm
<1>9. CASE Kind(n) # "block" /\ ~ Permitted(n) /\ Refuse
    <2>1. Blamed(n)
        BY <1>1, <1>2, <1>4, <1>9, RefusalIsDeserved
    <2>2. Blamed(n)' /\ n \in Nodes'
        BY <1>4, <1>6, <2>1
    <2>3. NoFalseAlarm'
        BY <2>2 DEF NoFalseAlarm, Blamed
    <2>. QED
        BY <1>1, <1>7, <1>9, <2>3 DEF IInv, Typed, Resolved, Classified, Walked, Begun, Refuse
<1>. QED
    BY <1>3, <1>8, <1>9

(* Nothing waits any more. *)
LEMMA EndClassificationSafe == ASSUME IInv, EndClassification PROVE IInv'
<1>1. /\ check = "classify" /\ verdict = "pending" /\ check' = "walk" /\ toClassify = {}
      /\ UNCHANGED <<arguments, specs, toClassify, toWalk, verdict>>
    BY DEF EndClassification, IInv, Typed
<1>2. UNCHANGED <<tree, engine, dialect, allowMutation>>
    BY <1>1 DEF arguments
<1>3. /\ Nodes' = Nodes
      /\ \A m : /\ Kind(m)' = Kind(m) /\ Children(m)' = Children(m)
               /\ Permitted(m)' = Permitted(m) /\ Passes(m)' = Passes(m)
               /\ IsStatement(m)' = IsStatement(m)
    BY <1>1, SameJudgement
<1>4. Classified'
    BY <1>1, <1>3 DEF IInv, Classified, Begun
<1>. QED
    BY <1>1, <1>2, <1>3, <1>4 DEF IInv, Typed, Resolved, Walked, Begun, NoFalseAlarm

(* The walk passes a node, or refuses it for a reason. *)
LEMMA WalkSafe == ASSUME IInv, Walk PROVE IInv'
<1>1. /\ check = "walk" /\ verdict = "pending" /\ tree \in Trees
      /\ UNCHANGED <<arguments, specs, toClassify>>
    BY DEF Walk, IInv, Typed, Resolved, Begun
<1>2. UNCHANGED <<tree, engine, dialect, allowMutation>>
    BY <1>1 DEF arguments
<1>3. PICK s \in EngineSpecs : specs = {s}
    BY <1>1 DEF IInv, Resolved, Begun
<1>4. PICK n \in toWalk :
         /\ IF ~ Passes(n) THEN Refuse ELSE UNCHANGED <<check, verdict>>
         /\ toWalk' = toWalk \ {n}
    BY DEF Walk, Passes
<1>5. n \in Nodes
    BY <1>1 DEF IInv, Walked, Begun
<1>6. /\ Nodes' = Nodes
      /\ \A m : /\ Kind(m)' = Kind(m) /\ Children(m)' = Children(m)
               /\ Permitted(m)' = Permitted(m) /\ Passes(m)' = Passes(m)
               /\ IsStatement(m)' = IsStatement(m) /\ Blamed(m)' = Blamed(m)
    BY <1>1, SameJudgement
<1>7. CASE Passes(n)
    <2>1. UNCHANGED <<check, verdict>>
        BY <1>4, <1>7
    <2>2. Classified'
        BY <1>1, <1>6, <2>1 DEF IInv, Classified, Begun
    <2>3. Walked'
        BY <1>1, <1>4, <1>6, <1>7, <2>1 DEF IInv, Walked, Begun
    <2>. QED
        BY <1>1, <1>2, <2>1, <2>2, <2>3 DEF IInv, Typed, Resolved, Begun, NoFalseAlarm
<1>8. CASE ~ Passes(n)
    <2>1. Refuse
        BY <1>4, <1>8
    <2>2. Blamed(n)
        <3>1. CASE Dangerous(n)
            BY <1>1, <1>3, <1>5, <3>1, DangerousIsBlamed DEF Blamed
        <3>2. CASE IsStatementNode(n) /\ ~ Permitted(n)
            <4>1. Kind(n) # "block"
                BY <3>2 DEF IsStatementNode
            <4>. QED
                BY <1>1, <1>3, <1>5, <3>2, <4>1, RefusalIsDeserved
        <3>. QED
            BY <1>8, <3>1, <3>2 DEF Passes
    <2>3. Blamed(n)' /\ n \in Nodes'
        BY <1>5, <1>6, <2>2
    <2>4. NoFalseAlarm'
        BY <2>3 DEF NoFalseAlarm, Blamed
    <2>. QED
        BY <1>1, <1>2, <2>1, <2>4 DEF IInv, Typed, Resolved, Classified, Walked, Begun, Refuse
<1>. QED
    BY <1>7, <1>8

(* The walk is over. *)
LEMMA EndWalkSafe == ASSUME IInv, EndWalk PROVE IInv'
<1>1. /\ check = "walk" /\ verdict = "pending" /\ check' = "over" /\ verdict' = "safe" /\ toWalk = {}
      /\ UNCHANGED <<arguments, specs, toClassify, toWalk>>
    BY DEF EndWalk, IInv, Typed
<1>2. UNCHANGED <<tree, engine, dialect, allowMutation>>
    BY <1>1 DEF arguments
<1>3. /\ Nodes' = Nodes
      /\ \A m : /\ Kind(m)' = Kind(m) /\ Children(m)' = Children(m)
               /\ Permitted(m)' = Permitted(m) /\ Passes(m)' = Passes(m)
               /\ IsStatement(m)' = IsStatement(m)
    BY <1>1, SameJudgement
<1>4. Classified'
    BY <1>1, <1>3 DEF IInv, Classified, Begun
<1>. QED
    BY <1>1, <1>2, <1>3, <1>4 DEF IInv, Typed, Resolved, Walked, Begun, NoFalseAlarm

(* Nor does doing nothing disturb it. *)
LEMMA StutterSafe == ASSUME IInv, UNCHANGED vars PROVE IInv'
<1>1. UNCHANGED <<arguments, specs, tree, engine, dialect, allowMutation, check, toClassify, toWalk, verdict>>
    BY DEF vars, arguments
<1>2. /\ Nodes' = Nodes
      /\ \A m : /\ Kind(m)' = Kind(m) /\ Children(m)' = Children(m)
               /\ Permitted(m)' = Permitted(m) /\ Passes(m)' = Passes(m)
               /\ IsStatement(m)' = IsStatement(m)
    BY <1>1, SameJudgement
<1>3. NoFalseAlarm' = NoFalseAlarm
    BY <1>1, SameJudgement DEF NoFalseAlarm, Blamed
<1>4. Classified'
    BY <1>1, <1>2 DEF IInv, Classified, Begun
<1>. QED
    BY <1>1, <1>2, <1>3, <1>4 DEF IInv, Typed, Resolved, Walked, Begun

(* The invariant says enough: a safe verdict follows a walk of everything    *)
(* and a classification of every statement.                                  *)
LEMMA SafeVerdict == IInv => SafeMeansHarmless
<1>. SUFFICES ASSUME IInv, verdict = "safe" PROVE SafeMeansHarmless
    BY DEF SafeMeansHarmless
<1>1. tree \in Trees /\ toClassify = {} /\ \A n \in Nodes : Passes(n)
    BY DEF IInv, Typed, Resolved, Classified, Walked, Begun
<1>2. PICK s \in EngineSpecs : specs = {s} /\ (engine # "" => s.name = CanonicalName(engine))
    BY DEF IInv, Resolved, Begun
<1>3. PICK S \in SUBSET Nodes :
         1 \in S /\ \A n \in S : IF Kind(n) = "block" THEN Children(n) \subseteq S ELSE Permitted(n)
    BY <1>1 DEF IInv, Classified, Begun
<1>4. \A n \in Nodes : IsStatement(n) => n \in S
    BY <1>1, <1>3, AllAreClassified
<1>5. \A n \in Nodes : IsStatement(n) => Kind(n) = "block" \/ Permitted(n)
    BY <1>3, <1>4
<1>6. \A n \in Nodes : Harmless(n)
    BY <1>1, <1>2, <1>5, BlocksHoldStatements, PassedIsHarmless
<1>7. Policy = s
    BY <1>2 DEF Policy
<1>. QED
    BY <1>2, <1>6, <1>7 DEF SafeMeansHarmless

-----------------------------------------------------------------------------

(* The invariant holds of every behaviour. *)
THEOREM Invariance == Spec => []IInv
<1>1. ASSUME IInv, [Next]_vars PROVE IInv'
    BY <1>1, ResolveSpecSafe, ParseSafe, ClassifySafe, EndClassificationSafe, WalkSafe, EndWalkSafe,
       StutterSafe DEF Next
<1>. QED
    BY <1>1, InitSafe, PTL DEF Spec

(* What the sentry lets through changes nothing and reaches no file or host, *)
(* in any of its statements and however deep, unless it is an INSERT, UPDATE *)
(* or DELETE that allow_mutation permits; and it is judged by the engine     *)
(* that was named (security.py:19-27, 64, 163-168, 358-369).  This holds for *)
(* every tree, of any size: statements nested in blocks, and nodes nested in *)
(* statements, at any depth.  What reaches a file or host is what the lists  *)
(* of the registry name (OutsideAssumption; security.py:33-36).              *)
THEOREM SafeIsHarmless == Spec => []SafeMeansHarmless
<1>. QED
    BY Invariance, SafeVerdict, PTL

(* What it refuses is not a read that the engine declares (security.py:      *)
(* 89-92): some node of it does harm, or is a command or a pragma that is    *)
(* not declared read-only, or nothing could be parsed or resolved, or it has *)
(* a function with a class of its own and an operand or argument named like  *)
(* a listed one.  Only these last are refused without need.                  *)
THEOREM RefusalsAreFounded == Spec => []NoFalseAlarm
<1>1. IInv => NoFalseAlarm
    BY DEF IInv
<1>. QED
    BY <1>1, Invariance, PTL

===============================================================================
