-------------------------------- MODULE Names --------------------------------
(***************************************************************************)
(* schemapilot/names.py: what a name that the user typed can mean.         *)
(*                                                                         *)
(* A dotted name is the sequence of its pieces between dots, so a piece is *)
(* an atom; <<>> is the empty string and Python's None.  What is typed     *)
(* loses its quotes, the blanks around it and a leading `@', the keys that *)
(* it is compared with do not.                                             *)
(***************************************************************************)
EXTENDS Naturals, Sequences, FiniteSets, SequencesExt

CONSTANTS
    Atoms,   \* the pieces of names
    NoText,  \* the piece without a character
    Lower,   \* Lower[a]: a in lower case
    Cleaned  \* Cleaned[place][a]: what is compared of a as this piece of a name

(* The only piece of a name, the first, one between others and the last. *)
Places == {"only", "first", "inner", "last"}

ASSUME NoTextAssumption == NoText \in Atoms
ASSUME CleanedAssumption == Cleaned \in [Places -> [Atoms -> Atoms]]
ASSUME LowerAssumption ==
    /\ Lower \in [Atoms -> Atoms]
    /\ \A a \in Atoms : Lower[Lower[a]] = Lower[a]

NoName == <<>>

InLowerCase(name) == [i \in DOMAIN name |-> Lower[name[i]]]

PlaceIn(name, i) ==
    CASE Len(name) = 1 -> "only"
      [] Len(name) # 1 /\ i = 1 -> "first"
      [] Len(name) # 1 /\ i = Len(name) -> "last"
      [] OTHER -> "inner"

(* normalise: the form typed names are compared in. *)
Normalise(name) ==
    LET cleaned == [i \in DOMAIN name |-> Cleaned[PlaceIn(name, i)][name[i]]]
    IN IF cleaned = <<NoText>> THEN NoName ELSE InLowerCase(cleaned)

(* Nothing but the case is taken from such a name. *)
IsPlain(name) == Normalise(name) = InLowerCase(name)

(* bare_name: what follows the last dot. *)
BareName(name) == <<Last(name)>>

(* The tiers of match_table_names, for a normalised needle. *)
ExactMatches(needle, keys) == {k \in keys : InLowerCase(k) = needle}
SuffixMatches(needle, keys) == {k \in keys : IsStrictSuffix(needle, InLowerCase(k))}
LeafMatches(needle, keys) == {k \in keys : InLowerCase(BareName(k)) = needle}

(* match_table_names: the catalog keys a whole name could mean, from the   *)
(* first tier that has any.                                                *)
MatchAnyTier(name, keys) ==
    LET needle == Normalise(name)
    IN IF needle = NoName
          THEN {}
          ELSE ExactMatches(needle, keys) \cup SuffixMatches(needle, keys) \cup LeafMatches(needle, keys)

MatchTableNames(name, keys) ==
    LET needle == Normalise(name)
        exact == ExactMatches(needle, keys)
        suffix == SuffixMatches(needle, keys)
    IN CASE needle = NoName -> {}
         [] needle # NoName /\ exact # {} -> exact
         [] needle # NoName /\ exact = {} /\ suffix # {} -> suffix
         [] OTHER -> LeafMatches(needle, keys)

(* resolve_table_name: the one key a name means, None if none or several. *)
ResolveTableName(name, keys) ==
    IF \E k \in keys : MatchTableNames(name, keys) = {k}
       THEN CHOOSE k \in keys : MatchTableNames(name, keys) = {k}
       ELSE NoName

(* A half-typed name is its finished pieces and, for the piece being typed, *)
(* the lower-case atoms that begin with it, its quotes removed.  It has no  *)
(* blank and no `@' (completer.py:89-96).                                   *)
TypedPieces(typed) == [i \in DOMAIN typed.pieces |-> Lower[Cleaned["inner"][typed.pieces[i]]]]

StartsWith(name, typed) ==
    /\ Len(name) > Len(typed.pieces)
    /\ SubSeq(InLowerCase(name), 1, Len(typed.pieces)) = TypedPieces(typed)
    /\ Lower[name[Len(typed.pieces) + 1]] \in typed.begins

(* completion_candidates: the keys of which the whole name, or the bare one, *)
(* starts with what was typed.                                               *)
CompletionCandidates(typed, keys) ==
    {k \in keys : StartsWith(k, typed) \/ StartsWith(BareName(k), typed)}

(* The completer pins a candidate when it is the only one. *)
Pinnable(typings, keys) ==
    {k \in keys : \E typed \in typings : CompletionCandidates(typed, keys) = {k}}

=============================================================================
