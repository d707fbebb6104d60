----------------------------- MODULE SemverRange -----------------------------
(***************************************************************************)
(* internal/semverrange: the npm range grammar, what the Masterminds       *)
(* parser makes of a text that passes it, and how npm reads the same text. *)
(*                                                                         *)
(* A text is what strings.Split and strings.Fields leave of it: the        *)
(* "||"-separated sets, each a sequence of fields.  Of its whitespace it   *)
(* keeps how many bytes stand around each "||" and which kind there is.    *)
(* A "v" before a version and build metadata change nothing and are left   *)
(* out; a digit stands for a numeric component, with npm's limit at        *)
(* MaxComponent.                                                           *)
(***************************************************************************)
EXTENDS Compare, Integers, Sequences, SequencesExt

CONSTANTS
    MaxComponent,   \* semverrange.MaxNumeric
    MaxLen          \* semverrange.MaxLen

\* One version component more than the limit, so that a bound derived from an
\* accepted component is a version again.
Base == MaxComponent + 1

ASSUME ComponentAssumption ==
    /\ MaxComponent \in Nat \ {0}
    /\ MaxNumeric = Base * Base * Base - 1
    /\ MaxLen \in Nat

Wild  == -1     \* "x", "X" or "*"
Empty == ""     \* the empty string: no operator, no name

Comparator(op, parts, pre) == [kind |-> "comparator", op |-> op, parts |-> parts, pre |-> pre]

\* The other fields: an operator on its own, a "-", and anything that is
\* outside the grammar ("lts/*", ">=1,<2", "!=1", "01.0", "22-0-", ...).
Field(kind, op) == [kind |-> kind, op |-> op, parts |-> <<>>, pre |-> 0]
Hyphen  == Field("hyphen", Empty)
Garbage == Field("garbage", Empty)

Ops == {Empty, "=", "<", "<=", ">", ">=", "^", "~"}

\* A partial version: one to three components, each a number or a wildcard.
PartialVersions == {parts \in Seq(Nat \cup {Wild}) : Len(parts) \in 1..3}

ComparatorFields == [kind : {"comparator"}, op : Ops, parts : PartialVersions, pre : Nat]

Fields ==
    ComparatorFields
      \cup {Field("operator", op) : op \in Ops \ {Empty}}
      \cup {Hyphen, Garbage, Field("present", Empty)}

Text(sets, gap, ws) == [sets |-> sets, gap |-> gap, ws |-> ws]

\* U+0085 (NEL) is a space for Go and none for npm; it may stand between the
\* fields or only around all of them.
Whitespace == {"spaces", "newlines", "nel", "nel outside"}

Written == [sets : Seq(Seq(Fields)), gap : Nat, ws : Whitespace]

Blank   == Text(<<<<>>>>, 0, "spaces")
Refused == Text(<<>>, 0, "spaces")      \* no text at all: an error

\* strings.TrimSpace, which the detectors apply first.
Trim(text) ==
    CASE text.sets = <<<<>>>>                            -> Blank
      [] text.sets # <<<<>>>> /\ text.ws = "nel outside" -> [text EXCEPT !.ws = "spaces"]
      [] OTHER                                           -> text

\* What semver.StrictNewVersion makes of a word.
ExactVersions == [parts : [1..3 -> Nat], pre : Nat]

ExactText(word) == Text(<<<<Comparator(Empty, word.parts, word.pre)>>>>, 2, "spaces")

-----------------------------------------------------------------------------
(* Lengths, in bytes of a text whose whitespace inside sets is single.     *)

OpBytes == [op \in Ops |-> CASE op = Empty -> 0 [] op \in {"<=", ">="} -> 2 [] OTHER -> 1]

FieldBytes(field) ==
    CASE field.kind = "hyphen"     -> 1
      [] field.kind = "comparator" -> OpBytes[field.op] + 2 * Len(field.parts) - 1
                                        + (IF field.pre = 0 THEN 0 ELSE 2)
      [] OTHER                     -> OpBytes[field.op]

SetBytes(set) == FoldLeft(LAMBDA n, field : n + FieldBytes(field), Len(set) - 1, set)

Bytes(text) ==
    FoldLeft(LAMBDA n, set : n + SetBytes(set),
             (Len(text.sets) - 1) * (2 + text.gap), text.sets)

-----------------------------------------------------------------------------
(* Normalize.                                                              *)

\* "op ws partial" is one comparator; "> =1" reads ">=1", as npm reads it.
Glue(op, field) ==
    CASE field.kind = "comparator" /\ field.op = Empty -> [field EXCEPT !.op = op]
      [] field.kind = "comparator" /\ field.op = "=" /\ op \in {"<", ">"} ->
             [field EXCEPT !.op = IF op = "<" THEN "<=" ELSE ">="]
      [] OTHER -> Garbage

\* The comparators of a set that is no hyphen range.
Comparing(set) ==
    LET from[i \in 1..Len(set) + 2] ==
          CASE i > Len(set)                -> <<>>
            [] i <= Len(set) /\ set[i].kind # "operator" -> <<set[i]>> \o from[i + 1]
            [] i = Len(set) /\ set[i].kind = "operator"  -> <<Garbage>>
            [] OTHER -> <<Glue(set[i].op, set[i + 1])>> \o from[i + 2]
    IN from[1]

IsHyphenRange(set) == Len(set) = 3 /\ set[2] = Hyphen

\* How many numeric components stand before the first wildcard.
Given(c) ==
    LET wild == {i \in DOMAIN c.parts : c.parts[i] = Wild}
    IN IF wild = {} THEN Len(c.parts)
       ELSE (CHOOSE i \in wild : \A j \in wild : i <= j) - 1

IsFull(c) == Given(c) = 3

Components(c) == {c.parts[i] : i \in DOMAIN c.parts} \ {Wild}

\* Bugs the checks must find: one rule of checkPartial is left out.
WithoutTilde(op, c) ==
    /\ c.kind = "comparator"
    /\ \A i \in DOMAIN c.parts : i > Given(c) => c.parts[i] = Wild
    /\ \A n \in Components(c) : n < MaxComponent
    /\ op # Empty => Given(c) > 0
    /\ c.pre # 0 => IsFull(c)

\* checkPartial: the rules no regular expression can state.
CheckPartial(op, c) ==
    /\ c.kind = "comparator"
    /\ \A i \in DOMAIN c.parts : i > Given(c) => c.parts[i] = Wild
    /\ \A n \in Components(c) : n < MaxComponent
    /\ ~(op = "~" /\ c.parts = <<0, 0, 0>>)
    /\ op # Empty => Given(c) > 0
    /\ c.pre # 0 => IsFull(c)

\* normalizeSet; the empty sequence stands for its error.
NormalizeSet(set) ==
    LET comparators == Comparing(set)
    IN IF IsHyphenRange(set)
       THEN IF \A i \in {1, 3} : set[i].op = Empty /\ CheckPartial("-", set[i])
            THEN set ELSE <<>>
       ELSE IF \A i \in DOMAIN comparators : CheckPartial(comparators[i].op, comparators[i])
            THEN comparators ELSE <<>>

Normalize(text) ==
    LET sets == [i \in DOMAIN text.sets |-> NormalizeSet(text.sets[i])]
    IN IF \/ text = Refused
          \/ Bytes(text) > MaxLen
          \/ text.ws \in {"nel", "nel outside"}
          \/ \E i \in DOMAIN sets : sets[i] = <<>>
       THEN Refused
       ELSE Text(sets, 2, "spaces")

-----------------------------------------------------------------------------
(* Versions and bounds.                                                    *)

\* The version that keeps the first n components of c and has zeros after.
Zeroed(c, n) == [i \in 1..3 |-> IF i <= n THEN c.parts[i] ELSE 0]

CoreOf(parts) == (parts[1] * Base + parts[2]) * Base + parts[3]

Low(c) == [core |-> CoreOf(Zeroed(c, Given(c))), pre |-> c.pre]

\* The first release whose first n components are beyond those of c.
Beyond(c, n) == [core |-> CoreOf([Zeroed(c, n) EXCEPT ![n] = @ + 1]), pre |-> 0]

VersionOf(word) == [core |-> CoreOf(word.parts), pre |-> word.pre]

Bound(op, version) == {[op |-> op, version |-> version]}

Between(c, n) == Bound(">=", Low(c)) \cup Bound("<", Beyond(c, n))

-----------------------------------------------------------------------------
(* semver.NewConstraint, as bounds on release versions: constraintTilde,   *)
(* constraintCaret and the others, each with the special cases of its      *)
(* "dirty" versions.                                                       *)

LibraryTilde(c) ==
    CASE c.parts = <<0, 0, 0>> \/ Given(c) = 0 -> Bound(">=", Low(c))
      [] Given(c) = 1 -> Between(c, 1)
      [] OTHER        -> Between(c, 2)

LibraryCaret(c) ==
    LET low == Zeroed(c, Given(c))
    IN CASE low[1] > 0 \/ Given(c) = 1 -> Between(c, 1)
         [] low[1] = 0 /\ (Given(c) = 2 \/ (Given(c) = 3 /\ low[2] > 0)) -> Between(c, 2)
         [] OTHER -> Bound(">=", Low(c)) \cup Bound("<", [core |-> Low(c).core + 1, pre |-> 0])

LibraryReads(op, c) ==
    CASE op \in {"<", ">="}                         -> Bound(op, Low(c))
      [] op = ">"  /\ Given(c) \in {0, 3}           -> Bound(op, Low(c))
      [] op = ">"  /\ Given(c) \in {1, 2}           -> Bound(">=", Beyond(c, Given(c)))
      [] op = "<=" /\ IsFull(c)                     -> Bound(op, Low(c))
      [] op = "<=" /\ Given(c) = 0                  -> Bound("<", [core |-> Base, pre |-> 0])
      [] op = "<=" /\ Given(c) \in {1, 2}           -> Bound("<", Beyond(c, Given(c)))
      [] op \in {Empty, "="} /\ IsFull(c)              -> Bound("=", Low(c))
      [] op = "~" \/ (op \in {Empty, "="} /\ ~IsFull(c)) -> LibraryTilde(c)
      [] op = "^"                                   -> LibraryCaret(c)

LibrarySet(set) ==
    IF IsHyphenRange(set)
    THEN LibraryReads(">=", set[1]) \cup LibraryReads("<=", set[3])
    ELSE UNION {LibraryReads(set[i].op, set[i]) : i \in DOMAIN set}

\* Parse of a text that Normalize accepts.
Parse(text) == {LibrarySet(set) : set \in {text.sets[i] : i \in DOMAIN text.sets}}

-----------------------------------------------------------------------------
(* How npm (node-semver) reads a text, for release versions: desugaring to *)
(* plain comparators.  It does not read every text; what it cannot read    *)
(* admits nothing.                                                         *)

\* The component an upper bound raises: the leftmost non-zero one for "^".
Raised(op, c) ==
    LET nonzero == {i \in 1..Given(c) : c.parts[i] # 0}
    IN CASE op = "^" -> IF nonzero = {} THEN Given(c) ELSE CHOOSE i \in nonzero : \A j \in nonzero : i <= j
         [] op = "~" -> IF Given(c) = 1 THEN 1 ELSE 2
         [] op \in {Empty, "=", "<=", ">"} /\ ~IsFull(c) -> Given(c)
         [] OTHER -> 0

NpmComparator(op, c) ==
    LET raised == Raised(op, c)
    IN CASE Given(c) = 0 -> IF op \in {"<", ">"} THEN Bound("<", Low(c)) ELSE Bound(">=", Low(c))
         [] Given(c) > 0 /\ raised = 0 -> Bound(IF op = Empty THEN "=" ELSE op, Low(c))
         [] Given(c) > 0 /\ raised > 0 /\ op = ">"  -> Bound(">=", Beyond(c, raised))
         [] Given(c) > 0 /\ raised > 0 /\ op = "<=" -> Bound("<", Beyond(c, raised))
         [] OTHER -> Between(c, raised)

NpmAccepts(op, c) ==
    /\ c.kind = "comparator"
    /\ \A i \in 1..Given(c) :
         c.parts[i] <= MaxComponent - (IF i = Raised(op, c) THEN 1 ELSE 0)
    /\ Given(c) = 0 => Components(c) = {}
    /\ c.pre # 0 => IsFull(c)

NpmReadsSet(set) ==
    LET comparators == Comparing(set)
    IN IF IsHyphenRange(set)
       THEN set[1].op = Empty /\ set[3].op = Empty
            /\ NpmAccepts(">=", set[1]) /\ NpmAccepts("<=", set[3])
       ELSE \A j \in DOMAIN comparators : NpmAccepts(comparators[j].op, comparators[j])

NpmReads(text) ==
    /\ text.ws \notin {"nel", "nel outside"}
    /\ \A i \in DOMAIN text.sets : NpmReadsSet(text.sets[i])

NpmSet(set) ==
    LET comparators == Comparing(set)
    IN IF IsHyphenRange(set)
       THEN NpmComparator(">=", set[1]) \cup NpmComparator("<=", set[3])
       ELSE UNION {NpmComparator(comparators[i].op, comparators[i]) : i \in DOMAIN comparators}

NpmRange(text) ==
    IF NpmReads(text) THEN {NpmSet(text.sets[i]) : i \in DOMAIN text.sets} ELSE {}

-----------------------------------------------------------------------------
(* What Compare makes of a constraint text: Normalize, then Parse, which    *)
(* normalizes once more; one full version is exact whether or not "="       *)
(* stands before it.                                                        *)

Word == Text(<<<<Field("present", Empty)>>>>, 0, "spaces")

IsExact(text) ==
    /\ Len(text.sets) = 1
    /\ Len(text.sets[1]) = 1
    /\ text.sets[1][1].op \in {Empty, "="}
    /\ text.sets[1][1].kind = "comparator"
    /\ IsFull(text.sets[1][1])

\* A bug the checks must find: exactness decided on the text as it stands.
ExactAsWritten(text) ==
    LET normalized == Normalize(text)
    IN CASE text = Word -> Present
         [] text # Word /\ Normalize(normalized) = Refused -> Invalid
         [] text # Word /\ Normalize(normalized) # Refused /\ IsExact(text) ->
                Exactly(Low(text.sets[1][1]))
         [] OTHER -> InRange(Parse(normalized))

ConstraintOf(text) ==
    LET normalized == Normalize(text)
    IN CASE text = Word -> Present
         [] text # Word /\ Normalize(normalized) = Refused -> Invalid
         [] text # Word /\ Normalize(normalized) # Refused /\ IsExact(normalized) ->
                Exactly(Low(normalized.sets[1][1]))
         [] OTHER -> InRange(Parse(normalized))
=============================================================================
