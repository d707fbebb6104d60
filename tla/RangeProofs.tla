----------------------------- MODULE RangeProofs -----------------------------
(* Theorems about the range grammar in module SemverRange, for every text   *)
(* its tokenizer can leave and every limit: what Normalize accepts, npm     *)
(* reads as the Masterminds parser does, and normalizing again changes      *)
(* nothing.                                                                 *)
EXTENDS SemverRange, SequenceTheorems, NaturalsInduction, TLAPS, WellFoundedInduction

-----------------------------------------------------------------------------
(* Induction, for sets of numbers.                                          *)

LEMMA LeastNatural ==
    ASSUME NEW T, T \subseteq Nat, T # {}
    PROVE  \E m \in T : \A n \in T : m <= n
<1>1. IsWellFoundedOn(OpToRel(<, Nat), Nat)
  BY NatLessThanWellFounded
<1>2. PICK m \in T : \A n \in T : ~(<<n, m>> \in OpToRel(<, Nat))
  BY <1>1, WFMin
<1>3. ASSUME NEW n \in T PROVE m <= n
  <2>1. ~(<<n, m>> \in {ss \in Nat \X Nat : ss[1] < ss[2]})
    BY <1>2 DEF OpToRel
  <2> QED
    BY <2>1
<1> QED
  BY <1>3

LEMMA SetInduction ==
    ASSUME NEW T, T \subseteq Nat, 0 \in T, \A n \in T : n + 1 \in T
    PROVE  T = Nat
<1> SUFFICES ASSUME Nat \ T # {} PROVE FALSE
  OBVIOUS
<1>1. PICK m \in Nat \ T : \A n \in Nat \ T : m <= n
  BY LeastNatural
<1>2. m # 0 /\ m - 1 \in Nat
  BY <1>1
<1>3. m - 1 \in T
  BY <1>1, <1>2
<1> QED
  BY <1>1, <1>3

-----------------------------------------------------------------------------
(* Partial versions.                                                        *)

LEMMA EmptyIsNoOperator == Empty \notin {"=", "<", "<=", ">", ">=", "^", "~", "-"}
BY Zenon DEF Empty

LEMMA LeastOfThree ==
    ASSUME NEW S, S \subseteq 1..3, S # {}
    PROVE  \E i \in S : \A j \in S : i <= j
<1>1. CASE 1 \in S
  <2>1. \A j \in S : 1 <= j
    OBVIOUS
  <2> QED
    BY <1>1, <2>1
<1>2. CASE 1 \notin S /\ 2 \in S
  <2>1. \A j \in S : 2 <= j
    BY <1>2
  <2> QED
    BY <1>2, <2>1
<1>3. CASE 1 \notin S /\ 2 \notin S
  <2>1. \A i \in S : i = 3
    BY <1>3
  <2>2. PICK i \in S : TRUE
    OBVIOUS
  <2> QED
    BY <2>1, <2>2
<1> QED
  BY <1>1, <1>2, <1>3

LEMMA GivenFacts ==
    ASSUME NEW c \in ComparatorFields
    PROVE  /\ Given(c) \in 0..3
           /\ Given(c) <= Len(c.parts)
           /\ DOMAIN c.parts = 1..Len(c.parts)
           /\ Len(c.parts) \in 1..3
           /\ \A i \in 1..Given(c) : c.parts[i] \in Nat
<1> DEFINE wild == {i \in DOMAIN c.parts : c.parts[i] = Wild}
<1>1. /\ c.parts \in Seq(Nat \cup {Wild})
      /\ Len(c.parts) \in 1..3
      /\ DOMAIN c.parts = 1..Len(c.parts)
  BY DEF ComparatorFields, PartialVersions
<1>2. \A i \in 1..Len(c.parts) : c.parts[i] \in Nat \/ i \in wild
  BY <1>1
<1>3. CASE wild = {}
  <2>1. Given(c) = Len(c.parts)
    BY <1>3, Zenon DEF Given
  <2> QED
    BY <1>1, <1>2, <1>3, <2>1
<1>4. CASE wild # {}
  <2> DEFINE first == CHOOSE i \in wild : \A j \in wild : i <= j
  <2>1. wild \subseteq 1..3
    BY <1>1
  <2> HIDE DEF wild
  <2>2. \E i \in wild : \A j \in wild : i <= j
    BY <1>4, <2>1, LeastOfThree
  <2>3. first \in wild /\ \A j \in wild : first <= j
    BY <2>2
  <2>4. Given(c) = first - 1
    BY <1>4, Zenon DEF Given, wild
  <2>5. first \in 1..Len(c.parts)
    BY <1>1, <2>3 DEF wild
  <2> HIDE DEF first
  <2>6. ASSUME NEW i \in 1..Given(c) PROVE c.parts[i] \in Nat
    <3>1. i \in 1..Len(c.parts) /\ ~(first <= i)
      BY <1>1, <2>4, <2>5
    <3> QED
      BY <1>2, <2>3, <3>1
  <2> QED
    BY <1>1, <2>4, <2>5, <2>6
<1> QED
  BY <1>3, <1>4

LEMMA ZerosAreFull == ASSUME NEW c, c.parts = <<0, 0, 0>> PROVE Given(c) = 3
<1> DEFINE wild == {i \in DOMAIN c.parts : c.parts[i] = Wild}
<1>1. wild = {} /\ Len(c.parts) = 3
  BY DEF Wild
<1> QED
  BY <1>1, Zenon DEF Given

(* The component a caret raises: the first that is not zero, or the last.   *)
LEMMA RaisedByCaret ==
    ASSUME NEW c \in ComparatorFields, Given(c) > 0
    PROVE  Raised("^", c) =
             IF c.parts[1] # 0 \/ Given(c) = 1 THEN 1
             ELSE IF c.parts[2] # 0 \/ Given(c) = 2 THEN 2 ELSE 3
<1> DEFINE nonzero == {i \in 1..Given(c) : c.parts[i] # 0}
           first   == CHOOSE i \in nonzero : \A j \in nonzero : i <= j
<1>1. Given(c) \in 1..3
  BY GivenFacts
<1>2. Raised("^", c) = IF nonzero = {} THEN Given(c) ELSE first
  BY Zenon DEF Raised, Empty
<1>3. CASE nonzero = {}
  BY <1>1, <1>2, <1>3
<1>4. CASE nonzero # {}
  <2>1. nonzero \subseteq 1..3
    BY <1>1
  <2>2. \E i \in nonzero : \A j \in nonzero : i <= j
    BY <1>4, <2>1, LeastOfThree
  <2>3. first \in nonzero /\ \A j \in nonzero : first <= j
    BY <2>2, Zenon
  <2>4. Raised("^", c) = first
    BY <1>2, <1>4
  <2> HIDE DEF first
  <2> QED
    BY <1>1, <2>3, <2>4
<1> QED
  BY <1>3, <1>4

LEMMA RaisedByOthers ==
    ASSUME NEW c
    PROVE  /\ Raised("<", c) = 0 /\ Raised(">=", c) = 0
           /\ Raised("~", c) = IF Given(c) = 1 THEN 1 ELSE 2
           /\ \A op \in {Empty, "=", "<=", ">"} : Raised(op, c) = IF Given(c) = 3 THEN 0 ELSE Given(c)
BY Zenon DEF Raised, IsFull, Empty

(* NpmComparator, one case at a time.                                       *)
LEMMA NpmCases ==
    ASSUME NEW c, NEW op, Given(c) \in 0..3, Raised(op, c) \in 0..3
    PROVE  /\ Given(c) = 0 /\ op \notin {"<", ">"} => NpmComparator(op, c) = Bound(">=", Low(c))
           /\ Given(c) > 0 /\ Raised(op, c) = 0 =>
                NpmComparator(op, c) = Bound(IF op = Empty THEN "=" ELSE op, Low(c))
           /\ Given(c) > 0 /\ Raised(op, c) > 0 =>
                NpmComparator(op, c) = IF op = ">" THEN Bound(">=", Beyond(c, Raised(op, c)))
                                       ELSE IF op = "<=" THEN Bound("<", Beyond(c, Raised(op, c)))
                                       ELSE Between(c, Raised(op, c))
<1>1. CASE Given(c) = 0
  <2>1. ~(Given(c) > 0)
    BY <1>1
  <2> QED
    BY <1>1, <2>1, Zenon DEF NpmComparator
<1>2. CASE Given(c) > 0 /\ Raised(op, c) = 0
  <2>1. Given(c) # 0 /\ ~(Raised(op, c) > 0)
    BY <1>2
  <2> QED
    BY <1>2, <2>1, Zenon DEF NpmComparator
<1>3. CASE Given(c) > 0 /\ Raised(op, c) > 0
  <2>1. Given(c) # 0 /\ Raised(op, c) # 0
    BY <1>3
  <2> QED
    BY <1>3, <2>1, Zenon DEF NpmComparator
<1> QED
  BY <1>1, <1>2, <1>3

(* LibraryReads, one operator at a time.                                    *)
LEMMA LibraryCases ==
    ASSUME NEW c, Given(c) \in 0..3
    PROVE  /\ \A op \in {"<", ">="} : LibraryReads(op, c) = Bound(op, Low(c))
           /\ LibraryReads(">", c) = IF Given(c) \in {0, 3} THEN Bound(">", Low(c))
                                    ELSE Bound(">=", Beyond(c, Given(c)))
           /\ Given(c) > 0 =>
                LibraryReads("<=", c) = IF Given(c) = 3 THEN Bound("<=", Low(c))
                                        ELSE Bound("<", Beyond(c, Given(c)))
           /\ \A op \in {Empty, "="} :
                LibraryReads(op, c) = IF Given(c) = 3 THEN Bound("=", Low(c)) ELSE LibraryTilde(c)
           /\ LibraryReads("~", c) = LibraryTilde(c)
           /\ LibraryReads("^", c) = LibraryCaret(c)
<1>1. /\ Given(c) \in {0, 3} \/ Given(c) \in {1, 2}
      /\ ~(Given(c) \in {0, 3} /\ Given(c) \in {1, 2})
      /\ Given(c) > 0 /\ Given(c) # 3 => Given(c) # 0 /\ Given(c) \in {1, 2}
      /\ Given(c) > 0 => Given(c) # 0
      /\ Given(c) = 3 => Given(c) # 0 /\ Given(c) \notin {1, 2}
  OBVIOUS
<1>2. \A op \in {"<", ">="} : LibraryReads(op, c) = Bound(op, Low(c))
  BY Zenon DEF LibraryReads, IsFull, Empty
<1>3. LibraryReads(">", c) = IF Given(c) \in {0, 3} THEN Bound(">", Low(c))
                             ELSE Bound(">=", Beyond(c, Given(c)))
  BY <1>1, Zenon DEF LibraryReads, IsFull, Empty
<1>4. Given(c) > 0 =>
        LibraryReads("<=", c) = IF Given(c) = 3 THEN Bound("<=", Low(c))
                                ELSE Bound("<", Beyond(c, Given(c)))
  BY <1>1, Zenon DEF LibraryReads, IsFull, Empty
<1>5. \A op \in {Empty, "="} :
        LibraryReads(op, c) = IF Given(c) = 3 THEN Bound("=", Low(c)) ELSE LibraryTilde(c)
  BY Zenon DEF LibraryReads, IsFull, Empty
<1>6. LibraryReads("~", c) = LibraryTilde(c) /\ LibraryReads("^", c) = LibraryCaret(c)
  BY Zenon DEF LibraryReads, IsFull, Empty
<1> QED
  BY <1>2, <1>3, <1>4, <1>5, <1>6

LEMMA TildeCases ==
    ASSUME NEW c, Given(c) \in 0..3, c.parts # <<0, 0, 0>>
    PROVE  /\ Given(c) = 0 => LibraryTilde(c) = Bound(">=", Low(c))
           /\ Given(c) > 0 => LibraryTilde(c) = Between(c, IF Given(c) = 1 THEN 1 ELSE 2)
<1>1. Given(c) > 0 => Given(c) # 0
  OBVIOUS
<1>2. Given(c) = 1 => Given(c) # 0
  OBVIOUS
<1> QED
  BY <1>1, <1>2, Zenon DEF LibraryTilde

LEMMA CaretCases ==
    ASSUME NEW c \in ComparatorFields, Given(c) > 0
    PROVE  LibraryCaret(c) = Between(c, Raised("^", c))
<1> DEFINE low == Zeroed(c, Given(c))
<1>1. /\ Given(c) \in 1..3
      /\ c.parts[1] \in Nat
      /\ Given(c) > 1 => c.parts[2] \in Nat
      /\ Given(c) > 2 => c.parts[3] \in Nat
  BY GivenFacts
<1>2. /\ low[1] = c.parts[1]
      /\ low[2] = IF Given(c) > 1 THEN c.parts[2] ELSE 0
      /\ low[3] = IF Given(c) > 2 THEN c.parts[3] ELSE 0
  BY <1>1 DEF Zeroed
<1> HIDE DEF low
<1>3. CASE low[1] > 0 \/ Given(c) = 1
  <2>0. ~(low[1] = 0 /\ (Given(c) = 2 \/ (Given(c) = 3 /\ low[2] > 0)))
    BY <1>1, <1>2, <1>3
  <2>1. LibraryCaret(c) = Between(c, 1)
    BY <1>3, <2>0, Zenon DEF LibraryCaret, low
  <2>2. Raised("^", c) = 1
    BY <1>1, <1>2, <1>3, RaisedByCaret
  <2> QED
    BY <2>1, <2>2
<1>4. CASE ~(low[1] > 0 \/ Given(c) = 1) /\ (Given(c) = 2 \/ low[2] > 0)
  <2>1. low[1] = 0 /\ (Given(c) = 2 \/ (Given(c) = 3 /\ low[2] > 0))
    BY <1>1, <1>2, <1>4
  <2>2. LibraryCaret(c) = Between(c, 2)
    BY <1>4, <2>1, Zenon DEF LibraryCaret, low
  <2>3. Raised("^", c) = 2
    BY <1>1, <1>2, <1>4, RaisedByCaret
  <2> QED
    BY <2>2, <2>3
<1>5. CASE ~(low[1] > 0 \/ Given(c) = 1) /\ ~(Given(c) = 2 \/ low[2] > 0)
  <2>1. Given(c) = 3 /\ low[1] = 0 /\ low[2] = 0
    BY <1>1, <1>2, <1>5
  <2>2. LibraryCaret(c) =
          Bound(">=", Low(c)) \cup Bound("<", [core |-> Low(c).core + 1, pre |-> 0])
    BY <1>5, Zenon DEF LibraryCaret, low
  <2>3. Raised("^", c) = 3
    BY <1>1, <1>2, <1>5, RaisedByCaret
  <2>4. [core |-> Low(c).core + 1, pre |-> 0] = Beyond(c, 3)
    <3> DEFINE high == [low EXCEPT ![3] = @ + 1]
    <3>1. Low(c) = [core |-> CoreOf(low), pre |-> c.pre]
      BY DEF Low, low
    <3>2. Beyond(c, 3) = [core |-> CoreOf(high), pre |-> 0]
      BY <2>1 DEF Beyond, low
    <3>3. high[1] = 0 /\ high[2] = 0 /\ high[3] = low[3] + 1
      BY <2>1 DEF Zeroed, low
    <3> HIDE DEF high
    <3>4. low[3] \in Nat /\ Base \in Nat
      BY <1>1, <1>2, ComponentAssumption DEF Base
    <3>5. CoreOf(high) = CoreOf(low) + 1
      BY <2>1, <3>3, <3>4 DEF CoreOf
    <3> QED
      BY <3>1, <3>2, <3>5
  <2> QED
    BY <2>2, <2>3, <2>4 DEF Between
<1> QED
  BY <1>3, <1>4, <1>5

(* What checkPartial accepts, the library reads as npm does, whatever the   *)
(* operator: the special cases of its "dirty" versions and npm's desugaring *)
(* come to the same bounds.                                                 *)
LEMMA SameBounds ==
    ASSUME NEW c \in ComparatorFields, NEW op \in Ops, CheckPartial(op, c)
    PROVE  LibraryReads(op, c) = NpmComparator(op, c)
<1>1. Given(c) \in 0..3 /\ (op # Empty => Given(c) > 0) /\ ~(op = "~" /\ c.parts = <<0, 0, 0>>)
  BY GivenFacts DEF CheckPartial
<1>3. CASE op \in {"<", ">="}
  <2>1. Given(c) > 0 /\ Raised(op, c) = 0 /\ Raised(op, c) \in 0..3
    BY <1>1, EmptyIsNoOperator, <1>3, RaisedByOthers
  <2> QED
    BY <1>1, EmptyIsNoOperator, <1>3, <2>1, LibraryCases, NpmCases
<1>4. CASE op \in {">", "<="}
  <2>1. Given(c) > 0 /\ Raised(op, c) = (IF Given(c) = 3 THEN 0 ELSE Given(c))
    BY <1>1, EmptyIsNoOperator, <1>4, RaisedByOthers
  <2>2. Raised(op, c) \in 0..3
    BY <1>1, <2>1
  <2>3. CASE Given(c) = 3
    BY <1>1, EmptyIsNoOperator, <1>4, <2>1, <2>2, <2>3, LibraryCases, NpmCases
  <2>4. CASE Given(c) # 3
    BY <1>1, EmptyIsNoOperator, <1>4, <2>1, <2>2, <2>4, LibraryCases, NpmCases
  <2> QED
    BY <2>3, <2>4
<1>5. CASE op \in {Empty, "="}
  <2>1. Raised(op, c) = (IF Given(c) = 3 THEN 0 ELSE Given(c))
    BY <1>1, EmptyIsNoOperator, <1>5, RaisedByOthers
  <2>2. Raised(op, c) \in 0..3
    BY <1>1, <2>1
  <2>3. CASE Given(c) = 3
    BY <1>1, EmptyIsNoOperator, <1>5, <2>1, <2>2, <2>3, LibraryCases, NpmCases
  <2>4. CASE Given(c) # 3
    <3>1. c.parts # <<0, 0, 0>>
      BY <2>4, ZerosAreFull
    <3> QED
      BY <1>1, EmptyIsNoOperator, <1>5, <2>1, <2>2, <2>4, <3>1, LibraryCases, NpmCases, TildeCases
  <2> QED
    BY <2>3, <2>4
<1>6. CASE op = "~"
  <2>1. Given(c) > 0 /\ Raised(op, c) = (IF Given(c) = 1 THEN 1 ELSE 2)
    BY <1>1, EmptyIsNoOperator, <1>6, RaisedByOthers
  <2> QED
    BY <1>1, EmptyIsNoOperator, <1>6, <2>1, LibraryCases, NpmCases, TildeCases
<1>7. CASE op = "^"
  <2>1. Given(c) > 0 /\ Raised(op, c) \in 1..3
    BY <1>1, EmptyIsNoOperator, <1>7, RaisedByCaret
  <2> QED
    BY <1>1, EmptyIsNoOperator, <1>7, <2>1, LibraryCases, NpmCases, CaretCases
<1> QED
  BY <1>3, <1>4, <1>5, <1>6, <1>7 DEF Ops

(* What checkPartial accepts is in npm's grammar, and no bound made of it   *)
(* has a component npm cannot represent.                                    *)
LEMMA AcceptedPartials ==
    ASSUME NEW c \in ComparatorFields, NEW op \in Ops, CheckPartial(op, c)
    PROVE  NpmAccepts(op, c)
<1>1. /\ c.kind = "comparator"
      /\ \A i \in DOMAIN c.parts : i > Given(c) => c.parts[i] = Wild
      /\ \A n \in Components(c) : n < MaxComponent
      /\ c.pre # 0 => IsFull(c)
  BY DEF CheckPartial
<1>2. ASSUME NEW i \in 1..Given(c)
      PROVE  c.parts[i] <= MaxComponent - (IF i = Raised(op, c) THEN 1 ELSE 0)
  <2>1. i \in DOMAIN c.parts /\ c.parts[i] \in Nat
    BY GivenFacts
  <2>2. c.parts[i] \in Components(c)
    BY <2>1 DEF Components, Wild
  <2>3. c.parts[i] < MaxComponent
    BY <1>1, <2>2
  <2> QED
    BY <2>1, <2>3, ComponentAssumption
<1>3. Given(c) = 0 => Components(c) = {}
  BY <1>1, GivenFacts DEF Components
<1> QED
  BY <1>1, <1>2, <1>3 DEF NpmAccepts

-----------------------------------------------------------------------------
(* Comparing: the recursion has a value for every sequence of fields.       *)

\* What Comparing makes of the fields from the i-th on, when it makes f of the
\* later ones.
From(set, f, i) ==
    CASE i > Len(set)                -> <<>>
      [] i <= Len(set) /\ set[i].kind # "operator" -> <<set[i]>> \o f[i + 1]
      [] i = Len(set) /\ set[i].kind = "operator"  -> <<Garbage>>
      [] OTHER -> <<Glue(set[i].op, set[i + 1])>> \o f[i + 2]

LEMMA FromCases ==
    ASSUME NEW set \in Seq(Fields), NEW f, NEW i \in 1..Len(set) + 2
    PROVE  /\ i > Len(set) => From(set, f, i) = <<>>
           /\ i <= Len(set) /\ set[i].kind # "operator" =>
                From(set, f, i) = <<set[i]>> \o f[i + 1]
           /\ i = Len(set) /\ set[i].kind = "operator" => From(set, f, i) = <<Garbage>>
           /\ i < Len(set) /\ set[i].kind = "operator" =>
                From(set, f, i) = <<Glue(set[i].op, set[i + 1])>> \o f[i + 2]
<1>1. /\ Len(set) \in Nat
      /\ ~(i > Len(set)) <=> i <= Len(set)
      /\ i < Len(set) => i <= Len(set) /\ ~(i = Len(set))
      /\ i = Len(set) => i <= Len(set)
  OBVIOUS
<1> QED
  BY <1>1, Zenon DEF From

LEMMA GlueType ==
    ASSUME NEW op \in Ops, NEW c \in Fields
    PROVE  Glue(op, c) \in Fields
<1>1. CASE c.kind = "comparator" /\ c.op = Empty
  <2>1. Glue(op, c) = [c EXCEPT !.op = op]
    BY <1>1, EmptyIsNoOperator, Zenon DEF Glue
  <2>2. c \in ComparatorFields
    BY <1>1 DEF Fields, Field, Hyphen, Garbage
  <2>3. [c EXCEPT !.op = op] \in ComparatorFields
    BY <2>2 DEF ComparatorFields
  <2> QED
    BY <2>1, <2>3 DEF Fields
<1>2. CASE c.kind = "comparator" /\ c.op = "=" /\ op \in {"<", ">"}
  <2> DEFINE wide == IF op = "<" THEN "<=" ELSE ">="
  <2>1. Glue(op, c) = [c EXCEPT !.op = wide]
    BY <1>2, EmptyIsNoOperator, Zenon DEF Glue
  <2>2. c \in ComparatorFields
    BY <1>2 DEF Fields, Field, Hyphen, Garbage
  <2>3. wide \in Ops
    BY DEF Ops
  <2>4. [c EXCEPT !.op = wide] \in ComparatorFields
    BY <2>2, <2>3 DEF ComparatorFields
  <2> QED
    BY <2>1, <2>4 DEF Fields
<1>3. CASE ~(c.kind = "comparator" /\ c.op = Empty) /\ ~(c.kind = "comparator" /\ c.op = "=" /\ op \in {"<", ">"})
  <2>1. Glue(op, c) = Garbage
    BY <1>3, Zenon DEF Glue
  <2> QED
    BY <2>1 DEF Fields
<1> QED
  BY <1>1, <1>2, <1>3

LEMMA FromType ==
    ASSUME NEW set \in Seq(Fields), NEW f, NEW i \in 1..Len(set) + 2,
           \A j \in i + 1..Len(set) + 2 : f[j] \in Seq(Fields)
    PROVE  From(set, f, i) \in Seq(Fields)
<1>1. CASE i > Len(set)
  <2>1. From(set, f, i) = <<>>
    BY <1>1, FromCases
  <2> QED
    BY <2>1, EmptySeq
<1>2. CASE i <= Len(set) /\ set[i].kind # "operator"
  <2>1. set[i] \in Fields /\ f[i + 1] \in Seq(Fields)
    BY <1>2
  <2>2. From(set, f, i) = <<set[i]>> \o f[i + 1]
    BY <1>2, FromCases
  <2> QED
    BY <2>1, <2>2
<1>3. CASE i = Len(set) /\ set[i].kind = "operator"
  <2>1. Garbage \in Fields
    BY DEF Fields
  <2>2. From(set, f, i) = <<Garbage>>
    BY <1>3, FromCases
  <2> QED
    BY <2>1, <2>2
<1>4. CASE i < Len(set) /\ set[i].kind = "operator"
  <2>1. set[i] \in Fields /\ set[i + 1] \in Fields /\ f[i + 2] \in Seq(Fields)
    BY <1>4
  <2>2. set[i].op \in Ops
    BY <1>4, <2>1 DEF Fields, Field, ComparatorFields, Hyphen, Garbage
  <2>3. Glue(set[i].op, set[i + 1]) \in Fields
    BY <2>1, <2>2, GlueType
  <2>4. From(set, f, i) = <<Glue(set[i].op, set[i + 1])>> \o f[i + 2]
    BY <1>4, FromCases
  <2> QED
    BY <2>1, <2>3, <2>4
<1> QED
  BY <1>1, <1>2, <1>3, <1>4

\* The functions that the recursion determines from the k-th position before
\* the end on.
Solutions(set, k) ==
    {f \in [Len(set) + 2 - k..Len(set) + 2 -> Seq(Fields)] :
       \A i \in Len(set) + 2 - k..Len(set) + 2 : f[i] = From(set, f, i)}

LEMMA FromLooksAhead ==
    ASSUME NEW set \in Seq(Fields), NEW f, NEW g, NEW i \in 1..Len(set) + 2,
           \A j \in i + 1..Len(set) + 2 : f[j] = g[j]
    PROVE  From(set, f, i) = From(set, g, i)
<1>1. CASE i > Len(set)
  BY <1>1, FromCases
<1>2. CASE i <= Len(set) /\ set[i].kind # "operator"
  <2>1. f[i + 1] = g[i + 1]
    BY <1>2
  <2>2. From(set, f, i) = <<set[i]>> \o f[i + 1] /\ From(set, g, i) = <<set[i]>> \o g[i + 1]
    BY <1>2, FromCases
  <2> QED
    BY <2>1, <2>2
<1>3. CASE i = Len(set) /\ set[i].kind = "operator"
  BY <1>3, FromCases
<1>4. CASE i < Len(set) /\ set[i].kind = "operator"
  <2>1. f[i + 2] = g[i + 2]
    BY <1>4
  <2>2. /\ From(set, f, i) = <<Glue(set[i].op, set[i + 1])>> \o f[i + 2]
        /\ From(set, g, i) = <<Glue(set[i].op, set[i + 1])>> \o g[i + 2]
    BY <1>4, FromCases
  <2> QED
    BY <2>1, <2>2
<1> QED
  BY <1>1, <1>2, <1>3, <1>4

LEMMA SolutionsExist ==
    ASSUME NEW set \in Seq(Fields)
    PROVE  Solutions(set, Len(set) + 1) # {}
<1> DEFINE n == Len(set)
           T == {k \in Nat : k <= n + 1 => Solutions(set, k) # {}}
<1>1. n \in Nat
  OBVIOUS
<1>2. 0 \in T
  <2> DEFINE f == [i \in {n + 2} |-> <<>>]
  <2>1. f \in [n + 2 - 0..n + 2 -> Seq(Fields)]
    BY <1>1, EmptySeq
  <2> HIDE DEF f
  <2>2. From(set, f, n + 2) = <<>>
    <3>1. n + 2 \in 1..n + 2 /\ n + 2 > n
      BY <1>1
    <3> QED
      BY <3>1, FromCases
  <2>3. f \in Solutions(set, 0)
    BY <1>1, <2>1, <2>2 DEF Solutions, f
  <2> QED
    BY <2>3
<1>3. ASSUME NEW k \in T PROVE k + 1 \in T
  <2> SUFFICES ASSUME k + 1 <= n + 1 PROVE Solutions(set, k + 1) # {}
    OBVIOUS
  <2> DEFINE at == n + 2 - (k + 1)
  <2>1. k \in Nat /\ at \in 1..n + 2 /\ at + 1 = n + 2 - k
    BY <1>1
  <2>2. PICK f \in Solutions(set, k) : TRUE
    BY <1>1
  <2> DEFINE g == [i \in at..n + 2 |-> IF i = at THEN From(set, f, at) ELSE f[i]]
  <2> HIDE DEF at
  <2>3. \A i \in at + 1..n + 2 : f[i] \in Seq(Fields) /\ f[i] = From(set, f, i)
    BY <2>1, <2>2 DEF Solutions
  <2>4. From(set, f, at) \in Seq(Fields)
    BY <2>1, <2>3, FromType
  <2>5. \A i \in at + 1..n + 2 : g[i] = f[i]
    BY <1>1, <2>1
  <2>6. g \in [at..n + 2 -> Seq(Fields)]
    BY <2>1, <2>3, <2>4
  <2>7. ASSUME NEW i \in at..n + 2 PROVE g[i] = From(set, g, i)
    <3>1. \A j \in i + 1..n + 2 : f[j] = g[j]
      BY <1>1, <2>1, <2>5
    <3>2. From(set, f, i) = From(set, g, i)
      <4>1. i \in 1..n + 2
        BY <1>1, <2>1
      <4> QED
        BY <1>1, <3>1, <4>1, FromLooksAhead
    <3> QED
      BY <1>1, <2>1, <2>3, <3>2
  <2>8. g \in Solutions(set, k + 1)
    BY <2>6, <2>7 DEF Solutions, at
  <2> QED
    BY <2>8
<1>4. T = Nat
  <2> HIDE DEF T
  <2>1. T \subseteq Nat
    BY DEF T
  <2> QED
    BY <1>2, <1>3, <2>1, SetInduction
<1> QED
  BY <1>1, <1>4

LEMMA ComparingUnfolds ==
    ASSUME NEW set \in Seq(Fields)
    PROVE  \E f : /\ Comparing(set) = f[1]
                  /\ f = [i \in 1..Len(set) + 2 |-> From(set, f, i)]
<1> DEFINE n == Len(set)
           Step(f) == [i \in 1..n + 2 |-> From(set, f, i)]
           chosen == CHOOSE f : f = Step(f)
<1>1. PICK f \in Solutions(set, n + 1) : TRUE
  BY SolutionsExist
<1>2. n + 2 - (n + 1) = 1
  OBVIOUS
<1>3. f = Step(f)
  BY <1>1, <1>2 DEF Solutions
<1>4. chosen = Step(chosen)
  BY <1>3, Zenon
<1>5. Comparing(set) = chosen[1]
  BY Zenon DEF Comparing, From
<1> QED
  BY <1>4, <1>5, Zenon

LEMMA ComparingType ==
    ASSUME NEW set \in Seq(Fields)
    PROVE  Comparing(set) \in Seq(Fields)
<1> DEFINE n == Len(set)
<1>1. PICK f : Comparing(set) = f[1] /\ f = [i \in 1..n + 2 |-> From(set, f, i)]
  BY ComparingUnfolds, Zenon
<1>2. \A i \in 1..n + 2 : f[i] = From(set, f, i)
  BY <1>1
<1> DEFINE T == {k \in Nat : \A i \in 1..n + 2 : i >= n + 2 - k => f[i] \in Seq(Fields)}
<1>3. n \in Nat
  OBVIOUS
<1>4. 0 \in T
  <2>1. ASSUME NEW i \in 1..n + 2, i >= n + 2 - 0 PROVE f[i] \in Seq(Fields)
    <3>1. \A j \in i + 1..n + 2 : f[j] \in Seq(Fields)
      BY <1>3, <2>1
    <3> QED
      BY <1>2, <3>1, FromType
  <2> QED
    BY <2>1
<1>5. ASSUME NEW k \in T PROVE k + 1 \in T
  <2>1. ASSUME NEW i \in 1..n + 2, i >= n + 2 - (k + 1) PROVE f[i] \in Seq(Fields)
    <3>1. \A j \in i + 1..n + 2 : f[j] \in Seq(Fields)
      BY <1>3, <1>5, <2>1
    <3> QED
      BY <1>2, <3>1, FromType
  <2> QED
    BY <2>1
<1>6. n + 1 \in T
  <2> HIDE DEF T
  <2>1. T \subseteq Nat
    BY DEF T
  <2>2. T = Nat
    BY <1>4, <1>5, <2>1, SetInduction
  <2> QED
    BY <1>3, <2>2
<1> QED
  BY <1>1, <1>3, <1>6

(* Without an operator on its own nothing is put together.                  *)
LEMMA ComparingPlain ==
    ASSUME NEW set \in Seq(Fields), \A i \in DOMAIN set : set[i].kind # "operator"
    PROVE  Comparing(set) = set
<1> DEFINE n == Len(set)
<1>1. PICK f : Comparing(set) = f[1] /\ f = [i \in 1..n + 2 |-> From(set, f, i)]
  BY ComparingUnfolds, Zenon
<1>2. \A i \in 1..n + 2 : f[i] = From(set, f, i)
  BY <1>1
<1> DEFINE T == {k \in Nat : k <= n => f[n + 1 - k] = SubSeq(set, n + 1 - k, n)}
<1>3. n \in Nat
  OBVIOUS
<1>4. 0 \in T
  <2>1. n + 1 - 0 \in 1..n + 2 /\ n + 1 - 0 > n
    BY <1>3
  <2>2. f[n + 1 - 0] = <<>>
    BY <1>2, <2>1, FromCases
  <2>3. SubSeq(set, n + 1 - 0, n) = <<>>
    BY <1>3, SubSeqEmpty
  <2> QED
    BY <2>2, <2>3
<1>5. ASSUME NEW k \in T PROVE k + 1 \in T
  <2> SUFFICES ASSUME k + 1 <= n PROVE f[n + 1 - (k + 1)] = SubSeq(set, n + 1 - (k + 1), n)
    OBVIOUS
  <2> DEFINE i == n + 1 - (k + 1)
  <2>1. i \in 1..n /\ i + 1 = n + 1 - k /\ n \in i..n
    BY <1>3
  <2>2. f[i + 1] = SubSeq(set, i + 1, n)
    BY <1>3, <2>1
  <2> HIDE DEF i
  <2>3. i \in 1..n + 2 /\ i <= n /\ set[i].kind # "operator"
    BY <1>3, <2>1
  <2>4. f[i] = <<set[i]>> \o f[i + 1]
    BY <1>2, <2>3, FromCases
  <2>5. SubSeq(set, i, n) = <<set[i]>> \o SubSeq(set, i + 1, n)
    BY <2>1, SubSeqRecursiveFirst
  <2> QED
    BY <2>2, <2>4, <2>5 DEF i
<1>6. n \in T
  <2> HIDE DEF T
  <2>1. T \subseteq Nat
    BY DEF T
  <2>2. T = Nat
    BY <1>4, <1>5, <2>1, SetInduction
  <2> QED
    BY <1>3, <2>2
<1>7. f[1] = SubSeq(set, 1, n)
  BY <1>3, <1>6
<1> QED
  BY <1>1, <1>7, SubSeqFull

-----------------------------------------------------------------------------
(* One "||"-separated set.                                                  *)

LEMMA CheckedField ==
    ASSUME NEW op, NEW c \in Fields, CheckPartial(op, c)
    PROVE  c \in ComparatorFields /\ c.op \in Ops
<1>1. c.kind = "comparator"
  BY DEF CheckPartial
<1>2. c \in ComparatorFields
  BY <1>1 DEF Fields, Field, Hyphen, Garbage
<1> QED
  BY <1>2 DEF ComparatorFields

(* The ends of a hyphen range are read as its two comparators.              *)
LEMMA HyphenEnds ==
    ASSUME NEW c \in Fields, CheckPartial("-", c), NEW op \in {">=", "<="}
    PROVE  LibraryReads(op, c) = NpmComparator(op, c) /\ NpmAccepts(op, c)
<1>1. c \in ComparatorFields
  BY CheckedField
<1>2. op \in Ops /\ op # "~" /\ op # Empty
  BY EmptyIsNoOperator DEF Ops
<1>3. CheckPartial(op, c)
  BY <1>2, EmptyIsNoOperator, Zenon DEF CheckPartial
<1> QED
  BY <1>1, <1>2, <1>3, SameBounds, AcceptedPartials

LEMMA AcceptedHyphenRange ==
    ASSUME NEW set \in Seq(Fields), IsHyphenRange(set), NormalizeSet(set) # <<>>
    PROVE  /\ NormalizeSet(set) = set
           /\ LibrarySet(set) = NpmSet(set)
           /\ NpmReadsSet(set)
<1>1. NormalizeSet(set) = set /\ \A i \in {1, 3} : set[i].op = Empty /\ CheckPartial("-", set[i])
  BY Zenon DEF NormalizeSet
<1>2. set[1] \in Fields /\ set[3] \in Fields
  BY DEF IsHyphenRange
<1>3. LibraryReads(">=", set[1]) = NpmComparator(">=", set[1]) /\ NpmAccepts(">=", set[1])
  BY <1>1, <1>2, HyphenEnds
<1>4. LibraryReads("<=", set[3]) = NpmComparator("<=", set[3]) /\ NpmAccepts("<=", set[3])
  BY <1>1, <1>2, HyphenEnds
<1>5. LibrarySet(set) = LibraryReads(">=", set[1]) \cup LibraryReads("<=", set[3])
  BY Zenon DEF LibrarySet
<1>6. NpmSet(set) = NpmComparator(">=", set[1]) \cup NpmComparator("<=", set[3])
  BY Zenon DEF NpmSet
<1>7. NpmReadsSet(set)
  BY <1>1, <1>3, <1>4, Zenon DEF NpmReadsSet
<1> QED
  BY <1>1, <1>3, <1>4, <1>5, <1>6, <1>7

LEMMA AcceptedComparators ==
    ASSUME NEW set \in Seq(Fields), ~IsHyphenRange(set), NormalizeSet(set) # <<>>
    PROVE  /\ NormalizeSet(set) = Comparing(set)
           /\ ~IsHyphenRange(Comparing(set))
           /\ LibrarySet(Comparing(set)) = NpmSet(set)
           /\ NpmReadsSet(set)
           /\ \A i \in DOMAIN Comparing(set) : Comparing(set)[i] \in ComparatorFields
<1> DEFINE s == Comparing(set)
<1>1. NormalizeSet(set) = s /\ \A i \in DOMAIN s : CheckPartial(s[i].op, s[i])
  BY Zenon DEF NormalizeSet
<1>2. s \in Seq(Fields)
  BY ComparingType
<1>3. \A i \in DOMAIN s : s[i] \in ComparatorFields /\ s[i].op \in Ops
  <2> HIDE DEF s
  <2> TAKE i \in DOMAIN s
  <2>1. s[i] \in Fields
    BY <1>2
  <2> QED
    BY <1>1, <2>1, CheckedField
<1>4. \A i \in DOMAIN s : /\ LibraryReads(s[i].op, s[i]) = NpmComparator(s[i].op, s[i])
                          /\ NpmAccepts(s[i].op, s[i])
  BY <1>1, <1>3, SameBounds, AcceptedPartials
<1>5. ~IsHyphenRange(s)
  <2> SUFFICES ASSUME IsHyphenRange(s) PROVE FALSE
    OBVIOUS
  <2> HIDE DEF s
  <2>1. 2 \in DOMAIN s /\ s[2] = Hyphen
    BY <1>2 DEF IsHyphenRange
  <2>2. Hyphen.kind = "hyphen"
    BY DEF Hyphen, Field
  <2>3. s[2].kind = "comparator"
    BY <1>3, <2>1 DEF ComparatorFields
  <2> QED
    BY <2>1, <2>2, <2>3
<1>6. LibrarySet(s) = UNION {LibraryReads(s[i].op, s[i]) : i \in DOMAIN s}
  BY <1>5, Zenon DEF LibrarySet
<1>7. NpmSet(set) = UNION {NpmComparator(s[i].op, s[i]) : i \in DOMAIN s}
  BY Zenon DEF NpmSet
<1>8. NpmReadsSet(set)
  BY <1>4, Zenon DEF NpmReadsSet
<1> HIDE DEF s
<1>9. {LibraryReads(s[i].op, s[i]) : i \in DOMAIN s} = {NpmComparator(s[i].op, s[i]) : i \in DOMAIN s}
  BY <1>4
<1> QED
  BY <1>1, <1>3, <1>5, <1>6, <1>7, <1>8, <1>9 DEF s

(* What one set means, and that normalizing it again leaves it alone.       *)
LEMMA AcceptedSet ==
    ASSUME NEW set \in Seq(Fields), NormalizeSet(set) # <<>>
    PROVE  /\ NormalizeSet(set) \in Seq(Fields)
           /\ LibrarySet(NormalizeSet(set)) = NpmSet(set)
           /\ NpmReadsSet(set)
           /\ NormalizeSet(NormalizeSet(set)) = NormalizeSet(set)
<1>1. CASE IsHyphenRange(set)
  BY <1>1, AcceptedHyphenRange
<1>2. CASE ~IsHyphenRange(set)
  <2> DEFINE s == Comparing(set)
  <2>1. /\ NormalizeSet(set) = s
        /\ ~IsHyphenRange(s)
        /\ LibrarySet(s) = NpmSet(set)
        /\ NpmReadsSet(set)
        /\ \A i \in DOMAIN s : s[i] \in ComparatorFields
    BY <1>2, AcceptedComparators
  <2>2. s \in Seq(Fields)
    BY ComparingType
  <2>3. Comparing(s) = s
    <3>1. \A i \in DOMAIN s : s[i].kind # "operator"
      BY <2>1 DEF ComparatorFields
    <3> HIDE DEF s
    <3> QED
      BY <2>2, <3>1, ComparingPlain
  <2>4. NormalizeSet(s) = s
    <3>1. \A i \in DOMAIN s : CheckPartial(s[i].op, s[i])
      BY <1>2, Zenon DEF NormalizeSet
    <3> QED
      BY <2>1, <2>3, <3>1, Zenon DEF NormalizeSet
  <2> QED
    BY <2>1, <2>2, <2>4
<1> QED
  BY <1>1, <1>2

-----------------------------------------------------------------------------
(* Texts.                                                                   *)

\* The sets of a text, each normalized.
NormalSets(text) == [i \in DOMAIN text.sets |-> NormalizeSet(text.sets[i])]

LEMMA TextType ==
    ASSUME NEW text \in Written
    PROVE  /\ text.sets \in Seq(Seq(Fields)) /\ DOMAIN text.sets = 1..Len(text.sets)
           /\ \A i \in DOMAIN text.sets : text.sets[i] \in Seq(Fields)
BY DEF Written

LEMMA AcceptedText ==
    ASSUME NEW text \in Written, Normalize(text) # Refused
    PROVE  /\ text # Refused /\ text.ws \notin {"nel", "nel outside"}
           /\ \A i \in DOMAIN text.sets : NormalizeSet(text.sets[i]) # <<>>
           /\ Normalize(text) = Text(NormalSets(text), 2, "spaces")
           /\ NormalSets(text) \in Seq(Seq(Fields))
           /\ DOMAIN NormalSets(text) = DOMAIN text.sets
<1> DEFINE sets == NormalSets(text)
<1>1. /\ ~(text = Refused) /\ text.ws \notin {"nel", "nel outside"}
      /\ ~\E i \in DOMAIN sets : sets[i] = <<>>
      /\ Normalize(text) = Text(sets, 2, "spaces")
  BY Zenon DEF Normalize, NormalSets
<1>2. DOMAIN sets = DOMAIN text.sets /\ \A i \in DOMAIN text.sets : sets[i] = NormalizeSet(text.sets[i])
  BY DEF NormalSets
<1>3. \A i \in DOMAIN text.sets : NormalizeSet(text.sets[i]) # <<>>
  BY <1>1, <1>2
<1>4. \A i \in DOMAIN text.sets : NormalizeSet(text.sets[i]) \in Seq(Fields)
  BY <1>3, TextType, AcceptedSet
<1>5. sets \in [1..Len(text.sets) -> Seq(Fields)]
  BY <1>4, TextType DEF NormalSets
<1>6. Len(text.sets) \in Nat
  BY TextType
<1>7. sets \in Seq(Seq(Fields))
  BY <1>5, <1>6
<1> QED
  BY <1>1, <1>2, <1>3, <1>7

(* What Normalize accepts, npm can read, and the Masterminds parser makes   *)
(* of the normalized text the bounds that npm's desugaring makes of the     *)
(* declared one (semverrange.go: the canonical text means the same to both).*)
THEOREM NormalizedMeansTheSame ==
    ASSUME NEW text \in Written, Normalize(text) # Refused
    PROVE  NpmReads(text) /\ Parse(Normalize(text)) = NpmRange(text)
<1> DEFINE sets == NormalSets(text)
<1>1. /\ text.ws \notin {"nel", "nel outside"}
      /\ \A i \in DOMAIN text.sets : NormalizeSet(text.sets[i]) # <<>>
      /\ Normalize(text) = Text(sets, 2, "spaces")
      /\ DOMAIN sets = DOMAIN text.sets
  BY AcceptedText
<1>2. \A i \in DOMAIN text.sets :
        /\ LibrarySet(NormalizeSet(text.sets[i])) = NpmSet(text.sets[i])
        /\ NpmReadsSet(text.sets[i])
  BY <1>1, TextType, AcceptedSet
<1>3. NpmReads(text)
  BY <1>1, <1>2 DEF NpmReads
<1>4. NpmRange(text) = {NpmSet(text.sets[i]) : i \in DOMAIN text.sets}
  BY <1>3 DEF NpmRange
<1>5. \A i \in DOMAIN text.sets : sets[i] = NormalizeSet(text.sets[i])
  BY DEF NormalSets
<1>6. Parse(Normalize(text)) = {LibrarySet(set) : set \in {sets[i] : i \in DOMAIN sets}}
  <2>1. Normalize(text).sets = sets
    <3> HIDE DEF sets
    <3>1. Normalize(text) = Text(sets, 2, "spaces")
      BY <1>1
    <3> QED
      BY <3>1 DEF Text
  <2> QED
    BY <2>1 DEF Parse
<1> HIDE DEF sets
<1>7. {LibrarySet(set) : set \in {sets[i] : i \in DOMAIN sets}} = {LibrarySet(sets[i]) : i \in DOMAIN sets}
  OBVIOUS
<1>8. {LibrarySet(sets[i]) : i \in DOMAIN sets} = {NpmSet(text.sets[i]) : i \in DOMAIN text.sets}
  BY <1>1, <1>2, <1>5
<1> QED
  BY <1>3, <1>4, <1>6, <1>7, <1>8

(* Normalizing a normalized text again leaves it as it is, or refuses it    *)
(* because of its length alone (semverrange.go: Parse normalizes once more).*)
THEOREM NormalizeIsIdempotent ==
    ASSUME NEW text \in Written, Normalize(text) # Refused
    PROVE  /\ Normalize(text) \in Written
           /\ Normalize(Normalize(text)) =
                IF Bytes(Normalize(text)) > MaxLen THEN Refused ELSE Normalize(text)
<1> DEFINE sets == NormalSets(text)
           normal == Normalize(text)
<1>1. /\ \A i \in DOMAIN text.sets : NormalizeSet(text.sets[i]) # <<>>
      /\ normal = Text(sets, 2, "spaces")
      /\ sets \in Seq(Seq(Fields))
      /\ DOMAIN sets = DOMAIN text.sets
  BY AcceptedText
<1>2. /\ normal.sets = sets /\ normal.gap = 2 /\ normal.ws = "spaces"
  BY <1>1 DEF Text
<1>3. normal \in Written
  <2> HIDE DEF sets, normal
  <2> QED
    BY <1>1 DEF Written, Text, Whitespace
<1>4. normal # Refused
  OBVIOUS
<1>5. \A i \in DOMAIN sets : NormalizeSet(sets[i]) = sets[i] /\ sets[i] # <<>>
  BY <1>1, TextType, AcceptedSet DEF NormalSets
<1>6. NormalSets(normal) = sets
  <2>1. NormalSets(normal) = [i \in DOMAIN sets |-> NormalizeSet(sets[i])]
    BY <1>2 DEF NormalSets
  <2>2. sets = [i \in DOMAIN sets |-> sets[i]]
    BY <1>1
  <2> HIDE DEF sets, normal
  <2> QED
    BY <1>5, <2>1, <2>2
<1> HIDE DEF sets, normal
<1>7. CASE Bytes(normal) > MaxLen
  <2>1. Normalize(normal) = Refused
    BY <1>7, Zenon DEF Normalize
  <2> QED
    BY <1>3, <1>7, <2>1 DEF normal
<1>8. CASE ~(Bytes(normal) > MaxLen)
  <2>1. normal.ws \notin {"nel", "nel outside"}
    BY <1>2
  <2>2. Normalize(normal) = Text(sets, 2, "spaces")
    <3>1. ~(\/ normal = Refused
            \/ Bytes(normal) > MaxLen
            \/ normal.ws \in {"nel", "nel outside"}
            \/ \E i \in DOMAIN NormalSets(normal) : NormalSets(normal)[i] = <<>>)
      BY <1>4, <1>5, <1>6, <1>8, <2>1
    <3>2. Normalize(normal) = Text(NormalSets(normal), 2, "spaces")
      BY <3>1, Zenon DEF Normalize, NormalSets
    <3> QED
      BY <1>6, <3>2
  <2> QED
    BY <1>1, <1>3, <1>8, <2>2 DEF normal
<1> QED
  BY <1>7, <1>8

-----------------------------------------------------------------------------
(* What Compare makes of a text.                                            *)

\* No text is no text again.
LEMMA RefusedStays == Normalize(Refused) = Refused
BY Zenon DEF Normalize

\* Trimming a text without a U+0085 changes nothing but blanks.
LEMMA TrimOfPlain ==
    ASSUME NEW text, text.ws # "nel outside"
    PROVE  Trim(text) \in {Blank, text}
<1>1. CASE text.sets = <<<<>>>>
  BY <1>1, Zenon DEF Trim
<1>2. CASE text.sets # <<<<>>>>
  BY <1>2, Zenon DEF Trim
<1> QED
  BY <1>1, <1>2

(* A valid constraint other than "present" is npm's reading of the declared *)
(* text: one exact version, or the whole range.                             *)
LEMMA ConstraintIsTheDeclaration ==
    ASSUME NEW d \in Written, NEW s,
           s = d \/ (Normalize(d) # Refused /\ s = Normalize(d)),
           ConstraintOf(s).kind \in {"exact", "range"}
    PROVE  /\ NpmReads(d)
           /\ Parse(Normalize(d)) = NpmRange(d)
           /\ \/ ConstraintOf(s) = InRange(NpmRange(d))
              \/ \E v : /\ ConstraintOf(s) = Exactly(v)
                        /\ NpmRange(d) = {{[op |-> "=", version |-> v]}}
<1> DEFINE n == Normalize(s)
<1>1. s # Word /\ Normalize(n) # Refused
  <2>1. CASE s = Word
    BY <2>1, Zenon DEF ConstraintOf, Present
  <2>2. CASE s # Word /\ Normalize(n) = Refused
    <3>1. ConstraintOf(s) = Invalid
      BY <2>2, Zenon DEF ConstraintOf
    <3> QED
      BY <3>1 DEF Invalid
  <2> QED
    BY <2>1, <2>2
<1>2. n = Normalize(d) /\ Normalize(d) # Refused
  <2>1. n # Refused
    BY <1>1, RefusedStays
  <2>2. CASE s = d
    BY <2>1, <2>2
  <2>3. CASE Normalize(d) # Refused /\ s = Normalize(d)
    BY <2>1, <2>3, NormalizeIsIdempotent
  <2> QED
    BY <2>2, <2>3
<1>3. NpmReads(d) /\ Parse(n) = NpmRange(d)
  BY <1>2, NormalizedMeansTheSame
<1>4. CASE ~IsExact(n)
  <2>1. ConstraintOf(s) = InRange(Parse(n))
    BY <1>1, <1>4, Zenon DEF ConstraintOf
  <2> QED
    BY <1>2, <1>3, <2>1
<1>5. CASE IsExact(n)
  <2> DEFINE c == n.sets[1][1]
  <2>1. ConstraintOf(s) = Exactly(Low(c))
    BY <1>1, <1>5, Zenon DEF ConstraintOf
  <2>2. n \in Written
    BY <1>2, NormalizeIsIdempotent
  <2>3. Len(n.sets) = 1 /\ Len(n.sets[1]) = 1 /\ c.op \in {Empty, "="} /\ IsFull(c)
    BY <1>5 DEF IsExact
  <2>4. DOMAIN n.sets = {1} /\ DOMAIN n.sets[1] = {1}
    BY <2>2, <2>3 DEF Written
  <2>5. LibraryReads(c.op, c) = Bound("=", Low(c))
    BY <2>3, LibraryCases DEF IsFull
  <2>6. LibrarySet(n.sets[1]) = Bound("=", Low(c))
    <3>1. ~IsHyphenRange(n.sets[1])
      BY <2>3 DEF IsHyphenRange
    <3>2. LibrarySet(n.sets[1]) =
            UNION {LibraryReads(n.sets[1][i].op, n.sets[1][i]) : i \in DOMAIN n.sets[1]}
      BY <3>1, Zenon DEF LibrarySet
    <3> HIDE DEF n
    <3> QED
      BY <2>4, <2>5, <3>2
  <2>7. Parse(n) = {Bound("=", Low(c))}
    <3> HIDE DEF n
    <3>1. {n.sets[i] : i \in DOMAIN n.sets} = {n.sets[1]}
      BY <2>4
    <3> QED
      BY <2>6, <3>1 DEF Parse
  <2> QED
    BY <1>2, <1>3, <2>1, <2>7 DEF Bound
<1> QED
  BY <1>4, <1>5
=============================================================================
