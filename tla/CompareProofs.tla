--------------------------- MODULE CompareProofs ---------------------------
(* Theorems about the engine in module CompareCheck, for every declared     *)
(* text, every observation and every limit.                                 *)
EXTENDS CompareCheck, RangeProofs

-----------------------------------------------------------------------------
(* The inductive invariant: a verdict is the engine's on what is stored, of *)
(* which nothing changes once a route was taken.                            *)
IInv ==
    /\ verdict = Pending \/ verdict = Compare(req, obs)
    /\ route = "none" => verdict = Pending

LEMMA InductiveInvariant == Spec => []IInv
<1>1. Init => IInv
  BY DEF Init, IInv
<1>2. IInv /\ [Next]_vars => IInv'
  <2> SUFFICES ASSUME IInv, [Next]_vars PROVE IInv'
    OBVIOUS
  <2>1. CASE Capture
    BY <2>1 DEF Capture, IInv, Pending, Verdict
  <2>2. CASE WriteByHand
    BY <2>2 DEF WriteByHand, IInv, Pending, Verdict
  <2>3. CASE Judge
    <3>1. req' = req
      BY <2>3 DEF Judge, req
    <3> QED
      BY <2>3, <3>1 DEF Judge, IInv
  <2>4. CASE UNCHANGED vars
    BY <2>4 DEF IInv, vars, req, Pending, Verdict
  <2> QED
    BY <2>1, <2>2, <2>3, <2>4 DEF Next, Judged
<1> QED
  BY <1>1, <1>2, PTL DEF Spec

-----------------------------------------------------------------------------
(* The engine alone.                                                        *)

(* PASS and FAIL come out of three branches only, behind the guards that    *)
(* establish what they are about.                                           *)
LEMMA DecidedBranches ==
    ASSUME NEW r, NEW o, Compare(r, o).status \in {"pass", "fail"}
    PROVE  /\ r.name = o.name
           /\ o.present \/ o.version = NoVersion
           /\ r.constraint.kind # "invalid"
           /\ (o.present /\ r.constraint.kind # "present") =>
                o.version # NoVersion /\ ComparableVersion(o.version)
           /\ ~o.present => Compare(r, o).status = "fail"
BY DEF Compare, Verdict, Satisfied

(* Behind them a comparable release is always decided.                      *)
LEMMA ComparableIsDecided ==
    ASSUME NEW r, NEW o,
           r.name = o.name, r.constraint.kind \in {"exact", "range"},
           o.present, o.version # NoVersion, ComparableVersion(o.version),
           IsPrerelease(o.version) => r.constraint.kind = "exact"
    PROVE  Compare(r, o).status \in {"pass", "fail"} /\ Compare(r, o).err = "none"
BY DEF Compare, Verdict, Satisfied

-----------------------------------------------------------------------------
(* No verdict without evidence, whatever is declared and observed: the      *)
(* order of the early returns leaves no way around a guard (compare.go:76). *)
THEOREM EvidenceNeeded == Spec => []NoVerdictWithoutEvidence
<1>1. IInv => NoVerdictWithoutEvidence
  <2> SUFFICES ASSUME IInv, verdict.status \in {"pass", "fail"}
               PROVE  NoVerdictWithoutEvidence
    BY DEF NoVerdictWithoutEvidence
  <2>1. verdict = Compare(req, obs)
    BY DEF IInv, Pending, Verdict
  <2> QED
    BY <2>1, DecidedBranches DEF NoVerdictWithoutEvidence, Comparable, ComparableVersion
<1> QED
  BY <1>1, InductiveInvariant, PTL

(* UNKNOWN is no escape, whatever is declared and observed: a comparable    *)
(* release against a valid constraint gets PASS or FAIL (compare.go:129).   *)
THEOREM ReleasesDecided == Spec => []ReleasesAreDecided
<1>1. IInv => ReleasesAreDecided
  BY ComparableIsDecided DEF IInv, ReleasesAreDecided, HasRange, Comparable, ComparableVersion
<1> QED
  BY <1>1, InductiveInvariant, PTL

-----------------------------------------------------------------------------
(* What is stored on either route.                                          *)
Routes ==
    /\ declared \in Texts
    /\ route \in {"none", "captured", "written"}
    /\ route = "written" => stored = declared
    /\ route = "captured" => /\ Trim(declared) # Blank
                             /\ Normalize(Trim(declared)) # Refused
                             /\ stored = Normalize(Trim(declared))

LEMMA RoutesInvariant == Spec => []Routes
<1>1. Init => Routes
  BY DEF Init, Routes
<1>2. Routes /\ [Next]_vars => Routes'
  <2> SUFFICES ASSUME Routes, [Next]_vars PROVE Routes'
    OBVIOUS
  <2>1. CASE Capture
    BY <2>1 DEF Capture, Routes
  <2>2. CASE WriteByHand
    BY <2>2 DEF WriteByHand, Routes
  <2>3. CASE Judge
    BY <2>3 DEF Judge, Routes
  <2>4. CASE UNCHANGED vars
    BY <2>4 DEF Routes, vars
  <2> QED
    BY <2>1, <2>2, <2>3, <2>4 DEF Next, Judged
<1> QED
  BY <1>1, <1>2, PTL DEF Spec

\* What was captured had no U+0085 around its fields: the detectors trim it, so
\* that a text npm cannot read is captured, and PassMeansReadable fails.
Untrimmed == route = "captured" => declared.ws # "nel outside"

(* On both routes the constraint is what Normalize makes of the declaration.*)
LEMMA StoredIsDeclared ==
    ASSUME Routes, Untrimmed, route # "none"
    PROVE  /\ declared \in Written
           /\ stored = declared
                \/ /\ route = "captured"
                   /\ Normalize(declared) # Refused
                   /\ stored = Normalize(declared)
<1>1. declared \in Written
  BY TextsAssumption DEF Routes
<1>2. CASE route = "written"
  BY <1>1, <1>2 DEF Routes
<1>3. CASE route = "captured"
  <2>1. Trim(declared) # Blank /\ Normalize(Trim(declared)) # Refused /\ stored = Normalize(Trim(declared))
    BY <1>3 DEF Routes
  <2>2. Trim(declared) \in {Blank, declared}
    BY <1>1, <1>3, TrimOfPlain DEF Untrimmed
  <2> QED
    BY <1>1, <1>3, <2>1, <2>2
<1> QED
  BY <1>2, <1>3 DEF Routes

(* The three consumers cannot differ on one exact version, nor on a release.*)
LEMMA ExactOpinions ==
    ASSUME NEW v, NEW w, NEW range, range = {{[op |-> "=", version |-> v]}}
    PROVE  /\ NodeSemver(range, w) <=> w = v
           /\ NpmEngines(range, w) <=> w = v
           /\ Check(range, w) <=> w = v
<1> DEFINE c == [op |-> "=", version |-> v]
<1>1. c.op = "=" /\ c.version = v
  OBVIOUS
<1> HIDE DEF c
<1>2. Holds(w, c) <=> w = v
  BY <1>1, Zenon DEF Holds
<1>3. range = {{c}}
  BY DEF c
<1> QED
  BY <1>1, <1>2, <1>3 DEF NodeSemver, NpmEngines, Check

LEMMA ReleaseOpinions ==
    ASSUME NEW w, NEW range, ~IsPrerelease(w)
    PROVE  /\ NodeSemver(range, w) <=> Check(range, w)
           /\ NpmEngines(range, w) <=> Check(range, w)
BY Zenon DEF NodeSemver, NpmEngines, Check

LEMMA Unanimous ==
    ASSUME NEW P \in BOOLEAN, NEW Q \in BOOLEAN, NEW R \in BOOLEAN, P <=> R, Q <=> R
    PROVE  (R => {P, Q, R} = {TRUE}) /\ (~R => {P, Q, R} = {FALSE})
<1>1. CASE R
  <2>1. P = TRUE /\ Q = TRUE /\ R = TRUE
    BY <1>1, Zenon
  <2>2. {P, Q, R} = {TRUE}
    BY <2>1, Zenon
  <2> QED
    BY <1>1, <2>2, Zenon
<1>2. CASE ~R
  <2>1. P = FALSE /\ Q = FALSE /\ R = FALSE
    BY <1>2, Zenon
  <2>2. {P, Q, R} = {FALSE}
    BY <2>1, Zenon
  <2> QED
    BY <1>2, <2>2, Zenon
<1> QED
  BY <1>1, <1>2, Zenon

(* The verdict on a present, comparable observation.                        *)
LEMMA RangeVerdict ==
    ASSUME NEW r, NEW o, Compare(r, o).status \in {"pass", "fail"}, o.present
    PROVE  /\ r.constraint.kind = "exact" =>
                Compare(r, o).status = IF o.version = r.constraint.version THEN "pass" ELSE "fail"
           /\ r.constraint.kind = "range" =>
                /\ ~IsPrerelease(o.version)
                /\ Compare(r, o).status = IF Check(r.constraint.range, o.version) THEN "pass" ELSE "fail"
BY DEF Compare, Verdict, Satisfied

(* All three opinions are one, and the verdict is that one.                 *)
LEMMA DecidedMeansUnanimous ==
    ASSUME NEW d \in Written, NEW s, NEW r, NEW o,
           s = d \/ (Normalize(d) # Refused /\ s = Normalize(d)),
           r.constraint = ConstraintOf(s), HasRange(r.constraint), o.present
    PROVE  /\ Compare(r, o).status = "pass" => Opinions(d, o.version) = {TRUE}
           /\ Compare(r, o).status = "fail" => NpmReads(d) /\ Opinions(d, o.version) = {FALSE}
<1> SUFFICES ASSUME Compare(r, o).status \in {"pass", "fail"}
             PROVE  /\ NpmReads(d)
                    /\ Compare(r, o).status = "pass" => Opinions(d, o.version) = {TRUE}
                    /\ Compare(r, o).status = "fail" => Opinions(d, o.version) = {FALSE}
  BY Zenon
<1> DEFINE range == NpmRange(d)
           v == o.version
           one == NodeSemver(range, v)
           two == NpmEngines(range, v)
           three == Check(range, v)
<1>1. /\ NpmReads(d) /\ Parse(Normalize(d)) = range
      /\ \/ r.constraint = InRange(range)
         \/ \E w : r.constraint = Exactly(w) /\ range = {{[op |-> "=", version |-> w]}}
  BY ConstraintIsTheDeclaration DEF HasRange
<1>2. Opinions(d, v) = {one, two, three}
  BY <1>1, Zenon DEF Opinions
<1>3. one \in BOOLEAN /\ two \in BOOLEAN /\ three \in BOOLEAN
  BY Zenon DEF Check, NodeSemver, NpmEngines
<1>4. CASE r.constraint = InRange(range)
  <2>1. r.constraint.kind = "range" /\ r.constraint.range = range
    BY <1>4 DEF InRange
  <2>2. ~IsPrerelease(v) /\ Compare(r, o).status = IF three THEN "pass" ELSE "fail"
    BY <2>1, RangeVerdict
  <2>3. (one <=> three) /\ (two <=> three)
    BY <2>2, ReleaseOpinions, Zenon
  <2> HIDE DEF one, two, three
  <2>4. (three => {one, two, three} = {TRUE}) /\ (~three => {one, two, three} = {FALSE})
    BY <1>3, <2>3, Unanimous, Zenon
  <2>5. (Compare(r, o).status = "pass" => three) /\ (Compare(r, o).status = "fail" => ~three)
    BY <2>2, Zenon
  <2> QED
    BY <1>1, <1>2, <2>4, <2>5, Zenon
<1>5. ASSUME NEW w, r.constraint = Exactly(w), range = {{[op |-> "=", version |-> w]}}
      PROVE  /\ Compare(r, o).status = "pass" => Opinions(d, v) = {TRUE}
             /\ Compare(r, o).status = "fail" => Opinions(d, v) = {FALSE}
  <2>1. r.constraint.kind = "exact" /\ r.constraint.version = w
    BY <1>5 DEF Exactly
  <2>2. Compare(r, o).status = IF v = w THEN "pass" ELSE "fail"
    BY <2>1, RangeVerdict
  <2>3. (one <=> v = w) /\ (two <=> v = w) /\ (three <=> v = w)
    BY <1>5, ExactOpinions, Zenon
  <2> HIDE DEF one, two, three
  <2>4. (three => {one, two, three} = {TRUE}) /\ (~three => {one, two, three} = {FALSE})
    BY <1>3, <2>3, Unanimous, Zenon
  <2>5. (Compare(r, o).status = "pass" => three) /\ (Compare(r, o).status = "fail" => ~three)
    BY <2>2, <2>3, Zenon
  <2> QED
    BY <1>2, <2>4, <2>5, Zenon
<1> QED
  BY <1>1, <1>4, <1>5, Zenon

(* The engine never picks one consumer's semantics over another's, whatever *)
(* is declared, observed and however large the limits are: PASS and FAIL of *)
(* a comparable version mean that npm can read the declared text and that   *)
(* all three consumers decide the same (compare.go, ErrPrereleaseRange),    *)
(* but for a captured text with a U+0085 around it.                         *)
THEOREM ConsumersNeverDiffer == Spec => [](Untrimmed => ConsumersAgree)
<1>1. IInv /\ Routes => (Untrimmed => ConsumersAgree)
  <2> SUFFICES ASSUME IInv, Routes, Untrimmed, HasRange(req.constraint), Comparable,
                      verdict.status \in {"pass", "fail"}
               PROVE  /\ verdict.status = "pass" => Opinions(declared, obs.version) = {TRUE}
                      /\ verdict.status = "fail" =>
                           NpmReads(declared) /\ Opinions(declared, obs.version) = {FALSE}
    BY Zenon DEF ConsumersAgree
  <2>1. verdict = Compare(req, obs) /\ route # "none"
    BY DEF IInv, Pending, Verdict
  <2>2. /\ declared \in Written
        /\ stored = declared \/ (Normalize(declared) # Refused /\ stored = Normalize(declared))
    BY <2>1, StoredIsDeclared
  <2>3. req.constraint = ConstraintOf(stored) /\ obs.present
    BY DEF req, Comparable
  <2> QED
    BY <2>1, <2>2, <2>3, DecidedMeansUnanimous, Zenon
<1> QED
  BY <1>1, InductiveInvariant, RoutesInvariant, PTL

(* "present" is a word of the schema and no range.                          *)
LEMMA WordIsNoRange == Normalize(Word) = Refused
<1> DEFINE field == Field("present", Empty)
           set == <<field>>
<1>1. field \in Fields /\ field.kind = "present"
  BY DEF Fields, Field
<1>2. set \in Seq(Fields) /\ DOMAIN set = {1} /\ set[1] = field
  BY <1>1
<1>3. Comparing(set) = set
  <2> HIDE DEF set, field
  <2>1. \A i \in DOMAIN set : set[i].kind # "operator"
    BY <1>1, <1>2
  <2> QED
    BY <1>2, <2>1, ComparingPlain
<1>4. ~IsHyphenRange(set)
  BY DEF IsHyphenRange
<1>5. ~CheckPartial(set[1].op, set[1])
  BY <1>1 DEF CheckPartial
<1>6. NormalizeSet(set) = <<>>
  <2>1. 1 \in DOMAIN set
    OBVIOUS
  <2> QED
    BY <1>3, <1>4, <1>5, <2>1, Zenon DEF NormalizeSet
<1>7. Word.sets = <<set>>
  BY DEF Word, Text
<1> HIDE DEF set
<1>8. DOMAIN Word.sets = {1} /\ Word.sets[1] = set
  BY <1>7
<1>9. NormalSets(Word)[1] = <<>> /\ 1 \in DOMAIN NormalSets(Word)
  BY <1>6, <1>8 DEF NormalSets
<1> QED
  BY <1>9, Zenon DEF Normalize, NormalSets

(* A captured constraint and the same one written by hand are the same      *)
(* constraint to the engine, but for one whose normalized text is longer    *)
(* than MaxLen, or for one with a U+0085 around it, which only the detector *)
(* trims (compare.go: "= 24.7.0" and "24.7.0" are one comparator).          *)
THEOREM SpellingNeverMatters == Spec => [](Untrimmed => SpellingIsIrrelevant)
<1>1. IInv /\ Routes => (Untrimmed => SpellingIsIrrelevant)
  <2> SUFFICES ASSUME IInv, Routes, Untrimmed, verdict # Pending, route = "captured", ~(Bytes(stored) > MaxLen)
               PROVE  verdict = Compare([req EXCEPT !.constraint = ConstraintOf(declared)], obs)
    BY DEF SpellingIsIrrelevant
  <2>1. declared \in Written /\ declared.ws # "nel outside"
    BY TextsAssumption DEF Routes, Untrimmed
  <2>2. Trim(declared) # Blank /\ Normalize(Trim(declared)) # Refused /\ stored = Normalize(Trim(declared))
    BY DEF Routes
  <2>3. Trim(declared) \in {Blank, declared}
    BY <2>1, TrimOfPlain
  <2>4. Normalize(declared) # Refused /\ stored = Normalize(declared)
    BY <2>2, <2>3
  <2>5. Normalize(stored) = stored
    BY <2>1, <2>4, NormalizeIsIdempotent
  <2>6. stored # Word /\ declared # Word
    <3>1. stored = Text(NormalSets(declared), 2, "spaces")
      BY <2>1, <2>4, AcceptedText
    <3>2. stored.gap = 2 /\ Word.gap = 0
      BY <3>1 DEF Text, Word
    <3> QED
      BY <2>4, <3>2, WordIsNoRange
  <2>7. ConstraintOf(stored) = ConstraintOf(declared)
    <3>1. Normalize(declared) = stored
      BY <2>4
    <3> QED
      BY <2>5, <2>6, <3>1, Zenon DEF ConstraintOf
  <2>8. [req EXCEPT !.constraint = ConstraintOf(declared)] = req
    BY <2>7 DEF req
  <2>9. verdict = Compare(req, obs)
    BY DEF IInv
  <2> QED
    BY <2>8, <2>9
<1> QED
  BY <1>1, InductiveInvariant, RoutesInvariant, PTL
=============================================================================
