---------------------------- MODULE CompareCheck ----------------------------
(***************************************************************************)
(* The way of one constraint: a project declares a range, which            *)
(* NodeDetector stores in its normalized spelling, or somebody writes it   *)
(* into womm.yaml as it is; and compare.Compare judges an observation by   *)
(* what is stored.  The verdict is held against the three npm consumers    *)
(* that the package documentation names: node-semver's default, npm's      *)
(* engines check and the Masterminds parser, on the text that was          *)
(* declared.                                                               *)
(***************************************************************************)
EXTENDS SemverRange

CONSTANTS Texts, Observations

ASSUME TextsAssumption == Texts \subseteq Written

VARIABLES
    declared,   \* the text in package.json, or written by hand
    stored,     \* the constraint in womm.yaml; Refused before there is one
    route,      \* "none", "captured" or "written"
    obs, verdict

vars == <<declared, stored, route, obs, verdict>>

Pending == Verdict("pending", "none")
Unobserved == [name |-> "node", present |-> FALSE, version |-> NoVersion]

req == [name |-> "node", constraint |-> ConstraintOf(stored)]

Init ==
    /\ declared \in Texts
    /\ stored = Refused
    /\ route = "none"
    /\ obs = Unobserved
    /\ verdict = Pending

\* engines.node, trimmed; blank declares nothing, and the detector reports an
\* error when the text is refused.
Capture ==
    /\ route = "none"
    /\ Trim(declared) # Blank
    /\ Normalize(Trim(declared)) # Refused
    /\ stored' = Normalize(Trim(declared))
    /\ route' = "captured"
    /\ UNCHANGED <<declared, obs, verdict>>

WriteByHand ==
    /\ route = "none"
    /\ stored' = declared
    /\ route' = "written"
    /\ UNCHANGED <<declared, obs, verdict>>

Judge ==
    /\ route # "none"
    /\ verdict = Pending
    /\ obs' \in Observations
    /\ verdict' = Compare(req, obs')
    /\ UNCHANGED <<declared, stored, route>>

Judged == verdict # Pending /\ UNCHANGED vars

Next == Capture \/ WriteByHand \/ Judge \/ Judged

Spec == Init /\ [][Next]_vars

-----------------------------------------------------------------------------
(* The three consumers, on one observed version.                           *)

\* node-semver's default: a prerelease is admitted only by an alternative
\* with a prerelease comparator on the same major.minor.patch.
NodeSemver(range, v) ==
    \E group \in range :
        /\ \A c \in group : Holds(v, c)
        /\ IsPrerelease(v) =>
             \E c \in group : IsPrerelease(c.version) /\ c.version.core = v.core

\* npm-install-checks: includePrerelease, plain precedence.
NpmEngines(range, v) == \E group \in range : \A c \in group : Holds(v, c)

Opinions(text, v) ==
    {NodeSemver(NpmRange(text), v), NpmEngines(NpmRange(text), v), Check(Parse(Normalize(text)), v)}

HasRange(constraint) == constraint.kind \in {"exact", "range"}

\* An observed version npm can represent: a strict one, the limit included.
Comparable ==
    /\ obs.present
    /\ obs.version \notin {NoVersion, NotStrict}
    /\ obs.version.core <= MaxNumeric

-----------------------------------------------------------------------------
(* The engine never picks one consumer's semantics over another's: when it *)
(* decides PASS or FAIL of a comparable version, npm can read the declared *)
(* text, and node-semver, npm's engines check and the Masterminds parser   *)
(* all decide the same (semverrange.go, package comment; compare.go, the   *)
(* discussion at ErrPrereleaseRange).                                      *)
ConsumersAgree ==
    (HasRange(req.constraint) /\ Comparable) =>
        /\ verdict.status = "pass" => Opinions(declared, obs.version) = {TRUE}
        /\ verdict.status = "fail" =>
             NpmReads(declared) /\ Opinions(declared, obs.version) = {FALSE}

(* UNKNOWN is not an escape: a comparable release of the required tool     *)
(* against a valid constraint is always decided, and without an error; and *)
(* a prerelease is too when the constraint is one exact version.           *)
ReleasesAreDecided ==
    (/\ verdict # Pending
     /\ req.name = obs.name
     /\ HasRange(req.constraint)
     /\ Comparable
     /\ IsPrerelease(obs.version) => req.constraint.kind = "exact")
        => verdict.status \in {"pass", "fail"} /\ verdict.err = "none"

(* PASS and FAIL need evidence about the required target: never from an    *)
(* observation of another target, from one that says "absent" with a       *)
(* version, from an invalid constraint, nor (but for "present") from a     *)
(* present target whose version is missing or not comparable.              *)
NoVerdictWithoutEvidence ==
    verdict.status \in {"pass", "fail"} =>
        /\ req.name = obs.name
        /\ obs.present \/ obs.version = NoVersion
        /\ req.constraint.kind # "invalid"
        /\ (obs.present /\ req.constraint.kind # "present") => Comparable
        /\ ~obs.present => verdict.status = "fail"

(* Capturing a constraint and writing it by hand come to the same verdict,  *)
(* whatever whitespace it is spelled with (compare.go: "= 24.7.0" and       *)
(* "24.7.0" are the same exact comparator), but for texts whose normalized  *)
(* spelling is longer than MaxLen.                                          *)
SpellingIsIrrelevant ==
    (verdict # Pending /\ route = "captured" /\ ~(Bytes(stored) > MaxLen)) =>
        verdict = Compare([req EXCEPT !.constraint = ConstraintOf(declared)], obs)

(* The reason given for refusing U+0085 (semverrange.go: feeding Masterminds *)
(* what npm cannot read would let WOMM answer PASS for a declaration npm     *)
(* treats as unsatisfiable): no PASS for a text that npm cannot read.        *)
PassMeansReadable == verdict.status = "pass" /\ HasRange(req.constraint) => NpmReads(declared)
=============================================================================
