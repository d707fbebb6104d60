------------------------------ MODULE Compare ------------------------------
(***************************************************************************)
(* The compare engine (internal/compare): a pure function from one         *)
(* requirement and one observation to a match status and, for input it     *)
(* refuses to judge, a sentinel error.                                     *)
(*                                                                         *)
(* Versions keep only what the verdicts depend on.  The three numeric      *)
(* components of a semantic version become one number, `core', compared    *)
(* the way the triple is; `pre' is 0 for a release and orders the          *)
(* prereleases of one core otherwise.  A range is what the Masterminds     *)
(* parser makes of it: a set of alternatives ("||"), each a set of         *)
(* comparators that must all hold.                                         *)
(***************************************************************************)
EXTENDS Naturals

CONSTANTS
    NoVersion,      \* Observation.Version = "": nothing could be read
    NotStrict,      \* any non-empty text StrictNewVersion rejects
    MaxNumeric      \* semverrange.MaxNumeric, on the collapsed scale

ASSUME MaxNumericAssumption == MaxNumeric \in Nat

Statuses == {"pass", "fail", "unknown", "unreachable"}

CompareErrors == {"none", "name_mismatch", "inconsistent_observation",
                  "invalid_constraint", "invalid_observed_version",
                  "prerelease_range"}

Version == [core : Nat, pre : Nat]

ASSUME NotStrictAssumption == NotStrict \notin Version

IsPrerelease(v) == v.pre # 0

\* Semantic-version precedence: a prerelease comes before its release.
Before(v, w) ==
    \/ v.core < w.core
    \/ v.core = w.core /\ v.pre # 0 /\ (w.pre = 0 \/ v.pre < w.pre)

Comparators == {"<", "<=", ">", ">=", "="}

Holds(v, c) ==
    CASE c.op = "<"  -> Before(v, c.version)
      [] c.op = "<=" -> Before(v, c.version) \/ v = c.version
      [] c.op = ">"  -> Before(c.version, v)
      [] c.op = ">=" -> Before(c.version, v) \/ v = c.version
      [] c.op = "="  -> v = c.version

\* semver.Constraints.Check of the vendored parser: prereleases are admitted
\* by a whole alternative as soon as one of its comparators carries one.
Check(range, v) ==
    \E group \in range :
        /\ \A c \in group : Holds(v, c)
        /\ IsPrerelease(v) => \E c \in group : IsPrerelease(c.version)

-----------------------------------------------------------------------------
(* Requirement constraints.  "present" and one exact version have branches *)
(* of their own; "range" is every other text the npm grammar accepts; and  *)
(* "invalid" is what Normalize or Parse refuses.                            *)

Present        == [kind |-> "present"]
Invalid        == [kind |-> "invalid"]
Exactly(v)     == [kind |-> "exact", version |-> v]
InRange(range) == [kind |-> "range", range |-> range]

Verdict(status, err) == [status |-> status, err |-> err]

Satisfied(yes) == Verdict(IF yes THEN "pass" ELSE "fail", "none")

\* Off by one at npm's limit (a bug the checks must find).
StrictlyBelowLimit(v) == v # NotStrict /\ v.core < MaxNumeric

\* StrictNewVersion plus the bound beyond which npm cannot represent it.
ComparableVersion(v) == v # NotStrict /\ v.core <= MaxNumeric

\* Bugs the checks must find: a prerelease judged by the parser's semantics,
\* and the consistency of the observation not looked at.
JudgePrereleases(req, obs) ==
    IF req.constraint.kind = "range" /\ obs.present /\ obs.version # NoVersion
       /\ ComparableVersion(obs.version)
      THEN Satisfied(Check(req.constraint.range, obs.version))
      ELSE Verdict("unknown", "none")

TrustPresence(req, obs) ==
    IF req.constraint.kind = "present"
      THEN Satisfied(obs.present)
      ELSE Verdict("unknown", "none")

\* The engine: the guards are tried in the order of the early returns.
Compare(req, obs) ==
    IF req.name # obs.name
      THEN Verdict("unknown", "name_mismatch")
    ELSE IF ~obs.present /\ obs.version # NoVersion
      THEN Verdict("unknown", "inconsistent_observation")
    ELSE IF req.constraint.kind = "present"
      THEN Satisfied(obs.present)
    ELSE IF req.constraint.kind = "invalid"
      THEN Verdict("unknown", "invalid_constraint")
    ELSE IF ~obs.present
      THEN Verdict("fail", "none")
    ELSE IF obs.version = NoVersion
      THEN Verdict("unknown", "none")
    ELSE IF ~ComparableVersion(obs.version)
      THEN Verdict("unknown", "invalid_observed_version")
    ELSE IF req.constraint.kind = "exact"
      THEN Satisfied(obs.version = req.constraint.version)
    ELSE IF IsPrerelease(obs.version)
      THEN Verdict("unknown", "prerelease_range")
    ELSE Satisfied(Check(req.constraint.range, obs.version))
=============================================================================
