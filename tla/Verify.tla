------------------------------- MODULE Verify -------------------------------
(***************************************************************************)
(* `womm verify' from the command line to the exit code: internal/cli      *)
(* (verify.go, root.go), internal/verify and internal/inspect/node, with   *)
(* the compare engine of module Compare.                                   *)
(*                                                                         *)
(* Three parties move.  The verify goroutine runs one requirement after    *)
(* another through resolution, probe, classification and judgement; a      *)
(* signal may cancel its context between any two of its steps; and the     *)
(* machine may change under it (a tool is installed, upgraded, removed).   *)
(* What a probe does inside (process group, pipes, sweep) is module Probe: *)
(* here it ends with the output, or with an error.                         *)
(*                                                                         *)
(* Requirement names are numbers, ordered as sort.SliceStable orders the   *)
(* strings; the schema admits no duplicates, so the declared requirements  *)
(* are a function from names to constraints.                               *)
(***************************************************************************)
EXTENDS Compare, Sequences

CONSTANTS
    Names,              \* requirement names
    Supported,          \* the ones in supportedTools: node, npm, pnpm, yarn
    Constraints,        \* constraints a womm.yaml can declare
    Printable,          \* what parseVersion can make of a tool's output
    PathLength,         \* the number of systemPathDirs
    MaxServices,        \* bound on the services section
    Environments,       \* whether it has an environment section
    MaxMachineChanges   \* bound on interference with the machine

ASSUME NamesAssumption == Names \subseteq Nat \ {0} /\ Supported \subseteq Names
ASSUME PrintableAssumption ==
    Printable \subseteq Version \cup {NoVersion} /\ NoVersion \notin Version
ASSUME BoundsAssumption ==
    MaxServices \in Nat /\ MaxMachineChanges \in Nat /\ Environments \subseteq BOOLEAN
ASSUME PathAssumption == PathLength \in Nat

\* The system directories, in the order of the search.
Dirs == 1..PathLength

VARIABLES
    machine,    \* what each system directory holds for each tool, now
    seen,       \* all it has held since the run began
    changes,    \* machine changes so far
    ctx,        \* the run's context: "live" or "done"
    pc,         \* where the verify goroutine is
    file,       \* the loaded schema.File
    todo,       \* requirements the loop has not taken yet
    cur,        \* the requirement under inspection
    dir,        \* the directory resolveSystemPath looks in, then the tool's
    child,      \* the program image the probe executes
    probectx,   \* the probe's own context: WithTimeout(ctx)
    obs,        \* Inspect's observation
    ierr,       \* Inspect's error
    matches,    \* Result.Matches
    errors,     \* Result.Errors
    shown,      \* the report on stdout: NotShown, or the matches rendered
    exit        \* the process's exit code: Running until it has one

machineVars == <<machine, seen, changes>>
inspectVars == <<cur, dir, child, probectx, obs, ierr>>
resultVars  == <<matches, errors>>
endVars     == <<shown, exit>>
vars == <<machineVars, ctx, pc, file, todo, inspectVars, resultVars, endVars>>

ExitPass         == 0
ExitFail         == 1
ExitUsage        == 2
ExitInconclusive == 3
Running          == 4       \* no exit code yet

NotShown == [report |-> FALSE, matches |-> <<>>]
Nobody   == [name |-> 0, present |-> FALSE, version |-> NoVersion]

-----------------------------------------------------------------------------
(* The machine.  "absent": the directory has no entry of this name, or one *)
(* that is a directory or that nobody may execute.  "unreadable": there is *)
(* an entry but Stat of it fails.  "unstartable": execve refuses it.       *)
(* "failing": it exits with an error or leaves its output pipe held open.  *)
(* "hanging" never ends, "slow" may or may not end before the timeout,     *)
(* "printing" answers in time.                                             *)

ToolState ==
    [kind : {"absent", "unreadable", "unstartable", "failing", "hanging"}]
      \cup [kind : {"printing", "slow"}, version : Printable]

\* resolveSystemPath treats any Stat error as "no such entry".
Resolves(tool)     == tool.kind \notin {"absent", "unreadable"}
Starts(tool)       == tool.kind \notin {"absent", "unreadable", "unstartable"}
Prints(tool)       == tool.kind \in {"printing", "slow"}
OutlastsTimer(tool) == tool.kind \in {"hanging", "slow"}

MachineChanges ==
    /\ pc # "exited"
    /\ changes < MaxMachineChanges
    /\ \E n \in Supported, d \in Dirs, tool \in ToolState :
         /\ tool # machine[n][d]
         /\ machine' = [machine EXCEPT ![n][d] = tool]
         /\ seen' = [seen EXCEPT ![n][d] = @ \cup {tool}]
    /\ changes' = changes + 1
    /\ UNCHANGED <<ctx, pc, file, todo, inspectVars, resultVars, endVars>>

-----------------------------------------------------------------------------
(* Signals: NotifyContext cancels the run's context once, at any time, and *)
(* with it the context a probe derived from it, unless that one is over.   *)

\* A bug the checks must find: the probe's context has no parent.
DetachedProbe(p) == p

CancelProbe(p) == IF p = "live" THEN "cancelled" ELSE p

Cancel ==
    /\ pc # "exited"
    /\ ctx = "live"
    /\ ctx' = "done"
    /\ probectx' = CancelProbe(probectx)
    /\ UNCHANGED <<machineVars, pc, file, todo, cur, dir, child, obs, ierr,
                   resultVars, endVars>>

-----------------------------------------------------------------------------
(* The command line and womm.yaml.                                         *)

ExitWith(code) ==
    /\ pc' = "exited"
    /\ exit' = code
    /\ UNCHANGED <<machineVars, ctx, file, todo, inspectVars, resultVars>>

\* Flag and argument errors of cobra: exitCodeFor recognizes them.
UsageError ==
    /\ pc = "load"
    /\ ExitWith(ExitUsage)
    /\ UNCHANGED shown

\* The argument is a file, or Load refuses: an error of RunE.
LoadFails ==
    /\ pc = "load"
    /\ ExitWith(ExitInconclusive)
    /\ UNCHANGED shown

LoadSucceeds ==
    /\ pc = "load"
    /\ pc' = "begin"
    /\ UNCHANGED <<machineVars, ctx, file, todo, inspectVars, resultVars, endVars>>

-----------------------------------------------------------------------------
(* verify.Verify.                                                          *)

Files ==
    [requirements : UNION {[S -> Constraints] : S \in SUBSET Names},
     services     : 0..MaxServices,
     environment  : Environments]

ErrorKinds == CompareErrors \cup
    {"unsupported_section", "unsupported_requirement", "cancelled", "inspection_failed"}

Failure(kind, name) == [kind |-> kind, name |-> name]

\* One error per service, then one for the whole environment section.
SectionErrors(f) ==
    [i \in 1..f.services |-> Failure("unsupported_section", 0)]
      \o (IF f.environment THEN <<Failure("unsupported_section", 0)>> ELSE <<>>)

\* A bug the checks must find: every known tool is taken, declared or not.
BeginWithAll ==
    /\ pc = "begin"
    /\ errors' = SectionErrors(file)
    /\ todo' = Names
    /\ pc' = "next"
    /\ UNCHANGED <<machineVars, ctx, file, inspectVars, matches, endVars>>

Begin ==
    /\ pc = "begin"
    /\ errors' = SectionErrors(file)
    /\ todo' = DOMAIN file.requirements
    /\ pc' = "next"
    /\ UNCHANGED <<machineVars, ctx, file, inspectVars, matches, endVars>>

\* The head of the sorted requirements the loop has left.
IsNext(n) == n \in todo /\ \A m \in todo : n <= m

Taken(n) == todo' = todo \ {n}

SkipCancelled ==
    /\ pc = "next"
    /\ ctx = "done"
    /\ \E n \in todo :
         /\ IsNext(n)
         /\ Taken(n)
         /\ errors' = Append(errors, Failure("cancelled", n))
    /\ UNCHANGED <<machineVars, ctx, pc, file, inspectVars, matches, endVars>>

SkipUnsupported ==
    /\ pc = "next"
    /\ ctx = "live"
    /\ \E n \in todo \ Supported :
         /\ IsNext(n)
         /\ Taken(n)
         /\ errors' = Append(errors, Failure("unsupported_requirement", n))
    /\ UNCHANGED <<machineVars, ctx, pc, file, inspectVars, matches, endVars>>

BeginInspect ==
    /\ pc = "next"
    /\ ctx = "live"
    /\ \E n \in todo \cap Supported :
         /\ IsNext(n)
         /\ Taken(n)
         /\ cur' = n
    /\ dir' = 1
    /\ pc' = "resolve"
    /\ UNCHANGED <<machineVars, ctx, file, child, probectx, obs, ierr,
                   resultVars, endVars>>

-----------------------------------------------------------------------------
(* NodeInspector.Inspect.                                                  *)

Observed(present, version) ==
    [name |-> cur, present |-> present, version |-> version]

Returns(o, err) ==
    /\ obs' = o
    /\ ierr' = err
    /\ probectx' = "none"
    /\ pc' = "judge"

\* One Stat of resolveSystemPath found nothing to run.
ResolveSkips ==
    /\ pc = "resolve"
    /\ dir \in Dirs
    /\ ~Resolves(machine[cur][dir])
    /\ dir' = dir + 1
    /\ UNCHANGED <<machineVars, ctx, pc, file, todo, cur, child, probectx, obs, ierr,
                   resultVars, endVars>>

ResolveNotFound ==
    /\ pc = "resolve"
    /\ dir \notin Dirs
    /\ Returns(Observed(FALSE, NoVersion), "none")
    /\ UNCHANGED <<machineVars, ctx, file, todo, cur, dir, child, resultVars, endVars>>

\* A bug the checks must find: the directories are searched in any order.
ResolveFoundAnywhere ==
    /\ pc = "resolve"
    /\ dir' \in {d \in Dirs : Resolves(machine[cur][d])}
    /\ probectx' = IF ctx = "done" THEN "cancelled" ELSE "live"
    /\ pc' = "start"
    /\ UNCHANGED <<machineVars, ctx, file, todo, cur, child, obs, ierr,
                   resultVars, endVars>>

\* The probe's context is live only if its parent still is.
ResolveFound ==
    /\ pc = "resolve"
    /\ dir \in Dirs
    /\ Resolves(machine[cur][dir])
    /\ probectx' = IF ctx = "done" THEN "cancelled" ELSE "live"
    /\ pc' = "start"
    /\ UNCHANGED <<machineVars, ctx, file, todo, cur, dir, child, obs, ierr,
                   resultVars, endVars>>

\* cmd.Start refuses when the context is done, and fails when execve does.
StartFails ==
    /\ pc = "start"
    /\ probectx # "live" \/ ~Starts(machine[cur][dir])
    /\ pc' = "classify"
    /\ UNCHANGED <<machineVars, ctx, file, todo, inspectVars, resultVars, endVars>>

\* What runs is what the path named at this moment, not when it resolved.
StartSucceeds ==
    /\ pc = "start"
    /\ probectx = "live"
    /\ Starts(machine[cur][dir])
    /\ child' = machine[cur][dir]
    /\ pc' = "running"
    /\ UNCHANGED <<machineVars, ctx, file, todo, cur, dir, probectx, obs, ierr,
                   resultVars, endVars>>

ProbeTimeout ==
    /\ probectx = "live"
    /\ pc \in {"running", "classify"}
    /\ pc = "running" => OutlastsTimer(child)
    /\ probectx' = "deadline"
    /\ UNCHANGED <<machineVars, ctx, pc, file, todo, cur, dir, child, obs, ierr,
                   resultVars, endVars>>

\* cmd.Run returned no error: the answer is taken even when the context
\* ended after the tool did.
ProbeAnswers ==
    /\ pc = "running"
    /\ Prints(child)
    /\ Returns(Observed(TRUE, child.version), "none")
    /\ UNCHANGED <<machineVars, ctx, file, todo, cur, dir, child, resultVars, endVars>>

\* A bug the checks must find: the timeout does not kill the probe.
ProbeFailsUnlessLate ==
    /\ pc = "running"
    /\ child.kind = "failing" \/ probectx = "cancelled"
    /\ pc' = "classify"
    /\ UNCHANGED <<machineVars, ctx, file, todo, inspectVars, resultVars, endVars>>

\* cmd.Run returned an error: the tool's own, or the group was killed.
ProbeFails ==
    /\ pc = "running"
    /\ child.kind = "failing" \/ probectx # "live"
    /\ pc' = "classify"
    /\ UNCHANGED <<machineVars, ctx, file, todo, inspectVars, resultVars, endVars>>

\* The context's state names the failure; it is read after the sweep, so a
\* tool that failed by itself may be reported as timed out.
Classify ==
    /\ pc = "classify"
    /\ Returns(Observed(TRUE, NoVersion),
               CASE probectx = "deadline"  -> "timeout"
                 [] probectx = "cancelled" -> "cancelled"
                 [] OTHER                  -> "failed")
    /\ UNCHANGED <<machineVars, ctx, file, todo, cur, dir, child, resultVars, endVars>>

-----------------------------------------------------------------------------
(* The body of Verify's loop after Inspect returned.                       *)

Requirement(n) == [name |-> n, constraint |-> file.requirements[n]]

Match(n, o, status) == [name |-> n, obs |-> o, status |-> status]

\* A bug the checks must find: the context is not looked at again.
NeverInterrupted == FALSE

\* An error of Inspect says nothing about the machine once ctx is done.
WasInterrupted == ctx = "done"

JudgeCancelled ==
    /\ pc = "judge"
    /\ ierr # "none"
    /\ WasInterrupted
    /\ errors' = Append(errors, Failure("cancelled", cur))
    /\ pc' = "next"
    /\ UNCHANGED <<machineVars, ctx, file, todo, inspectVars, matches, endVars>>

\* Presence known, query failed: a verdict about the machine.  Anything less
\* is WOMM's own failure, and no match is made up.
Partial == obs.present /\ obs.name = cur /\ obs.version = NoVersion

JudgeFailed ==
    /\ pc = "judge"
    /\ ierr # "none"
    /\ ~WasInterrupted
    /\ IF Partial
         THEN /\ matches' = Append(matches, Match(cur, obs, "unreachable"))
              /\ UNCHANGED errors
         ELSE /\ errors' = Append(errors, Failure("inspection_failed", cur))
              /\ UNCHANGED matches
    /\ pc' = "next"
    /\ UNCHANGED <<machineVars, ctx, file, todo, inspectVars, endVars>>

JudgeCompared ==
    /\ pc = "judge"
    /\ ierr = "none"
    /\ LET v == Compare(Requirement(cur), obs)
       IN /\ matches' = Append(matches, Match(cur, obs, v.status))
          /\ errors' = IF v.err = "none" THEN errors
                       ELSE Append(errors, Failure(v.err, cur))
    /\ pc' = "next"
    /\ UNCHANGED <<machineVars, ctx, file, todo, inspectVars, endVars>>

-----------------------------------------------------------------------------
(* Back in the verify command.                                             *)

Entries(seq) == {seq[i] : i \in 1..Len(seq)}

\* A bug the checks must find: only the first error is looked at.
FirstIsCancelled(errs) == errs # <<>> /\ errs[1].kind = "cancelled"

Cancelled(errs) == \E e \in Entries(errs) : e.kind = "cancelled"

\* A bug the checks must find: one FAIL is taken for a conclusive result.
FailFirst(ms, errs) ==
    IF \E m \in Entries(ms) : m.status = "fail" THEN ExitFail
    ELSE IF errs # <<>> \/ \E m \in Entries(ms) : m.status # "pass" THEN ExitInconclusive
    ELSE ExitPass

ExitCode(ms, errs) ==
    IF \/ errs # <<>>
       \/ \E m \in Entries(ms) : m.status \notin {"pass", "fail"}
      THEN ExitInconclusive
    ELSE IF \E m \in Entries(ms) : m.status = "fail"
      THEN ExitFail
    ELSE ExitPass

\* A bug the checks must find: a done context breaks the loop silently.
ReturnsWhenCancelled ==
    /\ pc = "next"
    /\ todo = {} \/ ctx = "done"
    /\ pc' = "report"
    /\ UNCHANGED <<machineVars, ctx, file, todo, inspectVars, resultVars, endVars>>

VerifyReturns ==
    /\ pc = "next"
    /\ todo = {}
    /\ pc' = "report"
    /\ UNCHANGED <<machineVars, ctx, file, todo, inspectVars, resultVars, endVars>>

NoReport ==
    /\ pc = "report"
    /\ Cancelled(errors)
    /\ ExitWith(ExitInconclusive)
    /\ UNCHANGED shown

Report ==
    /\ pc = "report"
    /\ ~Cancelled(errors)
    /\ shown' = [report |-> TRUE, matches |-> matches]
    /\ ExitWith(ExitCode(matches, errors))

\* Writing the report to stdout failed: an error of RunE.
ReportFails ==
    /\ pc = "report"
    /\ ~Cancelled(errors)
    /\ ExitWith(ExitInconclusive)
    /\ UNCHANGED shown

-----------------------------------------------------------------------------
Init ==
    /\ machine \in [Supported -> [Dirs -> ToolState]]
    /\ seen = [n \in Supported |-> [d \in Dirs |-> {machine[n][d]}]]
    /\ changes = 0
    /\ ctx = "live"
    /\ pc = "load"
    /\ file \in Files
    /\ todo = {}
    /\ cur = 0
    /\ dir = 1
    /\ child = [kind |-> "absent"]
    /\ probectx = "none"
    /\ obs = Nobody
    /\ ierr = "none"
    /\ matches = <<>>
    /\ errors = <<>>
    /\ shown = NotShown
    /\ exit = Running

Loading    == UsageError \/ LoadFails \/ LoadSucceeds
Loop       == Begin \/ SkipCancelled \/ SkipUnsupported \/ BeginInspect \/ VerifyReturns
Inspect    == \/ ResolveSkips \/ ResolveNotFound \/ ResolveFound
              \/ StartFails \/ StartSucceeds
              \/ ProbeAnswers \/ ProbeFails \/ Classify
Judge      == JudgeCancelled \/ JudgeFailed \/ JudgeCompared
Finish     == NoReport \/ Report \/ ReportFails

\* Steps of the verify goroutine.
Goroutine == Loading \/ Loop \/ Inspect \/ Judge \/ Finish

\* A finished process takes no more steps.
Exited == pc = "exited" /\ UNCHANGED vars

Next == Goroutine \/ ProbeTimeout \/ Cancel \/ MachineChanges \/ Exited

(* The scheduler runs the goroutine, a tool that ends by itself ends, and   *)
(* the runtime's timer fires; nobody has to send a signal.                  *)
Fairness == WF_vars(Goroutine) /\ WF_vars(ProbeTimeout)

Spec == Init /\ [][Next]_vars /\ Fairness

(* The same program without the promise that the probe's timer fires.      *)
UntimedSpec == Init /\ [][Next]_vars /\ WF_vars(Goroutine)

-----------------------------------------------------------------------------
ObservationType ==
    [name : Names \cup {0}, present : BOOLEAN, version : Printable \cup {NoVersion}]
Matches == [name : Names, obs : ObservationType, status : Statuses]
Errors  == [kind : ErrorKinds, name : Names \cup {0}]

TypeOK ==
    /\ machine \in [Supported -> [Dirs -> ToolState]]
    /\ seen \in [Supported -> [Dirs -> SUBSET ToolState]]
    /\ changes \in 0..MaxMachineChanges
    /\ ctx \in {"live", "done"}
    /\ pc \in {"load", "begin", "next", "resolve", "start", "running",
               "classify", "judge", "report", "exited"}
    /\ file \in Files
    /\ todo \subseteq DOMAIN file.requirements
    /\ cur \in Names \cup {0}
    /\ dir \in 1..(PathLength + 1)
    /\ child \in ToolState
    /\ probectx \in {"none", "live", "deadline", "cancelled"}
    /\ obs \in ObservationType
    /\ ierr \in {"none", "failed", "timeout", "cancelled"}
    /\ matches \in Seq(Matches)
    /\ errors \in Seq(Errors)
    /\ shown = NotShown \/ shown = [report |-> TRUE, matches |-> matches]
    /\ exit \in {ExitPass, ExitFail, ExitUsage, ExitInconclusive, Running}

(* A report on stdout is never partial: if one is shown, every declared     *)
(* requirement has one match, or one error that says why it has none, and   *)
(* no name appears twice.  (verify.go: "its matches are partial. Callers    *)
(* must not present them as a verdict"; cli/verify.go, the cancelled case.)  *)
ReportIsComplete ==
    shown.report =>
        /\ \A n \in DOMAIN file.requirements :
             \/ n \notin Supported /\ Failure("unsupported_requirement", n) \in Entries(errors)
             \/ \E i \in 1..Len(shown.matches) :
                  /\ shown.matches[i].name = n
                  /\ \A j \in 1..Len(shown.matches) :
                       shown.matches[j].name = n => j = i
        /\ \A i \in 1..Len(shown.matches) : shown.matches[i].name \in DOMAIN file.requirements

\* The verdict on a tool that is not installed, or that prints this version.
Absence(n) ==
    Compare(Requirement(n), [name |-> n, present |-> FALSE, version |-> NoVersion]).status
Judged(n, version) ==
    Compare(Requirement(n), [name |-> n, present |-> TRUE, version |-> version]).status

\* A tool that could not be asked: it does not start, does not answer, may
\* answer late, or went away between resolution and start.
Unaskable(tools) ==
    \/ \E tool \in tools : ~Starts(tool) /\ Resolves(tool)
    \/ \E tool \in tools : tool.kind = "failing" \/ OutlastsTimer(tool)
    \/ \E before, after \in tools : Resolves(before) /\ ~Starts(after)

\* A search may have come to this directory, or past the last one.
Reached(n, d) == \A e \in Dirs : e < d => \E tool \in seen[n][e] : ~Resolves(tool)

Grounded(n, status) ==
    \/ status = Absence(n) /\ Reached(n, PathLength + 1)
    \/ \E d \in Dirs :
         /\ Reached(n, d)
         /\ \/ \E tool \in seen[n][d] : Prints(tool) /\ status = Judged(n, tool.version)
            \/ status = "unreachable" /\ Unaskable(seen[n][d])

(* Every verdict is about what the machine was during the run, whatever     *)
(* changes under it and whenever a signal arrives: about a tool that stood  *)
(* in the first system directory that had one, or about none, each          *)
(* directory taken at some moment.  In particular a probe that a signal     *)
(* killed never makes a healthy tool UNREACHABLE (verify.go, "a probe       *)
(* interrupted by the cancellation is an operational error").               *)
VerdictsAreGrounded ==
    \A m \in Entries(matches) : Grounded(m.name, m.status)

(* The exit code alone, without the report, tells the truth (verify.go,     *)
(* ExitCode): 0 only if nothing unverifiable was declared and every         *)
(* declared requirement was satisfied at some moment of the run; 1 only if  *)
(* each was conclusively decided and one of them was not satisfied.         *)
ExitCodeIsHonest ==
    /\ exit \in {ExitPass, ExitFail} =>
         /\ file.services = 0 /\ ~file.environment
         /\ \A n \in DOMAIN file.requirements :
              n \in Supported /\ \E s \in {"pass", "fail"} : Grounded(n, s)
    /\ exit = ExitPass => \A n \in DOMAIN file.requirements : Grounded(n, "pass")
    /\ exit = ExitFail => \E n \in DOMAIN file.requirements : Grounded(n, "fail")

(* A run that was cancelled with a requirement still to be inspected never  *)
(* shows a report, not even later.                                          *)
InterruptedRunsShowNothing ==
    [](ctx = "done" /\ pc = "next" /\ todo # {} => [](~shown.report))

(* `womm verify' always comes back, hanging tools included.                 *)
Terminates == <>(pc = "exited")

(* A cancelled run comes back without waiting for the probe's timer.        *)
CancelStopsTheRun == (ctx = "done") ~> (pc = "exited")
-----------------------------------------------------------------------------
(* The run implements the contract.  A requirement is decided by its match,  *)
(* else by an operational error of its own; a cancellation decides nothing.  *)

DecidedErrors == {e \in Entries(errors) : e.kind # "cancelled"}

StatusOf(n) == (CHOOSE m \in Entries(matches) : m.name = n).status

Decision(n) ==
    IF \E m \in Entries(matches) : m.name = n THEN StatusOf(n)
    ELSE IF \E e \in DecidedErrors : e.name = n THEN "error"
    ELSE "none"

Contract == INSTANCE VerifyContract WITH
    declared     <- DOMAIN file.requirements,
    unverifiable <- file.services > 0 \/ file.environment,
    verdict      <- [n \in Names |-> Decision(n)],
    published    <- shown.report,
    exit         <- exit

(* The run keeps the contract of `womm verify', its promise to end included. *)
KeepsContract == Contract!Spec

-----------------------------------------------------------------------------
(* A statement of the documentation the code does not keep.                  *)

(* path.go, errExecutableNotFound: "distinguishing `not installed' ... from  *)
(* a genuine resolution failure": a FAIL for absence is about a tool that    *)
(* really was not installed.                                                 *)
AbsentMeansNotInstalled ==
    \A m \in Entries(matches) :
        ~m.obs.present =>
            \A d \in Dirs : \E tool \in seen[m.name][d] : tool.kind = "absent"
=============================================================================
