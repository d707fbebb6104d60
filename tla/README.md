# A TLA+ model of WOMM

WOMM answers two questions about a project directory: what does the project
declare about its environment (`womm capture`, which writes `womm.yaml`), and
does this machine satisfy it (`womm verify`, which reports and exits 0, 1, 2 or
3). This directory specifies both commands, model-checks the specifications with
TLC on small instances and proves their main safety properties with TLAPS for
all instances. Paths below are relative to `src/internal`.

## 1. Inventory

| Component | Source | State | Operations | Hard behaviour | Correct when |
|---|---|---|---|---|---|
| Compare engine | `compare`, `core` | none | `Compare(req, obs)` | order of the early returns; prereleases; npm's numeric limit | no verdict without evidence, none that an npm consumer contradicts, no needless UNKNOWN |
| Semver ranges | `semverrange` | none | `Normalize`, `Parse` | a grammar inside the library's grammar; lengths that grow | accepts only what npm accepts, with npm's meaning, however it is spelled |
| Verify core | `verify` | matches and errors so far | `Verify`, `Cancelled`, `ExitCode` | cancellation between and during inspections; failures of some requirements only | every requirement accounted for; the exit code is honest |
| Verify command | `cli/verify.go`, `cli/root.go` | the context, the exit code | `RunE`, `run`, `exitCodeFor`, `Execute` | a signal at any moment; errors told apart by their text | no partial report; 2 means a usage error |
| Inspector | `inspect`, `inspect/node/{node,path}.go` | none | `Supports`, `Inspect`, `resolveSystemPath`, `parseVersion`, `boundedWriter` | the machine changes between the steps; output in pieces, beyond the limit | observations are true; absence, failure and unparseable output are kept apart |
| Version probe and reaper | `inspect/node/node.go`, `reaper_linux.go` | process group, pipe, two timers, the process table | `probe`, `cmd.Cancel`, `killAdoptedDescendants` | three goroutines, a context and processes that fork, escape and hang | returns; answers complete; leaves nothing running |
| Capture: detection | `capture`, `detectors/node` | the requirements found | `Capture`, two `Detect`s, `readFileIfPresent` | the project is edited between file-system steps; two sources for one requirement | writes what was declared, or fails |
| Capture: output | `capture` | the path, a temporary file | `Write`, `createExclusive`, `replaceAtomically` | concurrent writers and readers, swapped paths, full disks, kills | overwrites only when told to, and atomically |
| Schema | `schema` | an open file | `Load`, `Parse`, `Validate`, `Marshal` | two decodings, version policy, keys listed twice, a path that changes | one document, one meaning; reads what is at the path, and returns |
| Report | `report` | none | `Render`, `Sort`, `Summarize` | text from outside on report lines | complete, ordered, unforgeable |

They interact through calls on one goroutine: `capture` calls the detectors, then
`Write`; `verify` calls `Load`, then `Verify`, which calls `Inspect` and `Compare`
per requirement, then `Render` and `ExitCode`. The two commands meet in womm.yaml.
What runs beside that goroutine is: the signal handler (`signal.NotifyContext`,
one cancellation), the runtime's timers, `os/exec`'s watcher and copier
goroutines, the probed tool and its descendants, other `womm` processes, and
every other program that changes the machine or the project. `PROJECT.json` lists
the hazards this makes, at their lines.

## 2. Modules

| Module | Models | Extends / uses |
|---|---|---|
| `Compare` | `compare.Compare`, as an operator | |
| `SemverRange` | `Normalize` and `Parse`, the library's reading and npm's reading of a range | `Compare` |
| `CompareCheck` | the way of one constraint: declared, captured or written by hand, judged | `SemverRange` |
| `Declarations` | both detectors and `capture.Capture` on a project at rest | `SemverRange` |
| `Schema` | womm.yaml, `Parse`, `validate`, `Marshal` | `Declarations` |
| `Output` | `boundedWriter`, `parseVersion` | `SemverRange` |
| `Report` | `Summarize`, `Sort`, `Render` | `Schema` |
| `EndToEnd` | from the project to the exit code: all of the above composed | `Report`, `Output` |
| `VerifyContract` | what `womm verify` promises: decide each requirement once, publish when all are decided, exit accordingly | |
| `Verify` | the command: load, loop, directory search, probe as a black box, judgement, report, exit | `Compare`; implements `VerifyContract` |
| `Probe` | the inside of one probe: process tree, group, pipe, watcher, copier, sweep | |
| `Detect` | `capture.Capture` over a project that is edited meanwhile | |
| `CaptureWrite` | `capture.Write`, several writers at one path | |
| `SharedFile` | `schema.Load` at the path the writers write | `CaptureWrite` |
| `VerifyProofs` | theorems about `Verify`, and that it implements `VerifyContract` | `Verify` |
| `ProbeProofs`, `DetectProofs`, `SharedFileProofs` | theorems about these modules | `Probe`, `Detect`, `SharedFile` |
| `RangeProofs` | theorems about the range grammar; induction over numbers | `SemverRange` |
| `CompareProofs` | theorems about the engine and the way of a constraint | `CompareCheck`, `RangeProofs` |
| `DocumentProofs` | lemmas about what the operators of `Declarations`, `Schema`, `Output` and `Report` compute | `EndToEnd`, `RangeProofs` |
| `EndToEndProofs` | theorems about `EndToEnd` | `DocumentProofs` |
| `MC...` | constants for TLC | one specification each |

Two families cover the two kinds of difficulty. `Verify`, `Probe`, `Detect`,
`CaptureWrite` and `SharedFile` have the interleavings; the data in them is
abstract (a declaration is the set of versions it admits, an output is the version
made of it). `CompareCheck` and `EndToEnd` have the data, with nobody interfering.

### Compare, SemverRange, CompareCheck

A version keeps what verdicts depend on: `core`, one number for the numeric
triple, and `pre`, 0 for a release and otherwise its rank among the prereleases of
that core. A range is a set of alternatives, each a set of comparators. `Compare`
follows the early returns of the Go function one by one. `Check` stands for the
vendored parser's `Constraints.Check` (external).

A text is what `strings.Split` and `strings.Fields` leave of it: sets of fields
(a comparator, a lone operator, a hyphen, garbage), the bytes around each `||`,
and the kind of whitespace, U+0085 included, which Go and npm treat differently.
`NormalizeSet` and `CheckPartial` follow the code; `LibrarySet` is what the
Masterminds constraint functions make of each operator and partial version,
special cases of "dirty" versions included; `NpmRange` is node-semver's
desugaring, written from its own rules. The two readings are separate
definitions, and `ConsumersAgree` compares verdicts made with one to the other on
the text as it was declared.

### Declarations, Schema, Output, Report, EndToEnd

`Declarations` has `parsePackageJSON` with the JSON type at each place it looks
at, the line rules of .nvmrc (comments, settings, several selectors), the
splitting of packageManager with its hash, the conjunction rule and the order of
the requirements. `Schema` has a document as the sequence of its keys, unknown and
repeated ones included, and the value at each known key; the first decoding
(version, unknown keys) and the second (the struct) are separate operators,
because they can disagree. `Output` has pieces of a tool's output, cut by the
limit and by the reads of the pipe. `Report` has lines, each with the requirement
it is about; a text that breaks a line puts a `Forged` line into the report.

`EndToEnd` walks from a project (`Capture`) or a file (`WriteByHand`) to the exit
code. `pc` is the place of the command; `message` is the error it ends with, as
its cause and what its text begins with, which is all `exitCodeFor` looks at. The
messages are those of every error that either command returns: cobra's and pflag's
(`Misuse`), the project that is a file, and those of Capture and Write
(`CaptureBeginnings`), of Load and Parse, and of a report that cannot be written
(`ReportFails`).

### Verify

`pc` is the place of the verify goroutine: `load`, `begin` (the sections without
a verifier), `next` (the head of the loop), `resolve`, `start`, `running`,
`classify` (inside `Inspect`), `judge` (after it), `report`, `exited`. The loop's
sorted slice is the set `todo`, of which `IsNext` takes the smallest. `ctx` is the
run's context and `probectx` the one `probe` derives from it; `Cancel` ends both.
`machine` is what each system directory holds for each tool now: nothing, an
entry that Stat fails on, one that execve refuses, or a tool that fails, hangs, is
slow or prints a version. `MachineChanges` replaces one at any moment; `seen`
remembers what each has been. `dir` is the directory `resolveSystemPath` looks in,
one Stat per step, and then the one the tool was found in. `child` is the image
that was started, which may not be the one that was resolved.

`machine` and `seen` are not state of the program: they are what its verdicts are
about. `Grounded` says that a verdict was about a tool that stood in the first
directory that had one, or about none, each directory taken at some moment of the
run; and "unreachable" about one that could not be asked, or that went away
between resolution and start.

### Probe

One probe, with its goroutine (`pc`), `os/exec`'s `watcher` and `copier`, and the
process table (`status`, `parent`, `ingroup`, `pipe`). The tool and its
descendants are unconstrained: they fork, leave the group, close the pipe and
exit when they like, or never. Those in `Elevating` may change their credentials,
as sudo does, and any signal may fail to reach them. The sweep is `ListProcs`,
`ReadStat` and `KillOne`, one `/proc/<pid>/stat` at a time, and each of its system
calls may fail (`ListFails`, `StatFails`, `KillFails`): a directory that cannot be
listed ends the sweep, a process whose file cannot be read or whose kill fails is
passed over, lives on and does not count. It goes on for any number of rounds,
until one kills nothing or its 500 ms are over (`BudgetEnds`, at any moment).

`timeup` stands for the clock. Two variables are not state of the program but what
its promises are about: `missed` holds the processes that the last pass could not
read or kill (all of them, when it could not list), `disturbed` whether a process
acted while the sweep ran. `os/exec` is external; its part
follows `Cmd.Wait` and `Cmd.watchCtx` for a command with `Cancel` and `WaitDelay`
set and one writer for both streams. The tool itself keeps its credentials: one
that WOMM may not kill and that never ends would hold `cmd.Run`, and so WOMM, for
ever.

### Detect

Three reads: package.json by `NodeDetector`, .nvmrc by it, package.json again by
`PackageManagerDetector`. Each is a walk through `readFileIfPresent` (`open`,
`translate`, `reopen`, `lstat`, `read`), and `Edit` may replace any directory
entry between two steps. `ever` is what each place has held, for the properties.

### CaptureWrite and SharedFile

Each writer walks through `Write` system call by system call (`pc`): `lstat`,
then `create` or `temp` and `chmod`, `write`, `close`, `rename`, `cleanup`. A
document is an inode named after its writer; what others put at the path are
objects with contents of their own. `fd` is the inode a writer has open, so that
a version of the code that opened what it finds would change others' contents.
`SharedFile` adds one `Load` (`place`: `open`, `stat`, `read`, `done`), which reads
until a read returns nothing while the writers go on.

## 3. Runs

All runs together take a few minutes; every passing run checks the whole state
space of its instance. No run disables deadlock checking: finished programs
stutter explicitly (`Exited`, `Done`, `Finished`, `Judged`).

| Run | Shows | Instance |
|---|---|---|
| `compare` | `ConsumersAgree`, `ReleasesAreDecided`, `NoVerdictWithoutEvidence`, `SpellingIsIrrelevant` | components 0 to 3 with npm's limit at 3; every operator on every partial version, pairs, hyphen ranges, alternatives, stray operators, whitespace of three kinds; a length limit of 14 bytes, which alternatives with wide gaps reach |
| `verify` | `TypeOK`, `ReportIsComplete`, `ExitCodeIsHonest`, `KeepsContract` (refinement), `Terminates`, `InterruptedRunsShowNothing` | two supported names and one unsupported, every subset declared, with and without services and environment, every machine of the seven kinds of tool, one directory |
| `verify_changing` | `VerdictsAreGrounded`, `CancelStopsTheRun` | one name, two system directories, two changes of the machine at any moment; specification `UntimedSpec` |
| `probe` | `TypeOK`, `AnswersAreComplete`, `CancelEmptiesTheGroup`, `NothingIsLeft`, `Returns` | a leader and two descendants, one of which may change its credentials; any number of sweep rounds |
| `capture_write` | `TypeOK`, `NeverOverwritesUnasked`, `OthersKeepTheirContents`, `ForceIsAtomic`, `SuccessMeansStored`, `TemporariesRemoved`, `ReplacedFileIsReadWhole`, `OnlyThePathIsRead`, `Terminates`, `LoadTerminates` | two plain captures and a forced one, or a plain one, a forced one and a verify; two swaps |
| `detect` | `TypeOK`, `CaptureIsTheConjunction`, `EvidenceWasDeclared`, `PresentIsNeverAbsent` | seven package.json documents, one with a range no version is in, three of .nvmrc, every kind of entry, two edits |
| `end_to_end` | `TypeOK`, `CaptureIsUnderstood`, `AcceptedFilesAreUnambiguous`, `IgnoredKeysAreReported`, `VerdictsMeanTheDeclarations`, `VersionIsTheWholeOutput`, `ReportReadsBack`, `ExitTwoIsUsage` | nine ranges with thirteen .nvmrc files, ten packageManager values, every JSON type in each place; one right document and each way of being wrong; thirteen outputs, up to one piece beyond a limit of 5, in reads of any size |

Why the bounds are enough. The loop of `Verify` treats requirements one after
another and keeps nothing between them but the two lists and the context: two
inspections and one requirement that is skipped show every order of outcomes. A
tool that moves between two directories takes two changes, one that is replaced
between two steps of an inspection one; a third directory repeats the step from
the first to the second, and the theorems need no bound. A race in `Write`, `Load`
or `readFileIfPresent` is between a look and a use: two swaps or edits cover one
before and one after. In `Probe`, two descendants are the smallest tree with a
chain, an escape from the group and a member left behind; the one that cannot be
killed may be the child or the sibling of the other. (What hangs below one that
cannot be killed is as hard to kill, and takes two of them: the theorem covers it.)
The rounds of the sweep are not bounded: one that kills is followed by another, and
the last one finds nobody it can kill, unless the deadline comes first. The run has
the subreaper in effect and WOMM not as process 1; the theorems hold of the other
cases too. In `SemverRange` the digits 0, 1, one in between and the limit are all
the special cases of the constraint functions distinguish. `MaxServices`,
`MaxMachineChanges`, `MaxSwaps`, `MaxEdits`, `PathLength` and `OutputLimit` are
bounds of the instances; `MaxComponent`, `MaxNumeric` and `MaxLen` stand for limits
of the code itself.

Each property has a mutant in `PROJECT.json`: a variant of one definition, kept
beside it and introduced by "A bug the checks must find", under which TLC
violates the property.

### Fairness

* `Verify`: weak fairness of the goroutine (Go schedules it) and of
  `ProbeTimeout` (a timer that was armed fires). A tool that is not hanging is
  assumed to end; a hanging one ends only by the kill. Nobody has to send a
  signal. `UntimedSpec` drops the timer.
* `Probe`: weak fairness of the probe's goroutine, of the watcher and the copier
  and of the timers, the deadline of the sweep among them: without it a tool that
  forks for ever would be swept for ever. Nothing is assumed of the tool, its
  descendants or the user.
* `CaptureWrite`, `SharedFile`: weak fairness of each writer's and of the loader's
  steps, not of kills or swaps.
* `VerifyContract`: weak fairness of ending, which the code must imply.

### Where the code and its comments disagree

Each is a run that must find a violation, and a finding in `PROJECT.json`.

* `AbsentMeansNotInstalled`: any Stat error counts as "not installed"
  (`inspect/node/path.go:47`), so a tool one may not stat FAILs instead of being
  inconclusive.
* `SweepIsExhaustive`: the sweep's pass over /proc is not atomic; though all its
  calls succeed it can end, with time left, while an adopted child lives
  (`reaper_linux.go:33`). `NothingIsLeft` is what remains true: an undisturbed sweep
  leaves no child that its last pass could read and kill, and where orphans come to
  WOMM it leaves nothing at all unless there is one that the pass could not. What
  hangs below such a process stays too, for only children are looked for.
* `FileAlwaysParses`: without `--force` a failed write leaves a truncated
  womm.yaml at the path (`capture.go:116`).
* `VersionIsNeverGuessed`: an output longer than the limit is cut without a trace,
  and what is left may be one line that is a version (`node.go:366`).
  `VersionIsTheWholeOutput` is what remains true, within the limit.
* `PassMeansReadable`: `engines.node` is trimmed with Go's idea of whitespace
  before the grammar sees it, so a range with a U+0085 around it, which npm cannot
  read, is captured and can PASS (`detectors/node/node.go:79`).

Smaller ones seen while modelling, without a run:

* `Result.Errors` is said to hold failures "that produced no match" although a
  compare sentinel comes with one (`verify.go:45` against 136-139).
* A partial observation is said to mean the tool "was started" although a failure
  to start yields one too (`inspector.go:53`).
* The comment before the sweep says the group was killed on failure, which holds
  only when the context ended (`node.go:204`).
* Every child of the process is killed by the sweep, children inherited through
  exec too (`reaper_linux.go:41` and 59).
* A dangling link that is replaced by a file between the open and the Lstat is
  taken for absence (`helpers.go:23` and 58); `PresentIsNeverAbsent` admits it,
  because there was nothing to read at the open.
* A tool that moves from a later system directory to an earlier one during the
  search is observed absent though it was installed all the time (`path.go:44`).
* A round of the sweep that could kill nobody ends it, though a later one might
  have succeeded (`reaper_linux.go:64`), and a failing listing of /proc counts as an
  empty one (74-77).
* A tool that fails by itself shortly before the deadline is reported as timed out,
  because the context is looked at after the sweep (`node.go:215`). Both are
  UNREACHABLE; only the wording differs.
* A capture may combine engines.node and packageManager from two versions of
  package.json.
* A version that is an alias is judged by the anchor's name: `x: &1 5` with
  `version: *1` is accepted as version 1 (`load.go:124`). Sections that are aliases
  get no unknown-key warnings, and the merge key `<<` is warned of as ignored
  although the decoder applies it.
* Normalizing can make a range longer than `MaxLen`: it is stored and then refused
  by `Compare` (`semverrange.go:92`). The same happens to an exact version at or
  beyond the numeric limit from .nvmrc or packageManager
  (`packagemanager.go:183`).
* An engines range that no version satisfies is captured as it is.
* `printable` lets format characters (Unicode Cf) through (`report.go:168`); they
  break no line.
* `womm verify` of a file is an execution error, which exits 3 (`root.go:113-115`, and
  the test of a file passed positionally, `verify_test.go:227-233`). Its message
  begins with the path that was given (`cli/verify.go:57`), and when that begins like
  a usage error, "accepts " for example, the command exits 2 (`root.go:122`). The
  model does so too. `ExitTwoIsUsage` is about every other message and says nothing of
  this one, for which it does not hold.

## 4. Proofs

Every invariant that a passing run checks is also a theorem, for any sets and
bounds (`ConsumersAgree`, `SpellingIsIrrelevant` and `VerdictsMeanTheDeclarations`
under a condition on the state, named below); so are the safety properties that relate steps (`NeverOverwritesUnasked`,
`InterruptedRunsShowNothing`) and the safety part of the refinement. The proofs use
the named assumptions of the modules and nothing else:

* `Verify`: `Names` are positive numbers, `Printable` versions or none,
  `PathLength` and the bounds natural numbers.
* `CaptureWrite`, `SharedFile`: writers, forced ones among them, are not names of
  objects, and the loader is no writer.
* `Probe`: the names of processes, and that only descendants change their
  credentials. `Detect`: every place has entries with documents of the right form.
* `Compare`, `SemverRange`: `NotStrict`, which stands for every version that is no
  strict one, is no version. npm's limit on a component is positive, `MaxNumeric`
  is the largest triple of components within it, and the texts are texts of the
  grammar's fields.
* `Declarations`, `Output`: words that are versions have three components, and "#"
  and "=", which .nvmrc gives a meaning, are no versions. `NameOrder`, the alphabet
  of names, lists a name once.
* `EndToEnd`: the inputs have the form of their data types (`ProjectFiles`,
  `Readable`), and names of accepted files and of supported tools are in the
  alphabet, so that they can be sorted.

TLC evaluates each of them on the constants of the runs.

`VerifyProofs`: `TypeCorrect`, `ReportComplete`, `VerdictsGrounded`,
`ExitCodeHonest` and `InterruptedIsSilent`, from one inductive invariant in layers:

1. `TypeInv` adds to `TypeOK` that the requirement under inspection is a
   supported, declared one that the loop has taken, that nothing is shown before
   the end, and that a tool that is started was found in some directory.
2. `Bookkeeping` says what every declared requirement is at each moment: still to
   do, under inspection, matched exactly once, or with an error of its own; and
   that a cancellation error is recorded for every one that was cut short.
   `ReportIsComplete` is what is left of it when nothing is to do and no
   cancellation is recorded.
3. `Grounding` says that what is known of the requirement under inspection (the
   directories already searched, the image that was started, the observation, the
   error) is backed by `seen`, and that a cancelled probe context implies a
   cancelled run. The last part is what makes the second look at the context in
   `Verify` sufficient.
4. `ExitInv` relates the lists to the exit code once there is one, and the
   sections without a verifier to errors.

`InterruptedIsSilent` is a temporal property: a second invariant, `Doomed`, starts
to hold at the interruption. Either a requirement is still to be skipped, and only
skipping it is possible, or a cancellation is on record and stays there.

The last part of `VerifyProofs` has `ImplementsContract`: that `Verify`'s behaviours
satisfy the safety part of `VerifyContract` under the refinement mapping. Each step of the
program is a decision, a publication, giving up, or a stutter. What is needed
beyond the invariant above is `ErrorsInv`: an error that decides something is about
a requirement the loop is through with (so a decision is never taken back) and
makes the run inconclusive (so the code computed from the lists is the one that
follows from the decisions).

`SharedFileProofs`: `TypeCorrect`, `OthersUntouched`, `ForceAtomic`,
`SuccessStored`, `TemporariesGone`, `ReadWhole`, `PathRead` and the action property
`NothingOverwritten`. The invariant says what each writer holds open at each
place, that what it closes or renames is whole, and that a forced document that
somebody else can see, at the path or in the loader's hands, is finished. A step of
one writer touches nothing of another's (`StepTouchesOnly`), which carries the
argument from one writer to any number.

`ProbeProofs`: `TypeCorrect`, `AnswersComplete`, `GroupEmptied` and `NothingLeft`.
The last rests on the living processes forming a forest: every set of them has a
member whose parent is outside it. A pass that is not disturbed takes every child
of WOMM for a victim or misses it, and a round that killed nobody has missed
whatever victims it had. So what is a child of WOMM after the last round was
missed; and if orphans are WOMM's children and anything is alive, so is a child of
WOMM.

`DetectProofs`: `TypeCorrect`, `EvidenceDeclared`, `NeverAbsent` and
`Conjunction`. What a read is about to conclude it must have seen, and what it saw
is in `ever`, which only grows.

`RangeProofs` is about one text at a time. `NormalizedMeansTheSame`: if `Normalize`
accepts a text, npm can read it, and the bounds that the library makes of the
normalized text are the ones that npm's desugaring makes of the declared one.
There is one lemma per operator for a comparator, where the cases differ (how many
components are given, which is zero, whether there is a prerelease); then sets of
comparators, the operators that stand alone, hyphen ranges and alternatives.
`NormalizeIsIdempotent`: what capture stored, which `Compare` normalizes again,
stays as it is, or is refused for its length.

`CompareProofs`: `EvidenceNeeded` and `ReleasesDecided`, from lemmas about the
operator `Compare` on any requirement and observation, and the invariant that a
verdict is the engine's on what is stored. `ConsumersNeverDiffer` and
`SpellingNeverMatters` add `Routes`, how what is stored came from what is declared,
and the two theorems above. Both are stated under `Untrimmed`: of a captured text
with a U+0085 around it they do not hold, which is the finding about
`PassMeansReadable`.

`EndToEndProofs` has the eight properties of `EndToEnd`.

* The inductive invariant `IInv` has six parts. `Documented`: where womm.yaml came
  from, and that what was loaded is `ParseFile` of it. `Buffered`: what the writer
  has kept is the prefix, up to the limit, of what the pipe has delivered, which is
  what makes the cutting by reads irrelevant. `Looping` and `InARow`: the matches,
  the requirement in hand and those to come are of the file, and in this order
  strictly increasing by name. `Accounted`: without errors none is lost. `Compared`:
  every match has the engine's status. None of the properties is inductive without
  them: a match keeps a version, not the output it was read from, and a report is
  rendered from matches alone. `Ends` (how the command can end) and `Reported` (what
  is shown at the end) are invariants of their own.
* `EndToEndType`, `ExitTwoMeansUsage` and `VersionsAreWholeOutputs` follow from
  these and from lemmas about `Keep` and `ParseVersion`.
* `CapturesAreUnderstood`: what the detectors find has names and evidence that the
  schema admits, sorting loses none, and Marshal's document reads back in both
  decodings (`MarshalReadsBack`).
* `AcceptedFilesSayOneThing` and `NoIgnoredKeyIsSilent`: each check that `Parse` makes
  excludes one way in which the two decodings could differ.
* `ReportsReadBack`: where in the report each line of each match is. The lines are
  blocks laid end to end, so each match's begin after the lengths of the blocks
  before it, and no text can add a line to a block.
* `NvmReadsTheSelector`: the line rules of `nvmrcSignificant` take a selector only if
  nvm's own rules, stated separately, take the same one and no other.
* `VerdictsFollowTheDeclarations` puts all of it together, detection, schema,
  reading and engine, for a tool that runs, whenever the project and what its tools
  print are `WithinLimits`: no version beyond npm's numeric limit, no normalized
  range beyond `MaxLen`, no U+0085 around a range. Beyond the limits the code answers
  UNKNOWN, and for the U+0085 see the finding above. The condition is on the state,
  so that the theorem says something of every instance; in `end_to_end` it always
  holds, which TLC finds by evaluating `MCWithinLimits`.

`DocumentProofs` has what these proofs need of the operators. The induction
theorems of the library take an operator as a parameter, which the provers cannot
instantiate. `SetInduction` is the way around it: a set of numbers with 0 and with
every successor is `Nat`, from the library's theorem that `<` is well-founded. With
the set of lengths for which a statement holds it gives the inductions over
sequences: that `FlattenSeq`, a recursive function that is a `CHOOSE` to the provers,
exists and lays sequences end to end; that numbers, and so names, can be put in
order, hence that the `CHOOSE` in `InOrder` is a sorting; that a sum of counts is a
count. The same lemma serves `RangeProofs`, for the fields of a set.

Checked by TLC only: the liveness properties (`Terminates`, `LoadTerminates`,
`CancelStopsTheRun`, `Returns`) and the fairness part of `KeepsContract`, since
fairness and `ENABLED` are beyond the prover; and the findings, which are
counterexamples.

## 5. Not modelled, and why

* Wording, layout and quoting of the report and of messages, except where a
  message's beginning decides the exit code and where a text could break a line.
* The syntax of YAML and JSON: a document is right or wrong. The spelling of one
  comparator (a leading "v", build metadata, letters of a prerelease) is left to the
  regular expressions of `semverrange`.
* The environment given to probes and the account's home: built from the process's
  own environment and the user database, no state.
* Power failures: nothing is synced to disk, and the code promises nothing.
* In-place modification of a file by others while it is read, reuse of process ids,
  and a second signal.
* The reaper outside Linux is two empty functions; the program's entry only calls
  `Execute`, and the repository's scripts are no part of it.

## 6. Plan

Done: every component that keeps state or decides something, and the theorems
above. What is left, in the order of its use:

1. That Marshal and `ParseFile` are inverse on files with services and an environment
   too, which capture never writes.
2. What verdicts are beyond `WithinLimits`: never PASS of what a tool would refuse.
3. Several verifies beside the captures in `SharedFile`, and reads through an
   inode that others modify in place.
