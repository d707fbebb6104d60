------------------------------ MODULE EndToEnd ------------------------------
(***************************************************************************)
(* The way from a declaration to an exit code: `womm capture' turns what a *)
(* project declares into womm.yaml, or somebody writes that file by hand;  *)
(* `womm verify' loads it, asks each tool for its version, judges what the *)
(* tools print, shows the report and exits.  This composes the detectors   *)
(* (Declarations), the file format (Schema), the reading of a tool's       *)
(* output (Output), the range grammar and the engine (SemverRange,         *)
(* Compare) and the report (Report).  Signals, hanging tools, a changing   *)
(* machine and racing writers are the subject of Verify, Probe, Detect and *)
(* CaptureWrite.                                                           *)
(***************************************************************************)
EXTENDS Report, Output

CONSTANTS
    Projects,       \* the projects one may capture
    Documents,      \* the womm.yaml documents one may have written
    Outputs,        \* what a tool may print
    Paths           \* how a project path given on the command line may begin

ASSUME InputsAssumption ==
    /\ Projects \subseteq ProjectFiles
    /\ \A d \in Documents :
         /\ Readable(d)
         /\ \A i \in DOMAIN d.requirements : ParseFile(d).err = "none" => d.requirements[i].name \in Ordered
    /\ Outputs \subseteq Seq(STRING)

VARIABLES
    pc,             \* "start", "load", "next", "probe", "exited"
    project,        \* what `womm capture' finds
    doc,            \* womm.yaml
    origin,         \* "none", "captured" or "written"
    loaded,         \* what Load returned: file, warnings, err
    todo,           \* the requirements the loop has not taken yet
    current,        \* the requirement under inspection
    output,         \* what its tool prints, in full
    rest, kept,     \* the part not read yet, and the contents of boundedWriter
    matches, errors,\* Result.Matches, and how many Result.Errors there are
    report,         \* what was shown
    message,        \* the error of the command: its cause and how it begins
    exit

vars == <<pc, project, doc, origin, loaded, todo, current, output, rest, kept,
          matches, errors, report, message, exit>>
probe == <<output, rest, kept>>
result == <<matches, errors>>

SupportedTools == {"node", "npm", "pnpm", "yarn"}

ASSUME ToolsAssumption == SupportedTools \subseteq Ordered

NoDocument == Stream(0, TRUE, "none", <<>>, Scalar(NotAnInteger, NotAnInteger), FALSE, <<>>, FALSE, <<>>, <<>>)
NoProject == Project("missing", "missing", "missing", Blank, "missing", NoManager, FALSE, <<>>)
NotLoaded == ParseError("not loaded", {})
NoRequirement == Requirement(Empty, Blank, <<>>)
NoReport == [lines |-> <<>>, summary |-> Summary(<<>>)]
Message(cause, begins) == [cause |-> cause, begins |-> begins]
Quiet == Message("none", Empty)

NotExited == -1

Init ==
    /\ pc = "start"
    /\ project \in Projects
    /\ doc = NoDocument
    /\ origin = "none"
    /\ loaded = NotLoaded
    /\ todo = <<>>
    /\ current = NoRequirement
    /\ output = <<>> /\ rest = <<>> /\ kept = <<>>
    /\ matches = <<>> /\ errors = 0
    /\ report = NoReport
    /\ message = Quiet
    /\ exit = NotExited

-----------------------------------------------------------------------------
(* Ending with an error.                                                   *)

\* A bug the checks must find: "requires at least" is cut short to "requir".
ShortPrefixes ==
    {"unknown command", "unknown flag", "unknown shorthand", "bad flag syntax",
     "flag needs an argument", "flag provided but not defined", "invalid argument",
     "no flag", "accepts ", "requires at least", "requirements["}

\* exitCodeFor: how the messages of usage errors begin.
UsageBeginnings ==
    {"unknown command", "unknown flag", "unknown shorthand", "bad flag syntax",
     "flag needs an argument", "flag provided but not defined", "invalid argument",
     "no flag", "accepts ", "requires at least"}

ExitCodeFor(m) == IF m.begins \in UsageBeginnings THEN 2 ELSE 3

\* run, when the command returns an error that is no exitCodeError.
Fails(m) ==
    /\ pc' = "exited"
    /\ message' = m
    /\ exit' = ExitCodeFor(m)

\* cobra and pflag refuse the command line, in the ways these commands have.
Misuse ==
    /\ pc = "start"
    /\ \E begins \in {"unknown command", "unknown flag", "unknown shorthand", "bad flag syntax",
                      "flag needs an argument", "invalid argument", "accepts "} :
         Fails(Message("usage", begins))
    /\ UNCHANGED <<project, doc, origin, loaded, todo, current, probe, result, report>>

\* `womm verify path/to/womm.yaml': the message begins with the path.
ProjectIsAFile ==
    /\ pc = "start"
    /\ \E path \in Paths : Fails(Message("argument", path))
    /\ UNCHANGED <<project, doc, origin, loaded, todo, current, probe, result, report>>

-----------------------------------------------------------------------------
(* womm capture: the detectors, Validate, Marshal, Parse of the result.    *)

\* The document capture writes, if it comes to that.
DocumentOf(found) ==
    LET file == File(found.requirements, <<>>, FALSE)
    IN IF found.ok /\ Valid(file) /\ ParseFile(Marshal(file)).err = "none"
       THEN Marshal(file) ELSE NoDocument

Captured == DocumentOf(CaptureRequirements(project))

\* How the messages of Capture and Write begin: there is no such directory,
\* a detector objects, or Validate, Marshal or Parse does, or nothing can be
\* stored, as CaptureWrite has it in detail.
CaptureBeginnings(found) ==
    {"cannot capture"} \cup
      (IF ~found.ok THEN {"node detection", "package-manager detection"}
       ELSE IF DocumentOf(found) = NoDocument
       THEN {"captured requirements are not a valid womm.yaml", "refusing to serialize",
             "cannot serialize", "serialized womm.yaml does not parse back"}
       ELSE {"output path is a symbolic link", "output file already exists", "cannot write"})

CaptureFails ==
    /\ pc = "start"
    /\ \E begins \in CaptureBeginnings(CaptureRequirements(project)) :
         Fails(Message("capture", begins))
    /\ UNCHANGED <<project, doc, origin, loaded, todo, current, probe, result, report>>

Capture ==
    /\ pc = "start"
    /\ Captured # NoDocument
    /\ doc' = Captured
    /\ origin' = "captured"
    /\ pc' = "load"
    /\ UNCHANGED <<project, loaded, todo, current, probe, result, report, message, exit>>

\* What the project declares does not matter any more.
WriteByHand ==
    /\ pc = "start"
    /\ doc' \in Documents
    /\ origin' = "written"
    /\ project' = NoProject
    /\ pc' = "load"
    /\ UNCHANGED <<loaded, todo, current, probe, result, report, message, exit>>

-----------------------------------------------------------------------------
(* womm verify.                                                            *)

\* There is no file, or none that Load reads.
NothingToLoad ==
    /\ pc = "start"
    /\ \E begins \in {"no womm.yaml at", "cannot read", "womm.yaml is a symbolic link"} :
         Fails(Message("load", begins))
    /\ UNCHANGED <<project, doc, origin, loaded, todo, current, probe, result, report>>

\* How the messages of Parse begin.
Beginnings(err) ==
    CASE err = "invalid"   -> {"requirements[", "services."}
      [] err = "malformed" -> {"womm.yaml is not valid YAML"}
      [] OTHER             -> {"womm.yaml has no version field", "womm.yaml version", "womm.yaml uses"}

LoadFails ==
    /\ pc = "load"
    /\ ParseFile(doc).err # "none"
    /\ loaded' = ParseFile(doc)
    /\ \E begins \in Beginnings(ParseFile(doc).err) : Fails(Message("load", begins))
    /\ UNCHANGED <<project, doc, origin, todo, current, probe, result, report>>

\* Load, and Verify up to its loop: declared sections nobody verifies are
\* errors, and the requirements are taken in the order of their names.
Load ==
    /\ pc = "load"
    /\ ParseFile(doc).err = "none"
    /\ loaded' = ParseFile(doc)
    /\ LET file == ParseFile(doc).file
       IN /\ todo' = ByName(file.requirements, NamesOf(file.requirements))
          /\ errors' = Len(file.services) + (IF file.environment THEN 1 ELSE 0)
    /\ pc' = "next"
    /\ UNCHANGED <<project, doc, origin, current, probe, matches, report, message, exit>>

Take ==
    /\ pc = "next"
    /\ todo # <<>>
    /\ todo' = Tail(todo)
    /\ current' = Head(todo)

SkipUnsupported ==
    /\ Take
    /\ current'.name \notin SupportedTools
    /\ errors' = errors + 1
    /\ UNCHANGED <<pc, project, doc, origin, loaded, probe, matches, report, message, exit>>

\* Judge: Compare, the match kept, and its sentinel recorded besides.
Judge(requirement, present, version) ==
    LET verdict == Compare([name |-> requirement.name, constraint |-> ConstraintOf(requirement.constraint)],
                           [name |-> requirement.name, present |-> present, version |-> version])
    IN /\ matches' = Append(matches, Match(requirement, present, version, verdict.status))
       /\ errors' = errors + (IF verdict.err = "none" THEN 0 ELSE 1)

Absent ==
    /\ Take
    /\ current'.name \in SupportedTools
    /\ Judge(current', FALSE, NoVersion)
    /\ output' = <<>>
    /\ UNCHANGED <<pc, project, doc, origin, loaded, rest, kept, report, message, exit>>

ProbeFails ==
    /\ Take
    /\ current'.name \in SupportedTools
    /\ matches' = Append(matches, Match(current', TRUE, NoVersion, "unreachable"))
    /\ output' = <<>>
    /\ UNCHANGED <<pc, project, doc, origin, loaded, rest, kept, errors, report, message, exit>>

Runs ==
    /\ Take
    /\ current'.name \in SupportedTools
    /\ output' \in Outputs
    /\ rest' = output'
    /\ kept' = <<>>
    /\ pc' = "probe"
    /\ UNCHANGED <<project, doc, origin, loaded, result, report, message, exit>>

\* os/exec's copier hands on what a read of the pipe returned.
Read ==
    /\ pc = "probe"
    /\ \E n \in DOMAIN rest :
         /\ kept' = Keep(kept, SubSeq(rest, 1, n))
         /\ rest' = SubSeq(rest, n + 1, Len(rest))
    /\ UNCHANGED <<pc, project, doc, origin, loaded, todo, current, output, result, report, message, exit>>

Finish ==
    /\ pc = "probe"
    /\ rest = <<>>
    /\ Judge(current, TRUE, ParseVersion(current.name, kept))
    /\ kept' = <<>>
    /\ pc' = "next"
    /\ UNCHANGED <<project, doc, origin, loaded, todo, current, output, rest, report, message, exit>>

ExitCode ==
    LET has(s) == \E i \in DOMAIN matches : matches[i].status = s
    IN CASE errors > 0 \/ has("unknown") \/ has("unreachable") -> 3
         [] errors = 0 /\ ~has("unknown") /\ ~has("unreachable") /\ has("fail") -> 1
         [] OTHER -> 0

ShowReport ==
    /\ pc = "next"
    /\ todo = <<>>
    /\ report' = Render(matches)
    /\ exit' = ExitCode
    /\ pc' = "exited"
    /\ UNCHANGED <<project, doc, origin, loaded, todo, current, probe, result, message>>

\* The standard output does not take the report, or not all of it.
ReportFails ==
    /\ pc = "next"
    /\ todo = <<>>
    /\ Fails(Message("report", "write"))
    /\ UNCHANGED <<project, doc, origin, loaded, todo, current, probe, result, report>>

Exited == pc = "exited" /\ UNCHANGED vars

Next ==
    \/ Misuse \/ ProjectIsAFile
    \/ CaptureFails \/ Capture \/ WriteByHand
    \/ NothingToLoad \/ LoadFails \/ Load
    \/ SkipUnsupported \/ Absent \/ ProbeFails \/ Runs \/ Read \/ Finish
    \/ ShowReport \/ ReportFails \/ Exited

Spec == Init /\ [][Next]_vars

-----------------------------------------------------------------------------
(* Type correctness: what the command holds at each place of Verify and     *)
(* RunE; in particular boundedWriter never keeps more than its limit and    *)
(* every kept byte was printed.                                             *)
TypeOK ==
    /\ pc \in {"start", "load", "next", "probe", "exited"}
    /\ project \in Projects \cup {NoProject}
    /\ origin \in {"none", "captured", "written"}
    /\ exit \in {NotExited, 0, 1, 2, 3}
    /\ pc = "exited" <=> exit # NotExited
    /\ Len(kept) <= OutputLimit
    /\ IsPrefix(kept, output)
    /\ \A i \in DOMAIN matches : matches[i].status \in Statuses
    /\ errors \in Nat

-----------------------------------------------------------------------------
(* The file format between the two commands.                               *)

(* What capture writes, verify understands: it loads without an error and   *)
(* without a warning, as the same requirements with the same evidence, and  *)
(* leaves no section unverified (capture.go: a file on disk is always one   *)
(* schema.Parse accepts; marshal.go: Parse decodes the same names).         *)
CaptureIsUnderstood ==
    (origin = "captured" /\ pc # "load") =>
        /\ loaded.err = "none"
        /\ loaded.warnings = {}
        /\ loaded.file = File(CaptureRequirements(project).requirements, <<>>, FALSE)

(* A file that is accepted says one thing: there is one document, the       *)
(* version checked on the node tree is the one the struct decodes to, no    *)
(* two requirements have one name, no name hides or breaks, and nothing is  *)
(* required without evidence (load.go, the two decodings; validate.go).     *)
(* An aliased version is the exception: its node carries the anchor's name. *)
AcceptedFilesAreUnambiguous ==
    loaded.err = "none" =>
        LET reqs == loaded.file.requirements
        IN /\ doc.documents = 1
           /\ ~doc.versionAliased => doc.version.value = SchemaVersion
           /\ Cardinality({reqs[i].name : i \in DOMAIN reqs}) = Len(doc.requirements)
           /\ \A i \in DOMAIN reqs :
                /\ reqs[i].name \notin {Empty} \cup Breaking \cup Hiding
                /\ \E j \in DOMAIN reqs[i].evidence :
                     reqs[i].evidence[j] = Evidence(doc.requirements[i].evidence[j].source,
                                                    doc.requirements[i].evidence[j].field)

\* The yaml tags of schema.File, core.Requirement, core.Evidence,
\* schema.Service and schema.Environment.
FileTags        == {"version", "requirements", "services", "environment"}
RequirementTags == {"name", "constraint", "evidence"}
EvidenceTags    == {"source", "field", "value"}
ServiceTags     == {"version", "port"}
EnvironmentTags == {"required", "optional"}

\* The keys of an accepted document that the struct does not decode.
Ignored ==
    LET reqs == doc.requirements
        proofs == UNION {KeysOf(reqs[i].evidence) : i \in DOMAIN reqs}
        keys(records) == UNION {KeysOf(r.keys) : r \in records}
    IN (KeysOf(doc.keys) \ FileTags)
         \cup (keys(KeysOf(reqs)) \ RequirementTags)
         \cup (keys(proofs) \ EvidenceTags)
         \cup (keys(KeysOf(doc.services)) \ ServiceTags)
         \cup (KeysOf(doc.environment) \ EnvironmentTags)

(* The tables of known keys (load.go:142-150) and the yaml tags (schema.go, *)
(* core) are kept by hand in two places: exactly the keys of an accepted    *)
(* file that the decoder ignores are warned of, but for aliased sections,   *)
(* whose nodes have no contents.                                            *)
IgnoredKeysAreReported ==
    (loaded.err = "none" /\ ~doc.aliased) =>
        {w[2] : w \in loaded.warnings} = Ignored

-----------------------------------------------------------------------------
(* Declaration, machine and verdict.                                       *)

NpmAdmits(range, v) == \E group \in NpmRange(range) : \A c \in group : Holds(v, c)

\* nvm: the line is nothing but this version, or says nothing about one.
SaysVersion(line, word) == line # <<>> /\ line[1] = word /\ (Len(line) = 1 \/ line[2] = "#")
SaysNothing(line) ==
    \/ line = <<>>
    \/ line[1] = "#"
    \/ \E i \in DOMAIN line : i > 1 /\ line[i] = "=" /\ \A j \in 1..i : line[j] # "#"

NvmAdmits(lines, v) ==
    \E i \in DOMAIN lines : \E word \in Words :
        /\ SaysVersion(lines[i], word)
        /\ VersionOf(Exact[word]) = v
        /\ \A j \in DOMAIN lines \ {i} : SaysNothing(lines[j])

DeclaresNode ==
    \/ project.hasNvmrc
    \/ /\ <<project.package, project.engines, project.node>> = <<"object", "object", "string">>
       /\ project.range.sets # <<<<>>>>

DeclaresManager == project.package = "object" /\ project.manager # NoManager

\* What the project's own tools, npm, nvm and Corepack, take the declarations
\* of one requirement to admit.
ToolsAdmit(name, v) ==
    IF name = "node"
    THEN /\ (project.package = "object" /\ project.engines = "object" /\ project.node = "string"
                /\ project.range.sets # <<<<>>>>) => NpmAdmits(project.range, v)
         /\ project.hasNvmrc => NvmAdmits(project.nvmrc, v)
    ELSE name = project.manager.name /\ v = VersionOf(Exact[project.manager.word])

\* The words that a project pins in .nvmrc or in packageManager.
PinnedWords(p) ==
    {word \in Words :
        \/ NvmrcSelects(NvmrcSignificant(p.nvmrc)) /\ word = NvmrcSignificant(p.nvmrc)[1]
        \/ word = p.manager.word}

(* What a project declares is within the limits of npm and, normalized,     *)
(* within the length of a range; and its range has no U+0085 around it,     *)
(* which the detector trims and npm does not.                               *)
DeclaresWithinLimits(p) ==
    /\ p.range.ws # "nel outside" /\ ~(Bytes(Normalize(p.range)) > MaxLen)
    /\ \A word \in PinnedWords(p) : Normalize(ExactText(Exact[word])) # Refused

(* And so is what was read of its tools.                                    *)
WithinLimits ==
    /\ DeclaresWithinLimits(project)
    /\ \A i \in DOMAIN matches : matches[i].version # NoVersion => matches[i].version.core <= MaxNumeric

(* The whole way of a declaration: a captured project requires just what it *)
(* declares, and a release of a tool passes exactly when npm, nvm and       *)
(* Corepack, reading the project themselves, would all take it (node.go,    *)
(* the conjunction rule; packagemanager.go, "the pin WOMM can verify").     *)
VerdictsMeanTheDeclarations ==
    origin = "captured" =>
        /\ {doc.requirements[i].name : i \in DOMAIN doc.requirements} =
             (IF DeclaresNode THEN {"node"} ELSE {}) \cup
             (IF DeclaresManager /\ project.managerType = "string" THEN {project.manager.name} ELSE {})
        /\ \A i \in DOMAIN matches :
             LET m == matches[i]
             IN (m.present /\ m.version # NoVersion /\ ~IsPrerelease(m.version)) =>
                  m.status = IF ToolsAdmit(m.requirement.name, m.version) THEN "pass" ELSE "fail"

-----------------------------------------------------------------------------
(* The reading of a tool's output.                                         *)

\* The whole output is blank but for one version, for node with a "v" before it.
Says(tool, text, v) ==
    \E i \in DOMAIN text :
        /\ text[i] \in DOMAIN Printed
        /\ VersionOf(Printed[text[i]]) = v
        /\ \A j \in DOMAIN text \ {i} :
             \/ text[j] \in {"space", "newline"}
             \/ tool = "node" /\ j = i - 1 /\ text[j] = "v"

Observed == matches[Len(matches)]

WholeOutputs(limited) ==
    (/\ pc = "next" /\ output # <<>> /\ matches # <<>>
     /\ Observed.requirement = current
     /\ Observed.version # NoVersion
     /\ limited => Len(output) <= OutputLimit)
        => Says(current.name, output, Observed.version)

(* However the output arrives in reads of the pipe: of an output within the *)
(* limit, a version is observed only when the whole output says just that   *)
(* version (boundedWriter and parseVersion, node.go:366-399).               *)
VersionIsTheWholeOutput == WholeOutputs(TRUE)

(* parseVersion's comment says so of every output: "It never guesses:       *)
(* exactly one non-blank line is required" (node.go:376-381).               *)
VersionIsNeverGuessed == WholeOutputs(FALSE)

-----------------------------------------------------------------------------
(* The report and the exit code.                                           *)

\* The places of the report's lines of one kind.
Places(kind) == {k \in DOMAIN report.lines : report.lines[k].kind = kind}

(* A reader who knows nothing but the lines of the report learns the        *)
(* verdicts: one match line per match and nothing else that looks like one, *)
(* in the order of the names, each with its evidence, a summary that counts *)
(* them, and, without errors, an exit code that follows from the summary    *)
(* (report.go:163, no text can forge or break a report line; verify.go:153).*)
ReportReadsBack ==
    (pc = "exited" /\ message = Quiet) =>
        LET verdicts == Places("match")
            count(s) == Cardinality({k \in verdicts : report.lines[k].label = s})
        IN /\ Places("forged") = {}
           /\ Cardinality(verdicts) = Len(matches)
           /\ {report.lines[k] : k \in verdicts} =
                {Line("match", matches[i].requirement.name, matches[i].status) : i \in DOMAIN matches}
           /\ \A j, k \in verdicts :
                j < k => NameBefore(report.lines[j].name, report.lines[k].name)
           /\ \A i \in DOMAIN matches :
                Cardinality({k \in Places("evidence") :
                               report.lines[k].name = matches[i].requirement.name})
                  = Len(matches[i].requirement.evidence)
           /\ \A s \in Statuses : report.summary[s] = count(s)
           /\ exit = 0 => count("pass") = Len(matches) /\ Len(matches) = Len(loaded.file.requirements)
           /\ exit = 1 => count("fail") > 0 /\ count("pass") + count("fail") = Len(matches)

(* A command ends with 2 exactly when it was used wrongly: whatever else    *)
(* goes wrong in capture, in writing, in loading or in showing the report,  *)
(* the error's text is not taken for one of cobra's, and every text of      *)
(* cobra's is (root.go, exitCodeFor: "anything else is an execution error", *)
(* told by how the messages begin).  One message is left out, which begins  *)
(* with a path from the command line: it begins as the user likes.          *)
ExitTwoIsUsage ==
    (pc = "exited" /\ message.cause # "argument") => (exit = 2 <=> message.cause = "usage")
=============================================================================
