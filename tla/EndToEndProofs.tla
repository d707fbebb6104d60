--------------------------- MODULE EndToEndProofs ---------------------------
(* Theorems about the way from a declaration to an exit code in module      *)
(* EndToEnd, for all projects, documents, outputs, names and limits.        *)
EXTENDS DocumentProofs

-----------------------------------------------------------------------------
(* How the command ends.                                                    *)

(* An exit with an error carries a message, whose beginning tells its cause *)
(* unless a path leads it.                                                  *)
Ends ==
    /\ pc \in {"start", "load", "next", "probe", "exited"}
    /\ pc = "exited" => exit # NotExited
    /\ pc # "exited" => exit = NotExited /\ message = Quiet
    /\ message = Quiet => exit \in {NotExited, 0, 1, 3}
    /\ message # Quiet =>
         /\ exit = ExitCodeFor(message)
         /\ message.cause = "usage" => message.begins \in UsageBeginnings
         /\ message.cause \notin {"usage", "argument"} => message.begins \notin UsageBeginnings

\* An action that fails ends the command with the code of its message.
LEMMA FailingEnds ==
    ASSUME NEW cause, NEW begins, cause # "none", Fails(Message(cause, begins)),
           cause = "usage" => begins \in UsageBeginnings,
           cause \notin {"usage", "argument"} => begins \notin UsageBeginnings
    PROVE  Ends'
<1>1. Message(cause, begins).cause = cause /\ Message(cause, begins).begins = begins
  BY DEF Message
<1>2. Message(cause, begins) # Quiet
  BY DEF Message, Quiet
<1>3. ExitCodeFor(Message(cause, begins)) \in {2, 3}
  BY DEF ExitCodeFor
<1> QED
  BY <1>1, <1>2, <1>3 DEF Fails, Ends, NotExited

\* Ends holds whatever happens.
LEMMA EndsInvariant == Spec => []Ends
<1>1. Init => Ends
  BY DEF Init, Ends, NotExited
<1>2. Ends /\ [Next]_vars => Ends'
  <2> SUFFICES ASSUME Ends, [Next]_vars PROVE Ends'
    OBVIOUS
  <2>1. CASE Misuse
    BY <2>1, FailingEnds DEF Misuse, UsageBeginnings
  <2>2. CASE ProjectIsAFile
    BY <2>2, FailingEnds DEF ProjectIsAFile
  <2>3. CASE ReportFails
    BY <2>3, FailingEnds DEF ReportFails, UsageBeginnings
  <2>4. CASE CaptureFails
    <3>1. PICK begins \in CaptureBeginnings(CaptureRequirements(project)) :
             Fails(Message("capture", begins))
      BY <2>4 DEF CaptureFails
    <3>2. begins \notin UsageBeginnings
      BY <3>1 DEF CaptureBeginnings, UsageBeginnings
    <3> QED
      BY <3>1, <3>2, FailingEnds
  <2>5. CASE NothingToLoad
    BY <2>5, FailingEnds DEF NothingToLoad, UsageBeginnings
  <2>6. CASE LoadFails
    <3>1. PICK begins \in Beginnings(ParseFile(doc).err) : Fails(Message("load", begins))
      BY <2>6 DEF LoadFails
    <3>2. begins \notin UsageBeginnings
      BY <3>1 DEF Beginnings, UsageBeginnings
    <3> QED
      BY <3>1, <3>2, FailingEnds
  <2>7. CASE ShowReport
    BY <2>7 DEF ShowReport, Ends, ExitCode, NotExited
  <2>8. CASE Capture \/ WriteByHand \/ Load \/ SkipUnsupported \/ Absent \/ ProbeFails \/ Runs \/ Read \/ Finish
    BY <2>8 DEF Capture, WriteByHand, Load, Take, SkipUnsupported, Absent, ProbeFails, Runs, Read, Finish, Ends
  <2>9. CASE UNCHANGED vars
    BY <2>9 DEF vars, Ends
  <2> QED
    BY <2>1, <2>2, <2>3, <2>4, <2>5, <2>6, <2>7, <2>8, <2>9 DEF Next, Exited
<1> QED
  BY <1>1, <1>2, PTL DEF Spec

(* Whatever the project, the file and the tools are, and whichever error    *)
(* ends the command, it exits with 2 exactly for the errors of cobra and    *)
(* pflag, but for the one whose message a path of the user's leads          *)
(* (root.go, exitCodeFor: they are told by how their messages begin).       *)
THEOREM ExitTwoMeansUsage == Spec => []ExitTwoIsUsage
<1>1. Ends => ExitTwoIsUsage
  BY DEF Ends, ExitTwoIsUsage, ExitCodeFor, NotExited, Quiet, Message
<1> QED
  BY <1>1, EndsInvariant, PTL

-----------------------------------------------------------------------------
(* The inductive invariant.                                                 *)

(* What the parser can be given, with names that can be sorted.             *)
Understood(d) ==
    /\ Readable(d)
    /\ ParseFile(d).err = "none" => \A i \in DOMAIN d.requirements : d.requirements[i].name \in Ordered

(* womm.yaml and what became of it.                                         *)
Documented ==
    /\ origin \in {"none", "captured", "written"}
    /\ pc = "start" => origin = "none"
    /\ pc \in {"load", "next", "probe"} => origin # "none"
    /\ origin = "none" => project \in Projects /\ loaded = NotLoaded
    /\ origin = "written" => project = NoProject /\ doc \in Documents
    /\ origin = "captured" => project \in Projects /\ Captured # NoDocument /\ doc = Captured
    /\ loaded = NotLoaded \/ (origin # "none" /\ loaded = ParseFile(doc))
    /\ pc \in {"next", "probe"} => loaded = ParseFile(doc) /\ loaded.err = "none"
    /\ (origin = "captured" /\ pc # "load") => loaded = ParseFile(doc)
    /\ (pc = "exited" /\ message = Quiet) => loaded = ParseFile(doc) /\ loaded.err = "none"

(* boundedWriter has a prefix of what the pipe has delivered.               *)
Buffered ==
    /\ output \in Outputs \cup {<<>>}
    /\ pc = "probe" => \E n \in 0..Len(output) :
         /\ rest = SubSeq(output, n + 1, Len(output))
         /\ kept = SubSeq(output, 1, Lesser(OutputLimit, n))
    /\ pc # "probe" => kept = <<>>

(* A match is about a requirement of the file, of a tool that has a         *)
(* verifier.                                                                *)
Judgeable(m) ==
    /\ m \in Matches
    /\ m.requirement.name \in SupportedTools
    /\ m.requirement \in KeysOf(loaded.file.requirements)

(* The loop: what it has judged, what it holds and what it has not taken.   *)
Looping ==
    /\ errors \in Nat
    /\ todo \in Seq(Requirements)
    /\ matches \in Seq(Matches)
    /\ \A i \in DOMAIN matches : Judgeable(matches[i])
    /\ \A i \in DOMAIN todo : todo[i] \in KeysOf(loaded.file.requirements)
    /\ pc \in {"start", "load"} => matches = <<>> /\ todo = <<>> /\ errors = 0
    /\ pc = "probe" => /\ current \in Requirements
                       /\ current.name \in SupportedTools
                       /\ current \in KeysOf(loaded.file.requirements)

\* The names of these lists are in strictly increasing order, in a row.
InARow ==
    /\ \A i, j \in DOMAIN todo : i < j => NameBefore(todo[i].name, todo[j].name)
    /\ \A i, j \in DOMAIN matches : i < j => NameBefore(matches[i].requirement.name, matches[j].requirement.name)
    /\ \A i \in DOMAIN matches, j \in DOMAIN todo : NameBefore(matches[i].requirement.name, todo[j].name)
    /\ pc = "probe" =>
         /\ \A i \in DOMAIN matches : NameBefore(matches[i].requirement.name, current.name)
         /\ \A j \in DOMAIN todo : NameBefore(current.name, todo[j].name)

(* Without errors, every requirement is accounted for.                      *)
Accounted ==
    (errors = 0 /\ pc \in {"next", "probe", "exited"} /\ loaded # NotLoaded /\ loaded.err = "none") =>
        Len(matches) + (IF pc = "probe" THEN 1 ELSE 0) + Len(todo) = Len(loaded.file.requirements)

(* The status of a match is the engine's verdict on it, or "unreachable".   *)
RightStatus(m) ==
    LET verdict == Compare([name |-> m.requirement.name, constraint |-> ConstraintOf(m.requirement.constraint)],
                           [name |-> m.requirement.name, present |-> m.present, version |-> m.version])
    IN IF m.status = "unreachable" THEN m.version = NoVersion ELSE m.status = verdict.status

\* Every match has the right status.
Compared == \A i \in DOMAIN matches : RightStatus(matches[i])

\* All of it.
IInv == Documented /\ Buffered /\ Looping /\ InARow /\ Accounted /\ Compared

-----------------------------------------------------------------------------
(* What capture writes is such a document.                                  *)

\* What capture sorts is what the detectors have found.
LEMMA CapturedRequirements ==
    ASSUME NEW p \in ProjectFiles, CaptureRequirements(p).ok
    PROVE  /\ NodeDetect(p).ok /\ PackageManagerDetect(p).ok
           /\ CaptureRequirements(p).requirements \in Seq(Requirements)
           /\ KeysOf(CaptureRequirements(p).requirements) = KeysOf(Found2(p))
           /\ \A r \in KeysOf(CaptureRequirements(p).requirements) : r.name \in SupportedTools
<1> DEFINE all == Found2(p)
           names == NamesOf(all)
<1>1. NodeDetect(p).ok /\ PackageManagerDetect(p).ok
  <2>1. ~DetectionError.ok
    BY DEF DetectionError
  <2>2. ~(NodeDetect(p).ok /\ PackageManagerDetect(p).ok) => CaptureRequirements(p) = DetectionError
    BY Zenon DEF CaptureRequirements
  <2> QED
    BY <2>1, <2>2
<1>2. CaptureRequirements(p) = Found(ByName(all, names))
  BY <1>1, Zenon DEF CaptureRequirements, Found2
<1>3. all \in Seq(Requirements) /\ \A r \in KeysOf(all) : r.name \in SupportedTools
  BY <1>1, DetectedAreRequirements
<1> HIDE DEF all
<1>4. names \in [1..Len(all) -> Ordered]
  <2>1. \A i \in DOMAIN all : all[i].name \in Ordered
    BY <1>3, ToolNames DEF KeysOf
  <2> QED
    BY <1>3, <2>1 DEF NamesOf
<1>5. ByName(all, names) \in Seq(Requirements) /\ KeysOf(ByName(all, names)) = KeysOf(all)
  BY <1>3, <1>4, SortedByName
<1>6. CaptureRequirements(p).requirements = ByName(all, names)
  BY <1>2 DEF Found
<1> QED
  BY <1>1, <1>3, <1>5, <1>6 DEF all

\* What capture writes is read back as what was captured.
LEMMA CapturedDocument ==
    ASSUME project \in ProjectFiles, Captured # NoDocument
    PROVE  LET reqs == CaptureRequirements(project).requirements
           IN /\ CaptureRequirements(project).ok
              /\ ParseFile(Captured) = [file |-> File(reqs, <<>>, FALSE), warnings |-> {}, err |-> "none"]
              /\ Captured.requirements = [i \in DOMAIN reqs |-> WrittenItem(reqs[i])]
              /\ Understood(Captured)
<1> DEFINE reqs == CaptureRequirements(project).requirements
           file == File(reqs, <<>>, FALSE)
           d == Marshal(file)
<1>1. CaptureRequirements(project).ok /\ ParseFile(d).err = "none" /\ Captured = d
  BY Zenon DEF Captured, DocumentOf
<1>2. reqs \in Seq(Requirements) /\ \A r \in KeysOf(reqs) : r.name \in SupportedTools
  BY <1>1, CapturedRequirements
<1>3. /\ Readable(d) /\ Decode(d) = file /\ CheckUnknownKeys(d) = {}
      /\ d.requirements = [i \in DOMAIN reqs |-> WrittenItem(reqs[i])]
  BY <1>2, MarshalReadsBack
<1>4. ParseFile(d) = [file |-> file, warnings |-> {}, err |-> "none"]
  BY <1>1, <1>3, Accepted, Zenon
<1>5. Understood(d)
  <2> SUFFICES ASSUME NEW i \in DOMAIN d.requirements PROVE d.requirements[i].name \in Ordered
    BY <1>3 DEF Understood
  <2> HIDE DEF d, reqs
  <2>1. i \in DOMAIN reqs /\ reqs[i] \in Requirements /\ d.requirements[i] = WrittenItem(reqs[i])
    BY <1>2, <1>3
  <2>2. d.requirements[i].name = reqs[i].name
    BY <2>1, ItemReadsBack
  <2>3. reqs[i] \in KeysOf(reqs)
    BY <2>1 DEF KeysOf
  <2> QED
    BY <1>2, <2>2, <2>3, ToolNames
<1> QED
  BY <1>1, <1>3, <1>4, <1>5, Zenon

\* Every womm.yaml, captured or written by hand, can be parsed.
LEMMA DocumentsAreUnderstood ==
    ASSUME Documented, origin # "none"
    PROVE  Understood(doc)
<1>1. CASE origin = "written"
  BY <1>1, InputsAssumption, Zenon DEF Documented, Understood
<1>2. CASE origin = "captured"
  BY <1>2, InputsAssumption, CapturedDocument DEF Documented
<1> QED
  BY <1>1, <1>2 DEF Documented

(* What Load hands to Verify, and the order of its loop.                    *)
LEMMA LoadedFile ==
    ASSUME NEW d, Understood(d), ParseFile(d).err = "none"
    PROVE  LET file == ParseFile(d).file
           IN /\ file.requirements \in Seq(Requirements)
              /\ UniqueNames(file.requirements)
              /\ \A i \in DOMAIN file.requirements : file.requirements[i].name \in Ordered
              /\ file.services \in Seq(BOOLEAN) /\ file.environment \in BOOLEAN
<1> DEFINE file == ParseFile(d).file
<1>1. Readable(d)
  BY DEF Understood
<1>2. file \in Files /\ UniqueNames(file.requirements)
  BY <1>1, AcceptedRequirements, Zenon
<1>3. DOMAIN file.requirements = DOMAIN d.requirements
      /\ \A i \in DOMAIN d.requirements : AcceptedItem(d.requirements[i], file.requirements[i])
  <2>1. file.requirements = [i \in DOMAIN d.requirements |-> Decoded(d.requirements[i])]
    BY <1>1, AcceptedRequirements, Zenon
  <2> QED
    BY <1>1, <2>1, AcceptedRequirements
<1> HIDE DEF file
<1>4. \A i \in DOMAIN file.requirements : file.requirements[i].name \in Ordered
  BY <1>3 DEF Understood, AcceptedItem
<1>5. file.requirements \in Seq(Requirements) /\ file.services \in Seq(BOOLEAN) /\ file.environment \in BOOLEAN
  BY <1>2 DEF Files
<1> QED
  BY <1>2, <1>4, <1>5 DEF file

\* The loop goes through all requirements, in strict order.
LEMMA SortedRequirements ==
    ASSUME NEW reqs \in Seq(Requirements), UniqueNames(reqs),
           \A i \in DOMAIN reqs : reqs[i].name \in Ordered
    PROVE  LET sorted == ByName(reqs, NamesOf(reqs))
           IN /\ sorted \in Seq(Requirements)
              /\ Len(sorted) = Len(reqs)
              /\ KeysOf(sorted) = KeysOf(reqs)
              /\ \A i, j \in DOMAIN sorted : i < j => NameBefore(sorted[i].name, sorted[j].name)
<1> DEFINE names == NamesOf(reqs)
           sorted == ByName(reqs, names)
           order == InOrder(names)
           n == Len(reqs)
<1>1. n \in Nat /\ DOMAIN reqs = 1..n
  OBVIOUS
<1>2. names \in [1..n -> Ordered] /\ \A i \in 1..n : names[i] = reqs[i].name
  BY <1>1 DEF NamesOf
<1>3. \A i, j \in 1..n : names[i] = names[j] => i = j
  BY <1>1, <1>2 DEF UniqueNames
<1> HIDE DEF names
<1>4. /\ sorted \in Seq(Requirements) /\ Len(sorted) = n /\ KeysOf(sorted) = KeysOf(reqs)
      /\ \A i \in 1..n : sorted[i] = reqs[order[i]]
      /\ \A i, j \in 1..n : i < j => NameBefore(names[order[i]], names[order[j]])
  <2>1. names \in [1..Len(reqs) -> Ordered]
    BY <1>2
  <2>2. sorted \in Seq(Requirements) /\ Len(sorted) = n /\ KeysOf(sorted) = KeysOf(reqs)
    BY <2>1, SortedByName
  <2>3. \A i \in 1..n : sorted[i] = reqs[order[i]]
    BY <2>1, SortedByName
  <2>4. \A i, j \in 1..n : i < j => NameBefore(names[order[i]], names[order[j]])
    BY <1>3, <2>1, SortedByName
  <2> QED
    BY <2>2, <2>3, <2>4
<1> HIDE DEF n
<1>5. \A i \in 1..n : order[i] \in 1..n
  <2>1. order \in [1..n -> 1..n]
    BY <1>1, <1>2, SortingOrder
  <2> QED
    BY <2>1
<1>6. DOMAIN sorted = 1..n
  BY <1>4
<1> HIDE DEF sorted, order
<1>7. \A i, j \in DOMAIN sorted : i < j => NameBefore(sorted[i].name, sorted[j].name)
  BY <1>2, <1>4, <1>5, <1>6
<1> QED
  BY <1>4, <1>7 DEF sorted, names, n

-----------------------------------------------------------------------------
(* What a step computes.                                                    *)

\* The engine never says "unreachable".
LEMMA VerdictStatus ==
    ASSUME NEW r, NEW o
    PROVE  Compare(r, o).status \in {"pass", "fail", "unknown"}
BY DEF Compare, Verdict, Satisfied

\* An exact version stands for a version.
LEMMA VersionType ==
    ASSUME NEW w \in ExactVersions
    PROVE  VersionOf(w) \in Version
<1>1. w.parts \in [1..3 -> Nat] /\ w.pre \in Nat
  BY DEF ExactVersions
<1>2. w.parts[1] \in Nat /\ w.parts[2] \in Nat /\ w.parts[3] \in Nat
  BY <1>1
<1>3. Base \in Nat
  BY ComponentAssumption DEF Base
<1>4. \A a \in Nat, b \in Nat : a * b \in Nat /\ a + b \in Nat
  OBVIOUS
<1>5. CoreOf(w.parts) \in Nat
  <2> DEFINE a == w.parts[1]
             b == w.parts[2]
             c == w.parts[3]
  <2>1. a \in Nat /\ b \in Nat /\ c \in Nat
    BY <1>2
  <2>2. CoreOf(w.parts) = (a * Base + b) * Base + c
    BY DEF CoreOf
  <2> HIDE DEF a, b, c
  <2>3. a * Base \in Nat
    BY <1>3, <1>4, <2>1
  <2>4. a * Base + b \in Nat
    BY <2>1, <2>3
  <2>5. (a * Base + b) * Base \in Nat
    BY <1>3, <1>4, <2>4
  <2> QED
    BY <2>1, <2>2, <2>5
<1> QED
  BY <1>1, <1>5 DEF VersionOf, Version

\* An output is read as a version or as none.
LEMMA ParsedVersion ==
    ASSUME NEW tool, NEW text
    PROVE  ParseVersion(tool, text) \in Observations
<1> DEFINE lines == NonBlankLines(text)
           line == CHOOSE line \in lines : TRUE
           candidate == Candidate(tool, SubSeq(text, line[1], line[2]))
           good == Cardinality(lines) = 1 /\ Len(candidate) = 1 /\ candidate[1] \in DOMAIN Printed
<1>1. ParseVersion(tool, text) = IF good THEN VersionOf(Printed[candidate[1]]) ELSE NoVersion
  BY Zenon DEF ParseVersion
<1> HIDE DEF good, candidate
<1>2. good => VersionOf(Printed[candidate[1]]) \in Observations
  BY DEF good, Observations
<1> QED
  BY <1>1, <1>2 DEF Observations

\* Match makes a match.
LEMMA MatchType ==
    ASSUME NEW r \in Requirements, NEW p \in BOOLEAN, NEW v \in Observations, NEW s \in Statuses
    PROVE  /\ Match(r, p, v, s) \in Matches
           /\ Match(r, p, v, s).requirement = r
           /\ Match(r, p, v, s).present = p
           /\ Match(r, p, v, s).version = v
           /\ Match(r, p, v, s).status = s
BY DEF Match, Matches

(* One requirement is taken off the list.                                   *)
LEMMA Taken ==
    ASSUME NEW seq \in Seq(Requirements), seq # <<>>
    PROVE  /\ Head(seq) \in Requirements /\ Head(seq) = seq[1] /\ 1 \in DOMAIN seq
           /\ Tail(seq) \in Seq(Requirements)
           /\ Len(Tail(seq)) = Len(seq) - 1
           /\ \A i \in DOMAIN Tail(seq) : i \in Nat /\ i + 1 \in DOMAIN seq /\ Tail(seq)[i] = seq[i + 1]
<1>1. /\ Head(seq) \in Requirements /\ Tail(seq) \in Seq(Requirements)
      /\ Len(Tail(seq)) = Len(seq) - 1 /\ \A i \in 1..Len(Tail(seq)) : Tail(seq)[i] = seq[i + 1]
  BY HeadTailProperties
<1>2. Len(seq) \in Nat \ {0} /\ DOMAIN seq = 1..Len(seq) /\ Head(seq) = seq[1]
  BY EmptySeq
<1>3. DOMAIN Tail(seq) = 1..Len(seq) - 1
  BY <1>1, <1>2
<1> QED
  BY <1>1, <1>2, <1>3

(* One match is appended.                                                   *)
LEMMA Appended ==
    ASSUME NEW S, NEW seq \in Seq(S), NEW e \in S
    PROVE  /\ Append(seq, e) \in Seq(S)
           /\ Len(Append(seq, e)) = Len(seq) + 1
           /\ \A i \in DOMAIN Append(seq, e) :
                \/ i \in DOMAIN seq /\ Append(seq, e)[i] = seq[i]
                \/ i = Len(seq) + 1 /\ Append(seq, e)[i] = e
           /\ Append(seq, e)[Len(seq) + 1] = e
<1>1. /\ Append(seq, e) \in Seq(S) /\ Len(Append(seq, e)) = Len(seq) + 1
      /\ \A i \in 1..Len(seq) : Append(seq, e)[i] = seq[i]
      /\ Append(seq, e)[Len(seq) + 1] = e
  BY AppendProperties
<1>2. DOMAIN Append(seq, e) = 1..Len(seq) + 1 /\ DOMAIN seq = 1..Len(seq) /\ Len(seq) \in Nat
  BY <1>1
<1> QED
  BY <1>1, <1>2

-----------------------------------------------------------------------------
(* Every step keeps the invariant.                                          *)

\* A failure is never quiet.
LEMMA FailureSpeaks ==
    ASSUME NEW cause, NEW begins, cause # "none", Fails(Message(cause, begins))
    PROVE  pc' = "exited" /\ message' # Quiet
BY DEF Fails, Message, Quiet

\* A loaded file stays what Parse makes of the document.
LEMMA DocumentedStep ==
    ASSUME Documented, [Next]_vars
    PROVE  Documented'
<1>1. project' = project => Captured' = Captured
  BY DEF Captured
<1>2. CASE Misuse \/ ProjectIsAFile \/ CaptureFails \/ NothingToLoad
  <2>1. /\ pc = "start" /\ pc' = "exited" /\ message' # Quiet
        /\ UNCHANGED <<project, doc, origin, loaded>>
    BY <1>2, FailureSpeaks DEF Misuse, ProjectIsAFile, CaptureFails, NothingToLoad
  <2> QED
    BY <2>1 DEF Documented
<1>3. CASE Capture
  BY <1>1, <1>3 DEF Capture, Documented
<1>4. CASE WriteByHand
  BY <1>4 DEF WriteByHand, Documented
<1>5. CASE LoadFails
  <2>1. /\ pc = "load" /\ pc' = "exited" /\ message' # Quiet /\ loaded' = ParseFile(doc)
        /\ UNCHANGED <<project, doc, origin>>
    BY <1>5, FailureSpeaks DEF LoadFails
  <2> QED
    BY <1>1, <2>1 DEF Documented
<1>6. CASE Load
  BY <1>1, <1>6 DEF Load, Documented
<1>7. CASE SkipUnsupported \/ Absent \/ ProbeFails \/ Runs \/ Read \/ Finish
  <2>1. /\ pc \in {"next", "probe"} /\ pc' \in {"next", "probe"}
        /\ UNCHANGED <<project, doc, origin, loaded>>
    BY <1>7 DEF Take, SkipUnsupported, Absent, ProbeFails, Runs, Read, Finish
  <2> QED
    BY <1>1, <2>1 DEF Documented
<1>8. CASE ShowReport \/ ReportFails
  <2>1. CASE ShowReport
    BY <1>1, <2>1 DEF ShowReport, Documented
  <2>2. CASE ReportFails
    <3>1. /\ pc = "next" /\ pc' = "exited" /\ message' # Quiet
          /\ UNCHANGED <<project, doc, origin, loaded>>
      BY <2>2, FailureSpeaks DEF ReportFails
    <3> QED
      BY <1>1, <3>1 DEF Documented
  <2> QED
    BY <1>8, <2>1, <2>2
<1>9. CASE UNCHANGED vars
  BY <1>1, <1>9 DEF vars, Documented
<1> QED
  BY <1>2, <1>3, <1>4, <1>5, <1>6, <1>7, <1>8, <1>9 DEF Next, Exited

\* One match more, with the right status.
Judged(r, present, version) ==
    \E m \in Matches :
        /\ m.requirement = r /\ m.present = present /\ m.version = version
        /\ RightStatus(m)
        /\ matches' = Append(matches, m)
        /\ errors' \in {errors, errors + 1}

\* Judge appends the engine's verdict.
LEMMA Judging ==
    ASSUME NEW r \in Requirements, NEW present \in BOOLEAN, NEW version \in Observations,
           errors \in Nat, Judge(r, present, version)
    PROVE  Judged(r, present, version)
<1> DEFINE verdict == Compare([name |-> r.name, constraint |-> ConstraintOf(r.constraint)],
                              [name |-> r.name, present |-> present, version |-> version])
           m == Match(r, present, version, verdict.status)
<1>1. matches' = Append(matches, m) /\ errors' \in {errors, errors + 1}
  <2>1. matches' = Append(matches, m) /\ errors' = errors + (IF verdict.err = "none" THEN 0 ELSE 1)
    BY Zenon DEF Judge
  <2> QED
    BY <2>1
<1>2. verdict.status \in {"pass", "fail", "unknown"}
  BY VerdictStatus
<1> DEFINE status == verdict.status
<1>3. status \in Statuses /\ status # "unreachable"
  BY <1>2 DEF Statuses
<1>4. m = Match(r, present, version, status)
  OBVIOUS
<1>5. /\ m \in Matches /\ m.requirement = r /\ m.present = present /\ m.version = version
      /\ m.status = status
  <2> HIDE DEF status, m
  <2> QED
    BY <1>3, <1>4, MatchType
<1>6. RightStatus(m)
  <2>1. m.status = verdict.status /\ m.status # "unreachable"
    BY <1>3, <1>5
  <2> HIDE DEF m, status
  <2> QED
    BY <1>5, <2>1, Zenon DEF RightStatus, status
<1> QED
  BY <1>1, <1>5, <1>6, Zenon DEF Judged

\* The steps of the loop, by what they do to its lists.
LEMMA LoopSteps ==
    ASSUME Looping, SkipUnsupported \/ Absent \/ ProbeFails \/ Runs \/ Read \/ Finish
    PROVE  /\ UNCHANGED <<doc, loaded, project, origin>>
           /\ \/ /\ Take /\ pc = "next" /\ pc' = "next"
                 /\ current'.name \notin SupportedTools
                 /\ matches' = matches /\ errors' = errors + 1
                 /\ UNCHANGED <<output, kept>>
              \/ /\ Take /\ pc = "next" /\ pc' = "next" /\ current' \in Requirements
                 /\ current'.name \in SupportedTools
                 /\ \E present \in BOOLEAN : Judged(current', present, NoVersion)
                 /\ output' = <<>> /\ kept' = kept
              \/ /\ Take /\ pc = "next" /\ pc' = "probe" /\ current' \in Requirements
                 /\ current'.name \in SupportedTools
                 /\ matches' = matches /\ errors' = errors
                 /\ output' \in Outputs /\ rest' = output' /\ kept' = <<>>
              \/ Read /\ pc = "probe" /\ pc' = "probe"
                 /\ UNCHANGED <<todo, current, matches, errors, output>>
              \/ /\ pc = "probe" /\ pc' = "next" /\ rest = <<>>
                 /\ UNCHANGED <<todo, current, output>>
                 /\ Judged(current, TRUE, ParseVersion(current.name, kept))
                 /\ kept' = <<>>
<1>1. UNCHANGED <<doc, loaded, project, origin>>
  BY DEF SkipUnsupported, Absent, ProbeFails, Runs, Read, Finish
<1>2. Take => Head(todo) \in Requirements
  BY Taken DEF Take, Looping
<1>3. NoVersion \in Observations
  BY DEF Observations
<1>4. CASE SkipUnsupported
  BY <1>1, <1>4 DEF SkipUnsupported, Take, probe
<1>5. CASE Absent
  <2>1. Judge(current', FALSE, NoVersion) /\ current' \in Requirements
    BY <1>2, <1>5 DEF Absent, Take
  <2>2. Judged(current', FALSE, NoVersion)
    BY <1>3, <2>1, Judging DEF Looping
  <2>3. /\ Take /\ pc = "next" /\ pc' = "next" /\ current'.name \in SupportedTools
        /\ output' = <<>> /\ kept' = kept
    BY <1>5 DEF Absent, Take
  <2> QED
    BY <1>1, <2>1, <2>2, <2>3
<1>6. CASE ProbeFails
  <2> DEFINE m == Match(current', TRUE, NoVersion, "unreachable")
  <2>1. /\ Take /\ pc = "next" /\ pc' = "next" /\ current' \in Requirements
        /\ current'.name \in SupportedTools /\ output' = <<>> /\ kept' = kept
        /\ matches' = Append(matches, m) /\ errors' = errors
    <3> HIDE DEF m
    <3> QED
      BY <1>2, <1>6 DEF ProbeFails, Take, m
  <2>2. "unreachable" \in Statuses
    BY DEF Statuses
  <2>3. /\ m \in Matches /\ m.requirement = current' /\ m.present = TRUE /\ m.version = NoVersion
        /\ m.status = "unreachable"
    <3> DEFINE r == current'
               yes == TRUE
               s == "unreachable"
    <3>1. r \in Requirements /\ yes \in BOOLEAN /\ s \in Statuses /\ m = Match(r, yes, NoVersion, s)
      BY <2>1, <2>2
    <3> HIDE DEF r, yes, s, m
    <3>2. /\ m \in Matches /\ m.requirement = r /\ m.present = yes /\ m.version = NoVersion /\ m.status = s
      BY <1>3, <3>1, MatchType
    <3> QED
      BY <3>2 DEF r, yes, s
  <2> HIDE DEF m
  <2>4. RightStatus(m)
    BY <2>3, Zenon DEF RightStatus
  <2>5. Judged(current', TRUE, NoVersion)
    BY <2>1, <2>3, <2>4 DEF Judged
  <2> QED
    BY <1>1, <2>1, <2>5
<1>7. CASE Runs
  <2>1. /\ Take /\ pc = "next" /\ pc' = "probe" /\ current' \in Requirements
        /\ current'.name \in SupportedTools
        /\ matches' = matches /\ errors' = errors
        /\ output' \in Outputs /\ rest' = output' /\ kept' = <<>>
    BY <1>2, <1>7 DEF Runs, Take, result
  <2> QED
    BY <1>1, <2>1
<1>8. CASE Read
  BY <1>1, <1>8 DEF Read, result
<1>9. CASE Finish
  <2>1. /\ pc = "probe" /\ pc' = "next" /\ rest = <<>>
        /\ UNCHANGED <<todo, current, output>> /\ kept' = <<>>
        /\ Judge(current, TRUE, ParseVersion(current.name, kept))
    BY <1>9 DEF Finish
  <2>2. Judged(current, TRUE, ParseVersion(current.name, kept))
    <3>1. current \in Requirements
      BY <2>1 DEF Looping
    <3> QED
      BY <2>1, <3>1, ParsedVersion, Judging DEF Looping
  <2> QED
    BY <1>1, <2>1, <2>2
<1> QED
  BY <1>4, <1>5, <1>6, <1>7, <1>8, <1>9

\* A step of the loop.
LoopStep == SkipUnsupported \/ Absent \/ ProbeFails \/ Runs \/ Read \/ Finish

(* The steps outside the loop leave its lists alone, but for Load.          *)
LEMMA OtherSteps ==
    ASSUME [Next]_vars
    PROVE  \/ LoopStep
           \/ Load
           \/ /\ pc \in {"start", "load"} /\ pc' \in {"load", "exited"}
              /\ UNCHANGED <<todo, current, output, rest, kept, matches, errors>>
              /\ \/ pc = "start" /\ loaded' = loaded
                 \/ loaded'.err # "none"
           \/ /\ pc \in {"next", "exited"} /\ pc' = "exited"
              /\ pc = "next" => todo = <<>>
              /\ UNCHANGED <<loaded, todo, current, output, rest, kept, matches, errors>>
           \/ UNCHANGED vars
<1>1. CASE Misuse \/ ProjectIsAFile \/ CaptureFails \/ NothingToLoad \/ LoadFails
  BY <1>1 DEF Misuse, ProjectIsAFile, CaptureFails, NothingToLoad, LoadFails, Fails, probe, result
<1>2. CASE Capture \/ WriteByHand
  BY <1>2 DEF Capture, WriteByHand, probe, result
<1>3. CASE ShowReport \/ ReportFails
  BY <1>3 DEF ShowReport, ReportFails, Fails, probe, result
<1> QED
  BY <1>1, <1>2, <1>3 DEF Next, Exited, LoopStep

\* The writer keeps a prefix.
LEMMA BufferedStep ==
    ASSUME Buffered, Looping, [Next]_vars
    PROVE  Buffered'
<1>1. CASE Load
  BY <1>1 DEF Load, probe, Buffered
<1>2. CASE /\ pc # "probe" /\ pc' # "probe"
           /\ UNCHANGED <<output, rest, kept>>
  BY <1>2 DEF Buffered
<1>3. CASE UNCHANGED vars
  BY <1>3 DEF vars, Buffered
<1>4. CASE LoopStep
  <2>1. output \in Seq(STRING) /\ \A o \in Outputs : o \in Seq(STRING)
    <3>1. Outputs \subseteq Seq(STRING)
      BY InputsAssumption
    <3>2. <<>> \in Seq(STRING)
      OBVIOUS
    <3> QED
      BY <3>1, <3>2 DEF Buffered
  <2>2. CASE /\ pc # "probe" /\ pc' # "probe" /\ output' \in {output, <<>>} /\ kept' = kept
    BY <2>2 DEF Buffered
  <2>3. CASE pc' = "probe" /\ output' \in Outputs /\ rest' = output' /\ kept' = <<>>
    <3>1. output' \in Seq(STRING)
      BY <2>1, <2>3
    <3>2. Lesser(OutputLimit, 0) = 0
      BY OutputAssumption DEF Lesser
    <3>3. \A s \in Seq(STRING) : /\ 0 \in 0..Len(s)
                                 /\ SubSeq(s, 0 + 1, Len(s)) = s
                                 /\ SubSeq(s, 1, 0) = <<>>
      OBVIOUS
    <3>4. /\ 0 \in 0..Len(output')
          /\ rest' = SubSeq(output', 0 + 1, Len(output'))
          /\ kept' = SubSeq(output', 1, Lesser(OutputLimit, 0))
      BY <2>3, <3>1, <3>2, <3>3
    <3> QED
      BY <2>3, <3>4 DEF Buffered
  <2>4. CASE pc = "probe" /\ pc' = "next" /\ output' = output /\ kept' = <<>>
    BY <2>4 DEF Buffered
  <2>5. CASE Read /\ pc = "probe" /\ pc' = "probe" /\ output' = output
    <3>1. PICK n \in 0..Len(output) : /\ rest = SubSeq(output, n + 1, Len(output))
                                      /\ kept = SubSeq(output, 1, Lesser(OutputLimit, n))
      BY <2>5 DEF Buffered
    <3>2. PICK m \in DOMAIN rest : /\ kept' = Keep(kept, SubSeq(rest, 1, m))
                                   /\ rest' = SubSeq(rest, m + 1, Len(rest))
      BY <2>5 DEF Read
    <3>3. Len(output) \in Nat /\ n \in Nat /\ n <= Len(output)
      BY <2>1
    <3>4. Len(rest) = Len(output) - n /\ rest \in Seq(STRING)
      <4>1. n + 1 \in Nat \ {0} /\ n + 1 <= Len(output) + 1
        BY <3>3
      <4>2. Len(SubSeq(output, n + 1, Len(output))) = Len(output) - (n + 1) + 1
            /\ SubSeq(output, n + 1, Len(output)) \in Seq(STRING)
        BY <2>1, <3>3, <4>1, PartOf
      <4> QED
        BY <3>1, <3>3, <4>2
    <3>5. m \in 1..Len(output) - n
      BY <3>4
    <3>6. /\ Keep(SubSeq(output, 1, Lesser(OutputLimit, n)), SubSeq(SubSeq(output, n + 1, Len(output)), 1, m))
               = SubSeq(output, 1, Lesser(OutputLimit, n + m))
          /\ SubSeq(SubSeq(output, n + 1, Len(output)), m + 1, Len(SubSeq(output, n + 1, Len(output))))
               = SubSeq(output, n + m + 1, Len(output))
      BY <2>1, <3>5, KeptIsAPrefix
    <3>7. /\ n + m \in 0..Len(output)
          /\ rest' = SubSeq(output, (n + m) + 1, Len(output))
          /\ kept' = SubSeq(output, 1, Lesser(OutputLimit, n + m))
      <4>1. n + m \in 0..Len(output) /\ n + m + 1 = (n + m) + 1
        BY <3>3, <3>5
      <4> QED
        BY <3>1, <3>2, <3>6, <4>1
    <3> QED
      BY <2>5, <3>7 DEF Buffered
  <2> QED
    BY <1>4, <2>2, <2>3, <2>4, <2>5, LoopSteps DEF LoopStep
<1> QED
  BY <1>1, <1>2, <1>3, <1>4, OtherSteps

(* What Load sets, when the document can be understood.                     *)
LEMMA Loads ==
    ASSUME Documented, Looping, Load
    PROVE  /\ pc = "load" /\ pc' = "next" /\ matches' = matches /\ matches = <<>>
           /\ loaded' = ParseFile(doc) /\ loaded'.err = "none"
           /\ todo' \in Seq(Requirements) /\ KeysOf(todo') = KeysOf(loaded'.file.requirements)
           /\ Len(todo') = Len(loaded'.file.requirements)
           /\ errors' \in Nat
           /\ \A i, j \in DOMAIN todo' : i < j => NameBefore(todo'[i].name, todo'[j].name)
<1> DEFINE file == ParseFile(doc).file
           reqs == file.requirements
<1>1. /\ pc = "load" /\ pc' = "next" /\ matches' = matches /\ loaded' = ParseFile(doc)
      /\ ParseFile(doc).err = "none"
      /\ todo' = ByName(reqs, NamesOf(reqs))
      /\ errors' = Len(file.services) + (IF file.environment THEN 1 ELSE 0)
  BY DEF Load
<1>2. matches = <<>> /\ origin # "none"
  BY <1>1 DEF Documented, Looping
<1>3. /\ reqs \in Seq(Requirements) /\ UniqueNames(reqs)
      /\ \A i \in DOMAIN reqs : reqs[i].name \in Ordered
      /\ file.services \in Seq(BOOLEAN)
  BY <1>1, <1>2, DocumentsAreUnderstood, LoadedFile
<1> HIDE DEF file, reqs
<1>4. /\ todo' \in Seq(Requirements) /\ KeysOf(todo') = KeysOf(reqs) /\ Len(todo') = Len(reqs)
      /\ \A i, j \in DOMAIN todo' : i < j => NameBefore(todo'[i].name, todo'[j].name)
  BY <1>1, <1>3, SortedRequirements
<1>5. errors' \in Nat
  <2> DEFINE m == Len(file.services)
             n == IF file.environment THEN 1 ELSE 0
  <2>1. m \in Nat /\ n \in Nat
    BY <1>3
  <2>2. errors' = m + n
    BY <1>1
  <2> HIDE DEF m, n
  <2> QED
    BY <2>1, <2>2
<1> QED
  BY <1>1, <1>2, <1>4, <1>5 DEF file, reqs

\* The loop judges requirements of the loaded file only.
LEMMA LoopingStep ==
    ASSUME Documented, Looping, [Next]_vars
    PROVE  Looping'
<1> DEFINE all == KeysOf(loaded.file.requirements)
<1>1. CASE Load
  <2>1. \A i \in DOMAIN todo' : todo'[i] \in KeysOf(todo')
    BY DEF KeysOf
  <2>2. matches' \in Seq(Matches) /\ (\A i \in DOMAIN matches : Judgeable(matches[i]))'
    BY <1>1, Loads
  <2> QED
    BY <1>1, <2>1, <2>2, Loads DEF Looping
<1>2. CASE /\ pc \in {"start", "load"} /\ pc' \in {"load", "exited"}
           /\ UNCHANGED <<todo, current, output, rest, kept, matches, errors>>
  <2>1. matches' = <<>> /\ todo' = <<>> /\ errors' = 0
    BY <1>2 DEF Looping
  <2> QED
    BY <1>2, <2>1 DEF Looping
<1>3. CASE /\ pc \in {"next", "exited"} /\ pc' = "exited"
           /\ UNCHANGED <<loaded, todo, current, output, rest, kept, matches, errors>>
  BY <1>3 DEF Looping, Judgeable
<1>4. CASE UNCHANGED vars
  BY <1>4 DEF Looping, Judgeable, vars
<1>5. CASE LoopStep
  <2>1. /\ loaded' = loaded /\ errors \in Nat /\ todo \in Seq(Requirements) /\ matches \in Seq(Matches)
        /\ \A i \in DOMAIN matches : Judgeable(matches[i])
        /\ \A i \in DOMAIN todo : todo[i] \in all
    BY <1>5, LoopSteps DEF LoopStep, Looping
  <2>2. \A m : Judgeable(m)' <=> Judgeable(m)
    BY <2>1 DEF Judgeable
  <2>3. ASSUME Take
        PROVE  /\ todo' \in Seq(Requirements) /\ current' \in Requirements /\ current' \in all
               /\ \A i \in DOMAIN todo' : todo'[i] \in all
    <3>1. todo # <<>> /\ todo' = Tail(todo) /\ current' = Head(todo)
      BY <2>3 DEF Take
    <3> QED
      BY <2>1, <3>1, Taken
  <2>4. ASSUME NEW r \in Requirements, r.name \in SupportedTools, r \in all,
               NEW p, NEW v, Judged(r, p, v)
        PROVE  /\ matches' \in Seq(Matches) /\ errors' \in Nat
               /\ \A i \in DOMAIN matches' : Judgeable(matches'[i])
    <3>1. PICK m \in Matches : m.requirement = r /\ matches' = Append(matches, m) /\ errors' \in {errors, errors + 1}
      BY <2>4 DEF Judged
    <3>2. Judgeable(m)
      BY <2>4, <3>1 DEF Judgeable
    <3> QED
      BY <2>1, <3>1, <3>2, Appended
  <2> HIDE DEF all
  <2>5. CASE /\ Take /\ pc' = "next" /\ matches' = matches /\ errors' = errors + 1
    BY <2>1, <2>2, <2>3, <2>5 DEF Looping, all
  <2>6. CASE /\ Take /\ pc' = "next" /\ current' \in Requirements /\ current'.name \in SupportedTools
             /\ \E present \in BOOLEAN : Judged(current', present, NoVersion)
    <3>1. /\ matches' \in Seq(Matches) /\ errors' \in Nat
          /\ \A i \in DOMAIN matches' : Judgeable(matches'[i])
      BY <2>3, <2>4, <2>6
    <3> QED
      BY <2>1, <2>2, <2>3, <2>6, <3>1 DEF Looping, all
  <2>7. CASE /\ Take /\ pc' = "probe" /\ current'.name \in SupportedTools
             /\ matches' = matches /\ errors' = errors
    BY <2>1, <2>2, <2>3, <2>7 DEF Looping, all
  <2>8. CASE /\ pc = "probe" /\ pc' = "probe" /\ UNCHANGED <<todo, current, matches, errors>>
    BY <2>1, <2>2, <2>8 DEF Looping, all
  <2>9. CASE /\ pc = "probe" /\ pc' = "next" /\ UNCHANGED <<todo, current>>
             /\ Judged(current, TRUE, ParseVersion(current.name, kept))
    <3>1. current \in Requirements /\ current.name \in SupportedTools /\ current \in all
      BY <2>9 DEF Looping, all
    <3>2. /\ matches' \in Seq(Matches) /\ errors' \in Nat
          /\ \A i \in DOMAIN matches' : Judgeable(matches'[i])
      BY <2>4, <2>9, <3>1
    <3> QED
      BY <2>1, <2>2, <2>9, <3>2 DEF Looping, all
  <2> QED
    BY <1>5, <2>5, <2>6, <2>7, <2>8, <2>9, LoopSteps DEF LoopStep
<1> QED
  BY <1>1, <1>2, <1>3, <1>4, <1>5, OtherSteps

\* A status stays what the engine said.
LEMMA ComparedStep ==
    ASSUME Compared, Documented, Looping, [Next]_vars
    PROVE  Compared'
<1>1. \A m : RightStatus(m)' <=> RightStatus(m)
  BY Zenon DEF RightStatus
<1>2. CASE matches' = matches
  BY <1>1, <1>2 DEF Compared
<1>3. ASSUME NEW r, NEW p, NEW v, Judged(r, p, v)
      PROVE  Compared'
  <2>1. PICK m \in Matches : RightStatus(m) /\ matches' = Append(matches, m)
    BY <1>3 DEF Judged
  <2>2. matches \in Seq(Matches)
    BY DEF Looping
  <2> QED
    BY <1>1, <2>1, <2>2, Appended DEF Compared
<1>4. CASE UNCHANGED vars
  BY <1>2, <1>4 DEF vars
<1>5. CASE LoopStep
  BY <1>2, <1>3, <1>5, LoopSteps DEF LoopStep
<1> QED
  BY <1>2, <1>4, <1>5, OtherSteps, Loads

\* The name a match is about.
NameOf(m) == m.requirement.name

\* A match that is appended comes after those before it.
LEMMA RowGrows ==
    ASSUME NEW r, NEW p, NEW v, Judged(r, p, v), matches \in Seq(Matches),
           \A i, j \in DOMAIN matches : i < j => NameBefore(NameOf(matches[i]), NameOf(matches[j])),
           \A i \in DOMAIN matches : NameBefore(NameOf(matches[i]), r.name)
    PROVE  /\ \A i, j \in DOMAIN matches' : i < j => NameBefore(NameOf(matches'[i]), NameOf(matches'[j]))
           /\ \A i \in DOMAIN matches' :
                \/ i \in DOMAIN matches /\ matches'[i] = matches[i]
                \/ NameOf(matches'[i]) = r.name
<1>1. PICK m \in Matches : m.requirement = r /\ matches' = Append(matches, m)
  BY DEF Judged
<1>2. NameOf(m) = r.name
  BY <1>1 DEF NameOf
<1>3. \A i \in DOMAIN matches' : \/ i \in DOMAIN matches /\ matches'[i] = matches[i]
                                 \/ i = Len(matches) + 1 /\ matches'[i] = m
  BY <1>1, Appended
<1>4. \A i \in DOMAIN matches : i \in Nat /\ i < Len(matches) + 1
  OBVIOUS
<1>5. ASSUME NEW i \in DOMAIN matches', NEW j \in DOMAIN matches', i < j
      PROVE  NameBefore(NameOf(matches'[i]), NameOf(matches'[j]))
  <2>1. i \in DOMAIN matches /\ matches'[i] = matches[i]
    BY <1>3, <1>4, <1>5
  <2>2. CASE j \in DOMAIN matches /\ matches'[j] = matches[j]
    BY <1>5, <2>1, <2>2
  <2>3. CASE j = Len(matches) + 1 /\ matches'[j] = m
    BY <1>2, <2>1, <2>3
  <2> QED
    BY <1>3, <2>2, <2>3
<1> QED
  BY <1>2, <1>3, <1>5

\* The names stay in a row.
LEMMA InARowStep ==
    ASSUME Documented, Looping, InARow, [Next]_vars
    PROVE  InARow'
<1>1. CASE Load
  <2>1. matches' = <<>> /\ pc' # "probe"
    BY <1>1, Loads
  <2>2. DOMAIN matches' = {}
    BY <2>1
  <2> QED
    BY <1>1, <2>1, <2>2, Loads DEF InARow
<1>2. CASE pc' # "probe" /\ UNCHANGED <<todo, matches>>
  BY <1>2 DEF InARow
<1>3. CASE UNCHANGED vars
  BY <1>3 DEF InARow, vars
<1>4. CASE LoopStep
  <2>1. todo \in Seq(Requirements) /\ matches \in Seq(Matches)
    BY DEF Looping
  <2>2. \A i, j \in DOMAIN matches : i < j => NameBefore(NameOf(matches[i]), NameOf(matches[j]))
    BY DEF InARow, NameOf
  <2>3. ASSUME Take
        PROVE  /\ \A i, j \in DOMAIN todo' : i < j => NameBefore(todo'[i].name, todo'[j].name)
               /\ \A j \in DOMAIN todo' : NameBefore(current'.name, todo'[j].name)
               /\ \A i \in DOMAIN matches : NameBefore(NameOf(matches[i]), current'.name)
               /\ \A i \in DOMAIN matches, j \in DOMAIN todo' : NameBefore(NameOf(matches[i]), todo'[j].name)
    <3>1. todo # <<>> /\ todo' = Tail(todo) /\ current' = Head(todo)
      BY <2>3 DEF Take
    <3>2. /\ 1 \in DOMAIN todo /\ current' = todo[1]
          /\ \A i \in DOMAIN todo' : i \in Nat /\ i + 1 \in DOMAIN todo /\ todo'[i] = todo[i + 1]
      BY <2>1, <3>1, Taken
    <3>3. \A i \in DOMAIN todo' : 1 < i + 1
      <4>1. \A i \in DOMAIN Tail(todo) : i \in 1..Len(Tail(todo))
        BY <2>1, <3>1, Taken
      <4> QED
        BY <3>1, <4>1
    <3>4. \A i, j \in DOMAIN todo' : i < j => i + 1 < j + 1
      BY <3>2
    <3> QED
      BY <3>2, <3>3, <3>4 DEF InARow, NameOf
  <2>4. CASE Take /\ pc' = "next" /\ matches' = matches
    BY <2>3, <2>4 DEF InARow, NameOf
  <2>5. CASE Take /\ pc' = "next" /\ \E present \in BOOLEAN : Judged(current', present, NoVersion)
    <3>1. /\ \A i, j \in DOMAIN matches' : i < j => NameBefore(NameOf(matches'[i]), NameOf(matches'[j]))
          /\ \A i \in DOMAIN matches' :
               \/ i \in DOMAIN matches /\ matches'[i] = matches[i]
               \/ NameOf(matches'[i]) = current'.name
      BY <2>1, <2>2, <2>3, <2>5, RowGrows
    <3> QED
      BY <2>3, <2>5, <3>1 DEF InARow, NameOf
  <2>6. CASE Take /\ pc' = "probe" /\ matches' = matches
    BY <2>3, <2>6 DEF InARow, NameOf
  <2>7. CASE pc = "probe" /\ pc' = "probe" /\ UNCHANGED <<todo, current, matches>>
    BY <2>7 DEF InARow
  <2>8. CASE /\ pc = "probe" /\ pc' = "next" /\ UNCHANGED <<todo, current>>
             /\ Judged(current, TRUE, ParseVersion(current.name, kept))
    <3>1. /\ \A i \in DOMAIN matches : NameBefore(NameOf(matches[i]), current.name)
          /\ \A j \in DOMAIN todo : NameBefore(current.name, todo[j].name)
      BY <2>8 DEF InARow, NameOf
    <3>2. /\ \A i, j \in DOMAIN matches' : i < j => NameBefore(NameOf(matches'[i]), NameOf(matches'[j]))
          /\ \A i \in DOMAIN matches' :
               \/ i \in DOMAIN matches /\ matches'[i] = matches[i]
               \/ NameOf(matches'[i]) = current.name
      BY <2>1, <2>2, <2>8, <3>1, RowGrows
    <3> QED
      BY <2>8, <3>1, <3>2 DEF InARow, NameOf
  <2> QED
    BY <1>4, <2>4, <2>5, <2>6, <2>7, <2>8, LoopSteps DEF LoopStep
<1> QED
  BY <1>1, <1>2, <1>3, <1>4, OtherSteps

\* A requirement that is taken is judged, in hand or an error.
LEMMA AccountedStep ==
    ASSUME Documented, Looping, Accounted, [Next]_vars
    PROVE  Accounted'
<1>1. CASE Load
  <2>1. pc' = "next" /\ Len(matches') = 0 /\ Len(todo') = Len(loaded'.file.requirements) /\ Len(todo') \in Nat
    <3>1. matches' = <<>> /\ Len(<<>>) = 0
      BY <1>1, Loads
    <3> QED
      BY <1>1, <3>1, Loads
  <2> QED
    BY <2>1 DEF Accounted
<1>2. CASE /\ pc \in {"start", "load"} /\ pc' \in {"load", "exited"}
           /\ UNCHANGED <<todo, current, output, rest, kept, matches, errors>>
           /\ \/ pc = "start" /\ loaded' = loaded
              \/ loaded'.err # "none"
  <2>1. loaded' = NotLoaded \/ loaded'.err # "none"
    BY <1>2 DEF Documented
  <2> QED
    BY <2>1 DEF Accounted
<1>3. CASE /\ pc \in {"next", "exited"} /\ pc' = "exited"
           /\ UNCHANGED <<loaded, todo, current, output, rest, kept, matches, errors>>
  BY <1>3 DEF Accounted
<1>4. CASE UNCHANGED vars
  BY <1>4 DEF Accounted, vars
<1>5. CASE LoopStep
  <2> DEFINE all == Len(loaded.file.requirements)
             m == Len(matches)
             n == Len(todo)
  <2>1. /\ todo \in Seq(Requirements) /\ matches \in Seq(Matches) /\ m \in Nat /\ n \in Nat /\ errors \in Nat
        /\ loaded' = loaded /\ pc \in {"next", "probe"} /\ pc' \in {"next", "probe"}
    <3>1. loaded' = loaded
      BY <1>5, LoopSteps DEF LoopStep
    <3>2. pc \in {"next", "probe"} /\ pc' \in {"next", "probe"}
      BY <1>5, LoopSteps DEF LoopStep
    <3> QED
      BY <3>1, <3>2 DEF Looping
  <2>2. (errors = 0 /\ loaded # NotLoaded /\ loaded.err = "none") => m + (IF pc = "probe" THEN 1 ELSE 0) + n = all
    BY <2>1 DEF Accounted
  <2>3. Take => Len(todo') = n - 1
    BY <2>1, Taken DEF Take
  <2>4. \A r, p, v : Judged(r, p, v) => Len(matches') = m + 1 /\ errors' \in {errors, errors + 1}
    BY <2>1, Appended DEF Judged
  <2>5. SUFFICES ASSUME errors' = 0, loaded # NotLoaded, loaded.err = "none"
                 PROVE  Len(matches') + (IF pc' = "probe" THEN 1 ELSE 0) + Len(todo') = all
    BY <2>1 DEF Accounted
  <2> HIDE DEF all, m, n
  <2>6. CASE errors' = errors + 1
    BY <2>1, <2>5, <2>6
  <2>7. CASE Take /\ pc = "next" /\ pc' = "next" /\ \E present \in BOOLEAN : Judged(current', present, NoVersion)
    BY <2>1, <2>2, <2>3, <2>4, <2>5, <2>7
  <2>8. CASE Take /\ pc = "next" /\ pc' = "probe" /\ matches' = matches /\ errors' = errors
    BY <2>1, <2>2, <2>3, <2>5, <2>8 DEF m
  <2>9. CASE pc = "probe" /\ pc' = "probe" /\ UNCHANGED <<todo, current, matches, errors>>
    BY <2>1, <2>2, <2>5, <2>9 DEF m, n
  <2>10. CASE /\ pc = "probe" /\ pc' = "next" /\ UNCHANGED <<todo, current>>
              /\ Judged(current, TRUE, ParseVersion(current.name, kept))
    <3>1. Len(matches') = m + 1 /\ errors' \in {errors, errors + 1}
      BY <2>4, <2>10, Zenon
    <3>2. errors = 0 /\ Len(todo') = n
      BY <2>1, <2>5, <2>10, <3>1 DEF n
    <3> QED
      BY <2>1, <2>2, <2>5, <2>10, <3>1, <3>2
  <2> QED
    BY <1>5, <2>6, <2>7, <2>8, <2>9, <2>10, LoopSteps DEF LoopStep
<1> QED
  BY <1>1, <1>2, <1>3, <1>4, <1>5, OtherSteps

\* The invariant holds before the first step.
LEMMA InitiallyInvariant == Init => IInv
<1> SUFFICES ASSUME Init PROVE IInv
  OBVIOUS
<1>1. /\ pc = "start" /\ project \in Projects /\ origin = "none" /\ loaded = NotLoaded
      /\ todo = <<>> /\ output = <<>> /\ kept = <<>> /\ matches = <<>> /\ errors = 0
  BY DEF Init
<1>2. DOMAIN matches = {} /\ DOMAIN todo = {} /\ todo \in Seq(Requirements) /\ matches \in Seq(Matches)
  BY <1>1
<1>3. Documented
  BY <1>1 DEF Documented
<1>4. Buffered
  BY <1>1 DEF Buffered
<1>5. Looping
  BY <1>1, <1>2 DEF Looping
<1>6. InARow
  BY <1>1, <1>2 DEF InARow
<1>7. Accounted
  BY <1>1 DEF Accounted
<1>8. Compared
  BY <1>2 DEF Compared
<1> QED
  BY <1>3, <1>4, <1>5, <1>6, <1>7, <1>8 DEF IInv

\* Every step keeps it.
LEMMA StepsKeepTheInvariant ==
    ASSUME IInv, [Next]_vars
    PROVE  IInv'
<1>1. Documented /\ Buffered /\ Looping /\ InARow /\ Accounted /\ Compared
  BY DEF IInv
<1>2. Documented'
  BY <1>1, DocumentedStep
<1>3. Buffered'
  BY <1>1, BufferedStep
<1>4. Looping'
  BY <1>1, LoopingStep
<1>5. InARow'
  BY <1>1, InARowStep
<1>6. Accounted'
  BY <1>1, AccountedStep
<1>7. Compared'
  BY <1>1, ComparedStep
<1> QED
  BY <1>2, <1>3, <1>4, <1>5, <1>6, <1>7 DEF IInv

\* So it always holds.
LEMMA InductiveInvariant == Spec => []IInv
<1>1. IInv /\ [Next]_vars => IInv'
  BY StepsKeepTheInvariant
<1> QED
  BY <1>1, InitiallyInvariant, PTL DEF Spec

-----------------------------------------------------------------------------
(* What follows from it.                                                    *)

\* Nothing loaded is not an accepted file.
LEMMA NotLoadedIsNoResult == NotLoaded.err # "none"
BY Zenon DEF NotLoaded, ParseError

\* A loaded file was accepted, as what Parse makes of this document.
LEMMA LoadedIsParsed ==
    ASSUME Documented, loaded.err = "none"
    PROVE  origin # "none" /\ Understood(doc) /\ loaded = ParseFile(doc) /\ ParseFile(doc).err = "none"
<1>1. loaded # NotLoaded
  BY NotLoadedIsNoResult
<1>2. origin # "none" /\ loaded = ParseFile(doc)
  BY <1>1 DEF Documented
<1> QED
  BY <1>2, DocumentsAreUnderstood

(* What the writer keeps fits its limit, and is the beginning of the        *)
(* output.                                                                  *)
LEMMA KeptWithinTheOutput ==
    ASSUME Buffered
    PROVE  Len(kept) <= OutputLimit /\ IsPrefix(kept, output)
<1>1. output \in Seq(STRING)
  <2>1. Outputs \subseteq Seq(STRING)
    BY InputsAssumption
  <2>2. <<>> \in Seq(STRING)
    OBVIOUS
  <2> QED
    BY <2>1, <2>2 DEF Buffered
<1>2. OutputLimit \in Nat
  BY OutputAssumption
<1>3. CASE pc = "probe"
  <2>1. PICK n \in 0..Len(output) : kept = SubSeq(output, 1, Lesser(OutputLimit, n))
    BY <1>3 DEF Buffered
  <2> DEFINE k == Lesser(OutputLimit, n)
  <2>2. k \in Nat /\ k <= Len(output) /\ k <= OutputLimit
    BY <1>1, <1>2 DEF Lesser
  <2> HIDE DEF k
  <2>3. Len(kept) = k
    <3>1. kept = SubSeq(output, 1, k)
      BY <2>1 DEF k
    <3> QED
      BY <1>1, <2>2, <3>1
  <2>4. Len(kept) <= Len(output) /\ SubSeq(kept, 1, Len(kept)) = SubSeq(output, 1, Len(kept))
    <3>1. kept \in Seq(STRING)
      BY <1>1, <2>1, <2>2 DEF k
    <3>2. SubSeq(kept, 1, Len(kept)) = kept
      BY <3>1
    <3> QED
      BY <2>1, <2>2, <2>3, <3>2 DEF k
  <2> QED
    BY <2>2, <2>3, <2>4 DEF IsPrefix
<1>4. CASE pc # "probe"
  <2>1. kept = <<>> /\ Len(<<>>) = 0 /\ Len(output) \in Nat /\ SubSeq(<<>>, 1, 0) = SubSeq(output, 1, 0)
    BY <1>1, <1>4 DEF Buffered
  <2> QED
    BY <1>2, <2>1 DEF IsPrefix
<1> QED
  BY <1>3, <1>4

(* Every variable keeps its type; above all, boundedWriter keeps at most    *)
(* its limit, and only a prefix of what the pipe has delivered (node.go,    *)
(* Write), for every project, document, output, limit and order of          *)
(* delivery.                                                                *)
THEOREM EndToEndType == Spec => []TypeOK
<1>1. IInv /\ Ends => TypeOK
  <2> SUFFICES ASSUME IInv, Ends PROVE TypeOK
    OBVIOUS
  <2>1. Documented /\ Buffered /\ Looping
    BY DEF IInv
  <2>2. /\ pc \in {"start", "load", "next", "probe", "exited"}
        /\ exit \in {NotExited, 0, 1, 2, 3}
        /\ pc = "exited" <=> exit # NotExited
    BY DEF Ends, ExitCodeFor
  <2>3. project \in Projects \cup {NoProject} /\ origin \in {"none", "captured", "written"}
    BY <2>1 DEF Documented
  <2>4. errors \in Nat /\ \A i \in DOMAIN matches : matches[i].status \in Statuses
    BY <2>1 DEF Looping, Judgeable, Matches
  <2> QED
    BY <2>1, <2>2, <2>3, <2>4, KeptWithinTheOutput DEF TypeOK
<1> QED
  BY <1>1, InductiveInvariant, EndsInvariant, PTL

(* What capture writes, verify understands, whatever the project            *)
(* declares: no error, no warning, the same requirements with the same      *)
(* evidence (capture.go: a file on disk is always one schema.Parse          *)
(* accepts; marshal.go).                                                    *)
THEOREM CapturesAreUnderstood == Spec => []CaptureIsUnderstood
<1>1. IInv => CaptureIsUnderstood
  <2> SUFFICES ASSUME IInv, origin = "captured", pc # "load"
               PROVE  /\ loaded.err = "none"
                      /\ loaded.warnings = {}
                      /\ loaded.file = File(CaptureRequirements(project).requirements, <<>>, FALSE)
    BY DEF CaptureIsUnderstood
  <2>1. Documented
    BY DEF IInv
  <2>2. project \in ProjectFiles /\ Captured # NoDocument /\ loaded = ParseFile(Captured)
    BY <2>1, InputsAssumption DEF Documented
  <2>3. loaded = [file |-> File(CaptureRequirements(project).requirements, <<>>, FALSE),
                  warnings |-> {}, err |-> "none"]
    BY <2>2, CapturedDocument, Zenon
  <2> QED
    BY <2>3, Zenon
<1> QED
  BY <1>1, InductiveInvariant, PTL

(* Any file that Parse accepts, by whomever it was written, is one          *)
(* document of the supported version with one name per requirement and      *)
(* evidence for each (load.go and schema.go, Validate).                     *)
THEOREM AcceptedFilesSayOneThing == Spec => []AcceptedFilesAreUnambiguous
<1>1. IInv => AcceptedFilesAreUnambiguous
  <2> SUFFICES ASSUME IInv, loaded.err = "none" PROVE AcceptedFilesAreUnambiguous
    BY DEF AcceptedFilesAreUnambiguous
  <2>1. Understood(doc) /\ loaded = ParseFile(doc) /\ ParseFile(doc).err = "none"
    BY LoadedIsParsed DEF IInv
  <2>2. Readable(doc)
    BY <2>1 DEF Understood
  <2> DEFINE says(reqs) ==
               /\ doc.documents = 1
               /\ ~doc.versionAliased => doc.version.value = SchemaVersion
               /\ Cardinality({reqs[i].name : i \in DOMAIN reqs}) = Len(doc.requirements)
               /\ \A i \in DOMAIN reqs :
                    /\ reqs[i].name \notin {Empty} \cup Breaking \cup Hiding
                    /\ \E j \in DOMAIN reqs[i].evidence :
                         reqs[i].evidence[j] = Evidence(doc.requirements[i].evidence[j].source,
                                                        doc.requirements[i].evidence[j].field)
  <2>3. says(ParseFile(doc).file.requirements)
    BY <2>1, <2>2, AcceptedIsUnambiguous, Zenon
  <2>4. says(loaded.file.requirements)
    <3> HIDE DEF says
    <3> QED
      BY <2>1, <2>3
  <2> QED
    BY <2>4, Zenon DEF AcceptedFilesAreUnambiguous
<1> QED
  BY <1>1, InductiveInvariant, PTL

(* Any key of an accepted file without aliases that the decoder ignores     *)
(* is reported, and nothing else is (load.go, checkUnknownKeys).            *)
THEOREM NoIgnoredKeyIsSilent == Spec => []IgnoredKeysAreReported
<1>1. IInv => IgnoredKeysAreReported
  <2> SUFFICES ASSUME IInv, loaded.err = "none", ~doc.aliased
               PROVE  {w[2] : w \in loaded.warnings} = Ignored
    BY DEF IgnoredKeysAreReported
  <2>1. Understood(doc) /\ loaded = ParseFile(doc) /\ ParseFile(doc).err = "none"
    BY LoadedIsParsed DEF IInv
  <2>2. Readable(doc)
    BY <2>1 DEF Understood
  <2>3. loaded.warnings = CheckUnknownKeys(doc)
    <3>1. loaded = [file |-> Decode(doc), warnings |-> CheckUnknownKeys(doc), err |-> "none"]
      BY <2>1, Accepted, Zenon
    <3> QED
      BY <3>1, Zenon
  <2>4. Told(CheckUnknownKeys(doc)) = Ignored
    BY <2>1, <2>2, IgnoredAreWarnedOf
  <2> QED
    BY <2>3, <2>4 DEF Told
<1> QED
  BY <1>1, InductiveInvariant, PTL

\* The last match is the one that was judged last.
LEMMA ObservedLast ==
    ASSUME NEW r, NEW p, NEW v, Judged(r, p, v), matches \in Seq(Matches)
    PROVE  Observed'.requirement = r /\ Observed'.version = v
<1>1. PICK m \in Matches : m.requirement = r /\ m.version = v /\ matches' = Append(matches, m)
  BY DEF Judged
<1>2. Len(matches') = Len(matches) + 1 /\ matches'[Len(matches) + 1] = m
  BY <1>1, Appended
<1> QED
  BY <1>1, <1>2 DEF Observed

(* A finished tool's output within the limit is all kept.                   *)
LEMMA FinishedIsKept ==
    ASSUME Buffered, pc = "probe", rest = <<>>, Len(output) <= OutputLimit
    PROVE  output \in Seq(STRING) /\ kept = output
<1>1. output \in Seq(STRING)
  <2>1. Outputs \subseteq Seq(STRING)
    BY InputsAssumption
  <2>2. <<>> \in Seq(STRING)
    OBVIOUS
  <2> QED
    BY <2>1, <2>2 DEF Buffered
<1>2. PICK n \in 0..Len(output) : /\ rest = SubSeq(output, n + 1, Len(output))
                                  /\ kept = SubSeq(output, 1, Lesser(OutputLimit, n))
  BY DEF Buffered
<1>3. n = Len(output)
  <2>1. n + 1 \in Nat \ {0} /\ n + 1 <= Len(output) + 1 /\ Len(output) \in Nat
    BY <1>1
  <2>2. Len(SubSeq(output, n + 1, Len(output))) = Len(output) - (n + 1) + 1
    BY <1>1, <2>1, PartOf
  <2>3. Len(rest) = 0
    <3>1. Len(<<>>) = 0
      OBVIOUS
    <3> QED
      BY <3>1
  <2> QED
    <3>1. Len(output) - (n + 1) + 1 = 0
      BY <1>2, <2>2, <2>3, Zenon
    <3> QED
      BY <1>2, <2>1, <3>1
<1>4. Lesser(OutputLimit, n) = Len(output)
  <2>1. OutputLimit \in Nat /\ Len(output) \in Nat
    BY <1>1, OutputAssumption
  <2> QED
    BY <1>3, <2>1 DEF Lesser
<1>5. SubSeq(output, 1, Len(output)) = output
  BY <1>1
<1> QED
  BY <1>1, <1>2, <1>4, <1>5

\* A version stays all that the output said.
LEMMA WholeOutputStep ==
    ASSUME Buffered, Looping, VersionIsTheWholeOutput, [Next]_vars
    PROVE  VersionIsTheWholeOutput'
<1> SUFFICES ASSUME pc' = "next", output' # <<>>, matches' # <<>>, Observed'.requirement = current',
                    Observed'.version # NoVersion, Len(output') <= OutputLimit
             PROVE  Says(current.name, output, Observed.version)'
  BY DEF VersionIsTheWholeOutput, WholeOutputs
<1>1. matches \in Seq(Matches) /\ \A i \in DOMAIN matches : Judgeable(matches[i])
  BY DEF Looping
<1>2. CASE Load
  BY <1>2, Loads DEF Load, probe, IInv, Looping
<1>3. CASE UNCHANGED vars
  BY <1>3 DEF VersionIsTheWholeOutput, WholeOutputs, vars, Observed
<1>4. CASE Take /\ matches' = matches /\ current'.name \notin SupportedTools
  <2>1. Len(matches) \in DOMAIN matches
    BY <1>1, <1>4
  <2>2. Observed.requirement.name \in SupportedTools
    BY <1>1, <2>1 DEF Observed, Judgeable
  <2> QED
    BY <1>4, <2>2 DEF Observed
<1>5. CASE /\ pc = "probe" /\ pc' = "next" /\ rest = <<>>
           /\ UNCHANGED <<todo, current, output>>
           /\ Judged(current, TRUE, ParseVersion(current.name, kept))
  <2>1. output \in Seq(STRING) /\ kept = output
    BY <1>5, FinishedIsKept
  <2>2. Observed'.version = ParseVersion(current.name, output)
    BY <1>1, <1>5, <2>1, ObservedLast
  <2>3. Says(current.name, output, ParseVersion(current.name, output))
    BY <2>1, <2>2, VersionsAreWhole
  <2> QED
    BY <1>5, <2>2, <2>3 DEF Says
<1> QED
  BY <1>2, <1>3, <1>4, <1>5, OtherSteps, LoopSteps DEF LoopStep

(* A version that is judged was all the tool said, however the output       *)
(* arrived and however little of it boundedWriter kept (node.go,            *)
(* parseVersion and Write).                                                 *)
THEOREM VersionsAreWholeOutputs == Spec => []VersionIsTheWholeOutput
<1>1. Init => VersionIsTheWholeOutput
  BY DEF Init, VersionIsTheWholeOutput, WholeOutputs
<1>2. IInv /\ VersionIsTheWholeOutput /\ [Next]_vars => VersionIsTheWholeOutput'
  BY WholeOutputStep DEF IInv
<1> QED
  BY <1>1, <1>2, InductiveInvariant, PTL DEF Spec

(* What is sorted already stays as it is.                                   *)
LEMMA SortedAlready ==
    ASSUME NEW ms \in Seq(Matches),
           \A i \in DOMAIN ms : NameOf(ms[i]) \in Ordered,
           \A i, j \in DOMAIN ms : i < j => NameBefore(NameOf(ms[i]), NameOf(ms[j]))
    PROVE  Sorted(ms) = ms
<1> DEFINE n == Len(ms)
           names == [i \in DOMAIN ms |-> ms[i].requirement.name]
           order == InOrder(names)
<1>1. n \in Nat /\ DOMAIN ms = 1..n
  OBVIOUS
<1>2. names \in [1..n -> Ordered] /\ \A i \in 1..n : names[i] = NameOf(ms[i])
  BY <1>1 DEF NameOf
<1> HIDE DEF n, names
<1>3. /\ order \in [1..n -> 1..n]
      /\ \A i, j \in 1..n : order[i] = order[j] => i = j
      /\ \A i, j \in 1..n : i < j => ~NameBefore(names[order[j]], names[order[i]])
      /\ \A k \in 1..n : \E i \in 1..n : order[i] = k
  <2>1. order \in [1..n -> 1..n]
    BY <1>1, <1>2, SortingOrder
  <2>2. \A i, j \in 1..n : order[i] = order[j] => i = j
    BY <1>1, <1>2, SortingOrder
  <2>3. \A i, j \in 1..n : i < j => ~NameBefore(names[order[j]], names[order[i]])
    BY <1>1, <1>2, SortingOrder
  <2>4. \A k \in 1..n : \E i \in 1..n : order[i] = k
    BY <1>1, <1>2, SortingOrder
  <2> QED
    BY <2>1, <2>2, <2>3, <2>4
<1> HIDE DEF order
<1>4. ASSUME NEW i \in 1..n, NEW j \in 1..n, i < j PROVE order[i] < order[j]
  <2>1. order[i] \in 1..n /\ order[j] \in 1..n /\ order[i] # order[j]
    <3>1. i # j
      BY <1>1, <1>4
    <3> QED
      BY <1>3, <3>1
  <2>2. ~NameBefore(names[order[j]], names[order[i]])
    BY <1>3, <1>4
  <2>3. ~(order[j] < order[i])
    <3> DEFINE a == order[j]
               b == order[i]
    <3>1. a \in 1..n /\ b \in 1..n /\ ~NameBefore(names[a], names[b])
      BY <2>1, <2>2
    <3> HIDE DEF a, b
    <3>2. ~(a < b)
      BY <1>1, <1>2, <3>1
    <3> QED
      BY <3>2 DEF a, b
  <2> QED
    BY <1>1, <2>1, <2>3
<1>5. \A k \in 1..n : order[k] = k
  <2> DEFINE moved == {k \in 1..n : order[k] # k}
  <2> SUFFICES ASSUME moved # {} PROVE FALSE
    OBVIOUS
  <2>1. moved \subseteq Nat
    BY <1>1
  <2>2. PICK m \in moved : \A k \in moved : m <= k
    <3> HIDE DEF moved
    <3> QED
      BY <2>1, LeastNatural
  <2>3. m \in 1..n /\ order[m] # m /\ order[m] \in 1..n /\ \A k \in 1..n : k < m => order[k] = k
    BY <1>1, <1>3, <2>2
  <2> HIDE DEF moved
  <2>4. order[m] > m
    <3> SUFFICES ASSUME order[m] < m PROVE FALSE
      BY <1>1, <2>3
    <3>1. order[order[m]] = order[m]
      BY <2>3
    <3> QED
      BY <1>3, <2>3, <3>1
  <2>5. PICK i \in 1..n : order[i] = m
    BY <1>3, <2>3
  <2>6. i < m \/ i = m \/ m < i
    BY <1>1, <2>3
  <2>7. CASE i < m
    BY <2>3, <2>5, <2>7
  <2>8. CASE i = m
    BY <2>3, <2>5, <2>8
  <2>9. CASE m < i
    <3>1. order[m] < order[i]
      BY <1>4, <2>3, <2>9
    <3> QED
      BY <1>1, <2>3, <2>4, <2>5, <3>1
  <2> QED
    BY <2>6, <2>7, <2>8, <2>9
<1>6. Sorted(ms) = [i \in DOMAIN ms |-> ms[order[i]]]
  BY Zenon DEF Sorted, ByName, order, names
<1>7. \A i \in DOMAIN ms : ms[order[i]] = ms[i]
  BY <1>1, <1>5
<1>8. Sorted(ms) = [i \in DOMAIN ms |-> ms[i]]
  BY <1>6, <1>7
<1>9. ms = [i \in DOMAIN ms |-> ms[i]]
  <2>1. ms \in [1..n -> Matches]
    BY <1>1
  <2> QED
    BY <1>1, <2>1
<1> QED
  BY <1>8, <1>9

-----------------------------------------------------------------------------
(* The report that is shown at the end.                                     *)

(* At the end: the report is the blocks of the matches, sorted as they      *)
(* are.                                                                     *)
Reported ==
    (pc = "exited" /\ message = Quiet) => report = Render(matches) /\ exit = ExitCode /\ todo = <<>>

\* Reported holds whatever happens.
LEMMA ReportedInvariant == Spec => []Reported
<1>1. Init => Reported
  BY DEF Init, Reported
<1>2. Ends /\ Reported /\ [Next]_vars => Reported'
  <2> SUFFICES ASSUME Ends, Reported, [Next]_vars PROVE Reported'
    OBVIOUS
  <2>1. CASE Misuse
    BY <2>1, FailureSpeaks DEF Misuse, Reported
  <2>2. CASE ProjectIsAFile
    BY <2>2, FailureSpeaks DEF ProjectIsAFile, Reported
  <2>3. CASE CaptureFails
    BY <2>3, FailureSpeaks DEF CaptureFails, Reported
  <2>4. CASE NothingToLoad
    BY <2>4, FailureSpeaks DEF NothingToLoad, Reported
  <2>5. CASE LoadFails
    BY <2>5, FailureSpeaks DEF LoadFails, Reported
  <2>6. CASE ShowReport \/ ReportFails
    BY <2>6, FailureSpeaks DEF ShowReport, ReportFails, Reported, result, ExitCode
  <2>7. CASE Capture \/ WriteByHand \/ Load \/ SkipUnsupported \/ Absent \/ ProbeFails \/ Runs \/ Read \/ Finish
    BY <2>7 DEF Capture, WriteByHand, Load, Take, SkipUnsupported, Absent, ProbeFails, Runs, Read, Finish, Reported
  <2>8. CASE UNCHANGED vars
    BY <2>8 DEF vars, Reported, ExitCode
  <2> QED
    BY <2>1, <2>2, <2>3, <2>4, <2>5, <2>6, <2>7, <2>8 DEF Next, Exited
<1> QED
  BY <1>1, <1>2, EndsInvariant, PTL DEF Spec

(* The matches are in strict order, so ShowReport's sort finds nothing to   *)
(* do.                                                                      *)
LEMMA MatchesAreSorted ==
    ASSUME Looping, InARow
    PROVE  /\ matches \in Seq(Matches)
           /\ \A i \in DOMAIN matches : NameOf(matches[i]) \in Ordered /\ matches[i].status \in Statuses
           /\ \A i, j \in DOMAIN matches : i < j => NameBefore(NameOf(matches[i]), NameOf(matches[j]))
           /\ \A i, j \in DOMAIN matches : NameOf(matches[i]) = NameOf(matches[j]) => i = j
<1>1. matches \in Seq(Matches) /\ \A i \in DOMAIN matches : i \in Nat
  BY DEF Looping
<1>2. \A i \in DOMAIN matches : NameOf(matches[i]) \in Ordered /\ matches[i].status \in Statuses
  BY ToolNames DEF Looping, Judgeable, NameOf, Matches
<1>3. \A i, j \in DOMAIN matches : i < j => NameBefore(NameOf(matches[i]), NameOf(matches[j]))
  BY DEF InARow, NameOf
<1>4. ASSUME NEW i \in DOMAIN matches, NEW j \in DOMAIN matches, NameOf(matches[i]) = NameOf(matches[j])
      PROVE  i = j
  <2>1. ~NameBefore(NameOf(matches[i]), NameOf(matches[j])) /\ ~NameBefore(NameOf(matches[j]), NameOf(matches[i]))
    BY <1>2, <1>4, NamesAreOrdered
  <2>2. ~(i < j) /\ ~(j < i)
    BY <1>3, <2>1
  <2> QED
    BY <1>1, <2>2
<1> QED
  BY <1>1, <1>2, <1>3, <1>4

\* The matches with one status, and the lines that say so.
Having(s) == {i \in DOMAIN matches : matches[i].status = s}
\* The lines of the report that say this status.
Labelled(s) == {k \in Places("match") : report.lines[k].label = s}

\* There are n numbers from 1 to n.
LEMMA FirstNumbers ==
    ASSUME NEW n \in Nat
    PROVE  IsFiniteSet(1..n) /\ Cardinality(1..n) = n
<1> DEFINE a == 1
<1>1. a \in Int /\ n \in Int
  OBVIOUS
<1> HIDE DEF a
<1>2. IsFiniteSet(a..n) /\ Cardinality(a..n) = IF a > n THEN 0 ELSE n - a + 1
  BY <1>1, FS_Interval, Zenon
<1>3. (IF a > n THEN 0 ELSE n - a + 1) = n
  BY DEF a
<1> QED
  BY <1>2, <1>3 DEF a

\* One line of the report for one match.
LEMMA MatchLines ==
    ASSUME Looping, Reports(report.lines, matches)
    PROVE  /\ Cardinality(Places("match")) = Len(matches)
           /\ {report.lines[k] : k \in Places("match")} =
                {Line("match", matches[i].requirement.name, matches[i].status) : i \in DOMAIN matches}
           /\ \A s : Cardinality(Labelled(s)) = Cardinality(Having(s))
<1> DEFINE n == Len(matches)
           line(i) == Line("match", matches[i].requirement.name, matches[i].status)
<1>1. n \in Nat /\ DOMAIN matches = 1..n
  BY DEF Looping
<1>2. PICK start \in [1..n + 1 -> Nat] :
        /\ Places("match") = {start[i] + 1 : i \in 1..n}
        /\ \A i \in 1..n : Len(matches[i].requirement.evidence) \in Nat /\ report.lines[start[i] + 1] = line(i)
        /\ \A i, j \in 1..n : i < j => start[i] + 2 + Len(matches[i].requirement.evidence) <= start[j]
  BY Zenon DEF Reports, Places, PlacesIn
<1> DEFINE place == [i \in 1..n |-> start[i] + 1]
<1>3. ASSUME NEW i \in 1..n, NEW j \in 1..n, i < j PROVE start[i] < start[j]
  <2> DEFINE l == Len(matches[i].requirement.evidence)
             at == start[i]
             to == start[j]
  <2>1. at \in Nat /\ to \in Nat
    <3> HIDE DEF n
    <3> QED
      BY <1>1
  <2>2. l \in Nat /\ at + 2 + l <= to
    BY <1>2, <1>3, Zenon
  <2> HIDE DEF l, at, to
  <2>3. at < to
    BY <2>1, <2>2
  <2> QED
    BY <2>3 DEF at, to
<1>4. \A i, j \in 1..n : place[i] = place[j] => i = j
  <2> SUFFICES ASSUME NEW i \in 1..n, NEW j \in 1..n, start[i] + 1 = start[j] + 1 PROVE i = j
    OBVIOUS
  <2>1. start[i] \in Nat /\ start[j] \in Nat
    BY <1>1
  <2>2. ~(i < j) /\ ~(j < i)
    BY <1>3, <2>1
  <2> QED
    BY <1>1, <2>2
<1>5. Places("match") = {place[i] : i \in 1..n}
  BY <1>2
<1>6. \A i \in 1..n : report.lines[place[i]] = line(i)
  BY <1>2
<1>7. \A i \in 1..n : line(i).label = matches[i].status
  BY DEF Line
<1>8. IsFiniteSet(1..n) /\ Cardinality(1..n) = n
  BY <1>1, FirstNumbers
<1> HIDE DEF n, place, line
<1>9. Cardinality(Places("match")) = n
  <2> DEFINE I == 1..n
  <2>1. IsFiniteSet(I) /\ (\A i, j \in I : place[i] = place[j] => i = j)
        /\ Places("match") = {place[i] : i \in I} /\ Cardinality(I) = n
    BY <1>4, <1>5, <1>8
  <2> HIDE DEF I
  <2>2. Cardinality({place[i] : i \in I}) = Cardinality(I)
    BY <2>1, Numbered
  <2> QED
    BY <2>1, <2>2
<1>10. {report.lines[k] : k \in Places("match")} = {line(i) : i \in 1..n}
  BY <1>5, <1>6
<1>11. ASSUME NEW s PROVE Cardinality(Labelled(s)) = Cardinality(Having(s))
  <2>1. Having(s) \subseteq 1..n
    BY <1>1 DEF Having
  <2>2. IsFiniteSet(Having(s)) /\ \A i, j \in Having(s) : place[i] = place[j] => i = j
    BY <1>4, <1>8, <2>1, FS_Subset
  <2>3. Labelled(s) = {place[i] : i \in Having(s)}
    <3>1. \A i \in 1..n : report.lines[place[i]].label = matches[i].status
      BY <1>6, <1>7
    <3>2. Having(s) = {i \in 1..n : matches[i].status = s}
      BY <1>1 DEF Having
    <3>3. Labelled(s) = {k \in {place[i] : i \in 1..n} : report.lines[k].label = s}
      BY <1>5, Zenon DEF Labelled
    <3>4. \A k : k \in Labelled(s) <=> \E i \in 1..n : k = place[i] /\ matches[i].status = s
      BY <3>1, <3>3, Zenon
    <3>5. \A i : i \in Having(s) <=> i \in 1..n /\ matches[i].status = s
      BY <3>2, Zenon
    <3>6. \A k : k \in Labelled(s) <=> \E i \in Having(s) : k = place[i]
      BY <3>4, <3>5, Zenon
    <3> QED
      BY <3>6, Zenon
  <2> QED
    BY <2>2, <2>3, Numbered
<1> QED
  BY <1>1, <1>9, <1>10, <1>11 DEF n, line

\* And in the order of their names.
LEMMA MatchLinesInOrder ==
    ASSUME Looping, InARow, Reports(report.lines, matches)
    PROVE  \A j, k \in Places("match") :
             j < k => NameBefore(report.lines[j].name, report.lines[k].name)
<1> DEFINE n == Len(matches)
           line(i) == Line("match", matches[i].requirement.name, matches[i].status)
<1>1. n \in Nat /\ DOMAIN matches = 1..n
  BY DEF Looping
<1>2. PICK start \in [1..n + 1 -> Nat] :
        /\ Places("match") = {start[i] + 1 : i \in 1..n}
        /\ \A i \in 1..n : Len(matches[i].requirement.evidence) \in Nat /\ report.lines[start[i] + 1] = line(i)
        /\ \A i, j \in 1..n : i < j => start[i] + 2 + Len(matches[i].requirement.evidence) <= start[j]
  BY Zenon DEF Reports, Places, PlacesIn
<1>3. \A i \in 1..n : line(i).name = NameOf(matches[i])
  BY DEF Line, NameOf
<1> HIDE DEF line, n
<1>4. ASSUME NEW j \in Places("match"), NEW k \in Places("match"), j < k
      PROVE  NameBefore(report.lines[j].name, report.lines[k].name)
  <2>1. PICK a \in 1..n : j = start[a] + 1
    BY <1>2
  <2>2. PICK b \in 1..n : k = start[b] + 1
    BY <1>2
  <2>3. start[a] < start[b] /\ start[a] \in Nat /\ start[b] \in Nat
    BY <1>1, <1>2, <1>4, <2>1, <2>2
  <2>4. ~(b < a)
    <3> SUFFICES ASSUME b < a PROVE FALSE
      OBVIOUS
    <3> DEFINE l == Len(matches[b].requirement.evidence)
    <3>1. l \in Nat /\ start[b] + 2 + l <= start[a]
      BY <1>2
    <3> HIDE DEF l
    <3> QED
      BY <2>3, <3>1
  <2>5. a < b
    BY <1>1, <2>3, <2>4
  <2>6. NameBefore(NameOf(matches[a]), NameOf(matches[b]))
    BY <1>1, <2>5, MatchesAreSorted
  <2> QED
    BY <1>2, <1>3, <2>1, <2>2, <2>6
<1> QED
  BY <1>4

\* One evidence line for one entry of evidence.
LEMMA EvidenceLines ==
    ASSUME Looping, InARow, Reports(report.lines, matches), NEW i \in DOMAIN matches
    PROVE  Cardinality({k \in Places("evidence") : report.lines[k].name = matches[i].requirement.name})
             = Len(matches[i].requirement.evidence)
<1> DEFINE n == Len(matches)
           size(p) == Len(matches[p].requirement.evidence)
           line(p) == Line("evidence", matches[p].requirement.name, Empty)
<1>1. n \in Nat /\ DOMAIN matches = 1..n /\ i \in 1..n
  BY DEF Looping
<1>2. PICK start \in [1..n + 1 -> Nat] :
        /\ \A p \in 1..n : size(p) \in Nat
        /\ \A k \in Places("evidence") :
             \E p \in 1..n : \E j \in 1..size(p) : k = start[p] + (2 + j)
        /\ \A p \in 1..n : \A j \in 1..size(p) :
             start[p] + (2 + j) \in DOMAIN report.lines /\ report.lines[start[p] + (2 + j)] = line(p)
  BY Zenon DEF Reports, Places, PlacesIn
<1>3. \A p \in 1..n : line(p).kind = "evidence" /\ line(p).name = NameOf(matches[p])
  BY DEF Line, NameOf
<1> DEFINE e == size(i)
           place == [j \in 1..e |-> start[i] + (2 + j)]
           here == {k \in Places("evidence") : report.lines[k].name = NameOf(matches[i])}
<1> HIDE DEF n, size, line
<1>4. e \in Nat /\ start[i] \in Nat
  BY <1>1, <1>2
<1>5. here = {place[j] : j \in 1..e}
  <2>1. ASSUME NEW k \in here PROVE \E j \in 1..e : k = place[j]
    <3>1. PICK p \in 1..n : \E j \in 1..size(p) : k = start[p] + (2 + j)
      BY <1>2
    <3>2. report.lines[k].name = NameOf(matches[p])
      BY <1>2, <1>3, <3>1
    <3>3. p = i
      BY <1>1, <3>2, MatchesAreSorted
    <3> QED
      BY <3>1, <3>3
  <2>2. ASSUME NEW j \in 1..e PROVE place[j] \in here
    <3>1. place[j] \in DOMAIN report.lines /\ report.lines[place[j]] = line(i)
      BY <1>1, <1>2
    <3> HIDE DEF place
    <3> QED
      BY <1>1, <1>3, <3>1 DEF Places
  <2> HIDE DEF here, place
  <2> QED
    BY <2>1, <2>2
<1> HIDE DEF e
<1>6. \A j, k \in 1..e : place[j] = place[k] => j = k
  BY <1>4
<1>7. IsFiniteSet(1..e) /\ Cardinality(1..e) = e
  BY <1>4, FirstNumbers
<1> HIDE DEF place
<1>8. Cardinality(here) = e
  <2> DEFINE I == 1..e
  <2>1. IsFiniteSet(I) /\ (\A j, k \in I : place[j] = place[k] => j = k)
        /\ here = {place[j] : j \in I} /\ Cardinality(I) = e
    BY <1>5, <1>6, <1>7
  <2> HIDE DEF I, here
  <2>2. Cardinality({place[j] : j \in I}) = Cardinality(I)
    BY <2>1, Numbered
  <2> QED
    BY <2>1, <2>2
<1> QED
  BY <1>8 DEF e, size, NameOf

(* What the exit codes 0 and 1 say of the statuses.                         *)
LEMMA ExitCodeSays ==
    ASSUME Looping, InARow
    PROVE  LET n == Len(matches)
               pass == Cardinality(Having("pass"))
               fail == Cardinality(Having("fail"))
           IN /\ ExitCode = 0 => errors = 0 /\ pass = n
              /\ ExitCode = 1 => errors = 0 /\ fail > 0 /\ pass + fail = n
<1> DEFINE n == Len(matches)
           P == Having("pass")
           F == Having("fail")
           has(s) == \E i \in DOMAIN matches : matches[i].status = s
<1>1. n \in Nat /\ DOMAIN matches = 1..n /\ errors \in Nat
  BY DEF Looping
<1>2. \A i \in 1..n : matches[i].status \in {"pass", "fail", "unknown", "unreachable"}
  BY <1>1, MatchesAreSorted DEF Statuses
<1>3. P \subseteq 1..n /\ F \subseteq 1..n
  BY <1>1 DEF Having
<1>4. P \cap F = {}
  BY DEF Having
<1>5. IsFiniteSet(1..n) /\ Cardinality(1..n) = n
  BY <1>1, FirstNumbers
<1>6. IsFiniteSet(P) /\ IsFiniteSet(F)
  BY <1>3, <1>5, FS_Subset
<1>7. ASSUME ~(errors > 0), ~has("unknown"), ~has("unreachable")
      PROVE  errors = 0 /\ P \cup F = 1..n
  <2>1. \A i \in 1..n : matches[i].status \in {"pass", "fail"}
    BY <1>1, <1>2, <1>7
  <2> QED
    BY <1>1, <1>3, <1>7, <2>1 DEF Having
<1>8. F # {} <=> has("fail")
  BY DEF Having
<1>9. /\ ExitCode = 0 => ~(errors > 0) /\ ~has("unknown") /\ ~has("unreachable") /\ ~has("fail")
      /\ ExitCode = 1 => ~(errors > 0) /\ ~has("unknown") /\ ~has("unreachable") /\ has("fail")
  <2> HIDE DEF has
  <2>1. ExitCode = CASE errors > 0 \/ has("unknown") \/ has("unreachable") -> 3
                     [] errors = 0 /\ ~has("unknown") /\ ~has("unreachable") /\ has("fail") -> 1
                     [] OTHER -> 0
    BY Zenon DEF ExitCode, has
  <2>2. errors > 0 \/ errors = 0
    BY <1>1
  <2> QED
    BY <1>1, <2>1, <2>2
<1> HIDE DEF n, P, F, has
<1>10. Cardinality(P) \in Nat /\ Cardinality(F) \in Nat
  BY <1>6, FS_CardinalityType
<1>11. ASSUME ExitCode = 0 PROVE errors = 0 /\ Cardinality(P) = n
  <2>1. errors = 0 /\ P = 1..n
    BY <1>7, <1>8, <1>9, <1>11
  <2> QED
    BY <1>5, <2>1
<1>12. ASSUME ExitCode = 1 PROVE errors = 0 /\ Cardinality(F) > 0 /\ Cardinality(P) + Cardinality(F) = n
  <2>1. errors = 0 /\ P \cup F = 1..n /\ F # {}
    BY <1>7, <1>8, <1>9, <1>12
  <2>2. Cardinality(F) # 0
    BY <1>6, <2>1, FS_EmptySet
  <2>3. Cardinality(P \cup F) = Cardinality(P) + Cardinality(F) - Cardinality(P \cap F)
    BY <1>6, FS_Union
  <2>4. Cardinality(P \cap F) = 0
    BY <1>4, FS_EmptySet
  <2> QED
    <3> DEFINE p == Cardinality(P)
               f == Cardinality(F)
    <3>1. p \in Nat /\ f \in Nat /\ f # 0 /\ n = p + f - 0
      BY <1>5, <1>10, <2>1, <2>2, <2>3, <2>4, Zenon
    <3> HIDE DEF p, f
    <3>2. f > 0 /\ p + f = n
      BY <3>1
    <3> QED
      BY <2>1, <3>2 DEF p, f
<1> QED
  BY <1>11, <1>12 DEF n, P, F

\* What can be counted in the report is what was decided.
LEMMA ReportIsRead ==
    ASSUME IInv, Reported, pc = "exited", message = Quiet
    PROVE  ReportReadsBack
<1> DEFINE verdicts == Places("match")
           count(s) == Cardinality({k \in verdicts : report.lines[k].label = s})
           size(i) == Len(matches[i].requirement.evidence)
           all == Len(loaded.file.requirements)
<1>1. Looping /\ InARow /\ Accounted /\ Documented
  BY DEF IInv
<1>2. report = Render(matches) /\ exit = ExitCode /\ todo = <<>>
  BY DEF Reported
<1>3. matches \in Seq(Matches) /\ Sorted(matches) = matches
  BY <1>1, MatchesAreSorted, SortedAlready
<1>4. Reports(report.lines, matches) /\ report.summary = Summary(matches)
  <2>1. report = [lines   |-> FlattenSeq([i \in DOMAIN matches |-> Block(matches[i])]),
                  summary |-> Summary(matches)]
    BY <1>2, <1>3, Zenon DEF Render
  <2>2. /\ report.lines = FlattenSeq([i \in DOMAIN matches |-> Block(matches[i])])
        /\ report.summary = Summary(matches)
    BY <2>1, Zenon
  <2> QED
    BY <1>3, <2>2, LinesOfTheReport
<1>5. \A s : count(s) = Cardinality(Having(s))
  <2>1. \A s : Cardinality(Labelled(s)) = Cardinality(Having(s))
    BY <1>1, <1>4, MatchLines
  <2> QED
    BY <2>1, Zenon DEF Labelled
<1>6. \A s \in Statuses : report.summary[s] = count(s)
  <2>1. \A s \in Statuses : report.summary[s] = Cardinality(Having(s))
    BY <1>4, Zenon DEF Summary, Having
  <2> QED
    BY <1>5, <2>1
<1>7. Places("forged") = {}
  BY <1>4, Zenon DEF Reports, Places, PlacesIn
<1>8. /\ Cardinality(verdicts) = Len(matches)
      /\ {report.lines[k] : k \in verdicts} =
           {Line("match", matches[i].requirement.name, matches[i].status) : i \in DOMAIN matches}
  BY <1>1, <1>4, MatchLines
<1>9. \A j, k \in verdicts : j < k => NameBefore(report.lines[j].name, report.lines[k].name)
  BY <1>1, <1>4, MatchLinesInOrder
<1>10. \A i \in DOMAIN matches :
         Cardinality({k \in Places("evidence") : report.lines[k].name = matches[i].requirement.name}) = size(i)
  BY <1>1, <1>4, EvidenceLines
<1>11. errors = 0 => Len(matches) = all
  <2>1. loaded = ParseFile(doc) /\ loaded.err = "none" /\ loaded # NotLoaded
    <3>1. loaded = ParseFile(doc) /\ loaded.err = "none"
      BY <1>1 DEF Documented
    <3> QED
      BY <3>1, NotLoadedIsNoResult
  <2>2. Len(todo) = 0 /\ Len(matches) \in Nat
    <3>1. Len(<<>>) = 0
      OBVIOUS
    <3> QED
      BY <1>2, <1>3, <3>1
  <2>3. errors = 0 => Len(matches) + 0 + Len(todo) = Len(loaded.file.requirements)
    BY <1>1, <2>1 DEF Accounted
  <2> QED
    BY <2>2, <2>3
<1>12. exit = 0 => count("pass") = Len(matches) /\ Len(matches) = all
  BY <1>1, <1>2, <1>5, <1>11, ExitCodeSays
<1>13. exit = 1 => count("fail") > 0 /\ count("pass") + count("fail") = Len(matches)
  BY <1>1, <1>2, <1>5, ExitCodeSays
<1> QED
  BY <1>6, <1>7, <1>8, <1>9, <1>10, <1>12, <1>13, Zenon DEF ReportReadsBack

(* The printed report can be read back: one match line per requirement,     *)
(* in the order of the names, each with its status and evidence, and the    *)
(* exit code that its lines imply (report.go; verify.go, exitCode).         *)
THEOREM ReportsReadBack == Spec => []ReportReadsBack
<1>1. IInv /\ Reported => ReportReadsBack
  <2> SUFFICES ASSUME IInv, Reported, pc = "exited", message = Quiet PROVE ReportReadsBack
    BY DEF ReportReadsBack
  <2> QED
    BY ReportIsRead
<1> QED
  BY <1>1, InductiveInvariant, ReportedInvariant, PTL

-----------------------------------------------------------------------------
(* What the projects that capture accepts are told.                         *)

(* A selector that NodeDetector takes is what nvm would use, and nothing    *)
(* else, whatever other lines, comments and settings are in .nvmrc          *)
(* (node.go, nvmrcSignificant).                                             *)
THEOREM NvmReadsTheSelector ==
    ASSUME NEW lines \in Seq(Seq(STRING)), NvmrcSelects(NvmrcSignificant(lines)), NEW v
    PROVE  NvmAdmits(lines, v) <=> v = VersionOf(Exact[NvmrcSignificant(lines)[1]])
<1> DEFINE text == [i \in DOMAIN lines |-> Uncommented(lines[i])]
           significant == {i \in DOMAIN lines : text[i] # <<>>}
           settings    == {i \in significant : IsSetting(text[i])}
           selectors   == significant \ settings
           bad == \/ \E i \in settings : Key(text[i]) = <<"node">>
                  \/ \E i, j \in settings : i # j /\ Key(text[i]) = Key(text[j])
                  \/ Cardinality(selectors) # 1
           chosen == NvmrcSignificant(lines)
           word == chosen[1]
<1>1. chosen = IF bad THEN <<>> ELSE text[CHOOSE i \in selectors : TRUE]
  BY Zenon DEF NvmrcSignificant
<1>2. Len(chosen) = 1 /\ word \in Words
  BY Zenon DEF NvmrcSelects
<1>3. \A i \in DOMAIN lines : /\ lines[i] \in Seq(STRING)
                              /\ text[i] = Uncommented(lines[i])
                              /\ text[i] \in Seq(STRING)
  <2>1. \A i \in DOMAIN lines : lines[i] \in Seq(STRING)
    OBVIOUS
  <2>2. \A i \in DOMAIN lines : text[i] = Uncommented(lines[i])
    OBVIOUS
  <2> QED
    BY <2>1, <2>2, UncommentedLine
<1>4. DOMAIN lines = 1..Len(lines) /\ Len(lines) \in Nat
  OBVIOUS
<1> HIDE DEF chosen, text
<1>5. ~bad
  <2> SUFFICES ASSUME bad PROVE FALSE
    OBVIOUS
  <2>1. chosen = <<>>
    BY <1>1
  <2> HIDE DEF bad
  <2> QED
    BY <1>2, <2>1
<1>6. PICK s : selectors = {s}
  <2>1. IsFiniteSet(selectors)
    <3>1. IsFiniteSet(DOMAIN lines)
      BY <1>4, FS_Interval
    <3> QED
      BY <3>1, FS_Subset
  <2>2. Cardinality(selectors) = 1
    BY <1>5
  <2> QED
    BY <2>1, <2>2, FS_Singleton
<1>7. s \in DOMAIN lines /\ chosen = text[s]
  <2>1. s \in DOMAIN lines
    BY <1>6
  <2>2. chosen = text[CHOOSE i \in selectors : TRUE]
    BY <1>1, <1>5
  <2> QED
    BY <1>6, <2>1, <2>2
<1>8. \A i \in DOMAIN lines : i # s => text[i] = <<>> \/ IsSetting(text[i])
  BY <1>6
<1>9. \A w : ~IsSetting(<<w>>) /\ <<w>> # <<>>
  BY DEF IsSetting
<1>10. \A i \in DOMAIN lines : \A w : text[i] = <<w>> => i = s
  BY <1>8, <1>9
<1> HIDE DEF bad, significant, settings, selectors
<1>11. text[s] = <<word>>
  <2>1. chosen \in Seq(STRING)
    BY <1>3, <1>7
  <2> HIDE DEF word
  <2>2. Len(chosen) = 1 /\ chosen[1] = word
    BY <1>2 DEF word
  <2> QED
    BY <1>7, <2>1, <2>2
<1> HIDE DEF word
<1>12. ASSUME NvmAdmits(lines, v) PROVE v = VersionOf(Exact[word])
  <2>1. PICK i \in DOMAIN lines : \E w \in Words : SaysVersion(lines[i], w) /\ VersionOf(Exact[w]) = v
    BY <1>12, Zenon DEF NvmAdmits
  <2>2. PICK w \in Words : SaysVersion(lines[i], w) /\ VersionOf(Exact[w]) = v
    BY <2>1, Zenon
  <2>3. text[i] = <<w>>
    BY <1>3, <2>2, SelectorsSaySo
  <2>4. i = s
    BY <1>10, <2>3
  <2>5. w = word
    BY <1>11, <2>3, <2>4
  <2> QED
    BY <2>2, <2>5
<1>13. ASSUME v = VersionOf(Exact[word]) PROVE NvmAdmits(lines, v)
  <2>1. SaysVersion(lines[s], word)
    BY <1>2, <1>3, <1>7, <1>11, SelectorsSaySo DEF word
  <2>2. \A j \in DOMAIN lines \ {s} : SaysNothing(lines[j])
    <3> SUFFICES ASSUME NEW j \in DOMAIN lines, j # s PROVE SaysNothing(lines[j])
      OBVIOUS
    <3>1. lines[j] \in Seq(STRING) /\ (Uncommented(lines[j]) = <<>> \/ IsSetting(Uncommented(lines[j])))
      BY <1>3, <1>8
    <3> QED
      BY <3>1, OtherLinesSayNothing
  <2>3. word \in Words
    BY <1>2 DEF word
  <2> QED
    BY <1>7, <1>13, <2>1, <2>2, <2>3, Zenon DEF NvmAdmits
<1> QED
  BY <1>12, <1>13 DEF word, chosen

-----------------------------------------------------------------------------
(* Every verdict is the one npm, nvm and Corepack imply.                    *)

(* What a project declares for node, when package.json can be decoded.      *)
LEMMA DeclaredRange ==
    ASSUME NEW p, p.range.ws # "nel outside", HasPackage(p) => Decodable(p)
    PROVE  /\ DeclaresEngines(p) <=>
                (p.package = "object" /\ p.engines = "object" /\ p.node = "string" /\ p.range.sets # <<<<>>>>)
           /\ DeclaresEngines(p) => Trim(p.range) = p.range
<1> DEFINE d == p.range
<1>1. HasPackage(p) <=> p.package = "object"
  BY DEF HasPackage, Decodable
<1>2. CASE d.sets = <<<<>>>>
  <2>1. Trim(d) = Blank
    BY <1>2, Zenon DEF Trim
  <2> QED
    BY <1>2, <2>1 DEF DeclaresEngines
<1>3. CASE d.sets # <<<<>>>>
  <2>1. Trim(d) = d
    BY <1>3, Zenon DEF Trim
  <2>2. d # Blank
    <3>1. Blank.sets = <<<<>>>>
      BY DEF Blank, Text
    <3> QED
      BY <1>3, <3>1
  <2> QED
    BY <1>1, <1>3, <2>1, <2>2 DEF DeclaresEngines
<1> QED
  BY <1>2, <1>3

(* A captured project requires what it declares.                            *)
LEMMA CapturedNames ==
    ASSUME DeclaresWithinLimits(project), project \in Projects,
           NodeDetect(project).ok, PackageManagerDetect(project).ok
    PROVE  {r.name : r \in KeysOf(Found2(project))} =
             (IF DeclaresNode THEN {"node"} ELSE {}) \cup
             (IF DeclaresManager /\ project.managerType = "string" THEN {project.manager.name} ELSE {})
<1> DEFINE node == NodeDetect(project).requirements
           manager == PackageManagerDetect(project).requirements
           pins == DeclaresManager /\ project.managerType = "string"
<1>1. project \in ProjectFiles /\ project.range.ws # "nel outside"
  BY InputsAssumption DEF DeclaresWithinLimits
<1>2. HasPackage(project) => Decodable(project)
  BY <1>1, NodeDetected
<1>3. HasPackage(project) <=> project.package = "object"
  BY <1>2 DEF HasPackage, Decodable
<1>4. KeysOf(Found2(project)) = KeysOf(node) \cup KeysOf(manager)
  BY <1>1, DetectedAreRequirements
<1>5. /\ DeclaresNode => \E r : r.name = "node" /\ node = <<r>>
      /\ ~DeclaresNode => node = <<>>
  <2>1. DeclaresNode <=> project.hasNvmrc \/ DeclaresEngines(project)
    BY <1>1, <1>2, DeclaredRange DEF DeclaresNode
  <2>2. \/ /\ ~DeclaresEngines(project) /\ ~project.hasNvmrc
           /\ node = <<>>
        \/ /\ DeclaresEngines(project) \/ project.hasNvmrc
           /\ \E constraint, evidence : NodeIs(project, constraint, evidence)
    BY <1>1, NodeDetected
  <2>3. \A constraint, evidence : NodeIs(project, constraint, evidence) => \E r : r.name = "node" /\ node = <<r>>
    BY DEF NodeIs, Requirement
  <2> QED
    BY <2>1, <2>2, <2>3
<1>6. /\ pins => \E r : r.name = project.manager.name /\ manager = <<r>>
      /\ ~pins => manager = <<>>
  <2>1. \/ /\ ~HasPackage(project) \/ project.managerType # "string" \/ project.manager = NoManager
           /\ manager = <<>>
        \/ /\ HasPackage(project) /\ project.managerType = "string" /\ project.manager # NoManager
           /\ \E c, e : manager = <<Requirement(project.manager.name, c, e)>>
    BY <1>1, ManagerDetected
  <2>2. \A c, e : Requirement(project.manager.name, c, e).name = project.manager.name
    BY DEF Requirement
  <2> QED
    BY <1>3, <2>1, <2>2 DEF DeclaresManager
<1> HIDE DEF node, manager, pins
<1>7. KeysOf(<<>>) = {} /\ \A r : KeysOf(<<r>>) = {r}
  BY DEF KeysOf
<1>8. {r.name : r \in KeysOf(node)} = IF DeclaresNode THEN {"node"} ELSE {}
  <2>1. CASE DeclaresNode
    BY <1>5, <1>7, <2>1
  <2>2. CASE ~DeclaresNode
    BY <1>5, <1>7, <2>2
  <2> QED
    BY <2>1, <2>2
<1>9. {r.name : r \in KeysOf(manager)} = IF pins THEN {project.manager.name} ELSE {}
  <2>1. CASE pins
    BY <1>6, <1>7, <2>1
  <2>2. CASE ~pins
    BY <1>6, <1>7, <2>2
  <2> QED
    BY <2>1, <2>2
<1> QED
  BY <1>4, <1>8, <1>9 DEF pins

(* The conjunction rule: the version that .nvmrc selects is in the range.   *)
LEMMA SelectedIsInRange ==
    ASSUME NEW p \in ProjectFiles, p.range.ws # "nel outside", NodeDetect(p).ok,
           p.hasNvmrc, NvmrcSelects(SelectorOf(p)), DeclaresEngines(p),
           Compatible(RangeOf(p), Exact[SelectorOf(p)[1]]), RangeOf(p) # Refused
    PROVE  NpmAdmits(p.range, VersionOf(Exact[SelectorOf(p)[1]]))
<1> DEFINE v == VersionOf(Exact[SelectorOf(p)[1]])
<1>1. HasPackage(p) => Decodable(p)
  BY NodeDetected
<1>2. RangeOf(p) = Normalize(p.range)
  BY <1>1, DeclaredRange DEF RangeOf
<1>3. p.range \in Written
  BY DEF ProjectFiles
<1>4. Parse(RangeOf(p)) = NpmRange(p.range)
  BY <1>2, <1>3, NormalizedMeansTheSame
<1>5. Check(NpmRange(p.range), v)
  BY <1>4 DEF Compatible
<1> QED
  BY <1>5, Zenon DEF Check, NpmAdmits

(* The verdict on a requirement of a captured file.                         *)
LEMMA CapturedVerdict ==
    ASSUME DeclaresWithinLimits(project), project \in Projects,
           NodeDetect(project).ok, PackageManagerDetect(project).ok,
           NEW r \in KeysOf(Found2(project)), NEW q, NEW o,
           q.name = r.name, o.name = r.name, q.constraint = ConstraintOf(r.constraint),
           o.present, o.version # NoVersion, ComparableVersion(o.version), ~IsPrerelease(o.version)
    PROVE  Compare(q, o).status = IF ToolsAdmit(r.name, o.version) THEN "pass" ELSE "fail"
<1> DEFINE v == o.version
           p == project
           status == Compare(q, o).status
           declared == p.package = "object" /\ p.engines = "object" /\ p.node = "string" /\ p.range.sets # <<<<>>>>
<1>1. p \in ProjectFiles /\ p.range.ws # "nel outside" /\ ~(Bytes(Normalize(p.range)) > MaxLen)
  BY InputsAssumption DEF DeclaresWithinLimits
<1>2. HasPackage(p) => Decodable(p)
  BY <1>1, NodeDetected
<1>3. DeclaresEngines(p) <=> declared
  BY <1>1, <1>2, DeclaredRange
<1>4. \A word \in PinnedWords(p) : ConstraintOf(ExactText(Exact[word])) = Exactly(VersionOf(Exact[word]))
  BY ExactAssumption, PinnedVersion DEF DeclaresWithinLimits, PinnedWords
<1>5. ASSUME NEW word \in PinnedWords(p), r.constraint = ExactText(Exact[word])
      PROVE  status = IF v = VersionOf(Exact[word]) THEN "pass" ELSE "fail"
  <2>1. q.constraint = Exactly(VersionOf(Exact[word]))
    BY <1>4, <1>5
  <2>2. q.constraint.kind = "exact" /\ q.constraint.version = VersionOf(Exact[word])
    BY <2>1 DEF Exactly
  <2> QED
    BY <2>2, ReleaseVerdict
<1>6. ToolsAdmit("node", v) <=> /\ declared => NpmAdmits(p.range, v)
                                /\ p.hasNvmrc => NvmAdmits(p.nvmrc, v)
  BY Zenon DEF ToolsAdmit
<1>7. \A name : name # "node" =>
        (ToolsAdmit(name, v) <=> name = p.manager.name /\ v = VersionOf(Exact[p.manager.word]))
  BY Zenon DEF ToolsAdmit
<1> HIDE DEF status, declared
<1>8. ASSUME p.hasNvmrc, NvmrcSelects(SelectorOf(p)), NEW evidence,
             declared => RangeOf(p) # Refused /\ Compatible(RangeOf(p), Exact[SelectorOf(p)[1]]),
             r = Requirement("node", ExactText(Exact[SelectorOf(p)[1]]), evidence)
      PROVE  status = IF ToolsAdmit(r.name, v) THEN "pass" ELSE "fail"
  <2> DEFINE word == SelectorOf(p)[1]
  <2>1. word \in PinnedWords(p) /\ r.name = "node" /\ r.constraint = ExactText(Exact[word])
    <3>1. word \in Words
      BY <1>8 DEF NvmrcSelects
    <3>2. word \in PinnedWords(p)
      BY <1>8, <3>1 DEF PinnedWords, SelectorOf
    <3> QED
      BY <1>8, <3>2 DEF Requirement
  <2>2. status = IF v = VersionOf(Exact[word]) THEN "pass" ELSE "fail"
    BY <1>5, <2>1
  <2>3. NvmAdmits(p.nvmrc, v) <=> v = VersionOf(Exact[word])
    <3>1. p.nvmrc \in Seq(Seq(STRING))
      BY <1>1 DEF ProjectFiles
    <3> QED
      BY <1>8, <3>1, NvmReadsTheSelector DEF SelectorOf
  <2>4. declared => NpmAdmits(p.range, VersionOf(Exact[word]))
    BY <1>1, <1>3, <1>8, SelectedIsInRange
  <2> HIDE DEF word
  <2>5. ToolsAdmit("node", v) <=> v = VersionOf(Exact[word])
    BY <1>6, <1>8, <2>3, <2>4
  <2> QED
    BY <2>1, <2>2, <2>5
<1>9. ASSUME declared, ~p.hasNvmrc, RangeOf(p) # Refused, r = Requirement("node", RangeOf(p), <<FromEngines>>)
      PROVE  status = IF ToolsAdmit(r.name, v) THEN "pass" ELSE "fail"
  <2>1. RangeOf(p) = Normalize(p.range) /\ p.range \in Written
    BY <1>1, <1>2, <1>3, <1>9, DeclaredRange DEF RangeOf, ProjectFiles
  <2>2. r.name = "node" /\ r.constraint = Normalize(p.range) /\ Normalize(p.range) # Refused
    BY <1>9, <2>1 DEF Requirement
  <2>3. status = IF NpmAdmits(p.range, v) THEN "pass" ELSE "fail"
    BY <1>1, <2>1, <2>2, RangeIsNpms DEF status
  <2> QED
    BY <1>6, <1>9, <2>2, <2>3
<1>10. ASSUME NEW evidence, Splits(p.manager),
              r = Requirement(p.manager.name, ExactText(Exact[p.manager.word]), evidence)
       PROVE  status = IF ToolsAdmit(r.name, v) THEN "pass" ELSE "fail"
  <2>1. p.manager.word \in PinnedWords(p) /\ p.manager.name # "node"
    BY <1>10 DEF Splits, PinnedWords
  <2>2. r.name = p.manager.name /\ r.constraint = ExactText(Exact[p.manager.word])
    BY <1>10 DEF Requirement
  <2>3. status = IF v = VersionOf(Exact[p.manager.word]) THEN "pass" ELSE "fail"
    BY <1>5, <2>1, <2>2
  <2> QED
    BY <1>7, <2>1, <2>2, <2>3
<1>11. r \in KeysOf(NodeDetect(p).requirements) \/ r \in KeysOf(PackageManagerDetect(p).requirements)
  BY <1>1, DetectedAreRequirements
<1>12. KeysOf(<<>>) = {} /\ \A x : KeysOf(<<x>>) = {x}
  BY DEF KeysOf
<1>13. CASE r \in KeysOf(NodeDetect(p).requirements)
  <2>1. \/ NodeDetect(p).requirements = <<>>
        \/ /\ p.hasNvmrc /\ NvmrcSelects(SelectorOf(p))
           /\ DeclaresEngines(p) => RangeOf(p) # Refused /\ Compatible(RangeOf(p), Exact[SelectorOf(p)[1]])
           /\ \E evidence : NodeDetect(p).requirements =
                              <<Requirement("node", ExactText(Exact[SelectorOf(p)[1]]), evidence)>>
        \/ /\ DeclaresEngines(p) /\ ~p.hasNvmrc
           /\ RangeOf(p) # Refused
           /\ NodeDetect(p).requirements = <<Requirement("node", RangeOf(p), <<FromEngines>>)>>
    BY <1>1, NodeDetected, Zenon DEF NodeIs
  <2>2. \A x : NodeDetect(p).requirements = <<x>> => r = x
    BY <1>12, <1>13
  <2>3. NodeDetect(p).requirements # <<>>
    BY <1>12, <1>13
  <2>4. CASE /\ p.hasNvmrc /\ NvmrcSelects(SelectorOf(p))
             /\ DeclaresEngines(p) => RangeOf(p) # Refused /\ Compatible(RangeOf(p), Exact[SelectorOf(p)[1]])
             /\ \E evidence : NodeDetect(p).requirements =
                                <<Requirement("node", ExactText(Exact[SelectorOf(p)[1]]), evidence)>>
    <3>1. PICK evidence : r = Requirement("node", ExactText(Exact[SelectorOf(p)[1]]), evidence)
      BY <2>2, <2>4, Zenon
    <3> QED
      BY <1>3, <1>8, <2>4, <3>1, Zenon DEF status
  <2>5. CASE /\ DeclaresEngines(p) /\ ~p.hasNvmrc
             /\ RangeOf(p) # Refused
             /\ NodeDetect(p).requirements = <<Requirement("node", RangeOf(p), <<FromEngines>>)>>
    <3>1. r = Requirement("node", RangeOf(p), <<FromEngines>>)
      BY <2>2, <2>5, Zenon
    <3> QED
      BY <1>3, <1>9, <2>5, <3>1, Zenon DEF status
  <2> QED
    BY <2>1, <2>3, <2>4, <2>5, Zenon
<1>14. CASE r \in KeysOf(PackageManagerDetect(p).requirements)
  <2>1. \/ PackageManagerDetect(p).requirements = <<>>
        \/ /\ Splits(p.manager)
           /\ PackageManagerDetect(p).requirements =
                <<Requirement(p.manager.name, ExactText(Exact[p.manager.word]), <<FromManager>>)>>
    BY <1>1, ManagerDetected, Zenon
  <2>2. r = Requirement(p.manager.name, ExactText(Exact[p.manager.word]), <<FromManager>>)
    BY <1>12, <1>14, <2>1
  <2>3. Splits(p.manager)
    BY <1>12, <1>14, <2>1
  <2> QED
    BY <1>10, <2>2, <2>3, Zenon DEF status
<1> QED
  BY <1>11, <1>13, <1>14

\* A version that was read is one that the engine can compare.
LEMMA ReadVersionsCompare ==
    ASSUME NEW v \in Observations, v # NoVersion, v.core <= MaxNumeric
    PROVE  ComparableVersion(v)
<1>1. PICK word \in DOMAIN Printed : v = VersionOf(Printed[word])
  BY DEF Observations
<1>2. v \in Version
  BY <1>1, OutputAssumption, VersionType
<1> QED
  BY <1>2, NotStrictAssumption DEF ComparableVersion

(* A release that a captured project's tool reports passes exactly when     *)
(* npm, nvm and Corepack would all take it, whenever the project and its    *)
(* tools stay within the limits of npm (node.go, the conjunction rule;      *)
(* compare.go): detection, womm.yaml, the reading of the output and the     *)
(* engine lose and add nothing on the way.                                  *)
THEOREM VerdictsFollowTheDeclarations ==
    Spec => [](WithinLimits => VerdictsMeanTheDeclarations)
<1>1. IInv => (WithinLimits => VerdictsMeanTheDeclarations)
  <2> SUFFICES ASSUME IInv, WithinLimits, origin = "captured" PROVE VerdictsMeanTheDeclarations
    BY DEF VerdictsMeanTheDeclarations
  <2> DEFINE reqs == CaptureRequirements(project).requirements
  <2>1. /\ project \in Projects /\ Captured # NoDocument /\ doc = Captured
        /\ pc # "load" => loaded = ParseFile(doc)
    BY DEF IInv, Documented
  <2>2. project \in ProjectFiles
    BY <2>1, InputsAssumption
  <2>3. /\ CaptureRequirements(project).ok
        /\ ParseFile(doc) = [file |-> File(reqs, <<>>, FALSE), warnings |-> {}, err |-> "none"]
        /\ doc.requirements = [i \in DOMAIN reqs |-> WrittenItem(reqs[i])]
    BY <2>1, <2>2, CapturedDocument, Zenon
  <2>4. /\ NodeDetect(project).ok /\ PackageManagerDetect(project).ok
        /\ reqs \in Seq(Requirements) /\ KeysOf(reqs) = KeysOf(Found2(project))
    BY <2>2, <2>3, CapturedRequirements
  <2> HIDE DEF reqs
  <2>5. {doc.requirements[i].name : i \in DOMAIN doc.requirements} = {r.name : r \in KeysOf(reqs)}
    <3>1. \A r : WrittenItem(r).name = r.name
      BY DEF WrittenItem, Item
    <3> QED
      BY <2>3, <3>1 DEF KeysOf
  <2>6. ASSUME NEW i \in DOMAIN matches, matches[i].present, matches[i].version # NoVersion,
               ~IsPrerelease(matches[i].version)
        PROVE  matches[i].status =
                 IF ToolsAdmit(matches[i].requirement.name, matches[i].version) THEN "pass" ELSE "fail"
    <3> DEFINE m == matches[i]
               r == m.requirement
               q == [name |-> r.name, constraint |-> ConstraintOf(r.constraint)]
               o == [name |-> r.name, present |-> m.present, version |-> m.version]
    <3>1. m \in Matches /\ r \in KeysOf(loaded.file.requirements) /\ RightStatus(m)
      BY <2>6 DEF IInv, Looping, Judgeable, Compared
    <3>2. pc # "load"
      <4>1. pc = "load" => matches = <<>>
        BY DEF IInv, Looping
      <4> QED
        BY <2>6, <4>1
    <3>3. loaded.file.requirements = reqs
      <4>1. loaded = [file |-> File(reqs, <<>>, FALSE), warnings |-> {}, err |-> "none"]
        BY <2>1, <2>3, <3>2
      <4>2. loaded.file = File(reqs, <<>>, FALSE)
        BY <4>1, Zenon
      <4> QED
        BY <4>2 DEF File
    <3>4. r \in KeysOf(Found2(project))
      BY <2>4, <3>1, <3>3
    <3>5. m.version \in Observations
      BY <3>1 DEF Matches
    <3>6. ComparableVersion(m.version)
      BY <2>6, <3>5, ReadVersionsCompare DEF WithinLimits
    <3>7. q.name = r.name /\ o.name = r.name /\ q.constraint = ConstraintOf(r.constraint)
          /\ o.present = m.present /\ o.version = m.version
      OBVIOUS
    <3> HIDE DEF q, o, m
    <3>8. Compare(q, o).status = IF ToolsAdmit(r.name, m.version) THEN "pass" ELSE "fail"
      <4>1. DeclaresWithinLimits(project)
        BY DEF WithinLimits
      <4>2. m.present /\ m.version # NoVersion /\ ~IsPrerelease(m.version)
        BY <2>6 DEF m
      <4>3. o.present /\ o.version # NoVersion /\ ComparableVersion(o.version) /\ ~IsPrerelease(o.version)
        BY <3>6, <3>7, <4>2
      <4>4. Compare(q, o).status = IF ToolsAdmit(r.name, o.version) THEN "pass" ELSE "fail"
        BY <2>1, <2>4, <3>4, <3>7, <4>1, <4>3, CapturedVerdict
      <4> QED
        BY <3>7, <4>4
    <3>9. IF m.status = "unreachable" THEN m.version = NoVersion ELSE m.status = Compare(q, o).status
      BY <3>1, Zenon DEF RightStatus, q, o
    <3>10. m.status # "unreachable"
      BY <2>6, <3>9 DEF m
    <3> QED
      BY <3>8, <3>9, <3>10 DEF m
  <2> QED
    BY <2>1, <2>4, <2>5, <2>6, CapturedNames DEF VerdictsMeanTheDeclarations, WithinLimits
<1> QED
  BY <1>1, InductiveInvariant, PTL
=============================================================================
