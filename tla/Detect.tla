------------------------------- MODULE Detect -------------------------------
(***************************************************************************)
(* capture.Capture with its two detectors (internal/capture,               *)
(* internal/detectors/node): three reads of two declared sources, while    *)
(* others edit the project.                                                *)
(*                                                                         *)
(* NodeDetector reads package.json, then .nvmrc; PackageManagerDetector    *)
(* reads package.json again.  A read is a short dialogue with the file     *)
(* system (readFileIfPresent), and an edit can fall between any two steps  *)
(* of it.  Edits replace directory entries; a file is not modified while   *)
(* it is being read.                                                       *)
(*                                                                         *)
(* What a source declares is abstracted to the set of versions it admits:  *)
(* one version for .nvmrc and packageManager, any set for engines.node.    *)
(* Pre-releases play no part: an .nvmrc version never is one.              *)
(***************************************************************************)
EXTENDS Naturals, Sequences

CONSTANTS
    Versions,       \* versions the declarations tell apart
    Entries,        \* for each place, the directory entries it may have
    MaxEdits        \* how often others edit the project

Sources == {"package.json", ".nvmrc"}

\* The place inside the project an absolute link at a source points to.
Target == [s \in Sources |-> IF s = "package.json" THEN "package target" ELSE "nvmrc target"]

Places == Sources \cup {"package target", "nvmrc target"}

\* "good" admits versions; "bad" is malformed or outside the supported
\* subset of npm, nvm or Corepack syntax.
Declarations == [form : {"none", "bad", "good"}, admits : SUBSET Versions]

None == [form |-> "none", admits |-> {}]

\* An exact version, a range, or nothing usable.
Exact == {d \in Declarations : d.form = "good" => \E v \in Versions : d.admits = {v}}

Documents == [malformed : BOOLEAN,
              engines : Declarations, manager : Exact, selector : Exact]

\* "broken" is a link to nothing, "abslink" an absolute link into the
\* project, "outside" a link that leaves it (its document is not ours).
Kinds == {"absent", "file", "broken", "abslink", "outside", "special", "large", "unreadable"}

Links == {"broken", "abslink", "outside"}

ASSUME EntriesAssumption ==
    /\ DOMAIN Entries = Places
    /\ \A p \in Places : Entries[p] \subseteq [kind : Kinds, doc : Documents]
ASSUME EditsAssumption == MaxEdits \in Nat

VARIABLES
    entry,      \* what each place holds now
    ever,       \* what each place has held since the command started
    edits,      \* edits so far
    read,       \* which of the three reads is going on
    pc,         \* where in it
    opened,     \* the inode that is open
    engines,    \* package.json, engines.node, as first read
    selector,   \* .nvmrc
    manager,    \* package.json, packageManager, as read last
    missing,    \* reads that took their source for absent
    outcome     \* "none", "captured" or "error"

projectVars == <<entry, ever, edits>>
declVars == <<engines, selector, manager>>
vars == <<projectVars, read, pc, opened, declVars, missing, outcome>>

-----------------------------------------------------------------------------
SourceOf == <<"package.json", ".nvmrc", "package.json">>

source == SourceOf[read]

Goes(next) ==
    /\ pc' = next
    /\ UNCHANGED <<projectVars, read, opened, declVars, missing, outcome>>

\* Any error ends the command: nothing is captured.
Fail ==
    /\ pc' = "done"
    /\ outcome' = "error"
    /\ UNCHANGED <<projectVars, read, opened, declVars, missing>>

\* A bug the checks must find: one read too many.
AdvanceTooFar ==
    /\ IF read <= Len(SourceOf)
       THEN read' = read + 1 /\ pc' = "open" /\ UNCHANGED outcome
       ELSE pc' = "done" /\ outcome' = "captured" /\ UNCHANGED read
    /\ UNCHANGED <<projectVars, opened>>

\* To the next read, or to the end: after the last one what was found is
\* sorted and validated, which cannot fail for these two detectors.
Advance ==
    /\ IF read < Len(SourceOf)
       THEN read' = read + 1 /\ pc' = "open" /\ UNCHANGED outcome
       ELSE pc' = "done" /\ outcome' = "captured" /\ UNCHANGED read
    /\ UNCHANGED <<projectVars, opened>>

-----------------------------------------------------------------------------
(* readFileIfPresent.                                                      *)

\* The project is no directory, or cannot be opened.
RootFails == pc = "open" /\ Fail

Opens(e) ==
    /\ e.kind \in {"file", "special", "large"}
    /\ opened' = e
    /\ pc' = "read"
    /\ UNCHANGED <<projectVars, read, declVars, missing, outcome>>

\* A bug the checks must find: a plain open, which follows every link.
OpenAnywhere ==
    /\ pc = "open"
    /\ \/ Opens(entry[source])
       \/ /\ entry[source].kind = "outside"
          /\ opened' = [entry[source] EXCEPT !.kind = "file"]
          /\ pc' = "read"
          /\ UNCHANGED <<projectVars, read, declVars, missing, outcome>>

\* root.OpenFile: non-blocking, and confined to the project.
Open == pc = "open" /\ Opens(entry[source])

OpenEscapes ==
    /\ pc = "open"
    /\ entry[source].kind \in {"outside", "abslink"}
    /\ Goes("translate")

OpenMissing ==
    /\ pc = "open"
    /\ entry[source].kind \in {"absent", "broken"}
    /\ Goes("lstat")

\* A bug the checks must find: what cannot be read is not there.
UnreadableIsMissing ==
    /\ pc = "open"
    /\ entry[source].kind = "unreadable"
    /\ Goes("lstat")

OpenRefused ==
    /\ pc = "open"
    /\ entry[source].kind = "unreadable"
    /\ Fail

\* internalAbsoluteTarget looks at the entry anew.
Translate ==
    /\ pc = "translate"
    /\ IF entry[source].kind = "abslink" THEN Goes("reopen") ELSE Fail

Reopen ==
    /\ pc = "reopen"
    /\ LET e == entry[Target[source]]
       IN \/ Opens(e)
          \/ e.kind \in {"absent", "broken"} /\ Goes("lstat")
          \/ e.kind \in {"outside", "abslink", "unreadable"} /\ Fail

\* The entry itself decides between absence and a dangling link.
LstatIsLink ==
    /\ pc = "lstat"
    /\ entry[source].kind \in Links
    /\ Fail

TakenForAbsent ==
    /\ pc = "lstat"
    /\ entry[source].kind \notin Links
    /\ missing' = missing \cup {read}
    /\ Advance
    /\ UNCHANGED declVars

\* fstat on the open file, and the read itself.
ReadFails == pc = "read" /\ Fail

-----------------------------------------------------------------------------
(* The detectors.                                                          *)

Reading(n) == pc = "read" /\ read = n /\ opened.kind = "file"

doc == opened.doc

Engines ==
    /\ Reading(1)
    /\ IF doc.malformed \/ doc.engines.form = "bad" THEN Fail
       ELSE /\ engines' = doc.engines
            /\ Advance
            /\ UNCHANGED <<selector, manager, missing>>

Agree(range, exact) ==
    range.form = "good" => exact.admits \subseteq range.admits

\* A bug the checks must find: .nvmrc wins whatever engines says.
NvmrcWins ==
    /\ Reading(2)
    /\ IF doc.selector.form # "good" THEN Fail
       ELSE /\ selector' = doc.selector
            /\ Advance
            /\ UNCHANGED <<engines, manager, missing>>

\* An .nvmrc that is there declares a version or is an error; declarations
\* that cannot both be true are one too.
Nvmrc ==
    /\ Reading(2)
    /\ IF doc.selector.form # "good" \/ ~Agree(engines, doc.selector) THEN Fail
       ELSE /\ selector' = doc.selector
            /\ Advance
            /\ UNCHANGED <<engines, manager, missing>>

Manager ==
    /\ Reading(3)
    /\ IF doc.malformed \/ doc.manager.form = "bad" THEN Fail
       ELSE /\ manager' = doc.manager
            /\ Advance
            /\ UNCHANGED <<engines, selector, missing>>

\* The consolidation of engines.node and .nvmrc into one requirement.
NodeRequirement == IF selector.form = "good" THEN selector ELSE engines

-----------------------------------------------------------------------------
Edit ==
    /\ edits < MaxEdits
    /\ pc # "done"
    /\ \E p \in Places : \E e \in Entries[p] \ {entry[p]} :
         /\ entry' = [entry EXCEPT ![p] = e]
         /\ ever' = [ever EXCEPT ![p] = @ \cup {e}]
    /\ edits' = edits + 1
    /\ UNCHANGED <<read, pc, opened, declVars, missing, outcome>>

Done == pc = "done" /\ UNCHANGED vars

Nothing == [kind |-> "absent",
            doc |-> [malformed |-> FALSE,
                     engines |-> None, manager |-> None, selector |-> None]]

Init ==
    /\ entry \in [Places -> UNION {Entries[p] : p \in Places}]
    /\ \A p \in Places : entry[p] \in Entries[p]
    /\ ever = [p \in Places |-> {entry[p]}]
    /\ edits = 0
    /\ read = 1
    /\ pc = "open"
    /\ opened = Nothing
    /\ engines = None
    /\ selector = None
    /\ manager = None
    /\ missing = {}
    /\ outcome = "none"

Next ==
    \/ RootFails \/ Open \/ OpenEscapes \/ OpenMissing \/ OpenRefused
    \/ Translate \/ Reopen \/ LstatIsLink \/ TakenForAbsent \/ ReadFails
    \/ Engines \/ Nvmrc \/ Manager
    \/ Edit \/ Done

Spec == Init /\ [][Next]_vars

-----------------------------------------------------------------------------
TypeOK ==
    /\ \A p \in Places : entry[p] \in Entries[p] /\ ever[p] \subseteq Entries[p]
    /\ edits \in 0..MaxEdits
    /\ read \in 1..3
    /\ pc \in {"open", "translate", "reopen", "lstat", "read", "done"}
    /\ opened \in [kind : Kinds, doc : Documents]
    /\ engines \in Declarations /\ {selector, manager} \subseteq Exact
    /\ missing \subseteq 1..3
    /\ outcome \in {"none", "captured", "error"}

\* The documents of the project's own that a source has had.
DocumentsOf(s) ==
    {e.doc : e \in {x \in ever[s] \cup ever[Target[s]] : x.kind = "file"}}

(* What is captured for Node.js admits exactly the versions that every      *)
(* source read admits: no side of a conflict is picked, and nothing is      *)
(* captured from two declarations that cannot both be true (node.go, "the   *)
(* conjunction rule").  A range that admits nothing is captured as it is.   *)
CaptureIsTheConjunction ==
    outcome = "captured" /\ "good" \in {engines.form, selector.form} =>
        /\ selector.form = "good" => NodeRequirement.admits # {}
        /\ \A v \in Versions :
             v \in NodeRequirement.admits <=>
                 \A d \in {engines, selector} : d.form = "good" => v \in d.admits

(* Whatever is captured was declared: each piece of evidence stood in a     *)
(* file of the project, under the name it is attributed to, at some moment  *)
(* of the run, however entries are swapped between the steps of a read      *)
(* (helpers.go, "L0 containment guarantee, race-free").                     *)
EvidenceWasDeclared ==
    /\ engines # None => \E d \in DocumentsOf("package.json") : d.engines = engines
    /\ selector # None => \E d \in DocumentsOf(".nvmrc") : d.selector = selector
    /\ manager # None => \E d \in DocumentsOf("package.json") : d.manager = manager

(* A source is taken for absent only if, at some moment, there was nothing  *)
(* to read under its name: one that is unreadable, too large, special or    *)
(* outside is an error, whatever it turns into during the read              *)
(* (readFileIfPresent: "Other I/O failures propagate").                     *)
PresentIsNeverAbsent ==
    \A r \in missing :
        \E e \in ever[SourceOf[r]] \cup ever[Target[SourceOf[r]]] :
            e.kind \in {"absent", "broken"}
=============================================================================
