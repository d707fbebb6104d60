---------------------------- MODULE DetectProofs ----------------------------
(* Theorems about module Detect, for every set of versions, every kind of   *)
(* project and every number of edits during a run.                          *)
EXTENDS Detect, TLAPS

-----------------------------------------------------------------------------
(* The inductive invariant.  What a read is about to conclude it must have  *)
(* seen, and what it saw is remembered in ever, which only grows.           *)

Holds(e, s) == e \in ever[s] \cup ever[Target[s]]

ProjectInv ==
    /\ entry \in [Places -> UNION {Entries[p] : p \in Places}]
    /\ ever \in [Places -> SUBSET UNION {Entries[p] : p \in Places}]
    /\ \A p \in Places : entry[p] \in ever[p]

\* What is open, and what made the read go to lstat, was at its source.
SeenInv ==
    /\ pc = "read" => Holds(opened, source)
    /\ pc = "lstat" => \E e : Holds(e, source) /\ e.kind \in {"absent", "broken"}

\* Until .nvmrc has been read there is nothing in selector, until engines
\* has, nothing at all.
OrderInv ==
    /\ read = 1 => engines = None
    /\ read \in {1, 2} => selector = None
    /\ outcome = "captured" => pc = "done" /\ read = 3
    /\ selector.form = "good" => Agree(engines, selector)

IInv ==
    /\ TypeOK
    /\ ProjectInv
    /\ SeenInv
    /\ OrderInv
    /\ EvidenceWasDeclared
    /\ PresentIsNeverAbsent

-----------------------------------------------------------------------------
LEMMA SourcesArePlaces ==
    /\ SourceOf[1] = "package.json" /\ SourceOf[2] = ".nvmrc" /\ SourceOf[3] = "package.json"
    /\ Len(SourceOf) = 3
    /\ \A s \in Sources : s \in Places /\ Target[s] \in Places
    /\ \A n \in 1..3 : SourceOf[n] \in Sources
BY DEF SourceOf, Sources, Places, Target

LEMMA NoneIsNothing ==
    /\ None \in Declarations /\ None \in Exact /\ None.form # "good"
    /\ Nothing \in [kind : Kinds, doc : Documents]
<1>1. None \in Declarations /\ None.form = "none"
  BY DEF None, Declarations
<1>2. None \in Exact
  BY <1>1 DEF Exact
<1> QED
  BY <1>1, <1>2 DEF Nothing, Kinds, Documents

LEMMA EntriesAreEntries ==
    ASSUME NEW e, NEW p \in Places, e \in Entries[p]
    PROVE  e \in [kind : Kinds, doc : Documents]
BY EntriesAssumption

LEMMA InitiallyIInv == Init => IInv
<1> SUFFICES ASSUME Init PROVE IInv
  OBVIOUS
<1> USE DEF Init
<1>1. ProjectInv
  BY DEF ProjectInv
<1>2. TypeOK
  <2>1. edits \in 0..MaxEdits
    BY EditsAssumption
  <2> QED
    BY <2>1, NoneIsNothing DEF TypeOK
<1>3. SeenInv /\ OrderInv /\ EvidenceWasDeclared /\ PresentIsNeverAbsent
  BY NoneIsNothing DEF SeenInv, OrderInv, EvidenceWasDeclared, PresentIsNeverAbsent
<1> QED
  BY <1>1, <1>2, <1>3 DEF IInv

-----------------------------------------------------------------------------
(* An edit adds to what has been there.                                     *)
LEMMA EditKeeps == IInv /\ Edit => IInv'
<1> SUFFICES ASSUME IInv, Edit PROVE IInv'
  OBVIOUS
<1>0. PICK p \in Places : \E x \in Entries[p] \ {entry[p]} :
         /\ entry' = [entry EXCEPT ![p] = x]
         /\ ever' = [ever EXCEPT ![p] = @ \cup {x}]
  BY DEF Edit
<1>1. PICK e \in Entries[p] \ {entry[p]} :
         /\ entry' = [entry EXCEPT ![p] = e]
         /\ ever' = [ever EXCEPT ![p] = @ \cup {e}]
  BY <1>0
<1>2. UNCHANGED <<read, pc, opened, engines, selector, manager, missing, outcome>>
  BY DEF Edit, declVars
<1>3. ProjectInv'
  BY <1>1 DEF IInv, ProjectInv
<1>4. \A q \in Places : ever[q] \subseteq ever'[q]
  BY <1>1 DEF IInv, ProjectInv
<1>5. \A s \in Sources : \A x : Holds(x, s) => Holds(x, s)'
  BY <1>4, SourcesArePlaces DEF Holds
<1>6. TypeOK'
  <2>1. edits' \in 0..MaxEdits
    BY EditsAssumption DEF Edit, IInv, TypeOK
  <2>2. \A q \in Places : entry'[q] \in Entries[q] /\ ever'[q] \subseteq Entries[q]
    BY <1>1 DEF IInv, TypeOK, ProjectInv
  <2> QED
    BY <1>2, <2>1, <2>2 DEF IInv, TypeOK
<1>7. SeenInv'
  <2>1. source \in Sources /\ source' = source
    BY <1>2, SourcesArePlaces DEF source, IInv, TypeOK
  <2> QED
    BY <1>2, <1>5, <2>1 DEF IInv, SeenInv
<1>8. OrderInv'
  BY <1>2 DEF IInv, OrderInv, Agree
<1>9. EvidenceWasDeclared'
  <2>1. \A s \in Sources : DocumentsOf(s) \subseteq DocumentsOf(s)'
    BY <1>4, SourcesArePlaces DEF DocumentsOf
  <2> QED
    BY <1>2, <2>1 DEF IInv, EvidenceWasDeclared, Sources
<1>10. PresentIsNeverAbsent'
  <2>1. \A n \in missing : SourceOf[n] \in Sources
    BY SourcesArePlaces DEF IInv, TypeOK
  <2> QED
    BY <1>2, <1>5, <2>1 DEF IInv, PresentIsNeverAbsent, Holds
<1> QED
  BY <1>3, <1>6, <1>7, <1>8, <1>9, <1>10 DEF IInv

-----------------------------------------------------------------------------
(* The steps of a read.                                                     *)

\* A read moves on, or gives up: nothing that was found is touched.
Moves ==
    /\ UNCHANGED <<projectVars, read, engines, selector, manager, missing>>
    /\ pc' \in {"translate", "reopen", "lstat", "read", "done"}
    /\ outcome' \in {outcome, "error"}
    /\ opened' \in [kind : Kinds, doc : Documents]
    /\ pc # "done"

LEMMA MovesKeeps == IInv /\ Moves /\ SeenInv' => IInv'
<1> SUFFICES ASSUME IInv, Moves, SeenInv' PROVE IInv'
  OBVIOUS
<1>1. UNCHANGED <<entry, ever, edits>>
  BY DEF Moves, projectVars
<1>2. TypeOK' /\ ProjectInv'
  BY <1>1 DEF IInv, Moves, TypeOK, ProjectInv
<1>3. OrderInv'
  BY DEF IInv, Moves, OrderInv, Agree
<1>4. EvidenceWasDeclared' /\ PresentIsNeverAbsent'
  BY <1>1 DEF IInv, Moves, EvidenceWasDeclared, PresentIsNeverAbsent, DocumentsOf
<1> QED
  BY <1>2, <1>3, <1>4 DEF IInv

(* The dialogue with the file system, up to the open file or to lstat.      *)
LEMMA DialogueKeeps ==
    IInv /\ (RootFails \/ Open \/ OpenEscapes \/ OpenMissing \/ OpenRefused \/ Translate \/ Reopen
               \/ LstatIsLink \/ ReadFails)
      => IInv'
<1> SUFFICES ASSUME IInv,
                    RootFails \/ Open \/ OpenEscapes \/ OpenMissing \/ OpenRefused \/ Translate
                      \/ Reopen \/ LstatIsLink \/ ReadFails
             PROVE  IInv'
  OBVIOUS
<1>1. source \in Sources
  BY SourcesArePlaces DEF IInv, TypeOK, source
<1>2. /\ Holds(entry[source], source)
      /\ Holds(entry[Target[source]], source)
      /\ entry[source] \in [kind : Kinds, doc : Documents]
      /\ entry[Target[source]] \in [kind : Kinds, doc : Documents]
  BY <1>1, SourcesArePlaces, EntriesAreEntries DEF IInv, TypeOK, ProjectInv, Holds
<1>3. ASSUME Fail, pc # "done" PROVE Moves /\ SeenInv'
  BY <1>3 DEF Fail, Moves, SeenInv, IInv, TypeOK, declVars
<1>4. ASSUME NEW next \in {"translate", "reopen"}, Goes(next), pc # "done"
      PROVE  Moves /\ SeenInv'
  BY <1>4 DEF Goes, Moves, SeenInv, IInv, TypeOK, declVars
<1>5. ASSUME NEW e, Holds(e, source), e \in [kind : Kinds, doc : Documents],
             Opens(e), pc # "done"
      PROVE  Moves /\ SeenInv'
  BY <1>5 DEF Opens, Moves, SeenInv, Holds, source, projectVars, declVars, IInv, TypeOK
<1>6. ASSUME NEW e, Holds(e, source), e.kind \in {"absent", "broken"},
             Goes("lstat"), pc # "done"
      PROVE  Moves /\ SeenInv'
  BY <1>6 DEF Goes, Moves, SeenInv, Holds, source, projectVars, declVars, IInv, TypeOK
<1>7. CASE RootFails \/ OpenRefused \/ LstatIsLink \/ ReadFails
  BY <1>3, <1>7, MovesKeeps DEF RootFails, OpenRefused, LstatIsLink, ReadFails
<1>8. CASE Open
  BY <1>2, <1>5, <1>8, MovesKeeps DEF Open
<1>9. CASE OpenEscapes
  BY <1>4, <1>9, MovesKeeps DEF OpenEscapes
<1>10. CASE OpenMissing
  BY <1>2, <1>6, <1>10, MovesKeeps DEF OpenMissing
<1>11. CASE Translate
  BY <1>3, <1>4, <1>11, MovesKeeps DEF Translate
<1>12. CASE Reopen
  <2> DEFINE e == entry[Target[source]]
  <2>1. \/ Opens(e)
        \/ e.kind \in {"absent", "broken"} /\ Goes("lstat")
        \/ Fail
    BY <1>12 DEF Reopen
  <2>2. pc # "done"
    BY <1>12 DEF Reopen
  <2> HIDE DEF e
  <2>3. Holds(e, source) /\ e \in [kind : Kinds, doc : Documents]
    BY <1>2 DEF e
  <2> QED
    BY <1>3, <1>5, <1>6, <2>1, <2>2, <2>3, MovesKeeps
<1> QED
  BY <1>7, <1>8, <1>9, <1>10, <1>11, <1>12

-----------------------------------------------------------------------------
(* The end of a read.                                                       *)

LEMMA AdvanceKeeps ==
    ASSUME IInv, Advance,
           pc # "done",
           engines' \in Declarations, selector' \in Exact, manager' \in Exact,
           missing' \subseteq 1..3,
           read = 1 => selector' = selector,
           selector'.form = "good" => Agree(engines', selector'),
           EvidenceWasDeclared', PresentIsNeverAbsent'
    PROVE  IInv'
<1> USE SourcesArePlaces DEF Advance, projectVars
<1>1. UNCHANGED <<entry, ever, edits, opened>>
  OBVIOUS
<1>2. /\ read' \in 1..3 /\ read' # 1
      /\ pc' \in {"open", "done"}
      /\ \/ read < 3 /\ read' = read + 1 /\ outcome' = outcome
         \/ read = 3 /\ read' = 3 /\ pc' = "done" /\ outcome' = "captured"
  BY DEF IInv, TypeOK
<1>3. TypeOK'
  BY <1>1, <1>2 DEF IInv, TypeOK
<1>4. ProjectInv' /\ SeenInv'
  BY <1>1, <1>2 DEF IInv, ProjectInv, SeenInv
<1>5. OrderInv'
  BY <1>2 DEF IInv, TypeOK, OrderInv
<1> QED
  BY <1>3, <1>4, <1>5 DEF IInv

LEMMA TakenForAbsentKeeps == IInv /\ TakenForAbsent => IInv'
<1> SUFFICES ASSUME IInv, TakenForAbsent PROVE IInv'
  OBVIOUS
<1>1. /\ pc = "lstat" /\ Advance
      /\ missing' = missing \cup {read}
      /\ UNCHANGED <<entry, ever, engines, selector, manager>>
  BY DEF TakenForAbsent, declVars, Advance, projectVars
<1>2. missing' \subseteq 1..3
  BY <1>1 DEF IInv, TypeOK
<1>3. EvidenceWasDeclared'
  BY <1>1 DEF IInv, EvidenceWasDeclared, DocumentsOf
<1>4. PresentIsNeverAbsent'
  BY <1>1 DEF IInv, SeenInv, Holds, source, PresentIsNeverAbsent
<1>5. selector'.form = "good" => Agree(engines', selector')
  BY <1>1 DEF IInv, OrderInv
<1> QED
  BY <1>1, <1>2, <1>3, <1>4, <1>5, AdvanceKeeps DEF IInv, TypeOK

\* A document that was read stood at its source.
LEMMA ReadingIsOfASource ==
    ASSUME IInv, NEW n \in 1..3, Reading(n)
    PROVE  /\ doc \in Documents
           /\ doc \in DocumentsOf(SourceOf[n])
           /\ pc # "done" /\ read = n
BY DEF IInv, TypeOK, SeenInv, Holds, source, Reading, doc, DocumentsOf

LEMMA DetectorsKeep == IInv /\ (Engines \/ Nvmrc \/ Manager) => IInv'
<1> SUFFICES ASSUME IInv, Engines \/ Nvmrc \/ Manager PROVE IInv'
  OBVIOUS
<1>1. ASSUME Fail, pc # "done" PROVE IInv'
  <2>1. Moves /\ SeenInv'
    BY <1>1 DEF Fail, Moves, SeenInv, IInv, TypeOK, declVars
  <2> QED
    BY <2>1, MovesKeeps
<1>2. ASSUME Engines, ~Fail PROVE IInv'
  <2>1. /\ Reading(1) /\ Advance /\ engines' = doc.engines
        /\ UNCHANGED <<selector, manager, missing, entry, ever>>
    BY <1>2 DEF Engines, Advance, projectVars
  <2>2. /\ doc \in Documents /\ doc \in DocumentsOf("package.json")
        /\ pc # "done" /\ read = 1
    BY <2>1, ReadingIsOfASource, SourcesArePlaces
  <2>3. engines' \in Declarations
    BY <2>1, <2>2 DEF Documents
  <2>4. EvidenceWasDeclared'
    BY <2>1, <2>2 DEF IInv, EvidenceWasDeclared, DocumentsOf
  <2>5. PresentIsNeverAbsent'
    BY <2>1 DEF IInv, PresentIsNeverAbsent
  <2>6. selector'.form # "good"
    BY <2>1, <2>2, NoneIsNothing DEF IInv, OrderInv
  <2> QED
    BY <2>1, <2>2, <2>3, <2>4, <2>5, <2>6, AdvanceKeeps DEF IInv, TypeOK
<1>3. ASSUME Nvmrc, ~Fail PROVE IInv'
  <2>1. /\ Reading(2) /\ Advance /\ selector' = doc.selector
        /\ Agree(engines, doc.selector)
        /\ UNCHANGED <<engines, manager, missing, entry, ever>>
    BY <1>3 DEF Nvmrc, Advance, projectVars
  <2>2. /\ doc \in Documents /\ doc \in DocumentsOf(".nvmrc")
        /\ pc # "done" /\ read = 2
    BY <2>1, ReadingIsOfASource, SourcesArePlaces
  <2>3. selector' \in Exact
    BY <2>1, <2>2 DEF Documents
  <2>4. EvidenceWasDeclared'
    BY <2>1, <2>2 DEF IInv, EvidenceWasDeclared, DocumentsOf
  <2>5. PresentIsNeverAbsent'
    BY <2>1 DEF IInv, PresentIsNeverAbsent
  <2> QED
    BY <2>1, <2>2, <2>3, <2>4, <2>5, AdvanceKeeps DEF IInv, TypeOK
<1>4. ASSUME Manager, ~Fail PROVE IInv'
  <2>1. /\ Reading(3) /\ Advance /\ manager' = doc.manager
        /\ UNCHANGED <<engines, selector, missing, entry, ever>>
    BY <1>4 DEF Manager, Advance, projectVars
  <2>2. /\ doc \in Documents /\ doc \in DocumentsOf("package.json")
        /\ pc # "done" /\ read = 3
    BY <2>1, ReadingIsOfASource, SourcesArePlaces
  <2>3. manager' \in Exact
    BY <2>1, <2>2 DEF Documents
  <2>4. EvidenceWasDeclared'
    BY <2>1, <2>2 DEF IInv, EvidenceWasDeclared, DocumentsOf
  <2>5. PresentIsNeverAbsent'
    BY <2>1 DEF IInv, PresentIsNeverAbsent
  <2>6. selector'.form = "good" => Agree(engines', selector')
    BY <2>1 DEF IInv, OrderInv
  <2> QED
    BY <2>1, <2>2, <2>3, <2>4, <2>5, <2>6, AdvanceKeeps DEF IInv, TypeOK
<1>5. pc # "done"
  BY DEF Engines, Nvmrc, Manager, Reading
<1> QED
  BY <1>1, <1>2, <1>3, <1>4, <1>5

LEMMA NextKeepsIInv == IInv /\ [Next]_vars => IInv'
<1> SUFFICES ASSUME IInv, [Next]_vars PROVE IInv'
  OBVIOUS
<1>1. CASE RootFails \/ Open \/ OpenEscapes \/ OpenMissing \/ OpenRefused \/ Translate \/ Reopen
             \/ LstatIsLink \/ ReadFails
  BY <1>1, DialogueKeeps
<1>2. CASE TakenForAbsent
  BY <1>2, TakenForAbsentKeeps
<1>3. CASE Engines \/ Nvmrc \/ Manager
  BY <1>3, DetectorsKeep
<1>4. CASE Edit
  BY <1>4, EditKeeps
<1>5. CASE UNCHANGED vars
  <2>1. UNCHANGED <<entry, ever, edits, read, pc, opened, engines, selector, manager, missing,
                    outcome>>
    BY <1>5 DEF vars, projectVars, declVars
  <2> QED
    BY <2>1 DEF IInv, TypeOK, ProjectInv, SeenInv, Holds, source, OrderInv, Agree,
                EvidenceWasDeclared, DocumentsOf, PresentIsNeverAbsent
<1> QED
  BY <1>1, <1>2, <1>3, <1>4, <1>5 DEF Next, Done

LEMMA InductiveInvariant == Spec => []IInv
<1> QED
  BY InitiallyIInv, NextKeepsIInv, PTL DEF Spec

-----------------------------------------------------------------------------
(* Every variable keeps its type (capture.go, Capture).                     *)
THEOREM TypeCorrect == Spec => []TypeOK
<1>1. IInv => TypeOK
  BY DEF IInv
<1> QED
  BY <1>1, InductiveInvariant, PTL

(* Evidence is never made up or attributed to a file that did not hold it,  *)
(* whatever is swapped during the reads.                                    *)
THEOREM EvidenceDeclared == Spec => []EvidenceWasDeclared
<1>1. IInv => EvidenceWasDeclared
  BY DEF IInv
<1> QED
  BY <1>1, InductiveInvariant, PTL

(* Only what is not there is taken for absent.                              *)
THEOREM NeverAbsent == Spec => []PresentIsNeverAbsent
<1>1. IInv => PresentIsNeverAbsent
  BY DEF IInv
<1> QED
  BY <1>1, InductiveInvariant, PTL

(* What is captured for Node.js is the conjunction of what was declared:    *)
(* .nvmrc names one version, and it is one engines.node admits.             *)
THEOREM Conjunction == Spec => []CaptureIsTheConjunction
<1>1. ASSUME IInv, "good" \in {engines.form, selector.form}
      PROVE  /\ selector.form = "good" => NodeRequirement.admits # {}
             /\ \A v \in Versions :
                  v \in NodeRequirement.admits <=>
                      \A d \in {engines, selector} : d.form = "good" => v \in d.admits
  <2>1. selector.form = "good" => \E v \in Versions : selector.admits = {v}
    BY <1>1 DEF IInv, TypeOK, Exact
  <2>2. CASE selector.form = "good"
    BY <1>1, <2>1, <2>2 DEF IInv, OrderInv, Agree, NodeRequirement
  <2>3. CASE selector.form # "good"
    BY <1>1, <2>3 DEF NodeRequirement
  <2> QED
    BY <2>2, <2>3
<1>2. IInv => CaptureIsTheConjunction
  BY <1>1 DEF CaptureIsTheConjunction
<1> QED
  BY <1>2, InductiveInvariant, PTL
=============================================================================
