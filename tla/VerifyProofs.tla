---------------------------- MODULE VerifyProofs ----------------------------
(* Theorems about module Verify, for every set of names, every womm.yaml,   *)
(* every machine and every number of machine changes; at the end, that it   *)
(* implements the safety part of VerifyContract.                            *)
EXTENDS Verify, TLAPS, SequenceTheorems

(* Compare decides with its own three statuses and its own sentinels.       *)
LEMMA CompareResult ==
    ASSUME NEW r, NEW o
    PROVE  /\ Compare(r, o).status \in {"pass", "fail", "unknown"}
           /\ Compare(r, o).err \in CompareErrors
BY DEF Compare, Verdict, Satisfied, CompareErrors

(* The declared names are names, whatever file was loaded.                  *)
LEMMA DeclaredNames ==
    ASSUME file \in Files
    PROVE  DOMAIN file.requirements \subseteq Names
BY DEF Files

LEMMA SectionErrorsType ==
    ASSUME NEW f \in Files
    PROVE  SectionErrors(f) \in Seq(Errors)
<1>1. Failure("unsupported_section", 0) \in Errors
  BY DEF Failure, Errors, ErrorKinds
<1>2. f.services \in Nat
  BY BoundsAssumption DEF Files
<1>3. [i \in 1..f.services |-> Failure("unsupported_section", 0)] \in Seq(Errors)
  BY <1>1, <1>2
<1>4. (IF f.environment THEN <<Failure("unsupported_section", 0)>> ELSE <<>>) \in Seq(Errors)
  BY <1>1
<1>5. SectionErrors(f) \in Seq(Errors)
  BY <1>3, <1>4, ConcatProperties DEF SectionErrors
<1> QED BY <1>5

LEMMA EntriesOfAppend ==
    ASSUME NEW S, NEW s \in Seq(S), NEW e \in S
    PROVE  Entries(Append(s, e)) = Entries(s) \cup {e}
<1>1. /\ Len(Append(s, e)) = Len(s) + 1
      /\ \A i \in 1..Len(s) : Append(s, e)[i] = s[i]
      /\ Append(s, e)[Len(s) + 1] = e
  BY AppendProperties
<1>2. 1..(Len(s) + 1) = (1..Len(s)) \cup {Len(s) + 1}
  BY LenProperties
<1> QED
  BY <1>1, <1>2 DEF Entries

-----------------------------------------------------------------------------
(* Type correctness.  TypeOK is not inductive: a probe executes the image   *)
(* of cur, so cur must be known to be a supported declared name; and the    *)
(* matches may only grow while no report of them is shown.                  *)

InspectPcs == {"resolve", "start", "running", "classify", "judge"}

CurrentIsTaken ==
    pc \in InspectPcs => cur \in (DOMAIN file.requirements \cap Supported) \ todo

NothingShownYet == pc # "exited" => shown = NotShown

\* A probe runs what a directory of the search holds.
SearchInv == pc \in {"start", "running", "classify"} => dir \in Dirs

TypeInv == TypeOK /\ CurrentIsTaken /\ NothingShownYet /\ SearchInv

\* A set grows in a table of sets.
LEMMA TableGrows ==
    ASSUME NEW S, NEW D, NEW T, NEW f \in [S -> [D -> SUBSET T]],
           NEW n \in S, NEW d \in D, NEW x \in T, NEW g,
           g = [f EXCEPT ![n][d] = @ \cup {x}]
    PROVE  /\ g \in [S -> [D -> SUBSET T]]
           /\ \A m \in S, e \in D : f[m][e] \subseteq g[m][e]
<1> DEFINE cell == f[n][d] \cup {x}
           row  == [f[n] EXCEPT ![d] = cell]
<1>1. f[n] \in [D -> SUBSET T]
  OBVIOUS
<1>2. cell \in SUBSET T /\ f[n][d] \subseteq cell
  BY <1>1
<1>3. g = [f EXCEPT ![n] = row]
  OBVIOUS
<1> HIDE DEF cell
<1>4. row \in [D -> SUBSET T] /\ row[d] = cell /\ \A e \in D : e # d => row[e] = f[n][e]
  BY <1>1, <1>2
<1> HIDE DEF row
<1>5. g \in [S -> [D -> SUBSET T]] /\ g[n] = row /\ \A m \in S : m # n => g[m] = f[m]
  BY <1>3, <1>4
<1> QED
  BY <1>2, <1>4, <1>5

LEMMA TypeInitially == Init => TypeInv
<1> SUFFICES ASSUME Init PROVE TypeInv
  OBVIOUS
<1>1. seen \in [Supported -> [Dirs -> SUBSET ToolState]]
  BY DEF Init
<1>2. child \in ToolState
  BY DEF Init, ToolState
<1>3. CurrentIsTaken
  BY DEF Init, CurrentIsTaken, InspectPcs
<1>4. NothingShownYet /\ SearchInv
  BY DEF Init, NothingShownYet, SearchInv
<1>5. dir \in 1..(PathLength + 1)
  BY PathAssumption DEF Init
<1> QED
  BY <1>1, <1>2, <1>3, <1>4, <1>5, BoundsAssumption
     DEF Init, TypeInv, TypeOK, Nobody, ObservationType, NotShown, ExitPass, ExitFail, ExitUsage,
         ExitInconclusive, Running

LEMMA TypeStep == TypeInv /\ [Next]_vars => TypeInv'
<1> SUFFICES ASSUME TypeInv, [Next]_vars PROVE TypeInv'
  OBVIOUS
<1> USE DEF TypeInv, TypeOK, CurrentIsTaken, NothingShownYet, SearchInv, InspectPcs
<1>declared. DOMAIN file.requirements \subseteq Names
  BY DeclaredNames
<1>1. CASE UsageError
  <2>1. exit' = ExitUsage /\ pc' = "exited" /\ shown' = shown
    BY <1>1 DEF UsageError, ExitWith
  <2>2. exit' \in {ExitPass, ExitFail, ExitUsage, ExitInconclusive, Running}
    BY <2>1
  <2> QED
    BY <1>1, <2>1, <2>2 DEF UsageError, ExitWith, machineVars, inspectVars, resultVars
<1>2. CASE LoadFails
  BY <1>2 DEF LoadFails, ExitWith, machineVars, inspectVars, resultVars
<1>3. CASE LoadSucceeds
  BY <1>3 DEF LoadSucceeds, machineVars, inspectVars, resultVars, endVars
<1>4. CASE Begin
  <2>1. errors' \in Seq(Errors)
    BY <1>4, SectionErrorsType DEF Begin
  <2> QED
    BY <1>4, <2>1 DEF Begin, machineVars, inspectVars, resultVars, endVars
<1>5. CASE SkipCancelled
  BY <1>5, <1>declared
     DEF SkipCancelled, Taken, IsNext, Failure, Errors, ErrorKinds, machineVars, inspectVars, endVars
<1>6. CASE SkipUnsupported
  BY <1>6, <1>declared
     DEF SkipUnsupported, Taken, IsNext, Failure, Errors, ErrorKinds, machineVars, inspectVars, endVars
<1>7. CASE BeginInspect
  BY <1>7, <1>declared, PathAssumption
     DEF BeginInspect, Taken, IsNext, machineVars, resultVars, endVars
<1>8. CASE VerifyReturns
  BY <1>8 DEF VerifyReturns, machineVars, inspectVars, resultVars, endVars
<1>9. CASE ResolveNotFound
  BY <1>9 DEF ResolveNotFound, Returns, Observed, ObservationType, machineVars, resultVars, endVars
<1>skips. CASE ResolveSkips
  <2>1. dir' \in 1..(PathLength + 1)
    BY <1>skips, PathAssumption DEF ResolveSkips, Dirs
  <2> QED
    BY <1>skips, <2>1 DEF ResolveSkips, machineVars, resultVars, endVars
<1>10. CASE ResolveFound
  BY <1>10 DEF ResolveFound, machineVars, resultVars, endVars
<1>11. CASE StartFails
  BY <1>11 DEF StartFails, machineVars, inspectVars, resultVars, endVars
<1>12. CASE StartSucceeds
  <2>1. cur \in Supported /\ dir \in Dirs
    BY <1>12 DEF StartSucceeds, SearchInv
  <2>2. machine[cur][dir] \in ToolState
    BY <2>1
  <2> QED
    BY <1>12, <2>2 DEF StartSucceeds, machineVars, resultVars, endVars
<1>13. CASE ProbeAnswers
  <2>1. child.version \in Printable
    BY <1>13 DEF ProbeAnswers, Prints, ToolState
  <2> QED
    BY <1>13, <2>1 DEF ProbeAnswers, Returns, Observed, ObservationType, machineVars, resultVars, endVars
<1>14. CASE ProbeFails
  BY <1>14 DEF ProbeFails, machineVars, inspectVars, resultVars, endVars
<1>15. CASE Classify
  BY <1>15 DEF Classify, Returns, Observed, ObservationType, machineVars, resultVars, endVars
<1>16. CASE JudgeCancelled
  BY <1>16 DEF JudgeCancelled, Failure, Errors, ErrorKinds, machineVars, inspectVars, endVars
<1>17. CASE JudgeFailed
  <2>1. Match(cur, obs, "unreachable") \in Matches
    BY <1>17, <1>declared DEF JudgeFailed, Match, Matches, Statuses
  <2>2. Failure("inspection_failed", cur) \in Errors
    BY DEF Failure, Errors, ErrorKinds
  <2>3. matches' \in Seq(Matches) /\ errors' \in Seq(Errors)
    <3>1. CASE Partial
      BY <1>17, <2>1, <3>1 DEF JudgeFailed
    <3>2. CASE ~Partial
      <4>1. errors' = Append(errors, Failure("inspection_failed", cur)) /\ matches' = matches
        BY <1>17, <3>2 DEF JudgeFailed
      <4>2. errors \in Seq(Errors) /\ matches \in Seq(Matches)
        OBVIOUS
      <4> HIDE DEF TypeInv, TypeOK
      <4> QED
        BY <2>2, <4>1, <4>2
    <3> QED
      BY <3>1, <3>2
  <2> QED
    BY <1>17, <2>3 DEF JudgeFailed, machineVars, inspectVars, endVars
<1>18. CASE JudgeCompared
  <2> DEFINE v == Compare(Requirement(cur), obs)
  <2>1. v.status \in Statuses /\ v.err \in ErrorKinds
    BY CompareResult DEF Statuses, ErrorKinds
  <2> HIDE DEF v
  <2>2. matches' = Append(matches, Match(cur, obs, v.status))
    BY <1>18 DEF JudgeCompared, v
  <2>3. errors' = errors \/ errors' = Append(errors, Failure(v.err, cur))
    BY <1>18 DEF JudgeCompared, v
  <2>4. Match(cur, obs, v.status) \in Matches
    BY <1>18, <1>declared, <2>1 DEF JudgeCompared, Match, Matches
  <2>5. Failure(v.err, cur) \in Errors
    BY <2>1 DEF Failure, Errors
  <2>6. matches' \in Seq(Matches) /\ errors' \in Seq(Errors)
    <3>1. matches' \in Seq(Matches)
      BY <2>2, <2>4
    <3>2. CASE errors' = errors
      BY <3>1, <3>2
    <3>3. CASE errors' = Append(errors, Failure(v.err, cur))
      <4>1. Append(errors, Failure(v.err, cur)) \in Seq(Errors)
        BY <2>5
      <4> QED
        BY <3>1, <3>3, <4>1
    <3> QED
      BY <2>3, <3>2, <3>3
  <2> QED
    BY <1>18, <2>6 DEF JudgeCompared, machineVars, inspectVars, endVars
<1>19. CASE NoReport
  BY <1>19 DEF NoReport, ExitWith, machineVars, inspectVars, resultVars
<1>20. CASE Report
  BY <1>20 DEF Report, ExitWith, ExitCode, machineVars, inspectVars, resultVars
<1>21. CASE ReportFails
  BY <1>21 DEF ReportFails, ExitWith, machineVars, inspectVars, resultVars
<1>22. CASE ProbeTimeout
  BY <1>22 DEF ProbeTimeout, machineVars, resultVars, endVars
<1>23. CASE Cancel
  BY <1>23 DEF Cancel, CancelProbe, machineVars, resultVars, endVars
<1>24. CASE MachineChanges
  <2>1. PICK n \in Supported, d \in Dirs, tool \in ToolState :
             /\ machine' = [machine EXCEPT ![n][d] = tool]
             /\ seen' = [seen EXCEPT ![n][d] = @ \cup {tool}]
    BY <1>24 DEF MachineChanges
  <2>2. machine' \in [Supported -> [Dirs -> ToolState]]
    BY <2>1
  <2>3. seen' \in [Supported -> [Dirs -> SUBSET ToolState]]
    BY <2>1, TableGrows
  <2>4. changes' \in 0..MaxMachineChanges
    BY <1>24, BoundsAssumption DEF MachineChanges
  <2> QED
    BY <1>24, <2>2, <2>3, <2>4 DEF MachineChanges, inspectVars, resultVars, endVars
<1>25. CASE UNCHANGED vars
  BY <1>25 DEF vars, machineVars, inspectVars, resultVars, endVars
<1> QED
  BY <1>1, <1>2, <1>3, <1>4, <1>5, <1>6, <1>7, <1>8, <1>9, <1>10, <1>11, <1>12,
     <1>13, <1>14, <1>15, <1>16, <1>17, <1>18, <1>19, <1>20, <1>21, <1>22, <1>23,
     <1>24, <1>25, <1>skips
     DEF Next, Goroutine, Loading, Loop, Inspect, Judge, Finish, Exited

(* Every state of every run is well typed.                                  *)
THEOREM TypeCorrect == Spec => []TypeOK
<1>1. TypeInv => TypeOK
  BY DEF TypeInv
<1> QED
  BY <1>1, TypeInitially, TypeStep, PTL DEF Spec

-----------------------------------------------------------------------------
(* Bookkeeping: every requirement the loop has taken, but for the one under *)
(* inspection, has left a match or an error; no name has two matches; and a *)
(* shown report had nothing left to inspect and no cancellation behind it.  *)

Matched(n) == \E i \in 1..Len(matches) : matches[i].name = n

Refused(n) == n \notin Supported /\ Failure("unsupported_requirement", n) \in Entries(errors)

Interrupted(n) == Failure("cancelled", n) \in Entries(errors)

Accounted(n) == Matched(n) \/ Refused(n) \/ Interrupted(n)

UnderInspection(n) == pc \in InspectPcs /\ n = cur

NothingYet == pc \in {"load", "begin"} => matches = <<>> /\ errors = <<>>

TakenAreAccounted ==
    pc \in InspectPcs \cup {"next", "report"} =>
        \A n \in DOMAIN file.requirements \ todo : UnderInspection(n) \/ Accounted(n)

MatchesAreTaken ==
    \A i \in 1..Len(matches) :
        /\ matches[i].name \in (DOMAIN file.requirements \cap Supported) \ todo
        /\ ~UnderInspection(matches[i].name)

MatchesAreUnique ==
    \A i, j \in 1..Len(matches) : matches[i].name = matches[j].name => i = j

FailedIsPartial == pc = "judge" /\ ierr # "none" => Partial

LoopIsOver ==
    /\ pc = "report" => todo = {}
    /\ shown.report =>
         /\ ~Cancelled(errors)
         /\ \A n \in DOMAIN file.requirements : Accounted(n)

Bookkeeping ==
    /\ NothingYet
    /\ TakenAreAccounted
    /\ MatchesAreTaken
    /\ MatchesAreUnique
    /\ FailedIsPartial
    /\ LoopIsOver

LEMMA BookkeepingInitially == Init => Bookkeeping
BY DEF Init, Bookkeeping, NothingYet, TakenAreAccounted, MatchesAreTaken, MatchesAreUnique,
       FailedIsPartial, LoopIsOver, InspectPcs, NotShown

(* Steps that touch neither the results, nor the report, nor the loop.      *)
LEMMA BookkeepingUnchanged ==
    ASSUME Bookkeeping,
           UNCHANGED <<file, todo, matches, errors, shown>>,
           cur' = cur,
           pc' = pc \/ (pc \in InspectPcs /\ pc' \in InspectPcs),
           (pc' = "judge" /\ ierr' # "none") => Partial'
    PROVE  Bookkeeping'
<1> USE DEF Bookkeeping, InspectPcs
<1>1. NothingYet'
  BY DEF NothingYet
<1>2. TakenAreAccounted'
  BY DEF TakenAreAccounted, UnderInspection, Accounted, Matched, Refused, Interrupted
<1>3. MatchesAreTaken'
  BY DEF MatchesAreTaken, UnderInspection
<1>4. MatchesAreUnique'
  BY DEF MatchesAreUnique
<1>5. FailedIsPartial'
  BY DEF FailedIsPartial
<1>6. LoopIsOver'
  BY DEF LoopIsOver, Accounted, Matched, Refused, Interrupted
<1> QED
  BY <1>1, <1>2, <1>3, <1>4, <1>5, <1>6

(* Results only grow: what is accounted for stays so.                       *)
LEMMA AccountedStays ==
    ASSUME TypeOK,
           errors' = errors \/ \E e \in Errors : errors' = Append(errors, e),
           matches' = matches \/ \E m \in Matches : matches' = Append(matches, m),
           NEW n, Accounted(n)
    PROVE  Accounted(n)'
<1>1. Entries(errors) \subseteq Entries(errors')
  <2>1. ASSUME NEW e \in Errors, errors' = Append(errors, e)
        PROVE  Entries(errors') = Entries(errors) \cup {e}
    <3>1. errors \in Seq(Errors)
      BY DEF TypeOK
    <3>2. Entries(Append(errors, e)) = Entries(errors) \cup {e}
      BY <3>1, EntriesOfAppend
    <3> QED
      BY <2>1, <3>2 DEF Entries
  <2>2. errors' = errors => Entries(errors') = Entries(errors)
    BY DEF Entries
  <2> QED
    BY <2>1, <2>2
<1>2. Matched(n) => Matched(n)'
  <2>1. matches \in Seq(Matches)
    BY DEF TypeOK
  <2> QED
    BY <2>1, AppendProperties, LenProperties DEF Matched
<1> QED
  BY <1>1, <1>2 DEF Accounted, Refused, Interrupted

(* A requirement that is skipped leaves an error of its own.                *)
LEMMA SkipBookkeeping ==
    ASSUME TypeInv, Bookkeeping,
           NEW n \in todo, NEW e \in Errors,
           pc = "next", UNCHANGED <<pc, file, matches, shown>>,
           Taken(n), errors' = Append(errors, e),
           \/ e = Failure("cancelled", n)
           \/ e = Failure("unsupported_requirement", n) /\ n \notin Supported
    PROVE  Bookkeeping'
<1>1. errors' # <<>> /\ Entries(errors') = Entries(errors) \cup {e}
  BY EntriesOfAppend, AppendProperties DEF TypeInv, TypeOK
<1>2. Accounted(n)'
  BY <1>1 DEF Accounted, Refused, Interrupted
<1>3. \A m : Accounted(m) => Accounted(m)'
  BY AccountedStays DEF TypeInv
<1>4. NothingYet'
  BY DEF NothingYet
<1>5. TakenAreAccounted'
  BY <1>2, <1>3 DEF Bookkeeping, TakenAreAccounted, UnderInspection, InspectPcs, Taken
<1>6. MatchesAreTaken'
  BY DEF Bookkeeping, MatchesAreTaken, UnderInspection, InspectPcs, Taken
<1>7. MatchesAreUnique'
  BY DEF Bookkeeping, MatchesAreUnique
<1>8. FailedIsPartial'
  BY DEF FailedIsPartial
<1>9. LoopIsOver'
  BY DEF TypeInv, NothingShownYet, LoopIsOver, NotShown
<1> QED
  BY <1>4, <1>5, <1>6, <1>7, <1>8, <1>9 DEF Bookkeeping

(* The requirement under inspection leaves a match, or a cancellation.      *)
LEMMA JudgeBookkeeping ==
    ASSUME TypeInv, Bookkeeping,
           pc = "judge", pc' = "next", UNCHANGED <<file, todo, cur, shown>>,
           \/ /\ matches' = matches
              /\ errors' = Append(errors, Failure("cancelled", cur))
           \/ /\ \E m \in Matches : m.name = cur /\ matches' = Append(matches, m)
              /\ errors' = errors \/ \E e \in Errors : errors' = Append(errors, e)
    PROVE  Bookkeeping'
<1>1. Failure("cancelled", cur) \in Errors
  BY DEF TypeInv, TypeOK, Failure, Errors, ErrorKinds
<1>2. Accounted(cur)'
  <2>1. CASE errors' = Append(errors, Failure("cancelled", cur)) /\ matches' = matches
    BY <1>1, <2>1, EntriesOfAppend DEF TypeInv, TypeOK, Accounted, Interrupted
  <2>2. CASE \E m \in Matches : m.name = cur /\ matches' = Append(matches, m)
    BY <2>2, AppendProperties, LenProperties DEF TypeInv, TypeOK, Accounted, Matched
  <2> QED
    BY <2>1, <2>2
<1>3. \A m : Accounted(m) => Accounted(m)'
  BY <1>1, AccountedStays DEF TypeInv
<1>4. NothingYet'
  BY DEF NothingYet
<1>5. TakenAreAccounted'
  BY <1>2, <1>3 DEF Bookkeeping, TakenAreAccounted, UnderInspection, InspectPcs
<1>6. MatchesAreTaken' /\ MatchesAreUnique'
  <2>1. \A i \in 1..Len(matches) : matches[i].name # cur
    BY DEF Bookkeeping, MatchesAreTaken, UnderInspection, InspectPcs
  <2>2. cur \in (DOMAIN file.requirements \cap Supported) \ todo
    BY DEF TypeInv, CurrentIsTaken, InspectPcs
  <2>3. CASE matches' = matches
    BY <2>1, <2>3 DEF Bookkeeping, MatchesAreTaken, MatchesAreUnique, UnderInspection, InspectPcs
  <2>4. CASE \E m \in Matches : m.name = cur /\ matches' = Append(matches, m)
    <3> PICK m \in Matches : m.name = cur /\ matches' = Append(matches, m)
      BY <2>4
    <3>1. /\ Len(matches') = Len(matches) + 1
          /\ \A i \in 1..Len(matches) : matches'[i] = matches[i]
          /\ matches'[Len(matches) + 1].name = cur
          /\ Len(matches) \in Nat
      BY AppendProperties, LenProperties DEF TypeInv, TypeOK
    <3>2. MatchesAreTaken'
      BY <2>2, <3>1 DEF Bookkeeping, MatchesAreTaken, UnderInspection, InspectPcs
    <3>3. MatchesAreUnique'
      BY <2>1, <3>1 DEF Bookkeeping, MatchesAreUnique
    <3> QED
      BY <3>2, <3>3
  <2> QED
    BY <2>3, <2>4
<1>7. FailedIsPartial'
  BY DEF FailedIsPartial
<1>8. LoopIsOver'
  BY DEF TypeInv, NothingShownYet, LoopIsOver, NotShown
<1> QED
  BY <1>4, <1>5, <1>6, <1>7, <1>8 DEF Bookkeeping

(* A run that ends without a report leaves its results alone.               *)
LEMMA SilentExitBookkeeping ==
    ASSUME TypeInv, Bookkeeping, pc # "exited", pc' = "exited",
           UNCHANGED <<file, todo, cur, matches, errors, shown>>
    PROVE  Bookkeeping'
<1>1. ~shown'.report
  BY DEF TypeInv, NothingShownYet, NotShown
<1> QED
  BY <1>1 DEF Bookkeeping, NothingYet, TakenAreAccounted, MatchesAreTaken, MatchesAreUnique,
              FailedIsPartial, LoopIsOver, UnderInspection, InspectPcs

LEMMA BookkeepingStep == TypeInv /\ Bookkeeping /\ [Next]_vars => Bookkeeping'
<1> SUFFICES ASSUME TypeInv, Bookkeeping, [Next]_vars PROVE Bookkeeping'
  OBVIOUS
<1>1. CASE UsageError \/ LoadFails \/ NoReport \/ ReportFails
  BY <1>1, SilentExitBookkeeping
     DEF UsageError, LoadFails, NoReport, ReportFails, ExitWith, inspectVars, resultVars
<1>2. CASE LoadSucceeds
  BY <1>2 DEF LoadSucceeds, Bookkeeping, NothingYet, TakenAreAccounted, MatchesAreTaken,
              MatchesAreUnique, FailedIsPartial, LoopIsOver, UnderInspection, InspectPcs,
              Accounted, Matched, Refused, Interrupted, inspectVars, resultVars, endVars
<1>3. CASE Begin
  <2>1. matches' = <<>> /\ pc' = "next" /\ DOMAIN file'.requirements = todo'
    BY <1>3 DEF Begin, Bookkeeping, NothingYet
  <2>2. ~shown'.report
    BY <1>3 DEF Begin, TypeInv, NothingShownYet, NotShown, endVars
  <2> QED
    BY <2>1, <2>2 DEF Bookkeeping, NothingYet, TakenAreAccounted, MatchesAreTaken,
                      MatchesAreUnique, FailedIsPartial, LoopIsOver
<1>4. CASE SkipCancelled
  <2> PICK n \in todo : Taken(n) /\ errors' = Append(errors, Failure("cancelled", n))
    BY <1>4 DEF SkipCancelled
  <2>1. Failure("cancelled", n) \in Errors
    BY DeclaredNames DEF TypeInv, TypeOK, Failure, Errors, ErrorKinds
  <2> QED
    BY <1>4, <2>1, SkipBookkeeping DEF SkipCancelled, endVars
<1>5. CASE SkipUnsupported
  <2> PICK n \in todo \ Supported :
         Taken(n) /\ errors' = Append(errors, Failure("unsupported_requirement", n))
    BY <1>5 DEF SkipUnsupported
  <2>1. Failure("unsupported_requirement", n) \in Errors
    BY DeclaredNames DEF TypeInv, TypeOK, Failure, Errors, ErrorKinds
  <2> QED
    BY <1>5, <2>1, SkipBookkeeping DEF SkipUnsupported, endVars
<1>6. CASE BeginInspect
  <2>1. cur' \in todo /\ todo' = todo \ {cur'} /\ pc = "next" /\ pc' = "resolve"
    BY <1>6 DEF BeginInspect, Taken
  <2>2. UNCHANGED <<file, matches, errors, shown>>
    BY <1>6 DEF BeginInspect, resultVars, endVars
  <2>3. TakenAreAccounted'
    BY <2>1, <2>2 DEF Bookkeeping, TakenAreAccounted, UnderInspection, Accounted, Matched,
                      Refused, Interrupted, InspectPcs
  <2>4. MatchesAreTaken' /\ MatchesAreUnique'
    BY <2>1, <2>2 DEF Bookkeeping, MatchesAreTaken, MatchesAreUnique, UnderInspection
  <2>5. NothingYet' /\ FailedIsPartial'
    BY <2>1 DEF NothingYet, FailedIsPartial
  <2>6. LoopIsOver'
    BY <2>1, <2>2 DEF TypeInv, NothingShownYet, LoopIsOver, NotShown
  <2> QED
    BY <2>3, <2>4, <2>5, <2>6 DEF Bookkeeping
<1>7. CASE VerifyReturns
  BY <1>7 DEF VerifyReturns, TypeInv, NothingShownYet, NotShown, Bookkeeping, NothingYet,
              TakenAreAccounted, MatchesAreTaken, MatchesAreUnique, FailedIsPartial,
              LoopIsOver, UnderInspection, Accounted, Matched, Refused, Interrupted,
              InspectPcs, inspectVars, resultVars, endVars
<1>8. CASE ResolveNotFound \/ ProbeAnswers
  BY <1>8, BookkeepingUnchanged
     DEF ResolveNotFound, ProbeAnswers, Returns, InspectPcs, resultVars, endVars
<1>9. CASE ResolveSkips \/ ResolveFound \/ StartFails \/ StartSucceeds \/ ProbeFails
  BY <1>9, BookkeepingUnchanged
     DEF ResolveSkips, ResolveFound, StartFails, StartSucceeds, ProbeFails, InspectPcs, inspectVars,
         resultVars, endVars
<1>10. CASE Classify
  <2>1. Partial'
    BY <1>10 DEF Classify, Returns, Observed, Partial
  <2> QED
    BY <1>10, <2>1, BookkeepingUnchanged DEF Classify, Returns, InspectPcs, resultVars, endVars
<1>11. CASE JudgeCancelled
  BY <1>11, JudgeBookkeeping DEF JudgeCancelled, inspectVars, endVars
<1>12. CASE JudgeFailed
  <2>1. Partial
    BY <1>12 DEF JudgeFailed, Bookkeeping, FailedIsPartial
  <2>2. Match(cur, obs, "unreachable") \in Matches
    BY <1>12, DeclaredNames
       DEF JudgeFailed, Match, Matches, Statuses, TypeInv, TypeOK, CurrentIsTaken, InspectPcs
  <2>3. Match(cur, obs, "unreachable").name = cur
    BY DEF Match
  <2> QED
    BY <1>12, <2>1, <2>2, <2>3, JudgeBookkeeping DEF JudgeFailed, inspectVars, endVars
<1>13. CASE JudgeCompared
  <2> DEFINE v == Compare(Requirement(cur), obs)
  <2>1. v.status \in Statuses /\ v.err \in ErrorKinds
    BY CompareResult DEF Statuses, ErrorKinds
  <2>2. matches' = Append(matches, Match(cur, obs, v.status))
    BY <1>13 DEF JudgeCompared
  <2>3. errors' = errors \/ errors' = Append(errors, Failure(v.err, cur))
    BY <1>13 DEF JudgeCompared
  <2> HIDE DEF v
  <2>4. Match(cur, obs, v.status) \in Matches /\ Match(cur, obs, v.status).name = cur
    BY <1>13, <2>1, DeclaredNames
       DEF JudgeCompared, Match, Matches, TypeInv, TypeOK, CurrentIsTaken, InspectPcs
  <2>5. Failure(v.err, cur) \in Errors
    BY <2>1 DEF Failure, Errors, TypeInv, TypeOK
  <2> QED
    BY <1>13, <2>2, <2>3, <2>4, <2>5, JudgeBookkeeping DEF JudgeCompared, inspectVars, endVars
<1>14. CASE Report
  <2>1. pc = "report" /\ pc' = "exited" /\ ~Cancelled(errors) /\ todo = {}
    BY <1>14 DEF Report, ExitWith, Bookkeeping, LoopIsOver
  <2>2. UNCHANGED <<file, todo, cur, matches, errors>>
    BY <1>14 DEF Report, ExitWith, inspectVars, resultVars
  <2>3. \A n \in DOMAIN file.requirements : Accounted(n)
    BY <2>1 DEF Bookkeeping, TakenAreAccounted, UnderInspection, InspectPcs
  <2>4. LoopIsOver'
    BY <2>1, <2>2, <2>3 DEF LoopIsOver, Cancelled, Entries, Accounted, Matched, Refused, Interrupted
  <2> QED
    BY <2>1, <2>2, <2>4 DEF Bookkeeping, NothingYet, TakenAreAccounted, MatchesAreTaken,
                            MatchesAreUnique, FailedIsPartial, UnderInspection, InspectPcs
<1>15. CASE ProbeTimeout \/ Cancel \/ MachineChanges \/ UNCHANGED vars
  <2>1. UNCHANGED <<pc, file, todo, cur, obs, ierr, matches, errors, shown>>
    BY <1>15 DEF ProbeTimeout, Cancel, MachineChanges, vars, inspectVars, resultVars, endVars
  <2> QED
    BY <2>1, BookkeepingUnchanged DEF Bookkeeping, FailedIsPartial, Partial
<1> QED
  BY <1>1, <1>2, <1>3, <1>4, <1>5, <1>6, <1>7, <1>8, <1>9, <1>10, <1>11, <1>12, <1>13,
     <1>14, <1>15
     DEF Next, Goroutine, Loading, Loop, Inspect, Judge, Finish, Exited

LEMMA BookkeepingComplete == TypeInv /\ Bookkeeping => ReportIsComplete
<1> SUFFICES ASSUME TypeInv, Bookkeeping, shown.report PROVE ReportIsComplete
  BY DEF ReportIsComplete
<1>1. shown.matches = matches
  BY DEF TypeInv, TypeOK, NotShown
<1>2. ASSUME NEW n \in DOMAIN file.requirements
      PROVE  Matched(n) \/ Refused(n)
  <2>1. Accounted(n) /\ ~Cancelled(errors)
    BY DEF Bookkeeping, LoopIsOver
  <2>2. ~Interrupted(n)
    BY <2>1 DEF Interrupted, Cancelled, Failure
  <2> QED
    BY <2>1, <2>2 DEF Accounted
<1>3. \A n : Matched(n) =>
        \E i \in 1..Len(matches) :
          matches[i].name = n /\ \A j \in 1..Len(matches) : matches[j].name = n => j = i
  BY DEF Matched, Bookkeeping, MatchesAreUnique
<1> QED
  BY <1>1, <1>2, <1>3 DEF ReportIsComplete, Refused, Bookkeeping, MatchesAreTaken

(* A report is never partial: cancelled runs have none, and every declared  *)
(* requirement of a shown one has its match, or was refused by name.        *)
THEOREM ReportComplete == Spec => []ReportIsComplete
<1>1. Init => TypeInv /\ Bookkeeping
  BY TypeInitially, BookkeepingInitially
<1>2. TypeInv /\ Bookkeeping /\ [Next]_vars => TypeInv' /\ Bookkeeping'
  BY TypeStep, BookkeepingStep
<1> QED
  BY <1>1, <1>2, BookkeepingComplete, PTL DEF Spec

-----------------------------------------------------------------------------
(* Grounding: what Inspect holds at each point was true of the machine at   *)
(* some moment of the run, and a probe that a signal stopped is known to be *)
(* one until Verify has looked at its context again.                        *)

\* Where an observation without an error may come from.
Answers(tool, o) ==
    Prints(tool) /\ o = [name |-> cur, present |-> TRUE, version |-> tool.version]

Missing(o) == o = [name |-> cur, present |-> FALSE, version |-> NoVersion]

SeenNow == \A n \in Supported, d \in Dirs : machine[n][d] \in seen[n][d]

ProbeContext ==
    /\ probectx = "cancelled" => ctx = "done"
    /\ pc \in {"start", "running", "classify"} => probectx # "none"
    /\ pc = "start" => probectx # "deadline"
    /\ pc = "running" /\ probectx = "deadline" => OutlastsTimer(child)

\* What the search has established of the tool under inspection.
Search == pc \in InspectPcs => Reached(cur, dir)

InFlight ==
    /\ Search
    /\ pc = "start" => \E tool \in seen[cur][dir] : Resolves(tool)
    /\ pc = "running" => child \in seen[cur][dir] /\ Starts(child)
    /\ pc = "classify" => Unaskable(seen[cur][dir]) \/ probectx = "cancelled"
    /\ pc = "judge" /\ ierr # "none" =>
         (dir \in Dirs /\ Unaskable(seen[cur][dir])) \/ ctx = "done"
    /\ pc = "judge" /\ ierr = "none" =>
         \/ Missing(obs) /\ dir = PathLength + 1
         \/ dir \in Dirs /\ \E tool \in seen[cur][dir] : Answers(tool, obs)

Grounding ==
    SeenNow /\ ProbeContext /\ InFlight /\ VerdictsAreGrounded

LEMMA GroundingInitially == Init => Grounding
BY DEF Init, Grounding, SeenNow, ProbeContext, InFlight, Search, InspectPcs, VerdictsAreGrounded,
       Entries

LEMMA UnaskableGrows ==
    ASSUME NEW S, NEW T, S \subseteq T, Unaskable(S)
    PROVE  Unaskable(T)
BY DEF Unaskable

LEMMA ReachedStays ==
    ASSUME NEW n, NEW d, \A e \in Dirs : seen[n][e] \subseteq seen'[n][e], Reached(n, d)
    PROVE  Reached(n, d)'
BY DEF Reached

LEMMA GroundedStays ==
    ASSUME NEW n, NEW status, \A d \in Dirs : seen[n][d] \subseteq seen'[n][d], file' = file,
           Grounded(n, status)
    PROVE  Grounded(n, status)'
<1>1. \A d \in Dirs : Unaskable(seen[n][d]) => Unaskable(seen'[n][d])
  BY UnaskableGrows
<1>2. \A d : Reached(n, d) => Reached(n, d)'
  BY ReachedStays
<1>3. Absence(n)' = Absence(n) /\ \A version : Judged(n, version)' = Judged(n, version)
  BY DEF Absence, Judged, Requirement
<1>4. CASE status = Absence(n) /\ Reached(n, PathLength + 1)
  BY <1>2, <1>3, <1>4 DEF Grounded
<1>5. ASSUME NEW d \in Dirs, Reached(n, d),
             \/ \E tool \in seen[n][d] : Prints(tool) /\ status = Judged(n, tool.version)
             \/ status = "unreachable" /\ Unaskable(seen[n][d])
      PROVE  Grounded(n, status)'
  <2>1. \/ \E tool \in seen'[n][d] : Prints(tool) /\ status = Judged(n, tool.version)'
        \/ status = "unreachable" /\ Unaskable(seen'[n][d])
    BY <1>1, <1>3, <1>5
  <2> QED
    BY <1>2, <1>5, <2>1 DEF Grounded
<1> QED
  BY <1>4, <1>5 DEF Grounded

LEMMA SeenGrows ==
    ASSUME TypeInv, [Next]_vars
    PROVE  \A n \in Supported, d \in Dirs : seen[n][d] \subseteq seen'[n][d]
<1>1. CASE MachineChanges
  <2>1. PICK n \in Supported, d \in Dirs, tool \in ToolState :
             seen' = [seen EXCEPT ![n][d] = @ \cup {tool}]
    BY <1>1 DEF MachineChanges
  <2>2. seen \in [Supported -> [Dirs -> SUBSET ToolState]]
    BY DEF TypeInv, TypeOK
  <2> QED
    BY <2>1, <2>2, TableGrows
<1>2. CASE seen' = seen
  BY <1>2
<1>3. MachineChanges \/ seen' = seen
  BY DEF Next, Goroutine, Loading, Loop, Inspect, Judge, Finish, Exited, vars, machineVars,
         UsageError, LoadFails, ExitWith, LoadSucceeds, Begin, SkipCancelled,
         SkipUnsupported, BeginInspect, VerifyReturns, ResolveSkips, ResolveNotFound, ResolveFound,
         StartFails, StartSucceeds, ProbeAnswers, ProbeFails, Classify, JudgeCancelled,
         JudgeFailed, JudgeCompared, NoReport, Report, ReportFails, ProbeTimeout, Cancel
<1> QED
  BY <1>1, <1>2, <1>3

LEMMA SeenNowStep ==
    ASSUME TypeInv, SeenNow, [Next]_vars
    PROVE  SeenNow'
<1>1. CASE MachineChanges
  BY <1>1 DEF MachineChanges, SeenNow, TypeInv, TypeOK
<1>2. CASE UNCHANGED machineVars
  BY <1>2 DEF SeenNow, machineVars
<1>3. MachineChanges \/ UNCHANGED machineVars
  BY DEF Next, Goroutine, Loading, Loop, Inspect, Judge, Finish, Exited, vars,
         UsageError, LoadFails, ExitWith, LoadSucceeds, Begin, SkipCancelled,
         SkipUnsupported, BeginInspect, VerifyReturns, ResolveSkips, ResolveNotFound, ResolveFound,
         StartFails, StartSucceeds, ProbeAnswers, ProbeFails, Classify, JudgeCancelled,
         JudgeFailed, JudgeCompared, NoReport, Report, ReportFails, ProbeTimeout, Cancel
<1> QED
  BY <1>1, <1>2, <1>3

(* Steps outside an inspection: nothing is in flight after them, and the    *)
(* probe's context is not touched; the first one begins the search.         *)
LEMMA IdleStep ==
    ASSUME TypeInv, Grounding, pc' \notin InspectPcs \ {"resolve"}, probectx' = probectx,
           ctx' = ctx, pc' = "resolve" => dir' = 1
    PROVE  ProbeContext' /\ InFlight'
<1>1. ProbeContext'
  BY DEF Grounding, ProbeContext, InspectPcs
<1>2. pc' = "resolve" => Reached(cur, dir)'
  BY PathAssumption DEF Reached, Dirs
<1> QED
  BY <1>1, <1>2 DEF InFlight, Search, InspectPcs

LEMMA InspectStep ==
    ASSUME TypeInv, Grounding, Inspect
    PROVE  ProbeContext' /\ InFlight'
<1>1. cur \in Supported /\ cur' = cur /\ seen' = seen /\ ctx' = ctx /\ pc \in InspectPcs
  BY DEF TypeInv, CurrentIsTaken, InspectPcs, Inspect, ResolveSkips, ResolveNotFound, ResolveFound,
         StartFails, StartSucceeds, ProbeAnswers, ProbeFails, Classify, machineVars, inspectVars
<1>2. \A d \in Dirs : machine[cur][d] \in seen[cur][d]
  BY <1>1 DEF Grounding, SeenNow
<1>3. Reached(cur, dir)
  BY <1>1 DEF Grounding, InFlight, Search
<1>4. dir' = dir => Search'
  BY <1>1, <1>3 DEF Search, Reached
<1>5. CASE ResolveSkips
  <2>1. /\ dir \in Dirs /\ ~Resolves(machine[cur][dir]) /\ dir' = dir + 1
        /\ pc = "resolve" /\ pc' = pc /\ probectx' = probectx
    BY <1>5 DEF ResolveSkips
  <2>2. \A e \in Dirs : e < dir + 1 => e < dir \/ e = dir
    BY <2>1, PathAssumption DEF Dirs
  <2>3. Reached(cur, dir + 1)
    BY <1>2, <1>3, <2>1, <2>2 DEF Reached
  <2>4. Search'
    BY <1>1, <2>1, <2>3 DEF Search, Reached
  <2> QED
    BY <1>1, <2>1, <2>4 DEF Grounding, ProbeContext, InFlight
<1>6. CASE ResolveNotFound
  <2>1. dir = PathLength + 1 /\ dir' = dir /\ Missing(obs')
    BY <1>6, PathAssumption DEF ResolveNotFound, Returns, Observed, Missing, TypeInv, TypeOK, Dirs
  <2>2. Missing(obs)'
    BY <1>1, <2>1 DEF Missing
  <2> QED
    BY <1>4, <1>6, <2>1, <2>2 DEF ResolveNotFound, Returns, ProbeContext, InFlight
<1>7. CASE ResolveFound
  BY <1>1, <1>2, <1>4, <1>7 DEF ResolveFound, ProbeContext, InFlight
<1>8. CASE StartFails
  <2>1. /\ \E tool \in seen[cur][dir] : Resolves(tool)
        /\ probectx # "deadline" /\ dir \in Dirs /\ dir' = dir
    BY <1>8 DEF StartFails, Grounding, InFlight, ProbeContext, TypeInv, SearchInv, inspectVars
  <2>2. ~Starts(machine[cur][dir]) => Unaskable(seen[cur][dir])
    BY <1>2, <2>1 DEF Unaskable
  <2>3. probectx # "live" => probectx = "cancelled"
    BY <1>8, <2>1 DEF StartFails, Grounding, ProbeContext, TypeInv, TypeOK
  <2>4. Unaskable(seen[cur][dir]) \/ probectx = "cancelled"
    BY <1>8, <2>2, <2>3 DEF StartFails
  <2> QED
    BY <1>1, <1>4, <1>8, <2>1, <2>4 DEF StartFails, Grounding, ProbeContext, InFlight, inspectVars
<1>9. CASE StartSucceeds
  <2>1. dir \in Dirs /\ dir' = dir
    BY <1>9 DEF StartSucceeds, TypeInv, SearchInv
  <2> QED
    BY <1>1, <1>2, <1>4, <1>9, <2>1 DEF StartSucceeds, Grounding, ProbeContext, InFlight
<1>10. CASE ProbeAnswers
  <2>1. /\ child \in seen[cur][dir] /\ Prints(child)
        /\ dir \in Dirs /\ dir' = dir
    BY <1>10 DEF ProbeAnswers, Grounding, InFlight, TypeInv, SearchInv
  <2>2. Answers(child, obs')
    BY <1>10, <2>1 DEF ProbeAnswers, Returns, Observed, Answers
  <2>3. (\E tool \in seen[cur][dir] : Answers(tool, obs))'
    BY <1>1, <2>1, <2>2 DEF Answers
  <2> QED
    BY <1>4, <1>10, <2>1, <2>3 DEF ProbeAnswers, Returns, ProbeContext, InFlight
<1>11. CASE ProbeFails
  <2>1. child \in seen[cur][dir] /\ dir' = dir
    BY <1>11 DEF ProbeFails, Grounding, InFlight, inspectVars
  <2>2. child.kind = "failing" \/ OutlastsTimer(child) => Unaskable(seen[cur][dir])
    BY <2>1 DEF Unaskable
  <2>3. probectx = "deadline" => OutlastsTimer(child)
    BY <1>11 DEF ProbeFails, Grounding, ProbeContext
  <2>4. probectx # "live" => probectx \in {"deadline", "cancelled"}
    BY <1>11 DEF ProbeFails, TypeInv, TypeOK, Grounding, ProbeContext
  <2>5. Unaskable(seen[cur][dir]) \/ probectx = "cancelled"
    BY <1>11, <2>2, <2>3, <2>4 DEF ProbeFails
  <2> QED
    BY <1>1, <1>4, <1>11, <2>1, <2>5 DEF ProbeFails, Grounding, ProbeContext, InFlight, inspectVars
<1>12. CASE Classify
  <2>1. (dir \in Dirs /\ Unaskable(seen[cur][dir])) \/ ctx = "done"
    BY <1>12 DEF Classify, Grounding, ProbeContext, InFlight, TypeInv, SearchInv
  <2>2. ierr' # "none" /\ dir' = dir
    BY <1>12 DEF Classify, Returns
  <2> QED
    BY <1>1, <1>4, <1>12, <2>1, <2>2 DEF Classify, Returns, ProbeContext, InFlight
<1> QED
  BY <1>5, <1>6, <1>7, <1>8, <1>9, <1>10, <1>11, <1>12 DEF Inspect

LEMMA InterferenceStep ==
    ASSUME TypeInv, Grounding, ProbeTimeout \/ Cancel \/ MachineChanges \/ UNCHANGED vars
    PROVE  ProbeContext' /\ InFlight'
<1>1. CASE ProbeTimeout
  BY <1>1 DEF ProbeTimeout, machineVars, Grounding, ProbeContext, InFlight, Search, Reached,
              Answers, Missing
<1>2. CASE Cancel
  BY <1>2 DEF Cancel, CancelProbe, machineVars, Grounding, ProbeContext, InFlight, Search, Reached,
              Answers, Missing
<1>3. CASE MachineChanges
  <2>1. UNCHANGED <<ctx, pc, cur, dir, child, probectx, obs, ierr>>
    BY <1>3 DEF MachineChanges, inspectVars
  <2>2. pc \in InspectPcs => \A d \in Dirs : seen[cur][d] \subseteq seen'[cur][d]
    BY <1>3, SeenGrows DEF Next, TypeInv, CurrentIsTaken
  <2>3. ASSUME pc \in InspectPcs, dir \in Dirs, Unaskable(seen[cur][dir])
        PROVE  Unaskable(seen'[cur][dir])
    BY <2>2, <2>3, UnaskableGrows
  <2>4. \A tool : Answers(tool, obs)' = Answers(tool, obs) /\ Missing(obs)' = Missing(obs)
    BY <2>1 DEF Answers, Missing
  <2>5. Search'
    <3>1. pc \in InspectPcs => Reached(cur, dir)
      BY DEF Grounding, InFlight, Search
    <3> QED
      BY <2>1, <2>2, <3>1 DEF Search, Reached
  <2>6. pc \in {"start", "running", "classify"} => dir \in Dirs
    BY DEF TypeInv, SearchInv
  <2>7. ProbeContext'
    BY <2>1 DEF Grounding, ProbeContext
  <2> QED
    BY <2>1, <2>2, <2>3, <2>4, <2>5, <2>6, <2>7 DEF Grounding, InFlight, InspectPcs
<1>4. CASE UNCHANGED vars
  BY <1>4 DEF vars, machineVars, inspectVars, Grounding, ProbeContext, InFlight, Search, Reached,
              Answers, Missing
<1> QED
  BY <1>1, <1>2, <1>3, <1>4

LEMMA FlightStep ==
    ASSUME TypeInv, Grounding, [Next]_vars
    PROVE  ProbeContext' /\ InFlight'
<1>1. CASE Inspect
  BY <1>1, InspectStep
<1>2. CASE ProbeTimeout \/ Cancel \/ MachineChanges \/ UNCHANGED vars
  BY <1>2, InterferenceStep
<1>3. CASE Loading \/ Loop \/ Judge \/ Finish
  <2>1. /\ pc' \notin InspectPcs \ {"resolve"} /\ probectx' = probectx /\ ctx' = ctx
        /\ pc' = "resolve" => dir' = 1
    BY <1>3 DEF Loading, Loop, Judge, Finish, UsageError, LoadFails, ExitWith, LoadSucceeds,
                Begin, SkipCancelled, SkipUnsupported, BeginInspect, VerifyReturns,
                JudgeCancelled, JudgeFailed, JudgeCompared, NoReport, Report, ReportFails,
                InspectPcs, inspectVars
  <2> QED
    BY <2>1, IdleStep
<1> QED
  BY <1>1, <1>2, <1>3 DEF Next, Goroutine, Exited

(* A new match is a verdict about what Inspect holds.                       *)
LEMMA NewVerdicts ==
    ASSUME TypeInv, Bookkeeping, Grounding, JudgeFailed \/ JudgeCompared
    PROVE  \/ matches' = matches
           \/ \E status \in Statuses :
                /\ matches' = Append(matches, Match(cur, obs, status))
                /\ Match(cur, obs, status) \in Matches
                /\ Grounded(cur, status)
<1>1. Match(cur, obs, "unreachable") \in Matches
  BY DeclaredNames DEF JudgeFailed, JudgeCompared, Match, Matches, Statuses, TypeInv, TypeOK,
                       CurrentIsTaken, InspectPcs
<1>2. CASE JudgeFailed
  <2>1. Grounded(cur, "unreachable")
    BY <1>2 DEF JudgeFailed, WasInterrupted, Grounding, InFlight, Search, InspectPcs, Grounded
  <2> QED
    BY <1>1, <1>2, <2>1 DEF JudgeFailed, Statuses
<1>3. CASE JudgeCompared
  <2> DEFINE v == Compare(Requirement(cur), obs)
  <2>1. v.status \in Statuses
    BY CompareResult DEF Statuses
  <2>2. /\ Reached(cur, dir)
        /\ \/ Missing(obs) /\ dir = PathLength + 1
           \/ dir \in Dirs /\ \E tool \in seen[cur][dir] : Answers(tool, obs)
    BY <1>3 DEF JudgeCompared, Grounding, InFlight, Search, InspectPcs
  <2>3. /\ Missing(obs) => v.status = Absence(cur)
        /\ \A tool : Answers(tool, obs) => Prints(tool) /\ v.status = Judged(cur, tool.version)
    BY DEF Missing, Answers, Absence, Judged
  <2>4. matches' = Append(matches, Match(cur, obs, v.status))
    BY <1>3 DEF JudgeCompared
  <2> HIDE DEF v
  <2>5. Grounded(cur, v.status)
    BY <2>2, <2>3 DEF Grounded
  <2>6. Match(cur, obs, v.status) \in Matches
    BY <1>1, <2>1 DEF Match, Matches
  <2> QED
    BY <2>1, <2>4, <2>5, <2>6
<1> QED
  BY <1>2, <1>3

LEMMA VerdictsStep ==
    ASSUME TypeInv, Bookkeeping, Grounding, [Next]_vars
    PROVE  VerdictsAreGrounded'
<1>1. file' = file
  BY DEF Next, Goroutine, Loading, Loop, Inspect, Judge, Finish, Exited, vars,
         UsageError, LoadFails, ExitWith, LoadSucceeds, Begin, SkipCancelled,
         SkipUnsupported, BeginInspect, VerifyReturns, ResolveSkips, ResolveNotFound, ResolveFound,
         StartFails, StartSucceeds, ProbeAnswers, ProbeFails, Classify, JudgeCancelled,
         JudgeFailed, JudgeCompared, NoReport, Report, ReportFails, ProbeTimeout, Cancel,
         MachineChanges
<1>2. \A m \in Entries(matches) : m.name \in Supported /\ Grounded(m.name, m.status)
  BY DEF Grounding, VerdictsAreGrounded, Bookkeeping, MatchesAreTaken, Entries
<1>3. \A m \in Entries(matches) : Grounded(m.name, m.status)'
  BY <1>1, <1>2, SeenGrows, GroundedStays
<1>4. CASE matches' = matches
  BY <1>3, <1>4 DEF VerdictsAreGrounded, Entries
<1>5. CASE JudgeFailed \/ JudgeCompared
  <2>1. SUFFICES ASSUME NEW status \in Statuses,
                        matches' = Append(matches, Match(cur, obs, status)),
                        Match(cur, obs, status) \in Matches,
                        Grounded(cur, status)
                 PROVE  VerdictsAreGrounded'
    BY <1>4, <1>5, NewVerdicts
  <2>2. Entries(Append(matches, Match(cur, obs, status)))
          = Entries(matches) \cup {Match(cur, obs, status)}
    BY <2>1, EntriesOfAppend DEF TypeInv, TypeOK
  <2>3. seen' = seen
    BY <1>5 DEF JudgeFailed, JudgeCompared, machineVars
  <2>4. Grounded(cur, status)'
    <3>1. cur' = cur
      BY <1>5 DEF JudgeFailed, JudgeCompared, inspectVars
    <3> QED
      BY <1>1, <2>1, <2>3, <3>1, GroundedStays
  <2>5. cur' = cur
    BY <1>5 DEF JudgeFailed, JudgeCompared, inspectVars
  <2>6. ASSUME NEW m \in Entries(matches')
        PROVE  Grounded(m.name, m.status)'
    <3>1. m \in Entries(matches) \/ m = Match(cur, obs, status)
      BY <2>1, <2>2, <2>6 DEF Entries
    <3>2. CASE m = Match(cur, obs, status)
      BY <2>4, <2>5, <3>2 DEF Match
    <3> QED
      BY <1>3, <3>1, <3>2
  <2> QED
    BY <2>6 DEF VerdictsAreGrounded, Entries
<1>6. matches' = matches \/ JudgeFailed \/ JudgeCompared
  <2>1. [Next]_vars => matches' = matches \/ Begin \/ JudgeFailed \/ JudgeCompared
    BY DEF Next, Goroutine, Loading, Loop, Inspect, Judge, Finish, Exited, vars, resultVars,
           UsageError, LoadFails, ExitWith, LoadSucceeds, Begin, SkipCancelled,
           SkipUnsupported, BeginInspect, VerifyReturns, ResolveSkips, ResolveNotFound, ResolveFound,
           StartFails, StartSucceeds, ProbeAnswers, ProbeFails, Classify, JudgeCancelled,
           NoReport, Report, ReportFails, ProbeTimeout, Cancel, MachineChanges
  <2> QED
    BY <2>1 DEF Begin
<1> QED
  BY <1>4, <1>5, <1>6

LEMMA GroundingStep == TypeInv /\ Bookkeeping /\ Grounding /\ [Next]_vars => Grounding'
<1> SUFFICES ASSUME TypeInv, Bookkeeping, Grounding, [Next]_vars PROVE Grounding'
  OBVIOUS
<1>1. SeenNow'
  BY SeenNowStep DEF Grounding
<1> QED
  BY <1>1, FlightStep, VerdictsStep DEF Grounding

-----------------------------------------------------------------------------
(* The exit code: a section nobody verifies has left an error by the time   *)
(* the loop runs, and a code of 0 or 1 comes from a complete result.        *)

Unverifiable == file.services > 0 \/ file.environment

Conclusive ==
    /\ ~Unverifiable
    /\ errors = <<>>
    /\ \A n \in DOMAIN file.requirements : Accounted(n)
    /\ exit = ExitCode(matches, errors)

ExitInv ==
    /\ pc \in InspectPcs \cup {"next", "report"} /\ Unverifiable => errors # <<>>
    /\ pc # "exited" => exit = Running
    /\ exit \in {ExitPass, ExitFail} => Conclusive

LEMMA ExitInitially == Init => ExitInv
BY DEF Init, ExitInv, InspectPcs, Running, ExitPass, ExitFail

LEMMA SectionErrorsAreErrors ==
    ASSUME NEW f \in Files, f.services > 0 \/ f.environment
    PROVE  SectionErrors(f) # <<>>
<1> DEFINE services == [i \in 1..f.services |-> Failure("unsupported_section", 0)]
<1> DEFINE environment ==
      IF f.environment THEN <<Failure("unsupported_section", 0)>> ELSE <<>>
<1>1. f.services \in Nat /\ Failure("unsupported_section", 0) \in Errors
  BY BoundsAssumption DEF Files, Failure, Errors, ErrorKinds
<1>2. services \in Seq(Errors) /\ Len(services) = f.services
  BY <1>1
<1>3. /\ environment \in Seq(Errors)
      /\ Len(environment) = IF f.environment THEN 1 ELSE 0
  BY <1>1
<1> HIDE DEF services, environment
<1>4. Len(services \o environment) = Len(services) + Len(environment)
  <2>1. \A s, t \in Seq(Errors) : Len(s \o t) = Len(s) + Len(t)
    OBVIOUS
  <2> QED
    BY <1>2, <1>3, <2>1
<1>5. Len(services \o environment) > 0
  BY <1>1, <1>2, <1>3, <1>4
<1>6. SectionErrors(f) = services \o environment
  BY DEF SectionErrors, services, environment
<1> QED
  BY <1>5, <1>6

LEMMA ExitStep == TypeInv /\ Bookkeeping /\ ExitInv /\ [Next]_vars => ExitInv'
<1> SUFFICES ASSUME TypeInv, Bookkeeping, ExitInv, [Next]_vars PROVE ExitInv'
  OBVIOUS
<1>file. file' = file
  BY DEF Next, Goroutine, Loading, Loop, Inspect, Judge, Finish, Exited, vars,
         UsageError, LoadFails, ExitWith, LoadSucceeds, Begin, SkipCancelled,
         SkipUnsupported, BeginInspect, VerifyReturns, ResolveSkips, ResolveNotFound, ResolveFound,
         StartFails, StartSucceeds, ProbeAnswers, ProbeFails, Classify, JudgeCancelled,
         JudgeFailed, JudgeCompared, NoReport, Report, ReportFails, ProbeTimeout, Cancel,
         MachineChanges
<1>1. CASE UsageError \/ LoadFails \/ NoReport \/ ReportFails
  <2>1. pc' = "exited" /\ exit' \in {ExitUsage, ExitInconclusive}
    BY <1>1 DEF UsageError, LoadFails, NoReport, ReportFails, ExitWith
  <2>2. exit' \notin {ExitPass, ExitFail}
    BY <2>1 DEF ExitUsage, ExitInconclusive, ExitPass, ExitFail
  <2> QED
    BY <2>1, <2>2 DEF ExitInv, InspectPcs
<1>2. CASE LoadSucceeds
  BY <1>2 DEF LoadSucceeds, endVars, ExitInv, InspectPcs, Running, ExitPass, ExitFail
<1>3. CASE Begin
  <2>1. Unverifiable => errors' # <<>>
    BY <1>3, SectionErrorsAreErrors DEF Begin, Unverifiable, TypeInv, TypeOK
  <2> QED
    BY <1>file, <1>3, <2>1 DEF Begin, endVars, ExitInv, Unverifiable, Running, ExitPass, ExitFail
<1>4. CASE (Loop /\ ~Begin) \/ Inspect \/ Judge
  <2>1. pc \in InspectPcs \cup {"next"} /\ pc' # "exited" /\ exit' = exit
    <3>1. CASE SkipCancelled \/ SkipUnsupported \/ BeginInspect \/ VerifyReturns
      BY <3>1 DEF SkipCancelled, SkipUnsupported, BeginInspect, VerifyReturns, endVars
    <3>2. CASE Inspect
      BY <3>2 DEF Inspect, ResolveSkips, ResolveNotFound, ResolveFound, StartFails, StartSucceeds,
                  ProbeAnswers, ProbeFails, Classify, Returns, endVars, InspectPcs
    <3>3. CASE Judge
      BY <3>3 DEF Judge, JudgeCancelled, JudgeFailed, JudgeCompared, endVars, InspectPcs
    <3> QED
      BY <1>4, <3>1, <3>2, <3>3 DEF Loop
  <2>2. errors' = errors \/ \E k, n : errors' = Append(errors, Failure(k, n))
    <3>1. CASE SkipCancelled \/ SkipUnsupported \/ JudgeCancelled \/ JudgeFailed
      BY <3>1 DEF SkipCancelled, SkipUnsupported, JudgeCancelled, JudgeFailed
    <3>2. CASE JudgeCompared
      BY <3>2 DEF JudgeCompared
    <3>3. CASE BeginInspect \/ VerifyReturns \/ Inspect
      BY <3>3 DEF BeginInspect, VerifyReturns, Inspect, ResolveSkips, ResolveNotFound, ResolveFound,
                  StartFails, StartSucceeds, ProbeAnswers, ProbeFails, Classify, resultVars
    <3> QED
      BY <1>4, <3>1, <3>2, <3>3 DEF Loop, Judge
  <2>3. errors # <<>> => errors' # <<>>
    BY <2>2 DEF TypeInv, TypeOK
  <2> QED
    BY <1>file, <2>1, <2>3 DEF ExitInv, Unverifiable, InspectPcs, Running, ExitPass, ExitFail
<1>5. CASE Report
  <2>1. pc' = "exited" /\ exit' = ExitCode(matches, errors)
        /\ UNCHANGED <<matches, errors>>
    BY <1>5 DEF Report, ExitWith, resultVars
  <2>2. \A n \in DOMAIN file.requirements : Accounted(n)
    BY <1>5 DEF Report, Bookkeeping, TakenAreAccounted, LoopIsOver, UnderInspection, InspectPcs
  <2>3. exit' \in {ExitPass, ExitFail} => errors = <<>>
    BY <2>1 DEF ExitCode, ExitPass, ExitFail, ExitInconclusive
  <2>4. exit' \in {ExitPass, ExitFail} => ~Unverifiable
    BY <1>5, <2>3 DEF Report, ExitInv
  <2>5. Unverifiable' = Unverifiable /\ \A n : Accounted(n)' = Accounted(n)
    BY <1>file, <2>1 DEF Unverifiable, Accounted, Matched, Refused, Interrupted, Entries
  <2>6. ExitCode(matches, errors)' = ExitCode(matches, errors)
    BY <2>1 DEF ExitCode, Entries
  <2> QED
    BY <1>file, <2>1, <2>2, <2>3, <2>4, <2>5, <2>6 DEF ExitInv, Conclusive, InspectPcs
<1>6. CASE ProbeTimeout \/ Cancel \/ MachineChanges \/ UNCHANGED vars
  <2>1. UNCHANGED <<pc, file, matches, errors, exit>>
    BY <1>6 DEF ProbeTimeout, Cancel, MachineChanges, vars, resultVars, endVars
  <2> QED
    BY <2>1 DEF ExitInv, Conclusive, Unverifiable, Accounted, Matched, Refused, Interrupted,
                Entries, ExitCode
<1> QED
  BY <1>1, <1>2, <1>3, <1>4, <1>5, <1>6 DEF Next, Goroutine, Loading, Finish, Exited

LEMMA HonestFromInvariants ==
    TypeInv /\ Bookkeeping /\ Grounding /\ ExitInv => ExitCodeIsHonest
<1> SUFFICES ASSUME TypeInv, Bookkeeping, Grounding, ExitInv,
                    exit \in {ExitPass, ExitFail}
             PROVE  ExitCodeIsHonest
  BY DEF ExitCodeIsHonest, ExitPass, ExitFail
<1>1. Conclusive
  BY DEF ExitInv
<1>2. file.services = 0 /\ ~file.environment
  BY <1>1, BoundsAssumption DEF Conclusive, Unverifiable, TypeInv, TypeOK, Files
<1>3. Entries(errors) = {}
  BY <1>1 DEF Conclusive, Entries
<1>4. /\ \A m \in Entries(matches) : m.status \in {"pass", "fail"}
      /\ exit = ExitPass => \A m \in Entries(matches) : m.status # "fail"
      /\ exit = ExitFail => \E m \in Entries(matches) : m.status = "fail"
  BY <1>1 DEF Conclusive, ExitCode, ExitPass, ExitFail, ExitInconclusive
<1>5. \A m \in Entries(matches) :
        /\ m.name \in DOMAIN file.requirements \cap Supported
        /\ Grounded(m.name, m.status)
  BY DEF Bookkeeping, MatchesAreTaken, Grounding, VerdictsAreGrounded, Entries
<1>6. ASSUME NEW n \in DOMAIN file.requirements
      PROVE  \E m \in Entries(matches) : m.name = n
  <2>1. Matched(n)
    BY <1>1, <1>3 DEF Conclusive, Accounted, Refused, Interrupted
  <2> QED
    BY <2>1 DEF Matched, Entries
<1> QED
  BY <1>2, <1>4, <1>5, <1>6 DEF ExitCodeIsHonest, ExitPass, ExitFail

-----------------------------------------------------------------------------
IInv == TypeInv /\ Bookkeeping /\ Grounding /\ ExitInv

LEMMA InductiveInvariant == Spec => []IInv
<1>1. Init => IInv
  BY TypeInitially, BookkeepingInitially, GroundingInitially, ExitInitially DEF IInv
<1>2. IInv /\ [Next]_vars => IInv'
  BY TypeStep, BookkeepingStep, GroundingStep, ExitStep DEF IInv
<1> QED
  BY <1>1, <1>2, PTL DEF Spec

(* Whatever is installed, upgraded or removed during a run, and whenever a  *)
(* signal arrives, every verdict held of the machine at some moment of it.  *)
THEOREM VerdictsGrounded == Spec => []VerdictsAreGrounded
<1>1. IInv => VerdictsAreGrounded
  BY DEF IInv, Grounding
<1> QED
  BY <1>1, InductiveInvariant, PTL

(* The exit code alone can be trusted: 0 means that every declared thing    *)
(* was verified and satisfied at some moment of the run, 1 that everything  *)
(* was conclusively decided and something was not satisfied.                *)
THEOREM ExitCodeHonest == Spec => []ExitCodeIsHonest
<1>1. IInv => ExitCodeIsHonest
  BY HonestFromInvariants DEF IInv
<1> QED
  BY <1>1, InductiveInvariant, PTL

-----------------------------------------------------------------------------
(* Why an interrupted run stays silent: from the interruption on, either a  *)
(* requirement is still to be skipped or a cancellation is on record, and   *)
(* neither a return of the loop nor a report gets past that.                *)
Doomed ==
    /\ ~shown.report
    /\ \/ ctx = "done" /\ pc = "next" /\ todo # {}
       \/ Cancelled(errors)

LEMMA CancellationStays ==
    ASSUME TypeOK, Cancelled(errors), NEW e, errors' \in {errors, Append(errors, e)}
    PROVE  Cancelled(errors)'
<1>1. PICK i \in 1..Len(errors) : errors[i].kind = "cancelled"
  BY DEF Cancelled, Entries
<1>2. errors \in Seq(Errors \cup {e}) /\ e \in Errors \cup {e}
  BY DEF TypeOK
<1>3. i \in 1..Len(errors') /\ errors'[i] = errors[i]
  <2>1. CASE errors' = errors
    BY <1>1, <2>1
  <2>2. CASE errors' = Append(errors, e)
    BY <1>1, <1>2, <2>2
  <2> QED
    BY <2>1, <2>2
<1> QED
  BY <1>1, <1>3 DEF Cancelled, Entries

LEMMA DoomedStays == TypeInv /\ Bookkeeping /\ Doomed /\ [Next]_vars => Doomed'
<1> SUFFICES ASSUME TypeInv, Bookkeeping, Doomed, [Next]_vars
             PROVE  Doomed'
  OBVIOUS
<1> USE DEF TypeInv, endVars
<1>skips. ASSUME SkipCancelled PROVE Doomed'
  <2>1. PICK n \in todo : errors' = Append(errors, Failure("cancelled", n))
    BY <1>skips DEF SkipCancelled
  <2>2. Len(errors') \in 1..Len(errors') /\ errors'[Len(errors')].kind = "cancelled"
    BY <2>1 DEF TypeOK, Failure
  <2> QED
    BY <1>skips, <2>2 DEF SkipCancelled, Doomed, Cancelled, Entries
<1>begins. ASSUME Begin PROVE FALSE
  BY <1>begins DEF Begin, Doomed, Bookkeeping, NothingYet, Cancelled, Entries
<1>reports. ASSUME Report PROVE FALSE
  BY <1>reports DEF Report, Doomed
<1>grows. ASSUME SkipUnsupported \/ JudgeCancelled \/ JudgeFailed \/ JudgeCompared PROVE Doomed'
  <2>1. Cancelled(errors) /\ ~shown.report
    BY <1>grows DEF SkipUnsupported, JudgeCancelled, JudgeFailed, JudgeCompared, Doomed
  <2>2. \E e : errors' \in {errors, Append(errors, e)}
    BY <1>grows DEF SkipUnsupported, JudgeCancelled, JudgeFailed, JudgeCompared
  <2>3. shown' = shown
    BY <1>grows DEF SkipUnsupported, JudgeCancelled, JudgeFailed, JudgeCompared
  <2> QED
    BY <2>1, <2>2, <2>3, CancellationStays DEF Doomed
<1>rest. ASSUME UNCHANGED <<ctx, pc, todo, errors, shown>> PROVE Doomed'
  BY <1>rest DEF Doomed, Cancelled, Entries
<1>quiet. ASSUME UNCHANGED <<errors, shown>>, pc # "next" PROVE Doomed'
  BY <1>quiet DEF Doomed, Cancelled, Entries
<1>1. CASE Cancel
  BY <1>1 DEF Cancel, Doomed, resultVars, Cancelled, Entries
<1>2. CASE Loading \/ NoReport \/ ReportFails \/ Inspect
  BY <1>2, <1>quiet
     DEF Loading, UsageError, LoadFails, LoadSucceeds, NoReport, ReportFails, ExitWith, resultVars,
         Inspect, ResolveSkips, ResolveNotFound, ResolveFound, StartFails, StartSucceeds,
         ProbeAnswers, ProbeFails, Classify
<1>3. CASE BeginInspect \/ VerifyReturns
  BY <1>3 DEF BeginInspect, VerifyReturns, Doomed, resultVars, Cancelled, Entries
<1>4. CASE ProbeTimeout \/ MachineChanges \/ UNCHANGED vars
  BY <1>4, <1>rest DEF ProbeTimeout, MachineChanges, vars, resultVars
<1> QED
  BY <1>1, <1>2, <1>3, <1>4, <1>skips, <1>begins, <1>reports, <1>grows
     DEF Next, Goroutine, Loop, Judge, Finish, Exited

(* A run that was cancelled with a requirement still to be inspected shows  *)
(* no report, then or later, whatever else it was told to inspect (verify.  *)
(* go:96, 107 and cli/verify.go:73).                                        *)
THEOREM InterruptedIsSilent == Spec => InterruptedRunsShowNothing
<1>1. IInv /\ ctx = "done" /\ pc = "next" /\ todo # {} => Doomed
  BY DEF IInv, TypeInv, NothingShownYet, NotShown, Doomed
<1>2. IInv /\ Doomed /\ [Next]_vars => Doomed'
  BY DoomedStays DEF IInv
<1>3. Doomed => ~shown.report
  BY DEF Doomed
<1> QED
  BY <1>1, <1>2, <1>3, InductiveInvariant, PTL DEF Spec, InterruptedRunsShowNothing

-----------------------------------------------------------------------------
(* Module Verify implements the safety part of VerifyContract, for every    *)
(* set of names, every womm.yaml, every machine and every signal: what is   *)
(* decided of a requirement is never changed, and the report and the exit   *)
(* code follow from the decisions alone.                                    *)

(* What the operational errors say.  An error that decides something is     *)
(* about a requirement the loop is through with, and each makes the run     *)
(* inconclusive: either by the decision it stands for, or by a section      *)
(* that has no verifier.                                                    *)

\* Nothing is decided of a requirement that is still to be judged.
Open(n) == n \in todo \/ UnderInspection(n)

Inconclusive(n) == n \in DOMAIN file.requirements /\ Decision(n) \notin {"pass", "fail", "none"}

ErrorsAreOfThePast ==
    pc \notin {"load", "begin"} => \A e \in DecidedErrors : ~Open(e.name)

ErrorsAreInconclusive ==
    \A e \in Entries(errors) :
        \/ e.kind = "cancelled"
        \/ e.name = 0 /\ Unverifiable
        \/ Inconclusive(e.name)

ErrorsInv == ErrorsAreOfThePast /\ ErrorsAreInconclusive

FullInv == IInv /\ ErrorsInv

-----------------------------------------------------------------------------
(* Decisions.                                                               *)

LEMMA DecisionOfMatch ==
    ASSUME MatchesAreUnique, NEW m \in Entries(matches)
    PROVE  Decision(m.name) = m.status
<1>1. \A x \in Entries(matches) : x.name = m.name => x = m
  BY DEF MatchesAreUnique, Entries
<1>2. (CHOOSE x \in Entries(matches) : x.name = m.name) = m
  BY <1>1
<1> QED
  BY <1>2 DEF Decision, StatusOf

LEMMA DecisionOfRest ==
    ASSUME NEW n, ~Matched(n)
    PROVE  Decision(n) = IF \E e \in DecidedErrors : e.name = n THEN "error" ELSE "none"
BY DEF Decision, Matched, Entries

(* Nothing is decided of what is still open.                                *)
LEMMA OpenIsUndecided ==
    ASSUME TypeInv, Bookkeeping, ErrorsInv, NEW n \in Names, Open(n)
    PROVE  Decision(n) = "none" /\ ~Matched(n)
<1>1. ~Matched(n)
  BY DEF Matched, Bookkeeping, MatchesAreTaken, Open
<1>2. \A e \in DecidedErrors : e.name # n
  BY DEF ErrorsInv, ErrorsAreOfThePast, Bookkeeping, NothingYet, DecidedErrors, Entries
<1> QED
  BY <1>1, <1>2, DecisionOfRest

(* The results grow by one error and one match at most, about n.            *)
Grows(n) ==
    /\ matches' = matches \/ \E m \in Matches : m.name = n /\ matches' = Append(matches, m)
    /\ \/ errors' = errors
       \/ \E e \in Errors : (e.name = n \/ e.kind = "cancelled") /\ errors' = Append(errors, e)

LEMMA EntriesGrow ==
    ASSUME TypeOK, NEW n, Grows(n)
    PROVE  /\ Entries(matches) \subseteq Entries(matches')
           /\ \A m \in Entries(matches') \ Entries(matches) : m.name = n
           /\ Entries(errors) \subseteq Entries(errors')
           /\ \A e \in Entries(errors') \ Entries(errors) : e.name = n \/ e.kind = "cancelled"
<1>1. matches \in Seq(Matches) /\ errors \in Seq(Errors)
  BY DEF TypeOK
<1>2. \A m \in Matches : Entries(Append(matches, m)) = Entries(matches) \cup {m}
  BY <1>1, EntriesOfAppend
<1>3. \A e \in Errors : Entries(Append(errors, e)) = Entries(errors) \cup {e}
  BY <1>1, EntriesOfAppend
<1>4. /\ Entries(matches) \subseteq Entries(matches')
      /\ \A m \in Entries(matches') \ Entries(matches) : m.name = n
  <2>1. CASE matches' = matches
    BY <2>1
  <2>2. CASE \E m \in Matches : m.name = n /\ matches' = Append(matches, m)
    BY <1>2, <2>2
  <2> QED
    BY <2>1, <2>2 DEF Grows
<1>5. /\ Entries(errors) \subseteq Entries(errors')
      /\ \A e \in Entries(errors') \ Entries(errors) : e.name = n \/ e.kind = "cancelled"
  <2>1. CASE errors' = errors
    BY <2>1
  <2>2. CASE \E e \in Errors :
               (e.name = n \/ e.kind = "cancelled") /\ errors' = Append(errors, e)
    BY <1>3, <2>2
  <2> QED
    BY <2>1, <2>2 DEF Grows
<1> QED
  BY <1>4, <1>5

(* Growth about n leaves the decisions about the others alone.              *)
LEMMA OthersKeepDecision ==
    ASSUME TypeOK, MatchesAreUnique, MatchesAreUnique', NEW n, Grows(n), NEW k, k # n
    PROVE  Decision(k)' = Decision(k)
<1>1. /\ Entries(matches) \subseteq Entries(matches')
      /\ \A m \in Entries(matches') \ Entries(matches) : m.name = n
      /\ Entries(errors) \subseteq Entries(errors')
      /\ \A e \in Entries(errors') \ Entries(errors) : e.name = n \/ e.kind = "cancelled"
  BY EntriesGrow
<1>2. CASE \E m \in Entries(matches) : m.name = k
  <2>1. PICK m \in Entries(matches) : m.name = k
    BY <1>2
  <2>2. Decision(k) = m.status
    BY <2>1, DecisionOfMatch
  <2>3. m \in Entries(matches)'
    BY <1>1, <2>1
  <2>4. (\A x \in Entries(matches)' : x.name = m.name => x = m)
    BY <2>3 DEF MatchesAreUnique, Entries
  <2>5. (CHOOSE x \in Entries(matches)' : x.name = k) = m
    BY <2>1, <2>3, <2>4
  <2>6. Decision(k)' = m.status
    BY <2>1, <2>3, <2>5 DEF Decision, StatusOf
  <2> QED
    BY <2>2, <2>6
<1>3. CASE ~\E m \in Entries(matches) : m.name = k
  <2>1. ~\E m \in Entries(matches)' : m.name = k
    BY <1>1, <1>3
  <2>2. (\E e \in DecidedErrors : e.name = k) <=> (\E e \in DecidedErrors' : e.name = k)
    BY <1>1 DEF DecidedErrors
  <2> QED
    BY <1>3, <2>1, <2>2 DEF Decision
<1> QED
  BY <1>2, <1>3

LEMMA UnchangedDecisions ==
    ASSUME UNCHANGED <<matches, errors>>, NEW k
    PROVE  Decision(k)' = Decision(k)
BY DEF Decision, StatusOf, DecidedErrors, Entries

-----------------------------------------------------------------------------
(* The steps of the contract.                                               *)

Simulates == [Contract!Next]_(Contract!vars)

\* Nothing the contract knows of has changed.
LEMMA StutterSimulates ==
    ASSUME UNCHANGED <<file, shown, exit>>, \A k \in Names : Decision(k)' = Decision(k)
    PROVE  Simulates
BY DEF Simulates, Contract!vars

\* A requirement is decided.
LEMMA DecideSimulates ==
    ASSUME exit = Running, UNCHANGED <<file, shown, exit>>,
           NEW n \in DOMAIN file.requirements, n \in Names,
           Decision(n) = "none", Decision(n)' \in Contract!Decisions,
           \A k \in Names \ {n} : Decision(k)' = Decision(k)
    PROVE  Simulates
<1>1. [k \in Names |-> Decision(k)]' = [[k \in Names |-> Decision(k)] EXCEPT ![n] = Decision(n)']
  OBVIOUS
<1>2. Contract!Decide
  BY <1>1 DEF Contract!Decide, Contract!Running, Running
<1> QED
  BY <1>2 DEF Simulates, Contract!Next

\* The run ends without a report.
LEMMA GiveUpSimulates ==
    ASSUME exit = Running, file \in Files, UNCHANGED <<file, matches, errors, shown>>,
           \/ exit' = ExitInconclusive
           \/ exit' = ExitUsage /\ matches = <<>> /\ errors = <<>>
    PROVE  Simulates
<1>1. \A k \in Names : Decision(k)' = Decision(k)
  BY UnchangedDecisions
<1>2. [k \in Names |-> Decision(k)]' = [k \in Names |-> Decision(k)]
  BY <1>1
<1>3. ASSUME exit' = ExitUsage, matches = <<>>, errors = <<>>, NEW n \in Names
      PROVE  Decision(n) = "none"
  <2>1. Entries(matches) = {} /\ DecidedErrors = {}
    BY <1>3 DEF Entries, DecidedErrors
  <2> QED
    BY <2>1 DEF Decision
<1>4. \/ exit' = 3
      \/ exit' = 2 /\ \A n \in Names : Decision(n) = "none"
  BY <1>3 DEF ExitInconclusive, ExitUsage
<1>5. CASE exit' = 3
  <2>1. Contract!GiveUp
    BY <1>2, <1>5 DEF Contract!GiveUp, Contract!Running, Running
  <2> QED
    BY <2>1 DEF Simulates, Contract!Next
<1>6. CASE exit' = 2 /\ \A n \in Names : Decision(n) = "none"
  <2>1. \A n \in DOMAIN file.requirements : [k \in Names |-> Decision(k)][n] = "none"
    BY <1>6, DeclaredNames
  <2>2. Contract!GiveUp
    BY <1>2, <1>6, <2>1 DEF Contract!GiveUp, Contract!Running, Running
  <2> QED
    BY <2>2 DEF Simulates, Contract!Next
<1> QED
  BY <1>4, <1>5, <1>6

-----------------------------------------------------------------------------
(* The results grow by what one requirement was found to be.                *)
LEMMA GrowthKeepsAndSimulates ==
    ASSUME FullInv, IInv', UNCHANGED <<file, shown, exit>>,
           NEW n \in DOMAIN file.requirements, Open(n), ~Open(n)', Grows(n),
           pc \notin {"load", "begin", "exited"},
           \A k : Open(k)' => Open(k),
           Decision(n)' \in {"none"} \cup Contract!Decisions,
           \A e \in Entries(errors') \ Entries(errors) :
               e.kind = "cancelled" \/ Decision(n)' \notin {"pass", "fail", "none"}
    PROVE  ErrorsInv' /\ Simulates
<1>1. /\ TypeOK /\ MatchesAreUnique /\ MatchesAreUnique' /\ ErrorsInv /\ n \in Names
      /\ exit = Running
  BY DeclaredNames DEF FullInv, IInv, TypeInv, TypeOK, Bookkeeping, ExitInv
<1>2. Decision(n) = "none"
  BY <1>1, OpenIsUndecided DEF FullInv, IInv
<1>3. \A k : k # n => Decision(k)' = Decision(k)
  BY <1>1, OthersKeepDecision
<1>4. /\ Entries(errors) \subseteq Entries(errors')
      /\ \A e \in Entries(errors') \ Entries(errors) : e.name = n \/ e.kind = "cancelled"
  BY <1>1, EntriesGrow
<1>5. ErrorsAreOfThePast'
  BY <1>1, <1>4 DEF ErrorsInv, ErrorsAreOfThePast, DecidedErrors
<1>6. ErrorsAreInconclusive'
  <2>1. ASSUME NEW e \in Entries(errors)
        PROVE  e.kind = "cancelled" \/ (e.name = 0 /\ Unverifiable') \/ Inconclusive(e.name)'
    <3>1. \/ e.kind = "cancelled"
          \/ e.name = 0 /\ Unverifiable
          \/ Inconclusive(e.name)
      BY <1>1 DEF ErrorsInv, ErrorsAreInconclusive
    <3>2. Inconclusive(e.name) => e.name # n
      BY <1>2 DEF Inconclusive
    <3> QED
      BY <1>3, <3>1, <3>2 DEF Inconclusive, Unverifiable
  <2>2. ASSUME NEW e \in Entries(errors') \ Entries(errors)
        PROVE  e.kind = "cancelled" \/ Inconclusive(e.name)'
    BY <1>4, <2>2 DEF Inconclusive
  <2>3. Entries(errors)' = Entries(errors')
    BY DEF Entries
  <2> QED
    BY <2>1, <2>2, <2>3 DEF ErrorsAreInconclusive
<1>7. Simulates
  <2>1. CASE Decision(n)' = "none"
    BY <1>2, <1>3, <2>1, StutterSimulates
  <2>2. CASE Decision(n)' \in Contract!Decisions
    BY <1>1, <1>2, <1>3, <2>2, DecideSimulates
  <2> QED
    BY <2>1, <2>2
<1> QED
  BY <1>5, <1>6, <1>7 DEF ErrorsInv

LEMMA SkipCancelledSimulates == FullInv /\ IInv' /\ SkipCancelled => ErrorsInv' /\ Simulates
<1> SUFFICES ASSUME FullInv, IInv', SkipCancelled PROVE ErrorsInv' /\ Simulates
  OBVIOUS
<1>1. PICK n \in todo : Taken(n) /\ errors' = Append(errors, Failure("cancelled", n))
  BY DEF SkipCancelled
<1>2. /\ pc = "next" /\ pc' = "next"
      /\ UNCHANGED <<file, cur, matches, shown, exit>>
  BY DEF SkipCancelled, inspectVars, endVars
<1>3. TypeOK /\ n \in DOMAIN file.requirements /\ n \in Names
  BY DeclaredNames DEF FullInv, IInv, TypeInv, TypeOK
<1>4. Failure("cancelled", n) \in Errors /\ Failure("cancelled", n).kind = "cancelled"
  BY <1>3 DEF Failure, Errors, ErrorKinds
<1>5. Grows(n) /\ Entries(errors') = Entries(errors) \cup {Failure("cancelled", n)}
  BY <1>1, <1>2, <1>3, <1>4, EntriesOfAppend DEF Grows, TypeOK
<1>6. Open(n) /\ ~Open(n)' /\ \A k : Open(k)' => Open(k)
  BY <1>1, <1>2 DEF Open, UnderInspection, InspectPcs, Taken
<1>7. Decision(n)' = "none"
  <2>1. Decision(n) = "none" /\ ~Matched(n)
    BY <1>3, <1>6, OpenIsUndecided DEF FullInv, IInv
  <2>2. DecidedErrors' = DecidedErrors
    BY <1>4, <1>5 DEF DecidedErrors, Entries
  <2> QED
    BY <1>2, <2>1, <2>2 DEF Decision, StatusOf, Entries
<1> QED
  BY <1>2, <1>3, <1>4, <1>5, <1>6, <1>7, GrowthKeepsAndSimulates

LEMMA SkipUnsupportedSimulates == FullInv /\ IInv' /\ SkipUnsupported => ErrorsInv' /\ Simulates
<1> SUFFICES ASSUME FullInv, IInv', SkipUnsupported PROVE ErrorsInv' /\ Simulates
  OBVIOUS
<1> DEFINE E(n) == Failure("unsupported_requirement", n)
<1>1. PICK n \in todo : Taken(n) /\ errors' = Append(errors, E(n))
  BY DEF SkipUnsupported
<1>2. /\ pc = "next" /\ pc' = "next"
      /\ UNCHANGED <<file, cur, matches, shown, exit>>
  BY DEF SkipUnsupported, inspectVars, endVars
<1>3. TypeOK /\ n \in DOMAIN file.requirements /\ n \in Names
  BY DeclaredNames DEF FullInv, IInv, TypeInv, TypeOK
<1>4. E(n) \in Errors /\ E(n).name = n /\ E(n).kind # "cancelled"
  BY <1>3 DEF Failure, Errors, ErrorKinds
<1> HIDE DEF E
<1>5. Grows(n) /\ Entries(errors') = Entries(errors) \cup {E(n)}
  BY <1>1, <1>2, <1>3, <1>4, EntriesOfAppend DEF Grows, TypeOK
<1>6. Open(n) /\ ~Open(n)' /\ \A k : Open(k)' => Open(k)
  BY <1>1, <1>2 DEF Open, UnderInspection, InspectPcs, Taken
<1>7. Decision(n)' = "error"
  <2>1. ~Matched(n)
    BY <1>3, <1>6, OpenIsUndecided DEF FullInv, IInv
  <2>2. ~\E m \in Entries(matches)' : m.name = n
    BY <1>2, <2>1 DEF Matched, Entries
  <2>3. \E e \in DecidedErrors' : e.name = n
    BY <1>4, <1>5 DEF DecidedErrors, Entries
  <2> QED
    BY <2>2, <2>3 DEF Decision
<1> QED
  BY <1>2, <1>3, <1>4, <1>5, <1>6, <1>7, GrowthKeepsAndSimulates DEF Contract!Decisions

(* A match of the requirement under inspection decides it.                  *)
LEMMA MatchSimulates ==
    ASSUME FullInv, IInv', pc = "judge", pc' = "next", UNCHANGED <<file, todo, cur, shown, exit>>,
           NEW m \in Matches, m.name = cur, m.status \in Contract!Decisions,
           matches' = Append(matches, m),
           \/ errors' = errors
           \/ /\ m.status \notin {"pass", "fail"}
              /\ \E e \in Errors : e.name = cur /\ errors' = Append(errors, e)
    PROVE  ErrorsInv' /\ Simulates
<1>1. TypeOK /\ cur \in DOMAIN file.requirements /\ cur \notin todo
  BY DEF FullInv, IInv, TypeInv, CurrentIsTaken, InspectPcs
<1>2. Open(cur) /\ ~Open(cur)' /\ \A k : Open(k)' => Open(k)
  BY <1>1 DEF Open, UnderInspection, InspectPcs
<1>3. Grows(cur)
  BY DEF Grows
<1>4. Decision(cur)' = m.status
  <2>1. Entries(matches') = Entries(matches) \cup {m}
    BY <1>1, EntriesOfAppend DEF TypeOK
  <2>2. m \in Entries(matches)' /\ MatchesAreUnique'
    BY <2>1 DEF Entries, IInv, Bookkeeping
  <2>3. \A x \in Entries(matches)' : x.name = cur' => x = m
    BY <2>2 DEF MatchesAreUnique, Entries
  <2>4. (CHOOSE x \in Entries(matches)' : x.name = cur) = m
    BY <2>2, <2>3
  <2> QED
    BY <2>2, <2>4 DEF Decision, StatusOf
<1>5. \A e \in Entries(errors') \ Entries(errors) : Decision(cur)' \notin {"pass", "fail", "none"}
  BY <1>4 DEF Contract!Decisions
<1> QED
  BY <1>1, <1>2, <1>3, <1>4, <1>5, GrowthKeepsAndSimulates

LEMMA JudgeSimulates == FullInv /\ IInv' /\ Judge => ErrorsInv' /\ Simulates
<1> SUFFICES ASSUME FullInv, IInv', Judge PROVE ErrorsInv' /\ Simulates
  OBVIOUS
<1>1. /\ pc = "judge" /\ pc' = "next"
      /\ UNCHANGED <<file, todo, cur, shown, exit>>
  BY DEF Judge, JudgeCancelled, JudgeFailed, JudgeCompared, inspectVars, endVars
<1>2. TypeOK /\ cur \in DOMAIN file.requirements /\ cur \in Names /\ cur \notin todo
  BY <1>1, DeclaredNames DEF FullInv, IInv, TypeInv, TypeOK, CurrentIsTaken, InspectPcs
<1>3. CASE JudgeCancelled
  <2>1. /\ Failure("cancelled", cur) \in Errors
        /\ Failure("cancelled", cur).kind = "cancelled"
    BY <1>2 DEF Failure, Errors, ErrorKinds
  <2>2. errors' = Append(errors, Failure("cancelled", cur)) /\ matches' = matches
    BY <1>3 DEF JudgeCancelled
  <2>3. Grows(cur) /\ Entries(errors') = Entries(errors) \cup {Failure("cancelled", cur)}
    BY <1>2, <2>1, <2>2, EntriesOfAppend DEF Grows, TypeOK
  <2>4. Open(cur) /\ ~Open(cur)' /\ \A k : Open(k)' => Open(k)
    BY <1>1, <1>2 DEF Open, UnderInspection, InspectPcs
  <2>5. Decision(cur) = "none" /\ ~Matched(cur)
    BY <1>2, <2>4, OpenIsUndecided DEF FullInv, IInv
  <2>6. DecidedErrors' = DecidedErrors
    BY <2>1, <2>3 DEF DecidedErrors, Entries
  <2>7. Decision(cur)' = "none"
    BY <1>1, <2>2, <2>5, <2>6 DEF Decision, StatusOf, Entries
  <2> QED
    BY <1>1, <1>2, <2>1, <2>3, <2>4, <2>7, GrowthKeepsAndSimulates
<1>4. CASE JudgeFailed
  <2> DEFINE m == Match(cur, obs, "unreachable")
  <2>1. Partial
    BY <1>4 DEF JudgeFailed, FullInv, IInv, Bookkeeping, FailedIsPartial
  <2>2. matches' = Append(matches, m) /\ errors' = errors
    BY <1>4, <2>1 DEF JudgeFailed
  <2>3. m \in Matches /\ m.name = cur /\ m.status \in Contract!Decisions
    BY <1>2 DEF Match, Matches, Statuses, TypeOK, Contract!Decisions
  <2> HIDE DEF m
  <2> QED
    BY <1>1, <2>2, <2>3, MatchSimulates
<1>5. CASE JudgeCompared
  <2> DEFINE v == Compare(Requirement(cur), obs)
             m == Match(cur, obs, v.status)
  <2>1. /\ v.status \in {"pass", "fail", "unknown"} /\ v.err \in ErrorKinds
        /\ v.err # "none" => v.status = "unknown"
    BY DEF Compare, Verdict, Satisfied, CompareErrors, ErrorKinds
  <2> HIDE DEF v
  <2>2. /\ matches' = Append(matches, m)
        /\ errors' = IF v.err = "none" THEN errors ELSE Append(errors, Failure(v.err, cur))
    BY <1>5 DEF JudgeCompared, v
  <2>3. m \in Matches /\ m.name = cur /\ m.status = v.status
    BY <1>2, <2>1 DEF Match, Matches, Statuses, TypeOK
  <2>4. Failure(v.err, cur) \in Errors /\ Failure(v.err, cur).name = cur
    BY <1>2, <2>1 DEF Failure, Errors
  <2> HIDE DEF m
  <2> QED
    BY <1>1, <2>1, <2>2, <2>3, <2>4, MatchSimulates DEF Contract!Decisions
<1> QED
  BY <1>3, <1>4, <1>5 DEF Judge

-----------------------------------------------------------------------------
(* Begin records the sections that have no verifier, and decides nothing.   *)
LEMMA BeginSimulates == FullInv /\ IInv' /\ Begin => ErrorsInv' /\ Simulates
<1> SUFFICES ASSUME FullInv, IInv', Begin PROVE ErrorsInv' /\ Simulates
  OBVIOUS
<1> DEFINE e0 == Failure("unsupported_section", 0)
<1>1. /\ pc = "begin" /\ pc' = "next" /\ errors' = SectionErrors(file)
      /\ todo' = DOMAIN file.requirements
      /\ UNCHANGED <<file, matches, shown, exit>>
  BY DEF Begin, endVars
<1>2. file \in Files /\ matches = <<>> /\ errors = <<>>
  BY <1>1 DEF FullInv, IInv, TypeInv, TypeOK, Bookkeeping, NothingYet
<1>3. /\ file.services \in Nat
      /\ DOMAIN file.requirements \subseteq Names
      /\ 0 \notin Names
  BY <1>2, DeclaredNames, NamesAssumption, BoundsAssumption DEF Files
<1>4. SectionErrors(file) \in Seq({e0})
  <2>1. [i \in 1..file.services |-> e0] \in Seq({e0})
    BY <1>3
  <2>2. (IF file.environment THEN <<e0>> ELSE <<>>) \in Seq({e0})
    <3> DEFINE S == {e0}
    <3>1. e0 \in S
      OBVIOUS
    <3> HIDE DEF e0, S
    <3>2. <<e0>> \in Seq(S) /\ <<>> \in Seq(S)
      BY <3>1
    <3> QED
      BY <3>2 DEF S
  <2> QED
    BY <2>1, <2>2, ConcatProperties DEF SectionErrors
<1>5. \A e \in Entries(errors') : e.name = 0
  <2>1. \A e \in Entries(errors') : e = e0
    BY <1>1, <1>4 DEF Entries
  <2> QED
    BY <2>1 DEF Failure
<1>6. errors' # <<>> => Unverifiable
  <2>1. ASSUME ~Unverifiable PROVE SectionErrors(file) = <<>>
    <3>1. file.services = 0 /\ file.environment = FALSE
      BY <1>2, <1>3, <2>1 DEF Unverifiable, Files
    <3>2. [i \in 1..file.services |-> e0] = <<>>
      BY <3>1
    <3> QED
      BY <3>1, <3>2, ConcatProperties DEF SectionErrors
  <2> QED
    BY <1>1, <2>1
<1>7. Entries(errors)' = Entries(errors')
  BY DEF Entries
<1>8. Entries(errors') # {} => Unverifiable
  BY <1>6 DEF Entries
<1>9. ErrorsInv'
  BY <1>1, <1>3, <1>5, <1>7, <1>8
     DEF ErrorsInv, ErrorsAreOfThePast, ErrorsAreInconclusive, DecidedErrors, Open,
         UnderInspection, InspectPcs, Unverifiable
<1>10. ASSUME NEW k \in Names PROVE Decision(k)' = "none" /\ Decision(k) = "none"
  <2>1. /\ Entries(matches) = {} /\ Entries(matches)' = {} /\ DecidedErrors = {}
        /\ \A e \in DecidedErrors' : e.name # k
    BY <1>1, <1>2, <1>3, <1>5, <1>7 DEF Entries, DecidedErrors
  <2> QED
    BY <2>1 DEF Decision
<1> QED
  BY <1>1, <1>9, <1>10, StutterSimulates

-----------------------------------------------------------------------------
(* Steps that leave the results alone.                                      *)
LEMMA ErrorsUnchanged ==
    ASSUME ErrorsInv, UNCHANGED <<file, matches, errors>>,
           errors = <<>> \/ (pc \notin {"load", "begin"} /\ \A k : Open(k)' => Open(k))
    PROVE  ErrorsInv'
<1>1. \A k : Decision(k)' = Decision(k)
  BY UnchangedDecisions
<1>2. Entries(errors)' = Entries(errors) /\ DecidedErrors' = DecidedErrors
  BY DEF Entries, DecidedErrors
<1>3. errors = <<>> => Entries(errors) = {} /\ DecidedErrors = {}
  BY DEF Entries, DecidedErrors
<1>4. ErrorsAreOfThePast'
  BY <1>2, <1>3 DEF ErrorsInv, ErrorsAreOfThePast
<1>5. ErrorsAreInconclusive'
  BY <1>1, <1>2 DEF ErrorsInv, ErrorsAreInconclusive, Inconclusive, Unverifiable
<1> QED
  BY <1>4, <1>5 DEF ErrorsInv

LEMMA QuietSimulates ==
    FullInv /\ (LoadSucceeds \/ BeginInspect \/ VerifyReturns \/ Inspect \/ ProbeTimeout \/ Cancel
                  \/ MachineChanges \/ UNCHANGED vars)
      => ErrorsInv' /\ Simulates
<1> SUFFICES ASSUME FullInv,
                    LoadSucceeds \/ BeginInspect \/ VerifyReturns \/ Inspect \/ ProbeTimeout \/ Cancel
                      \/ MachineChanges \/ UNCHANGED vars
             PROVE  ErrorsInv' /\ Simulates
  OBVIOUS
<1>1. UNCHANGED <<file, matches, errors, shown, exit>>
  BY DEF LoadSucceeds, BeginInspect, VerifyReturns, Inspect, ResolveSkips, ResolveNotFound, ResolveFound,
         StartFails, StartSucceeds, ProbeAnswers, ProbeFails, Classify, ProbeTimeout, Cancel,
         MachineChanges, vars, resultVars, endVars
<1>2. errors = <<>> \/ (pc \notin {"load", "begin"} /\ \A k : Open(k)' => Open(k))
  <2>1. CASE pc \in {"load", "begin"}
    BY <2>1 DEF FullInv, IInv, Bookkeeping, NothingYet
  <2>2. CASE pc \notin {"load", "begin"}
    <3>1. CASE BeginInspect
      BY <3>1, <2>2 DEF BeginInspect, Taken, Open, UnderInspection
    <3>2. CASE VerifyReturns
      BY <3>2, <2>2 DEF VerifyReturns, Open, UnderInspection, InspectPcs
    <3>3. CASE Inspect
      <4>1. todo' = todo /\ cur' = cur /\ pc \in InspectPcs
        BY <3>3 DEF Inspect, ResolveSkips, ResolveNotFound, ResolveFound, StartFails, StartSucceeds,
                    ProbeAnswers, ProbeFails, Classify, inspectVars, InspectPcs
      <4> QED
        BY <4>1, <2>2 DEF Open, UnderInspection
    <3>4. CASE ProbeTimeout \/ Cancel \/ MachineChanges \/ UNCHANGED vars
      <4>1. UNCHANGED <<todo, cur, pc>>
        BY <3>4 DEF ProbeTimeout, Cancel, MachineChanges, vars, inspectVars
      <4> QED
        BY <4>1, <2>2 DEF Open, UnderInspection
    <3> QED
      BY <2>2, <3>1, <3>2, <3>3, <3>4 DEF LoadSucceeds
  <2> QED
    BY <2>1, <2>2
<1>3. ErrorsInv'
  BY <1>1, <1>2, ErrorsUnchanged DEF FullInv
<1>4. \A k \in Names : Decision(k)' = Decision(k)
  BY <1>1, UnchangedDecisions
<1> QED
  BY <1>1, <1>3, <1>4, StutterSimulates

LEMMA SilentExitSimulates ==
    FullInv /\ (UsageError \/ LoadFails \/ NoReport \/ ReportFails) => ErrorsInv' /\ Simulates
<1> SUFFICES ASSUME FullInv, UsageError \/ LoadFails \/ NoReport \/ ReportFails
             PROVE  ErrorsInv' /\ Simulates
  OBVIOUS
<1>1. /\ UNCHANGED <<file, todo, matches, errors, shown>>
      /\ pc # "exited" /\ pc' = "exited"
  BY DEF UsageError, LoadFails, NoReport, ReportFails, ExitWith, resultVars
<1>2. pc \in {"load", "begin"} => matches = <<>> /\ errors = <<>>
  BY DEF FullInv, IInv, Bookkeeping, NothingYet
<1>3. errors = <<>> \/ (pc \notin {"load", "begin"} /\ \A k : Open(k)' => Open(k))
  BY <1>1, <1>2 DEF Open, UnderInspection, InspectPcs
<1>4. ErrorsInv'
  BY <1>1, <1>3, ErrorsUnchanged DEF FullInv
<1>5. exit = Running /\ file \in Files
  BY <1>1 DEF FullInv, IInv, ExitInv, TypeInv, TypeOK
<1>6. \/ exit' = ExitInconclusive
      \/ exit' = ExitUsage /\ matches = <<>> /\ errors = <<>>
  BY <1>2 DEF UsageError, LoadFails, NoReport, ReportFails, ExitWith
<1> QED
  BY <1>1, <1>4, <1>5, <1>6, GiveUpSimulates

-----------------------------------------------------------------------------
(* A shown report: everything is decided, and the exit code is a function   *)
(* of the decisions and the sections.                                       *)
LEMMA ReportSimulates == FullInv /\ Report => ErrorsInv' /\ Simulates
<1> SUFFICES ASSUME FullInv, Report PROVE ErrorsInv' /\ Simulates
  OBVIOUS
<1> DEFINE declared == DOMAIN file.requirements
<1>1. /\ pc = "report" /\ pc' = "exited" /\ ~Cancelled(errors)
      /\ UNCHANGED <<file, todo, matches, errors>>
      /\ shown' = [report |-> TRUE, matches |-> matches]
      /\ exit' = ExitCode(matches, errors)
  BY DEF Report, ExitWith, resultVars
<1>2. /\ TypeOK /\ MatchesAreUnique /\ exit = Running /\ declared \subseteq Names
      /\ \A n \in declared : Accounted(n) /\ ~Interrupted(n)
      /\ Unverifiable => errors # <<>>
  <2>1. \A n \in declared : Accounted(n)
    BY <1>1 DEF FullInv, IInv, Bookkeeping, LoopIsOver, TakenAreAccounted, UnderInspection,
                InspectPcs
  <2>2. \A n : ~Interrupted(n)
    BY <1>1 DEF Interrupted, Cancelled, Failure
  <2> QED
    BY <1>1, <2>1, <2>2, DeclaredNames
       DEF FullInv, IInv, Bookkeeping, TypeInv, TypeOK, ExitInv
<1>3. ErrorsInv'
  BY <1>1, ErrorsUnchanged DEF FullInv, Open, UnderInspection, InspectPcs
<1>4. \A m \in Entries(matches) :
        /\ Decision(m.name) = m.status
        /\ m.name \in declared
        /\ m.status \in Statuses
  <2> SUFFICES ASSUME NEW m \in Entries(matches)
               PROVE  /\ Decision(m.name) = m.status
                      /\ m.name \in declared
                      /\ m.status \in Statuses
    OBVIOUS
  <2>1. Decision(m.name) = m.status
    BY <1>2, DecisionOfMatch
  <2>2. PICK i \in 1..Len(matches) : m = matches[i]
    BY DEF Entries
  <2>3. m.name \in declared
    BY <2>2 DEF FullInv, IInv, Bookkeeping, MatchesAreTaken
  <2>4. matches \in Seq(Matches)
    BY <1>2 DEF TypeOK
  <2>5. m \in Matches
    BY <2>2, <2>4
  <2>6. m.status \in Statuses
    BY <2>5 DEF Matches
  <2> QED
    BY <2>1, <2>3, <2>6
<1>5. ASSUME NEW n \in declared
      PROVE  \/ \E m \in Entries(matches) : m.name = n /\ Decision(n) = m.status
             \/ Decision(n) = "error" /\ errors # <<>>
  <2>1. CASE Matched(n)
    BY <1>4, <2>1 DEF Matched, Entries
  <2>2. CASE ~Matched(n)
    <3>1. Failure("unsupported_requirement", n) \in Entries(errors)
      BY <1>2, <2>2 DEF Accounted, Refused
    <3>2. \E e \in DecidedErrors : e.name = n
      BY <3>1 DEF DecidedErrors, Failure
    <3>3. errors # <<>>
      BY <3>1 DEF Entries
    <3> QED
      BY <2>2, <3>2, <3>3, DecisionOfRest
  <2> QED
    BY <2>1, <2>2
<1>6. \A n \in declared : Decision(n) # "none"
  BY <1>4, <1>5 DEF Statuses
<1> DEFINE Doubt == Unverifiable \/ \E n \in declared : Decision(n) \notin {"pass", "fail"}
<1>7. Doubt <=> errors # <<>> \/ \E m \in Entries(matches) : m.status \notin {"pass", "fail"}
  <2>1. Doubt => errors # <<>> \/ \E m \in Entries(matches) : m.status \notin {"pass", "fail"}
    BY <1>2, <1>5
  <2>2. (\E m \in Entries(matches) : m.status \notin {"pass", "fail"}) => Doubt
    BY <1>4
  <2>3. ASSUME errors # <<>> PROVE Doubt
    <3>1. PICK e \in Entries(errors) : TRUE
      BY <1>2, <2>3 DEF Entries, TypeOK
    <3>2. e.kind # "cancelled"
      BY <1>1 DEF Cancelled
    <3>3. (e.name = 0 /\ Unverifiable) \/ Inconclusive(e.name)
      BY <3>2 DEF FullInv, ErrorsInv, ErrorsAreInconclusive
    <3> QED
      BY <3>3 DEF Inconclusive
  <2> QED
    BY <2>1, <2>2, <2>3
<1>8. ~Doubt => ((\E n \in declared : Decision(n) = "fail")
                   <=> \E m \in Entries(matches) : m.status = "fail")
  BY <1>4, <1>5
<1>9. exit' = IF Doubt THEN 3
              ELSE IF \E n \in declared : Decision(n) = "fail" THEN 1 ELSE 0
  BY <1>1, <1>7, <1>8 DEF ExitCode, ExitPass, ExitFail, ExitInconclusive
<1>10. exit' = Contract!Code
  <2>1. \A n \in declared : [k \in Names |-> Decision(k)][n] = Decision(n)
    BY <1>2
  <2> QED
    BY <1>9, <2>1 DEF Contract!Code, Unverifiable
<1>11. [k \in Names |-> Decision(k)]' = [k \in Names |-> Decision(k)]
  BY <1>1, UnchangedDecisions
<1>12. Contract!Publish
  BY <1>1, <1>2, <1>6, <1>10, <1>11 DEF Contract!Publish, Contract!Running, Running
<1> QED
  BY <1>3, <1>12 DEF Simulates, Contract!Next

-----------------------------------------------------------------------------
LEMMA InitSimulates == Init => ErrorsInv /\ Contract!Init
<1> SUFFICES ASSUME Init PROVE ErrorsInv /\ Contract!Init
  OBVIOUS
<1>1. /\ matches = <<>> /\ errors = <<>> /\ file \in Files /\ exit = Running
      /\ shown.report = FALSE
  BY DEF Init, NotShown
<1>2. Entries(matches) = {} /\ Entries(errors) = {} /\ DecidedErrors = {}
  BY <1>1 DEF Entries, DecidedErrors
<1>3. \A k : Decision(k) = "none"
  BY <1>2 DEF Decision
<1>4. ErrorsInv
  BY <1>2 DEF ErrorsInv, ErrorsAreOfThePast, ErrorsAreInconclusive
<1>5. DOMAIN file.requirements \in SUBSET Names /\ file.environment \in BOOLEAN
  BY <1>1, DeclaredNames, BoundsAssumption DEF Files
<1>6. (file.services > 0 \/ file.environment) \in BOOLEAN
  BY <1>5
<1>7. Contract!Init
  BY <1>1, <1>3, <1>5, <1>6 DEF Contract!Init, Contract!Running, Running
<1> QED
  BY <1>4, <1>7

LEMMA NextSimulates == FullInv /\ IInv' /\ [Next]_vars => ErrorsInv' /\ Simulates
<1> SUFFICES ASSUME FullInv, IInv', [Next]_vars PROVE ErrorsInv' /\ Simulates
  OBVIOUS
<1>1. CASE UsageError \/ LoadFails \/ NoReport \/ ReportFails
  BY <1>1, SilentExitSimulates
<1>2. CASE Begin
  BY <1>2, BeginSimulates
<1>3. CASE SkipCancelled
  BY <1>3, SkipCancelledSimulates
<1>4. CASE SkipUnsupported
  BY <1>4, SkipUnsupportedSimulates
<1>5. CASE Judge
  BY <1>5, JudgeSimulates
<1>6. CASE Report
  BY <1>6, ReportSimulates
<1>7. CASE LoadSucceeds \/ BeginInspect \/ VerifyReturns \/ Inspect \/ ProbeTimeout \/ Cancel
             \/ MachineChanges \/ UNCHANGED vars
  BY <1>7, QuietSimulates
<1> QED
  BY <1>1, <1>2, <1>3, <1>4, <1>5, <1>6, <1>7
     DEF Next, Goroutine, Loading, Loop, Finish, Exited

(* Every run of `womm verify' is one the contract allows: nothing decided   *)
(* is taken back, no report before everything is decided, and the exit code *)
(* of a shown report is the one its decisions call for.                     *)
THEOREM ImplementsContract == Spec => Contract!SafetySpec
<1>1. Init => ErrorsInv /\ Contract!Init
  BY InitSimulates
<1>2. ErrorsInv /\ IInv /\ IInv' /\ [Next]_vars => ErrorsInv' /\ [Contract!Next]_(Contract!vars)
  BY NextSimulates DEF FullInv, Simulates
<1> QED
  BY <1>1, <1>2, InductiveInvariant, PTL DEF Spec, Contract!SafetySpec
=============================================================================
