-------------------------- MODULE SharedFileProofs --------------------------
(* Theorems about module SharedFile, and with it about CaptureWrite: for    *)
(* every set of captures, forced or not, every mix of them with a verify,   *)
(* and every number of changes others make at the path.                     *)
EXTENDS SharedFile, TLAPS

-----------------------------------------------------------------------------
(* The inductive invariant.  The properties talk about documents at the     *)
(* path or in the loader's hands; that those are whole rests on where their *)
(* writers are, what their descriptors are open on, and that the loader     *)
(* can only have opened a forced document after its rename.                 *)

Contents == {"nothing", "empty", "partial", "whole", "theirs"}

\* A writer holds nothing but its own document open, and has it open
\* exactly where it uses it.
Descriptors(w) ==
    /\ fd[w] \in {w, "none"}
    /\ pc[w] \in {"chmod", "write", "close"} => fd[w] = w
    /\ pc[w] \in {"lstat", "create", "temp", "rename", "cleanup"} => fd[w] = "none"

\* What is closed, renamed or reported is the whole document.
Stored(w) ==
    /\ pc[w] \in {"close", "rename"} => content[w] = "whole"
    /\ outcome[w] = "written" => pc[w] = "done" /\ content[w] = "whole"

\* Each kind of capture keeps to its branch, and to its temporary file.
Branches(w) ==
    /\ w \in Forced => pc[w] # "create"
    /\ w \notin Forced => pc[w] \notin {"temp", "chmod", "rename", "cleanup"}
    /\ w \in temp => pc[w] \notin {"lstat", "temp"}
    /\ w \in temp /\ writable => pc[w] # "done"

\* A forced document that somebody else can see is finished.
Published(w) ==
    w \in Forced /\ (path = w \/ opened = w) =>
        pc[w] = "done" /\ content[w] = "whole" /\ fd[w] = "none"

WriterInv(w) == Descriptors(w) /\ Stored(w) /\ Branches(w) /\ Published(w)

LoaderInv ==
    /\ place \in {"open", "stat", "read", "done"}
    /\ opened \in (Inodes \cup {"none", "fifo", "directory"}) \ {"target"}
    /\ read \in Contents
    /\ place = "read" => opened \in {"file"} \cup Writers
    /\ answer = "data" => place = "done" /\ opened \in {"file"} \cup Writers
    /\ answer = "data" /\ opened \in Forced => read = "whole"

TheirContents == content["file"] = "theirs" /\ content["target"] = "theirs"

IInv ==
    /\ TypeOK
    /\ TheirContents
    /\ \A w \in Writers : WriterInv(w)
    /\ LoaderInv

-----------------------------------------------------------------------------
LEMMA InitiallyIInv == SharedInit => IInv
<1> SUFFICES ASSUME NEW mix \in Mixes,
                    InitWith(mix),
                    place = (IF Loader \in mix THEN "open" ELSE "done"),
                    opened = "none",
                    read = "empty",
                    answer = "none"
             PROVE  IInv
  BY DEF SharedInit
<1>1. TypeOK
  BY WritersAssumption, SwapsAssumption DEF InitWith, TypeOK, Inodes, Objects
<1>2. TheirContents
  BY WritersAssumption DEF InitWith, TheirContents, Inodes
<1>3. ASSUME NEW w \in Writers PROVE WriterInv(w)
  BY WritersAssumption
     DEF InitWith, WriterInv, Descriptors, Stored, Branches, Published, Objects
<1>4. LoaderInv
  BY WritersAssumption DEF LoaderInv, Contents
<1> QED
  BY <1>1, <1>2, <1>3, <1>4 DEF IInv

-----------------------------------------------------------------------------
(* A step of a writer touches nothing of the others' but the name at the    *)
(* path, which it can only make its own.                                    *)
TouchesOnly(w) ==
    /\ \A v \in Writers \ {w} :
         /\ content'[v] = content[v]
         /\ fd'[v] = fd[v]
         /\ pc'[v] = pc[v]
         /\ outcome'[v] = outcome[v]
         /\ v \in temp' <=> v \in temp
    /\ path' \in {path, w}
    /\ content'["file"] = content["file"]
    /\ content'["target"] = content["target"]
    /\ writable' = writable

LEMMA StepTouchesOnly ==
    ASSUME IInv, NEW w \in Writers, Step(w) \/ Killed(w)
    PROVE  TouchesOnly(w)
<1> USE WritersAssumption DEF IInv, TypeOK, TouchesOnly, Inodes, Goes, Returns, Refuses
<1>own. /\ Descriptors(w)
        /\ w \notin {"file", "target"}
  BY DEF WriterInv
<1>1. CASE CannotStart(w) \/ LstatRefuses(w) \/ LstatPasses(w)
  BY <1>1 DEF CannotStart, LstatRefuses, LstatPasses
<1>2. CASE Create(w) \/ CreateFails(w)
  BY <1>2, <1>own DEF Create, CreateFails
<1>3. CASE CreateTemp(w) \/ CreateTempFails(w) \/ Chmod(w) \/ ChmodFails(w)
  BY <1>3, <1>own DEF CreateTemp, CreateTempFails, Chmod, ChmodFails
<1>4. CASE WriteSome(w) \/ WriteAll(w)
  BY <1>4, <1>own DEF WriteSome, WriteAll, Descriptors
<1>5. CASE WriteFails(w)
  BY <1>5 DEF WriteFails, AfterError
<1>6. CASE Close(w) \/ CloseFails(w)
  BY <1>6, <1>own DEF Close, CloseFails, AfterError, Descriptors
<1>7. CASE Rename(w) \/ RenameFails(w) \/ Cleanup(w)
  BY <1>7 DEF Rename, RenameFails, Cleanup
<1>8. CASE Killed(w)
  BY <1>8 DEF Killed
<1> QED
  BY <1>1, <1>2, <1>3, <1>4, <1>5, <1>6, <1>7, <1>8 DEF Step

LEMMA StepKeepsTypes ==
    ASSUME IInv, NEW w \in Writers, Step(w) \/ Killed(w)
    PROVE  TypeOK'
<1> USE WritersAssumption DEF IInv, TypeOK, Goes, Returns, Refuses
<1>own. /\ Descriptors(w)
        /\ Branches(w)
        /\ w \in Inodes
  BY DEF WriterInv, Inodes
<1>1. CASE CannotStart(w) \/ LstatRefuses(w) \/ LstatPasses(w)
  BY <1>1 DEF CannotStart, LstatRefuses, LstatPasses
<1>2. CASE Create(w) \/ CreateFails(w)
  BY <1>2, <1>own DEF Create, CreateFails
<1>3. CASE CreateTemp(w) \/ CreateTempFails(w) \/ Chmod(w) \/ ChmodFails(w)
  BY <1>3, <1>own DEF CreateTemp, CreateTempFails, Chmod, ChmodFails, Branches
<1>4. CASE WriteSome(w) \/ WriteAll(w)
  BY <1>4, <1>own DEF WriteSome, WriteAll, Descriptors
<1>5. CASE WriteFails(w)
  BY <1>5 DEF WriteFails, AfterError
<1>6. CASE Close(w) \/ CloseFails(w)
  BY <1>6, <1>own DEF Close, CloseFails, AfterError, Descriptors
<1>7. CASE Rename(w) \/ RenameFails(w) \/ Cleanup(w)
  BY <1>7 DEF Rename, RenameFails, Cleanup
<1>8. CASE Killed(w)
  BY <1>8 DEF Killed
<1> QED
  BY <1>1, <1>2, <1>3, <1>4, <1>5, <1>6, <1>7, <1>8 DEF Step

(* The writer's own part of the invariant, action by action.                *)
LEMMA StepKeepsOwn ==
    ASSUME IInv, NEW w \in Writers, Step(w) \/ Killed(w), UNCHANGED loader
    PROVE  WriterInv(w)'
<1> USE WritersAssumption
        DEF Goes, Returns, Refuses, WriterInv, Descriptors, Stored, Branches, Published
<1>own. WriterInv(w)
  BY DEF IInv
<1>type. /\ TypeOK
         /\ w \notin Objects \cup {"absent", "none"}
         /\ opened' = opened
  BY DEF IInv, loader, Objects
<1>1. CASE CannotStart(w) \/ LstatRefuses(w)
  BY <1>1, <1>own, <1>type DEF CannotStart, LstatRefuses, TypeOK
<1>2. CASE LstatPasses(w)
  BY <1>2, <1>own, <1>type DEF LstatPasses, TypeOK
<1>3. CASE Create(w) \/ CreateFails(w)
  BY <1>3, <1>own, <1>type DEF Create, CreateFails, TypeOK, Inodes
<1>4. CASE CreateTemp(w) \/ CreateTempFails(w)
  BY <1>4, <1>own, <1>type DEF CreateTemp, CreateTempFails, TypeOK, Inodes
<1>5. CASE Chmod(w) \/ ChmodFails(w)
  BY <1>5, <1>own, <1>type DEF Chmod, ChmodFails, TypeOK
<1>6. CASE WriteSome(w) \/ WriteAll(w)
  BY <1>6, <1>own, <1>type DEF WriteSome, WriteAll, TypeOK, Inodes
<1>7. CASE WriteFails(w)
  BY <1>7, <1>own, <1>type DEF WriteFails, AfterError, TypeOK
<1>8. CASE Close(w)
  BY <1>8, <1>own, <1>type DEF Close, TypeOK
<1>9. CASE CloseFails(w)
  BY <1>9, <1>own, <1>type DEF CloseFails, AfterError, TypeOK, Inodes
<1>10. CASE Rename(w) \/ RenameFails(w)
  BY <1>10, <1>own, <1>type DEF Rename, RenameFails, TypeOK
<1>11. CASE Cleanup(w)
  BY <1>11, <1>own, <1>type DEF Cleanup, TypeOK
<1>12. CASE Killed(w)
  BY <1>12, <1>own, <1>type DEF Killed, TypeOK
<1> QED
  BY <1>1, <1>2, <1>3, <1>4, <1>5, <1>6, <1>7, <1>8, <1>9, <1>10, <1>11, <1>12 DEF Step

(* The other writers'.                                                      *)
LEMMA StepKeepsOthers ==
    ASSUME IInv, NEW w \in Writers, TouchesOnly(w), UNCHANGED loader,
           NEW v \in Writers \ {w}
    PROVE  WriterInv(v)'
<1>1. WriterInv(v)
  BY DEF IInv
<1> QED
  BY <1>1 DEF TouchesOnly, loader, WriterInv, Descriptors, Stored, Branches, Published

-----------------------------------------------------------------------------
(* Steps of the loader change nothing but the loader.  A forced document    *)
(* it opens is one the path names, so a finished one.                       *)
LEMMA LoadStepKeeps == IInv /\ LoadStep => IInv'
<1> SUFFICES ASSUME IInv, LoadStep PROVE IInv'
  OBVIOUS
<1>1. UNCHANGED vars
  BY DEF LoadStep, Open, OpenFails, StatRefuses, StatPasses, ReadSome, ReadEnds, ReadFails
<1>2. TypeOK' /\ TheirContents'
  BY <1>1 DEF IInv, TypeOK, TheirContents, vars
<1>3. opened' \in {opened, path, "none"}
  BY DEF LoadStep, Open, OpenFails, StatRefuses, StatPasses, ReadSome, ReadEnds, ReadFails
<1>4. ASSUME NEW w \in Writers PROVE WriterInv(w)'
  <2>1. WriterInv(w) /\ w # "none"
    BY WritersAssumption DEF IInv
  <2> QED
    BY <1>1, <1>3, <2>1
       DEF vars, WriterInv, Descriptors, Stored, Branches, Published
<1>5. LoaderInv'
  <2> USE WritersAssumption DEF LoaderInv, LoadReturns
  <2>inv. LoaderInv
    BY DEF IInv
  <2>1. CASE Open
    BY <1>1, <2>1, <2>inv DEF Open, IInv, TypeOK, Inodes, Objects
  <2>2. CASE OpenFails
    BY <2>2, <2>inv DEF OpenFails
  <2>3. CASE StatRefuses
    BY <2>3, <2>inv DEF StatRefuses
  <2>4. CASE StatPasses
    BY <2>4, <2>inv DEF StatPasses, Inodes
  <2>5. CASE ReadSome
    BY <2>5, <2>inv DEF ReadSome, IInv, TypeOK, Inodes, Contents
  <2>6. CASE ReadEnds
    <3>1. opened \in Forced => content[opened] = "whole"
      BY DEF IInv, WriterInv, Published
    <3> QED
      BY <2>6, <2>inv, <3>1 DEF ReadEnds
  <2>7. CASE ReadFails
    BY <2>7, <2>inv DEF ReadFails
  <2> QED
    BY <2>1, <2>2, <2>3, <2>4, <2>5, <2>6, <2>7 DEF LoadStep
<1> QED
  BY <1>2, <1>4, <1>5 DEF IInv

(* What others do at the path never puts a capture's document there.        *)
LEMMA OthersKeep == IInv /\ (Swap \/ Protect) /\ UNCHANGED loader => IInv'
<1> SUFFICES ASSUME IInv, Swap \/ Protect, UNCHANGED loader PROVE IInv'
  OBVIOUS
<1>1. TypeOK' /\ TheirContents'
  <2>1. CASE Swap
    <3>1. swaps' \in 0..MaxSwaps
      BY <2>1, SwapsAssumption DEF IInv, TypeOK, Swap
    <3> QED
      BY <2>1, <3>1 DEF IInv, TypeOK, TheirContents, Swap
  <2>2. CASE Protect
    BY <2>2 DEF IInv, TypeOK, TheirContents, Protect
  <2> QED
    BY <2>1, <2>2
<1>2. path' \in {path, "absent"} \cup Objects
  BY DEF Swap, Protect
<1>3. ASSUME NEW w \in Writers PROVE WriterInv(w)'
  <2>1. WriterInv(w) /\ w \notin {"absent"} \cup Objects
    BY WritersAssumption DEF IInv, Objects
  <2> QED
    BY <1>2, <2>1
       DEF Swap, Protect, loader, WriterInv, Descriptors, Stored, Branches, Published
<1>4. LoaderInv'
  BY DEF IInv, LoaderInv, loader
<1> QED
  BY <1>1, <1>3, <1>4 DEF IInv

LEMMA NextKeepsIInv == IInv /\ [SharedNext]_sharedVars => IInv'
<1> SUFFICES ASSUME IInv, [SharedNext]_sharedVars PROVE IInv'
  OBVIOUS
<1>1. ASSUME NEW w \in Writers, Step(w) \/ Killed(w), UNCHANGED loader
      PROVE  IInv'
  <2>1. TypeOK' /\ TouchesOnly(w) /\ WriterInv(w)'
    BY <1>1, StepKeepsTypes, StepTouchesOnly, StepKeepsOwn
  <2>2. \A v \in Writers \ {w} : WriterInv(v)'
    BY <1>1, <2>1, StepKeepsOthers
  <2>3. TheirContents' /\ LoaderInv'
    BY <1>1, <2>1 DEF IInv, TheirContents, TouchesOnly, LoaderInv, loader
  <2> QED
    BY <2>1, <2>2, <2>3 DEF IInv
<1>2. CASE LoadStep
  BY <1>2, LoadStepKeeps
<1>3. CASE (Swap \/ Protect) /\ UNCHANGED loader
  BY <1>3, OthersKeep
<1>4. CASE UNCHANGED sharedVars
  BY <1>4 DEF sharedVars, vars, loader, IInv, TypeOK, TheirContents, WriterInv,
              Descriptors, Stored, Branches, Published, LoaderInv
<1> QED
  BY <1>1, <1>2, <1>3, <1>4 DEF SharedNext, WriterStep, Finished, sharedVars

LEMMA InductiveInvariant == SharedSpec => []IInv
<1> QED
  BY InitiallyIInv, NextKeepsIInv, PTL DEF SharedSpec

-----------------------------------------------------------------------------
(* Every variable keeps its type (capture.go, Write).                       *)
THEOREM TypeCorrect == SharedSpec => []TypeOK
<1>1. IInv => TypeOK
  BY DEF IInv
<1> QED
  BY <1>1, InductiveInvariant, PTL

(* No capture ever writes into an object of somebody else's.                *)
THEOREM OthersUntouched == SharedSpec => []OthersKeepTheirContents
<1>1. IInv => OthersKeepTheirContents
  BY DEF IInv, TheirContents, WriterInv, Descriptors, OthersKeepTheirContents
<1> QED
  BY <1>1, InductiveInvariant, PTL

(* What a forced capture puts at the path is whole and closed, at every     *)
(* instant and through kills and failures of any other.                     *)
THEOREM ForceAtomic == SharedSpec => []ForceIsAtomic
<1>1. IInv => ForceIsAtomic
  BY WritersAssumption DEF IInv, WriterInv, Published, ForceIsAtomic
<1> QED
  BY <1>1, InductiveInvariant, PTL

(* No failure of write or close is reported as success.                     *)
THEOREM SuccessStored == SharedSpec => []SuccessMeansStored
<1>1. IInv => SuccessMeansStored
  BY DEF IInv, WriterInv, Stored, SuccessMeansStored
<1> QED
  BY <1>1, InductiveInvariant, PTL

(* A forced capture that returns leaves no temporary file, unless the       *)
(* directory does not let it remove one.                                    *)
THEOREM TemporariesGone == SharedSpec => []TemporariesRemoved
<1>1. IInv => TemporariesRemoved
  BY WritersAssumption DEF IInv, TypeOK, WriterInv, Branches, TemporariesRemoved
<1> QED
  BY <1>1, InductiveInvariant, PTL

(* A verify never parses a part of a document that replaces another.        *)
THEOREM ReadWhole == SharedSpec => []ReplacedFileIsReadWhole
<1>1. IInv => ReplacedFileIsReadWhole
  BY DEF IInv, LoaderInv, ReplacedFileIsReadWhole
<1> QED
  BY <1>1, InductiveInvariant, PTL

(* A verify reads a regular file at the path, never through a link.         *)
THEOREM PathRead == SharedSpec => []OnlyThePathIsRead
<1>1. IInv => OnlyThePathIsRead
  BY DEF IInv, LoaderInv, OnlyThePathIsRead
<1> QED
  BY <1>1, InductiveInvariant, PTL

(* Whatever changes at the path meanwhile, a capture without --force takes  *)
(* it only from nothing.                                                    *)
THEOREM NothingOverwritten == SharedSpec => NeverOverwritesUnasked
<1>1. ASSUME IInv, [SharedNext]_sharedVars,
             NEW w \in Writers \ Forced, pc'[w] # pc[w], path' # path
      PROVE  path = "absent" /\ path' = w
  <2>1. Branches(w) /\ TypeOK
    BY <1>1 DEF IInv, WriterInv
  <2>2. PICK v \in Writers : Step(v) \/ Killed(v)
    BY <1>1 DEF SharedNext, WriterStep, Swap, Protect, LoadStep, Open, OpenFails, StatRefuses,
                StatPasses, ReadSome, ReadEnds, ReadFails, Finished, sharedVars, vars
  <2>3. v = w
    BY <1>1, <2>2, StepTouchesOnly DEF TouchesOnly
  <2>4. CASE Create(w)
    BY <2>4 DEF Create
  <2>5. CASE ~Create(w)
    BY <1>1, <2>1, <2>2, <2>3, <2>5
       DEF Step, Killed, CannotStart, LstatRefuses, LstatPasses, CreateFails, CreateTemp,
           CreateTempFails, Chmod, ChmodFails, WriteSome, WriteAll, WriteFails, Close, CloseFails,
           Rename, RenameFails, Cleanup, Refuses, Branches
  <2> QED
    BY <2>4, <2>5
<1>2. IInv /\ [SharedNext]_sharedVars =>
        [\A w \in Writers \ Forced :
           pc'[w] # pc[w] /\ path' # path => path = "absent" /\ path' = w]_vars
  BY <1>1
<1> QED
  BY <1>2, InductiveInvariant, PTL DEF SharedSpec, NeverOverwritesUnasked
=============================================================================
