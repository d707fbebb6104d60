---------------------------- MODULE CaptureWrite ----------------------------
(***************************************************************************)
(* capture.Write (internal/capture): several "womm capture" processes      *)
(* store a document at the same path while other programs of the machine   *)
(* put things of their own there.                                          *)
(*                                                                         *)
(* A writer's document is one inode, named after the writer.  What others  *)
(* put at the path are objects with contents of their own; a writer can    *)
(* change an object only through a descriptor open on it, which is why the *)
(* descriptor is part of the state.  Each system call is one step, write   *)
(* is several: it fills the file gradually.                                *)
(***************************************************************************)
EXTENDS Naturals

CONSTANTS
    Writers,        \* running "womm capture" commands
    Forced,         \* those with --force
    MaxSwaps        \* how often others change what is at the path

ASSUME WritersAssumption ==
    /\ Forced \subseteq Writers
    /\ Writers \cap {"absent", "none", "file", "target",
                     "symlink", "fifo", "directory"} = {}
ASSUME SwapsAssumption == MaxSwaps \in Nat

\* What others may put at the path; "symlink" leads to "target".
Objects == {"file", "symlink", "fifo", "directory"}

\* Everything with contents a descriptor can change.
Inodes == Writers \cup {"file", "target"}

VARIABLES
    path,       \* what the path names: "absent", an object, a writer's document
    temp,       \* the writers whose temporary name exists
    content,    \* of each inode: "nothing", "empty", "partial", "whole", "theirs"
    fd,         \* the inode each writer has open, or "none"
    pc,         \* where each writer is
    outcome,    \* what Write returned to it
    writable,   \* the directory admits changes
    swaps       \* changes others have made at the path

vars == <<path, temp, content, fd, pc, outcome, writable, swaps>>

-----------------------------------------------------------------------------
Goes(w, next) == pc' = [pc EXCEPT ![w] = next]

Returns(w, what) ==
    /\ Goes(w, "done")
    /\ outcome' = [outcome EXCEPT ![w] = what]

\* Write fails before it has created anything.
Refuses(w, why) ==
    /\ Returns(w, why)
    /\ UNCHANGED <<path, temp, content, fd, writable, swaps>>

\* Marshal, or the Parse of what it made, fails; so may Lstat itself.
CannotStart(w) ==
    /\ pc[w] = "lstat"
    /\ Refuses(w, "failed")

LstatRefuses(w) ==
    /\ pc[w] = "lstat"
    /\ \/ path = "symlink" /\ Refuses(w, "symlink")
       \/ path \notin {"absent", "symlink"} /\ w \notin Forced /\ Refuses(w, "exists")
       \/ path \in {"fifo", "directory"} /\ w \in Forced /\ Refuses(w, "failed")

\* A bug the checks must find: the two branches of force are exchanged.
ForceInverted(w) ==
    /\ pc[w] = "lstat"
    /\ path \in {"absent"} \cup (IF w \in Forced THEN {"file"} \cup Writers ELSE {})
    /\ Goes(w, IF w \in Forced THEN "create" ELSE "temp")
    /\ UNCHANGED <<path, temp, content, fd, outcome, writable, swaps>>

LstatPasses(w) ==
    /\ pc[w] = "lstat"
    /\ path \in {"absent"} \cup (IF w \in Forced THEN {"file"} \cup Writers ELSE {})
    /\ Goes(w, IF w \in Forced THEN "temp" ELSE "create")
    /\ UNCHANGED <<path, temp, content, fd, outcome, writable, swaps>>

-----------------------------------------------------------------------------
(* createExclusive.                                                        *)

\* A bug the checks must find: O_TRUNC where O_EXCL should be.
CreateTruncating(w) ==
    LET opened == CASE path = "absent"  -> w
                    [] path = "symlink" -> "target"
                    [] OTHER            -> path
    IN /\ pc[w] = "create"
       /\ writable
       /\ path \notin {"fifo", "directory"}
       /\ path' = IF path = "absent" THEN w ELSE path
       /\ content' = [content EXCEPT ![opened] = "empty"]
       /\ fd' = [fd EXCEPT ![w] = opened]
       /\ Goes(w, "write")
       /\ UNCHANGED <<temp, outcome, writable, swaps>>

\* A bug the checks must find: whatever came up at the path in between is
\* removed and the document put in its place.
CreateInstead(w) ==
    /\ pc[w] = "create"
    /\ writable
    /\ path # "directory"
    /\ path' = w
    /\ content' = [content EXCEPT ![w] = "empty"]
    /\ fd' = [fd EXCEPT ![w] = w]
    /\ Goes(w, "write")
    /\ UNCHANGED <<temp, outcome, writable, swaps>>

\* O_CREAT|O_EXCL|O_NOFOLLOW.
Create(w) ==
    /\ pc[w] = "create"
    /\ path = "absent"
    /\ writable
    /\ path' = w
    /\ content' = [content EXCEPT ![w] = "empty"]
    /\ fd' = [fd EXCEPT ![w] = w]
    /\ Goes(w, "write")
    /\ UNCHANGED <<temp, outcome, writable, swaps>>

\* EEXIST for anything at the path, links included (ELOOP never comes).
CreateFails(w) ==
    /\ pc[w] = "create"
    /\ IF path # "absent" THEN Refuses(w, "exists") ELSE Refuses(w, "failed")

-----------------------------------------------------------------------------
(* replaceAtomically.                                                      *)

CreateTemp(w) ==
    /\ pc[w] = "temp"
    /\ writable
    /\ temp' = temp \cup {w}
    /\ content' = [content EXCEPT ![w] = "empty"]
    /\ fd' = [fd EXCEPT ![w] = w]
    /\ Goes(w, "chmod")
    /\ UNCHANGED <<path, outcome, writable, swaps>>

CreateTempFails(w) ==
    /\ pc[w] = "temp"
    /\ Refuses(w, "failed")

\* A bug the checks must find: the new file is moved into place first, so
\* that the document is written where a crash can cut it short.
RenameThenWrite(w) ==
    /\ pc[w] = "chmod"
    /\ writable
    /\ path # "directory"
    /\ path' = w
    /\ temp' = temp \ {w}
    /\ Goes(w, "write")
    /\ UNCHANGED <<content, fd, outcome, writable, swaps>>

Chmod(w) ==
    /\ pc[w] = "chmod"
    /\ Goes(w, "write")
    /\ UNCHANGED <<path, temp, content, fd, outcome, writable, swaps>>

ChmodFails(w) ==
    /\ pc[w] = "chmod"
    /\ fd' = [fd EXCEPT ![w] = "none"]
    /\ Goes(w, "cleanup")
    /\ UNCHANGED <<path, temp, content, outcome, writable, swaps>>

\* rename(2) takes the place of anything but a directory.
Rename(w) ==
    /\ pc[w] = "rename"
    /\ writable
    /\ path # "directory"
    /\ path' = w
    /\ temp' = temp \ {w}
    /\ Returns(w, "written")
    /\ UNCHANGED <<content, fd, writable, swaps>>

\* A bug the checks must find: no cleanup after a failed rename.
RenameFailsUncleaned(w) ==
    /\ pc[w] = "rename"
    /\ Refuses(w, "failed")

RenameFails(w) ==
    /\ pc[w] = "rename"
    /\ Goes(w, "cleanup")
    /\ UNCHANGED <<path, temp, content, fd, outcome, writable, swaps>>

\* os.Remove may fail too; nothing is said about it.
Cleanup(w) ==
    /\ pc[w] = "cleanup"
    /\ temp' = IF writable THEN temp \ {w} ELSE temp
    /\ Returns(w, "failed")
    /\ UNCHANGED <<path, content, fd, writable, swaps>>

-----------------------------------------------------------------------------
(* writeAndClose, and what its caller does with its error.                 *)

\* After an error the forced writer removes its temporary file; the other
\* returns as it is.
AfterError(w) ==
    IF w \in Forced
    THEN Goes(w, "cleanup") /\ UNCHANGED outcome
    ELSE Returns(w, "failed")

WriteSome(w) ==
    /\ pc[w] = "write"
    /\ content[fd[w]] = "empty"
    /\ content' = [content EXCEPT ![fd[w]] = "partial"]
    /\ UNCHANGED <<path, temp, fd, pc, outcome, writable, swaps>>

WriteAll(w) ==
    /\ pc[w] = "write"
    /\ content' = [content EXCEPT ![fd[w]] = "whole"]
    /\ Goes(w, "close")
    /\ UNCHANGED <<path, temp, fd, outcome, writable, swaps>>

\* A bug the checks must find: a failed write starts over.
WriteRetried(w) ==
    /\ pc[w] = "write"
    /\ content' = [content EXCEPT ![fd[w]] = "empty"]
    /\ UNCHANGED <<path, temp, fd, pc, outcome, writable, swaps>>

\* The disk is full, or fails; what was written stays.
WriteFails(w) ==
    /\ pc[w] = "write"
    /\ fd' = [fd EXCEPT ![w] = "none"]
    /\ AfterError(w)
    /\ UNCHANGED <<path, temp, content, writable, swaps>>

Close(w) ==
    /\ pc[w] = "close"
    /\ fd' = [fd EXCEPT ![w] = "none"]
    /\ IF w \in Forced
       THEN Goes(w, "rename") /\ UNCHANGED outcome
       ELSE Returns(w, "written")
    /\ UNCHANGED <<path, temp, content, writable, swaps>>

\* A bug the checks must find: the error of Close is dropped.
CloseErrorDropped(w) ==
    /\ pc[w] = "close"
    /\ content' = [content EXCEPT ![fd[w]] = "partial"]
    /\ fd' = [fd EXCEPT ![w] = "none"]
    /\ IF w \in Forced
       THEN Goes(w, "rename") /\ UNCHANGED outcome
       ELSE Returns(w, "written")
    /\ UNCHANGED <<path, temp, writable, swaps>>

\* An error that write deferred (quota, network file system) shows here.
CloseFails(w) ==
    /\ pc[w] = "close"
    /\ content' = [content EXCEPT ![fd[w]] = "partial"]
    /\ fd' = [fd EXCEPT ![w] = "none"]
    /\ AfterError(w)
    /\ UNCHANGED <<path, temp, writable, swaps>>

-----------------------------------------------------------------------------
(* The machine: writers are killed, others change the directory.           *)

Killed(w) ==
    /\ pc[w] \notin {"done", "killed"}
    /\ Goes(w, "killed")
    /\ fd' = [fd EXCEPT ![w] = "none"]
    /\ UNCHANGED <<path, temp, content, outcome, writable, swaps>>

Swap ==
    /\ swaps < MaxSwaps
    /\ path' \in ({"absent"} \cup Objects) \ {path}
    /\ swaps' = swaps + 1
    /\ UNCHANGED <<temp, content, fd, pc, outcome, writable>>

Protect ==
    /\ writable
    /\ writable' = FALSE
    /\ UNCHANGED <<path, temp, content, fd, pc, outcome, swaps>>

Finished ==
    /\ \A w \in Writers : pc[w] \in {"done", "killed"}
    /\ UNCHANGED vars

-----------------------------------------------------------------------------
\* Captures that are not run have nothing to do.
InitWith(running) ==
    /\ path \in {"absent"} \cup Objects
    /\ temp = {}
    /\ content = [i \in Inodes |-> IF i \in Writers THEN "nothing" ELSE "theirs"]
    /\ fd = [w \in Writers |-> "none"]
    /\ pc = [w \in Writers |-> IF w \in running THEN "lstat" ELSE "done"]
    /\ outcome = [w \in Writers |-> "none"]
    /\ writable = TRUE
    /\ swaps = 0

Init == InitWith(Writers)

\* Every branch of the code, failures included.
Step(w) ==
    \/ CannotStart(w) \/ LstatRefuses(w) \/ LstatPasses(w)
    \/ Create(w) \/ CreateFails(w)
    \/ CreateTemp(w) \/ CreateTempFails(w) \/ Chmod(w) \/ ChmodFails(w)
    \/ WriteSome(w) \/ WriteAll(w) \/ WriteFails(w) \/ Close(w) \/ CloseFails(w)
    \/ Rename(w) \/ RenameFails(w) \/ Cleanup(w)

Next ==
    \/ \E w \in Writers : Step(w) \/ Killed(w)
    \/ Swap \/ Protect \/ Finished

\* A process that is not killed goes on; nothing else is promised.
Spec == Init /\ [][Next]_vars /\ \A w \in Writers : WF_vars(Step(w))

-----------------------------------------------------------------------------
TypeOK ==
    /\ path \in {"absent"} \cup Objects \cup Writers
    /\ temp \subseteq Forced
    /\ content \in [Inodes -> {"nothing", "empty", "partial", "whole", "theirs"}]
    /\ fd \in [Writers -> Inodes \cup {"none"}]
    /\ pc \in [Writers -> {"lstat", "create", "temp", "chmod", "write", "close",
                           "rename", "cleanup", "done", "killed"}]
    /\ outcome \in [Writers -> {"none", "written", "exists", "symlink", "failed"}]
    /\ writable \in BOOLEAN
    /\ swaps \in 0..MaxSwaps

(* Without --force a capture takes the path only while nothing is there,    *)
(* whatever appeared since it looked: "whatever appears at path first wins" *)
(* (capture.go, Write).  A step of a writer is one that changes its pc.     *)
NeverOverwritesUnasked ==
    [][\A w \in Writers \ Forced :
         pc'[w] # pc[w] /\ path' # path => path = "absent" /\ path' = w]_vars

(* No capture writes into anything but its own document: not through a      *)
(* link, not into a file that was swapped in (capture.go: others "cannot    *)
(* make WOMM write through it [...] or write anywhere but path").           *)
OthersKeepTheirContents ==
    /\ content["file"] = "theirs" /\ content["target"] = "theirs"
    /\ \A w \in Writers : fd[w] \in {w, "none"}

(* With --force the path names the whole new document or what was there     *)
(* before, at every instant, through kills and failed writes alike: the     *)
(* document is complete and closed before the rename.                       *)
ForceIsAtomic ==
    path \in Forced => content[path] = "whole" /\ fd[path] = "none"

(* A capture that reports success has stored all of its document; no error  *)
(* of write or close is lost on the way.                                    *)
SuccessMeansStored ==
    \A w \in Writers : outcome[w] = "written" => content[w] = "whole"

(* A forced capture that returns, in whatever way, leaves no temporary file *)
(* behind as long as the directory lets it remove one (a killed one does).  *)
TemporariesRemoved ==
    writable => \A w \in temp : pc[w] # "done"

(* Nothing at the path can hold a capture up: it returns unless killed.     *)
Terminates == \A w \in Writers : <>(pc[w] \in {"done", "killed"})

-----------------------------------------------------------------------------
(* capture.go, Write: "The document is parsed back before being written, so *)
(* a file on disk is always one schema.Parse accepts".  Asked here only of  *)
(* captures that have returned, none of them killed.                        *)
FileAlwaysParses ==
    path \in Writers /\ pc[path] = "done" => content[path] = "whole"
=============================================================================
