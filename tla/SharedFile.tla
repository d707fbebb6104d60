----------------------------- MODULE SharedFile -----------------------------
(***************************************************************************)
(* schema.Load (internal/schema) at the path of CaptureWrite: a "womm      *)
(* verify" reads womm.yaml, system call by system call, while captures     *)
(* write it and other programs change what is at the path.                 *)
(*                                                                         *)
(* An open file is read until a read returns nothing: read is the part of  *)
(* it the loader has so far, which a writer may still be adding to.        *)
(***************************************************************************)
EXTENDS CaptureWrite

CONSTANTS
    Loader,         \* the running "womm verify"
    Mixes           \* which commands run: sets of writers, with or without it

ASSUME LoaderAssumption ==
    /\ Loader \notin Writers
    /\ Mixes \subseteq SUBSET (Writers \cup {Loader})

VARIABLES
    place,      \* of the loader: "open", "stat", "read", "done"
    opened,     \* what its descriptor is open on, or "none"
    read,       \* how much of it was read, as in content
    answer      \* what Load returned: "none", "data" for Parse, or an error

loader == <<place, opened, read, answer>>
sharedVars == <<vars, loader>>

LoadReturns(what) ==
    /\ place' = "done"
    /\ answer' = what

-----------------------------------------------------------------------------
\* Bugs the checks must find: O_NOFOLLOW, or O_NONBLOCK, is left out.
OpenFollowing ==
    /\ place = "open"
    /\ path # "absent"
    /\ opened' = IF path = "symlink" THEN "target" ELSE path
    /\ place' = "stat"
    /\ UNCHANGED <<vars, read, answer>>

OpenBlocking ==
    /\ place = "open"
    /\ path \notin {"absent", "symlink", "fifo"}
    /\ opened' = path
    /\ place' = "stat"
    /\ UNCHANGED <<vars, read, answer>>

\* O_NOFOLLOW and O_NONBLOCK: a directory and a FIFO are opened at once.
Open ==
    /\ place = "open"
    /\ path \notin {"absent", "symlink"}
    /\ opened' = path
    /\ place' = "stat"
    /\ UNCHANGED <<vars, read, answer>>

OpenFails ==
    /\ place = "open"
    /\ \/ path = "symlink" /\ LoadReturns("symlink")
       \/ path = "absent" /\ LoadReturns("missing")
       \/ path \in Inodes /\ LoadReturns("unreadable")
    /\ UNCHANGED <<vars, opened, read>>

\* The check is made on what was opened.
StatRefuses ==
    /\ place = "stat"
    /\ \/ opened \in {"fifo", "directory"} /\ LoadReturns("not regular")
       \/ opened \in Inodes /\ LoadReturns("unreadable")
    /\ opened' = "none"
    /\ UNCHANGED <<vars, read>>

StatPasses ==
    /\ place = "stat"
    /\ opened \in Inodes
    /\ place' = "read"
    /\ UNCHANGED <<vars, opened, read, answer>>

\* One read(2): what there is by now.
ReadSome ==
    /\ place = "read"
    /\ read # content[opened]
    /\ read' = content[opened]
    /\ UNCHANGED <<vars, place, opened, answer>>

\* A read returns nothing: the end, or so it seems.
ReadEnds ==
    /\ place = "read"
    /\ read = content[opened]
    /\ LoadReturns("data")
    /\ UNCHANGED <<vars, opened, read>>

\* An I/O error, or more than MaxFileBytes.
ReadFails ==
    /\ place = "read"
    /\ LoadReturns("unreadable")
    /\ UNCHANGED <<vars, opened, read>>

LoadStep ==
    \/ Open \/ OpenFails \/ StatRefuses \/ StatPasses
    \/ ReadSome \/ ReadEnds \/ ReadFails

-----------------------------------------------------------------------------
SharedInit ==
    \E mix \in Mixes :
        /\ InitWith(mix)
        /\ place = (IF Loader \in mix THEN "open" ELSE "done")
        /\ opened = "none"
        /\ read = "empty"
        /\ answer = "none"

WriterStep(w) == Step(w) /\ UNCHANGED loader

SharedNext ==
    \/ \E w \in Writers : WriterStep(w) \/ (Killed(w) /\ UNCHANGED loader)
    \/ (Swap \/ Protect) /\ UNCHANGED loader
    \/ LoadStep
    \/ Finished /\ UNCHANGED loader

\* As in CaptureWrite; the loader goes on too.
SharedSpec ==
    /\ SharedInit /\ [][SharedNext]_sharedVars
    /\ \A w \in Writers : WF_sharedVars(WriterStep(w))
    /\ WF_sharedVars(LoadStep)

-----------------------------------------------------------------------------
(* A verify that overlaps a capture with --force reads a whole document or  *)
(* none: whatever the capture does after the open, and wherever it is       *)
(* killed or fails, what was opened at the path does not change any more    *)
(* (capture.go, replaceAtomically, with load.go).                           *)
ReplacedFileIsReadWhole ==
    (opened \in Forced /\ answer = "data") => read = "whole"

(* Load reads nothing but what is at the path itself, whenever a link is    *)
(* swapped in, and never anything but a regular file (load.go: the open     *)
(* itself refuses to follow a symlink, the opened inode gets checked).      *)
OnlyThePathIsRead ==
    /\ opened # "target"
    /\ (place = "read" \/ answer = "data") => opened \in {"file"} \cup Writers

(* Nothing that is put at the path keeps Load from returning (load.go: it   *)
(* cannot block).                                                           *)
LoadTerminates == <>(place = "done")
=============================================================================
