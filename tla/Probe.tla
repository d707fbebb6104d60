------------------------------- MODULE Probe --------------------------------
(***************************************************************************)
(* One version probe: NodeInspector.probe and killAdoptedDescendants       *)
(* (internal/inspect/node), over the os/exec package and the kernel's      *)
(* process table.                                                          *)
(*                                                                         *)
(* The probe's goroutine starts the tool, waits for it, waits for the      *)
(* goroutine that watches the context and for the one that copies the      *)
(* output, and sweeps up what is left.  The tool and its descendants fork, *)
(* leave their process group, close the output pipe and exit whenever they *)
(* like; nothing is assumed of them, not even that they ever end.          *)
(*                                                                         *)
(* os/exec is external: its part follows exec.Cmd as this program sets it  *)
(* up (Cancel, WaitDelay, one output writer).  Process identifiers are not *)
(* reused: killed children stay zombies while WOMM runs.                   *)
(***************************************************************************)
EXTENDS Naturals, FiniteSets

CONSTANTS
    Leader,         \* the process cmd.Start forks
    Descendants,    \* processes below it that may come to exist
    Elevating,      \* those that may change their credentials, as sudo does
    Subreaper,      \* PR_SET_CHILD_SUBREAPER is in effect
    PidOne          \* WOMM is process 1 of its namespace

ASSUME SweepAssumption == Subreaper \in BOOLEAN /\ PidOne \in BOOLEAN
ASSUME ProcessesAssumption ==
    /\ Leader \notin Descendants
    /\ Elevating \subseteq Descendants
    /\ {"womm", "init", "none"} \cap ({Leader} \cup Descendants) = {}

VARIABLES
    status,     \* "unborn", "alive" or "dead" (a zombie, or gone)
    parent,     \* the parent in the process table
    ingroup,    \* is in the process group of the probe
    pipe,       \* holds the write end of the output pipe
    code,       \* how the leader ended
    pctx,       \* the probe's context
    pc,         \* where the probe's goroutine is
    err,        \* cmd.Run has an error to report
    watcher,    \* watchCtx: the goroutine that waits for the context
    copier,     \* the goroutine that copies the output
    listing,    \* pids of the /proc listing still to be read
    victims,    \* pids childrenOf returned, still to be killed
    killed,     \* this sweep round killed something
    missed,     \* pids this sweep round could not read or kill
    timeup,     \* the sweep's deadline has passed
    disturbed,  \* a process acted while the sweep ran
    result      \* what probe returns

processVars == <<status, parent, ingroup, pipe, code>>
runVars     == <<err, watcher, copier>>
sweepVars   == <<listing, victims, killed, missed, timeup>>
vars == <<processVars, disturbed, pctx, pc, runVars, sweepVars, result>>

Procs == {Leader} \cup Descendants

Alive == {p \in Procs : status[p] = "alive"}

\* Orphans go to the nearest subreaper above them, else to init.
Reaper == IF Subreaper \/ PidOne THEN "womm" ELSE "init"

SweepPcs == {"sweep", "read", "kill"}

-----------------------------------------------------------------------------
(* The kernel.  Killed and exiting processes lose their pipe, and their    *)
(* children get a new parent, in one step.                                 *)

Ends(S, how) ==
    /\ status' = [p \in Procs |-> IF p \in S THEN "dead" ELSE status[p]]
    /\ parent' = [p \in Procs |-> IF parent[p] \in S THEN Reaper ELSE parent[p]]
    /\ pipe' = [p \in Procs |-> pipe[p] /\ p \notin S]
    /\ code' = IF Leader \in S THEN how ELSE code
    /\ UNCHANGED ingroup

\* A signal to a group reaches those that WOMM has the permission to signal.
Kill(S) ==
    \E spared \in SUBSET (S \cap Alive \cap Elevating) :
        Ends((S \cap Alive) \ spared, "killed")

-----------------------------------------------------------------------------
(* The tool and its descendants.                                           *)

Acts(p) ==
    /\ p \in Alive
    /\ pc # "done"
    /\ disturbed' = (disturbed \/ pc \in SweepPcs \cup {"classify"})

\* Credentials are inherited.
Fork(p) ==
    /\ Acts(p)
    /\ \E q \in IF p \in Elevating THEN Elevating ELSE Descendants :
         /\ status[q] = "unborn"
         /\ status' = [status EXCEPT ![q] = "alive"]
         /\ parent' = [parent EXCEPT ![q] = p]
         /\ ingroup' = [ingroup EXCEPT ![q] = ingroup[p]]
         /\ pipe' = [pipe EXCEPT ![q] = pipe[p]]
    /\ UNCHANGED <<code, pctx, pc, runVars, sweepVars, result>>

\* setsid, or setpgid into another group of the session.
LeaveGroup(p) ==
    /\ Acts(p)
    /\ ingroup[p]
    /\ ingroup' = [ingroup EXCEPT ![p] = FALSE]
    /\ UNCHANGED <<status, parent, pipe, code, pctx, pc, runVars, sweepVars, result>>

ClosePipe(p) ==
    /\ Acts(p)
    /\ pipe[p]
    /\ pipe' = [pipe EXCEPT ![p] = FALSE]
    /\ UNCHANGED <<status, parent, ingroup, code, pctx, pc, runVars, sweepVars, result>>

Exit(p) ==
    /\ Acts(p)
    /\ \E how \in {"success", "failure"} : Ends({p}, how)
    /\ UNCHANGED <<pctx, pc, runVars, sweepVars, result>>

Tool == \E p \in Procs : Fork(p) \/ LeaveGroup(p) \/ ClosePipe(p) \/ Exit(p)

-----------------------------------------------------------------------------
(* The context: context.WithTimeout(ctx, probeTimeout).                    *)

ContextEnds(how) ==
    /\ pctx = "live"
    /\ pc # "done"
    /\ pctx' = how
    /\ UNCHANGED <<processVars, disturbed, pc, runVars, sweepVars, result>>

Deadline     == ContextEnds("deadline")
ParentCancel == ContextEnds("cancelled")

-----------------------------------------------------------------------------
(* cmd.Run: Start, then Wait.                                              *)

\* The leader gets a process group of its own (Setpgid).
Start ==
    /\ pc = "start"
    /\ pctx = "live"
    /\ status' = [status EXCEPT ![Leader] = "alive"]
    /\ parent' = [parent EXCEPT ![Leader] = "womm"]
    /\ ingroup' = [ingroup EXCEPT ![Leader] = TRUE]
    /\ pipe' = [pipe EXCEPT ![Leader] = TRUE]
    /\ pc' = "wait"
    /\ watcher' = "watching"
    /\ copier' = "copying"
    /\ UNCHANGED <<code, disturbed, pctx, err, sweepVars, result>>

\* The context is done already, or execve refuses the file.
StartFails ==
    /\ pc = "start"
    /\ err' = TRUE
    /\ pc' = "sweep"
    /\ UNCHANGED <<processVars, disturbed, pctx, watcher, copier, sweepVars, result>>

\* Process.Wait: an unsuccessful exit is the error to report.
Reap ==
    /\ pc = "wait"
    /\ status[Leader] = "dead"
    /\ err' = (code # "success")
    /\ pc' = "watch"
    /\ UNCHANGED <<processVars, disturbed, pctx, watcher, copier, sweepVars, result>>

\* The watcher has nothing to say, or hands over its error.
JoinWatcher ==
    /\ pc = "watch"
    /\ err' = (err \/ watcher # "watching")
    /\ pc' = "copy"
    /\ watcher' = "joined"
    /\ UNCHANGED <<processVars, disturbed, pctx, copier, sweepVars, result>>

JoinCopier ==
    /\ pc = "copy"
    /\ copier # "copying"
    /\ pc' = "sweep"
    /\ UNCHANGED <<processVars, disturbed, pctx, runVars, sweepVars, result>>

\* A bug the checks must find: WaitDelay is left at zero.
NoWaitDelay == FALSE

\* cmd.WaitDelay bounds what follows the end of the leader or the kill.
HasWaitDelay == TRUE

\* The output pipe is still held: Wait closes its end and reports that.
CopyDelay ==
    /\ pc = "copy"
    /\ HasWaitDelay
    /\ copier = "copying"
    /\ copier' = "cut"
    /\ err' = TRUE
    /\ UNCHANGED <<processVars, disturbed, pctx, pc, watcher, sweepVars, result>>

\* End of file: nobody holds the write end any more.
CopyEnds ==
    /\ copier = "copying"
    /\ \A p \in Procs : ~pipe[p]
    /\ copier' = "eof"
    /\ UNCHANGED <<processVars, disturbed, pctx, pc, err, watcher, sweepVars, result>>

-----------------------------------------------------------------------------
(* watchCtx.                                                               *)

\* A bug the checks must find: only the immediate child is signalled.
JustTheLeader == {Leader}

\* cmd.Cancel: kill(-pid) reaches whoever is in the group.
CancelTargets == {p \in Procs : ingroup[p]}

\* Whether kill finds the group or not, an error results.
WatchCancel ==
    /\ watcher = "watching"
    /\ pctx # "live"
    /\ Kill(CancelTargets)
    /\ watcher' = "grace"
    /\ UNCHANGED <<disturbed, pctx, pc, err, copier, sweepVars, result>>

\* WaitDelay after that: kill the leader itself, close the pipe.
WatchDelay ==
    /\ watcher = "grace"
    /\ HasWaitDelay
    /\ Kill({Leader})
    /\ copier' = IF copier = "copying" THEN "cut" ELSE copier
    /\ watcher' = "gaveup"
    /\ UNCHANGED <<disturbed, pctx, pc, err, sweepVars, result>>

-----------------------------------------------------------------------------
(* killAdoptedDescendants.                                                 *)

\* 500 ms after the sweep began.
BudgetEnds ==
    /\ pc \in SweepPcs
    /\ ~PidOne
    /\ ~timeup
    /\ timeup' = TRUE
    /\ UNCHANGED <<processVars, disturbed, pctx, pc, runVars, listing, victims, killed, missed, result>>

SkipSweep ==
    /\ pc = "sweep"
    /\ PidOne \/ timeup
    /\ pc' = "classify"
    /\ UNCHANGED <<processVars, disturbed, pctx, runVars, sweepVars, result>>

\* The directory is listed once; the stat files are read one by one.
ListProcs ==
    /\ pc = "sweep"
    /\ ~PidOne
    /\ ~timeup
    /\ listing' = Alive
    /\ killed' = FALSE
    /\ missed' = {}
    /\ pc' = "read"
    /\ UNCHANGED <<processVars, disturbed, pctx, runVars, victims, timeup, result>>

\* Without a listing there is nobody to kill, and the sweep is over.
ListFails ==
    /\ pc = "sweep"
    /\ ~PidOne
    /\ ~timeup
    /\ killed' = FALSE
    /\ missed' = Procs
    /\ pc' = "classify"
    /\ UNCHANGED <<processVars, disturbed, pctx, runVars, listing, victims, timeup, result>>

\* A bug the checks must find: the field of the parent is collected.
CollectsTheParent ==
    /\ pc = "read"
    /\ \E p \in listing :
         /\ listing' = listing \ {p}
         /\ victims' = IF p \in Alive /\ parent[p] = "womm" THEN victims \cup {parent[p]}
                       ELSE victims
    /\ UNCHANGED <<processVars, disturbed, pctx, pc, runVars, killed, missed, timeup, result>>

ReadStat ==
    /\ pc = "read"
    /\ \E p \in listing :
         /\ listing' = listing \ {p}
         /\ victims' = IF p \in Alive /\ parent[p] = "womm" THEN victims \cup {p}
                       ELSE victims
    /\ UNCHANGED <<processVars, disturbed, pctx, pc, runVars, killed, missed, timeup, result>>

\* The file cannot be read, or not be understood: the process is passed over.
StatFails ==
    /\ pc = "read"
    /\ \E p \in listing :
         /\ listing' = listing \ {p}
         /\ missed' = missed \cup {p}
    /\ UNCHANGED <<processVars, disturbed, pctx, pc, runVars, victims, killed, timeup, result>>

ScanDone ==
    /\ pc = "read"
    /\ listing = {}
    /\ pc' = "kill"
    /\ UNCHANGED <<processVars, disturbed, pctx, runVars, sweepVars, result>>

\* A zombie takes the signal too, and counts.
KillOne ==
    /\ pc = "kill"
    /\ \E p \in victims :
         /\ victims' = victims \ {p}
         /\ Ends({p} \cap Alive, "killed")
    /\ killed' = TRUE
    /\ UNCHANGED <<disturbed, pctx, pc, runVars, listing, missed, timeup, result>>

\* Not permitted: the process lives on, and does not count.
KillFails ==
    /\ pc = "kill"
    /\ \E p \in victims \cap Elevating :
         /\ victims' = victims \ {p}
         /\ missed' = missed \cup {p}
    /\ UNCHANGED <<processVars, disturbed, pctx, pc, runVars, listing, killed, timeup, result>>

\* A bug the checks must find: one round is taken to be enough.
AfterOneRound ==
    /\ pc = "kill"
    /\ victims = {}
    /\ pc' = "classify"
    /\ UNCHANGED <<processVars, disturbed, pctx, runVars, sweepVars, result>>

\* Another round after one that killed something.
RoundDone ==
    /\ pc = "kill"
    /\ victims = {}
    /\ pc' = IF killed THEN "sweep" ELSE "classify"
    /\ UNCHANGED <<processVars, disturbed, pctx, runVars, sweepVars, result>>

-----------------------------------------------------------------------------
(* probe's return.                                                         *)

\* A bug the checks must find: a tool that exited with 0 is believed even
\* when Run reports exec.ErrWaitDelay.
TolerateWaitDelay ==
    /\ pc = "classify"
    /\ result' = IF ~err \/ (code = "success" /\ pctx = "live") THEN "output"
                 ELSE IF pctx = "deadline" THEN "timeout"
                 ELSE IF pctx = "cancelled" THEN "cancelled"
                 ELSE "failed"
    /\ pc' = "done"
    /\ UNCHANGED <<processVars, disturbed, pctx, runVars, sweepVars>>

Return ==
    /\ pc = "classify"
    /\ result' = IF ~err THEN "output"
                 ELSE IF pctx = "deadline" THEN "timeout"
                 ELSE IF pctx = "cancelled" THEN "cancelled"
                 ELSE "failed"
    /\ pc' = "done"
    /\ UNCHANGED <<processVars, disturbed, pctx, runVars, sweepVars>>

Done == pc = "done" /\ UNCHANGED vars

-----------------------------------------------------------------------------
Init ==
    /\ status = [p \in Procs |-> "unborn"]
    /\ parent = [p \in Procs |-> "none"]
    /\ ingroup = [p \in Procs |-> FALSE]
    /\ pipe = [p \in Procs |-> FALSE]
    /\ code = "none"
    /\ pctx = "live"
    /\ pc = "start"
    /\ err = FALSE
    /\ watcher = "off"
    /\ copier = "off"
    /\ listing = {}
    /\ victims = {}
    /\ killed = FALSE
    /\ disturbed = FALSE
    /\ missed = {}
    /\ timeup = FALSE
    /\ result = "none"

Sweep == \/ SkipSweep \/ ListProcs \/ ListFails \/ ReadStat \/ StatFails \/ ScanDone
         \/ KillOne \/ KillFails \/ RoundDone
Main  == Start \/ StartFails \/ Reap \/ JoinWatcher \/ JoinCopier \/ Sweep \/ Return
Next  == Main \/ CopyDelay \/ CopyEnds \/ WatchCancel \/ WatchDelay
           \/ Deadline \/ ParentCancel \/ BudgetEnds \/ Tool \/ Done

(* Goroutines are scheduled and timers fire; the tool, its descendants and  *)
(* the user promise nothing.                                                *)
Fairness ==
    /\ WF_vars(Main)
    /\ WF_vars(CopyDelay) /\ WF_vars(CopyEnds)
    /\ WF_vars(WatchCancel) /\ WF_vars(WatchDelay)
    /\ WF_vars(Deadline) /\ WF_vars(BudgetEnds)

Spec == Init /\ [][Next]_vars /\ Fairness

-----------------------------------------------------------------------------
TypeOK ==
    /\ status \in [Procs -> {"unborn", "alive", "dead"}]
    /\ parent \in [Procs -> Procs \cup {"womm", "init", "none"}]
    /\ ingroup \in [Procs -> BOOLEAN]
    /\ pipe \in [Procs -> BOOLEAN]
    /\ code \in {"none", "success", "failure", "killed"}
    /\ pctx \in {"live", "deadline", "cancelled"}
    /\ pc \in {"start", "wait", "watch", "copy", "classify", "done"} \cup SweepPcs
    /\ err \in BOOLEAN
    /\ watcher \in {"off", "watching", "grace", "gaveup", "joined"}
    /\ copier \in {"off", "copying", "eof", "cut"}
    /\ listing \subseteq Procs
    /\ victims \subseteq Procs
    /\ killed \in BOOLEAN
    /\ disturbed \in BOOLEAN
    /\ missed \subseteq Procs
    /\ timeup \in BOOLEAN
    /\ result \in {"none", "output", "timeout", "cancelled", "failed"}
    /\ \A p \in Procs : pipe[p] => status[p] = "alive"

(* What probe returns as the tool's output is all the tool wrote: the tool  *)
(* ended by itself and successfully, and the copy went on until nobody held *)
(* the pipe.  A kill, by either timer, and a pipe cut off by WaitDelay must *)
(* always come back as an error, in whatever order the context, the exit    *)
(* and the goroutines are seen (node.go, the use of err after cmd.Run).     *)
AnswersAreComplete ==
    result = "output" => code = "success" /\ copier = "eof"

(* Once the watcher has cancelled the command, nobody whom WOMM may signal  *)
(* is left in the probe's process group, nor comes into it, however its     *)
(* members fork: "killing the negative PID kills the whole group" (node.go, *)
(* at cmd.SysProcAttr).                                                     *)
CancelEmptiesTheGroup ==
    watcher \in {"grace", "gaveup"} => \A p \in Alive \ Elevating : ~ingroup[p]

(* No tool can hold WOMM: whatever the processes do, the probe returns.     *)
Returns == <>(pc = "done")

Children == {p \in Alive : parent[p] = "womm"}

(* What a probe leaves behind, on the success path too, if no process acts  *)
(* during the sweep, whatever they did before, and the time suffices: a     *)
(* process that is left as a child of WOMM is one that the last pass could  *)
(* not read or not kill; and, if orphans come to WOMM, there is such a      *)
(* process whenever anything is left at all (node.go: "a probe must not     *)
(* leave processes behind").                                                *)
NothingIsLeft ==
    (pc = "done" /\ ~disturbed /\ ~PidOne /\ ~timeup) =>
        /\ Children \subseteq missed
        /\ Reaper = "womm" /\ Alive # {} => Alive \cap missed # {}

-----------------------------------------------------------------------------
(* Statements of the comments the code does not keep.                       *)

(* reaper_linux.go: the sweep kills "repeatedly, until none is left or the  *)
(* budget runs out", and "the loop covers a descendant that forks again",   *)
(* here of a sweep whose system calls all succeed.                          *)
SweepIsExhaustive ==
    (pc = "done" /\ ~PidOne /\ ~timeup /\ missed = {}) => Children = {}
=============================================================================
