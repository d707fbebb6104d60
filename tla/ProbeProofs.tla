---------------------------- MODULE ProbeProofs ----------------------------
(* Theorems about module Probe, for every set of descendants, whichever of  *)
(* them change their credentials, with and without the subreaper, inside    *)
(* and outside process 1.                                                   *)
EXTENDS Probe, TLAPS

-----------------------------------------------------------------------------
(* The inductive invariant.                                                 *)

\* What cmd.Run has seen by the time it goes on: an answer free of errors
\* needs a leader that ended well, and a cut pipe is on its way to err.
RunInv ==
    /\ pc = "start" => watcher = "off" /\ copier = "off" /\ status[Leader] = "unborn"
    /\ pc \in {"start", "wait"} => ~err
    /\ pc \in {"wait", "watch", "copy"} => copier # "off"
    /\ pc \in {"copy", "classify", "done"} \cup SweepPcs => watcher \in {"joined", "off"}
    /\ pc \in {"classify", "done"} \cup SweepPcs => copier # "copying"
    /\ pc \notin {"start", "wait"} /\ ~err => status[Leader] = "dead" /\ code = "success"
    /\ copier = "cut" => err \/ watcher = "gaveup"
    /\ copier = "off" => pc = "start" \/ err
    /\ result # "none" => pc = "done"
    /\ result = "output" => ~err

\* A forest: every set of living processes has one whose parent is outside.
Grounded ==
    \A S \in SUBSET Alive : S # {} => \E p \in S : parent[p] \notin S

\* A living process hangs below WOMM, below who adopts orphans, or below
\* another living one.
ParentsLive == \A p \in Alive : parent[p] \in Alive \cup {"womm", Reaper}

\* Of an undisturbed sweep: what the current round has not seen it will see,
\* or it has missed it.
SweepInv ==
    ~disturbed =>
        /\ pc = "read" => Children \subseteq listing \cup victims \cup missed
        /\ pc = "kill" /\ ~killed => Children \subseteq victims \cup missed
        /\ pc \in {"classify", "done"} /\ ~PidOne /\ ~timeup => Children \subseteq missed

IInv ==
    /\ TypeOK
    /\ RunInv
    /\ CancelEmptiesTheGroup
    /\ Grounded
    /\ ParentsLive
    /\ SweepInv

-----------------------------------------------------------------------------
LEMMA InitiallyIInv == Init => IInv
<1> SUFFICES ASSUME Init PROVE IInv
  OBVIOUS
<1>1. TypeOK
  BY DEF Init, TypeOK
<1>2. Alive = {}
  BY DEF Init, Alive
<1>3. RunInv /\ SweepInv
  BY DEF Init, RunInv, SweepInv, SweepPcs, Procs
<1>4. CancelEmptiesTheGroup /\ Grounded /\ ParentsLive
  BY <1>2 DEF CancelEmptiesTheGroup, Grounded, ParentsLive
<1> QED
  BY <1>1, <1>3, <1>4 DEF IInv

(* Processes have no names like the parents above them.                     *)
LEMMA ReaperIsNoProcess == Reaper \notin Procs /\ "womm" \notin Procs
BY ProcessesAssumption DEF Reaper, Procs

-----------------------------------------------------------------------------
(* The process table: what one more process, and what an end, leaves of it. *)

\* q comes to exist below p, which is alive, or is WOMM.
Born(q, p) ==
    /\ q \notin Alive
    /\ Alive' = Alive \cup {q}
    /\ parent' = [parent EXCEPT ![q] = p]

LEMMA BirthKeepsForest ==
    ASSUME TypeOK, Grounded, ParentsLive,
           NEW q \in Procs, NEW p \in Alive \cup {"womm"}, Born(q, p)
    PROVE  Grounded' /\ ParentsLive'
<1> USE ReaperIsNoProcess DEF Born, Alive
<1>1. /\ parent'[q] = p
      /\ \A x \in Alive : parent'[x] = parent[x] /\ x # q
      /\ q # p /\ q \notin {"womm", Reaper}
  BY DEF TypeOK
<1>2. ParentsLive'
  BY <1>1 DEF ParentsLive
<1>3. ASSUME NEW S \in SUBSET (Alive \cup {q}), S # {}
      PROVE  \E x \in S : parent'[x] \notin S
  <2>1. CASE S \ {q} = {}
    BY <1>1, <1>3, <2>1
  <2>2. CASE S \ {q} # {}
    <3>1. PICK x \in S \ {q} : parent[x] \notin S \ {q}
      BY <2>2, <1>3 DEF Grounded
    <3>2. parent[x] # q
      BY <1>1, <1>3, <3>1 DEF ParentsLive
    <3> QED
      BY <1>1, <1>3, <3>1, <3>2
  <2> QED
    BY <2>1, <2>2
<1> QED
  BY <1>2, <1>3 DEF Grounded

\* The parent that processes get when theirs is among the ended.
LEMMA EndKeepsForest ==
    ASSUME TypeOK, Grounded, ParentsLive, NEW E \in SUBSET Alive, NEW how, Ends(E, how)
    PROVE  /\ Alive' = Alive \ E
           /\ Grounded' /\ ParentsLive'
<1> USE ReaperIsNoProcess
<1>1. Alive' = Alive \ E
  BY DEF TypeOK, Ends, Alive
<1>2. \A p \in Procs : parent'[p] = IF parent[p] \in E THEN Reaper ELSE parent[p]
  BY DEF Ends
<1>3. ParentsLive'
  BY <1>1, <1>2 DEF ParentsLive, Alive, Reaper
<1>4. ASSUME NEW S \in SUBSET (Alive \ E), S # {}
      PROVE  \E x \in S : parent'[x] \notin S
  <2>1. PICK x \in S : parent[x] \notin S
    BY <1>4 DEF Grounded
  <2>2. x \in Procs /\ Reaper \notin S
    BY <1>4, <2>1 DEF Alive
  <2> QED
    BY <1>2, <2>1, <2>2
<1> QED
  BY <1>1, <1>3, <1>4 DEF Grounded

\* What any end of living processes preserves beside the forest.
LEMMA EndKeepsRest ==
    ASSUME TypeOK, NEW E \in SUBSET Alive, NEW how \in {"success", "failure", "killed"},
           Ends(E, how)
    PROVE  /\ status' \in [Procs -> {"unborn", "alive", "dead"}]
           /\ parent' \in [Procs -> Procs \cup {"womm", "init", "none"}]
           /\ pipe' \in [Procs -> BOOLEAN]
           /\ code' \in {"none", "success", "failure", "killed"}
           /\ \A p \in Procs : pipe'[p] => status'[p] = "alive"
           /\ status[Leader] = "dead" => status'[Leader] = "dead" /\ code' = code
           /\ status[Leader] = "unborn" => status'[Leader] = "unborn"
           /\ ingroup' = ingroup
<1>1. Reaper \in {"womm", "init"}
  BY DEF Reaper
<1>2. Leader \in Procs /\ E \subseteq Procs /\ \A p \in E : status[p] = "alive"
  BY DEF Procs, Alive
<1> QED
  BY <1>1, <1>2 DEF TypeOK, Ends

-----------------------------------------------------------------------------
(* What the tool and its descendants do.                                    *)

LEMMA ForkKeeps == ASSUME IInv, NEW p \in Procs, Fork(p) PROVE IInv'
<1>1. p \in Alive /\ TypeOK /\ pc # "done"
  BY DEF Fork, Acts, IInv
<1>2. PICK q \in IF p \in Elevating THEN Elevating ELSE Descendants :
         /\ status[q] = "unborn"
         /\ status' = [status EXCEPT ![q] = "alive"]
         /\ parent' = [parent EXCEPT ![q] = p]
         /\ ingroup' = [ingroup EXCEPT ![q] = ingroup[p]]
         /\ pipe' = [pipe EXCEPT ![q] = pipe[p]]
  BY DEF Fork
<1>3. /\ q \in Procs /\ q # Leader /\ q # p /\ Leader \in Procs /\ q \notin Alive
      /\ p \in Elevating => q \in Elevating
  BY <1>1, <1>2, ProcessesAssumption DEF Procs, Alive
<1>4. UNCHANGED <<code, pctx, pc, err, watcher, copier, listing, victims, killed, missed, timeup, result>>
  BY DEF Fork, runVars, sweepVars
<1>5. disturbed' = (disturbed \/ pc \in SweepPcs \cup {"classify"})
  BY DEF Fork, Acts
<1>6. Alive' = Alive \cup {q}
  BY <1>1, <1>2, <1>3 DEF TypeOK, Alive
<1>7. TypeOK'
  BY <1>1, <1>2, <1>3, <1>4, <1>5 DEF TypeOK, Alive
<1>8. RunInv'
  BY <1>1, <1>2, <1>3, <1>4 DEF IInv, RunInv, TypeOK
<1>9. CancelEmptiesTheGroup'
  BY <1>1, <1>2, <1>3, <1>4, <1>6 DEF IInv, CancelEmptiesTheGroup, TypeOK, Alive
<1>10. Grounded' /\ ParentsLive'
  BY <1>1, <1>2, <1>3, <1>6, BirthKeepsForest DEF IInv, Born
<1>11. SweepInv'
  BY <1>1, <1>4, <1>5 DEF SweepInv, SweepPcs
<1> QED
  BY <1>7, <1>8, <1>9, <1>10, <1>11 DEF IInv

LEMMA LeaveOrCloseKeeps ==
    ASSUME IInv, NEW p \in Procs, LeaveGroup(p) \/ ClosePipe(p) PROVE IInv'
<1>1. /\ UNCHANGED <<status, parent, code, pctx, pc, err, watcher, copier, listing, victims,
                     killed, missed, timeup, result>>
      /\ disturbed' = (disturbed \/ pc \in SweepPcs \cup {"classify"})
      /\ pc # "done"
  BY DEF LeaveGroup, ClosePipe, Acts, runVars, sweepVars
<1>2. /\ ingroup' \in [Procs -> BOOLEAN] /\ pipe' \in [Procs -> BOOLEAN]
      /\ \A x \in Procs : (ingroup'[x] => ingroup[x]) /\ (pipe'[x] => pipe[x])
  BY DEF LeaveGroup, ClosePipe, IInv, TypeOK
<1>3. Alive' = Alive
  BY <1>1 DEF Alive
<1>4. TypeOK'
  BY <1>1, <1>2 DEF IInv, TypeOK
<1>5. RunInv' /\ Grounded' /\ ParentsLive'
  BY <1>1, <1>3 DEF IInv, RunInv, Grounded, ParentsLive
<1>6. CancelEmptiesTheGroup'
  BY <1>1, <1>2, <1>3 DEF IInv, CancelEmptiesTheGroup, Alive
<1>7. SweepInv'
  BY <1>1 DEF SweepInv, SweepPcs
<1> QED
  BY <1>4, <1>5, <1>6, <1>7 DEF IInv

LEMMA ExitKeeps == ASSUME IInv, NEW p \in Procs, Exit(p) PROVE IInv'
<1>1. PICK how \in {"success", "failure"} : Ends({p}, how)
  BY DEF Exit
<1>2. {p} \in SUBSET Alive /\ TypeOK /\ pc # "done"
  BY DEF Exit, Acts, IInv
<1>3. /\ UNCHANGED <<pctx, pc, err, watcher, copier, listing, victims, killed, missed, timeup, result>>
      /\ disturbed' = (disturbed \/ pc \in SweepPcs \cup {"classify"})
  BY DEF Exit, Acts, runVars, sweepVars
<1>4. Alive' = Alive \ {p} /\ Grounded' /\ ParentsLive'
  BY <1>1, <1>2, EndKeepsForest DEF IInv
<1>5. /\ status' \in [Procs -> {"unborn", "alive", "dead"}]
      /\ parent' \in [Procs -> Procs \cup {"womm", "init", "none"}]
      /\ pipe' \in [Procs -> BOOLEAN]
      /\ code' \in {"none", "success", "failure", "killed"}
      /\ \A x \in Procs : pipe'[x] => status'[x] = "alive"
      /\ status[Leader] = "dead" => status'[Leader] = "dead" /\ code' = code
      /\ status[Leader] = "unborn" => status'[Leader] = "unborn"
      /\ ingroup' = ingroup
  BY <1>1, <1>2, EndKeepsRest
<1>6. TypeOK'
  BY <1>2, <1>3, <1>5 DEF TypeOK
<1>7. RunInv'
  BY <1>3, <1>5 DEF IInv, RunInv
<1>8. CancelEmptiesTheGroup'
  BY <1>3, <1>4, <1>5 DEF IInv, CancelEmptiesTheGroup
<1>9. SweepInv'
  BY <1>2, <1>3 DEF SweepInv, SweepPcs
<1> QED
  BY <1>4, <1>6, <1>7, <1>8, <1>9 DEF IInv

-----------------------------------------------------------------------------
(* What the goroutines kill: Kill only ever ends living processes, and all  *)
(* of those that WOMM may signal.                                           *)
LEMMA KillIsAnEnd ==
    ASSUME IInv, NEW S, Kill(S)
    PROVE  \E E \in SUBSET Alive :
              /\ Ends(E, "killed")
              /\ (S \cap Alive) \ Elevating \subseteq E
<1>1. PICK spared \in SUBSET (S \cap Alive \cap Elevating) :
         Ends((S \cap Alive) \ spared, "killed")
  BY DEF Kill
<1> QED
  BY <1>1

LEMMA WatcherKeeps == IInv /\ (WatchCancel \/ WatchDelay) => IInv'
<1> SUFFICES ASSUME IInv, WatchCancel \/ WatchDelay PROVE IInv'
  OBVIOUS
<1> DEFINE Killing == IF WatchCancel THEN CancelTargets ELSE {Leader}
<1>1. PICK E \in SUBSET Alive :
         Ends(E, "killed") /\ (Killing \cap Alive) \ Elevating \subseteq E
  <2>1. Kill(Killing)
    BY DEF WatchCancel, WatchDelay
  <2> QED
    BY <2>1, KillIsAnEnd
<1>2. UNCHANGED <<disturbed, pctx, pc, err, listing, victims, killed, missed, timeup, result>>
  BY DEF WatchCancel, WatchDelay, sweepVars
<1>3. /\ watcher \in {"watching", "grace"} /\ watcher' \in {"grace", "gaveup"}
      /\ copier' \in {copier, "cut"}
      /\ copier' = "cut" => copier = "cut" \/ watcher' = "gaveup"
      /\ watcher = "gaveup" => watcher' = "gaveup"
      /\ copier = "off" <=> copier' = "off"
      /\ copier' = "copying" => copier = "copying"
  BY DEF WatchCancel, WatchDelay
<1>4. /\ Alive' = Alive \ E
      /\ Grounded' /\ ParentsLive'
      /\ status' \in [Procs -> {"unborn", "alive", "dead"}]
      /\ parent' \in [Procs -> Procs \cup {"womm", "init", "none"}]
      /\ pipe' \in [Procs -> BOOLEAN]
      /\ code' \in {"none", "success", "failure", "killed"}
      /\ \A x \in Procs : pipe'[x] => status'[x] = "alive"
      /\ status[Leader] = "dead" => status'[Leader] = "dead" /\ code' = code
      /\ ingroup' = ingroup
  BY <1>1, EndKeepsForest, EndKeepsRest DEF IInv
<1>5. TypeOK'
  BY <1>2, <1>3, <1>4 DEF IInv, TypeOK
<1>6. RunInv'
  BY <1>2, <1>3, <1>4 DEF IInv, RunInv, SweepPcs
<1>7. CancelEmptiesTheGroup'
  <2>1. CASE WatchCancel
    BY <1>1, <1>4, <2>1 DEF CancelEmptiesTheGroup, CancelTargets, Alive
  <2>2. CASE WatchDelay
    BY <1>3, <1>4, <2>2 DEF WatchDelay, IInv, CancelEmptiesTheGroup
  <2> QED
    BY <2>1, <2>2
<1>8. SweepInv'
  BY <1>2, <1>3 DEF IInv, RunInv, SweepInv, SweepPcs
<1> QED
  BY <1>4, <1>5, <1>6, <1>7, <1>8 DEF IInv

LEMMA KillOneKeeps == IInv /\ KillOne => IInv'
<1> SUFFICES ASSUME IInv, KillOne PROVE IInv'
  OBVIOUS
<1>1. PICK p \in victims : victims' = victims \ {p} /\ Ends({p} \cap Alive, "killed")
  BY DEF KillOne
<1>2. /\ pc = "kill" /\ killed' = TRUE
      /\ UNCHANGED <<disturbed, pctx, pc, err, watcher, copier, listing, missed, timeup, result>>
  BY DEF KillOne, runVars
<1>3. /\ Alive' = Alive \ {p}
      /\ Grounded' /\ ParentsLive'
      /\ status' \in [Procs -> {"unborn", "alive", "dead"}]
      /\ parent' \in [Procs -> Procs \cup {"womm", "init", "none"}]
      /\ pipe' \in [Procs -> BOOLEAN]
      /\ code' \in {"none", "success", "failure", "killed"}
      /\ \A x \in Procs : pipe'[x] => status'[x] = "alive"
      /\ status[Leader] = "dead" => status'[Leader] = "dead" /\ code' = code
      /\ ingroup' = ingroup
  <2>1. {p} \cap Alive \in SUBSET Alive
    OBVIOUS
  <2>2. Alive' = Alive \ ({p} \cap Alive) /\ Grounded' /\ ParentsLive'
    BY <1>1, <2>1, EndKeepsForest DEF IInv
  <2> QED
    BY <1>1, <2>1, <2>2, EndKeepsRest DEF IInv
<1>4. TypeOK'
  BY <1>1, <1>2, <1>3 DEF IInv, TypeOK
<1>5. RunInv'
  BY <1>2, <1>3 DEF IInv, RunInv
<1>6. CancelEmptiesTheGroup'
  BY <1>2, <1>3 DEF IInv, CancelEmptiesTheGroup
<1>7. SweepInv'
  BY <1>2 DEF SweepInv
<1> QED
  BY <1>3, <1>4, <1>5, <1>6, <1>7 DEF IInv

-----------------------------------------------------------------------------
(* What the probe's goroutine does.                                         *)

LEMMA StartKeeps == IInv /\ Start => IInv'
<1> SUFFICES ASSUME IInv, Start PROVE IInv'
  OBVIOUS
<1>1. TypeOK /\ Leader \in Procs /\ Leader \notin Alive
  BY DEF IInv, Start, RunInv, Procs, Alive
<1>2. Alive' = Alive \cup {Leader}
  BY <1>1 DEF Start, TypeOK, Alive
<1>3. Grounded' /\ ParentsLive'
  BY <1>1, <1>2, BirthKeepsForest DEF IInv, Start, Born
<1>4. TypeOK'
  BY <1>1 DEF Start, TypeOK, sweepVars
<1>5. RunInv' /\ SweepInv' /\ CancelEmptiesTheGroup'
  BY DEF IInv, Start, RunInv, SweepInv, CancelEmptiesTheGroup, SweepPcs, sweepVars
<1> QED
  BY <1>3, <1>4, <1>5 DEF IInv

LEMMA RunKeeps ==
    IInv /\ (StartFails \/ Reap \/ JoinWatcher \/ JoinCopier \/ CopyDelay \/ CopyEnds \/ Return
               \/ Deadline \/ ParentCancel)
      => IInv'
<1> SUFFICES ASSUME IInv,
                    StartFails \/ Reap \/ JoinWatcher \/ JoinCopier \/ CopyDelay \/ CopyEnds
                      \/ Return \/ Deadline \/ ParentCancel
             PROVE  IInv'
  OBVIOUS
<1> USE DEF StartFails, Reap, JoinWatcher, JoinCopier, CopyDelay, CopyEnds, Return, Deadline,
            ParentCancel, ContextEnds
<1>1. UNCHANGED <<status, parent, ingroup, pipe, code, disturbed, listing, victims, killed, missed, timeup>>
  BY DEF processVars, sweepVars
<1>2. Alive' = Alive /\ Children' = Children
  BY <1>1 DEF Alive, Children
<1>3. TypeOK'
  <2>1. /\ pc' \in {"start", "wait", "watch", "copy", "classify", "done"} \cup SweepPcs
        /\ err' \in BOOLEAN
    BY DEF IInv, TypeOK, runVars, SweepPcs
  <2>2. /\ pctx' \in {"live", "deadline", "cancelled"}
        /\ watcher' \in {"off", "watching", "grace", "gaveup", "joined"}
        /\ copier' \in {"off", "copying", "eof", "cut"}
    BY DEF IInv, TypeOK, runVars
  <2>3. result' \in {"none", "output", "timeout", "cancelled", "failed"}
    BY DEF IInv, TypeOK, runVars
  <2> QED
    BY <1>1, <2>1, <2>2, <2>3 DEF IInv, TypeOK
<1>4. RunInv'
  <2> USE <1>1 DEF RunInv, runVars, SweepPcs
  <2>inv. RunInv /\ err \in BOOLEAN
    BY DEF IInv, TypeOK
  <2>1. CASE StartFails
    BY <2>inv, <2>1
  <2>2. CASE Reap
    BY <2>inv, <2>2
  <2>3. CASE JoinWatcher
    BY <2>inv, <2>3
  <2>4. CASE JoinCopier
    BY <2>inv, <2>4
  <2>5. CASE CopyDelay
    BY <2>inv, <2>5
  <2>6. CASE CopyEnds
    BY <2>inv, <2>6
  <2>7. CASE Return
    BY <2>inv, <2>7
  <2>8. CASE Deadline \/ ParentCancel
    BY <2>inv, <2>8
  <2> QED
    BY <2>1, <2>2, <2>3, <2>4, <2>5, <2>6, <2>7, <2>8
<1>5. CancelEmptiesTheGroup'
  BY <1>1, <1>2 DEF IInv, CancelEmptiesTheGroup, runVars
<1>6. Grounded' /\ ParentsLive'
  BY <1>1, <1>2 DEF IInv, Grounded, ParentsLive
<1>7. SweepInv'
  BY <1>1, <1>2 DEF IInv, SweepInv
<1> QED
  BY <1>3, <1>4, <1>5, <1>6, <1>7 DEF IInv

LEMMA SweepKeeps ==
    IInv /\ (SkipSweep \/ ListProcs \/ ListFails \/ ReadStat \/ StatFails \/ ScanDone \/ KillFails
               \/ RoundDone \/ BudgetEnds)
      => IInv'
<1> SUFFICES ASSUME IInv,
                    SkipSweep \/ ListProcs \/ ListFails \/ ReadStat \/ StatFails \/ ScanDone
                      \/ KillFails \/ RoundDone \/ BudgetEnds
             PROVE  IInv'
  OBVIOUS
<1> USE DEF SkipSweep, ListProcs, ListFails, ReadStat, StatFails, ScanDone, KillFails, RoundDone,
            BudgetEnds
<1>1. UNCHANGED <<status, parent, ingroup, pipe, code, disturbed, pctx, err, watcher, copier, result>>
  BY DEF processVars, runVars
<1>2. Alive' = Alive /\ Children' = Children /\ Children \subseteq Alive /\ Alive \subseteq Procs
  BY <1>1 DEF Alive, Children
<1>3. /\ pc \in SweepPcs
      /\ pc' \in SweepPcs \cup {"classify"}
  BY DEF SweepPcs
<1>4. TypeOK'
  <2>1. /\ listing' \subseteq Procs /\ victims' \subseteq Procs
    BY <1>2 DEF IInv, TypeOK, sweepVars
  <2>2. /\ killed' \in BOOLEAN /\ timeup' \in BOOLEAN
    BY DEF IInv, TypeOK, sweepVars
  <2>3. missed' \subseteq Procs
    BY DEF IInv, TypeOK, sweepVars
  <2> QED
    BY <1>1, <1>3, <2>1, <2>2, <2>3 DEF IInv, TypeOK
<1>5. RunInv' /\ CancelEmptiesTheGroup' /\ Grounded' /\ ParentsLive'
  BY <1>1, <1>2, <1>3
     DEF IInv, RunInv, CancelEmptiesTheGroup, Grounded, ParentsLive, SweepPcs
<1>6. SweepInv'
  <2> USE <1>1, <1>2 DEF SweepInv, sweepVars
  <2>inv. SweepInv
    BY DEF IInv
  <2>1. CASE SkipSweep \/ ListProcs \/ ListFails
    BY <2>1
  <2>2. CASE ReadStat
    BY <2>inv, <2>2 DEF Children
  <2>3. CASE StatFails
    BY <2>inv, <2>3
  <2>4. CASE ScanDone \/ RoundDone
    BY <2>inv, <2>4
  <2>5. CASE KillFails
    BY <2>inv, <2>5
  <2>6. CASE BudgetEnds
    BY <2>inv, <2>6 DEF SweepPcs
  <2> QED
    BY <2>1, <2>2, <2>3, <2>4, <2>5, <2>6
<1> QED
  BY <1>4, <1>5, <1>6 DEF IInv

LEMMA NextKeepsIInv == IInv /\ [Next]_vars => IInv'
<1> SUFFICES ASSUME IInv, [Next]_vars PROVE IInv'
  OBVIOUS
<1>1. CASE Tool
  BY <1>1, ForkKeeps, LeaveOrCloseKeeps, ExitKeeps DEF Tool
<1>2. CASE WatchCancel \/ WatchDelay
  BY <1>2, WatcherKeeps
<1>3. CASE Start
  BY <1>3, StartKeeps
<1>4. CASE StartFails \/ Reap \/ JoinWatcher \/ JoinCopier \/ CopyDelay \/ CopyEnds \/ Return
             \/ Deadline \/ ParentCancel
  BY <1>4, RunKeeps
<1>5. CASE Sweep \/ BudgetEnds
  BY <1>5, SweepKeeps, KillOneKeeps DEF Sweep
<1>6. CASE UNCHANGED vars
  BY <1>6 DEF vars, processVars, runVars, sweepVars, IInv, TypeOK, RunInv,
              CancelEmptiesTheGroup, Grounded, ParentsLive, SweepInv, Children, Alive
<1> QED
  BY <1>1, <1>2, <1>3, <1>4, <1>5, <1>6 DEF Next, Main, Done

LEMMA InductiveInvariant == Spec => []IInv
<1> QED
  BY InitiallyIInv, NextKeepsIInv, PTL DEF Spec

-----------------------------------------------------------------------------
(* Every variable keeps its type (node.go, probe).                          *)
THEOREM TypeCorrect == Spec => []TypeOK
<1>1. IInv => TypeOK
  BY DEF IInv
<1> QED
  BY <1>1, InductiveInvariant, PTL

(* Output is believed only if the tool wrote all of it and ended well, in   *)
(* whatever order the context, the exit and the timers are seen.            *)
THEOREM AnswersComplete == Spec => []AnswersAreComplete
<1>1. IInv => AnswersAreComplete
  BY DEF IInv, TypeOK, RunInv, AnswersAreComplete
<1> QED
  BY <1>1, InductiveInvariant, PTL

(* Nobody whom WOMM may signal is left in the group of a cancelled probe.   *)
THEOREM GroupEmptied == Spec => []CancelEmptiesTheGroup
<1>1. IInv => CancelEmptiesTheGroup
  BY DEF IInv
<1> QED
  BY <1>1, InductiveInvariant, PTL

(* However many processes a tool has left and however they hang together,   *)
(* what an undisturbed sweep within its time leaves hangs below processes   *)
(* that its last pass could not read or not kill: without such a child of   *)
(* WOMM, the living would be a set that nobody outside is a parent of.      *)
THEOREM NothingLeft == Spec => []NothingIsLeft
<1>1. ASSUME IInv, pc = "done", ~disturbed, ~PidOne, ~timeup
      PROVE  Children \subseteq missed
  BY <1>1 DEF IInv, SweepInv
<1>2. ASSUME IInv, Reaper = "womm", Alive # {}
      PROVE  \E p \in Alive : p \in Children
  <2>1. PICK p \in Alive : parent[p] \notin Alive
    BY <1>2 DEF IInv, Grounded
  <2>2. parent[p] = "womm"
    BY <1>2, <2>1 DEF IInv, ParentsLive
  <2> QED
    BY <2>1, <2>2 DEF Children
<1>3. IInv => NothingIsLeft
  BY <1>1, <1>2 DEF NothingIsLeft
<1> QED
  BY <1>3, InductiveInvariant, PTL
=============================================================================
