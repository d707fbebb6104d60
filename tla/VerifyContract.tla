--------------------------- MODULE VerifyContract ---------------------------
(***************************************************************************)
(* What `womm verify' promises (architecture.md, exit-code contract;       *)
(* verify.go, ExitCode): every declared requirement is decided once and    *)
(* for all, a report is published only when all of them are, the exit code *)
(* of a published run is a function of the verdicts, and a run that        *)
(* publishes nothing ends as a usage error or as inconclusive.             *)
(***************************************************************************)
EXTENDS Naturals

CONSTANTS Names

VARIABLES
    declared,       \* the requirements of womm.yaml
    unverifiable,   \* womm.yaml declares services or environment
    verdict,        \* what is decided of each name
    published,      \* a report was shown
    exit            \* 4 while the run goes on

vars == <<declared, unverifiable, verdict, published, exit>>

Decisions == {"pass", "fail", "unknown", "unreachable", "error"}

Running == 4

Code ==
    IF unverifiable \/ \E n \in declared : verdict[n] \notin {"pass", "fail"}
      THEN 3
    ELSE IF \E n \in declared : verdict[n] = "fail"
      THEN 1
    ELSE 0

Init ==
    /\ declared \in SUBSET Names
    /\ unverifiable \in BOOLEAN
    /\ verdict = [n \in Names |-> "none"]
    /\ published = FALSE
    /\ exit = Running

Decide ==
    /\ exit = Running
    /\ \E n \in declared, d \in Decisions :
         /\ verdict[n] = "none"
         /\ verdict' = [verdict EXCEPT ![n] = d]
    /\ UNCHANGED <<declared, unverifiable, published, exit>>

Publish ==
    /\ exit = Running
    /\ \A n \in declared : verdict[n] # "none"
    /\ published' = TRUE
    /\ exit' = Code
    /\ UNCHANGED <<declared, unverifiable, verdict>>

GiveUp ==
    /\ exit = Running
    /\ \/ exit' = 3
       \/ exit' = 2 /\ \A n \in declared : verdict[n] = "none"
    /\ UNCHANGED <<declared, unverifiable, verdict, published>>

Next == Decide \/ Publish \/ GiveUp

SafetySpec == Init /\ [][Next]_vars

Spec == SafetySpec /\ WF_vars(Publish \/ GiveUp)
=============================================================================
