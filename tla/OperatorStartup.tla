-------------------------- MODULE OperatorStartup --------------------------
(***************************************************************************)
(* The start of the operator's process: the manager runs the CRD check and  *)
(* the controller side by side; the worker waits for two channels before    *)
(* its first cycle, a failed check stops the manager, and the Deployment of *)
(* the operator starts the process again.                                   *)
(*                                                                          *)
(* An operator Mutant... is the definition of the rest of its name with a   *)
(* plausible mistake; the runs show that the properties detect it.          *)
(***************************************************************************)
EXTENDS Naturals

CONSTANTS MaxChanges, MaxFaults, MaxStops   \* budgets

ASSUME BudgetsAssumption ==
    /\ MaxChanges \in Nat
    /\ MaxFaults \in Nat
    /\ MaxStops \in Nat

\* The CRD in the cluster: absent, of the helm operator, or generated by controller-gen.
CRD == {"missing", "old", "new"}

VARIABLES
    crd,
    process,       \* "down", "up", or "stopping" once the manager's context is cancelled
    check,         \* the next step of the CRD check, or its outcome
    crdCheckDone,  \* the channel is closed
    postCheckDone, \* the channel is closed
    worker,        \* "idle", "blocked" on postCheckDone, or "reconciling" a CR
    seen,          \* history: the CRD that the check found up to date, or "missing"
    used           \* how much of each budget is spent

vars == <<crd, process, check, crdCheckDone, postCheckDone, worker, seen, used>>
channels == <<crdCheckDone, postCheckDone>>

TypeOK ==
    /\ crd \in CRD
    /\ process \in {"down", "up", "stopping"}
    /\ check \in {"isCrdExists", "isCrdUpToDate", "passed", "failed"}
    /\ crdCheckDone \in BOOLEAN
    /\ postCheckDone \in BOOLEAN
    /\ worker \in {"idle", "blocked", "reconciling"}
    /\ seen \in CRD
    /\ used \in [changes: Nat, faults: Nat, stops: Nat]

Init ==
    /\ crd \in CRD
    /\ process = "down"
    /\ check = "isCrdExists"
    /\ crdCheckDone = FALSE
    /\ postCheckDone = FALSE
    /\ worker = "idle"
    /\ seen = "missing"
    /\ used = [changes |-> 0, faults |-> 0, stops |-> 0]

-----------------------------------------------------------------------------
(* The process                                                              *)

StartManager ==
    /\ process = "down"
    /\ process' = "up"
    /\ check' = "isCrdExists"
    /\ crdCheckDone' = FALSE
    /\ postCheckDone' = FALSE
    /\ worker' = "idle"
    /\ seen' = "missing"
    /\ UNCHANGED <<crd, used>>

MutantFail ==
    /\ check' = "failed"
    /\ UNCHANGED process

\* A runnable that returns an error stops the manager.
Fail ==
    /\ check' = "failed"
    /\ process' = "stopping"

IsCrdExists ==
    /\ process = "up"
    /\ check = "isCrdExists"
    /\ IF crd # "missing"
       THEN /\ check' = "isCrdUpToDate"
            /\ UNCHANGED process
       ELSE Fail
    /\ UNCHANGED <<crd, channels, worker, seen, used>>

UpToDate == crd = "new"

IsCrdUpToDate ==
    /\ process = "up"
    /\ check = "isCrdUpToDate"
    /\ IF UpToDate
       THEN /\ check' = "passed"
            /\ crdCheckDone' = TRUE
            /\ seen' = crd
            /\ UNCHANGED process
       ELSE /\ Fail
            /\ UNCHANGED <<crdCheckDone, seen>>
    /\ UNCHANGED <<crd, postCheckDone, worker, used>>

MutantPostChecksDone ==
    /\ process # "down"
    /\ ~postCheckDone
    /\ postCheckDone' = TRUE
    /\ UNCHANGED <<crd, process, check, crdCheckDone, worker, seen, used>>

\* A goroutine of main hands the signal on; nothing stops it but the end of the process.
PostChecksDone ==
    /\ process # "down"
    /\ crdCheckDone
    /\ ~postCheckDone
    /\ postCheckDone' = TRUE
    /\ UNCHANGED <<crd, process, check, crdCheckDone, worker, seen, used>>

\* A CR is queued; there are CRs only while there is a CRD.
BeginCycle ==
    /\ process = "up"
    /\ worker = "idle"
    /\ crd # "missing"
    /\ worker' = IF postCheckDone THEN "reconciling" ELSE "blocked"
    /\ UNCHANGED <<crd, process, check, channels, seen, used>>

MutantPassGate ==
    /\ process = "stopping"
    /\ worker = "blocked"
    /\ worker' = "idle"
    /\ UNCHANGED <<crd, process, check, channels, seen, used>>

\* The wait ends with the channel only; the end of the manager's context is not looked at.
PassGate ==
    /\ process # "down"
    /\ worker = "blocked"
    /\ postCheckDone
    /\ worker' = "reconciling"
    /\ UNCHANGED <<crd, process, check, channels, seen, used>>

EndCycle ==
    /\ process # "down"
    /\ worker = "reconciling"
    /\ worker' = "idle"
    /\ UNCHANGED <<crd, process, check, channels, seen, used>>

\* Without a CRD the informer of the controller does not sync, and the manager gives up.
SyncTimeout ==
    /\ process = "up"
    /\ crd = "missing"
    /\ worker = "idle"
    /\ process' = "stopping"
    /\ UNCHANGED <<crd, check, channels, worker, seen, used>>

\* The manager waits for its runnables, but for a grace period only; then main exits.
Exit ==
    /\ process = "stopping"
    /\ process' = "down"
    /\ worker' = "idle"
    /\ UNCHANGED <<crd, check, channels, seen, used>>

-----------------------------------------------------------------------------
(* The outside                                                              *)

\* Users install, upgrade, downgrade or delete the CRD.
ChangeCRD ==
    /\ used.changes < MaxChanges
    /\ used' = [used EXCEPT !.changes = @ + 1]
    /\ crd' \in CRD \ {crd}
    /\ UNCHANGED <<process, check, channels, worker, seen>>

\* A read of the CRD fails.
ReadFails ==
    /\ process = "up"
    /\ check \in {"isCrdExists", "isCrdUpToDate"}
    /\ used.faults < MaxFaults
    /\ used' = [used EXCEPT !.faults = @ + 1]
    /\ Fail
    /\ UNCHANGED <<crd, channels, worker, seen>>

\* The process is told to stop, at any moment.
Terminate ==
    /\ process = "up"
    /\ used.stops < MaxStops
    /\ used' = [used EXCEPT !.stops = @ + 1]
    /\ process' = "stopping"
    /\ UNCHANGED <<crd, check, channels, worker, seen>>

-----------------------------------------------------------------------------
CRDCheck == IsCrdExists \/ IsCrdUpToDate
Controller == BeginCycle \/ PassGate \/ EndCycle
Manager == StartManager \/ Exit

Next ==
    \/ CRDCheck
    \/ PostChecksDone
    \/ Controller
    \/ Manager
    \/ SyncTimeout
    \/ ChangeCRD \/ ReadFails \/ Terminate

Spec == Init /\ [][Next]_vars

\* Goroutines run on, the manager's grace period ends, and the Deployment of the operator
\* starts the process again.  The outside is free, and the timeout may come or not.
Fairness ==
    /\ WF_vars(CRDCheck)
    /\ WF_vars(PostChecksDone)
    /\ WF_vars(Controller)
    /\ WF_vars(Manager)

FairSpec == Spec /\ Fairness

-----------------------------------------------------------------------------
(* Properties                                                               *)

\* No CR is reconciled by a process that has not itself found the CRD up to date, across
\* restarts and however the CRD changes (kubeturbo_controller.go, lines 63-66).
GateHolds == worker = "reconciling" => check = "passed" /\ seen = "new"

\* A process whose check fails ends, even while its worker waits for a channel that will
\* never be closed (CRDCheck.go, lines 59-73; main.go, lines 182-190).
FailedCheckEndsProcess == check = "failed" ~> process = "down"

\* Once the CRD is up to date for good, CRs are reconciled again and again.
Serves == <>[](crd = "new") => []<>(worker = "reconciling")
=============================================================================
