---------------------------- MODULE InstallScript ----------------------------
(***************************************************************************)
(* The script that installs and uninstalls the operator and one Kubeturbo   *)
(* CR in a namespace (install_kubeturbo_via_operator.sh), run again after   *)
(* interruptions, and in several namespaces at a time: the operators'       *)
(* rights are a ClusterRoleBinding that all namespaces share.               *)
(*                                                                          *)
(* The script looks at few results: a call that fails is passed over.       *)
(* Modelled is the bundle of plain Kubernetes; the operator is reduced to   *)
(* what the script waits for and races with.                                *)
(*                                                                          *)
(* An operator Mutant... is the definition of the rest of its name with a   *)
(* plausible mistake; the runs show that the properties detect it.          *)
(***************************************************************************)
EXTENDS Naturals

CONSTANTS
    None,       \* no binding, no report
    Namespace,  \* the namespaces that the script is run in
    Actions,    \* what it is run for: "apply", "delete"
    MaxRuns, MaxFaults, MaxInterrupts   \* budgets

ASSUME ConstantsAssumption ==
    /\ Actions \subseteq {"apply", "delete"}
    /\ \A s \in SUBSET Namespace : s # None
    /\ \A a \in {"apply", "delete"} : a # None
    /\ MaxRuns \in Nat
    /\ MaxFaults \in Nat
    /\ MaxInterrupts \in Nat

VARIABLES
    pc,         \* of the script in each namespace: its next call
    action,     \* ACTION
    exists,     \* whether the script has found the binding
    told,       \* what the last run has reported as done, or None
    binding,    \* the subjects of the operators' ClusterRoleBinding, or None
    operator,   \* whether the operator's Deployment exists
    cr,         \* the CR: "none", "live", "held" by the operator's finalizer, "deleting"
    deployment, \* Kubeturbo's Deployment: "none", "own" of this CR, "orphan" of an earlier one
    rights,     \* whether Kubeturbo's own ClusterRoleBinding exists
    teardown,   \* whether the operator is about to tear down
    failed,     \* history: whether a call of a run in this namespace has ever failed unnoticed
    late,       \* history: whether the last report was of a CR in deletion or gone
    used        \* budgets spent

vars == <<pc, action, exists, told, binding, operator, cr, deployment, rights, teardown,
          failed, late, used>>
history == <<failed, late>>
release == <<cr, deployment, rights, teardown>>

MutantSetupKubeturbo ==
    [apply |-> "lookUpBinding", lookUpBinding |-> "bind", bind |-> "applyOperator",
     applyOperator |-> "awaitOperator", awaitOperator |-> "applyCR",
     applyCR |-> "awaitKubeturbo", awaitKubeturbo |-> "idle",
     delete |-> "deleteOperator", deleteOperator |-> "deleteCR",
     deleteCR |-> "awaitDeletion", awaitDeletion |-> "idle"]

\* The next call: the operator comes first and goes last.
SetupKubeturbo ==
    [apply |-> "lookUpBinding", lookUpBinding |-> "bind", bind |-> "applyOperator",
     applyOperator |-> "awaitOperator", awaitOperator |-> "applyCR",
     applyCR |-> "awaitKubeturbo", awaitKubeturbo |-> "idle",
     delete |-> "deleteCR", deleteCR |-> "awaitDeletion",
     awaitDeletion |-> "deleteOperator", deleteOperator |-> "idle"]

Label == {"idle", "lookUpBinding", "bind", "applyOperator", "awaitOperator", "applyCR",
          "awaitKubeturbo", "deleteCR", "awaitDeletion", "deleteOperator"}

TypeOK ==
    /\ pc \in [Namespace -> Label]
    /\ action \in [Namespace -> {"apply", "delete"}]
    /\ exists \in [Namespace -> BOOLEAN]
    /\ told \in [Namespace -> {"apply", "delete", None}]
    /\ binding # None => binding \subseteq Namespace
    /\ \A n \in Namespace : exists[n] => binding # None
    /\ operator \in [Namespace -> BOOLEAN]
    /\ cr \in [Namespace -> {"none", "live", "held", "deleting"}]
    /\ deployment \in [Namespace -> {"none", "own", "orphan"}]
    /\ rights \in [Namespace -> BOOLEAN]
    /\ teardown \in [Namespace -> BOOLEAN]
    /\ failed \in [Namespace -> BOOLEAN]
    /\ late \in [Namespace -> BOOLEAN]
    /\ used \in [runs : 0..MaxRuns, faults : 0..MaxFaults, interrupts : 0..MaxInterrupts]

Init ==
    /\ pc = [n \in Namespace |-> "idle"]
    /\ action = [n \in Namespace |-> "apply"]
    /\ exists = [n \in Namespace |-> FALSE]
    /\ told = [n \in Namespace |-> None]
    /\ binding = None
    /\ operator = [n \in Namespace |-> FALSE]
    /\ cr = [n \in Namespace |-> "none"]
    /\ deployment = [n \in Namespace |-> "none"]
    /\ rights = [n \in Namespace |-> FALSE]
    /\ teardown = [n \in Namespace |-> FALSE]
    /\ failed = [n \in Namespace |-> FALSE]
    /\ late = [n \in Namespace |-> FALSE]
    /\ used = [runs |-> 0, faults |-> 0, interrupts |-> 0]

-----------------------------------------------------------------------------
(* The script                                                               *)

Start(n, a) ==
    /\ pc[n] = "idle"
    /\ used.runs < MaxRuns
    /\ pc' = [pc EXCEPT ![n] = SetupKubeturbo[a]]
    /\ action' = [action EXCEPT ![n] = a]
    /\ told' = [told EXCEPT ![n] = None]
    /\ used' = [used EXCEPT !.runs = @ + 1]
    /\ UNCHANGED <<exists, binding, operator, release, history>>

\* The last call is followed by "Successfully ${ACTION} Kubeturbo".
Goto(n, label) ==
    /\ pc' = [pc EXCEPT ![n] = label]
    /\ told' = IF label = "idle" THEN [told EXCEPT ![n] = action[n]] ELSE told
    /\ UNCHANGED action

Proceed(n) == Goto(n, SetupKubeturbo[pc[n]])

MutantLookUpBinding(n) ==
    /\ pc[n] = "lookUpBinding"
    /\ exists' = [exists EXCEPT ![n] = binding = None]
    /\ Proceed(n)
    /\ UNCHANGED <<binding, operator, release, history, used>>

LookUpBinding(n) ==
    /\ pc[n] = "lookUpBinding"
    /\ exists' = [exists EXCEPT ![n] = binding # None]
    /\ Proceed(n)
    /\ UNCHANGED <<binding, operator, release, history, used>>

MutantBind(n) ==
    /\ pc[n] = "bind"
    /\ binding' = {n}
    /\ Proceed(n)
    /\ UNCHANGED <<exists, operator, release, history, used>>

\* A binding that exists gets one more subject.  Creating one is refused when another
\* namespace was faster.
Bind(n) ==
    /\ pc[n] = "bind"
    /\ binding' = IF exists[n] THEN binding \cup {n}
                  ELSE IF binding = None THEN {n}
                  ELSE binding
    /\ Proceed(n)
    /\ UNCHANGED <<exists, operator, release, history, used>>

ApplyOperator(n) ==
    /\ pc[n] = "applyOperator"
    /\ operator' = [operator EXCEPT ![n] = TRUE]
    /\ Proceed(n)
    /\ UNCHANGED <<exists, binding, release, history, used>>

\* A CR in deletion takes the edit and stays in deletion.
ApplyCR(n) ==
    /\ pc[n] = "applyCR"
    /\ cr' = [cr EXCEPT ![n] = IF @ = "none" THEN "live" ELSE @]
    /\ Proceed(n)
    /\ UNCHANGED <<exists, binding, operator, deployment, rights, teardown, history, used>>

MutantReady(n) == pc[n] \in {"awaitOperator", "awaitKubeturbo"}

\* Whether the Deployment waited for is there; whose it is does not matter.
Ready(n) ==
    \/ pc[n] = "awaitOperator" /\ operator[n]
    \/ pc[n] = "awaitKubeturbo" /\ deployment[n] # "none"

WaitForDeployment(n) ==
    /\ Ready(n)
    /\ Proceed(n)
    /\ late' = [late EXCEPT ![n] = pc[n] = "awaitKubeturbo" /\ cr[n] \notin {"live", "held"}]
    /\ UNCHANGED <<exists, binding, operator, release, failed, used>>

\* The tenth attempt fails, and so does the run.
GiveUp(n) ==
    /\ pc[n] \in {"awaitOperator", "awaitKubeturbo"}
    /\ ~Ready(n)
    /\ pc' = [pc EXCEPT ![n] = "idle"]
    /\ UNCHANGED <<action, exists, told, binding, operator, release, history, used>>

DeleteCR(n) ==
    /\ pc[n] = "deleteCR"
    /\ cr' = [cr EXCEPT ![n] = IF @ \in {"held", "deleting"} THEN "deleting" ELSE "none"]
    /\ Proceed(n)
    /\ UNCHANGED <<exists, binding, operator, deployment, rights, teardown, history, used>>

MutantAwaitDeletion(n) ==
    /\ pc[n] = "awaitDeletion"
    /\ Proceed(n)
    /\ UNCHANGED <<exists, binding, operator, release, history, used>>

\* kubectl delete comes back when the finalizers are off.
AwaitDeletion(n) ==
    /\ pc[n] = "awaitDeletion"
    /\ cr[n] = "none"
    /\ Proceed(n)
    /\ UNCHANGED <<exists, binding, operator, release, history, used>>

\* Whatever the operator was doing ends with its pod.  Cluster-wide objects stay.
DeleteOperator(n) ==
    /\ pc[n] = "deleteOperator"
    /\ operator' = [operator EXCEPT ![n] = FALSE]
    /\ teardown' = [teardown EXCEPT ![n] = FALSE]
    /\ Proceed(n)
    /\ UNCHANGED <<exists, binding, cr, deployment, rights, history, used>>

\* A call fails; the script takes no notice.  A binding not found is one that is not there,
\* and a failed deletion is not waited for.
Fault(n) ==
    /\ used.faults < MaxFaults
    /\ used' = [used EXCEPT !.faults = @ + 1]
    /\ pc[n] \in {"lookUpBinding", "bind", "applyOperator", "applyCR", "deleteCR",
                  "awaitDeletion", "deleteOperator"}
    /\ failed' = [failed EXCEPT ![n] = TRUE]
    /\ exists' = [exists EXCEPT ![n] = @ /\ pc[n] # "lookUpBinding"]
    /\ Goto(n, IF pc[n] = "deleteCR" THEN SetupKubeturbo["awaitDeletion"]
               ELSE SetupKubeturbo[pc[n]])
    /\ UNCHANGED <<binding, operator, release, late>>

Interrupt(n) ==
    /\ pc[n] # "idle"
    /\ used.interrupts < MaxInterrupts
    /\ used' = [used EXCEPT !.interrupts = @ + 1]
    /\ pc' = [pc EXCEPT ![n] = "idle"]
    /\ UNCHANGED <<action, exists, told, binding, operator, release, history>>

-----------------------------------------------------------------------------
(* The operator of a namespace, one call at a time, if it may make any      *)

Bound(n) == binding # None /\ n \in binding

Able(n) == operator[n] /\ Bound(n) /\ ~teardown[n]

PatchFinalizer(n) ==
    /\ Able(n)
    /\ cr[n] = "live"
    /\ cr' = [cr EXCEPT ![n] = "held"]
    /\ UNCHANGED <<deployment, rights, teardown>>

\* An orphan keeps its owner.
Reconcile(n) ==
    /\ Able(n)
    /\ cr[n] = "held"
    /\ deployment[n] = "none" \/ ~rights[n]
    /\ deployment' = [deployment EXCEPT ![n] = IF @ = "none" THEN "own" ELSE @]
    /\ rights' = [rights EXCEPT ![n] = TRUE]
    /\ UNCHANGED <<cr, teardown>>

\* The finalizer goes first, and with it the CR.
RemoveFinalizer(n) ==
    /\ Able(n)
    /\ cr[n] = "deleting"
    /\ cr' = [cr EXCEPT ![n] = "none"]
    /\ deployment' = [deployment EXCEPT ![n] = IF @ = "none" THEN @ ELSE "orphan"]
    /\ teardown' = [teardown EXCEPT ![n] = TRUE]
    /\ UNCHANGED rights

TearDown(n) ==
    /\ operator[n]
    /\ teardown[n]
    /\ teardown' = [teardown EXCEPT ![n] = FALSE]
    /\ rights' = [rights EXCEPT ![n] = FALSE]
    /\ UNCHANGED <<cr, deployment>>

CollectGarbage(n) ==
    /\ deployment[n] = "orphan"
    /\ deployment' = [deployment EXCEPT ![n] = "none"]
    /\ UNCHANGED <<cr, rights, teardown>>

-----------------------------------------------------------------------------
Script(n) ==
    \/ LookUpBinding(n)
    \/ Bind(n)
    \/ ApplyOperator(n)
    \/ ApplyCR(n)
    \/ WaitForDeployment(n)
    \/ GiveUp(n)
    \/ DeleteCR(n)
    \/ AwaitDeletion(n)
    \/ DeleteOperator(n)

Cluster(n) ==
    /\ \/ PatchFinalizer(n)
       \/ Reconcile(n)
       \/ RemoveFinalizer(n)
       \/ TearDown(n)
       \/ CollectGarbage(n)
    /\ UNCHANGED <<pc, action, exists, told, binding, operator, history, used>>

Next ==
    \E n \in Namespace :
        \/ \E a \in Actions : Start(n, a)
        \/ Script(n)
        \/ Fault(n)
        \/ Interrupt(n)
        \/ Cluster(n)

Spec == Init /\ [][Next]_vars

\* A script once started goes on, and so do the operator and the garbage collector.
FairSpec == Spec /\ \A n \in Namespace : WF_vars(Script(n)) /\ WF_vars(Cluster(n))

-----------------------------------------------------------------------------
(* Properties                                                               *)

\* An installation takes no rights from the operator of another namespace, although all share
\* one ClusterRoleBinding and the look at it is not the write (lines 859-874).
RightsKept == [][\A n \in Namespace : Bound(n) => Bound(n)']_vars

Served(n) == cr[n] = "held" /\ deployment[n] = "own" /\ rights[n]

\* An installation reported as done is one that works, for good, although no call's result
\* but the Deployment's is looked at (lines 282, 329, 785-812); not, though, where that
\* Deployment is one of a CR that is going.
DoneMeansServed ==
    \A n \in Namespace : <>[](told[n] = "apply" /\ ~late[n] => Served(n))

\* The operator goes only once no CR needs it: its finalizer would hold the CR, and the
\* namespace, for good (lines 321-323). A call that fails unnoticed can still break this.
OperatorGoesLast ==
    [][\A n \in Namespace : operator[n] /\ ~operator'[n] => cr[n] = "none" \/ failed[n]]_vars

\* No deletion waits for ever, whatever earlier runs were interrupted at (lines 321-323).
UninstallEnds ==
    \A n \in Namespace : pc[n] = "awaitDeletion" ~> pc[n] # "awaitDeletion" \/ failed[n]
=============================================================================
