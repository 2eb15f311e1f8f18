-------------------------- MODULE OAuth2Migration --------------------------
(***************************************************************************)
(* scripts/oauth2_probe_migration.sh: it moves a Kubeturbo deployment from  *)
(* the user's login to an OAuth2 client.  Every cluster or server call of   *)
(* the script is a step; the Deployment controller, the kubelet and, for a  *)
(* Deployment it manages, the kubeturbo operator act in between, and the    *)
(* script may be interrupted after any call and run again.                  *)
(*                                                                          *)
(* An operator Mutant... is the definition of the rest of its name with a   *)
(* plausible mistake; the runs show that the properties detect it.          *)
(***************************************************************************)
EXTENDS Naturals

CONSTANTS
    None,     \* an absent object, no client
    Mounting, \* whether the Deployment mounts the secret at first: a set of Booleans
    MaxRuns, MaxFaults, MaxInterrupts, MaxEvictions   \* budgets

ASSUME BudgetsAssumption ==
    /\ MaxRuns \in Nat
    /\ MaxFaults \in Nat
    /\ MaxInterrupts \in Nat
    /\ MaxEvictions \in Nat

VARIABLES
    secret,      \* the secret turbonomic-credentials
    loginInFile, \* turbo.config holds the user's login
    managed,     \* the Deployment belongs to a Kubeturbo CR
    named,       \* and that CR names turbonomic-credentials as its secret
    mounts,      \* the Deployment's pod template mounts the secret
    replicas,    \* and its number of replicas
    pod,         \* the Kubeturbo pod: its template, and the client it read at its start
    minted,      \* clients that the server has created so far
    pc,          \* the next call of the script, or "idle" when it does not run
    held,        \* the client that the script has got from the server
    used,        \* how much of each budget is spent
    report       \* history: what the latest run has told the user at its end

vars == <<secret, loginInFile, managed, named, mounts, replicas, pod, minted, pc, held, used, report>>
settings == <<loginInFile, managed, named>>
cluster == <<secret, settings, mounts, replicas, pod>>
script == <<pc, held, report>>

Optional(S) == S \cup {None}

Secret == [login: BOOLEAN, client: Optional(Nat)]
Pod == [mounts: BOOLEAN, client: Optional(Nat)]
Label == {"idle", "checkCurrentStatus", "loginToServer", "requestClient", "deleteSecret",
          "createSecret", "checkMounted", "patchDeployment", "scaleDown", "scaleUp"}
Report == {"completed", "patched", "restarted"}

ASSUME ConstantsAssumption ==
    /\ None \notin Nat \cup Report \cup Secret
    /\ Mounting \subseteq BOOLEAN

TypeOK ==
    /\ secret \in Optional(Secret)
    /\ loginInFile \in BOOLEAN
    /\ managed \in BOOLEAN
    /\ named \in BOOLEAN
    /\ mounts \in BOOLEAN
    /\ replicas \in {0, 1}
    /\ pod \in Optional(Pod)
    /\ minted \in Nat
    /\ pc \in Label
    /\ held \in Optional(Nat)
    /\ used \in [runs: Nat, faults: Nat, interrupts: Nat, evictions: Nat]
    /\ report \in Optional(Report)

LoginOnly == [login |-> TRUE, client |-> None]

\* The operator's Deployment mounts the secret that its CR names, this one or another.
Init ==
    /\ secret \in {None, LoginOnly}
    /\ loginInFile \in BOOLEAN
    /\ managed \in BOOLEAN
    /\ named \in BOOLEAN
    /\ named => managed
    /\ mounts \in Mounting
    /\ managed => mounts = named
    /\ replicas = 1
    /\ pod = [mounts |-> mounts, client |-> None]
    /\ minted = 0
    /\ pc = "idle"
    /\ held = None
    /\ used = [runs |-> 0, faults |-> 0, interrupts |-> 0, evictions |-> 0]
    /\ report = None

-----------------------------------------------------------------------------
(* The script                                                               *)

Goto(label) ==
    /\ pc' = label
    /\ UNCHANGED <<held, report>>

\* The script ends, with or without a word of success.
Exit(word) ==
    /\ pc' = "idle"
    /\ held' = None
    /\ report' = word

Abort == Exit(None)

\* The user chooses this Deployment and consents to its status.
Start ==
    /\ pc = "idle"
    /\ used.runs < MaxRuns
    /\ used' = [used EXCEPT !.runs = @ + 1]
    /\ pc' = "checkCurrentStatus"
    /\ report' = None
    /\ UNCHANGED <<cluster, minted, held>>

CheckCurrentStatus ==
    /\ pc = "checkCurrentStatus"
    /\ IF secret # None /\ secret.client # None
       THEN Exit("completed")
       ELSE Goto("loginToServer")
    /\ UNCHANGED <<cluster, minted, used>>

LoginInSecret == secret # None /\ secret.login

\* The login comes from the secret or from turbo.config; without one the script aborts.
LoginKnown == loginInFile \/ LoginInSecret

MutantLoginToServer ==
    /\ pc = "loginToServer"
    /\ IF LoginKnown THEN Goto("deleteSecret") ELSE Abort
    /\ UNCHANGED <<cluster, minted, used>>

LoginToServer ==
    /\ pc = "loginToServer"
    /\ IF LoginKnown THEN Goto("requestClient") ELSE Abort
    /\ UNCHANGED <<cluster, minted, used>>

RequestClient ==
    /\ pc = "requestClient"
    /\ minted' = minted + 1
    /\ held' = minted + 1
    /\ pc' = "deleteSecret"
    /\ UNCHANGED <<cluster, used, report>>

DeleteSecret ==
    /\ pc = "deleteSecret"
    /\ secret' = None
    /\ Goto("createSecret")
    /\ UNCHANGED <<settings, mounts, replicas, pod, minted, used>>

MutantCreateSecret ==
    /\ pc = "createSecret"
    /\ secret' = IF secret = None THEN [login |-> FALSE, client |-> held] ELSE secret
    /\ Goto("checkMounted")
    /\ UNCHANGED <<settings, mounts, replicas, pod, minted, used>>

\* A secret that is still there cannot be created; the script then exits.
CreateSecret ==
    /\ pc = "createSecret"
    /\ IF secret = None
       THEN /\ secret' = [login |-> FALSE, client |-> held]
            /\ Goto("checkMounted")
       ELSE /\ Abort
            /\ UNCHANGED secret
    /\ UNCHANGED <<settings, mounts, replicas, pod, minted, used>>

CheckMounted ==
    /\ pc = "checkMounted"
    /\ Goto(IF mounts THEN "scaleDown" ELSE "patchDeployment")
    /\ UNCHANGED <<cluster, minted, used>>

MutantPatchDeployment ==
    /\ pc = "patchDeployment"
    /\ Exit(IF mounts THEN "restarted" ELSE "patched")
    /\ UNCHANGED <<cluster, minted, used>>

\* A new pod template rolls out; a patch that changes nothing does not.
PatchDeployment ==
    /\ pc = "patchDeployment"
    /\ mounts' = TRUE
    /\ Exit(IF mounts THEN "restarted" ELSE "patched")
    /\ UNCHANGED <<secret, settings, replicas, pod, minted, used>>

ScaleDown ==
    /\ pc = "scaleDown"
    /\ replicas' = 0
    /\ Goto("scaleUp")
    /\ UNCHANGED <<secret, settings, mounts, pod, minted, used>>

MutantScaleUp ==
    /\ pc = "scaleUp"
    /\ replicas' = replicas + 1
    /\ Exit("restarted")
    /\ UNCHANGED <<secret, settings, mounts, pod, minted, used>>

ScaleUp ==
    /\ pc = "scaleUp"
    /\ replicas' = 1
    /\ Exit("restarted")
    /\ UNCHANGED <<secret, settings, mounts, pod, minted, used>>

-----------------------------------------------------------------------------
(* Failures                                                                 *)

\* Where a run goes on when the call at a label fails; the other labels abort.
IgnoredAt == [checkCurrentStatus |-> "loginToServer",
              deleteSecret       |-> "createSecret",
              checkMounted       |-> "patchDeployment"]

\* A call fails; the server may have created a client whose answer is lost.
Fault ==
    /\ pc # "idle"
    /\ used.faults < MaxFaults
    /\ used' = [used EXCEPT !.faults = @ + 1]
    /\ minted' \in IF pc = "requestClient" THEN {minted, minted + 1} ELSE {minted}
    /\ IF pc \in DOMAIN IgnoredAt THEN Goto(IgnoredAt[pc]) ELSE Abort
    /\ UNCHANGED cluster

Interrupt ==
    /\ pc # "idle"
    /\ used.interrupts < MaxInterrupts
    /\ used' = [used EXCEPT !.interrupts = @ + 1]
    /\ Abort
    /\ UNCHANGED <<cluster, minted>>

\* The cluster evicts the pod, whatever the script does.
Evict ==
    /\ pod # None
    /\ used.evictions < MaxEvictions
    /\ used' = [used EXCEPT !.evictions = @ + 1]
    /\ pod' = None
    /\ UNCHANGED <<secret, settings, mounts, replicas, minted, script>>

-----------------------------------------------------------------------------
(* The cluster                                                              *)

\* The operator mounts the secret as an optional volume: without the secret the pod starts
\* without a client.  The script's own mount is not optional; that such a pod would wait for
\* the secret is left out.
StartPod ==
    /\ pod = None
    /\ replicas = 1
    /\ pod' = [mounts |-> mounts,
               client |-> IF mounts /\ secret # None THEN secret.client ELSE None]
    /\ UNCHANGED <<secret, settings, mounts, replicas, minted, script, used>>

\* The Deployment controller compares states: a pod that it has not stopped before the
\* script scales up again goes on running.
StopPod ==
    /\ pod # None
    /\ replicas = 0 \/ pod.mounts # mounts
    /\ pod' = None
    /\ UNCHANGED <<secret, settings, mounts, replicas, minted, script, used>>

MutantReconcile ==
    /\ managed
    /\ mounts # named
    /\ mounts' = named
    /\ UNCHANGED <<secret, settings, replicas, pod, minted, script, used>>

\* The operator restores the Deployment of its CR: replicas and volumes.  For a CR that names
\* another secret it takes back what the script has patched.
Reconcile ==
    /\ managed
    /\ replicas = 0 \/ mounts # named
    /\ replicas' = 1
    /\ mounts' = named
    /\ UNCHANGED <<secret, settings, pod, minted, script, used>>

-----------------------------------------------------------------------------
Script ==
    \/ CheckCurrentStatus
    \/ LoginToServer
    \/ RequestClient
    \/ DeleteSecret
    \/ CreateSecret
    \/ CheckMounted
    \/ PatchDeployment
    \/ ScaleDown
    \/ ScaleUp

Kubernetes == StartPod \/ StopPod

Next ==
    \/ Start
    \/ Script
    \/ Fault \/ Interrupt \/ Evict
    \/ Kubernetes
    \/ Reconcile

Spec == Init /\ [][Next]_vars

\* The script goes on by itself once started; Kubernetes and the operator never stop.
Fairness == WF_vars(Script) /\ WF_vars(Kubernetes) /\ WF_vars(Reconcile)

FairSpec == Spec /\ Fairness

-----------------------------------------------------------------------------
(* Properties                                                               *)

\* The login in the secret is given up only for a client that the server has created and
\* the script still holds, whatever fails or interrupts earlier runs (lines 527-540).
LoginGivenUpForClient ==
    [][(/\ secret # None
        /\ secret.login
        /\ secret' # secret) => held \in 1..minted]_vars

\* Once the script says that it is done, the secret holds the latest client: a failed delete
\* never lets it take an older secret for its own (lines 279-305).
DoneWithLatestClient ==
    report \in {"patched", "restarted"} => secret # None /\ secret.client = minted

\* A Deployment of the operator gets its pod back, even when the script dies between
\* scaling it down and up (lines 434-458; mutateDeployment sets the replicas).
PodReturns == managed => []<>(pod # None)

Migrated == pod # None /\ secret # None /\ pod.client # None /\ pod.client = secret.client

\* The operator has no other secret to mount in its place.
PatchLasts == managed => named

\* Where the script had to patch the Deployment, the pod ends up with the client, unless
\* the script is run again or the Deployment's CR names another secret (lines 542-546).
PatchedMeansMigrated ==
    (report = "patched" /\ PatchLasts) ~> (Migrated \/ report # "patched")

Handover == INSTANCE CredentialHandover
    WITH login  <- secret # None /\ secret.login,
         client <- IF secret = None THEN None ELSE secret.client,
         issued <- minted,
         read   <- IF pod = None THEN None ELSE pod.client,
         told   <- report \in {"patched", "restarted"}

\* Run after run, whatever fails or is cut short, the script does what a migration promises:
\* it gives up nothing but for a newer client, and stores and reports only the latest.
ImplementsHandover == Handover!Spec
=============================================================================
