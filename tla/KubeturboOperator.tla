------------------------- MODULE KubeturboOperator -------------------------
(***************************************************************************)
(* The kubeturbo operator: one Kubeturbo custom resource (CR), the objects  *)
(* the operator derives from it, and the controller worker that reconciles  *)
(* them one API call at a time.                                             *)
(*                                                                          *)
(* Every call to the API server is a step of its own, so that users, the    *)
(* garbage collector, the Deployment controller, the informer caches and    *)
(* crashes interleave with the calls of one reconcile cycle.  Reads go to   *)
(* the informer caches (view), writes to the API server (api) with          *)
(* optimistic concurrency.                                                  *)
(*                                                                          *)
(* An operator Mutant... is the definition of the rest of its name with a   *)
(* plausible mistake; the runs show that the properties detect it.          *)
(***************************************************************************)
EXTENDS Naturals

CONSTANTS
    None,            \* an absent object; also an unset status.configHash
    Config,          \* contents of the ConfigMap (turbo.config and the dynamic file)
    Static,          \* contents of turbo.config; its FNV-64 hash stands for it
    StaticPart,      \* StaticPart[c]: the turbo.config in the ConfigMap contents c
    Role,            \* values of spec.roleName
    ManagedRole,     \* those whose ClusterRole the operator writes itself
    SAName,          \* values of spec.serviceAccountName
    Specs,           \* the specs users write
    IncompleteSpecs, \* those of them that SetSpecDefault rejects
    CreatedWith,     \* sets of finalizers a CR may be created with
    CleanupScc,      \* spec.args.cleanupSccImpersonationResources
    Lagging,         \* kinds of objects whose informer cache may lag
    AwaitHash,       \* users change turbo.config only once status.configHash is set
    MaxCreates, MaxEdits, MaxTampers, MaxCrashes, MaxFaults   \* budgets

Kinds == {"cr", "cm", "sa", "role", "crb", "dep"}
Watched == {"cr", "cm", "sa", "dep"}
Finalizer == {"kubeturbo", "foreign"}
KubeturboFinalizer == "kubeturbo"
KubeturboSpec == [config: Config, role: Role, sa: SAName]

ASSUME ConstantsAssumption ==
    /\ StaticPart \in [Config -> Static]
    /\ None \notin Static \cup Nat
    /\ ManagedRole \subseteq Role
    /\ Specs \subseteq KubeturboSpec
    /\ CreatedWith \subseteq SUBSET Finalizer
    /\ CleanupScc \in BOOLEAN
    /\ AwaitHash \in BOOLEAN
    /\ Lagging \subseteq Kinds

ASSUME BudgetsAssumption ==
    /\ MaxCreates \in Nat
    /\ MaxEdits \in Nat
    /\ MaxTampers \in Nat
    /\ MaxCrashes \in Nat
    /\ MaxFaults \in Nat

VARIABLES
    cr, cm, sa, role, crb, dep, \* the objects in the API server
    view,     \* the same objects as the operator's informer caches hold them
    pod,      \* the Kubeturbo pod
    pc,       \* the next API call of the worker, or "idle"
    kt,       \* the copy of the CR that the worker holds during a cycle
    queued,   \* the CR's key is in the controller's work queue
    used,     \* how much of each budget is spent
    gen,      \* history: changes of turbo.config that users have made
    restarts  \* history: Deployments deleted by the operator to restart the pod

vars == <<cr, cm, sa, role, crb, dep, view, pod, pc, kt, queued, used, gen, restarts>>
history == <<gen, restarts>>
worker == <<pc, kt, queued>>

Optional(S) == S \cup {None}

CR == [uid: Nat, rv: Nat, gen: Nat, deleting: BOOLEAN, finalizers: SUBSET Finalizer,
       spec: KubeturboSpec, hash: Optional(Static)]
ConfigMap == [config: Config, uid: Nat, owner: Nat]
ServiceAccount == [uid: Nat, owner: Optional(Nat), finalizer: BOOLEAN, deleting: BOOLEAN]
ClusterRole == Nat      \* the UID in its instance label stands for the ClusterRole
ClusterRoleBinding == [role: Role, sa: SAName, uid: Nat]
Deployment == [sa: SAName, uid: Nat]
Pod == [config: Static, sa: SAName, doomed: BOOLEAN]

\* An absent object is no object.
ASSUME NoneAssumption ==
    None \notin CR \cup ConfigMap \cup ServiceAccount \cup ClusterRoleBinding \cup Deployment \cup Pod

Label == {"idle", "updateCR", "waitForPodDeletion", "cleanUpServiceAccount",
          "cleanUpClusterRole", "cleanUpClusterRolebinding", "patchCR", "configMap",
          "serviceAccount", "clusterRole", "clusterRoleBinding",
          "deleteClusterRoleBinding", "deployment", "deleteDeployment",
          "updateClusterResource"}

View == [cr: Optional(CR), cm: Optional(ConfigMap), sa: [SAName -> Optional(ServiceAccount)],
         role: [ManagedRole -> Optional(ClusterRole)], crb: Optional(ClusterRoleBinding),
         dep: Optional(Deployment)]
Usage == [creates: Nat, edits: Nat, tampers: Nat, crashes: Nat, faults: Nat]

TypeOK ==
    /\ cr \in Optional(CR)
    /\ cm \in Optional(ConfigMap)
    /\ sa \in [SAName -> Optional(ServiceAccount)]
    /\ role \in [ManagedRole -> Optional(ClusterRole)]
    /\ crb \in Optional(ClusterRoleBinding)
    /\ dep \in Optional(Deployment)
    /\ view \in View
    /\ pod \in Optional(Pod)
    /\ pc \in Label
    /\ kt \in Optional(CR)
    /\ pc # "idle" => kt # None
    /\ queued \in BOOLEAN
    /\ used \in Usage
    /\ gen \in Nat
    /\ restarts \in Nat

Current == [cr |-> cr, cm |-> cm, sa |-> sa, role |-> role, crb |-> crb, dep |-> dep]

Init ==
    /\ cr = None
    /\ cm = None
    /\ sa = [n \in SAName |-> None]
    /\ role = [r \in ManagedRole |-> None]
    /\ crb = None
    /\ dep = None
    /\ view = Current
    /\ pod = None
    /\ pc = "idle"
    /\ kt = None
    /\ queued = FALSE
    /\ used = [creates |-> 0, edits |-> 0, tampers |-> 0, crashes |-> 0, faults |-> 0]
    /\ gen = 0
    /\ restarts = 0

-----------------------------------------------------------------------------
(* The outside of the operator                                              *)

\* Caches of the kinds that do not lag are up to date before anything else happens.
Settled == \A k \in Kinds \ Lagging : view[k] = Current[k]

\* A change reaches an informer; for the kinds the controller watches it queues the CR.
Sync(k) ==
    /\ view[k] # Current[k]
    /\ view' = [view EXCEPT ![k] = Current[k]]
    /\ queued' = (queued \/ k \in Watched)
    /\ UNCHANGED <<cr, cm, sa, role, crb, dep, pod, pc, kt, used, history>>

CreateCR(spec, finalizers) ==
    /\ cr = None
    /\ used.creates < MaxCreates
    /\ used' = [used EXCEPT !.creates = @ + 1]
    /\ cr' = [uid |-> used.creates + 1, rv |-> 1, gen |-> gen, deleting |-> FALSE,
              finalizers |-> finalizers, spec |-> spec, hash |-> None]
    /\ UNCHANGED <<cm, sa, role, crb, dep, view, pod, worker, history>>

ChangesStatic(old, new) == StaticPart[old.config] # StaticPart[new.config]

EditCR(spec) ==
    /\ cr # None
    /\ spec # cr.spec
    /\ used.edits < MaxEdits
    /\ AwaitHash /\ ChangesStatic(cr.spec, spec) => cr.hash # None
    /\ used' = [used EXCEPT !.edits = @ + 1]
    /\ gen' = IF ChangesStatic(cr.spec, spec) THEN gen + 1 ELSE gen
    /\ cr' = [cr EXCEPT !.spec = spec, !.rv = cr.rv + 1, !.gen = gen']
    /\ UNCHANGED <<cm, sa, role, crb, dep, view, pod, worker, restarts>>

DeleteCR ==
    /\ cr # None
    /\ ~cr.deleting
    /\ cr' = IF cr.finalizers = {} THEN None
             ELSE [cr EXCEPT !.deleting = TRUE, !.rv = cr.rv + 1]
    /\ UNCHANGED <<cm, sa, role, crb, dep, view, pod, worker, used, history>>

\* A pod goes after its Deployment.
Doomed == IF pod = None THEN None ELSE [pod EXCEPT !.doomed = TRUE]

DropConfigMap ==
    /\ cm # None
    /\ cm' = None
    /\ UNCHANGED <<sa, dep, pod>>

DropDeployment ==
    /\ dep # None
    /\ dep' = None
    /\ pod' = Doomed
    /\ UNCHANGED <<cm, sa>>

\* Its finalizer keeps a deleted ServiceAccount.
DropServiceAccount(n) ==
    /\ sa[n] # None
    /\ ~sa[n].deleting
    /\ sa' = [sa EXCEPT ![n] = IF sa[n].finalizer THEN [sa[n] EXCEPT !.deleting = TRUE]
                               ELSE None]
    /\ UNCHANGED <<cm, dep, pod>>

\* A user deletes an object that the operator watches.
Tamper ==
    /\ used.tampers < MaxTampers
    /\ used' = [used EXCEPT !.tampers = @ + 1]
    /\ DropConfigMap \/ DropDeployment \/ \E n \in SAName : DropServiceAccount(n)
    /\ UNCHANGED <<cr, role, crb, view, worker, history>>

\* The owner reference, set when the object is created and never changed, names no CR.
Orphaned(owner) == owner # None /\ ~(cr # None /\ cr.uid = owner)

CollectGarbage ==
    /\ \/ DropConfigMap /\ Orphaned(cm.owner)
       \/ DropDeployment /\ Orphaned(dep.uid)
       \/ \E n \in SAName : DropServiceAccount(n) /\ Orphaned(sa[n].owner)
    /\ UNCHANGED <<cr, role, crb, view, worker, used, history>>

\* The pod reads turbo.config when it starts and never again.
StartPod ==
    /\ pod = None
    /\ dep # None
    /\ cm # None
    /\ sa[dep.sa] # None
    /\ pod' = [config |-> StaticPart[cm.config], sa |-> dep.sa, doomed |-> FALSE]
    /\ UNCHANGED <<cr, cm, sa, role, crb, dep, view, worker, used, history>>

\* The Recreate strategy stops the pod of an older template before it starts the next.
StopPod ==
    /\ pod # None
    /\ ~pod.doomed => dep # None /\ dep.sa # pod.sa
    /\ pod' = None
    /\ UNCHANGED <<cr, cm, sa, role, crb, dep, view, worker, used, history>>

-----------------------------------------------------------------------------
(* The worker                                                               *)

Goto(label) ==
    /\ pc' = label
    /\ UNCHANGED <<kt, queued>>

Return(requeue) ==
    /\ pc' = "idle"
    /\ kt' = None
    /\ queued' = (queued \/ requeue)

DoNotRequeue == Return(FALSE)
Requeue == Return(TRUE)
Proceed(ok, label) == IF ok THEN Goto(label) ELSE Requeue

\* controllerutil.CreateOrUpdate: the cache decides between create, update and no
\* call at all; the API server refuses to create what exists and to update what
\* is not the version that was read.
Accepted(seen, actual, mutated) ==
    IF seen = None THEN actual = None ELSE mutated = seen \/ actual = seen

Stored(seen, actual, created, mutated) ==
    IF seen = None
    THEN IF actual = None THEN created ELSE actual
    ELSE IF actual = seen THEN mutated ELSE actual

\* Update and Status().Update on the CR succeed on the latest version only.
Fresh == cr # None /\ cr.uid = kt.uid /\ cr.rv = kt.rv

MutantGet ==
    /\ pc = "idle"
    /\ queued
    /\ queued' = FALSE
    /\ IF view.cr = None \/ view.cr.spec \in IncompleteSpecs
       THEN UNCHANGED <<pc, kt>>
       ELSE /\ kt' = view.cr
            /\ pc' = IF view.cr.deleting THEN "updateCR"
                     ELSE IF view.cr.finalizers \ {KubeturboFinalizer} # {} THEN "patchCR"
                     ELSE "configMap"
    /\ UNCHANGED <<cr, cm, sa, role, crb, dep, view, pod, used, history>>

Get ==
    /\ pc = "idle"
    /\ queued
    /\ queued' = FALSE
    /\ IF view.cr = None \/ view.cr.spec \in IncompleteSpecs
       THEN UNCHANGED <<pc, kt>>
       ELSE /\ kt' = view.cr
            /\ pc' = IF view.cr.deleting THEN "updateCR"
                     ELSE IF view.cr.finalizers # {KubeturboFinalizer} THEN "patchCR"
                     ELSE "configMap"
    /\ UNCHANGED <<cr, cm, sa, role, crb, dep, view, pod, used, history>>

MutantRemoveFinalizer ==
    /\ pc = "updateCR"
    /\ cr' = IF Fresh /\ cr.finalizers \subseteq {KubeturboFinalizer} THEN None ELSE cr
    /\ Proceed(Fresh, IF CleanupScc THEN "waitForPodDeletion" ELSE "cleanUpServiceAccount")
    /\ UNCHANGED <<cm, sa, role, crb, dep, view, pod, used, history>>

\* With the last finalizer the CR itself is gone, before anything is torn down.
RemoveFinalizer ==
    /\ pc = "updateCR"
    /\ cr' = IF Fresh THEN None ELSE cr
    /\ Proceed(Fresh, IF CleanupScc THEN "waitForPodDeletion" ELSE "cleanUpServiceAccount")
    /\ UNCHANGED <<cm, sa, role, crb, dep, view, pod, used, history>>

WaitForPodDeletion ==
    /\ pc = "waitForPodDeletion"
    /\ pod = None
    /\ Goto("cleanUpServiceAccount")
    /\ UNCHANGED <<cr, cm, sa, role, crb, dep, view, pod, used, history>>

\* An object whose last finalizer goes while it is being deleted goes with it.
Purged(s) == IF s # None /\ s.deleting /\ ~s.finalizer THEN None ELSE s

NewServiceAccount(owner) ==
    [uid |-> kt.uid, owner |-> owner, finalizer |-> FALSE, deleting |-> FALSE]

MutantMutateServiceAccount(s, addFinalizer) == [s EXCEPT !.uid = kt.uid]
MutateServiceAccount(s, addFinalizer) == [s EXCEPT !.uid = kt.uid, !.finalizer = addFinalizer]

\* A ServiceAccount that is missing is created here, without an owner.
CleanUpServiceAccount ==
    LET n == kt.spec.sa
        created == MutateServiceAccount(NewServiceAccount(None), FALSE)
        mutated == MutateServiceAccount(view.sa[n], FALSE)
    IN  /\ pc = "cleanUpServiceAccount"
        /\ sa' = [sa EXCEPT ![n] = Purged(Stored(view.sa[n], sa[n], created, mutated))]
        /\ Proceed(Accepted(view.sa[n], sa[n], mutated), "cleanUpClusterRole")
        /\ UNCHANGED <<cr, cm, role, crb, dep, view, pod, used, history>>

MutantRoleLabel(copy) == 1

\* A ClusterRole differs from that of an earlier CR in the UID of its label.
RoleLabel(copy) == copy.uid

MutantListed == {r \in ManagedRole : r = kt.spec.role /\ view.role[r] = RoleLabel(kt)}
Listed == {r \in ManagedRole : view.role[r] = RoleLabel(kt)}

\* The listed ClusterRoles are deleted one by one; an error stops the loop.
CleanUpClusterRole ==
    /\ pc = "cleanUpClusterRole"
    /\ \E done \in SUBSET Listed :
          /\ role' = [r \in ManagedRole |-> IF r \in done THEN None ELSE role[r]]
          /\ done # Listed => used.faults < MaxFaults
          /\ used' = IF done = Listed THEN used ELSE [used EXCEPT !.faults = @ + 1]
          /\ Proceed(done = Listed, "cleanUpClusterRolebinding")
    /\ UNCHANGED <<cr, cm, sa, crb, dep, view, pod, history>>

CleanUpClusterRolebinding ==
    /\ pc = "cleanUpClusterRolebinding"
    /\ crb' = IF view.crb # None /\ view.crb.uid = kt.uid THEN None ELSE crb
    /\ DoNotRequeue
    /\ UNCHANGED <<cr, cm, sa, role, dep, view, pod, used, history>>

\* A JSON patch names no resource version: it hits whatever CR bears the name.
PatchFinalizer ==
    /\ pc = "patchCR"
    /\ IF cr = None \/ (cr.deleting /\ KubeturboFinalizer \notin cr.finalizers)
       THEN /\ Requeue
            /\ UNCHANGED cr
       ELSE /\ DoNotRequeue
            /\ cr' = IF cr.finalizers = {KubeturboFinalizer} THEN cr
                     ELSE [cr EXCEPT !.finalizers = {KubeturboFinalizer}, !.rv = cr.rv + 1]
    /\ UNCHANGED <<cm, sa, role, crb, dep, view, pod, used, history>>

MutantMutateConfigMap(m) == [m EXCEPT !.uid = kt.uid]
MutateConfigMap(m) == [m EXCEPT !.config = kt.spec.config, !.uid = kt.uid]

CreateOrUpdateConfigMap ==
    LET created == [config |-> kt.spec.config, uid |-> kt.uid, owner |-> kt.uid]
        mutated == MutateConfigMap(view.cm)
    IN  /\ pc = "configMap"
        /\ cm' = Stored(view.cm, cm, created, mutated)
        /\ Proceed(Accepted(view.cm, cm, mutated), "serviceAccount")
        /\ UNCHANGED <<cr, sa, role, crb, dep, view, pod, used, history>>

CreateOrUpdateServiceAccount ==
    LET n == kt.spec.sa
        created == MutateServiceAccount(NewServiceAccount(kt.uid), TRUE)
        mutated == MutateServiceAccount(view.sa[n], TRUE)
    IN  /\ pc = "serviceAccount"
        /\ sa' = [sa EXCEPT ![n] = Stored(view.sa[n], sa[n], created, mutated)]
        /\ Proceed(Accepted(view.sa[n], sa[n], mutated), "clusterRole")
        /\ UNCHANGED <<cr, cm, role, crb, dep, view, pod, used, history>>

Written(r) == r \in ManagedRole

\* A ClusterRole of any other name is the user's own and left alone.
CreateOrUpdateClusterRole ==
    LET r == kt.spec.role
        new == RoleLabel(kt)
    IN  /\ pc = "clusterRole"
        /\ IF Written(r)
           THEN /\ role' = [role EXCEPT ![r] = Stored(view.role[r], role[r], new, new)]
                /\ Proceed(Accepted(view.role[r], role[r], new), "clusterRoleBinding")
           ELSE /\ Goto("clusterRoleBinding")
                /\ UNCHANGED role
        /\ UNCHANGED <<cr, cm, sa, crb, dep, view, pod, used, history>>

CreateOrUpdateClusterRoleBinding ==
    LET bound == [role |-> kt.spec.role, sa |-> kt.spec.sa, uid |-> kt.uid]
    IN  /\ pc = "clusterRoleBinding"
        /\ IF view.crb # None /\ view.crb.role # kt.spec.role
           THEN /\ Goto("deleteClusterRoleBinding")
                /\ UNCHANGED crb
           ELSE /\ crb' = Stored(view.crb, crb, bound, bound)
                /\ Proceed(Accepted(view.crb, crb, bound), "deployment")
        /\ UNCHANGED <<cr, cm, sa, role, dep, view, pod, used, history>>

MutantDeleteClusterRoleBinding ==
    /\ pc = "deleteClusterRoleBinding"
    /\ crb' = None
    /\ DoNotRequeue
    /\ UNCHANGED <<cr, cm, sa, role, dep, view, pod, used, history>>

DeleteClusterRoleBinding ==
    /\ pc = "deleteClusterRoleBinding"
    /\ crb' = None
    /\ Requeue
    /\ UNCHANGED <<cr, cm, sa, role, dep, view, pod, used, history>>

HashOf(copy) == StaticPart[copy.spec.config]

MutantRestartPending(copy) == FALSE

MutantRestartExisting(copy) ==
    /\ view.dep # None
    /\ copy.hash # None
    /\ copy.hash # HashOf(copy)

\* The pod that runs for this copy of the CR must restart to read turbo.config.
RestartPending(copy) == copy.hash # None /\ copy.hash # HashOf(copy)

MutantWithHash(copy) == [copy EXCEPT !.hash = copy.spec.config, !.rv = copy.rv + 1]
WithHash(copy) == [copy EXCEPT !.hash = HashOf(copy), !.rv = copy.rv + 1]

\* The error of the status update is ignored; the Deployment goes in any case.
SaveHashBeforeRestart ==
    /\ pc = "deployment"
    /\ RestartPending(kt)
    /\ cr' = IF Fresh THEN WithHash(cr) ELSE cr
    /\ Goto("deleteDeployment")
    /\ UNCHANGED <<cm, sa, role, crb, dep, view, pod, used, history>>

\* mutateDeployment leaves out what the API server defaults, so the object never equals
\* the cached one: the update is always sent and a stale cache always refused.
CreateOrUpdateDeployment ==
    /\ pc = "deployment"
    /\ ~RestartPending(kt)
    /\ IF view.dep # None /\ view.dep.uid # kt.uid
       THEN /\ Goto("deleteDeployment")
            /\ UNCHANGED dep
       ELSE /\ dep' = IF dep = view.dep THEN [sa |-> kt.spec.sa, uid |-> kt.uid] ELSE dep
            /\ Proceed(dep = view.dep, "updateClusterResource")
    /\ UNCHANGED <<cr, cm, sa, role, crb, view, pod, used, history>>

DeleteDeployment ==
    /\ pc = "deleteDeployment"
    /\ dep' = None
    /\ pod' = Doomed
    /\ restarts' = IF dep # None /\ dep.uid = kt.uid THEN restarts + 1 ELSE restarts
    /\ Requeue
    /\ UNCHANGED <<cr, cm, sa, role, crb, view, used, gen>>

UpdateClusterResource ==
    /\ pc = "updateClusterResource"
    /\ IF kt.hash = HashOf(kt)
       THEN /\ DoNotRequeue
            /\ UNCHANGED cr
       ELSE /\ cr' = IF Fresh THEN WithHash(cr) ELSE cr
            /\ Return(~Fresh)
    /\ UNCHANGED <<cm, sa, role, crb, dep, view, pod, used, history>>

-----------------------------------------------------------------------------
(* Failures                                                                 *)

\* A call to the API server fails and changes nothing.  A failed status update
\* before a restart is ignored, a pod that outlives the wait as well.
Fault ==
    /\ pc # "idle"
    /\ pc = "clusterRole" => Written(kt.spec.role)
    /\ pc = "updateClusterResource" => kt.hash # HashOf(kt)
    /\ used.faults < MaxFaults
    /\ used' = [used EXCEPT !.faults = @ + 1]
    /\ IF pc = "waitForPodDeletion" THEN Goto("cleanUpServiceAccount")
       ELSE IF pc = "deployment" /\ RestartPending(kt) THEN Goto("deleteDeployment")
       ELSE Requeue
    /\ UNCHANGED <<cr, cm, sa, role, crb, dep, view, pod, history>>

\* The operator's process dies and starts again: what the worker knew is lost,
\* the caches are listed afresh and every CR in them is queued.
Crash ==
    /\ used.crashes < MaxCrashes
    /\ used' = [used EXCEPT !.crashes = @ + 1]
    /\ pc' = "idle"
    /\ kt' = None
    /\ view' = Current
    /\ queued' = TRUE
    /\ UNCHANGED <<cr, cm, sa, role, crb, dep, pod, history>>

-----------------------------------------------------------------------------
User ==
    /\ Settled
    /\ \/ \E spec \in Specs, f \in CreatedWith : CreateCR(spec, f)
       \/ \E spec \in Specs : EditCR(spec)
       \/ DeleteCR
       \/ Tamper

Cluster ==
    /\ Settled
    /\ CollectGarbage \/ StartPod \/ StopPod

TearDown ==
    \/ RemoveFinalizer
    \/ WaitForPodDeletion
    \/ CleanUpServiceAccount
    \/ CleanUpClusterRole
    \/ CleanUpClusterRolebinding

TearUp ==
    \/ PatchFinalizer
    \/ CreateOrUpdateConfigMap
    \/ CreateOrUpdateServiceAccount
    \/ CreateOrUpdateClusterRole
    \/ CreateOrUpdateClusterRoleBinding
    \/ DeleteClusterRoleBinding
    \/ SaveHashBeforeRestart
    \/ CreateOrUpdateDeployment
    \/ DeleteDeployment
    \/ UpdateClusterResource

Worker ==
    /\ Settled
    /\ Get \/ TearDown \/ TearUp

Failure ==
    /\ Settled
    /\ Fault \/ Crash

Next ==
    \/ \E k \in Kinds : Sync(k)
    \/ User
    \/ Cluster
    \/ Worker
    \/ Failure

Spec == Init /\ [][Next]_vars

\* The controller runtime keeps the worker and the informers going, the cluster its
\* controllers; nothing obliges users to act, and faults and crashes need not happen.
Fairness ==
    /\ WF_vars(Worker)
    /\ WF_vars(Cluster)
    /\ \A k \in Kinds : WF_vars(Sync(k))

FairSpec == Spec /\ Fairness

-----------------------------------------------------------------------------
(* Properties                                                               *)

\* The operator deletes a running Deployment at most once per change of turbo.config,
\* whatever the retries, stale caches, faults and crashes in between: an edit of the
\* dynamic file, of the role or of the service account never does, and no reconcile
\* cycle repeats a restart that an earlier one has made (reconciler.go, lines 73-92).
RestartsJustified == restarts <= gen

Live == cr # None /\ ~cr.deleting

\* While its CR is not being deleted, the pod's ServiceAccount exists: the finalizer on it
\* outlives users, the garbage collector and the teardown of an earlier CR of that name.
PodHasServiceAccount ==
    (/\ pod # None
     /\ ~pod.doomed
     /\ dep # None
     /\ Live
     /\ dep.uid = cr.uid) => sa[pod.sa] # None

\* The operator never writes a ClusterRoleBinding to a ClusterRole of its own that does
\* not exist at that moment, even when its cache still shows the role of an earlier CR.
BindsExistingRole ==
    [][(/\ crb' # None
        /\ crb' # crb
        /\ crb'.role \in ManagedRole) => role'[crb'.role] # None]_vars

\* status.configHash never names a turbo.config other than the one the ConfigMap holds
\* when it is written, although the two are written cycles and several calls apart.
HashPublished ==
    [][(/\ cr # None
        /\ cr' # None
        /\ cr'.uid = cr.uid
        /\ cr'.hash # cr.hash)
          => (cm # None => StaticPart[cm.config] = cr'.hash)]_vars

Complete == cr.spec \notin IncompleteSpecs

Converged ==
    LET spec == cr.spec
    IN  /\ cm # None /\ cm.config = spec.config
        /\ sa[spec.sa] # None
        /\ spec.role \in ManagedRole => role[spec.role] # None
        /\ crb # None /\ crb.role = spec.role /\ crb.sa = spec.sa
        /\ dep # None /\ dep.sa = spec.sa
        /\ pod # None /\ ~pod.doomed
        /\ pod.config = StaticPart[spec.config] /\ pod.sa = spec.sa
        /\ cr.hash = StaticPart[spec.config]

\* Once users stop, a complete CR is served for good: every object exists as the spec
\* says and the pod runs with the turbo.config of the spec.
Converges == <>[](Live /\ Complete => Converged)

Gone == cr = None

Clean ==
    /\ cm = None
    /\ \A n \in SAName : sa[n] = None \/ sa[n].owner = None
    /\ \A r \in ManagedRole : role[r] = None
    /\ crb = None
    /\ dep = None
    /\ pod = None

\* Nothing the operator created for the CR outlives it, unless a CR of that name comes back;
\* a ServiceAccount that the teardown itself made has no owner and is not counted.
TeardownCompletes == Gone ~> (Clean \/ ~Gone)

\* A CR marked for deletion goes, whatever finalizers it was created with, once its required
\* fields are there.
DeletionCompletes == (~Gone /\ ~Live /\ Complete) ~> Gone

\* The objects: those with a name of their own, and the ServiceAccounts and ClusterRoles by
\* theirs.
AccountObject == {"sa"} \X SAName
RoleObject == {"role"} \X ManagedRole
Object == {"cm", "crb", "dep"} \X {None} \cup AccountObject \cup RoleObject

UidOf(o) == IF o = None THEN 0 ELSE o.uid

\* The UID of the CR that an object bears in its label.
Holder(o) ==
    CASE o[1] = "cm" -> UidOf(cm)
      [] o[1] = "crb" -> UidOf(crb)
      [] o[1] = "dep" -> UidOf(dep)
      [] o[1] = "sa" -> UidOf(sa[o[2]])
      [] o[1] = "role" -> IF role[o[2]] = None THEN 0 ELSE role[o[2]]

Custody == INSTANCE Custody
    WITH Account <- AccountObject,
         Role    <- RoleObject,
         latest  <- used.creates,
         live    <- UidOf(cr),
         holder  <- [o \in Object |-> Holder(o)]

\* Objects are made only for the CR that is there when they are written, and no ClusterRole is
\* taken from it, however old the copies of the CR and of the objects are that the worker goes
\* by and wherever it died before; a teardown that is late makes a ServiceAccount for the CR
\* that is gone, but only while its successor has nothing (lines 93-166).
ImplementsCustody == Custody!Spec
=============================================================================
