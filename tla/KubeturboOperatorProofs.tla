---------------------- MODULE KubeturboOperatorProofs ----------------------
(***************************************************************************)
(* For every value of the constants: type correctness; at most one         *)
(* restart of the pod per change of turbo.config; a ClusterRoleBinding is  *)
(* never written to a ClusterRole of the operator's own that is gone; a    *)
(* pod keeps the ServiceAccount it runs as; where the cache of the         *)
(* ConfigMap does not lag, status.configHash names the turbo.config that   *)
(* is there; and the operator implements Custody: objects are handed from  *)
(* one CR to the next.                                                     *)
(***************************************************************************)
EXTENDS KubeturboOperator, TLAPS

USE ConstantsAssumption, BudgetsAssumption DEF Optional, RoleLabel

LEMMA FieldTypes ==
    ASSUME NEW c \in CR
    PROVE  /\ \A n \in Nat : [c EXCEPT !.rv = n] \in CR
           /\ \A n \in Nat : [c EXCEPT !.gen = n] \in CR
           /\ \A b \in BOOLEAN : [c EXCEPT !.deleting = b] \in CR
           /\ \A f \in SUBSET Finalizer : [c EXCEPT !.finalizers = f] \in CR
           /\ \A s \in KubeturboSpec : [c EXCEPT !.spec = s] \in CR
           /\ \A h \in Static : [c EXCEPT !.hash = h] \in CR
<1>1. ASSUME NEW n \in Nat PROVE [c EXCEPT !.rv = n] \in CR
  BY DEF CR
<1>2. ASSUME NEW n \in Nat PROVE [c EXCEPT !.gen = n] \in CR
  BY DEF CR
<1>3. ASSUME NEW b \in BOOLEAN PROVE [c EXCEPT !.deleting = b] \in CR
  BY DEF CR
<1>4. ASSUME NEW f \in SUBSET Finalizer PROVE [c EXCEPT !.finalizers = f] \in CR
  BY DEF CR
<1>5. ASSUME NEW s \in KubeturboSpec PROVE [c EXCEPT !.spec = s] \in CR
  BY DEF CR
<1>6. ASSUME NEW h \in Static PROVE [c EXCEPT !.hash = h] \in CR
  BY DEF CR
<1> QED
  BY <1>1, <1>2, <1>3, <1>4, <1>5, <1>6

LEMMA ReadTypes ==
    ASSUME NEW c \in CR
    PROVE  /\ c.uid \in Nat
           /\ c.rv \in Nat
           /\ c.rv + 1 \in Nat
           /\ c.gen \in Nat
           /\ c.spec \in KubeturboSpec
           /\ c.spec.config \in Config
           /\ c.spec.role \in Role
           /\ c.spec.sa \in SAName
           /\ HashOf(c) \in Static
  BY DEF CR, KubeturboSpec, HashOf

LEMMA SpentType ==
    ASSUME used \in Usage
    PROVE  /\ [used EXCEPT !.creates = used.creates + 1] \in Usage
           /\ [used EXCEPT !.edits = used.edits + 1] \in Usage
           /\ [used EXCEPT !.tampers = used.tampers + 1] \in Usage
           /\ [used EXCEPT !.crashes = used.crashes + 1] \in Usage
           /\ [used EXCEPT !.faults = used.faults + 1] \in Usage
  BY DEF Usage

LEMMA WithHashType == ASSUME NEW c \in CR PROVE WithHash(c) \in CR
<1>1. [c EXCEPT !.hash = HashOf(c)] \in CR
  BY FieldTypes, ReadTypes
<1> QED
  BY <1>1, FieldTypes, ReadTypes DEF WithHash

LEMMA EditedType ==
    ASSUME NEW c \in CR, NEW s \in KubeturboSpec, NEW g \in Nat
    PROVE  [c EXCEPT !.spec = s, !.rv = c.rv + 1, !.gen = g] \in CR
<1>1. [c EXCEPT !.spec = s] \in CR
  BY FieldTypes
<1>2. [c EXCEPT !.spec = s, !.rv = c.rv + 1] \in CR
  BY <1>1, FieldTypes, ReadTypes
<1> QED
  BY <1>2, FieldTypes

LEMMA MarkedType == ASSUME NEW c \in CR PROVE [c EXCEPT !.deleting = TRUE, !.rv = c.rv + 1] \in CR
<1>1. [c EXCEPT !.deleting = TRUE] \in CR
  BY FieldTypes
<1> QED
  BY <1>1, FieldTypes, ReadTypes

LEMMA PatchedType ==
    ASSUME NEW c \in CR
    PROVE  [c EXCEPT !.finalizers = {KubeturboFinalizer}, !.rv = c.rv + 1] \in CR
<1>1. [c EXCEPT !.finalizers = {KubeturboFinalizer}] \in CR
  BY FieldTypes DEF KubeturboFinalizer, Finalizer
<1> QED
  BY <1>1, FieldTypes, ReadTypes

LEMMA StoredType ==
    ASSUME NEW S, NEW seen, NEW actual \in Optional(S), NEW created \in S,
           NEW mutated, seen # None => mutated \in S
    PROVE  Stored(seen, actual, created, mutated) \in Optional(S)
  BY DEF Stored

LEMMA DoomedType == pod \in Optional(Pod) => Doomed \in Optional(Pod)
  BY DEF Doomed, Pod

LEMMA DropType ==
    ASSUME TypeOK,
           DropConfigMap \/ DropDeployment \/ \E n \in SAName : DropServiceAccount(n)
    PROVE  /\ cm' \in Optional(ConfigMap)
           /\ sa' \in [SAName -> Optional(ServiceAccount)]
           /\ dep' \in Optional(Deployment)
           /\ pod' \in Optional(Pod)
<1>1. CASE DropConfigMap
  BY <1>1 DEF TypeOK, DropConfigMap
<1>2. CASE DropDeployment
  BY <1>2, DoomedType DEF TypeOK, DropDeployment
<1>3. ASSUME NEW n \in SAName, DropServiceAccount(n)
      PROVE  /\ sa' \in [SAName -> Optional(ServiceAccount)]
             /\ UNCHANGED <<cm, dep, pod>>
  <2>1. sa[n] \in ServiceAccount
    BY <1>3 DEF TypeOK, DropServiceAccount
  <2>2. [sa[n] EXCEPT !.deleting = TRUE] \in ServiceAccount
    BY <2>1 DEF ServiceAccount
  <2> QED
    BY <1>3, <2>2 DEF TypeOK, DropServiceAccount
<1> QED
  BY <1>1, <1>2, <1>3 DEF TypeOK, DropConfigMap, DropDeployment

LEMMA CurrentType == TypeOK => Current \in View
  BY DEF TypeOK, Current, View

LEMMA SyncType == ASSUME TypeOK, NEW k \in Kinds, Sync(k) PROVE TypeOK'
<1>1. view' \in View
  BY CurrentType DEF TypeOK, Sync, View, Current, Kinds
<1>2. queued' \in BOOLEAN
  BY DEF TypeOK, Sync
<1> QED
  BY <1>1, <1>2 DEF TypeOK, Sync, history

LEMMA UserType == ASSUME TypeOK, User PROVE TypeOK'
<1>1. ASSUME NEW spec \in Specs, NEW f \in CreatedWith, CreateCR(spec, f) PROVE TypeOK'
  <2>1. cr' \in CR
    BY <1>1 DEF TypeOK, CreateCR, CR, Usage
  <2>2. used' \in Usage
    BY <1>1, SpentType DEF TypeOK, CreateCR
  <2> QED
    BY <1>1, <2>1, <2>2 DEF TypeOK, CreateCR, worker, history
<1>2. ASSUME NEW spec \in Specs, EditCR(spec) PROVE TypeOK'
  <2>1. gen' \in Nat
    BY <1>2 DEF TypeOK, EditCR
  <2>2. cr' \in CR
    BY <1>2, <2>1, EditedType DEF TypeOK, EditCR
  <2>3. used' \in Usage
    BY <1>2, SpentType DEF TypeOK, EditCR
  <2> QED
    BY <1>2, <2>1, <2>2, <2>3 DEF TypeOK, EditCR, worker
<1>3. CASE DeleteCR
  <2>1. cr' \in Optional(CR)
    BY <1>3, MarkedType DEF TypeOK, DeleteCR
  <2> QED
    BY <1>3, <2>1 DEF TypeOK, DeleteCR, worker, history
<1>4. CASE Tamper
  <2>1. used' \in Usage
    BY <1>4, SpentType DEF TypeOK, Tamper
  <2> QED
    BY <1>4, <2>1, DropType DEF TypeOK, Tamper, worker, history
<1> QED
  BY <1>1, <1>2, <1>3, <1>4 DEF User

LEMMA ClusterType == ASSUME TypeOK, Cluster PROVE TypeOK'
<1>1. CASE CollectGarbage
  BY <1>1, DropType DEF TypeOK, CollectGarbage, worker, history
<1>2. CASE StartPod
  <2>1. pod' \in Pod
    BY <1>2 DEF TypeOK, StartPod, Pod, ConfigMap, Deployment
  <2> QED
    BY <1>2, <2>1 DEF TypeOK, StartPod, worker, history
<1>3. CASE StopPod
  BY <1>3 DEF TypeOK, StopPod, worker, history
<1> QED
  BY <1>1, <1>2, <1>3 DEF Cluster

LEMMA GotoType ==
    ASSUME TypeOK, pc # "idle", NEW label \in Label,
           Goto(label) \/ Requeue \/ DoNotRequeue
    PROVE  /\ pc' \in Label
           /\ kt' \in Optional(CR)
           /\ pc' # "idle" => kt' # None
           /\ queued' \in BOOLEAN
  BY DEF TypeOK, Goto, Requeue, DoNotRequeue, Return, Label

LEMMA ProceedType ==
    ASSUME TypeOK, pc # "idle", NEW ok, NEW label \in Label, Proceed(ok, label)
    PROVE  /\ pc' \in Label
           /\ kt' \in Optional(CR)
           /\ pc' # "idle" => kt' # None
           /\ queued' \in BOOLEAN
  BY GotoType DEF Proceed

LEMMA GetType == ASSUME TypeOK, Get PROVE TypeOK'
<1>1. view.cr \in Optional(CR)
  BY DEF TypeOK, View
<1>2. pc' \in Label /\ kt' \in Optional(CR) /\ (pc' # "idle" => kt' # None)
  BY <1>1 DEF TypeOK, Get, Label
<1> QED
  BY <1>2 DEF TypeOK, Get, history

LEMMA ViewType ==
    ASSUME TypeOK
    PROVE  /\ view.cr \in Optional(CR)
           /\ view.cm \in Optional(ConfigMap)
           /\ \A n \in SAName : view.sa[n] \in Optional(ServiceAccount)
           /\ \A r \in ManagedRole : view.role[r] \in Optional(ClusterRole)
           /\ view.crb \in Optional(ClusterRoleBinding)
           /\ view.dep \in Optional(Deployment)
  BY DEF TypeOK, View

LEMMA MutatedType ==
    ASSUME NEW s \in ServiceAccount, NEW f \in BOOLEAN, kt.uid \in Nat
    PROVE  MutateServiceAccount(s, f) \in ServiceAccount
<1>1. [s EXCEPT !.uid = kt.uid] \in ServiceAccount
  BY DEF ServiceAccount
<1> QED
  BY <1>1 DEF MutateServiceAccount, ServiceAccount

LEMMA WriteServiceAccountType ==
    ASSUME TypeOK, NEW n \in SAName, NEW o \in Optional(Nat), NEW f \in BOOLEAN,
           kt.uid \in Nat
    PROVE  Stored(view.sa[n], sa[n], MutateServiceAccount(NewServiceAccount(o), f),
                  MutateServiceAccount(view.sa[n], f)) \in Optional(ServiceAccount)
<1>1. NewServiceAccount(o) \in ServiceAccount
  BY DEF NewServiceAccount, ServiceAccount
<1>2. view.sa[n] \in Optional(ServiceAccount) /\ sa[n] \in Optional(ServiceAccount)
  BY ViewType DEF TypeOK
<1> QED
  BY <1>1, <1>2, MutatedType, StoredType

LEMMA TearDownType == ASSUME TypeOK, TearDown PROVE TypeOK'
<1>1. CASE RemoveFinalizer
  <2>1. cr' \in Optional(CR)
    BY <1>1 DEF TypeOK, RemoveFinalizer
  <2> QED
    BY <1>1, <2>1, ProceedType DEF TypeOK, RemoveFinalizer, history, Label
<1>2. CASE WaitForPodDeletion
  BY <1>2, GotoType DEF TypeOK, WaitForPodDeletion, history, Label
<1>3. CASE CleanUpServiceAccount
  <2>1. kt \in CR /\ kt.uid \in Nat /\ kt.spec.sa \in SAName
    BY <1>3, ReadTypes DEF TypeOK, CleanUpServiceAccount
  <2> DEFINE n == kt.spec.sa
             created == MutateServiceAccount(NewServiceAccount(None), FALSE)
             mutated == MutateServiceAccount(view.sa[n], FALSE)
             stored == Stored(view.sa[n], sa[n], created, mutated)
  <2>2. stored \in Optional(ServiceAccount)
    BY <2>1, WriteServiceAccountType
  <2>3. Purged(stored) \in Optional(ServiceAccount)
    BY <2>2 DEF Purged
  <2>4. sa' = [sa EXCEPT ![n] = Purged(stored)]
    BY <1>3 DEF CleanUpServiceAccount
  <2>5. sa' \in [SAName -> Optional(ServiceAccount)]
    BY <2>1, <2>3, <2>4 DEF TypeOK
  <2> QED
    BY <1>3, <2>5, ProceedType DEF TypeOK, CleanUpServiceAccount, history, Label
<1>4. CASE CleanUpClusterRole
  <2>1. role' \in [ManagedRole -> Optional(ClusterRole)]
    BY <1>4 DEF TypeOK, Listed, CleanUpClusterRole
  <2>2. used' \in Usage
    BY <1>4, SpentType DEF TypeOK, Listed, CleanUpClusterRole
  <2> QED
    BY <1>4, <2>1, <2>2, ProceedType DEF TypeOK, Listed, CleanUpClusterRole, history, Label
<1>5. CASE CleanUpClusterRolebinding
  BY <1>5, GotoType DEF TypeOK, CleanUpClusterRolebinding, history, Label
<1> QED
  BY <1>1, <1>2, <1>3, <1>4, <1>5 DEF TearDown

LEMMA TearUpType == ASSUME TypeOK, TearUp PROVE TypeOK'
<1>0. pc # "idle"
  BY DEF TearUp, PatchFinalizer, CreateOrUpdateConfigMap, CreateOrUpdateServiceAccount,
         CreateOrUpdateClusterRole, CreateOrUpdateClusterRoleBinding, DeleteClusterRoleBinding,
         SaveHashBeforeRestart, CreateOrUpdateDeployment, DeleteDeployment,
         UpdateClusterResource
<1>a. kt \in CR
  BY <1>0 DEF TypeOK
<1>1. CASE PatchFinalizer
  <2>1. cr' \in Optional(CR)
    BY <1>1, PatchedType DEF TypeOK, PatchFinalizer
  <2> QED
    BY <1>0, <1>1, <2>1, GotoType DEF TypeOK, PatchFinalizer, history, Label
<1>2. CASE CreateOrUpdateConfigMap
  <2> DEFINE created == [config |-> kt.spec.config, uid |-> kt.uid, owner |-> kt.uid]
             mutated == MutateConfigMap(view.cm)
  <2>1. created \in ConfigMap
    BY <1>a, ReadTypes DEF ConfigMap
  <2>2. ASSUME view.cm # None PROVE mutated \in ConfigMap
    BY <1>a, <2>2, ReadTypes, ViewType DEF ConfigMap, MutateConfigMap
  <2>3. Stored(view.cm, cm, created, mutated) \in Optional(ConfigMap)
    BY <2>1, <2>2, StoredType DEF TypeOK
  <2>4. cm' \in Optional(ConfigMap)
    BY <1>2, <2>3 DEF CreateOrUpdateConfigMap
  <2> QED
    BY <1>0, <1>2, <2>4, ProceedType DEF TypeOK, CreateOrUpdateConfigMap, history, Label
<1>3. CASE CreateOrUpdateServiceAccount
  <2> DEFINE n == kt.spec.sa
             created == MutateServiceAccount(NewServiceAccount(kt.uid), TRUE)
             mutated == MutateServiceAccount(view.sa[n], TRUE)
             stored == Stored(view.sa[n], sa[n], created, mutated)
  <2>1. stored \in Optional(ServiceAccount)
    BY <1>a, ReadTypes, WriteServiceAccountType
  <2>2. sa' = [sa EXCEPT ![n] = stored]
    BY <1>3 DEF CreateOrUpdateServiceAccount
  <2>3. sa' \in [SAName -> Optional(ServiceAccount)]
    BY <1>a, <2>1, <2>2, ReadTypes DEF TypeOK
  <2> QED
    BY <1>0, <1>3, <2>3, ProceedType DEF TypeOK, CreateOrUpdateServiceAccount, history, Label
<1>4. CASE CreateOrUpdateClusterRole
  <2>1. ASSUME NEW r \in ManagedRole
        PROVE  Stored(view.role[r], role[r], kt.uid, kt.uid) \in Optional(ClusterRole)
    BY <1>a, ReadTypes, StoredType DEF TypeOK, ClusterRole
  <2>2. role' \in [ManagedRole -> Optional(ClusterRole)]
    BY <1>4, <2>1 DEF TypeOK, Written, CreateOrUpdateClusterRole
  <2> QED
    BY <1>0, <1>4, <2>2, ProceedType, GotoType
       DEF TypeOK, Written, CreateOrUpdateClusterRole, history, Label
<1>5. CASE CreateOrUpdateClusterRoleBinding
  <2> DEFINE bound == [role |-> kt.spec.role, sa |-> kt.spec.sa, uid |-> kt.uid]
  <2>1. bound \in ClusterRoleBinding
    BY <1>a, ReadTypes DEF ClusterRoleBinding
  <2>2. Stored(view.crb, crb, bound, bound) \in Optional(ClusterRoleBinding)
    BY <2>1, StoredType DEF TypeOK
  <2>3. crb' \in Optional(ClusterRoleBinding)
    BY <1>5, <2>2 DEF TypeOK, CreateOrUpdateClusterRoleBinding
  <2> QED
    BY <1>0, <1>5, <2>3, ProceedType, GotoType
       DEF TypeOK, CreateOrUpdateClusterRoleBinding, history, Label
<1>6. CASE DeleteClusterRoleBinding
  BY <1>0, <1>6, GotoType DEF TypeOK, DeleteClusterRoleBinding, history, Label
<1>7. CASE SaveHashBeforeRestart
  <2>1. cr' \in Optional(CR)
    BY <1>7, WithHashType DEF TypeOK, SaveHashBeforeRestart, Fresh
  <2> QED
    BY <1>0, <1>7, <2>1, GotoType DEF TypeOK, SaveHashBeforeRestart, history, Label
<1>8. CASE CreateOrUpdateDeployment
  <2>1. dep' \in Optional(Deployment)
    BY <1>a, <1>8, ReadTypes DEF TypeOK, CreateOrUpdateDeployment, Deployment
  <2> QED
    BY <1>0, <1>8, <2>1, ProceedType, GotoType
       DEF TypeOK, CreateOrUpdateDeployment, history, Label
<1>9. CASE DeleteDeployment
  <2>1. pod' \in Optional(Pod) /\ restarts' \in Nat
    BY <1>9, DoomedType DEF TypeOK, DeleteDeployment
  <2> QED
    BY <1>0, <1>9, <2>1, GotoType DEF TypeOK, DeleteDeployment, Label
<1>10. CASE UpdateClusterResource
  <2>1. cr' \in Optional(CR)
    BY <1>10, WithHashType DEF TypeOK, UpdateClusterResource, Fresh
  <2>2. pc' \in Label /\ kt' \in Optional(CR) /\ (pc' # "idle" => kt' # None)
        /\ queued' \in BOOLEAN
    BY <1>10 DEF TypeOK, UpdateClusterResource, DoNotRequeue, Return, Label
  <2> QED
    BY <1>10, <2>1, <2>2 DEF TypeOK, UpdateClusterResource, history
<1> QED
  BY <1>1, <1>2, <1>3, <1>4, <1>5, <1>6, <1>7, <1>8, <1>9, <1>10 DEF TearUp

LEMMA FailureType == ASSUME TypeOK, Failure PROVE TypeOK'
<1>1. CASE Fault
  <2>1. used' \in Usage
    BY <1>1, SpentType DEF TypeOK, Fault
  <2> QED
    BY <1>1, <2>1, GotoType DEF TypeOK, Fault, history, Label
<1>2. CASE Crash
  <2>1. used' \in Usage
    BY <1>2, SpentType DEF TypeOK, Crash
  <2> QED
    BY <1>2, <2>1, CurrentType DEF TypeOK, Crash, history, Label
<1> QED
  BY <1>1, <1>2 DEF Failure

LEMMA TypeStep == TypeOK /\ [Next]_vars => TypeOK'
<1> SUFFICES ASSUME TypeOK, [Next]_vars PROVE TypeOK'
  OBVIOUS
<1>1. ASSUME NEW k \in Kinds, Sync(k) PROVE TypeOK'
  BY <1>1, SyncType
<1>2. CASE User
  BY <1>2, UserType
<1>3. CASE Cluster
  BY <1>3, ClusterType
<1>4. CASE Worker
  BY <1>4, GetType, TearDownType, TearUpType DEF Worker
<1>5. CASE Failure
  BY <1>5, FailureType
<1>6. CASE UNCHANGED vars
  BY <1>6 DEF TypeOK, vars
<1> QED
  BY <1>1, <1>2, <1>3, <1>4, <1>5, <1>6 DEF Next

LEMMA TypeInit == Init => TypeOK
<1> SUFFICES ASSUME Init PROVE TypeOK
  OBVIOUS
<1>1. /\ sa \in [SAName -> Optional(ServiceAccount)]
      /\ role \in [ManagedRole -> Optional(ClusterRole)]
  BY DEF Init
<1>2. view \in View
  BY <1>1 DEF Init, Current, View
<1>3. used \in Usage
  BY DEF Init, Usage
<1> QED
  BY <1>1, <1>2, <1>3 DEF Init, TypeOK, Label

\* Type correctness: every reachable state assigns each variable a value of its sort, for
\* every set of specs, every budget and every choice of lagging caches.
THEOREM TypeCorrect == Spec => []TypeOK
  BY TypeInit, TypeStep, PTL DEF Spec

-----------------------------------------------------------------------------
(* The invariant behind RestartsJustified: the CR exists in three          *)
(* versions, in the API server, in the cache and in the worker's hands,    *)
(* and each one accounts for the restarts made so far.                     *)

\* A worker that holds the copy c of the CR would still restart its pod.
Owed(c) == IF dep # None /\ dep.uid = c.uid /\ RestartPending(c) THEN 1 ELSE 0

\* The changes of turbo.config that c has seen pay for the restarts made and owed.
Accounted(c) ==
    c # None => /\ c.uid <= used.creates
                /\ c.gen <= gen
                /\ restarts + Owed(c) <= c.gen

\* y is a later copy than x: what x considers served is not restarted for again.
Later(x, y) ==
    x # None /\ y # None =>
        /\ x.gen <= y.gen
        /\ x.uid = y.uid /\ x.gen = y.gen /\ ~RestartPending(x) => ~RestartPending(y)

\* The worker deletes a Deployment of its own CR for a restart it owes only.
DoomedForRestart ==
    pc = "deleteDeployment" /\ dep # None /\ dep.uid = kt.uid => RestartPending(kt)

RestartInv ==
    /\ restarts <= gen
    /\ cr # None => cr.gen = gen
    /\ Accounted(cr)
    /\ Accounted(view.cr)
    /\ Accounted(kt)
    /\ Later(kt, view.cr)
    /\ Later(kt, cr)
    /\ Later(view.cr, cr)
    /\ view.dep # None /\ dep # None => dep.uid = view.dep.uid
    /\ DoomedForRestart

\* d is c, or c with its hash brought up to date.
SameChange(c, d) ==
    /\ c # None
    /\ d.uid = c.uid
    /\ d.gen = c.gen
    /\ RestartPending(d) => RestartPending(c)

LEMMA CopyTypes ==
    ASSUME TypeOK
    PROVE  /\ cr # None => cr \in CR /\ cr.uid \in Nat /\ cr.gen \in Nat
           /\ view.cr # None => view.cr \in CR /\ view.cr.uid \in Nat /\ view.cr.gen \in Nat
           /\ kt # None => kt \in CR /\ kt.uid \in Nat /\ kt.gen \in Nat
           /\ used.creates \in Nat
           /\ restarts \in Nat
           /\ gen \in Nat
  BY ReadTypes DEF TypeOK, View, Usage

LEMMA QuietStep ==
    ASSUME TypeOK, RestartInv,
           UNCHANGED <<view, gen, restarts>>,
           used'.creates = used.creates,
           dep' = dep \/ dep' = None,
           kt' = kt \/ kt' = None,
           cr' = cr \/ cr' = None \/ SameChange(cr, cr'),
           DoomedForRestart'
    PROVE  RestartInv'
<1>1. restarts' <= gen' /\ (cr' # None => cr'.gen = gen')
  BY DEF RestartInv, SameChange
<1>2. Accounted(cr)'
  BY CopyTypes DEF RestartInv, SameChange, Accounted, Owed, RestartPending, HashOf
<1>3. Accounted(view.cr)' /\ Accounted(kt)'
  BY CopyTypes DEF RestartInv, Accounted, Owed, RestartPending, HashOf
<1>4. Later(kt, view.cr)'
  BY DEF RestartInv, Later, RestartPending, HashOf
<1>5. Later(kt, cr)' /\ Later(view.cr, cr)'
  BY CopyTypes DEF RestartInv, Later, SameChange, RestartPending, HashOf
<1>6. view'.dep # None /\ dep' # None => dep'.uid = view'.dep.uid
  BY DEF RestartInv
<1> QED
  BY <1>1, <1>2, <1>3, <1>4, <1>5, <1>6 DEF RestartInv

LEMMA SyncRestart == ASSUME TypeOK, RestartInv, NEW k \in Kinds, Sync(k) PROVE RestartInv'
<1>1. view'.cr = view.cr \/ view'.cr = cr
  BY DEF TypeOK, View, Sync, Current, Kinds
<1>2. view'.dep = view.dep \/ view'.dep = dep
  BY DEF TypeOK, View, Sync, Current, Kinds
<1>3. UNCHANGED <<cr, dep, pc, kt, used, gen, restarts>>
  BY DEF Sync, history
<1>4. Accounted(view.cr)'
  BY <1>1, <1>3 DEF RestartInv, Accounted, Owed, RestartPending, HashOf
<1>5. Later(kt, view.cr)' /\ Later(view.cr, cr)'
  BY <1>1, <1>3, CopyTypes DEF RestartInv, Later, RestartPending, HashOf
<1> QED
  BY <1>2, <1>3, <1>4, <1>5
     DEF RestartInv, DoomedForRestart, Accounted, Later, Owed, RestartPending, HashOf

LEMMA UserRestart == ASSUME TypeOK, RestartInv, User PROVE RestartInv'
<1>1. ASSUME NEW spec \in Specs, NEW f \in CreatedWith, CreateCR(spec, f) PROVE RestartInv'
  <2>1. /\ cr'.uid = used.creates + 1
        /\ cr'.gen = gen
        /\ ~RestartPending(cr')
        /\ used'.creates = used.creates + 1
    BY <1>1 DEF TypeOK, Usage, CreateCR, RestartPending
  <2>2. UNCHANGED <<dep, view, pc, kt, gen, restarts>>
    BY <1>1 DEF CreateCR, worker, history
  <2>3. Accounted(cr)' /\ Accounted(view.cr)' /\ Accounted(kt)'
    BY <2>1, <2>2, CopyTypes DEF RestartInv, Accounted, Owed, RestartPending, HashOf
  <2>4. Later(kt, cr)' /\ Later(view.cr, cr)'
    BY <2>1, <2>2, CopyTypes DEF RestartInv, Accounted, Later
  <2>5. Later(kt, view.cr)' /\ DoomedForRestart'
    BY <2>2 DEF RestartInv, Later, DoomedForRestart, RestartPending, HashOf
  <2> QED
    BY <2>1, <2>2, <2>3, <2>4, <2>5 DEF RestartInv
<1>2. ASSUME NEW spec \in Specs, EditCR(spec) PROVE RestartInv'
  <2>1. /\ cr \in CR /\ cr # None
        /\ cr' = [cr EXCEPT !.spec = spec, !.rv = cr.rv + 1, !.gen = gen']
        /\ gen' = IF ChangesStatic(cr.spec, spec) THEN gen + 1 ELSE gen
    BY <1>2 DEF TypeOK, EditCR
  <2>2. cr'.uid = cr.uid /\ cr'.hash = cr.hash /\ cr'.spec = spec /\ cr'.gen = gen'
    BY <2>1 DEF CR
  <2>3. gen' = gen => (RestartPending(cr') <=> RestartPending(cr))
    <3>1. gen' = gen => ~ChangesStatic(cr.spec, spec)
      BY <2>1 DEF TypeOK
    <3>2. gen' = gen => HashOf(cr') = HashOf(cr)
      BY <2>2, <3>1 DEF HashOf, ChangesStatic
    <3> QED
      BY <2>2, <3>2 DEF RestartPending
  <2>4. /\ UNCHANGED <<dep, view, pc, kt, restarts>>
        /\ used'.creates = used.creates
    BY <1>2 DEF TypeOK, Usage, EditCR, worker
  <2>5. gen' = gen \/ gen' = gen + 1
    BY <2>1
  <2>6. Accounted(cr)'
    <3>1. cr'.gen = gen' /\ cr'.uid <= used'.creates
      BY <2>1, <2>2, <2>4 DEF RestartInv, Accounted
    <3>2. CASE gen' = gen
      BY <2>1, <2>2, <2>3, <2>4, <3>1, <3>2, CopyTypes
         DEF RestartInv, Accounted, Owed, RestartPending, HashOf
    <3>3. CASE gen' = gen + 1
      BY <2>4, <3>1, <3>3, CopyTypes DEF RestartInv, Accounted, Owed
    <3> QED
      BY <2>5, <3>2, <3>3
  <2>7. Accounted(view.cr)' /\ Accounted(kt)'
    BY <2>4, <2>5, CopyTypes DEF RestartInv, Accounted, Owed, RestartPending, HashOf
  <2>8. Later(kt, cr)' /\ Later(view.cr, cr)'
    BY <2>1, <2>2, <2>3, <2>4, <2>5, CopyTypes
       DEF RestartInv, Accounted, Later, RestartPending, HashOf
  <2>9. Later(kt, view.cr)' /\ DoomedForRestart'
    BY <2>4 DEF RestartInv, Later, DoomedForRestart, RestartPending, HashOf
  <2> QED
    BY <2>1, <2>2, <2>4, <2>5, <2>6, <2>7, <2>8, <2>9, CopyTypes DEF RestartInv
<1>3. CASE DeleteCR
  <2>1. cr' = None \/ SameChange(cr, cr')
    BY <1>3 DEF TypeOK, CR, DeleteCR, SameChange, RestartPending, HashOf
  <2>2. DoomedForRestart'
    BY <1>3 DEF DeleteCR, worker, RestartInv, DoomedForRestart, RestartPending, HashOf
  <2> QED
    BY <1>3, <2>1, <2>2, QuietStep DEF DeleteCR, worker, history
<1>4. CASE Tamper
  <2>1. dep' = dep \/ dep' = None
    BY <1>4 DEF Tamper, DropConfigMap, DropDeployment, DropServiceAccount
  <2>2. used'.creates = used.creates
    BY <1>4 DEF TypeOK, Usage, Tamper
  <2>3. DoomedForRestart'
    BY <1>4, <2>1 DEF Tamper, worker, RestartInv, DoomedForRestart, RestartPending, HashOf
  <2> QED
    BY <1>4, <2>1, <2>2, <2>3, QuietStep DEF Tamper, worker, history
<1> QED
  BY <1>1, <1>2, <1>3, <1>4 DEF User

LEMMA ClusterRestart == ASSUME TypeOK, RestartInv, Cluster PROVE RestartInv'
<1>1. dep' = dep \/ dep' = None
  BY DEF Cluster, CollectGarbage, StartPod, StopPod, DropConfigMap, DropDeployment,
         DropServiceAccount
<1>2. UNCHANGED <<cr, view, pc, kt, used, gen, restarts>>
  BY DEF Cluster, CollectGarbage, StartPod, StopPod, worker, history
<1>3. DoomedForRestart'
  BY <1>1, <1>2 DEF RestartInv, DoomedForRestart, RestartPending, HashOf
<1> QED
  BY <1>1, <1>2, <1>3, QuietStep

LEMMA GetRestart == ASSUME TypeOK, RestartInv, Get PROVE RestartInv'
<1>1. UNCHANGED <<cr, dep, view, used, gen, restarts>>
  BY DEF Get, history
<1>2. kt' = kt \/ (kt' = view.cr /\ view.cr # None)
  BY DEF Get
<1>3. pc' # "deleteDeployment"
  BY DEF Get
<1>4. Accounted(kt)' /\ Accounted(cr)' /\ Accounted(view.cr)'
  BY <1>1, <1>2 DEF RestartInv, Accounted, Owed, RestartPending, HashOf
<1>5. Later(kt, view.cr)' /\ Later(kt, cr)' /\ Later(view.cr, cr)'
  BY <1>1, <1>2, CopyTypes DEF RestartInv, Later, RestartPending, HashOf
<1> QED
  BY <1>1, <1>3, <1>4, <1>5 DEF RestartInv, DoomedForRestart

LEMMA WithHashChange == ASSUME NEW c \in CR, c # None PROVE SameChange(c, WithHash(c))
  BY DEF CR, WithHash, SameChange, RestartPending, HashOf

LEMMA TearDownRestart == ASSUME TypeOK, RestartInv, TearDown PROVE RestartInv'
<1>1. UNCHANGED <<dep, view, gen, restarts>>
  BY DEF TearDown, RemoveFinalizer, WaitForPodDeletion, CleanUpServiceAccount,
         CleanUpClusterRole, CleanUpClusterRolebinding, history
<1>2. used'.creates = used.creates
  BY DEF TypeOK, Usage, TearDown, RemoveFinalizer, WaitForPodDeletion, CleanUpServiceAccount,
         CleanUpClusterRole, CleanUpClusterRolebinding
<1>3. cr' = cr \/ cr' = None
  BY DEF TearDown, RemoveFinalizer, WaitForPodDeletion, CleanUpServiceAccount,
         CleanUpClusterRole, CleanUpClusterRolebinding
<1>4. (kt' = kt \/ kt' = None) /\ pc' # "deleteDeployment"
  <2>1. CASE RemoveFinalizer
    BY <2>1 DEF RemoveFinalizer, Proceed, Goto, Requeue, DoNotRequeue, Return
  <2>2. CASE WaitForPodDeletion
    BY <2>2 DEF WaitForPodDeletion, Goto
  <2>3. CASE CleanUpServiceAccount
    BY <2>3 DEF CleanUpServiceAccount, Proceed, Goto, Requeue, DoNotRequeue, Return
  <2>4. CASE CleanUpClusterRole
    BY <2>4 DEF CleanUpClusterRole, Proceed, Goto, Requeue, DoNotRequeue, Return
  <2>5. CASE CleanUpClusterRolebinding
    BY <2>5 DEF CleanUpClusterRolebinding, Proceed, Goto, Requeue, DoNotRequeue, Return
  <2> QED
    BY <2>1, <2>2, <2>3, <2>4, <2>5 DEF TearDown
<1> QED
  BY <1>1, <1>2, <1>3, <1>4, QuietStep DEF DoomedForRestart

\* The calls of a reconcile cycle before those on the Deployment.
LEMMA ObjectRestart ==
    ASSUME TypeOK, RestartInv,
           \/ PatchFinalizer
           \/ CreateOrUpdateConfigMap
           \/ CreateOrUpdateServiceAccount
           \/ CreateOrUpdateClusterRole
           \/ CreateOrUpdateClusterRoleBinding
           \/ DeleteClusterRoleBinding
    PROVE  RestartInv'
<1>1. UNCHANGED <<dep, view, used, gen, restarts>>
  BY DEF PatchFinalizer, CreateOrUpdateConfigMap, CreateOrUpdateServiceAccount,
         CreateOrUpdateClusterRole, CreateOrUpdateClusterRoleBinding,
         DeleteClusterRoleBinding, history
<1>2. cr' = cr \/ SameChange(cr, cr')
  <2>1. ASSUME PatchFinalizer PROVE cr' = cr \/ SameChange(cr, cr')
    BY <2>1 DEF TypeOK, CR, PatchFinalizer, SameChange, RestartPending, HashOf
  <2> QED
    BY <2>1 DEF CreateOrUpdateConfigMap, CreateOrUpdateServiceAccount,
         CreateOrUpdateClusterRole, CreateOrUpdateClusterRoleBinding, DeleteClusterRoleBinding
<1>3. (kt' = kt \/ kt' = None) /\ pc' # "deleteDeployment"
  <2>1. CASE PatchFinalizer
    BY <2>1 DEF PatchFinalizer, DoNotRequeue, Requeue, Return
  <2>2. CASE CreateOrUpdateConfigMap
    BY <2>2 DEF CreateOrUpdateConfigMap, Proceed, Goto, Requeue, DoNotRequeue, Return
  <2>3. CASE CreateOrUpdateServiceAccount
    BY <2>3 DEF CreateOrUpdateServiceAccount, Proceed, Goto, Requeue, DoNotRequeue, Return
  <2>4. CASE CreateOrUpdateClusterRole
    BY <2>4 DEF Written, CreateOrUpdateClusterRole, Proceed, Goto, Requeue, Return
  <2>5. CASE CreateOrUpdateClusterRoleBinding
    BY <2>5 DEF CreateOrUpdateClusterRoleBinding, Proceed, Goto, Requeue, DoNotRequeue, Return
  <2>6. CASE DeleteClusterRoleBinding
    BY <2>6 DEF DeleteClusterRoleBinding, Requeue, Return
  <2> QED
    BY <2>1, <2>2, <2>3, <2>4, <2>5, <2>6
<1> QED
  BY <1>1, <1>2, <1>3, QuietStep DEF DoomedForRestart

LEMMA StatusRestart ==
    ASSUME TypeOK, RestartInv, SaveHashBeforeRestart \/ UpdateClusterResource
    PROVE  RestartInv'
<1>1. cr' = cr \/ SameChange(cr, cr')
  BY WithHashChange
     DEF TypeOK, SaveHashBeforeRestart, UpdateClusterResource, Fresh
<1>2. CASE SaveHashBeforeRestart
  BY <1>1, <1>2, QuietStep
     DEF SaveHashBeforeRestart, Goto, DoomedForRestart, RestartPending, HashOf, history
<1>3. CASE UpdateClusterResource
  BY <1>1, <1>3, QuietStep
     DEF UpdateClusterResource, DoNotRequeue, Return, DoomedForRestart, history
<1> QED
  BY <1>2, <1>3

LEMMA DeploymentRestart == ASSUME TypeOK, RestartInv, CreateOrUpdateDeployment PROVE RestartInv'
<1>1. UNCHANGED <<cr, view, used, gen, restarts>> /\ ~RestartPending(kt) /\ kt # None
  BY DEF TypeOK, CreateOrUpdateDeployment, history
<1>2. CASE view.dep # None /\ view.dep.uid # kt.uid
  <2>1. dep' = dep /\ kt' = kt
    BY <1>2 DEF CreateOrUpdateDeployment, Goto
  <2>2. DoomedForRestart'
    BY <1>1, <1>2, <2>1 DEF RestartInv, DoomedForRestart
  <2> QED
    BY <1>1, <2>1, <2>2, QuietStep
<1>3. CASE view.dep = None \/ view.dep.uid = kt.uid
  <2>1. /\ dep' = dep \/ dep' = [sa |-> kt.spec.sa, uid |-> kt.uid]
        /\ dep' # dep => dep = view.dep
        /\ kt' = kt \/ kt' = None
        /\ pc' # "deleteDeployment"
    BY <1>3 DEF CreateOrUpdateDeployment, Proceed, Goto, Requeue, DoNotRequeue, Return
  <2>2. CASE dep' = dep
    BY <1>1, <2>1, <2>2, QuietStep DEF DoomedForRestart
  <2>3. CASE dep' # dep
    <3>1. dep'.uid = kt.uid /\ dep = view.dep
      BY <2>1, <2>3
    <3>2. ASSUME NEW c, c # None, Accounted(c), Later(kt, c), c.gen \in Nat
          PROVE  restarts + (IF c.uid = kt.uid /\ RestartPending(c) THEN 1 ELSE 0) <= c.gen
      BY <1>1, <3>2, CopyTypes DEF RestartInv, Accounted, Later, Owed
    <3>3. Accounted(cr)' /\ Accounted(view.cr)'
      BY <1>1, <3>1, <3>2, CopyTypes DEF RestartInv, Accounted, Owed, RestartPending, HashOf
    <3>4. Accounted(kt)'
      BY <1>1, <2>1, CopyTypes DEF RestartInv, Accounted, Owed, RestartPending, HashOf
    <3>5. Later(kt, view.cr)' /\ Later(kt, cr)' /\ Later(view.cr, cr)'
      BY <1>1, <2>1 DEF RestartInv, Later, RestartPending, HashOf
    <3>6. view'.dep # None => dep'.uid = view'.dep.uid
      BY <1>1, <1>3, <3>1
    <3> QED
      BY <1>1, <2>1, <3>3, <3>4, <3>5, <3>6 DEF RestartInv, DoomedForRestart
  <2> QED
    BY <2>2, <2>3
<1> QED
  BY <1>2, <1>3

\* The one step that restarts the pod pays for it with the change it answers.
LEMMA DeleteRestart == ASSUME TypeOK, RestartInv, DeleteDeployment PROVE RestartInv'
<1>1. /\ UNCHANGED <<cr, view, used, gen>>
      /\ dep' = None
      /\ kt' = None
      /\ pc' = "idle"
      /\ kt # None
  BY DEF TypeOK, DeleteDeployment, Requeue, Return
<1>2. restarts' <= kt.gen
  <2>1. CASE dep # None /\ dep.uid = kt.uid
    BY <1>1, <2>1 DEF RestartInv, Accounted, Owed, DoomedForRestart, DeleteDeployment
  <2>2. CASE ~(dep # None /\ dep.uid = kt.uid)
    BY <1>1, <2>2, CopyTypes DEF RestartInv, Accounted, Owed, DeleteDeployment
  <2> QED
    BY <2>1, <2>2
<1>3. restarts' \in Nat /\ kt.gen \in Nat
  BY <1>1, CopyTypes DEF DeleteDeployment
<1>4. restarts' <= gen'
  BY <1>1, <1>2, <1>3, CopyTypes DEF RestartInv, Accounted
<1>5. Accounted(cr)' /\ Accounted(view.cr)' /\ Accounted(kt)'
  BY <1>1, <1>2, <1>3, CopyTypes DEF RestartInv, Accounted, Later, Owed
<1>6. Later(view.cr, cr)'
  BY <1>1 DEF RestartInv, Later, RestartPending, HashOf
<1> QED
  BY <1>1, <1>4, <1>5, <1>6 DEF RestartInv, Later, DoomedForRestart

LEMMA FailureRestart == ASSUME TypeOK, RestartInv, Failure PROVE RestartInv'
<1>1. CASE Fault
  <2>1. UNCHANGED <<cr, dep, view, gen, restarts>> /\ used'.creates = used.creates
    BY <1>1 DEF TypeOK, Usage, Fault, history
  <2>2. kt' = kt \/ kt' = None
    BY <1>1 DEF Fault, Goto, Requeue, Return
  <2>3. DoomedForRestart'
    BY <1>1, <2>1 DEF Fault, Goto, Requeue, Return, DoomedForRestart, RestartPending, HashOf
  <2> QED
    BY <2>1, <2>2, <2>3, QuietStep
<1>2. CASE Crash
  <2>1. /\ UNCHANGED <<cr, dep, gen, restarts>>
        /\ used'.creates = used.creates
        /\ view'.cr = cr
        /\ view'.dep = dep
        /\ kt' = None
        /\ pc' = "idle"
    BY <1>2 DEF TypeOK, Usage, Crash, Current, history
  <2>2. Accounted(cr)' /\ Accounted(view.cr)'
    BY <2>1 DEF RestartInv, Accounted, Owed, RestartPending, HashOf
  <2>3. Later(view.cr, cr)'
    BY <2>1, CopyTypes DEF Later, RestartPending, HashOf
  <2> QED
    BY <2>1, <2>2, <2>3 DEF RestartInv, Accounted, Later, DoomedForRestart
<1> QED
  BY <1>1, <1>2 DEF Failure

LEMMA RestartStep == TypeOK /\ RestartInv /\ [Next]_vars => RestartInv'
<1> SUFFICES ASSUME TypeOK, RestartInv, [Next]_vars PROVE RestartInv'
  OBVIOUS
<1>1. ASSUME NEW k \in Kinds, Sync(k) PROVE RestartInv'
  BY <1>1, SyncRestart
<1>2. CASE User
  BY <1>2, UserRestart
<1>3. CASE Cluster
  BY <1>3, ClusterRestart
<1>4. CASE Worker
  BY <1>4, GetRestart, TearDownRestart, ObjectRestart, StatusRestart, DeploymentRestart,
     DeleteRestart DEF Worker, TearUp
<1>5. CASE Failure
  BY <1>5, FailureRestart
<1>6. CASE UNCHANGED vars
  <2>1. DoomedForRestart'
    BY <1>6 DEF vars, RestartInv, DoomedForRestart, RestartPending, HashOf
  <2> QED
    BY <1>6, <2>1, QuietStep DEF vars
<1> QED
  BY <1>1, <1>2, <1>3, <1>4, <1>5, <1>6 DEF Next

LEMMA RestartInit == Init => RestartInv
  BY DEF Init, Current, RestartInv, Accounted, Later, DoomedForRestart

\* Whatever users, caches, faults and crashes do, and however many CRs of the name come and
\* go, the operator deletes a Deployment that is its CR's own at most once per change of
\* turbo.config (reconciler.go, lines 73-92).
THEOREM RestartsAreJustified == Spec => []RestartsJustified
<1>1. RestartInv => RestartsJustified
  BY DEF RestartInv, RestartsJustified
<1> QED
  BY TypeCorrect, RestartInit, RestartStep, <1>1, PTL DEF Spec

-----------------------------------------------------------------------------
(* The invariant behind BindsExistingRole: a ClusterRole that only the     *)
(* cache still has belongs to a CR that is over.                           *)

TearDownLabel == {"updateCR", "waitForPodDeletion", "cleanUpServiceAccount",
                  "cleanUpClusterRole", "cleanUpClusterRolebinding"}

\* A UID that some CR has had.
Known(u) == u # None => u <= used.creates

\* A later copy of a CR in deletion is in deletion.
StaysMarked(x, y) == x # None /\ y # None /\ x.uid = y.uid /\ x.deleting => y.deleting

\* No cycle will again bring up the objects of the CR u.
Over(u) ==
    /\ cr # None => cr.uid # u
    /\ view.cr # None /\ view.cr.uid = u => view.cr.deleting
    /\ kt # None /\ kt.uid = u => kt.deleting

AllKnown == \A r \in ManagedRole : Known(role[r]) /\ Known(view.role[r])
GoneForGood == \A r \in ManagedRole : view.role[r] # None /\ role[r] = None => Over(view.role[r])
Marked == kt # None => (kt.deleting <=> pc \in TearDownLabel)
Removed == pc \in TearDownLabel \ {"updateCR"} /\ cr # None => cr.uid # kt.uid
Bindable == pc = "clusterRoleBinding" /\ kt.spec.role \in ManagedRole => role[kt.spec.role] # None

\* A ClusterRole that only the cache still has belongs to a CR that is over, and so
\* bears another UID than the one the worker writes: the write cannot be left out.
RoleInv ==
    /\ AllKnown
    /\ Marked
    /\ StaysMarked(kt, view.cr)
    /\ StaysMarked(kt, cr)
    /\ StaysMarked(view.cr, cr)
    /\ Removed
    /\ GoneForGood
    /\ Bindable

Inv == TypeOK /\ RestartInv /\ RoleInv

LEMMA RoleTypes ==
    ASSUME TypeOK
    PROVE  /\ role \in [ManagedRole -> Optional(Nat)]
           /\ view.role \in [ManagedRole -> Optional(Nat)]
           /\ used.creates \in Nat
  BY DEF TypeOK, View, Usage, ClusterRole

\* What a step may do to the CR itself, apart from the creation of a new one.
SameObject(c, d) == c # None /\ d.uid = c.uid /\ (c.deleting => d.deleting)

\* Steps that touch neither the ClusterRoles nor the caches.
LEMMA QuietRoleStep ==
    ASSUME Inv,
           UNCHANGED <<role, view>>,
           used'.creates = used.creates,
           cr' = cr \/ cr' = None \/ SameObject(cr, cr'),
           kt' = kt \/ kt' = None,
           Marked', Removed', Bindable'
    PROVE  RoleInv'
<1>1. AllKnown'
  BY DEF Inv, RoleInv, AllKnown, Known
<1>2. StaysMarked(kt, view.cr)' /\ StaysMarked(kt, cr)' /\ StaysMarked(view.cr, cr)'
  BY DEF Inv, RoleInv, StaysMarked, SameObject
<1>3. GoneForGood'
  BY DEF Inv, RoleInv, GoneForGood, Over, SameObject
<1> QED
  BY <1>1, <1>2, <1>3 DEF RoleInv

LEMMA SyncRole == ASSUME Inv, NEW k \in Kinds, Sync(k) PROVE RoleInv'
<1>1. UNCHANGED <<cr, role, pc, kt, used>>
  BY DEF Sync, history
<1>2. view'.cr = view.cr \/ view'.cr = cr
  BY DEF Inv, TypeOK, View, Sync, Current, Kinds
<1>3. view'.role = view.role \/ view'.role = role
  BY DEF Inv, TypeOK, View, Sync, Current, Kinds
<1>4. AllKnown'
  BY <1>1, <1>3 DEF Inv, RoleInv, AllKnown, Known
<1>5. StaysMarked(kt, view.cr)' /\ StaysMarked(kt, cr)' /\ StaysMarked(view.cr, cr)'
  BY <1>1, <1>2 DEF Inv, RoleInv, StaysMarked
<1>6. GoneForGood'
  BY <1>1, <1>2, <1>3 DEF Inv, RoleInv, GoneForGood, Over
<1> QED
  BY <1>1, <1>4, <1>5, <1>6 DEF Inv, RoleInv, Marked, Removed, Bindable

LEMMA UserRole == ASSUME Inv, User PROVE RoleInv'
<1>1. ASSUME NEW spec \in Specs, NEW f \in CreatedWith, CreateCR(spec, f) PROVE RoleInv'
  <2>1. /\ cr = None
        /\ cr'.uid = used.creates + 1
        /\ used'.creates = used.creates + 1
        /\ UNCHANGED <<role, view, pc, kt>>
    BY <1>1 DEF Inv, TypeOK, Usage, CreateCR, worker
  <2>2. /\ view.cr # None => view.cr.uid <= used.creates
        /\ kt # None => kt.uid <= used.creates
        /\ \A r \in ManagedRole : view.role[r] # None => view.role[r] <= used.creates
    BY DEF Inv, RestartInv, Accounted, RoleInv, AllKnown, Known
  <2>3. AllKnown'
    BY <2>1, RoleTypes DEF Inv, RoleInv, AllKnown, Known
  <2>4. StaysMarked(kt, view.cr)' /\ StaysMarked(kt, cr)' /\ StaysMarked(view.cr, cr)'
    BY <2>1, <2>2, CopyTypes DEF Inv, RoleInv, StaysMarked
  <2>5. Removed'
    <3>1. pc \in TearDownLabel \ {"updateCR"} => kt # None
      BY DEF Inv, TypeOK, TearDownLabel
    <3> QED
      BY <2>1, <2>2, <3>1, CopyTypes DEF Inv, Removed
  <2>6. GoneForGood'
    BY <2>1, <2>2, RoleTypes DEF Inv, RoleInv, GoneForGood, Over
  <2> QED
    BY <2>1, <2>3, <2>4, <2>5, <2>6 DEF Inv, RoleInv, Marked, Bindable
<1>2. ASSUME NEW spec \in Specs, EditCR(spec) PROVE RoleInv'
  <2>1. SameObject(cr, cr')
    BY <1>2 DEF Inv, TypeOK, CR, EditCR, SameObject
  <2>2. UNCHANGED <<role, view, pc, kt>> /\ used'.creates = used.creates
    BY <1>2 DEF Inv, TypeOK, Usage, EditCR, worker
  <2>3. Marked' /\ Removed' /\ Bindable'
    BY <2>1, <2>2 DEF Inv, RoleInv, Marked, Removed, Bindable, SameObject
  <2> QED
    BY <2>1, <2>2, <2>3, QuietRoleStep
<1>3. CASE DeleteCR
  <2>1. cr' = None \/ SameObject(cr, cr')
    BY <1>3 DEF Inv, TypeOK, CR, DeleteCR, SameObject
  <2>2. UNCHANGED <<role, view, pc, kt, used>>
    BY <1>3 DEF DeleteCR, worker
  <2>3. Marked' /\ Removed' /\ Bindable'
    BY <2>1, <2>2 DEF Inv, RoleInv, Marked, Removed, Bindable, SameObject
  <2> QED
    BY <2>1, <2>2, <2>3, QuietRoleStep
<1>4. CASE Tamper
  <2>1. UNCHANGED <<cr, role, view, pc, kt>> /\ used'.creates = used.creates
    BY <1>4 DEF Inv, TypeOK, Usage, Tamper, worker
  <2> QED
    BY <2>1, QuietRoleStep DEF Inv, RoleInv, Marked, Removed, Bindable
<1> QED
  BY <1>1, <1>2, <1>3, <1>4 DEF User

LEMMA ClusterRoleStep == ASSUME Inv, Cluster PROVE RoleInv'
<1>1. UNCHANGED <<cr, role, view, pc, kt, used>>
  BY DEF Cluster, CollectGarbage, StartPod, StopPod, worker
<1> QED
  BY <1>1, QuietRoleStep DEF Inv, RoleInv, Marked, Removed, Bindable

LEMMA GetRole == ASSUME Inv, Get PROVE RoleInv'
<1>1. UNCHANGED <<cr, role, view, used>>
  BY DEF Get
<1>2. \/ UNCHANGED <<pc, kt>>
      \/ /\ kt' = view.cr
         /\ view.cr # None
         /\ view.cr.deleting <=> pc' \in TearDownLabel
         /\ pc' \notin TearDownLabel \ {"updateCR"}
         /\ pc' # "clusterRoleBinding"
  BY DEF Inv, TypeOK, View, CR, Get, TearDownLabel
<1>3. Marked' /\ Removed' /\ Bindable' /\ AllKnown'
  BY <1>1, <1>2 DEF Inv, RoleInv, Marked, Removed, Bindable, AllKnown, Known
<1>4. StaysMarked(kt, view.cr)' /\ StaysMarked(kt, cr)' /\ StaysMarked(view.cr, cr)'
  BY <1>1, <1>2 DEF Inv, RoleInv, StaysMarked
<1>5. GoneForGood'
  BY <1>1, <1>2 DEF Inv, RoleInv, GoneForGood, Over
<1> QED
  BY <1>3, <1>4, <1>5 DEF RoleInv

LEMMA TearDownRole == ASSUME Inv, TearDown PROVE RoleInv'
<1>1. CASE RemoveFinalizer
  <2>1. UNCHANGED <<role, view, used>> /\ pc = "updateCR" /\ kt # None
    BY <1>1 DEF Inv, TypeOK, RemoveFinalizer
  <2>2. \/ kt' = None /\ pc' = "idle" /\ cr' = cr
        \/ /\ kt' = kt
           /\ pc' \in {"waitForPodDeletion", "cleanUpServiceAccount"}
           /\ cr' = None
    BY <1>1 DEF RemoveFinalizer, Proceed, Goto, Requeue, Return
  <2>3. Marked' /\ Removed' /\ Bindable'
    BY <2>1, <2>2 DEF Inv, RoleInv, Marked, Removed, Bindable, TearDownLabel
  <2> QED
    BY <2>1, <2>2, <2>3, QuietRoleStep
<1>2. CASE WaitForPodDeletion \/ CleanUpServiceAccount
  <2>1. /\ UNCHANGED <<cr, role, view, used>>
        /\ pc \in {"waitForPodDeletion", "cleanUpServiceAccount"}
        /\ kt # None
    BY <1>2 DEF Inv, TypeOK, WaitForPodDeletion, CleanUpServiceAccount
  <2>2. \/ kt' = None /\ pc' = "idle"
        \/ kt' = kt /\ pc' \in {"cleanUpServiceAccount", "cleanUpClusterRole"}
    BY <1>2 DEF WaitForPodDeletion, CleanUpServiceAccount, Proceed, Goto, Requeue, Return
  <2>3. Marked' /\ Removed' /\ Bindable'
    BY <2>1, <2>2 DEF Inv, RoleInv, Marked, Removed, Bindable, TearDownLabel
  <2> QED
    BY <2>1, <2>2, <2>3, QuietRoleStep
<1>3. CASE CleanUpClusterRole
  <2>1. /\ UNCHANGED <<cr, view>>
        /\ used'.creates = used.creates
        /\ pc = "cleanUpClusterRole"
        /\ kt # None
    BY <1>3 DEF Inv, TypeOK, Usage, CleanUpClusterRole
  <2>2. \A r \in ManagedRole : role'[r] = role[r] \/ (role'[r] = None /\ view.role[r] = kt.uid)
    BY <1>3 DEF Listed, CleanUpClusterRole
  <2>3. \/ kt' = None /\ pc' = "idle"
        \/ kt' = kt /\ pc' = "cleanUpClusterRolebinding"
    BY <1>3 DEF CleanUpClusterRole, Proceed, Goto, Requeue, Return
  <2>4. Over(kt.uid)
    BY <2>1 DEF Inv, RoleInv, Marked, Removed, StaysMarked, Over, TearDownLabel
  <2>5. AllKnown'
    BY <2>1, <2>2 DEF Inv, RoleInv, AllKnown, Known
  <2>6. GoneForGood'
    BY <2>1, <2>2, <2>3, <2>4 DEF Inv, RoleInv, GoneForGood, Over
  <2>7. Marked' /\ Removed' /\ Bindable'
    BY <2>1, <2>3 DEF Inv, RoleInv, Marked, Removed, Bindable, TearDownLabel
  <2>8. StaysMarked(kt, view.cr)' /\ StaysMarked(kt, cr)' /\ StaysMarked(view.cr, cr)'
    BY <2>1, <2>3 DEF Inv, RoleInv, StaysMarked
  <2> QED
    BY <2>5, <2>6, <2>7, <2>8 DEF RoleInv
<1>4. CASE CleanUpClusterRolebinding
  BY <1>4, QuietRoleStep
     DEF CleanUpClusterRolebinding, DoNotRequeue, Return, Marked, Removed, Bindable, TearDownLabel
<1> QED
  BY <1>1, <1>2, <1>3, <1>4 DEF TearDown

\* A call of the upward path that touches no ClusterRole.
LEMMA UpStep ==
    ASSUME Inv, kt # None, pc \notin TearDownLabel,
           UNCHANGED <<role, view, used>>,
           cr' = cr \/ SameObject(cr, cr'),
           \/ kt' = None /\ pc' = "idle"
           \/ kt' = kt /\ pc' \notin TearDownLabel \cup {"clusterRoleBinding"}
    PROVE  RoleInv'
<1>1. Marked' /\ Removed' /\ Bindable'
  BY DEF Inv, RoleInv, Marked, Removed, Bindable, TearDownLabel
<1> QED
  BY <1>1, QuietRoleStep

\* After this call the ClusterRole exists, even when a stale cache made it a no-op.
LEMMA ClusterRoleRole == ASSUME Inv, CreateOrUpdateClusterRole PROVE RoleInv'
<1> DEFINE r == kt.spec.role
<1>1. /\ UNCHANGED <<cr, view, used>>
      /\ pc = "clusterRole"
      /\ kt \in CR
      /\ kt # None
  BY DEF Inv, TypeOK, Written, CreateOrUpdateClusterRole
<1>2. (kt' = None /\ pc' = "idle") \/ (kt' = kt /\ pc' = "clusterRoleBinding")
  BY DEF Written, CreateOrUpdateClusterRole, Proceed, Goto, Requeue, Return
<1>3. ~kt.deleting
  BY <1>1 DEF Inv, RoleInv, Marked, TearDownLabel
<1>4. \A q \in ManagedRole : role'[q] = role[q] \/ role'[q] = kt.uid
  BY DEF Inv, TypeOK, Written, CreateOrUpdateClusterRole, Stored
<1>5. kt.uid \in Nat /\ kt.uid <= used.creates
  BY <1>1, CopyTypes DEF Inv, RestartInv, Accounted
<1>6. AllKnown'
  BY <1>1, <1>4, <1>5 DEF Inv, RoleInv, AllKnown, Known
<1>7. Bindable'
  <2> SUFFICES ASSUME pc' = "clusterRoleBinding", r \in ManagedRole PROVE role'[r] # None
    BY <1>2 DEF Bindable
  <2>1. /\ role'[r] = Stored(view.role[r], role[r], kt.uid, kt.uid)
        /\ Accepted(view.role[r], role[r], kt.uid)
    BY DEF Inv, TypeOK, Written, CreateOrUpdateClusterRole, Proceed, Requeue, Return
  <2>2. CASE view.role[r] = None
    BY <1>5, <2>1, <2>2 DEF Accepted, Stored
  <2>3. CASE view.role[r] # None
    BY <1>1, <1>3, <1>5, <2>1, <2>3
       DEF Accepted, Stored, Inv, RoleInv, GoneForGood, Over
  <2> QED
    BY <2>2, <2>3
<1>8. GoneForGood'
  BY <1>1, <1>2, <1>4, <1>5 DEF Inv, RoleInv, GoneForGood, Over
<1>9. Marked' /\ Removed'
  BY <1>1, <1>2 DEF Inv, RoleInv, Marked, Removed, TearDownLabel
<1>10. StaysMarked(kt, view.cr)' /\ StaysMarked(kt, cr)' /\ StaysMarked(view.cr, cr)'
  BY <1>1, <1>2 DEF Inv, RoleInv, StaysMarked
<1> QED
  BY <1>6, <1>7, <1>8, <1>9, <1>10 DEF RoleInv

LEMMA TearUpRole == ASSUME Inv, TearUp PROVE RoleInv'
<1>1. CASE PatchFinalizer
  <2>1. cr' = cr \/ SameObject(cr, cr')
    BY <1>1 DEF Inv, TypeOK, CR, PatchFinalizer, SameObject
  <2> QED
    BY <1>1, <2>1, UpStep
       DEF Inv, TypeOK, PatchFinalizer, Requeue, DoNotRequeue, Return, TearDownLabel
<1>2. CASE CreateOrUpdateConfigMap
  <2>1. (kt' = None /\ pc' = "idle") \/ (kt' = kt /\ pc' = "serviceAccount")
    BY <1>2 DEF CreateOrUpdateConfigMap, Proceed, Goto, Requeue, Return
  <2> QED
    BY <1>2, <2>1, UpStep DEF Inv, TypeOK, CreateOrUpdateConfigMap, TearDownLabel
<1>3. CASE CreateOrUpdateServiceAccount
  <2>1. (kt' = None /\ pc' = "idle") \/ (kt' = kt /\ pc' = "clusterRole")
    BY <1>3 DEF CreateOrUpdateServiceAccount, Proceed, Goto, Requeue, Return
  <2> QED
    BY <1>3, <2>1, UpStep DEF Inv, TypeOK, CreateOrUpdateServiceAccount, TearDownLabel
<1>4. CASE CreateOrUpdateClusterRole
  BY <1>4, ClusterRoleRole
<1>5. CASE CreateOrUpdateClusterRoleBinding
  <2>1. (kt' = None /\ pc' = "idle")
        \/ (kt' = kt /\ pc' \in {"deleteClusterRoleBinding", "deployment"})
    BY <1>5 DEF CreateOrUpdateClusterRoleBinding, Proceed, Goto, Requeue, Return
  <2> QED
    BY <1>5, <2>1, UpStep DEF Inv, TypeOK, CreateOrUpdateClusterRoleBinding, TearDownLabel
<1>6. CASE DeleteClusterRoleBinding
  BY <1>6, UpStep DEF Inv, TypeOK, DeleteClusterRoleBinding, Requeue, Return, TearDownLabel
<1>7. CASE SaveHashBeforeRestart
  <2>1. cr' = cr \/ SameObject(cr, cr')
    BY <1>7 DEF Inv, TypeOK, CR, SaveHashBeforeRestart, Fresh, WithHash, SameObject
  <2> QED
    BY <1>7, <2>1, UpStep DEF Inv, TypeOK, SaveHashBeforeRestart, Goto, TearDownLabel
<1>8. CASE CreateOrUpdateDeployment
  <2>1. (kt' = None /\ pc' = "idle")
        \/ (kt' = kt /\ pc' \in {"deleteDeployment", "updateClusterResource"})
    BY <1>8 DEF CreateOrUpdateDeployment, Proceed, Goto, Requeue, Return
  <2> QED
    BY <1>8, <2>1, UpStep DEF Inv, TypeOK, CreateOrUpdateDeployment, TearDownLabel
<1>9. CASE DeleteDeployment
  BY <1>9, UpStep DEF Inv, TypeOK, DeleteDeployment, Requeue, Return, TearDownLabel
<1>10. CASE UpdateClusterResource
  <2>1. cr' = cr \/ SameObject(cr, cr')
    BY <1>10 DEF Inv, TypeOK, CR, UpdateClusterResource, Fresh, WithHash, SameObject
  <2> QED
    BY <1>10, <2>1, UpStep
       DEF Inv, TypeOK, UpdateClusterResource, DoNotRequeue, Return, TearDownLabel
<1> QED
  BY <1>1, <1>2, <1>3, <1>4, <1>5, <1>6, <1>7, <1>8, <1>9, <1>10 DEF TearUp

LEMMA FailureRole == ASSUME Inv, Failure PROVE RoleInv'
<1>1. CASE Fault
  <2>1. UNCHANGED <<cr, role, view>> /\ used'.creates = used.creates
    BY <1>1 DEF Inv, TypeOK, Usage, Fault
  <2>2. \/ kt' = None /\ pc' = "idle"
        \/ kt' = kt /\ pc = "waitForPodDeletion" /\ pc' = "cleanUpServiceAccount"
        \/ kt' = kt /\ pc = "deployment" /\ pc' = "deleteDeployment"
    BY <1>1 DEF Fault, Goto, Requeue, Return
  <2>3. Marked' /\ Removed' /\ Bindable'
    BY <2>1, <2>2 DEF Inv, RoleInv, Marked, Removed, Bindable, TearDownLabel
  <2> QED
    BY <2>1, <2>2, <2>3, QuietRoleStep
<1>2. CASE Crash
  <2>1. /\ UNCHANGED <<cr, role>>
        /\ used'.creates = used.creates
        /\ view'.cr = cr
        /\ view'.role = role
        /\ kt' = None
        /\ pc' = "idle"
    BY <1>2 DEF Inv, TypeOK, Usage, Crash, Current
  <2> QED
    BY <2>1 DEF Inv, RoleInv, AllKnown, Known, Marked, StaysMarked, Removed, GoneForGood,
                Bindable, TearDownLabel
<1> QED
  BY <1>1, <1>2 DEF Failure

LEMMA InvStep == Inv /\ [Next]_vars => Inv'
<1> SUFFICES ASSUME Inv, [Next]_vars PROVE Inv'
  OBVIOUS
<1>1. TypeOK' /\ RestartInv'
  BY TypeStep, RestartStep DEF Inv
<1>2. RoleInv'
  <2>1. ASSUME NEW k \in Kinds, Sync(k) PROVE RoleInv'
    BY <2>1, SyncRole
  <2>2. CASE User
    BY <2>2, UserRole
  <2>3. CASE Cluster
    BY <2>3, ClusterRoleStep
  <2>4. CASE Worker
    BY <2>4, GetRole, TearDownRole, TearUpRole DEF Worker
  <2>5. CASE Failure
    BY <2>5, FailureRole
  <2>6. CASE UNCHANGED vars
    BY <2>6, QuietRoleStep DEF vars, Inv, RoleInv, Marked, Removed, Bindable
  <2> QED
    BY <2>1, <2>2, <2>3, <2>4, <2>5, <2>6 DEF Next
<1> QED
  BY <1>1, <1>2 DEF Inv

LEMMA InvInit == Init => Inv
<1> SUFFICES ASSUME Init PROVE Inv
  OBVIOUS
<1>1. RoleInv
  BY DEF Init, Current, RoleInv, AllKnown, Known, Marked, StaysMarked, Removed, GoneForGood,
         Bindable
<1> QED
  BY <1>1, TypeInit, RestartInit DEF Inv

\* A step that writes the binding is the worker's call on it, one call after the ClusterRole.
LEMMA BindingStep ==
    ASSUME Inv, [Next]_vars, crb' # None, crb' # crb, crb'.role \in ManagedRole
    PROVE  role'[crb'.role] # None
<1>1. CASE CreateOrUpdateClusterRoleBinding
  <2>1. crb' = [role |-> kt.spec.role, sa |-> kt.spec.sa, uid |-> kt.uid]
    BY <1>1 DEF CreateOrUpdateClusterRoleBinding, Stored
  <2>2. pc = "clusterRoleBinding" /\ role' = role
    BY <1>1 DEF CreateOrUpdateClusterRoleBinding
  <2> QED
    BY <2>1, <2>2 DEF Inv, RoleInv, Bindable
<1>2. CASE CleanUpClusterRolebinding \/ DeleteClusterRoleBinding
  BY <1>2 DEF CleanUpClusterRolebinding, DeleteClusterRoleBinding
<1>3. CASE UNCHANGED crb
  BY <1>3
<1>4. ASSUME NEW k \in Kinds, Sync(k) PROVE UNCHANGED crb
  BY <1>4 DEF Sync
<1>5. ASSUME User \/ Cluster \/ Failure PROVE UNCHANGED crb
  BY <1>5 DEF User, CreateCR, EditCR, DeleteCR, Tamper, Cluster, CollectGarbage, StartPod,
              StopPod, Failure, Fault, Crash
<1>6. ASSUME Worker, ~CreateOrUpdateClusterRoleBinding, ~CleanUpClusterRolebinding,
             ~DeleteClusterRoleBinding
      PROVE  UNCHANGED crb
  BY <1>6 DEF Worker, Get, TearDown, RemoveFinalizer, WaitForPodDeletion,
              CleanUpServiceAccount, CleanUpClusterRole, TearUp, PatchFinalizer,
              CreateOrUpdateConfigMap, CreateOrUpdateServiceAccount,
              CreateOrUpdateClusterRole, SaveHashBeforeRestart, CreateOrUpdateDeployment,
              DeleteDeployment, UpdateClusterResource
<1> QED
  BY <1>1, <1>2, <1>3, <1>4, <1>5, <1>6 DEF Next, vars

\* Whatever the caches show of earlier CRs, and whatever fails in between, a ClusterRoleBinding
\* is written only to a ClusterRole of the operator's own that exists (reconciler.go, lines
\* 567-580 and 699-725).
THEOREM BindingsAreSound == Spec => BindsExistingRole
<1>1. Inv /\ [Next]_vars => [crb' # None /\ crb' # crb /\ crb'.role \in ManagedRole
                                => role'[crb'.role] # None]_vars
  BY BindingStep
<1> QED
  BY InvInit, InvStep, <1>1, PTL DEF Spec, BindsExistingRole

-----------------------------------------------------------------------------
(* The invariant behind PodHasServiceAccount: an object never bears the    *)
(* UID of a later CR than the one the worker is at, and the finalizer on   *)
(* a ServiceAccount goes only when the CR it served is over.               *)

\* The calls between that on the ServiceAccount and that on the Deployment.
SaDoneLabel == {"clusterRole", "clusterRoleBinding", "deployment"}

Held(n) == sa[n] # None /\ sa[n].finalizer

InOrder(x, y) == x # None /\ y # None => x.uid <= y.uid

\* No copy of the CR is older than the CR u.
Earlier(u) ==
    /\ u <= used.creates
    /\ cr # None => u <= cr.uid
    /\ view.cr # None => u <= view.cr.uid
    /\ kt # None => u <= kt.uid

AllEarlier ==
    /\ \A n \in SAName : sa[n] # None => Earlier(sa[n].uid)
    /\ \A n \in SAName : view.sa[n] # None => Earlier(view.sa[n].uid)
    /\ dep # None => Earlier(dep.uid)

ReleasedForGood ==
    \A n \in SAName : view.sa[n] # None /\ view.sa[n].finalizer /\ ~Held(n) => Over(view.sa[n].uid)

Prepared == pc \in SaDoneLabel => Held(kt.spec.sa)

ServedByHeld ==
    dep # None /\ cr # None /\ dep.uid = cr.uid =>
        /\ Held(dep.sa)
        /\ pod # None /\ ~pod.doomed => Held(pod.sa)

\* A ServiceAccount that is held in the cache only served a CR that is over, so that its
\* UID is not the worker's: the write that holds it again cannot be left out.
PodInv ==
    /\ InOrder(kt, view.cr)
    /\ InOrder(kt, cr)
    /\ InOrder(view.cr, cr)
    /\ AllEarlier
    /\ ReleasedForGood
    /\ Prepared
    /\ ServedByHeld
    /\ dep = None /\ pod # None => pod.doomed

LEMMA AccountTypes ==
    ASSUME TypeOK
    PROVE  /\ \A n \in SAName : sa[n] # None => sa[n] \in ServiceAccount /\ sa[n].uid \in Nat
           /\ \A n \in SAName : view.sa[n] # None =>
                                    view.sa[n] \in ServiceAccount /\ view.sa[n].uid \in Nat
           /\ dep # None => dep.uid \in Nat /\ dep.sa \in SAName
           /\ pod # None => pod \in Pod /\ pod.sa \in SAName
           /\ kt # None => kt.spec.sa \in SAName
<1>1. ASSUME NEW s \in ServiceAccount PROVE s.uid \in Nat
  BY DEF ServiceAccount
<1>2. \A n \in SAName : sa[n] # None => sa[n] \in ServiceAccount
  BY DEF TypeOK
<1>3. \A n \in SAName : view.sa[n] # None => view.sa[n] \in ServiceAccount
  BY ViewType
<1>4. dep # None => dep.uid \in Nat /\ dep.sa \in SAName
  BY DEF TypeOK, Deployment
<1>5. pod # None => pod \in Pod /\ pod.sa \in SAName
  BY DEF TypeOK, Pod
<1>6. kt # None => kt.spec.sa \in SAName
  BY ReadTypes DEF TypeOK
<1> QED
  BY <1>1, <1>2, <1>3, <1>4, <1>5, <1>6

\* Steps that release no ServiceAccount and put no pod in the place of another.
LEMMA HoldingStep ==
    ASSUME Inv, PodInv,
           view' = view,
           used'.creates = used.creates,
           cr' = cr \/ cr' = None \/ SameObject(cr, cr'),
           \/ kt' = None /\ pc' = "idle"
           \/ kt' = kt /\ (pc' \in SaDoneLabel => pc \in SaDoneLabel),
           \A n \in SAName : Held(n) => Held(n)',
           \A n \in SAName : sa'[n] # None => sa[n] # None /\ sa'[n].uid = sa[n].uid,
           \/ dep' = dep /\ (pod' = pod \/ pod' = None)
           \/ dep' = None /\ pod' = Doomed
    PROVE  PodInv'
<1>1. (InOrder(kt, view.cr) /\ InOrder(kt, cr) /\ InOrder(view.cr, cr))'
  BY DEF PodInv, InOrder, SameObject
<1>2. AllEarlier'
  BY DEF PodInv, AllEarlier, Earlier, SameObject
<1>3. ReleasedForGood'
  <2>1. \A u \in Nat : Over(u) => Over(u)'
    BY DEF Over, SameObject
  <2> QED
    BY <2>1, AccountTypes DEF Inv, PodInv, ReleasedForGood
<1>4. Prepared'
  <2>1. kt # None => kt.spec.sa \in SAName
    BY AccountTypes DEF Inv
  <2>2. pc \in SaDoneLabel => kt # None
    BY DEF Inv, TypeOK, SaDoneLabel
  <2> QED
    BY <2>1, <2>2 DEF PodInv, Prepared, SaDoneLabel
<1>5. ServedByHeld'
  BY AccountTypes DEF Inv, PodInv, ServedByHeld, SameObject
<1>6. (dep = None /\ pod # None => pod.doomed)'
  BY AccountTypes DEF PodInv, Doomed, Pod, Inv
<1> QED
  BY <1>1, <1>2, <1>3, <1>4, <1>5, <1>6 DEF PodInv

\* Users and the garbage collector only mark a held ServiceAccount as deleted.
LEMMA DropHolds ==
    ASSUME TypeOK,
           DropConfigMap \/ DropDeployment \/ \E n \in SAName : DropServiceAccount(n)
    PROVE  /\ \A n \in SAName : Held(n) => Held(n)'
           /\ \A n \in SAName : sa'[n] # None => sa[n] # None /\ sa'[n].uid = sa[n].uid
           /\ \/ dep' = dep /\ (pod' = pod \/ pod' = None)
              \/ dep' = None /\ pod' = Doomed
<1>1. CASE DropConfigMap
  BY <1>1 DEF DropConfigMap, Held
<1>2. CASE DropDeployment
  BY <1>2 DEF DropDeployment, Held
<1>3. ASSUME NEW n \in SAName, DropServiceAccount(n)
      PROVE  /\ \A m \in SAName : Held(m) => Held(m)'
             /\ \A m \in SAName : sa'[m] # None => sa[m] # None /\ sa'[m].uid = sa[m].uid
             /\ UNCHANGED <<dep, pod>>
  <2>1. UNCHANGED <<dep, pod>> /\ sa[n] # None
    BY <1>3 DEF DropServiceAccount
  <2>2. sa[n] \in ServiceAccount
    BY <2>1 DEF TypeOK
  <2> DEFINE marked == [sa[n] EXCEPT !.deleting = TRUE]
  <2>3. marked.uid = sa[n].uid /\ marked.finalizer = sa[n].finalizer /\ marked \in ServiceAccount
    BY <2>2 DEF ServiceAccount
  <2>4. marked # None
    BY <2>3, NoneAssumption
  <2> HIDE DEF marked
  <2>5. sa' = [sa EXCEPT ![n] = IF sa[n].finalizer THEN marked ELSE None]
    BY <1>3 DEF DropServiceAccount, marked
  <2> QED
    BY <2>1, <2>3, <2>4, <2>5 DEF TypeOK, Held
<1> QED
  BY <1>1, <1>2, <1>3

LEMMA SyncPod == ASSUME Inv, PodInv, NEW k \in Kinds, Sync(k) PROVE PodInv'
<1>1. UNCHANGED <<cr, sa, dep, pod, pc, kt, used>>
  BY DEF Sync, history
<1>2. view'.cr = view.cr \/ view'.cr = cr
  BY DEF Inv, TypeOK, View, Sync, Current, Kinds
<1>3. view'.sa = view.sa \/ view'.sa = sa
  BY DEF Inv, TypeOK, View, Sync, Current, Kinds
<1>4. (InOrder(kt, view.cr) /\ InOrder(kt, cr) /\ InOrder(view.cr, cr))'
  BY <1>1, <1>2, CopyTypes DEF Inv, PodInv, InOrder
<1>5. AllEarlier'
  BY <1>1, <1>2, <1>3 DEF PodInv, AllEarlier, Earlier
<1>6. ReleasedForGood'
  <2>1. \A u \in Nat : Over(u) => Over(u)'
    BY <1>1, <1>2 DEF Over
  <2>2. CASE view'.sa = sa
    BY <1>1, <2>2 DEF ReleasedForGood, Held
  <2>3. CASE view'.sa = view.sa
    BY <1>1, <2>1, <2>3, AccountTypes DEF Inv, PodInv, ReleasedForGood, Held
  <2> QED
    BY <1>3, <2>2, <2>3
<1> QED
  BY <1>1, <1>4, <1>5, <1>6 DEF PodInv, Prepared, ServedByHeld, Held

LEMMA UserPod == ASSUME Inv, PodInv, User PROVE PodInv'
<1>1. ASSUME NEW spec \in Specs, NEW f \in CreatedWith, CreateCR(spec, f) PROVE PodInv'
  <2>1. /\ cr = None
        /\ cr'.uid = used.creates + 1
        /\ used'.creates = used.creates + 1
        /\ UNCHANGED <<sa, dep, view, pod, pc, kt>>
    BY <1>1 DEF Inv, TypeOK, Usage, CreateCR, worker
  <2>2. /\ view.cr # None => view.cr.uid <= used.creates
        /\ kt # None => kt.uid <= used.creates
    BY DEF Inv, RestartInv, Accounted
  <2>3. (InOrder(kt, view.cr) /\ InOrder(kt, cr) /\ InOrder(view.cr, cr))'
    BY <2>1, <2>2, CopyTypes DEF Inv, PodInv, InOrder
  <2>4. ASSUME NEW u \in Nat, Earlier(u) PROVE Earlier(u)' /\ u # cr'.uid
    BY <2>1, <2>4, CopyTypes DEF Inv, Earlier
  <2>5. AllEarlier'
    BY <2>1, <2>4, AccountTypes DEF Inv, PodInv, AllEarlier
  <2>6. ReleasedForGood'
    BY <2>1, <2>4, AccountTypes DEF Inv, PodInv, AllEarlier, ReleasedForGood, Held, Over
  <2>7. ServedByHeld'
    BY <2>1, <2>4, AccountTypes DEF Inv, PodInv, AllEarlier, ServedByHeld
  <2> QED
    BY <2>1, <2>3, <2>5, <2>6, <2>7 DEF PodInv, Prepared, Held
<1>2. ASSUME NEW spec \in Specs, EditCR(spec) PROVE PodInv'
  <2>1. SameObject(cr, cr')
    BY <1>2 DEF Inv, TypeOK, CR, EditCR, SameObject
  <2>2. UNCHANGED <<sa, dep, view, pod, pc, kt>> /\ used'.creates = used.creates
    BY <1>2 DEF Inv, TypeOK, Usage, EditCR, worker
  <2> QED
    BY <2>1, <2>2, HoldingStep DEF Held
<1>3. CASE DeleteCR
  <2>1. cr' = None \/ SameObject(cr, cr')
    BY <1>3 DEF Inv, TypeOK, CR, DeleteCR, SameObject
  <2>2. UNCHANGED <<sa, dep, view, pod, pc, kt, used>>
    BY <1>3 DEF DeleteCR, worker
  <2> QED
    BY <2>1, <2>2, HoldingStep DEF Held
<1>4. CASE Tamper
  <2>1. UNCHANGED <<cr, view, pc, kt>> /\ used'.creates = used.creates
    BY <1>4 DEF Inv, TypeOK, Usage, Tamper, worker
  <2> QED
    <3>1. TypeOK /\ (DropConfigMap \/ DropDeployment \/ \E n \in SAName : DropServiceAccount(n))
      BY <1>4 DEF Inv, Tamper
    <3> QED
      BY <2>1, <3>1, DropHolds, HoldingStep
<1> QED
  BY <1>1, <1>2, <1>3, <1>4 DEF User

LEMMA ClusterPod == ASSUME Inv, PodInv, Cluster PROVE PodInv'
<1>1. UNCHANGED <<cr, view, pc, kt, used>>
  BY DEF Cluster, CollectGarbage, StartPod, StopPod, worker
<1>2. CASE CollectGarbage
  <2>1. TypeOK /\ (DropConfigMap \/ DropDeployment \/ \E n \in SAName : DropServiceAccount(n))
    BY <1>2 DEF Inv, CollectGarbage
  <2> QED
    BY <1>1, <2>1, DropHolds, HoldingStep
<1>3. CASE StartPod
  <2>1. UNCHANGED <<sa, dep>> /\ dep # None /\ pod'.sa = dep.sa
    BY <1>3 DEF StartPod
  <2>2. ServedByHeld'
    BY <1>1, <2>1 DEF PodInv, ServedByHeld, Held
  <2> QED
    BY <1>1, <2>1, <2>2 DEF PodInv, InOrder, AllEarlier, Earlier, ReleasedForGood, Over, Held,
                            Prepared
<1>4. CASE StopPod
  BY <1>1, <1>4, HoldingStep DEF StopPod, Held
<1> QED
  BY <1>2, <1>3, <1>4 DEF Cluster

LEMMA GetPod == ASSUME Inv, PodInv, Get PROVE PodInv'
<1>1. UNCHANGED <<cr, sa, dep, view, pod, used>> /\ pc = "idle"
  BY DEF Get
<1>2. pc' \notin SaDoneLabel /\ (kt' = kt \/ kt' = view.cr)
  BY DEF Get, SaDoneLabel
<1>3. (InOrder(kt, view.cr) /\ InOrder(kt, cr) /\ InOrder(view.cr, cr))'
  BY <1>1, <1>2, CopyTypes DEF Inv, PodInv, InOrder
<1>4. AllEarlier'
  BY <1>1, <1>2 DEF PodInv, AllEarlier, Earlier
<1>5. ReleasedForGood'
  BY <1>1, <1>2 DEF PodInv, ReleasedForGood, Held, Over
<1> QED
  BY <1>1, <1>2, <1>3, <1>4, <1>5 DEF PodInv, Prepared, ServedByHeld, Held

\* A cycle that is past the removal of its CR is not followed by an earlier one of that CR.
LEMMA TornDownIsOver ==
    ASSUME Inv, pc \in TearDownLabel \ {"updateCR"}
    PROVE  Over(kt.uid)
<1>1. kt # None
  BY DEF Inv, TypeOK, TearDownLabel
<1> QED
  BY <1>1 DEF Inv, RoleInv, Marked, Removed, StaysMarked, Over, TearDownLabel

\* The teardown takes the finalizer from a ServiceAccount that served its own CR or one
\* before it.
LEMMA CleanUpPod == ASSUME Inv, PodInv, CleanUpServiceAccount PROVE PodInv'
<1> DEFINE n == kt.spec.sa
           created == MutateServiceAccount(NewServiceAccount(None), FALSE)
           mutated == MutateServiceAccount(view.sa[n], FALSE)
           stored == Stored(view.sa[n], sa[n], created, mutated)
<1>1. /\ UNCHANGED <<cr, dep, view, pod, used>>
      /\ pc = "cleanUpServiceAccount"
      /\ kt \in CR /\ kt # None /\ kt.uid \in Nat /\ n \in SAName
      /\ sa' = [sa EXCEPT ![n] = Purged(stored)]
  BY CopyTypes, ReadTypes DEF Inv, TypeOK, CleanUpServiceAccount
<1>2. (kt' = kt \/ kt' = None) /\ pc' \notin SaDoneLabel
  BY DEF CleanUpServiceAccount, Proceed, Goto, Requeue, Return, SaDoneLabel
<1>3. Over(kt.uid)
  BY <1>1, TornDownIsOver DEF TearDownLabel
<1>4. \A m \in SAName : m # n => sa'[m] = sa[m]
  BY <1>1 DEF Inv, TypeOK
<1>5. sa'[n] = Purged(stored)
  BY <1>1 DEF Inv, TypeOK
<1>6. stored = sa[n] \/ (stored.uid = kt.uid /\ stored.finalizer = FALSE /\ sa[n] = view.sa[n])
  <2>1. created.uid = kt.uid /\ created.finalizer = FALSE
    BY DEF MutateServiceAccount, NewServiceAccount
  <2>2. view.sa[n] # None => mutated.uid = kt.uid /\ mutated.finalizer = FALSE
    BY <1>1, AccountTypes DEF Inv, MutateServiceAccount, ServiceAccount
  <2> HIDE DEF created, mutated
  <2> QED
    BY <2>1, <2>2 DEF Stored
<1>7. sa'[n] # None => sa'[n] = stored
  BY <1>5 DEF Purged
<1>8. \A u \in Nat : Earlier(u) => Earlier(u)'
  BY <1>1, <1>2 DEF Earlier
<1>9. Earlier(kt.uid)
  BY <1>1, CopyTypes DEF Inv, RestartInv, Accounted, PodInv, InOrder, Earlier
<1>10. AllEarlier'
  <2>1. sa'[n] # None => sa'[n].uid = kt.uid \/ (sa[n] # None /\ sa'[n].uid = sa[n].uid)
    BY <1>6, <1>7
  <2>2. ASSUME NEW m \in SAName, sa'[m] # None PROVE Earlier(sa[m].uid)'
    <3>1. CASE m = n
      BY <1>1, <1>8, <1>9, <2>1, <2>2, <3>1, AccountTypes DEF Inv, PodInv, AllEarlier
    <3>2. CASE m # n
      BY <1>4, <1>8, <2>2, <3>2, AccountTypes DEF Inv, PodInv, AllEarlier
    <3> QED
      BY <3>1, <3>2
  <2> QED
    BY <1>1, <1>8, <2>2, AccountTypes DEF Inv, PodInv, AllEarlier
<1>11. ReleasedForGood'
  <2> SUFFICES ASSUME NEW m \in SAName, view.sa[m] # None, view.sa[m].finalizer, ~Held(m)'
               PROVE  Over(view.sa[m].uid)
    BY <1>1, <1>2 DEF ReleasedForGood, Over
  <2>1. CASE ~Held(m)
    BY <2>1 DEF PodInv, ReleasedForGood
  <2>2. CASE Held(m)
    <3>1. m = n
      BY <1>4, <2>2 DEF Held
    <3>2. view.sa[n].uid \in Nat /\ Earlier(view.sa[n].uid)
      BY <1>1, <3>1, AccountTypes DEF Inv, PodInv, AllEarlier
    <3>3. view.sa[n].uid <= kt.uid
      BY <1>1, <3>2 DEF Earlier
    <3>4. CASE view.sa[n].uid = kt.uid
      BY <1>3, <3>1, <3>4
    <3>5. CASE view.sa[n].uid # kt.uid
      BY <1>1, <3>1, <3>2, <3>3, <3>5, CopyTypes DEF Inv, PodInv, InOrder, Over
    <3> QED
      BY <3>4, <3>5
  <2> QED
    BY <2>1, <2>2
<1>12. ServedByHeld'
  <2>1. ASSUME dep # None, cr # None PROVE dep.uid # cr.uid
    BY <1>1, <1>3, <2>1, CopyTypes, AccountTypes
       DEF Inv, PodInv, AllEarlier, Earlier, InOrder, Over
  <2> QED
    BY <1>1, <2>1 DEF ServedByHeld
<1>13. (InOrder(kt, view.cr) /\ InOrder(kt, cr) /\ InOrder(view.cr, cr))'
  BY <1>1, <1>2 DEF PodInv, InOrder
<1> QED
  BY <1>1, <1>2, <1>10, <1>11, <1>12, <1>13 DEF PodInv, Prepared

LEMMA TearDownPod == ASSUME Inv, PodInv, TearDown PROVE PodInv'
<1>1. CASE RemoveFinalizer
  <2>1. UNCHANGED <<sa, dep, view, pod, used>> /\ (cr' = cr \/ cr' = None)
    BY <1>1 DEF RemoveFinalizer
  <2>2. (kt' = None /\ pc' = "idle") \/ (kt' = kt /\ pc' \notin SaDoneLabel)
    BY <1>1 DEF RemoveFinalizer, Proceed, Goto, Requeue, Return, SaDoneLabel
  <2> QED
    BY <2>1, <2>2, HoldingStep DEF Held
<1>2. CASE WaitForPodDeletion
  BY <1>2, HoldingStep DEF WaitForPodDeletion, Goto, SaDoneLabel, Held
<1>3. CASE CleanUpServiceAccount
  BY <1>3, CleanUpPod
<1>4. CASE CleanUpClusterRole
  <2>1. UNCHANGED <<cr, sa, dep, view, pod>> /\ used'.creates = used.creates
    BY <1>4 DEF Inv, TypeOK, Usage, CleanUpClusterRole
  <2>2. (kt' = None /\ pc' = "idle") \/ (kt' = kt /\ pc' \notin SaDoneLabel)
    BY <1>4 DEF CleanUpClusterRole, Proceed, Goto, Requeue, Return, SaDoneLabel
  <2> QED
    BY <2>1, <2>2, HoldingStep DEF Held
<1>5. CASE CleanUpClusterRolebinding
  BY <1>5, HoldingStep DEF CleanUpClusterRolebinding, DoNotRequeue, Return, Held
<1> QED
  BY <1>1, <1>2, <1>3, <1>4, <1>5 DEF TearDown

\* After this call the ServiceAccount is held, even when a stale cache made it a no-op.
LEMMA ServiceAccountPod == ASSUME Inv, PodInv, CreateOrUpdateServiceAccount PROVE PodInv'
<1> DEFINE n == kt.spec.sa
           created == MutateServiceAccount(NewServiceAccount(kt.uid), TRUE)
           mutated == MutateServiceAccount(view.sa[n], TRUE)
           stored == Stored(view.sa[n], sa[n], created, mutated)
<1>1. /\ UNCHANGED <<cr, dep, view, pod, used>>
      /\ pc = "serviceAccount"
      /\ kt \in CR /\ kt # None /\ kt.uid \in Nat /\ n \in SAName
      /\ sa' = [sa EXCEPT ![n] = stored]
  BY CopyTypes, ReadTypes DEF Inv, TypeOK, CreateOrUpdateServiceAccount
<1>2. \/ kt' = None /\ pc' = "idle"
      \/ kt' = kt /\ pc' = "clusterRole" /\ Accepted(view.sa[n], sa[n], mutated)
  BY DEF CreateOrUpdateServiceAccount, Proceed, Goto, Requeue, Return
<1>3. ~kt.deleting
  BY <1>1 DEF Inv, RoleInv, Marked, TearDownLabel
<1>4. \A m \in SAName : m # n => sa'[m] = sa[m]
  BY <1>1 DEF Inv, TypeOK
<1>5. sa'[n] = stored
  BY <1>1 DEF Inv, TypeOK
<1>6. created # None /\ created.uid = kt.uid /\ created.finalizer
  <2>1. created \in ServiceAccount
    BY <1>1 DEF MutateServiceAccount, NewServiceAccount, ServiceAccount
  <2> QED
    BY <2>1, NoneAssumption DEF MutateServiceAccount, NewServiceAccount
<1>7. view.sa[n] # None => mutated # None /\ mutated.uid = kt.uid /\ mutated.finalizer
  <2>1. view.sa[n] # None => mutated \in ServiceAccount
    BY <1>1, AccountTypes, MutatedType DEF Inv
  <2> QED
    BY <1>1, <2>1, AccountTypes, NoneAssumption DEF Inv, MutateServiceAccount, ServiceAccount
<1> HIDE DEF created, mutated
<1>8. stored = sa[n] \/ (stored # None /\ stored.uid = kt.uid /\ stored.finalizer)
  BY <1>6, <1>7 DEF Stored
<1>9. \A m \in SAName : Held(m) => Held(m)'
  BY <1>4, <1>5, <1>8 DEF Held
<1>10. \A u \in Nat : Earlier(u) => Earlier(u)'
  BY <1>1, <1>2 DEF Earlier
<1>11. Earlier(kt.uid)
  BY <1>1, CopyTypes DEF Inv, RestartInv, Accounted, PodInv, InOrder, Earlier
<1>12. AllEarlier'
  <2>1. ASSUME NEW m \in SAName, sa'[m] # None PROVE Earlier(sa[m].uid)'
    <3>1. CASE m = n
      BY <1>1, <1>5, <1>8, <1>10, <1>11, <2>1, <3>1, AccountTypes DEF Inv, PodInv, AllEarlier
    <3>2. CASE m # n
      BY <1>4, <1>10, <2>1, <3>2, AccountTypes DEF Inv, PodInv, AllEarlier
    <3> QED
      BY <3>1, <3>2
  <2> QED
    BY <1>1, <1>10, <2>1, AccountTypes DEF Inv, PodInv, AllEarlier
<1>13. ReleasedForGood'
  BY <1>1, <1>2, <1>9 DEF PodInv, ReleasedForGood, Over
<1>14. Prepared'
  <2> SUFFICES ASSUME pc' \in SaDoneLabel PROVE sa'[n] # None /\ sa'[n].finalizer
    BY <1>2 DEF Prepared, SaDoneLabel, Held
  <2>1. Accepted(view.sa[n], sa[n], mutated)
    BY <1>2 DEF SaDoneLabel
  <2>2. CASE view.sa[n] = None \/ sa[n] = view.sa[n]
    BY <1>5, <1>6, <1>7, <2>1, <2>2 DEF Accepted, Stored
  <2>3. CASE view.sa[n] # None /\ mutated = view.sa[n]
    <3>1. view.sa[n].uid = kt.uid /\ view.sa[n].finalizer
      BY <1>7, <2>3
    <3>2. ~Over(view.sa[n].uid)
      BY <1>1, <1>3, <3>1 DEF Over
    <3> QED
      BY <1>1, <1>9, <2>3, <3>1, <3>2 DEF PodInv, ReleasedForGood, Held
  <2> QED
    BY <2>1, <2>2, <2>3 DEF Accepted
<1>15. ServedByHeld'
  BY <1>1, <1>9, AccountTypes DEF Inv, PodInv, ServedByHeld
<1>16. (InOrder(kt, view.cr) /\ InOrder(kt, cr) /\ InOrder(view.cr, cr))'
  BY <1>1, <1>2 DEF PodInv, InOrder
<1> QED
  BY <1>1, <1>12, <1>13, <1>14, <1>15, <1>16 DEF PodInv

\* A Deployment that is the worker's own is written in place, under the pod it has; one
\* that is written anew has no pod.
LEMMA DeploymentPod == ASSUME Inv, PodInv, CreateOrUpdateDeployment PROVE PodInv'
<1>1. /\ UNCHANGED <<cr, sa, view, pod, used>>
      /\ pc = "deployment"
      /\ kt \in CR /\ kt # None /\ kt.uid \in Nat
  BY CopyTypes DEF Inv, TypeOK, CreateOrUpdateDeployment
<1>2. (kt' = None /\ pc' = "idle") \/ (kt' = kt /\ pc' \notin SaDoneLabel)
  BY DEF CreateOrUpdateDeployment, Proceed, Goto, Requeue, Return, SaDoneLabel
<1>3. CASE dep' = dep
  BY <1>1, <1>2, <1>3, HoldingStep DEF Held
<1>4. CASE dep' # dep
  <2>1. /\ dep' = [sa |-> kt.spec.sa, uid |-> kt.uid]
        /\ dep # None => dep.uid = kt.uid
    BY <1>4 DEF CreateOrUpdateDeployment
  <2>2. Held(kt.spec.sa)
    BY <1>1 DEF PodInv, Prepared, SaDoneLabel
  <2>3. Earlier(kt.uid)
    BY <1>1, CopyTypes DEF Inv, RestartInv, Accounted, PodInv, InOrder, Earlier
  <2>4. AllEarlier'
    BY <1>1, <1>2, <2>1, <2>3 DEF PodInv, AllEarlier, Earlier
  <2>5. ReleasedForGood'
    BY <1>1, <1>2 DEF PodInv, ReleasedForGood, Held, Over
  <2>6. ServedByHeld'
    BY <1>1, <2>1, <2>2 DEF PodInv, ServedByHeld, Held
  <2>7. dep' # None
    BY <1>1, <2>1, ReadTypes, NoneAssumption DEF Deployment
  <2> QED
    BY <1>1, <1>2, <2>4, <2>5, <2>6, <2>7 DEF PodInv, InOrder, Prepared, SaDoneLabel
<1> QED
  BY <1>3, <1>4

LEMMA TearUpPod == ASSUME Inv, PodInv, TearUp PROVE PodInv'
<1>1. CASE PatchFinalizer
  <2>1. cr' = cr \/ SameObject(cr, cr')
    BY <1>1 DEF Inv, TypeOK, CR, PatchFinalizer, SameObject
  <2> QED
    BY <1>1, <2>1, HoldingStep DEF PatchFinalizer, Requeue, DoNotRequeue, Return, Held
<1>2. CASE CreateOrUpdateConfigMap
  <2>1. (kt' = None /\ pc' = "idle") \/ (kt' = kt /\ pc' \notin SaDoneLabel)
    BY <1>2 DEF CreateOrUpdateConfigMap, Proceed, Goto, Requeue, Return, SaDoneLabel
  <2> QED
    BY <1>2, <2>1, HoldingStep DEF CreateOrUpdateConfigMap, Held
<1>3. CASE CreateOrUpdateServiceAccount
  BY <1>3, ServiceAccountPod
<1>4. CASE CreateOrUpdateClusterRole
  <2>1. (kt' = None /\ pc' = "idle") \/ (kt' = kt /\ pc \in SaDoneLabel)
    BY <1>4 DEF Written, CreateOrUpdateClusterRole, Proceed, Goto, Requeue, Return, SaDoneLabel
  <2> QED
    BY <1>4, <2>1, HoldingStep DEF CreateOrUpdateClusterRole, Held
<1>5. CASE CreateOrUpdateClusterRoleBinding
  <2>1. (kt' = None /\ pc' = "idle") \/ (kt' = kt /\ pc \in SaDoneLabel)
    BY <1>5 DEF CreateOrUpdateClusterRoleBinding, Proceed, Goto, Requeue, Return, SaDoneLabel
  <2> QED
    BY <1>5, <2>1, HoldingStep DEF CreateOrUpdateClusterRoleBinding, Held
<1>6. CASE DeleteClusterRoleBinding
  BY <1>6, HoldingStep DEF DeleteClusterRoleBinding, Requeue, Return, Held
<1>7. CASE SaveHashBeforeRestart
  <2>1. cr' = cr \/ SameObject(cr, cr')
    BY <1>7 DEF Inv, TypeOK, CR, SaveHashBeforeRestart, Fresh, WithHash, SameObject
  <2> QED
    BY <1>7, <2>1, HoldingStep DEF SaveHashBeforeRestart, Goto, SaDoneLabel, Held
<1>8. CASE CreateOrUpdateDeployment
  BY <1>8, DeploymentPod
<1>9. CASE DeleteDeployment
  BY <1>9, HoldingStep DEF DeleteDeployment, Requeue, Return, Held
<1>10. CASE UpdateClusterResource
  <2>1. cr' = cr \/ SameObject(cr, cr')
    BY <1>10 DEF Inv, TypeOK, CR, UpdateClusterResource, Fresh, WithHash, SameObject
  <2> QED
    BY <1>10, <2>1, HoldingStep DEF UpdateClusterResource, DoNotRequeue, Return, Held
<1> QED
  BY <1>1, <1>2, <1>3, <1>4, <1>5, <1>6, <1>7, <1>8, <1>9, <1>10 DEF TearUp

LEMMA FailurePod == ASSUME Inv, PodInv, Failure PROVE PodInv'
<1>1. CASE Fault
  <2>1. UNCHANGED <<cr, sa, dep, view, pod>> /\ used'.creates = used.creates
    BY <1>1 DEF Inv, TypeOK, Usage, Fault
  <2>2. (kt' = None /\ pc' = "idle") \/ (kt' = kt /\ pc' \notin SaDoneLabel)
    BY <1>1 DEF Fault, Goto, Requeue, Return, SaDoneLabel
  <2> QED
    BY <2>1, <2>2, HoldingStep DEF Held
<1>2. CASE Crash
  <2>1. /\ UNCHANGED <<cr, sa, dep, pod>>
        /\ used'.creates = used.creates
        /\ view'.cr = cr
        /\ view'.sa = sa
        /\ kt' = None
        /\ pc' = "idle"
    BY <1>2 DEF Inv, TypeOK, Usage, Crash, Current
  <2> QED
    BY <2>1, CopyTypes
       DEF Inv, PodInv, InOrder, AllEarlier, Earlier, ReleasedForGood, Held, Prepared,
           SaDoneLabel, ServedByHeld
<1> QED
  BY <1>1, <1>2 DEF Failure

LEMMA PodStep == Inv /\ PodInv /\ [Next]_vars => PodInv'
<1> SUFFICES ASSUME Inv, PodInv, [Next]_vars PROVE PodInv'
  OBVIOUS
<1>1. ASSUME NEW k \in Kinds, Sync(k) PROVE PodInv'
  BY <1>1, SyncPod
<1>2. CASE User
  BY <1>2, UserPod
<1>3. CASE Cluster
  BY <1>3, ClusterPod
<1>4. CASE Worker
  BY <1>4, GetPod, TearDownPod, TearUpPod DEF Worker
<1>5. CASE Failure
  BY <1>5, FailurePod
<1>6. CASE UNCHANGED vars
  BY <1>6, HoldingStep DEF vars, Held
<1> QED
  BY <1>1, <1>2, <1>3, <1>4, <1>5, <1>6 DEF Next

LEMMA PodInit == Init => PodInv
  BY DEF Init, Current, PodInv, InOrder, AllEarlier, ReleasedForGood, Prepared, SaDoneLabel,
         ServedByHeld

\* Whatever the caches show, whoever deletes the ServiceAccount, and however many CRs of the
\* name come and go, a pod that runs for its CR keeps the ServiceAccount it runs as
\* (reconciler.go, lines 534-552 and 750-758).
THEOREM PodIsServed == Spec => []PodHasServiceAccount
<1>1. PodInv => PodHasServiceAccount
  BY DEF PodInv, ServedByHeld, Held, PodHasServiceAccount, Live
<1> QED
  BY InvInit, InvStep, PodInit, PodStep, <1>1, PTL DEF Spec

-----------------------------------------------------------------------------
(* The invariant behind HashPublished, where the cache of the ConfigMap    *)
(* does not lag: from the call on the ConfigMap to the end of the cycle    *)
(* nobody writes it, and a status update that succeeds is of the version   *)
(* read.                                                                   *)

ConfigMapDoneLabel == {"serviceAccount", "clusterRole", "clusterRoleBinding", "deployment",
                       "updateClusterResource"}

\* y is x or a later version of it.
VersionOf(x, y) ==
    x # None /\ y # None /\ x.uid = y.uid =>
        /\ x.rv <= y.rv
        /\ x.rv = y.rv => x.spec = y.spec

ConfigMapWritten == pc \in ConfigMapDoneLabel => cm = None \/ cm.config = kt.spec.config

HashInv ==
    /\ VersionOf(kt, cr)
    /\ VersionOf(view.cr, cr)
    /\ ConfigMapWritten

\* d is the next version of c.
NextVersion(c, d) == c # None /\ d.uid = c.uid /\ d.rv = c.rv + 1

LEMMA VersionTypes ==
    ASSUME TypeOK
    PROVE  /\ cr # None => cr \in CR /\ cr.rv \in Nat
           /\ view.cr # None => view.cr \in CR /\ view.cr.rv \in Nat
           /\ kt # None => kt \in CR /\ kt.rv \in Nat
  BY ReadTypes DEF TypeOK, View

LEMMA WithHashFields ==
    ASSUME NEW c \in CR
    PROVE  /\ WithHash(c).uid = c.uid
           /\ WithHash(c).rv = c.rv + 1
           /\ WithHash(c).hash = HashOf(c)
  BY DEF WithHash, CR

\* Every step leaves the CR as it is, creates, removes or writes a new version of it.
LEMMA CrStep ==
    ASSUME Inv, [Next]_vars
    PROVE  \/ cr' = cr
           \/ cr' = None
           \/ NextVersion(cr, cr')
           \/ cr = None /\ cr'.uid = used.creates + 1 /\ UNCHANGED <<view, kt>>
<1>1. ASSUME NEW spec \in Specs, NEW f \in CreatedWith, CreateCR(spec, f)
      PROVE  cr = None /\ cr'.uid = used.creates + 1 /\ UNCHANGED <<view, kt>>
  BY <1>1 DEF CreateCR, worker
<1>2. ASSUME NEW spec \in Specs, EditCR(spec) PROVE NextVersion(cr, cr')
  BY <1>2 DEF EditCR, NextVersion, Inv, TypeOK, CR
<1>3. ASSUME DeleteCR PROVE cr' = None \/ NextVersion(cr, cr')
  BY <1>3 DEF DeleteCR, NextVersion, Inv, TypeOK, CR
<1>4. ASSUME Tamper \/ Cluster \/ Failure \/ Get PROVE cr' = cr
  BY <1>4 DEF Tamper, Cluster, CollectGarbage, StartPod, StopPod, Failure, Fault, Crash, Get
<1>5. ASSUME NEW k \in Kinds, Sync(k) PROVE cr' = cr
  BY <1>5 DEF Sync
<1>6. ASSUME TearDown PROVE cr' = cr \/ cr' = None
  BY <1>6 DEF TearDown, RemoveFinalizer, WaitForPodDeletion, CleanUpServiceAccount,
              CleanUpClusterRole, CleanUpClusterRolebinding
<1>7. ASSUME TearUp PROVE cr' = cr \/ NextVersion(cr, cr')
  <2>1. ASSUME PatchFinalizer PROVE cr' = cr \/ NextVersion(cr, cr')
    BY <2>1 DEF PatchFinalizer, NextVersion, Inv, TypeOK, CR
  <2>2. ASSUME SaveHashBeforeRestart \/ UpdateClusterResource
        PROVE  cr' = cr \/ NextVersion(cr, cr')
    BY <2>2, WithHashFields, VersionTypes
       DEF SaveHashBeforeRestart, UpdateClusterResource, Fresh, NextVersion, Inv
  <2> QED
    BY <1>7, <2>1, <2>2
       DEF TearUp, CreateOrUpdateConfigMap, CreateOrUpdateServiceAccount,
           CreateOrUpdateClusterRole, CreateOrUpdateClusterRoleBinding,
           DeleteClusterRoleBinding, CreateOrUpdateDeployment, DeleteDeployment
<1> QED
  BY <1>1, <1>2, <1>3, <1>4, <1>5, <1>6, <1>7 DEF Next, User, Worker, vars

\* The worker takes its copy of the CR from the cache and never changes it in a cycle.
LEMMA KtStep ==
    ASSUME [Next]_vars
    PROVE  kt' = kt \/ kt' = None \/ (kt' = view.cr /\ UNCHANGED <<cr, view>>)
<1>1. ASSUME User \/ Cluster \/ \E k \in Kinds : Sync(k) PROVE kt' = kt
  BY <1>1 DEF User, CreateCR, EditCR, DeleteCR, Tamper, Cluster, CollectGarbage, StartPod, StopPod,
              Sync, worker
<1>2. ASSUME Failure PROVE kt' = kt \/ kt' = None
  BY <1>2 DEF Failure, Fault, Crash, Goto, Requeue, Return
<1>3. ASSUME Get PROVE kt' = kt \/ (kt' = view.cr /\ UNCHANGED <<cr, view>>)
  BY <1>3 DEF Get
<1>4. ASSUME TearDown PROVE kt' = kt \/ kt' = None
  <2>1. CASE RemoveFinalizer \/ WaitForPodDeletion \/ CleanUpServiceAccount
    BY <2>1 DEF RemoveFinalizer, WaitForPodDeletion, CleanUpServiceAccount, Proceed, Goto, Requeue,
                Return
  <2>2. CASE CleanUpClusterRole \/ CleanUpClusterRolebinding
    BY <2>2 DEF CleanUpClusterRole, CleanUpClusterRolebinding, Proceed, Goto, Requeue,
                DoNotRequeue, Return
  <2> QED
    BY <1>4, <2>1, <2>2 DEF TearDown
<1>5. ASSUME TearUp PROVE kt' = kt \/ kt' = None
  <2>1. CASE PatchFinalizer \/ DeleteClusterRoleBinding \/ DeleteDeployment
    BY <2>1 DEF PatchFinalizer, DeleteClusterRoleBinding, DeleteDeployment, Requeue, DoNotRequeue,
                Return
  <2>2. CASE CreateOrUpdateConfigMap \/ CreateOrUpdateServiceAccount
    BY <2>2 DEF CreateOrUpdateConfigMap, CreateOrUpdateServiceAccount, Proceed, Goto, Requeue, Return
  <2>3. CASE CreateOrUpdateClusterRole
    BY <2>3 DEF CreateOrUpdateClusterRole, Proceed, Goto, Requeue, Return
  <2>4. CASE CreateOrUpdateClusterRoleBinding
    BY <2>4 DEF CreateOrUpdateClusterRoleBinding, Proceed, Goto, Requeue, Return
  <2>5. CASE SaveHashBeforeRestart \/ UpdateClusterResource
    BY <2>5 DEF SaveHashBeforeRestart, UpdateClusterResource, Goto, DoNotRequeue, Return
  <2>6. CASE CreateOrUpdateDeployment
    BY <2>6 DEF CreateOrUpdateDeployment, Proceed, Goto, Requeue, Return
  <2> QED
    BY <1>5, <2>1, <2>2, <2>3, <2>4, <2>5, <2>6 DEF TearUp
<1> QED
  BY <1>1, <1>2, <1>3, <1>4, <1>5 DEF Next, Worker, vars

LEMMA ViewStep ==
    ASSUME TypeOK, [Next]_vars
    PROVE  view'.cr = view.cr \/ (view'.cr = cr /\ UNCHANGED cr)
<1>1. ASSUME NEW k \in Kinds, Sync(k) PROVE view'.cr \in {view.cr, cr} /\ UNCHANGED cr
  BY <1>1 DEF TypeOK, View, Sync, Current, Kinds
<1>2. ASSUME User \/ Cluster \/ Fault \/ Worker PROVE view' = view
  BY <1>2 DEF User, CreateCR, EditCR, DeleteCR, Tamper, Cluster, CollectGarbage, StartPod,
              StopPod, Fault, Worker, Get,
              TearDown, RemoveFinalizer, WaitForPodDeletion, CleanUpServiceAccount,
              CleanUpClusterRole, CleanUpClusterRolebinding,
              TearUp, PatchFinalizer, CreateOrUpdateConfigMap, CreateOrUpdateServiceAccount,
              CreateOrUpdateClusterRole, CreateOrUpdateClusterRoleBinding,
              DeleteClusterRoleBinding, SaveHashBeforeRestart, CreateOrUpdateDeployment,
              DeleteDeployment, UpdateClusterResource
<1>3. ASSUME Crash PROVE view'.cr = cr /\ UNCHANGED cr
  BY <1>3 DEF Crash, Current
<1> QED
  BY <1>1, <1>2, <1>3 DEF Next, Failure, vars

LEMMA VersionStep ==
    ASSUME Inv, HashInv, [Next]_vars
    PROVE  VersionOf(kt, cr)' /\ VersionOf(view.cr, cr)'
<1>1. kt' = kt \/ kt' = None \/ (kt' = view.cr /\ UNCHANGED <<cr, view>>)
  BY KtStep
<1>2. view'.cr = view.cr \/ (view'.cr = cr /\ UNCHANGED cr)
  BY ViewStep DEF Inv
<1>3. ASSUME NEW x, x # None => x.uid \in Nat /\ x.rv \in Nat /\ x.uid <= used.creates,
             VersionOf(x, cr)
      PROVE  VersionOf(x, cr')
  BY <1>3, CrStep, CopyTypes, VersionTypes DEF Inv, VersionOf, NextVersion
<1>4. /\ kt # None => kt.uid \in Nat /\ kt.rv \in Nat /\ kt.uid <= used.creates
      /\ view.cr # None => view.cr.uid \in Nat /\ view.cr.rv \in Nat /\ view.cr.uid <= used.creates
  BY CopyTypes, VersionTypes DEF Inv, RestartInv, Accounted
<1>5. VersionOf(kt, cr') /\ VersionOf(view.cr, cr')
  BY <1>3, <1>4 DEF HashInv
<1>6. VersionOf(kt, cr)'
  BY <1>1, <1>5 DEF VersionOf, HashInv
<1>7. VersionOf(view.cr, cr)'
  BY <1>2, <1>5, VersionTypes DEF VersionOf, Inv
<1> QED
  BY <1>6, <1>7

\* Outside the call on it, the ConfigMap only goes.
LEMMA ConfigMapStep ==
    ASSUME [Next]_vars, ~(Settled /\ CreateOrUpdateConfigMap)
    PROVE  cm' = cm \/ cm' = None
BY DEF Next, vars, Sync, User, CreateCR, EditCR, DeleteCR, Tamper, DropConfigMap, DropDeployment,
       DropServiceAccount, Cluster, CollectGarbage, StartPod, StopPod, Failure, Fault, Crash,
       Worker, Get, TearDown, RemoveFinalizer, WaitForPodDeletion, CleanUpServiceAccount,
       CleanUpClusterRole, CleanUpClusterRolebinding, TearUp, PatchFinalizer,
       CreateOrUpdateServiceAccount, CreateOrUpdateClusterRole,
       CreateOrUpdateClusterRoleBinding, DeleteClusterRoleBinding, SaveHashBeforeRestart,
       CreateOrUpdateDeployment, DeleteDeployment, UpdateClusterResource

\* A cycle enters the calls after the one on the ConfigMap through that one only.
LEMMA LabelStep ==
    ASSUME [Next]_vars, ~(Settled /\ CreateOrUpdateConfigMap), pc' \in ConfigMapDoneLabel
    PROVE  pc \in ConfigMapDoneLabel /\ kt' = kt
<1>1. ASSUME User \/ Cluster \/ \E k \in Kinds : Sync(k) PROVE UNCHANGED <<pc, kt>>
  BY <1>1 DEF User, CreateCR, EditCR, DeleteCR, Tamper, Cluster, CollectGarbage, StartPod, StopPod,
              Sync, worker
<1>2. ~Failure
  BY DEF Failure, Fault, Crash, Goto, Requeue, Return, ConfigMapDoneLabel
<1>3. ASSUME Get PROVE UNCHANGED <<pc, kt>>
  BY <1>3 DEF Get, ConfigMapDoneLabel
<1>4. ~TearDown
  <2>1. ~RemoveFinalizer /\ ~WaitForPodDeletion /\ ~CleanUpServiceAccount
    BY DEF RemoveFinalizer, WaitForPodDeletion, CleanUpServiceAccount, Proceed, Goto, Requeue,
           Return, ConfigMapDoneLabel
  <2>2. ~CleanUpClusterRole /\ ~CleanUpClusterRolebinding
    BY DEF CleanUpClusterRole, CleanUpClusterRolebinding, Proceed, Goto, Requeue, DoNotRequeue,
           Return, ConfigMapDoneLabel
  <2> QED
    BY <2>1, <2>2 DEF TearDown
<1>5. ASSUME TearUp, ~CreateOrUpdateConfigMap PROVE pc \in ConfigMapDoneLabel /\ kt' = kt
  <2>1. ~PatchFinalizer /\ ~DeleteClusterRoleBinding /\ ~DeleteDeployment
    BY DEF PatchFinalizer, DeleteClusterRoleBinding, DeleteDeployment, Requeue, DoNotRequeue,
           Return, ConfigMapDoneLabel
  <2>2. CASE CreateOrUpdateServiceAccount
    BY <2>2 DEF CreateOrUpdateServiceAccount, Proceed, Goto, Requeue, Return, ConfigMapDoneLabel
  <2>3. CASE CreateOrUpdateClusterRole
    BY <2>3 DEF CreateOrUpdateClusterRole, Proceed, Goto, Requeue, Return, ConfigMapDoneLabel
  <2>4. CASE CreateOrUpdateClusterRoleBinding
    BY <2>4 DEF CreateOrUpdateClusterRoleBinding, Proceed, Goto, Requeue, Return,
                ConfigMapDoneLabel
  <2>5. ~SaveHashBeforeRestart /\ ~UpdateClusterResource
    BY DEF SaveHashBeforeRestart, UpdateClusterResource, Goto, DoNotRequeue, Return,
           ConfigMapDoneLabel
  <2>6. CASE CreateOrUpdateDeployment
    BY <2>6 DEF CreateOrUpdateDeployment, Proceed, Goto, Requeue, Return, ConfigMapDoneLabel
  <2> QED
    BY <1>5, <2>1, <2>2, <2>3, <2>4, <2>5, <2>6 DEF TearUp
<1> QED
  BY <1>1, <1>2, <1>3, <1>4, <1>5 DEF Next, Worker, vars

\* The call on the ConfigMap, made on the ConfigMap that there is, leaves it as the copy says.
LEMMA ConfigMapCall ==
    ASSUME TypeOK, view.cm = cm, CreateOrUpdateConfigMap, pc' \in ConfigMapDoneLabel
    PROVE  cm'.config = kt.spec.config /\ kt' = kt
<1>1. kt' = kt
  BY DEF CreateOrUpdateConfigMap, Proceed, Goto, Requeue, Return, ConfigMapDoneLabel
<1>2. CASE cm = None
  BY <1>1, <1>2 DEF CreateOrUpdateConfigMap, Stored
<1>3. CASE cm # None
  <2>1. cm' = [cm EXCEPT !.config = kt.spec.config, !.uid = kt.uid]
    BY <1>3 DEF CreateOrUpdateConfigMap, Stored, MutateConfigMap
  <2>2. cm \in ConfigMap
    BY <1>3 DEF TypeOK
  <2> QED
    BY <1>1, <2>1, <2>2 DEF ConfigMap
<1> QED
  BY <1>2, <1>3

LEMMA HashStep ==
    ASSUME "cm" \notin Lagging, Inv, HashInv, [Next]_vars
    PROVE  HashInv'
<1>1. ConfigMapWritten'
  <2>1. CASE Settled /\ CreateOrUpdateConfigMap
    <3>1. view.cm = cm
      BY <2>1 DEF Settled, Current, Kinds
    <3> QED
      BY <2>1, <3>1, ConfigMapCall DEF Inv, ConfigMapWritten
  <2>2. CASE ~(Settled /\ CreateOrUpdateConfigMap)
    BY <2>2, ConfigMapStep, LabelStep DEF HashInv, ConfigMapWritten
  <2> QED
    BY <2>1, <2>2
<1> QED
  BY <1>1, VersionStep DEF HashInv

LEMMA HashInit == Init => HashInv
  BY DEF Init, Current, HashInv, VersionOf, ConfigMapWritten, ConfigMapDoneLabel

\* Only a status update changes the hash, and one that succeeds writes that of the cycle's copy.
LEMMA HashChange ==
    ASSUME Inv, HashInv, [Next]_vars,
           cr # None, cr' # None, cr'.uid = cr.uid, cr'.hash # cr.hash
    PROVE  /\ pc \in ConfigMapDoneLabel
           /\ cr'.hash = HashOf(kt)
<1>1. ASSUME User \/ Cluster \/ Failure \/ Get \/ TearDown \/ PatchFinalizer PROVE FALSE
  <2>1. ASSUME NEW spec \in Specs, EditCR(spec) PROVE cr'.hash = cr.hash
    BY <2>1 DEF EditCR, Inv, TypeOK, CR
  <2>2. ASSUME DeleteCR \/ PatchFinalizer PROVE cr'.hash = cr.hash
    BY <2>2 DEF DeleteCR, PatchFinalizer, Inv, TypeOK, CR
  <2>3. ASSUME Tamper \/ Cluster \/ Failure \/ Get \/ TearDown PROVE cr' = cr
    BY <2>3 DEF Tamper, Cluster, CollectGarbage, StartPod, StopPod, Failure, Fault, Crash, Get,
                TearDown, RemoveFinalizer, WaitForPodDeletion, CleanUpServiceAccount,
                CleanUpClusterRole, CleanUpClusterRolebinding
  <2> QED
    BY <1>1, <2>1, <2>2, <2>3 DEF User, CreateCR
<1>2. ASSUME NEW k \in Kinds, Sync(k) PROVE FALSE
  BY <1>2 DEF Sync
<1>3. CASE SaveHashBeforeRestart \/ UpdateClusterResource
  <2>1. Fresh /\ cr' = WithHash(cr) /\ pc \in ConfigMapDoneLabel
    BY <1>3 DEF SaveHashBeforeRestart, UpdateClusterResource, ConfigMapDoneLabel
  <2>2. kt # None
    BY <2>1 DEF Inv, TypeOK, ConfigMapDoneLabel
  <2>3. kt.spec = cr.spec
    BY <2>1, <2>2 DEF Fresh, HashInv, VersionOf
  <2> QED
    BY <2>1, <2>3, WithHashFields, VersionTypes DEF Inv, HashOf
<1>4. ASSUME TearUp, ~PatchFinalizer, ~SaveHashBeforeRestart, ~UpdateClusterResource
      PROVE  FALSE
  BY <1>4 DEF TearUp, CreateOrUpdateConfigMap, CreateOrUpdateServiceAccount,
              CreateOrUpdateClusterRole, CreateOrUpdateClusterRoleBinding,
              DeleteClusterRoleBinding, CreateOrUpdateDeployment, DeleteDeployment
<1> QED
  BY <1>1, <1>2, <1>3, <1>4 DEF Next, Worker, vars

\* Where the cache of the ConfigMap is up to date, status.configHash names the turbo.config
\* that the ConfigMap holds when it is written, whatever edits, restarts of the operator and
\* failed calls lie between (reconciler.go, lines 69-92, 323-338 and 727-740).  A stale cache can turn
\* the call on the ConfigMap into none, and then this fails.
THEOREM HashIsPublished ==
    ASSUME "cm" \notin Lagging
    PROVE  Spec => HashPublished
<1>1. Inv /\ HashInv /\ [Next]_vars => HashInv'
  BY HashStep
<1>2. Inv /\ HashInv /\ [Next]_vars
        => [(/\ cr # None
             /\ cr' # None
             /\ cr'.uid = cr.uid
             /\ cr'.hash # cr.hash)
               => (cm # None => StaticPart[cm.config] = cr'.hash)]_vars
  BY HashChange DEF HashInv, ConfigMapWritten, HashOf
<1> QED
  BY InvInit, InvStep, HashInit, <1>1, <1>2, PTL DEF Spec, HashPublished

-----------------------------------------------------------------------------
(* The invariant behind ImplementsCustody: from the look at the            *)
(* finalizers to the end of the cycle the CR is there, held by the         *)
(* finalizer, and no object bears the UID of a later CR than the           *)
(* worker's.                                                               *)

\* The calls that bring up the objects of a CR.
BringUpLabel == Label \ (TearDownLabel \cup {"idle", "patchCR"})

\* The CR c is there and its finalizer holds it.
Holds(c) == cr # None /\ cr.uid = c.uid /\ KubeturboFinalizer \in cr.finalizers

NoEarlierHolder ==
    /\ cm # None => Earlier(cm.uid)
    /\ crb # None => Earlier(crb.uid)
    /\ \A r \in ManagedRole : role[r] # None => Earlier(role[r])

Numbered ==
    /\ cr # None => cr.uid # 0
    /\ view.cr # None => view.cr.uid # 0
    /\ kt # None => kt.uid # 0

\* Only the worker takes the finalizer off, once its copy is in deletion, and the cache is never
\* behind that copy: what the cache shows as held and in use is so.
CustodyInv ==
    /\ NoEarlierHolder
    /\ Numbered
    /\ view.cr # None /\ ~view.cr.deleting /\ KubeturboFinalizer \in view.cr.finalizers
         => Holds(view.cr)
    /\ pc \in BringUpLabel => Holds(kt)

LEMMA HolderTypes ==
    ASSUME TypeOK
    PROVE  /\ cm # None => cm.uid \in Nat
           /\ crb # None => crb.uid \in Nat
           /\ \A r \in ManagedRole : role[r] # None => role[r] \in Nat
           /\ pc \in BringUpLabel => kt # None
<1>1. cm # None => cm.uid \in Nat
  BY DEF TypeOK, ConfigMap
<1>2. crb # None => crb.uid \in Nat
  BY DEF TypeOK, ClusterRoleBinding
<1>3. pc \in BringUpLabel => kt # None
  BY DEF TypeOK, BringUpLabel
<1> QED
  BY <1>1, <1>2, <1>3, RoleTypes

\* The CR stays as it is, gets another version that the finalizer holds as before, or goes
\* while the finalizer does not hold it.
StaysHeld ==
    \/ cr' = cr
    \/ cr' = None /\ cr # None /\ KubeturboFinalizer \notin cr.finalizers
    \/ /\ cr # None /\ cr' # None
       /\ cr'.uid = cr.uid
       /\ KubeturboFinalizer \in cr.finalizers => KubeturboFinalizer \in cr'.finalizers

\* The worker goes on with its copy or ends the cycle.
GoesOn ==
    \/ kt' = None /\ pc' = "idle"
    \/ kt' = kt /\ (pc' \in BringUpLabel => pc \in BringUpLabel)

\* Objects are left alone, dropped or made for the worker's CR.
MadeForCopy ==
    /\ cm' # None => (cm # None /\ cm'.uid = cm.uid) \/ (kt # None /\ cm'.uid = kt.uid)
    /\ crb' # None => (crb # None /\ crb'.uid = crb.uid) \/ (kt # None /\ crb'.uid = kt.uid)
    /\ \A r \in ManagedRole :
          role'[r] # None => role'[r] = role[r] \/ (kt # None /\ role'[r] = kt.uid)

LEMMA CopyIsEarlier ==
    ASSUME Inv, PodInv, kt # None
    PROVE  Earlier(kt.uid)
  BY CopyTypes DEF Inv, PodInv, RestartInv, Accounted, InOrder, Earlier

LEMMA CustodyStep ==
    ASSUME Inv, PodInv, CustodyInv, view' = view, used'.creates = used.creates,
           StaysHeld, GoesOn, MadeForCopy
    PROVE  CustodyInv'
<1>1. ASSUME NEW u, Earlier(u) PROVE Earlier(u)'
  BY <1>1 DEF Earlier, StaysHeld, GoesOn
<1>2. NoEarlierHolder'
  BY <1>1, CopyIsEarlier DEF CustodyInv, NoEarlierHolder, MadeForCopy
<1>3. Numbered'
  BY DEF CustodyInv, Numbered, StaysHeld, GoesOn
<1>4. (view.cr # None /\ ~view.cr.deleting /\ KubeturboFinalizer \in view.cr.finalizers
         => Holds(view.cr))'
  BY DEF CustodyInv, Holds, StaysHeld
<1>5. (pc \in BringUpLabel => Holds(kt))'
  BY DEF CustodyInv, Holds, StaysHeld, GoesOn, BringUpLabel
<1> QED
  BY <1>2, <1>3, <1>4, <1>5 DEF CustodyInv

LEMMA EditStaysHeld == ASSUME TypeOK, NEW spec \in Specs, EditCR(spec) PROVE StaysHeld
<1>1. cr # None /\ cr \in CR
  BY DEF TypeOK, EditCR
<1>2. cr' = [cr EXCEPT !.spec = spec, !.rv = cr.rv + 1, !.gen = gen']
  BY DEF EditCR
<1>3. gen' \in Nat
  BY DEF TypeOK, EditCR
<1>4. cr' # None
  <2>1. spec \in KubeturboSpec
    OBVIOUS
  <2>2. cr' \in CR
    BY <1>1, <1>2, <1>3, <2>1, EditedType
  <2> QED
    BY <2>2, NoneAssumption
<1>5. cr'.uid = cr.uid /\ cr'.finalizers = cr.finalizers
  BY <1>1, <1>2 DEF CR
<1> QED
  BY <1>1, <1>4, <1>5 DEF StaysHeld

LEMMA CrStaysHeld ==
    ASSUME TypeOK,
           DeleteCR \/ PatchFinalizer \/ SaveHashBeforeRestart \/ UpdateClusterResource
    PROVE  StaysHeld
<1>1. CASE DeleteCR
  <2>1. CASE cr.finalizers = {}
    BY <1>1, <2>1 DEF DeleteCR, StaysHeld
  <2>2. CASE cr.finalizers # {}
    <3>1. cr # None /\ cr \in CR /\ cr' = [cr EXCEPT !.deleting = TRUE, !.rv = cr.rv + 1]
      BY <1>1, <2>2 DEF TypeOK, DeleteCR
    <3>2. cr' # None
      BY <3>1, MarkedType, NoneAssumption
    <3>3. cr'.uid = cr.uid /\ cr'.finalizers = cr.finalizers
      BY <3>1 DEF CR
    <3> QED
      BY <3>1, <3>2, <3>3 DEF StaysHeld
  <2> QED
    BY <2>1, <2>2
<1>2. CASE PatchFinalizer
  <2>1. CASE cr' = cr
    BY <2>1 DEF StaysHeld
  <2>2. CASE cr' # cr
    <3>1. cr # None /\ cr \in CR
      BY <1>2, <2>2 DEF PatchFinalizer, TypeOK
    <3>2. cr' = [cr EXCEPT !.finalizers = {KubeturboFinalizer}, !.rv = cr.rv + 1]
      BY <1>2, <2>2 DEF PatchFinalizer
    <3>3. cr' # None
      BY <3>1, <3>2, PatchedType, NoneAssumption
    <3>4. cr'.uid = cr.uid /\ cr'.finalizers = {KubeturboFinalizer}
      BY <3>1, <3>2 DEF CR
    <3> QED
      BY <3>1, <3>3, <3>4 DEF StaysHeld
  <2> QED
    BY <2>1, <2>2
<1>3. CASE SaveHashBeforeRestart \/ UpdateClusterResource
  <2>1. CASE cr' = cr
    BY <2>1 DEF StaysHeld
  <2>2. CASE cr' # cr
    <3>1. cr # None /\ cr \in CR /\ cr' = WithHash(cr)
      BY <1>3, <2>2 DEF TypeOK, Fresh, SaveHashBeforeRestart, UpdateClusterResource
    <3>2. cr' # None
      BY <3>1, WithHashType, NoneAssumption
    <3>3. cr'.uid = cr.uid /\ cr'.finalizers = cr.finalizers
      BY <3>1 DEF WithHash, CR
    <3> QED
      BY <3>1, <3>2, <3>3 DEF StaysHeld
  <2> QED
    BY <2>1, <2>2
<1> QED
  BY <1>1, <1>2, <1>3

LEMMA SyncCustody == ASSUME Inv, PodInv, CustodyInv, NEW k \in Kinds, Sync(k) PROVE CustodyInv'
<1>1. UNCHANGED <<cr, cm, crb, role, pc, kt, used>>
  BY DEF Sync, history
<1>2. view'.cr = view.cr \/ view'.cr = cr
  BY DEF Inv, TypeOK, View, Sync, Current, Kinds
<1>3. NoEarlierHolder'
  BY <1>1, <1>2 DEF CustodyInv, NoEarlierHolder, Earlier
<1> QED
  BY <1>1, <1>2, <1>3 DEF CustodyInv, Numbered, Holds

LEMMA UserCustody == ASSUME Inv, PodInv, CustodyInv, User PROVE CustodyInv'
<1>1. ASSUME NEW spec \in Specs, NEW f \in CreatedWith, CreateCR(spec, f) PROVE CustodyInv'
  <2>1. /\ cr = None
        /\ cr'.uid = used.creates + 1
        /\ used'.creates = used.creates + 1
        /\ UNCHANGED <<cm, crb, role, view, pc, kt>>
    BY <1>1 DEF Inv, TypeOK, Usage, CreateCR, worker
  <2>2. ASSUME NEW u \in Nat, Earlier(u) PROVE Earlier(u)'
    BY <2>1, <2>2, CopyTypes DEF Inv, Earlier
  <2>3. NoEarlierHolder'
    BY <2>1, <2>2, HolderTypes DEF Inv, CustodyInv, NoEarlierHolder
  <2>4. Numbered'
    BY <2>1, CopyTypes DEF Inv, CustodyInv, Numbered
  <2> QED
    BY <2>1, <2>3, <2>4 DEF CustodyInv, Holds
<1>2. CASE DeleteCR \/ \E spec \in Specs : EditCR(spec)
  <2>1. /\ UNCHANGED <<cm, crb, role, view, pc, kt>>
        /\ used'.creates = used.creates
    BY <1>2 DEF Inv, TypeOK, Usage, DeleteCR, EditCR, worker
  <2> QED
    BY <1>2, <2>1, EditStaysHeld, CrStaysHeld, CustodyStep DEF Inv, GoesOn, MadeForCopy
<1>3. CASE Tamper
  <2>1. UNCHANGED <<cr, crb, role, view, pc, kt>> /\ used'.creates = used.creates
    BY <1>3 DEF Inv, TypeOK, Usage, Tamper, worker
  <2>2. cm' = cm \/ cm' = None
    BY <1>3 DEF Tamper, DropConfigMap, DropDeployment, DropServiceAccount
  <2> QED
    BY <2>1, <2>2, CustodyStep DEF StaysHeld, GoesOn, MadeForCopy
<1> QED
  BY <1>1, <1>2, <1>3 DEF User

LEMMA ClusterCustody == ASSUME Inv, PodInv, CustodyInv, Cluster PROVE CustodyInv'
<1>1. UNCHANGED <<cr, crb, role, view, pc, kt, used>> /\ (cm' = cm \/ cm' = None)
  BY DEF Cluster, CollectGarbage, StartPod, StopPod, worker, DropConfigMap, DropDeployment,
         DropServiceAccount
<1> QED
  BY <1>1, CustodyStep DEF StaysHeld, GoesOn, MadeForCopy

LEMMA GetCustody == ASSUME Inv, PodInv, CustodyInv, Get PROVE CustodyInv'
<1>1. UNCHANGED <<cr, cm, crb, role, view, used>> /\ pc = "idle"
  BY DEF Get
<1>2. \/ UNCHANGED <<pc, kt>>
      \/ /\ kt' = view.cr
         /\ view.cr # None
         /\ pc' \in BringUpLabel =>
              ~view.cr.deleting /\ view.cr.finalizers = {KubeturboFinalizer}
  BY DEF Get, BringUpLabel, TearDownLabel
<1>3. NoEarlierHolder'
  BY <1>1, <1>2 DEF CustodyInv, NoEarlierHolder, Earlier
<1> QED
  BY <1>1, <1>2, <1>3 DEF CustodyInv, Numbered, Holds

LEMMA TearDownCustody == ASSUME Inv, PodInv, CustodyInv, TearDown PROVE CustodyInv'
<1>1. CASE RemoveFinalizer
  <2>1. UNCHANGED <<cm, crb, role, view, used>> /\ pc = "updateCR" /\ kt # None
    BY <1>1 DEF Inv, TypeOK, RemoveFinalizer
  <2>2. CASE ~Fresh
    BY <1>1, <2>1, <2>2, CustodyStep
       DEF RemoveFinalizer, Proceed, Requeue, Return, StaysHeld, GoesOn, MadeForCopy
  <2>3. CASE Fresh
    <3>1. cr' = None /\ kt' = kt /\ pc' \notin BringUpLabel
      BY <1>1, <2>3 DEF RemoveFinalizer, Proceed, Goto, BringUpLabel, TearDownLabel
    <3>2. kt.deleting
      BY <2>1 DEF Inv, RoleInv, Marked, TearDownLabel
    <3>3. cr # None /\ cr.uid = kt.uid
      BY <2>3 DEF Fresh
    <3>4. view.cr # None => view.cr.uid = kt.uid
      BY <2>1, <3>3, CopyTypes DEF Inv, PodInv, InOrder
    <3>5. view.cr # None => view.cr.deleting
      BY <2>1, <3>2, <3>4 DEF Inv, RoleInv, StaysMarked
    <3>6. NoEarlierHolder'
      BY <2>1, <3>1 DEF CustodyInv, NoEarlierHolder, Earlier
    <3> QED
      BY <2>1, <3>1, <3>5, <3>6 DEF CustodyInv, Numbered
  <2> QED
    BY <2>2, <2>3
<1>2. CASE WaitForPodDeletion
  BY <1>2, CustodyStep
     DEF WaitForPodDeletion, Goto, StaysHeld, GoesOn, MadeForCopy, BringUpLabel, TearDownLabel
<1>3. CASE CleanUpServiceAccount
  BY <1>3, CustodyStep
     DEF CleanUpServiceAccount, Proceed, Goto, Requeue, Return, StaysHeld, GoesOn, MadeForCopy,
         BringUpLabel, TearDownLabel
<1>4. CASE CleanUpClusterRole
  <2>1. UNCHANGED <<cr, cm, crb, view>> /\ used'.creates = used.creates
    BY <1>4 DEF Inv, TypeOK, Usage, CleanUpClusterRole
  <2>2. \A r \in ManagedRole : role'[r] = role[r] \/ role'[r] = None
    BY <1>4 DEF CleanUpClusterRole
  <2>3. GoesOn
    BY <1>4 DEF CleanUpClusterRole, Proceed, Goto, Requeue, Return, GoesOn, BringUpLabel,
                TearDownLabel
  <2> QED
    BY <2>1, <2>2, <2>3, CustodyStep DEF StaysHeld, MadeForCopy
<1>5. CASE CleanUpClusterRolebinding
  BY <1>5, CustodyStep
     DEF CleanUpClusterRolebinding, DoNotRequeue, Return, StaysHeld, GoesOn, MadeForCopy
<1> QED
  BY <1>1, <1>2, <1>3, <1>4, <1>5 DEF TearDown

\* What the calls of the upward path write bears the UID of the worker's copy.
LEMMA ConfigMapWrite ==
    ASSUME TypeOK, CreateOrUpdateConfigMap
    PROVE  cm' = cm \/ (cm' # None /\ cm'.uid = kt.uid)
<1> DEFINE created == [config |-> kt.spec.config, uid |-> kt.uid, owner |-> kt.uid]
           mutated == MutateConfigMap(view.cm)
<1>1. kt \in CR
  BY DEF TypeOK, CreateOrUpdateConfigMap
<1>2. created \in ConfigMap /\ created.uid = kt.uid
  BY <1>1, ReadTypes DEF ConfigMap
<1>3. ASSUME view.cm # None PROVE mutated \in ConfigMap /\ mutated.uid = kt.uid
  BY <1>1, <1>3, ReadTypes, ViewType DEF ConfigMap, MutateConfigMap
<1>4. cm' = Stored(view.cm, cm, created, mutated)
  BY DEF CreateOrUpdateConfigMap
<1> HIDE DEF created, mutated
<1> QED
  BY <1>2, <1>3, <1>4, NoneAssumption DEF Stored

LEMMA ServiceAccountWrite ==
    ASSUME TypeOK, CreateOrUpdateServiceAccount
    PROVE  \A n \in SAName : \/ sa'[n] = sa[n]
                             \/ n = kt.spec.sa /\ sa'[n] # None /\ sa'[n].uid = kt.uid
<1> DEFINE n == kt.spec.sa
           created == MutateServiceAccount(NewServiceAccount(kt.uid), TRUE)
           mutated == MutateServiceAccount(view.sa[n], TRUE)
           stored == Stored(view.sa[n], sa[n], created, mutated)
<1>1. kt \in CR /\ kt.uid \in Nat /\ n \in SAName
  BY ReadTypes DEF TypeOK, CreateOrUpdateServiceAccount
<1>2. created \in ServiceAccount /\ created.uid = kt.uid
  <2>1. NewServiceAccount(kt.uid) \in ServiceAccount
    BY <1>1 DEF NewServiceAccount, ServiceAccount
  <2> QED
    BY <1>1, <2>1, MutatedType DEF MutateServiceAccount, ServiceAccount
<1>3. ASSUME view.sa[n] # None PROVE mutated \in ServiceAccount /\ mutated.uid = kt.uid
  BY <1>1, <1>3, ViewType, MutatedType DEF MutateServiceAccount, ServiceAccount
<1>4. sa' = [sa EXCEPT ![n] = stored]
  BY DEF CreateOrUpdateServiceAccount
<1> HIDE DEF created, mutated
<1>5. stored = sa[n] \/ (stored # None /\ stored.uid = kt.uid)
  BY <1>2, <1>3, NoneAssumption DEF Stored
<1> HIDE DEF stored
<1> QED
  BY <1>1, <1>4, <1>5 DEF TypeOK

LEMMA ClusterRoleWrite ==
    ASSUME TypeOK, CreateOrUpdateClusterRole
    PROVE  \A r \in ManagedRole : \/ role'[r] = role[r]
                                  \/ r = kt.spec.role /\ role'[r] = kt.uid
  BY DEF TypeOK, CreateOrUpdateClusterRole, Written, Stored

LEMMA BindingWrite ==
    ASSUME TypeOK, CreateOrUpdateClusterRoleBinding
    PROVE  crb' = crb \/ (crb' # None /\ crb'.uid = kt.uid)
<1> DEFINE bound == [role |-> kt.spec.role, sa |-> kt.spec.sa, uid |-> kt.uid]
<1>1. kt \in CR
  BY DEF TypeOK, CreateOrUpdateClusterRoleBinding
<1>2. bound \in ClusterRoleBinding /\ bound.uid = kt.uid
  BY <1>1, ReadTypes DEF ClusterRoleBinding
<1>3. crb' = crb \/ crb' = bound
  BY DEF CreateOrUpdateClusterRoleBinding, Stored
<1> HIDE DEF bound
<1> QED
  BY <1>2, <1>3, NoneAssumption

LEMMA DeploymentWrite ==
    ASSUME TypeOK, CreateOrUpdateDeployment
    PROVE  dep' = dep \/ (dep' # None /\ dep'.uid = kt.uid)
<1> DEFINE template == [sa |-> kt.spec.sa, uid |-> kt.uid]
<1>1. kt \in CR
  BY DEF TypeOK, CreateOrUpdateDeployment
<1>2. template \in Deployment /\ template.uid = kt.uid
  BY <1>1, ReadTypes DEF Deployment
<1>3. dep' = dep \/ dep' = template
  BY DEF CreateOrUpdateDeployment
<1> HIDE DEF template
<1> QED
  BY <1>2, <1>3, NoneAssumption

LEMMA TearUpCustody == ASSUME Inv, PodInv, CustodyInv, TearUp PROVE CustodyInv'
<1> USE DEF GoesOn, BringUpLabel, TearDownLabel, Label
<1>0. TypeOK /\ view' = view /\ used' = used
  BY DEF Inv, TearUp, PatchFinalizer, CreateOrUpdateConfigMap, CreateOrUpdateServiceAccount,
         CreateOrUpdateClusterRole, CreateOrUpdateClusterRoleBinding, DeleteClusterRoleBinding,
         SaveHashBeforeRestart, CreateOrUpdateDeployment, DeleteDeployment,
         UpdateClusterResource
<1>1. CASE PatchFinalizer
  <2>1. UNCHANGED <<cm, crb, role>> /\ GoesOn
    BY <1>1 DEF PatchFinalizer, DoNotRequeue, Requeue, Return
  <2> QED
    BY <1>0, <1>1, <2>1, CrStaysHeld, CustodyStep DEF MadeForCopy
<1>2. CASE CreateOrUpdateConfigMap
  <2>1. UNCHANGED <<cr, crb, role>> /\ GoesOn /\ kt # None
    BY <1>0, <1>2 DEF CreateOrUpdateConfigMap, Proceed, Goto, Requeue, Return, TypeOK
  <2> QED
    BY <1>0, <1>2, <2>1, ConfigMapWrite, CustodyStep DEF MadeForCopy, StaysHeld
<1>3. CASE CreateOrUpdateServiceAccount
  <2>1. UNCHANGED <<cr, cm, crb, role>> /\ GoesOn
    BY <1>3 DEF CreateOrUpdateServiceAccount, Proceed, Goto, Requeue, Return
  <2> QED
    BY <1>0, <2>1, CustodyStep DEF MadeForCopy, StaysHeld
<1>4. CASE CreateOrUpdateClusterRole
  <2>1. UNCHANGED <<cr, cm, crb>> /\ GoesOn /\ kt # None
    BY <1>0, <1>4 DEF CreateOrUpdateClusterRole, Proceed, Goto, Requeue, Return, TypeOK
  <2> QED
    BY <1>0, <1>4, <2>1, ClusterRoleWrite, CustodyStep DEF MadeForCopy, StaysHeld
<1>5. CASE CreateOrUpdateClusterRoleBinding
  <2>1. UNCHANGED <<cr, cm, role>> /\ GoesOn /\ kt # None
    BY <1>0, <1>5 DEF CreateOrUpdateClusterRoleBinding, Proceed, Goto, Requeue, Return, TypeOK
  <2> QED
    BY <1>0, <1>5, <2>1, BindingWrite, CustodyStep DEF MadeForCopy, StaysHeld
<1>6. CASE DeleteClusterRoleBinding
  <2>1. UNCHANGED <<cr, cm, role>> /\ crb' = None /\ GoesOn
    BY <1>6 DEF DeleteClusterRoleBinding, Requeue, Return
  <2> QED
    BY <1>0, <2>1, CustodyStep DEF MadeForCopy, StaysHeld
<1>7. CASE SaveHashBeforeRestart
  <2>1. UNCHANGED <<cm, crb, role>> /\ GoesOn
    BY <1>7 DEF SaveHashBeforeRestart, Goto
  <2> QED
    BY <1>0, <1>7, <2>1, CrStaysHeld, CustodyStep DEF MadeForCopy
<1>8. CASE CreateOrUpdateDeployment
  <2>1. UNCHANGED <<cr, cm, crb, role>> /\ GoesOn
    BY <1>8 DEF CreateOrUpdateDeployment, Proceed, Goto, Requeue, Return
  <2> QED
    BY <1>0, <2>1, CustodyStep DEF MadeForCopy, StaysHeld
<1>9. CASE DeleteDeployment
  <2>1. UNCHANGED <<cr, cm, crb, role>> /\ GoesOn
    BY <1>9 DEF DeleteDeployment, Requeue, Return
  <2> QED
    BY <1>0, <2>1, CustodyStep DEF MadeForCopy, StaysHeld
<1>10. CASE UpdateClusterResource
  <2>1. UNCHANGED <<cm, crb, role>> /\ GoesOn
    BY <1>10 DEF UpdateClusterResource, DoNotRequeue, Return
  <2> QED
    BY <1>0, <1>10, <2>1, CrStaysHeld, CustodyStep DEF MadeForCopy
<1> QED
  BY <1>1, <1>2, <1>3, <1>4, <1>5, <1>6, <1>7, <1>8, <1>9, <1>10 DEF TearUp

LEMMA FailureCustody == ASSUME Inv, PodInv, CustodyInv, Failure PROVE CustodyInv'
<1>1. UNCHANGED <<cr, cm, crb, role>>
  BY DEF Failure, Fault, Crash
<1>2. CASE Fault
  <2>1. view' = view /\ used'.creates = used.creates
    BY <1>2 DEF Inv, TypeOK, Usage, Fault
  <2>2. GoesOn
    BY <1>2 DEF Fault, Goto, Requeue, Return, GoesOn, BringUpLabel, TearDownLabel, Label
  <2> QED
    BY <1>1, <2>1, <2>2, CustodyStep DEF MadeForCopy, StaysHeld
<1>3. CASE Crash
  <2>1. kt' = None /\ pc' = "idle" /\ view'.cr = cr /\ used'.creates = used.creates
    BY <1>3 DEF Inv, TypeOK, Usage, Crash, Current
  <2>2. NoEarlierHolder'
    BY <1>1, <2>1 DEF CustodyInv, NoEarlierHolder, Earlier
  <2> QED
    BY <1>1, <2>1, <2>2 DEF CustodyInv, Numbered, Holds, BringUpLabel
<1> QED
  BY <1>2, <1>3 DEF Failure

LEMMA CustodyInvStep == Inv /\ PodInv /\ CustodyInv /\ [Next]_vars => CustodyInv'
<1> SUFFICES ASSUME Inv, PodInv, CustodyInv, [Next]_vars PROVE CustodyInv'
  OBVIOUS
<1>1. ASSUME NEW k \in Kinds, Sync(k) PROVE CustodyInv'
  BY <1>1, SyncCustody
<1>2. CASE User
  BY <1>2, UserCustody
<1>3. CASE Cluster
  BY <1>3, ClusterCustody
<1>4. CASE Worker
  BY <1>4, GetCustody, TearDownCustody, TearUpCustody DEF Worker
<1>5. CASE Failure
  BY <1>5, FailureCustody
<1>6. CASE UNCHANGED vars
  BY <1>6, CustodyStep DEF vars, StaysHeld, GoesOn, MadeForCopy
<1> QED
  BY <1>1, <1>2, <1>3, <1>4, <1>5, <1>6 DEF Next

LEMMA CustodyInvInit == Init => CustodyInv
  BY DEF Init, Current, CustodyInv, NoEarlierHolder, Numbered, BringUpLabel

-----------------------------------------------------------------------------
(* The operator implements Custody, step by step.                          *)

\* An object keeps its holder in a step that leaves the variable it lives in alone.
LEMMA HolderStays ==
    ASSUME NEW o \in Object,
           o[1] = "cm" => UidOf(cm') = UidOf(cm),
           o[1] = "crb" => UidOf(crb') = UidOf(crb),
           o[1] = "dep" => UidOf(dep') = UidOf(dep),
           \A n \in SAName : o = <<"sa", n>> => UidOf(sa'[n]) = UidOf(sa[n]),
           \A r \in ManagedRole : o = <<"role", r>> => role'[r] = role[r]
    PROVE  Holder(o)' = Holder(o)
<1>1. CASE o[1] = "cm"
  BY <1>1 DEF Holder
<1>2. CASE o[1] = "crb"
  BY <1>2 DEF Holder
<1>3. CASE o[1] = "dep"
  BY <1>3 DEF Holder
<1>4. CASE o[1] = "sa"
  <2>1. o[2] \in SAName /\ o = <<"sa", o[2]>>
    BY <1>4 DEF Object, AccountObject, RoleObject
  <2> QED
    BY <1>4, <2>1 DEF Holder
<1>5. CASE o[1] = "role"
  <2>1. o[2] \in ManagedRole /\ o = <<"role", o[2]>>
    BY <1>5 DEF Object, AccountObject, RoleObject
  <2> QED
    BY <1>5, <2>1 DEF Holder
<1> QED
  BY <1>1, <1>2, <1>3, <1>4, <1>5 DEF Object, AccountObject, RoleObject

LEMMA HolderValues ==
    /\ Holder(<<"cm", None>>) = UidOf(cm)
    /\ Holder(<<"crb", None>>) = UidOf(crb)
    /\ Holder(<<"dep", None>>) = UidOf(dep)
    /\ \A n \in SAName : Holder(<<"sa", n>>) = UidOf(sa[n])
    /\ \A r \in ManagedRole : Holder(<<"role", r>>) = IF role[r] = None THEN 0 ELSE role[r]
  BY DEF Holder

LEMMA NewHolderValues ==
    /\ Holder(<<"cm", None>>)' = UidOf(cm')
    /\ Holder(<<"crb", None>>)' = UidOf(crb')
    /\ Holder(<<"dep", None>>)' = UidOf(dep')
    /\ \A n \in SAName : Holder(<<"sa", n>>)' = UidOf(sa'[n])
    /\ \A r \in ManagedRole :
          Holder(<<"role", r>>)' = IF role'[r] = None THEN 0 ELSE role'[r]
  BY DEF Holder

LEMMA ObjectNames ==
    /\ <<"cm", None>> \in Object \ RoleObject
    /\ <<"crb", None>> \in Object \ RoleObject
    /\ <<"dep", None>> \in Object \ RoleObject
    /\ \A n \in SAName : <<"sa", n>> \in Object \ RoleObject /\ <<"sa", n>> \in AccountObject
    /\ \A r \in ManagedRole : <<"role", r>> \in Object
  BY DEF Object, AccountObject, RoleObject

\* The step changes nothing that Custody sees.
LEMMA StutterImplements ==
    ASSUME used'.creates = used.creates, UidOf(cr') = UidOf(cr),
           \A o \in Object : Holder(o)' = Holder(o)
    PROVE  [Custody!Next]_(Custody!vars)
<1>1. UNCHANGED Custody!vars
  BY DEF Custody!vars, UidOf
<1> QED
  BY <1>1

\* The step makes one object for the CR that is there or takes one away, not a ClusterRole.
LEMMA OneObjectImplements ==
    ASSUME NEW o \in Object,
           used'.creates = used.creates, UidOf(cr') = UidOf(cr),
           \A p \in Object \ {o} : Holder(p)' = Holder(p),
           \/ Holder(o)' = Holder(o)
           \/ Holder(o)' = 0 /\ o \notin RoleObject
           \/ Holder(o)' = UidOf(cr) /\ UidOf(cr) # 0
    PROVE  [Custody!Next]_(Custody!vars)
<1> DEFINE holder == [p \in Object |-> Holder(p)]
<1>1. CASE Holder(o)' = Holder(o)
  BY <1>1, StutterImplements
<1>2. CASE Holder(o)' = 0 /\ o \notin RoleObject
  <2>1. holder' = [holder EXCEPT ![o] = 0]
    BY <1>2
  <2>2. Custody!Lose(o)
    BY <1>2, <2>1 DEF Custody!Lose, UidOf
  <2> QED
    BY <2>2 DEF Custody!Next
<1>3. CASE Holder(o)' = UidOf(cr) /\ UidOf(cr) # 0
  <2>1. holder' = [holder EXCEPT ![o] = UidOf(cr)]
    BY <1>3
  <2>2. Custody!Make(o)
    BY <1>3, <2>1 DEF Custody!Make, UidOf
  <2> QED
    BY <2>2 DEF Custody!Next
<1> QED
  BY <1>1, <1>2, <1>3

\* The step changes the CR only, into another version of it, or removes it.
LEMMA CrImplements ==
    ASSUME used'.creates = used.creates, UNCHANGED <<cm, sa, role, crb, dep>>,
           StaysHeld \/ cr' = None
    PROVE  [Custody!Next]_(Custody!vars)
<1>1. \A o \in Object : Holder(o)' = Holder(o)
  BY HolderStays
<1>2. CASE cr' = None
  <2>1. Custody!Depart
    BY <1>1, <1>2 DEF Custody!Depart, UidOf
  <2> QED
    BY <2>1 DEF Custody!Next
<1>3. CASE cr' # None
  <2>1. UidOf(cr') = UidOf(cr)
    BY <1>3 DEF StaysHeld, UidOf
  <2> QED
    BY <1>1, <2>1, StutterImplements
<1> QED
  BY <1>2, <1>3

LEMMA DropImplements ==
    ASSUME TypeOK,
           DropConfigMap \/ DropDeployment \/ \E n \in SAName : DropServiceAccount(n),
           UNCHANGED <<cr, role, crb>>, used'.creates = used.creates
    PROVE  [Custody!Next]_(Custody!vars)
<1>1. CASE DropConfigMap
  <2> DEFINE o == <<"cm", None>>
  <2>1. Holder(o)' = 0
    BY <1>1, NewHolderValues DEF DropConfigMap, UidOf
  <2>2. \A p \in Object \ {o} : Holder(p)' = Holder(p)
    BY <1>1, HolderStays DEF DropConfigMap, Object, AccountObject, RoleObject
  <2> QED
    BY <2>1, <2>2, ObjectNames, OneObjectImplements
<1>2. CASE DropDeployment
  <2> DEFINE o == <<"dep", None>>
  <2>1. Holder(o)' = 0
    BY <1>2, NewHolderValues DEF DropDeployment, UidOf
  <2>2. \A p \in Object \ {o} : Holder(p)' = Holder(p)
    BY <1>2, HolderStays DEF DropDeployment, Object, AccountObject, RoleObject
  <2> QED
    BY <2>1, <2>2, ObjectNames, OneObjectImplements
<1>3. ASSUME NEW n \in SAName, DropServiceAccount(n) PROVE [Custody!Next]_(Custody!vars)
  <2> DEFINE o == <<"sa", n>>
  <2>1. \A m \in SAName : m # n => sa'[m] = sa[m]
    BY <1>3 DEF TypeOK, DropServiceAccount
  <2>2. UidOf(sa'[n]) = 0 \/ UidOf(sa'[n]) = UidOf(sa[n])
    <3>1. CASE sa[n].finalizer
      <4>1. sa[n] \in ServiceAccount /\ sa[n] # None
        BY <1>3 DEF TypeOK, DropServiceAccount
      <4>2. sa'[n] = [sa[n] EXCEPT !.deleting = TRUE]
        BY <1>3, <3>1 DEF TypeOK, DropServiceAccount
      <4>3. sa'[n] \in ServiceAccount /\ sa'[n].uid = sa[n].uid
        BY <4>1, <4>2 DEF ServiceAccount
      <4> QED
        BY <4>1, <4>3, NoneAssumption DEF UidOf
    <3>2. CASE ~sa[n].finalizer
      BY <1>3, <3>2 DEF TypeOK, DropServiceAccount, UidOf
    <3> QED
      BY <3>1, <3>2
  <2>3. Holder(o)' = 0 \/ Holder(o)' = Holder(o)
    BY <2>2, HolderValues, NewHolderValues
  <2>4. \A p \in Object \ {o} : Holder(p)' = Holder(p)
    <3> SUFFICES ASSUME NEW p \in Object, p # o PROVE Holder(p)' = Holder(p)
      OBVIOUS
    <3>1. UNCHANGED <<cm, dep>>
      BY <1>3 DEF DropServiceAccount
    <3> QED
      BY <2>1, <3>1, HolderStays
  <2> QED
    BY <2>3, <2>4, ObjectNames, OneObjectImplements
<1> QED
  BY <1>1, <1>2, <1>3

LEMMA UserImplements == ASSUME TypeOK, User PROVE [Custody!Next]_(Custody!vars)
<1>1. ASSUME NEW spec \in Specs, NEW f \in CreatedWith, CreateCR(spec, f)
      PROVE  [Custody!Next]_(Custody!vars)
  <2>1. \A o \in Object : Holder(o)' = Holder(o)
    BY <1>1, HolderStays DEF CreateCR
  <2>2. used'.creates = used.creates + 1 /\ used.creates + 1 \in Nat /\ cr = None
    BY <1>1 DEF TypeOK, Usage, CreateCR
  <2>3. cr' = [uid |-> used.creates + 1, rv |-> 1, gen |-> gen, deleting |-> FALSE,
               finalizers |-> f, spec |-> spec, hash |-> None]
    BY <1>1 DEF CreateCR
  <2>4. cr' \in CR
    BY <2>2, <2>3 DEF TypeOK, CR
  <2>5. UidOf(cr') = used.creates + 1 /\ UidOf(cr) = 0
    BY <2>2, <2>3, <2>4, NoneAssumption DEF UidOf
  <2>6. Custody!Arrive
    BY <2>1, <2>2, <2>5 DEF Custody!Arrive, UidOf
  <2> QED
    BY <2>6 DEF Custody!Next
<1>2. CASE DeleteCR \/ \E spec \in Specs : EditCR(spec)
  <2>1. used'.creates = used.creates /\ UNCHANGED <<cm, sa, role, crb, dep>>
    BY <1>2 DEF TypeOK, Usage, DeleteCR, EditCR
  <2> QED
    BY <1>2, <2>1, EditStaysHeld, CrStaysHeld, CrImplements
<1>3. CASE Tamper
  <2>1. used'.creates = used.creates
    BY <1>3 DEF TypeOK, Usage, Tamper
  <2> QED
    BY <1>3, <2>1, DropImplements DEF Tamper
<1> QED
  BY <1>1, <1>2, <1>3 DEF User

LEMMA ClusterImplements == ASSUME TypeOK, Cluster PROVE [Custody!Next]_(Custody!vars)
<1>1. CASE CollectGarbage
  <2>1. DropConfigMap \/ DropDeployment \/ \E n \in SAName : DropServiceAccount(n)
    BY <1>1 DEF CollectGarbage
  <2> QED
    BY <1>1, <2>1, DropImplements DEF CollectGarbage
<1>2. CASE StartPod \/ StopPod
  <2>1. \A o \in Object : Holder(o)' = Holder(o)
    BY <1>2, HolderStays DEF StartPod, StopPod
  <2> QED
    BY <1>2, <2>1, StutterImplements DEF StartPod, StopPod
<1> QED
  BY <1>1, <1>2 DEF Cluster

LEMMA QuietImplements ==
    ASSUME UNCHANGED <<cr, cm, sa, role, crb, dep>>, used'.creates = used.creates
    PROVE  [Custody!Next]_(Custody!vars)
<1>1. \A o \in Object : Holder(o)' = Holder(o)
  BY HolderStays
<1> QED
  BY <1>1, StutterImplements

\* No object bears the UID of a later CR than the worker's.
LEMMA HoldersAreEarlier ==
    ASSUME Inv, PodInv, CustodyInv, kt # None, NEW o \in Object
    PROVE  Holder(o) <= kt.uid
<1>0. kt.uid \in Nat
  BY CopyTypes DEF Inv
<1>1. CASE o = <<"cm", None>>
  BY <1>0, <1>1, HolderValues DEF CustodyInv, NoEarlierHolder, Earlier, UidOf
<1>2. CASE o = <<"crb", None>>
  BY <1>0, <1>2, HolderValues DEF CustodyInv, NoEarlierHolder, Earlier, UidOf
<1>3. CASE o = <<"dep", None>>
  BY <1>0, <1>3, HolderValues DEF PodInv, AllEarlier, Earlier, UidOf
<1>4. ASSUME NEW n \in SAName, o = <<"sa", n>> PROVE Holder(o) <= kt.uid
  BY <1>0, <1>4, HolderValues DEF PodInv, AllEarlier, Earlier, UidOf
<1>5. ASSUME NEW r \in ManagedRole, o = <<"role", r>> PROVE Holder(o) <= kt.uid
  BY <1>0, <1>5, HolderValues DEF CustodyInv, NoEarlierHolder, Earlier
<1> QED
  BY <1>1, <1>2, <1>3, <1>4, <1>5 DEF Object, AccountObject, RoleObject

\* The late teardown: the ServiceAccount it writes bears the UID of a CR that is gone, and
\* nothing bears that of a later one.
LEMMA CleanUpImplements ==
    ASSUME Inv, PodInv, CustodyInv, CleanUpServiceAccount
    PROVE  [Custody!Next]_(Custody!vars)
<1>1. /\ UNCHANGED <<cr, cm, role, crb, dep, used>>
      /\ pc = "cleanUpServiceAccount"
      /\ kt \in CR /\ kt # None /\ kt.uid \in Nat /\ kt.spec.sa \in SAName
  BY CopyTypes, ReadTypes DEF Inv, TypeOK, CleanUpServiceAccount
<1> PICK n \in SAName : n = kt.spec.sa
  BY <1>1
<1> DEFINE o == <<"sa", n>>
           holder == [p \in Object |-> Holder(p)]
           created == MutateServiceAccount(NewServiceAccount(None), FALSE)
           mutated == MutateServiceAccount(view.sa[n], FALSE)
           stored == Stored(view.sa[n], sa[n], created, mutated)
<1>a. sa' = [sa EXCEPT ![n] = Purged(stored)]
  BY DEF CleanUpServiceAccount
<1>2. \A m \in SAName : m # n => sa'[m] = sa[m]
  BY <1>a DEF Inv, TypeOK
<1>3. sa'[n] = Purged(stored)
  BY <1>a DEF Inv, TypeOK
<1>4. stored = sa[n] \/ stored.uid = kt.uid
  <2>1. created.uid = kt.uid
    BY DEF MutateServiceAccount, NewServiceAccount
  <2>2. view.sa[n] # None => mutated.uid = kt.uid
    BY <1>1, AccountTypes DEF Inv, MutateServiceAccount, ServiceAccount
  <2> HIDE DEF created, mutated
  <2> QED
    BY <2>1, <2>2 DEF Stored
<1> HIDE DEF stored
<1>5. UidOf(sa'[n]) \in {0, UidOf(sa[n]), kt.uid}
  BY <1>3, <1>4 DEF Purged, UidOf
<1>6. \A p \in Object \ {o} : Holder(p)' = Holder(p)
  <2> SUFFICES ASSUME NEW p \in Object, p # o PROVE Holder(p)' = Holder(p)
    OBVIOUS
  <2> QED
    BY <1>1, <1>2, HolderStays
<1>7. o \in Object /\ o \notin RoleObject /\ o \in AccountObject
  BY ObjectNames
<1>8. Holder(o) = UidOf(sa[n]) /\ Holder(o)' = UidOf(sa'[n])
  BY HolderValues, NewHolderValues
<1>9. CASE Holder(o)' = 0 \/ Holder(o)' = Holder(o)
  BY <1>1, <1>6, <1>7, <1>9, OneObjectImplements
<1>10. CASE Holder(o)' = kt.uid
  <2>1. kt.uid \in 1..used.creates
    BY <1>1, CopyTypes DEF Inv, RestartInv, Accounted, CustodyInv, Numbered
  <2>2. kt.uid # UidOf(cr)
    BY <1>1 DEF Inv, RoleInv, Removed, TearDownLabel, CustodyInv, Numbered, UidOf
  <2>3. \A p \in Object : holder[p] <= kt.uid
    BY <1>1, HoldersAreEarlier
  <2>4. holder' = [holder EXCEPT ![o] = kt.uid]
    BY <1>6, <1>10
  <2>5. Custody!LeaveBehind(o, kt.uid)
    BY <1>1, <2>2, <2>3, <2>4 DEF Custody!LeaveBehind, UidOf
  <2> QED
    BY <1>7, <2>1, <2>5 DEF Custody!Next
<1> QED
  BY <1>5, <1>8, <1>9, <1>10

\* The ClusterRoles on a stale list are those of earlier CRs, whoever has written them since.
LEMMA CleanUpRolesImplements ==
    ASSUME Inv, PodInv, CustodyInv, CleanUpClusterRole
    PROVE  [Custody!Next]_(Custody!vars)
<1> DEFINE holder == [p \in Object |-> Holder(p)]
<1>1. /\ UNCHANGED <<cr, cm, sa, crb, dep>>
      /\ used'.creates = used.creates
      /\ pc = "cleanUpClusterRole"
      /\ kt # None
  BY DEF Inv, TypeOK, Usage, CleanUpClusterRole
<1>2. PICK done \in SUBSET Listed : role' = [r \in ManagedRole |-> IF r \in done THEN None ELSE role[r]]
  BY DEF CleanUpClusterRole
<1> DEFINE roles == {<<"role", r>> : r \in done}
<1>3. roles \in SUBSET RoleObject /\ done \subseteq ManagedRole
  BY DEF Listed, RoleObject
<1>4. UidOf(cr) # 0 => \A o \in roles : holder[o] # UidOf(cr)
  <2> SUFFICES ASSUME UidOf(cr) # 0, NEW r \in done PROVE holder[<<"role", r>>] # UidOf(cr)
    OBVIOUS
  <2>1. cr # None /\ cr.uid \in Nat /\ kt.uid \in Nat /\ UidOf(cr) = cr.uid
    BY <1>1, CopyTypes DEF Inv, UidOf
  <2>2. kt.uid < cr.uid
    BY <1>1, <2>1 DEF Inv, RoleInv, Removed, TearDownLabel, PodInv, InOrder
  <2>3. r \in ManagedRole /\ <<"role", r>> \in Object
    BY <1>3, ObjectNames
  <2>4. holder[<<"role", r>>] = IF role[r] = None THEN 0 ELSE role[r]
    BY <2>3, HolderValues
  <2>5. role[r] # None => role[r] \in Nat /\ role[r] <= kt.uid
    BY <1>1, <2>3, HolderTypes DEF Inv, CustodyInv, NoEarlierHolder, Earlier
  <2> QED
    BY <2>1, <2>2, <2>4, <2>5
<1>5. holder' = [o \in Object |-> IF o \in roles THEN 0 ELSE holder[o]]
  <2> SUFFICES ASSUME NEW o \in Object
               PROVE  Holder(o)' = IF o \in roles THEN 0 ELSE Holder(o)
    OBVIOUS
  <2>1. CASE o \in roles
    BY <1>2, <1>3, <2>1, NewHolderValues
  <2>2. CASE o \notin roles
    <3>1. \A r \in ManagedRole : o = <<"role", r>> => role'[r] = role[r]
      BY <1>2, <2>2
    <3> QED
      BY <1>1, <2>2, <3>1, HolderStays
  <2> QED
    BY <2>1, <2>2
<1>6. Custody!Retire(roles)
  BY <1>1, <1>4, <1>5 DEF Custody!Retire, UidOf
<1> QED
  BY <1>3, <1>6 DEF Custody!Next

LEMMA TearDownImplements ==
    ASSUME Inv, PodInv, CustodyInv, TearDown
    PROVE  [Custody!Next]_(Custody!vars)
<1>1. CASE RemoveFinalizer
  <2>1. cr' = None \/ StaysHeld
    BY <1>1 DEF RemoveFinalizer, StaysHeld
  <2> QED
    BY <1>1, <2>1, CrImplements DEF RemoveFinalizer
<1>2. CASE WaitForPodDeletion
  BY <1>2, QuietImplements DEF WaitForPodDeletion
<1>3. CASE CleanUpServiceAccount
  BY <1>3, CleanUpImplements
<1>4. CASE CleanUpClusterRole
  BY <1>4, CleanUpRolesImplements
<1>5. CASE CleanUpClusterRolebinding
  <2> DEFINE o == <<"crb", None>>
  <2>1. UNCHANGED <<cr, cm, sa, role, dep, used>> /\ (crb' = crb \/ crb' = None)
    BY <1>5 DEF CleanUpClusterRolebinding
  <2>2. \A p \in Object \ {o} : Holder(p)' = Holder(p)
    BY <2>1, HolderStays DEF Object, AccountObject, RoleObject
  <2>3. Holder(o)' = Holder(o) \/ Holder(o)' = 0
    BY <2>1, HolderValues, NewHolderValues DEF UidOf
  <2> QED
    BY <2>1, <2>2, <2>3, ObjectNames, OneObjectImplements
<1> QED
  BY <1>1, <1>2, <1>3, <1>4, <1>5 DEF TearDown

\* What a call of the upward path writes, it writes for the CR that is there.
LEMMA TearUpImplements ==
    ASSUME Inv, PodInv, CustodyInv, TearUp
    PROVE  [Custody!Next]_(Custody!vars)
<1>0. TypeOK
  BY DEF Inv
<1>1. CASE PatchFinalizer \/ SaveHashBeforeRestart \/ UpdateClusterResource
  <2>1. StaysHeld
    BY <1>0, <1>1, CrStaysHeld
  <2> QED
    BY <1>1, <2>1, CrImplements DEF PatchFinalizer, SaveHashBeforeRestart, UpdateClusterResource
<1>2. ASSUME pc \in BringUpLabel PROVE kt.uid = UidOf(cr) /\ UidOf(cr) # 0
  BY <1>2 DEF CustodyInv, Holds, Numbered, UidOf
<1>3. CASE CreateOrUpdateConfigMap
  <2> DEFINE o == <<"cm", None>>
  <2>1. UNCHANGED <<cr, sa, role, crb, dep, used>> /\ pc \in BringUpLabel
    BY <1>3 DEF CreateOrUpdateConfigMap, BringUpLabel, TearDownLabel, Label
  <2>2. \A p \in Object \ {o} : Holder(p)' = Holder(p)
    BY <2>1, HolderStays DEF Object, AccountObject, RoleObject
  <2>3. Holder(o)' = Holder(o) \/ Holder(o)' = UidOf(cr)
    BY <1>0, <1>2, <1>3, <2>1, ConfigMapWrite, HolderValues, NewHolderValues DEF UidOf
  <2> QED
    BY <1>2, <2>1, <2>2, <2>3, ObjectNames, OneObjectImplements
<1>4. CASE CreateOrUpdateServiceAccount
  <2>1. /\ UNCHANGED <<cr, cm, role, crb, dep, used>>
        /\ pc \in BringUpLabel
        /\ kt.spec.sa \in SAName
    BY <1>0, <1>4, ReadTypes
       DEF CreateOrUpdateServiceAccount, BringUpLabel, TearDownLabel, Label, TypeOK
  <2> PICK n \in SAName : n = kt.spec.sa
    BY <2>1
  <2> DEFINE o == <<"sa", n>>
  <2>2. \A m \in SAName : m # n => sa'[m] = sa[m]
    BY <1>0, <1>4, ServiceAccountWrite
  <2>3. \A p \in Object \ {o} : Holder(p)' = Holder(p)
    <3> SUFFICES ASSUME NEW p \in Object, p # o PROVE Holder(p)' = Holder(p)
      OBVIOUS
    <3> QED
      BY <2>1, <2>2, HolderStays
  <2>4. UidOf(sa'[n]) = UidOf(sa[n]) \/ UidOf(sa'[n]) = kt.uid
    BY <1>0, <1>4, ServiceAccountWrite DEF UidOf
  <2>5. Holder(o)' = Holder(o) \/ Holder(o)' = UidOf(cr)
    BY <1>2, <2>1, <2>4, HolderValues, NewHolderValues
  <2> QED
    BY <1>2, <2>1, <2>3, <2>5, ObjectNames, OneObjectImplements
<1>5. CASE CreateOrUpdateClusterRole
  <2>1. UNCHANGED <<cr, cm, sa, crb, dep, used>> /\ pc \in BringUpLabel
    BY <1>5 DEF CreateOrUpdateClusterRole, BringUpLabel, TearDownLabel, Label
  <2>2. CASE role' = role
    BY <2>1, <2>2, QuietImplements
  <2>3. CASE role' # role
    <3>1. kt.spec.role \in ManagedRole
      BY <1>5, <2>3 DEF CreateOrUpdateClusterRole, Written
    <3> PICK r \in ManagedRole : r = kt.spec.role
      BY <3>1
    <3> DEFINE o == <<"role", r>>
    <3>2. \A q \in ManagedRole : q # r => role'[q] = role[q]
      BY <1>0, <1>5, ClusterRoleWrite
    <3>3. \A p \in Object \ {o} : Holder(p)' = Holder(p)
      <4> SUFFICES ASSUME NEW p \in Object, p # o PROVE Holder(p)' = Holder(p)
        OBVIOUS
      <4> QED
        BY <2>1, <3>2, HolderStays
    <3>4. role'[r] = role[r] \/ role'[r] = UidOf(cr)
      BY <1>0, <1>2, <1>5, <2>1, ClusterRoleWrite
    <3>5. UidOf(cr) # None
      BY <1>0, CopyTypes DEF UidOf
    <3>6. Holder(o)' = Holder(o) \/ Holder(o)' = UidOf(cr)
      BY <3>4, <3>5, HolderValues, NewHolderValues
    <3> QED
      BY <1>2, <2>1, <3>3, <3>6, ObjectNames, OneObjectImplements
  <2> QED
    BY <2>2, <2>3
<1>6. CASE CreateOrUpdateClusterRoleBinding \/ DeleteClusterRoleBinding
  <2> DEFINE o == <<"crb", None>>
  <2>1. UNCHANGED <<cr, cm, sa, role, dep, used>> /\ pc \in BringUpLabel
    BY <1>6 DEF CreateOrUpdateClusterRoleBinding, DeleteClusterRoleBinding, BringUpLabel,
                TearDownLabel, Label
  <2>2. \A p \in Object \ {o} : Holder(p)' = Holder(p)
    BY <2>1, HolderStays DEF Object, AccountObject, RoleObject
  <2>3. Holder(o)' = Holder(o) \/ Holder(o)' = UidOf(cr) \/ Holder(o)' = 0
    BY <1>0, <1>2, <1>6, <2>1, BindingWrite, HolderValues, NewHolderValues
       DEF DeleteClusterRoleBinding, UidOf
  <2> QED
    BY <1>2, <2>1, <2>2, <2>3, ObjectNames, OneObjectImplements
<1>7. CASE CreateOrUpdateDeployment \/ DeleteDeployment
  <2> DEFINE o == <<"dep", None>>
  <2>1. UNCHANGED <<cr, cm, sa, role, crb, used>> /\ pc \in BringUpLabel
    BY <1>7 DEF CreateOrUpdateDeployment, DeleteDeployment, BringUpLabel, TearDownLabel, Label
  <2>2. \A p \in Object \ {o} : Holder(p)' = Holder(p)
    BY <2>1, HolderStays DEF Object, AccountObject, RoleObject
  <2>3. Holder(o)' = Holder(o) \/ Holder(o)' = UidOf(cr) \/ Holder(o)' = 0
    BY <1>0, <1>2, <1>7, <2>1, DeploymentWrite, HolderValues, NewHolderValues
       DEF DeleteDeployment, UidOf
  <2> QED
    BY <1>2, <2>1, <2>2, <2>3, ObjectNames, OneObjectImplements
<1> QED
  BY <1>1, <1>3, <1>4, <1>5, <1>6, <1>7 DEF TearUp

LEMMA InitImplements == Init => Custody!Init
<1> SUFFICES ASSUME Init PROVE Custody!Init
  OBVIOUS
<1>1. used.creates = 0 /\ UidOf(cr) = 0
  BY DEF Init, UidOf
<1>2. ASSUME NEW o \in Object PROVE Holder(o) = 0
  BY <1>2 DEF Init, Holder, UidOf, Object, AccountObject, RoleObject
<1> QED
  BY <1>1, <1>2 DEF Custody!Init

\* With any number of CRs, users' edits, faults and crashes, and with every cache lagging, the
\* operator makes objects for the CR that is there only, takes no ClusterRole from it, and leaves
\* behind no more than ServiceAccounts of a CR whose successor has nothing yet.
THEOREM OperatorImplementsCustody == Spec => ImplementsCustody
<1>1. Inv /\ PodInv /\ CustodyInv /\ [Next]_vars => [Custody!Next]_(Custody!vars)
  <2> SUFFICES ASSUME Inv, PodInv, CustodyInv, [Next]_vars
               PROVE  [Custody!Next]_(Custody!vars)
    OBVIOUS
  <2>1. ASSUME NEW k \in Kinds, Sync(k) PROVE [Custody!Next]_(Custody!vars)
    BY <2>1, QuietImplements DEF Sync
  <2>2. CASE User
    BY <2>2, UserImplements DEF Inv
  <2>3. CASE Cluster
    BY <2>3, ClusterImplements DEF Inv
  <2>4. CASE Get
    BY <2>4, QuietImplements DEF Get
  <2>5. CASE TearDown \/ TearUp
    BY <2>5, TearDownImplements, TearUpImplements
  <2>6. CASE Failure
    <3>1. used'.creates = used.creates
      BY <2>6 DEF Failure, Fault, Crash, Inv, TypeOK, Usage
    <3> QED
      BY <2>6, <3>1, QuietImplements DEF Failure, Fault, Crash
  <2>7. CASE UNCHANGED vars
    BY <2>7, QuietImplements DEF vars
  <2> QED
    BY <2>1, <2>2, <2>3, <2>4, <2>5, <2>6, <2>7 DEF Next, Worker
<1> QED
  BY InvInit, InvStep, PodInit, PodStep, CustodyInvInit, CustodyInvStep, InitImplements, <1>1,
     PTL DEF Spec, ImplementsCustody, Custody!Spec
=============================================================================
