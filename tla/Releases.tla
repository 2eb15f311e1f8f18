------------------------------ MODULE Releases ------------------------------
(***************************************************************************)
(* Several Kubeturbo CRs in a cluster, here called releases, each served by *)
(* the operator of its namespace.  Their ServiceAccounts, ClusterRoles and  *)
(* ClusterRoleBindings bear names made from the fields of the CR, and two   *)
(* releases may come to share one.                                          *)
(*                                                                          *)
(* A name is the sequence of its words between dashes, so that joining two  *)
(* names with a dash is \o.  Specs are not edited and caches do not lag     *)
(* here; KubeturboOperator has one release with both.                       *)
(*                                                                          *)
(* An operator Mutant... is the definition of the rest of its name with a   *)
(* plausible mistake; the runs show that the properties detect it.          *)
(***************************************************************************)
EXTENDS Sequences

CONSTANTS
    None,     \* an absent object
    Word,     \* the words of names
    Release   \* the CRs: their names, and the spec fields that name objects

Name == Seq(Word)

ASSUME ConstantsAssumption ==
    /\ Release \subseteq [name: Name, namespace: Name, role: Name, binding: Name, account: Name]
    /\ \A r, s \in Release : r.name = s.name /\ r.namespace = s.namespace => r = s

ClusterRoleName(r) == r.role \o r.name \o r.namespace

ClusterRoleBindingName(r) == r.binding \o r.name \o r.namespace

\* A ServiceAccount is an object of its namespace.
ServiceAccount(r) == <<r.namespace, r.account>>

Namespaces == {r.namespace : r \in Release}
ClusterRoles == {ClusterRoleName(r) : r \in Release}
ClusterRoleBindings == {ClusterRoleBindingName(r) : r \in Release}
ServiceAccounts == {ServiceAccount(r) : r \in Release}

VARIABLES
    phase,     \* of each CR: it may still be created, exists, is being deleted, is gone
    finalizer, \* whether the CR has the operator's finalizer
    sa, role, crb,   \* the objects by their names; label is the release they were last written for
    pc, kt,    \* of the operator of each namespace: the next call, and the release it is for
    queued     \* the releases in the operators' work queues

vars == <<phase, finalizer, sa, role, crb, pc, kt, queued>>
objects == <<sa, role, crb>>
crs == <<phase, finalizer>>

Account == [owner: Release \cup {None}, label: Release, finalizer: BOOLEAN, deleting: BOOLEAN]
Binding == [label: Release, role: ClusterRoles, account: ServiceAccounts]
Label == {"idle", "updateCR", "cleanUpServiceAccount", "cleanUpClusterRole",
          "cleanUpClusterRolebinding", "patchCR", "serviceAccount", "clusterRole",
          "clusterRoleBinding"}

ASSUME NoneAssumption == None \notin Release \cup Account \cup Binding

TypeOK ==
    /\ phase \in [Release -> {"unborn", "live", "deleting", "gone"}]
    /\ finalizer \in [Release -> BOOLEAN]
    /\ sa \in [ServiceAccounts -> Account \cup {None}]
    /\ role \in [ClusterRoles -> Release \cup {None}]
    /\ crb \in [ClusterRoleBindings -> Binding \cup {None}]
    /\ pc \in [Namespaces -> Label]
    /\ kt \in [Namespaces -> Release \cup {None}]
    /\ \A n \in Namespaces : kt[n] = None <=> pc[n] = "idle"
    /\ queued \subseteq Release

Init ==
    /\ phase = [r \in Release |-> "unborn"]
    /\ finalizer = [r \in Release |-> FALSE]
    /\ sa = [n \in ServiceAccounts |-> None]
    /\ role = [n \in ClusterRoles |-> None]
    /\ crb = [n \in ClusterRoleBindings |-> None]
    /\ pc = [n \in Namespaces |-> "idle"]
    /\ kt = [n \in Namespaces |-> None]
    /\ queued = {}

-----------------------------------------------------------------------------
(* The outside of the operators                                             *)

CreateCR(r) ==
    /\ phase[r] = "unborn"
    /\ phase' = [phase EXCEPT ![r] = "live"]
    /\ queued' = queued \cup {r}
    /\ UNCHANGED <<finalizer, objects, pc, kt>>

DeleteCR(r) ==
    /\ phase[r] = "live"
    /\ phase' = [phase EXCEPT ![r] = IF finalizer[r] THEN "deleting" ELSE "gone"]
    /\ queued' = queued \cup {r}
    /\ UNCHANGED <<finalizer, objects, pc, kt>>

\* The garbage collector deletes what the release named as its owner has left behind; a
\* finalizer keeps the object.
CollectGarbage(n) ==
    /\ sa[n] # None
    /\ ~sa[n].deleting
    /\ sa[n].owner # None
    /\ phase[sa[n].owner] = "gone"
    /\ sa' = [sa EXCEPT ![n] = IF sa[n].finalizer THEN [sa[n] EXCEPT !.deleting = TRUE] ELSE None]
    /\ UNCHANGED <<crs, role, crb, pc, kt, queued>>

Exists(r) == phase[r] \in {"live", "deleting"}

\* Every few hours the informers hand all CRs to the operators again.
Resync ==
    /\ queued' = queued \cup {r \in Release : Exists(r)}
    /\ queued' # queued
    /\ UNCHANGED <<crs, objects, pc, kt>>

-----------------------------------------------------------------------------
(* The operator of namespace n                                              *)

Goto(n, label) ==
    /\ pc' = [pc EXCEPT ![n] = label]
    /\ UNCHANGED <<kt, queued>>

MutantReturn(n, requeue) ==
    /\ pc' = [pc EXCEPT ![n] = "idle"]
    /\ queued' = IF requeue THEN queued \cup {kt[n]} ELSE queued
    /\ UNCHANGED kt

Return(n, requeue) ==
    /\ pc' = [pc EXCEPT ![n] = "idle"]
    /\ kt' = [kt EXCEPT ![n] = None]
    /\ queued' = IF requeue THEN queued \cup {kt[n]} ELSE queued

MutantGet(n, r) ==
    /\ pc[n] = "idle"
    /\ r \in queued
    /\ r.namespace = n
    /\ queued' = queued \ {r}
    /\ IF ~Exists(r)
       THEN UNCHANGED <<pc, kt>>
       ELSE /\ kt' = [kt EXCEPT ![n] = r]
            /\ pc' = [pc EXCEPT ![n] = IF phase[r] = "deleting" THEN "updateCR" ELSE "serviceAccount"]
    /\ UNCHANGED <<crs, objects>>

Get(n, r) ==
    /\ pc[n] = "idle"
    /\ r \in queued
    /\ r.namespace = n
    /\ queued' = queued \ {r}
    /\ IF ~Exists(r)
       THEN UNCHANGED <<pc, kt>>
       ELSE /\ kt' = [kt EXCEPT ![n] = r]
            /\ pc' = [pc EXCEPT ![n] = IF phase[r] = "deleting" THEN "updateCR"
                                       ELSE IF finalizer[r] THEN "serviceAccount"
                                       ELSE "patchCR"]
    /\ UNCHANGED <<crs, objects>>

\* Nothing but the status of a CR that is being deleted changes, so the update succeeds.
UpdateCR(n) ==
    /\ pc[n] = "updateCR"
    /\ phase' = [phase EXCEPT ![kt[n]] = "gone"]
    /\ finalizer' = [finalizer EXCEPT ![kt[n]] = FALSE]
    /\ Goto(n, "cleanUpServiceAccount")
    /\ UNCHANGED objects

\* A ServiceAccount in deletion goes when its finalizer goes.
Stored(account) ==
    IF account.deleting /\ ~account.finalizer THEN None ELSE account

\* A write of an owned ServiceAccount queues its owner, and nobody else.
Event(account) ==
    IF account # None /\ account.owner # None THEN {account.owner} ELSE {}

\* CreateOrUpdate: the owner reference given before the call is lost when the object exists.
WriteServiceAccount(n, owner, addFinalizer) ==
    LET account == ServiceAccount(kt[n])
        written == IF sa[account] = None
                   THEN [owner |-> owner, label |-> kt[n], finalizer |-> addFinalizer,
                         deleting |-> FALSE]
                   ELSE [sa[account] EXCEPT !.label = kt[n], !.finalizer = addFinalizer]
    IN  /\ sa' = [sa EXCEPT ![account] = Stored(written)]
        /\ queued' = IF sa[account] = written THEN queued ELSE queued \cup Event(written)

CleanUpServiceAccount(n) ==
    /\ pc[n] = "cleanUpServiceAccount"
    /\ WriteServiceAccount(n, None, FALSE)
    /\ pc' = [pc EXCEPT ![n] = "cleanUpClusterRole"]
    /\ UNCHANGED <<crs, role, crb, kt>>

MutantListedRoles(r) == {n \in ClusterRoles : role[n] # None}

\* The instance label, made of the name and the UID of the CR, selects what is deleted.
ListedRoles(r) == {n \in ClusterRoles : role[n] = r}

ListedBindings(r) == {n \in ClusterRoleBindings : crb[n] # None /\ crb[n].label = r}

CleanUpClusterRole(n) ==
    /\ pc[n] = "cleanUpClusterRole"
    /\ role' = [m \in ClusterRoles |-> IF m \in ListedRoles(kt[n]) THEN None ELSE role[m]]
    /\ Goto(n, "cleanUpClusterRolebinding")
    /\ UNCHANGED <<crs, sa, crb>>

CleanUpClusterRolebinding(n) ==
    /\ pc[n] = "cleanUpClusterRolebinding"
    /\ crb' = [m \in ClusterRoleBindings |-> IF m \in ListedBindings(kt[n]) THEN None ELSE crb[m]]
    /\ Return(n, FALSE)
    /\ UNCHANGED <<crs, sa, role>>

\* The changed CR comes back through the work queue.
PatchFinalizer(n) ==
    /\ pc[n] = "patchCR"
    /\ IF phase[kt[n]] = "live"
       THEN /\ finalizer' = [finalizer EXCEPT ![kt[n]] = TRUE]
            /\ Return(n, TRUE)
       ELSE /\ Return(n, FALSE)
            /\ UNCHANGED finalizer
    /\ UNCHANGED <<phase, objects>>

CreateOrUpdateServiceAccount(n) ==
    /\ pc[n] = "serviceAccount"
    /\ WriteServiceAccount(n, kt[n], TRUE)
    /\ pc' = [pc EXCEPT ![n] = "clusterRole"]
    /\ UNCHANGED <<crs, role, crb, kt>>

CreateOrUpdateClusterRole(n) ==
    /\ pc[n] = "clusterRole"
    /\ role' = [role EXCEPT ![ClusterRoleName(kt[n])] = kt[n]]
    /\ Goto(n, "clusterRoleBinding")
    /\ UNCHANGED <<crs, sa, crb>>

MutantCreateOrUpdateClusterRoleBinding(n) ==
    LET r == kt[n]
        b == ClusterRoleBindingName(r)
        rebound == crb[b] # None
    IN  /\ pc[n] = "clusterRoleBinding"
        /\ crb' = [crb EXCEPT ![b] =
                      IF rebound THEN None
                      ELSE [label |-> r, role |-> ClusterRoleName(r), account |-> ServiceAccount(r)]]
        /\ Return(n, rebound)
        /\ UNCHANGED <<crs, sa, role>>

\* A binding to another role is deleted, and made by a later cycle.
CreateOrUpdateClusterRoleBinding(n) ==
    LET r == kt[n]
        b == ClusterRoleBindingName(r)
        rebound == crb[b] # None /\ crb[b].role # ClusterRoleName(r)
    IN  /\ pc[n] = "clusterRoleBinding"
        /\ crb' = [crb EXCEPT ![b] =
                      IF rebound THEN None
                      ELSE [label |-> r, role |-> ClusterRoleName(r), account |-> ServiceAccount(r)]]
        /\ Return(n, rebound)
        /\ UNCHANGED <<crs, sa, role>>

-----------------------------------------------------------------------------
Operator(n) ==
    \/ \E r \in Release : Get(n, r)
    \/ UpdateCR(n)
    \/ CleanUpServiceAccount(n)
    \/ CleanUpClusterRole(n)
    \/ CleanUpClusterRolebinding(n)
    \/ PatchFinalizer(n)
    \/ CreateOrUpdateServiceAccount(n)
    \/ CreateOrUpdateClusterRole(n)
    \/ CreateOrUpdateClusterRoleBinding(n)

Next ==
    \/ \E r \in Release : CreateCR(r) \/ DeleteCR(r)
    \/ \E n \in ServiceAccounts : CollectGarbage(n)
    \/ Resync
    \/ \E n \in Namespaces : Operator(n)

Spec == Init /\ [][Next]_vars

\* The operators, the garbage collector and the informers' resync never stop, and a work
\* queue hands out every release in turn.
Fairness ==
    /\ \A n \in Namespaces : WF_vars(Operator(n)) /\ \A r \in Release : SF_vars(Get(n, r))
    /\ \A n \in ServiceAccounts : WF_vars(CollectGarbage(n))
    /\ WF_vars(Resync)

FairSpec == Spec /\ Fairness

-----------------------------------------------------------------------------
(* Properties                                                               *)

\* What the pod of a release needs: its account, its role, and the role bound to the account.
HasAccount(r) == sa[ServiceAccount(r)] # None
HasRole(r) == role[ClusterRoleName(r)] # None
HasBinding(r) ==
    LET b == ClusterRoleBindingName(r)
    IN  /\ crb[b] # None
        /\ crb[b].role = ClusterRoleName(r)
        /\ crb[b].account = ServiceAccount(r)

Served(r) == HasAccount(r) /\ HasRole(r) /\ HasBinding(r)

\* No other release gives that name to an object.
OwnAccount(r) == \A s \in Release \ {r} : ServiceAccount(s) # ServiceAccount(r)
OwnRole(r) == \A s \in Release \ {r} : ClusterRoleName(s) # ClusterRoleName(r)
OwnBinding(r) == \A s \in Release \ {r} : ClusterRoleBindingName(s) # ClusterRoleBindingName(r)

Live(r) == phase[r] = "live"

\* No step, of any operator or of the garbage collector, takes from a release in use an object
\* that no other release shares: the teardown of one, which goes by labels and owners, leaves
\* all others alone (reconciler.go, lines 750-797).
ObjectsKept ==
    [][\A r \in Release : Live(r) /\ Live(r)' =>
          /\ OwnAccount(r) /\ HasAccount(r) => HasAccount(r)'
          /\ OwnRole(r) /\ HasRole(r) => HasRole(r)'
          /\ OwnBinding(r) /\ HasBinding(r) => HasBinding(r)']_vars

\* Every release in use is served in the end, and for good, whatever happens to the others:
\* also when the ServiceAccount that it shares with them goes with its first owner. ClusterRoles
\* and bindings that are shared are another matter: two operators write over each other's.
AllServed == \A r \in Release : OwnRole(r) /\ OwnBinding(r) => <>[](Live(r) => Served(r))

AllGone == \A r \in Release : phase[r] = "gone"

\* When the last release is gone, no ClusterRole and no ClusterRoleBinding of any is left.
ClusterIsClean ==
    AllGone ~> /\ \A n \in ClusterRoles : role[n] = None
               /\ \A n \in ClusterRoleBindings : crb[n] = None
=============================================================================
