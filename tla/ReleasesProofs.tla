--------------------------- MODULE ReleasesProofs ---------------------------
(***************************************************************************)
(* A release in use keeps every object whose name no other release gives to *)
(* one, however many they are and however their operators interleave.       *)
(***************************************************************************)
EXTENDS Releases, TLAPS

TearDown == {"cleanUpServiceAccount", "cleanUpClusterRole", "cleanUpClusterRolebinding"}

\* Every object was last written for a release that names it so, and owned by one.
Labelled ==
    /\ \A n \in ServiceAccounts :
          sa[n] # None /\ sa[n].owner # None => ServiceAccount(sa[n].owner) = n
    /\ \A n \in ClusterRoles : role[n] # None => ClusterRoleName(role[n]) = n
    /\ \A n \in ClusterRoleBindings :
          crb[n] # None => ClusterRoleBindingName(crb[n].label) = n

\* An operator works for its own namespace, and tears down only what is gone.
Torn ==
    \A n \in Namespaces : /\ pc[n] = "updateCR" => phase[kt[n]] = "deleting"
                          /\ pc[n] \in TearDown => phase[kt[n]] = "gone"
                          /\ kt[n] # None => kt[n].namespace = n

Inv == TypeOK /\ Labelled /\ Torn

LEMMA NameTypes ==
    \A r \in Release : /\ ClusterRoleName(r) \in ClusterRoles
                       /\ ClusterRoleBindingName(r) \in ClusterRoleBindings
                       /\ ServiceAccount(r) \in ServiceAccounts
                       /\ r.namespace \in Namespaces
  BY DEF ClusterRoles, ClusterRoleBindings, ServiceAccounts, Namespaces

LEMMA NoneIsNothing ==
    None \notin Release /\ None \notin Account /\ None \notin Binding
  BY NoneAssumption

LEMMA Init_Inv == Init => Inv
  BY NoneIsNothing DEF Init, Inv, TypeOK, Labelled, Torn, Label, TearDown

\* The release that an operator works on.
LEMMA Working ==
    ASSUME TypeOK, NEW n \in Namespaces, pc[n] # "idle"
    PROVE  kt[n] \in Release
  BY DEF TypeOK

LEMMA GotoStep ==
    ASSUME TypeOK, NEW n \in Namespaces, NEW label \in Label \ {"idle"}, pc[n] # "idle",
           pc' = [pc EXCEPT ![n] = label], kt' = kt
    PROVE  /\ pc' \in [Namespaces -> Label]
           /\ kt' \in [Namespaces -> Release \cup {None}]
           /\ \A m \in Namespaces : kt'[m] = None <=> pc'[m] = "idle"
  BY DEF TypeOK, Label

LEMMA ReturnStep ==
    ASSUME TypeOK, NEW n \in Namespaces, NEW requeue \in BOOLEAN, pc[n] # "idle",
           Return(n, requeue)
    PROVE  /\ pc' \in [Namespaces -> Label]
           /\ kt' \in [Namespaces -> Release \cup {None}]
           /\ \A m \in Namespaces : kt'[m] = None <=> pc'[m] = "idle"
           /\ queued' \subseteq Release
           /\ \A m \in Namespaces : m # n => pc'[m] = pc[m] /\ kt'[m] = kt[m]
           /\ pc'[n] = "idle"
  BY Working DEF TypeOK, Label, Return

-----------------------------------------------------------------------------
(* The invariant, one lemma per group of steps                              *)

LEMMA OutsideStep ==
    ASSUME Inv, \/ \E r \in Release : CreateCR(r) \/ DeleteCR(r)
                \/ \E n \in ServiceAccounts : CollectGarbage(n)
                \/ Resync
    PROVE  Inv'
<1> USE NoneIsNothing DEF Inv, TypeOK, Labelled, Torn, objects, crs
<1>1. ASSUME NEW r \in Release, CreateCR(r) PROVE Inv'
  BY <1>1 DEF CreateCR, TearDown
<1>2. ASSUME NEW r \in Release, DeleteCR(r) PROVE Inv'
  BY <1>2 DEF DeleteCR, TearDown
<1>3. ASSUME NEW n \in ServiceAccounts, CollectGarbage(n) PROVE Inv'
  <2>1. sa[n] \in Account /\ sa[n] # None
    BY <1>3 DEF CollectGarbage
  <2>2. /\ [sa[n] EXCEPT !.deleting = TRUE] \in Account
        /\ [sa[n] EXCEPT !.deleting = TRUE].owner = sa[n].owner
    BY <2>1 DEF Account
  <2>3. /\ sa' \in [ServiceAccounts -> Account \cup {None}]
        /\ \A m \in ServiceAccounts :
              sa'[m] # None /\ sa'[m].owner # None => ServiceAccount(sa'[m].owner) = m
    BY <1>3, <2>1, <2>2 DEF CollectGarbage
  <2> QED
    BY <1>3, <2>3 DEF CollectGarbage, TearDown
<1>4. CASE Resync
  BY <1>4 DEF Resync, Exists
<1> QED
  BY <1>1, <1>2, <1>3, <1>4

LEMMA GetStep == ASSUME Inv, NEW n \in Namespaces, NEW r \in Release, Get(n, r) PROVE Inv'
<1> USE NoneIsNothing DEF Inv, TypeOK, Labelled, Torn, objects, crs
<1>1. CASE ~Exists(r)
  BY <1>1 DEF Get
<1>2. CASE Exists(r)
  <2>1. /\ pc' \in [Namespaces -> Label]
        /\ kt' = [kt EXCEPT ![n] = r] /\ r.namespace = n
        /\ pc'[n] \in {"updateCR", "serviceAccount", "patchCR"}
        /\ pc'[n] = "updateCR" => phase[r] = "deleting"
        /\ \A m \in Namespaces : m # n => pc'[m] = pc[m]
    BY <1>2 DEF Get, Label
  <2>2. queued' \subseteq Release /\ UNCHANGED <<crs, objects>>
    BY DEF Get
  <2> QED
    BY <2>1, <2>2 DEF TearDown
<1> QED
  BY <1>1, <1>2

\* A ServiceAccount is written with an owner that uses it, if it has one.
LEMMA WriteStep ==
    ASSUME Inv, NEW n \in Namespaces, NEW owner \in {kt[n], None}, NEW add \in BOOLEAN,
           pc[n] # "idle", WriteServiceAccount(n, owner, add)
    PROVE  /\ sa' \in [ServiceAccounts -> Account \cup {None}]
           /\ queued' \subseteq Release
           /\ \A m \in ServiceAccounts :
                 sa'[m] # None /\ sa'[m].owner # None => ServiceAccount(sa'[m].owner) = m
           /\ \A m \in ServiceAccounts : m # ServiceAccount(kt[n]) => sa'[m] = sa[m]
           /\ add => sa'[ServiceAccount(kt[n])] # None
<1> DEFINE a == ServiceAccount(kt[n])
           written == IF sa[a] = None
                      THEN [owner |-> owner, label |-> kt[n], finalizer |-> add, deleting |-> FALSE]
                      ELSE [sa[a] EXCEPT !.label = kt[n], !.finalizer = add]
<1> USE NoneIsNothing DEF Inv, TypeOK, Labelled
<1>1. kt[n] \in Release /\ a \in ServiceAccounts
  BY Working, NameTypes
<1>2. /\ written \in Account
      /\ written.finalizer = add
      /\ written.owner # None => ServiceAccount(written.owner) = a
  <2>1. CASE sa[a] = None
    BY <1>1, <2>1 DEF Account
  <2>2. CASE sa[a] # None
    <3>1. sa[a] \in Account
      BY <1>1, <2>2
    <3>2. sa[a].owner # None => ServiceAccount(sa[a].owner) = a
      BY <1>1, <2>2
    <3> HIDE DEF a
    <3>3. written = [sa[a] EXCEPT !.label = kt[n], !.finalizer = add]
      BY <2>2
    <3>4. /\ written \in Account
          /\ written.finalizer = add
          /\ written.owner = sa[a].owner
      BY <1>1, <3>1, <3>3 DEF Account
    <3> QED
      BY <3>2, <3>4
  <2> QED
    BY <2>1, <2>2
<1>3. sa' = [sa EXCEPT ![a] = Stored(written)]
  BY DEF WriteServiceAccount
<1>4. queued' \subseteq queued \cup Event(written)
  BY DEF WriteServiceAccount
<1> HIDE DEF a, written
<1>5. Stored(written) \in {written, None} /\ (add => Stored(written) = written)
  BY <1>2 DEF Stored
<1>6. Event(written) \subseteq Release
  BY <1>2 DEF Event, Account
<1>7. written # None
  BY <1>2
<1> QED
  BY <1>1, <1>2, <1>3, <1>4, <1>5, <1>6, <1>7 DEF a

\* The account of a release in use is only ever written with the finalizer on it.
LEMMA ServiceAccountStep ==
    ASSUME Inv, NEW n \in Namespaces, CleanUpServiceAccount(n) \/ CreateOrUpdateServiceAccount(n)
    PROVE  Inv'
<1> USE NoneIsNothing DEF Inv, TypeOK, Labelled, Torn, crs
<1>1. CASE CleanUpServiceAccount(n)
  <2>1. pc[n] # "idle" /\ "cleanUpClusterRole" \in Label \ {"idle"}
    BY <1>1 DEF CleanUpServiceAccount, Label
  <2>2. WriteServiceAccount(n, None, FALSE) /\ kt' = kt
        /\ pc' = [pc EXCEPT ![n] = "cleanUpClusterRole"]
    BY <1>1 DEF CleanUpServiceAccount
  <2>3. phase[kt[n]] = "gone"
    BY <1>1 DEF CleanUpServiceAccount, TearDown
  <2>4. /\ sa' \in [ServiceAccounts -> Account \cup {None}]
        /\ queued' \subseteq Release
        /\ \A m \in ServiceAccounts :
              sa'[m] # None /\ sa'[m].owner # None => ServiceAccount(sa'[m].owner) = m
    BY <2>1, <2>2, WriteStep
  <2>5. /\ pc' \in [Namespaces -> Label]
        /\ kt' \in [Namespaces -> Release \cup {None}]
        /\ \A m \in Namespaces : kt'[m] = None <=> pc'[m] = "idle"
    BY <2>1, <2>2, GotoStep
  <2> QED
    BY <1>1, <2>2, <2>3, <2>4, <2>5 DEF CleanUpServiceAccount, TearDown
<1>2. CASE CreateOrUpdateServiceAccount(n)
  <2>1. pc[n] # "idle" /\ "clusterRole" \in Label \ {"idle"}
    BY <1>2 DEF CreateOrUpdateServiceAccount, Label
  <2>2. WriteServiceAccount(n, kt[n], TRUE) /\ kt' = kt
        /\ pc' = [pc EXCEPT ![n] = "clusterRole"]
    BY <1>2 DEF CreateOrUpdateServiceAccount
  <2>3. /\ sa' \in [ServiceAccounts -> Account \cup {None}]
        /\ queued' \subseteq Release
        /\ \A m \in ServiceAccounts :
              sa'[m] # None /\ sa'[m].owner # None => ServiceAccount(sa'[m].owner) = m
    BY <2>1, <2>2, WriteStep
  <2>4. /\ pc' \in [Namespaces -> Label]
        /\ kt' \in [Namespaces -> Release \cup {None}]
        /\ \A m \in Namespaces : kt'[m] = None <=> pc'[m] = "idle"
    BY <2>1, <2>2, GotoStep
  <2> QED
    BY <1>2, <2>2, <2>3, <2>4 DEF CreateOrUpdateServiceAccount, TearDown
<1> QED
  BY <1>1, <1>2

LEMMA TearDownStep ==
    ASSUME Inv, NEW n \in Namespaces,
           UpdateCR(n) \/ CleanUpClusterRole(n) \/ CleanUpClusterRolebinding(n)
    PROVE  Inv'
<1> USE NoneIsNothing DEF Inv, TypeOK, Labelled, Torn, objects, crs
<1>1. CASE UpdateCR(n)
  <2>1. pc[n] # "idle" /\ "cleanUpServiceAccount" \in Label \ {"idle"} /\ kt[n] \in Release
    BY <1>1, Working DEF UpdateCR, Label
  <2>2. phase[kt[n]] = "deleting" /\ phase' = [phase EXCEPT ![kt[n]] = "gone"]
    BY <1>1 DEF UpdateCR
  <2>3. pc' = [pc EXCEPT ![n] = "cleanUpServiceAccount"] /\ kt' = kt
    BY <1>1 DEF UpdateCR, Goto
  <2>4. \A m \in Namespaces : m # n => kt[m] # kt[n] \/ pc[m] # "updateCR"
    OBVIOUS
  <2> QED
    BY <1>1, <2>1, <2>2, <2>3, <2>4, GotoStep DEF UpdateCR, Goto, TearDown
<1>2. CASE CleanUpClusterRole(n)
  <2>1. pc[n] # "idle" /\ "cleanUpClusterRolebinding" \in Label \ {"idle"}
    BY <1>2 DEF CleanUpClusterRole, Label
  <2>2. pc' = [pc EXCEPT ![n] = "cleanUpClusterRolebinding"] /\ kt' = kt /\ queued' = queued
    BY <1>2 DEF CleanUpClusterRole, Goto
  <2>3. \A m \in ClusterRoles : role'[m] \in {role[m], None}
    BY <1>2 DEF CleanUpClusterRole
  <2>4. role' \in [ClusterRoles -> Release \cup {None}]
    BY <1>2 DEF CleanUpClusterRole
  <2>5. UNCHANGED <<crs, sa, crb>> /\ pc[n] \in TearDown
    BY <1>2 DEF CleanUpClusterRole, TearDown
  <2> QED
    BY <2>1, <2>2, <2>3, <2>4, <2>5, GotoStep DEF TearDown
<1>3. CASE CleanUpClusterRolebinding(n)
  <2>1. pc[n] # "idle" /\ \E requeue \in BOOLEAN : Return(n, requeue)
    BY <1>3 DEF CleanUpClusterRolebinding
  <2>2. \A m \in ClusterRoleBindings : crb'[m] \in {crb[m], None}
    BY <1>3 DEF CleanUpClusterRolebinding
  <2>3. crb' \in [ClusterRoleBindings -> Binding \cup {None}]
    BY <1>3 DEF CleanUpClusterRolebinding
  <2>4. UNCHANGED <<crs, sa, role>>
    BY <1>3 DEF CleanUpClusterRolebinding
  <2> QED
    BY <2>1, <2>2, <2>3, <2>4, ReturnStep DEF TearDown
<1> QED
  BY <1>1, <1>2, <1>3

LEMMA TearUpStep ==
    ASSUME Inv, NEW n \in Namespaces,
           \/ PatchFinalizer(n)
           \/ CreateOrUpdateClusterRole(n)
           \/ CreateOrUpdateClusterRoleBinding(n)
    PROVE  Inv'
<1> USE NoneIsNothing DEF Inv, TypeOK, Labelled, Torn, objects, crs
<1>1. CASE PatchFinalizer(n)
  <2>1. pc[n] # "idle" /\ \E requeue \in BOOLEAN : Return(n, requeue)
    BY <1>1 DEF PatchFinalizer
  <2>2. finalizer' \in [Release -> BOOLEAN] /\ UNCHANGED <<phase, objects>>
    BY <1>1 DEF PatchFinalizer
  <2> QED
    BY <2>1, <2>2, ReturnStep DEF TearDown
<1>2. CASE CreateOrUpdateClusterRole(n)
  <2>1. pc[n] # "idle" /\ "clusterRoleBinding" \in Label \ {"idle"} /\ kt[n] \in Release
    BY <1>2, Working DEF CreateOrUpdateClusterRole, Label
  <2>2. pc' = [pc EXCEPT ![n] = "clusterRoleBinding"] /\ kt' = kt /\ queued' = queued
    BY <1>2 DEF CreateOrUpdateClusterRole, Goto
  <2>3. role' = [role EXCEPT ![ClusterRoleName(kt[n])] = kt[n]] /\ UNCHANGED <<crs, sa, crb>>
    BY <1>2 DEF CreateOrUpdateClusterRole
  <2> QED
    BY <2>1, <2>2, <2>3, GotoStep, NameTypes DEF TearDown
<1>3. CASE CreateOrUpdateClusterRoleBinding(n)
  <2> DEFINE r == kt[n]
             b == ClusterRoleBindingName(r)
             rebound == crb[b] # None /\ crb[b].role # ClusterRoleName(r)
             bound == [label |-> r, role |-> ClusterRoleName(r), account |-> ServiceAccount(r)]
  <2>1. r \in Release /\ pc[n] # "idle"
    BY <1>3, Working DEF CreateOrUpdateClusterRoleBinding
  <2>2. bound \in Binding /\ bound.label = r
    BY <2>1, NameTypes DEF Binding
  <2>3. crb' = [crb EXCEPT ![b] = IF rebound THEN None ELSE bound]
    BY <1>3 DEF CreateOrUpdateClusterRoleBinding
  <2>4. Return(n, rebound) /\ rebound \in BOOLEAN
    BY <1>3 DEF CreateOrUpdateClusterRoleBinding
  <2>5. UNCHANGED <<crs, sa, role>>
    BY <1>3 DEF CreateOrUpdateClusterRoleBinding
  <2>6. /\ crb' \in [ClusterRoleBindings -> Binding \cup {None}]
        /\ \A m \in ClusterRoleBindings :
              crb'[m] # None => ClusterRoleBindingName(crb'[m].label) = m
    <3> HIDE DEF rebound, bound
    <3> QED
      BY <2>1, <2>2, <2>3, NameTypes
  <2> HIDE DEF rebound
  <2> QED
    BY <2>1, <2>4, <2>5, <2>6, ReturnStep DEF TearDown
<1> QED
  BY <1>1, <1>2, <1>3

LEMMA InvStep == Inv /\ [Next]_vars => Inv'
<1> SUFFICES ASSUME Inv, [Next]_vars PROVE Inv'
  OBVIOUS
<1>1. CASE UNCHANGED vars
  BY <1>1 DEF Inv, TypeOK, Labelled, Torn, vars
<1>2. ASSUME NEW n \in Namespaces, Operator(n) PROVE Inv'
  BY <1>2, GetStep, ServiceAccountStep, TearDownStep, TearUpStep DEF Operator
<1> QED
  BY <1>1, <1>2, OutsideStep DEF Next

\* The state of all releases and operators keeps its shape.
THEOREM TypeCorrect == Spec => []TypeOK
<1>1. Inv => TypeOK
  BY DEF Inv
<1> QED
  BY Init_Inv, InvStep, <1>1, PTL DEF Spec

-----------------------------------------------------------------------------
(* Nothing is taken from a release in use                                   *)

\* The garbage collector goes by the owner, and a teardown by the release: either is a release
\* of that account, and gone.
LEMMA AccountStep ==
    ASSUME Inv, [Next]_vars, NEW r \in Release, Live(r), OwnAccount(r), HasAccount(r)
    PROVE  HasAccount(r)'
<1> USE NoneIsNothing DEF Inv, TypeOK, Labelled, Torn, objects, Live, HasAccount, OwnAccount
<1>1. ServiceAccount(r) \in ServiceAccounts
  BY NameTypes
<1>2. CASE UNCHANGED sa
  BY <1>2
<1>3. ASSUME NEW n \in ServiceAccounts, CollectGarbage(n)
      PROVE  HasAccount(r)'
  <2>1. n # ServiceAccount(r)
    BY <1>3 DEF CollectGarbage, Account
  <2> QED
    BY <1>1, <1>3, <2>1 DEF CollectGarbage
<1>4. ASSUME NEW n \in Namespaces, CleanUpServiceAccount(n)
      PROVE  HasAccount(r)'
  <2>1. kt[n] \in Release /\ kt[n] # r /\ pc[n] # "idle"
    BY <1>4, Working DEF CleanUpServiceAccount, TearDown
  <2>2. WriteServiceAccount(n, None, FALSE)
    BY <1>4 DEF CleanUpServiceAccount
  <2>3. \A m \in ServiceAccounts : m # ServiceAccount(kt[n]) => sa'[m] = sa[m]
    BY <2>1, <2>2, WriteStep
  <2> QED
    BY <1>1, <2>1, <2>3
<1>5. ASSUME NEW n \in Namespaces, CreateOrUpdateServiceAccount(n)
      PROVE  HasAccount(r)'
  <2>1. kt[n] \in Release /\ pc[n] # "idle"
    BY <1>5, Working DEF CreateOrUpdateServiceAccount
  <2>2. WriteServiceAccount(n, kt[n], TRUE)
    BY <1>5 DEF CreateOrUpdateServiceAccount
  <2>3. /\ \A m \in ServiceAccounts : m # ServiceAccount(kt[n]) => sa'[m] = sa[m]
        /\ sa'[ServiceAccount(kt[n])] # None
    BY <2>1, <2>2, WriteStep
  <2> QED
    BY <1>1, <2>1, <2>3
<1> QED
  BY <1>2, <1>3, <1>4, <1>5
     DEF Next, vars, CreateCR, DeleteCR, Resync, Operator, Get, UpdateCR, CleanUpClusterRole,
         CleanUpClusterRolebinding, PatchFinalizer, CreateOrUpdateClusterRole,
         CreateOrUpdateClusterRoleBinding

\* A role whose name is a release's own bears its label, and is not in another's list.
LEMMA RoleStep ==
    ASSUME Inv, [Next]_vars, NEW r \in Release, Live(r), OwnRole(r), HasRole(r)
    PROVE  HasRole(r)'
<1> USE NoneIsNothing DEF Inv, TypeOK, Labelled, Torn, objects, Live, HasRole, OwnRole
<1>1. ClusterRoleName(r) \in ClusterRoles
  BY NameTypes
<1>2. CASE UNCHANGED role
  BY <1>2
<1>3. ASSUME NEW n \in Namespaces, CleanUpClusterRole(n)
      PROVE  HasRole(r)'
  <2>1. kt[n] \in Release /\ kt[n] # r
    BY <1>3, Working DEF CleanUpClusterRole, TearDown
  <2>2. role[ClusterRoleName(r)] = r
    BY <1>1
  <2> QED
    BY <1>1, <1>3, <2>1, <2>2 DEF CleanUpClusterRole, ListedRoles
<1>4. ASSUME NEW n \in Namespaces, CreateOrUpdateClusterRole(n)
      PROVE  HasRole(r)'
  <2>1. kt[n] \in Release
    BY <1>4, Working DEF CreateOrUpdateClusterRole
  <2> QED
    BY <1>1, <1>4, <2>1 DEF CreateOrUpdateClusterRole
<1> QED
  BY <1>2, <1>3, <1>4
     DEF Next, vars, CreateCR, DeleteCR, CollectGarbage, Resync, Operator, Get, UpdateCR,
         CleanUpServiceAccount, CleanUpClusterRolebinding, PatchFinalizer,
         CreateOrUpdateServiceAccount, CreateOrUpdateClusterRoleBinding

\* The same of a binding; and the release itself has no reason to delete it.
LEMMA BindingStep ==
    ASSUME Inv, [Next]_vars, NEW r \in Release, Live(r), OwnBinding(r), HasBinding(r)
    PROVE  HasBinding(r)'
<1> USE NoneIsNothing DEF Inv, TypeOK, Labelled, Torn, objects, Live, HasBinding, OwnBinding
<1>1. /\ ClusterRoleBindingName(r) \in ClusterRoleBindings
      /\ ClusterRoleName(r) \in ClusterRoles
      /\ ServiceAccount(r) \in ServiceAccounts
  BY NameTypes
<1>2. CASE UNCHANGED crb
  BY <1>2
<1>3. ASSUME NEW n \in Namespaces, CleanUpClusterRolebinding(n)
      PROVE  HasBinding(r)'
  <2>1. kt[n] \in Release /\ kt[n] # r
    BY <1>3, Working DEF CleanUpClusterRolebinding, TearDown
  <2>2. crb[ClusterRoleBindingName(r)].label = r
    BY <1>1 DEF Binding
  <2> QED
    BY <1>1, <1>3, <2>1, <2>2 DEF CleanUpClusterRolebinding, ListedBindings
<1>4. ASSUME NEW n \in Namespaces, CreateOrUpdateClusterRoleBinding(n)
      PROVE  HasBinding(r)'
  <2>1. kt[n] \in Release
    BY <1>4, Working DEF CreateOrUpdateClusterRoleBinding
  <2>2. CASE kt[n] = r
    <3> DEFINE bound == [label |-> r, role |-> ClusterRoleName(r), account |-> ServiceAccount(r)]
    <3>1. bound \in Binding
      BY <1>1 DEF Binding
    <3>2. crb'[ClusterRoleBindingName(r)] = bound
      BY <1>1, <1>4, <2>2 DEF CreateOrUpdateClusterRoleBinding
    <3>3. bound # None /\ bound.role = ClusterRoleName(r) /\ bound.account = ServiceAccount(r)
      BY <3>1
    <3> QED
      BY <3>2, <3>3
  <2>3. CASE kt[n] # r
    BY <1>1, <1>4, <2>1, <2>3 DEF CreateOrUpdateClusterRoleBinding
  <2> QED
    BY <2>2, <2>3
<1> QED
  BY <1>2, <1>3, <1>4
     DEF Next, vars, CreateCR, DeleteCR, CollectGarbage, Resync, Operator, Get, UpdateCR,
         CleanUpServiceAccount, CleanUpClusterRole, PatchFinalizer,
         CreateOrUpdateServiceAccount, CreateOrUpdateClusterRole

\* A release in use keeps each object whose name is its own, whatever the operators of the
\* others and the garbage collector do: for any number of releases, and any names.
THEOREM ObjectsAreKept == Spec => ObjectsKept
<1> DEFINE Kept ==
      \A r \in Release : Live(r) /\ Live(r)' =>
          /\ OwnAccount(r) /\ HasAccount(r) => HasAccount(r)'
          /\ OwnRole(r) /\ HasRole(r) => HasRole(r)'
          /\ OwnBinding(r) /\ HasBinding(r) => HasBinding(r)'
<1>1. Inv /\ [Next]_vars => Kept
  BY AccountStep, RoleStep, BindingStep
<1>2. Inv /\ [Next]_vars => [Kept]_vars
  BY <1>1
<1> QED
  BY Init_Inv, InvStep, <1>2, PTL DEF Spec, ObjectsKept
=============================================================================
