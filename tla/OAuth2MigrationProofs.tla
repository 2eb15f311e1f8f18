----------------------- MODULE OAuth2MigrationProofs -----------------------
(***************************************************************************)
(* The migration script gives up the user's login only for a client it      *)
(* holds, and says that it is done only with the latest client in the       *)
(* secret, for every number of runs, faults, interruptions and evictions.   *)
(***************************************************************************)
EXTENDS OAuth2Migration, TLAPS

USE ConstantsAssumption, BudgetsAssumption DEF Optional

\* The client is in the script's hands, and after that in the secret.
Replacing == {"deleteSecret", "createSecret"}
Replaced == {"checkMounted", "patchDeployment", "scaleDown", "scaleUp"}
Success == {"patched", "restarted"}

ClientInv ==
    /\ pc \in Replacing => held = minted /\ minted >= 1
    /\ pc \in Replaced => secret # None /\ secret.client = minted
    /\ pc # "idle" => report = None
    /\ report \in Success => secret # None /\ secret.client = minted

Inv == TypeOK /\ ClientInv

LEMMA Init_Inv == Init => Inv
<1> SUFFICES ASSUME Init PROVE Inv
  OBVIOUS
<1>1. LoginOnly \in Secret
  BY DEF LoginOnly, Secret
<1>2. pod \in Pod
  BY DEF Init, Pod
<1>3. TypeOK
  BY <1>1, <1>2 DEF Init, TypeOK, Label
<1>4. ClientInv
  BY DEF Init, ClientInv, Replacing, Replaced, Success, Report
<1> QED
  BY <1>3, <1>4 DEF Inv

LEMMA SpentType ==
    ASSUME TypeOK
    PROVE  /\ [used EXCEPT !.runs = used.runs + 1]
                \in [runs: Nat, faults: Nat, interrupts: Nat, evictions: Nat]
           /\ [used EXCEPT !.faults = used.faults + 1]
                \in [runs: Nat, faults: Nat, interrupts: Nat, evictions: Nat]
           /\ [used EXCEPT !.interrupts = used.interrupts + 1]
                \in [runs: Nat, faults: Nat, interrupts: Nat, evictions: Nat]
           /\ [used EXCEPT !.evictions = used.evictions + 1]
                \in [runs: Nat, faults: Nat, interrupts: Nat, evictions: Nat]
  BY DEF TypeOK

LEMMA ScriptStep == ASSUME Inv, Script PROVE Inv'
<1> USE DEF Inv, ClientInv, TypeOK, Replacing, Replaced, Success, Label, Report,
            Goto, Exit, Abort, script, settings, cluster
<1>1. CASE CheckCurrentStatus
  BY <1>1 DEF CheckCurrentStatus
<1>2. CASE LoginToServer
  BY <1>2 DEF LoginToServer
<1>3. CASE RequestClient
  BY <1>3 DEF RequestClient
<1>4. CASE DeleteSecret
  BY <1>4 DEF DeleteSecret
<1>5. CASE CreateSecret
  <2>1. [login |-> FALSE, client |-> held] \in Secret
    BY DEF Secret
  <2>2. CASE secret = None
    <3>1. secret' = [login |-> FALSE, client |-> held] /\ pc' = "checkMounted"
      BY <1>5, <2>2 DEF CreateSecret
    <3>2. secret'.client = minted /\ secret' # None
      BY <1>5, <2>1, <3>1 DEF CreateSecret
    <3>3. UNCHANGED <<settings, mounts, replicas, pod, minted, held, used, report>>
      BY <1>5, <2>2 DEF CreateSecret
    <3> QED
      BY <1>5, <2>1, <3>1, <3>2, <3>3 DEF CreateSecret
  <2>3. CASE secret # None
    BY <1>5, <2>3 DEF CreateSecret
  <2> QED
    BY <2>2, <2>3
<1>6. CASE CheckMounted
  BY <1>6 DEF CheckMounted
<1>7. CASE PatchDeployment
  BY <1>7 DEF PatchDeployment
<1>8. CASE ScaleDown
  BY <1>8 DEF ScaleDown
<1>9. CASE ScaleUp
  BY <1>9 DEF ScaleUp
<1> QED
  BY <1>1, <1>2, <1>3, <1>4, <1>5, <1>6, <1>7, <1>8, <1>9 DEF Script

\* Only the failed check of the mount stays after the secret's creation, only the failed
\* delete before it.
LEMMA FaultStep == ASSUME Inv, Fault PROVE Inv'
<1> USE DEF Inv, ClientInv, TypeOK, Replacing, Replaced, Success, Label, Report,
            Goto, Exit, Abort, script, settings, cluster
<1>1. /\ minted' \in {minted, minted + 1}
      /\ pc # "requestClient" => minted' = minted
      /\ pc # "idle"
      /\ used' \in [runs: Nat, faults: Nat, interrupts: Nat, evictions: Nat]
      /\ UNCHANGED cluster
  BY SpentType DEF Fault
<1>2. CASE pc \in DOMAIN IgnoredAt
  <2>1. \/ pc = "checkCurrentStatus" /\ pc' = "loginToServer"
        \/ pc = "deleteSecret" /\ pc' = "createSecret"
        \/ pc = "checkMounted" /\ pc' = "patchDeployment"
    <3>1. pc \in {"checkCurrentStatus", "deleteSecret", "checkMounted"} /\ pc' = IgnoredAt[pc]
      BY <1>2 DEF Fault, IgnoredAt
    <3>2. /\ IgnoredAt["checkCurrentStatus"] = "loginToServer"
          /\ IgnoredAt["deleteSecret"] = "createSecret"
          /\ IgnoredAt["checkMounted"] = "patchDeployment"
      BY DEF IgnoredAt
    <3>3. CASE pc = "checkCurrentStatus"
      BY ONLY <3>1, <3>2, <3>3
    <3>4. CASE pc = "deleteSecret"
      BY ONLY <3>1, <3>2, <3>4
    <3>5. CASE pc = "checkMounted"
      BY ONLY <3>1, <3>2, <3>5
    <3> QED
      BY <3>1, <3>3, <3>4, <3>5
  <2>2. UNCHANGED <<held, report>>
    BY <1>2 DEF Fault
  <2> QED
    BY <1>1, <2>1, <2>2
<1>3. CASE pc \notin DOMAIN IgnoredAt
  <2>1. pc' = "idle" /\ held' = None /\ report' = None
    BY <1>3 DEF Fault
  <2> QED
    BY <1>1, <2>1
<1> QED
  BY <1>2, <1>3

LEMMA EnvironmentStep ==
    ASSUME Inv, Start \/ Interrupt \/ Evict \/ Kubernetes \/ Reconcile
    PROVE  Inv'
<1> USE DEF Inv, ClientInv, TypeOK, Replacing, Replaced, Success, Label, Report,
            Exit, Abort, script, settings, cluster
<1>1. CASE Start
  BY <1>1, SpentType DEF Start
<1>2. CASE Interrupt
  BY <1>2, SpentType DEF Interrupt
<1>3. CASE Evict
  BY <1>3, SpentType DEF Evict
<1>4. CASE StartPod
  <2>1. secret # None => secret.client \in Nat \cup {None}
    BY DEF Secret
  <2>2. pod' \in Pod
    BY <1>4, <2>1 DEF StartPod, Pod
  <2> QED
    BY <1>4, <2>2 DEF StartPod
<1>5. CASE StopPod
  BY <1>5 DEF StopPod
<1>6. CASE Reconcile
  BY <1>6 DEF Reconcile
<1> QED
  BY <1>1, <1>2, <1>3, <1>4, <1>5, <1>6 DEF Kubernetes

LEMMA InvStep == Inv /\ [Next]_vars => Inv'
<1> SUFFICES ASSUME Inv, [Next]_vars PROVE Inv'
  OBVIOUS
<1>1. CASE UNCHANGED vars
  BY <1>1 DEF Inv, ClientInv, TypeOK, vars
<1>2. CASE Next
  BY <1>2, ScriptStep, FaultStep, EnvironmentStep DEF Next
<1> QED
  BY <1>1, <1>2

\* The state of a migration keeps its shape, through every call, failure and rerun.
THEOREM TypeCorrect == Spec => []TypeOK
<1>1. Inv => TypeOK
  BY DEF Inv
<1> QED
  BY Init_Inv, InvStep, <1>1, PTL DEF Spec

\* Once the script says that it is done, the secret holds the latest client, for every
\* number of runs, faults, interruptions and evictions.
THEOREM DoneIsTrue == Spec => []DoneWithLatestClient
<1>1. Inv => DoneWithLatestClient
  BY DEF Inv, ClientInv, Success, DoneWithLatestClient
<1> QED
  BY Init_Inv, InvStep, <1>1, PTL DEF Spec

\* The secret changes under the script's hands in two steps only, and the one that finds a
\* login in it deletes it with the new client in hand.
LEMMA SecretStep ==
    ASSUME Inv, [Next]_vars, secret # None, secret.login, secret' # secret
    PROVE  held \in 1..minted
<1>1. DeleteSecret
  BY DEF Next, Script, Kubernetes, vars, settings, cluster, Start, CheckCurrentStatus,
         LoginToServer, RequestClient, CreateSecret, CheckMounted, PatchDeployment, ScaleDown,
         ScaleUp, Fault, Interrupt, Evict, StartPod, StopPod, Reconcile
<1> QED
  BY <1>1 DEF Inv, ClientInv, TypeOK, Replacing, DeleteSecret

\* The login in the secret is given up only for a client the script holds, for every number
\* of runs, faults, interruptions and evictions.
THEOREM LoginIsSafe == Spec => LoginGivenUpForClient
<1>1. Inv /\ [Next]_vars => (secret # None /\ secret.login /\ secret' # secret => held \in 1..minted)
  BY SecretStep
<1>2. Inv /\ [Next]_vars
        => [(secret # None /\ secret.login /\ secret' # secret) => held \in 1..minted]_vars
  BY <1>1
<1> QED
  BY Init_Inv, InvStep, <1>2, PTL DEF Spec, LoginGivenUpForClient

-----------------------------------------------------------------------------
(* The script implements the abstract handover                              *)

\* No secret holds a client that the server has not created, and a secret about to be
\* deleted never holds the newest.
NewestInv ==
    /\ secret # None /\ secret.client # None => secret.client \in 1..minted
    /\ pc = "deleteSecret" /\ secret # None /\ secret.client # None => secret.client < minted

HandoverInv == Inv /\ NewestInv

LEMMA Init_HandoverInv == Init => HandoverInv
<1>1. Init => NewestInv
  BY DEF Init, NewestInv, LoginOnly
<1> QED
  BY <1>1, Init_Inv DEF HandoverInv

\* Only the two steps below put a client into the world.
LEMMA NewestStep == HandoverInv /\ [Next]_vars => NewestInv'
<1> SUFFICES ASSUME HandoverInv, [Next]_vars PROVE NewestInv'
  OBVIOUS
<1> USE DEF HandoverInv, Inv, ClientInv, NewestInv, TypeOK, Replacing, settings, cluster, script,
            Goto, Exit, Abort
<1>1. minted' \in {minted, minted + 1} /\ (minted' # minted => pc = "requestClient")
  BY DEF Next, Script, Kubernetes, vars, Start, CheckCurrentStatus, LoginToServer,
         RequestClient, DeleteSecret, CreateSecret, CheckMounted, PatchDeployment, ScaleDown,
         ScaleUp, Fault, Interrupt, Evict, StartPod, StopPod, Reconcile
<1>2. CASE RequestClient
  BY <1>2 DEF RequestClient
<1>3. CASE DeleteSecret
  BY <1>3 DEF DeleteSecret
<1>4. CASE CreateSecret
  <2>1. CASE secret = None
    <3>1. secret'.client = minted /\ pc' = "checkMounted" /\ minted' = minted
      BY <1>4, <2>1 DEF CreateSecret
    <3> QED
      BY <1>4, <3>1 DEF CreateSecret
  <2>2. CASE secret # None
    BY <1>4, <2>2 DEF CreateSecret
  <2> QED
    BY <2>1, <2>2
<1>5. CASE ~(RequestClient \/ DeleteSecret \/ CreateSecret)
  <2>1. secret' = secret
    BY <1>5 DEF Next, Script, Kubernetes, vars, Start, CheckCurrentStatus, LoginToServer,
           CheckMounted, PatchDeployment, ScaleDown, ScaleUp, Fault, Interrupt, Evict, StartPod,
           StopPod, Reconcile
  <2>2. pc' = "deleteSecret" => pc = "deleteSecret"
    <3>1. CASE Fault
      <4>1. CASE pc \in DOMAIN IgnoredAt
        <5>1. pc \in {"checkCurrentStatus", "deleteSecret", "checkMounted"}
          BY <4>1 DEF IgnoredAt
        <5>2. /\ IgnoredAt["checkCurrentStatus"] # "deleteSecret"
              /\ IgnoredAt["deleteSecret"] # "deleteSecret"
              /\ IgnoredAt["checkMounted"] # "deleteSecret"
          BY DEF IgnoredAt
        <5>3. pc' = IgnoredAt[pc]
          BY <3>1, <4>1 DEF Fault
        <5> QED
          BY ONLY <5>1, <5>2, <5>3
      <4>2. CASE pc \notin DOMAIN IgnoredAt
        BY <3>1, <4>2 DEF Fault
      <4> QED
        BY <4>1, <4>2
    <3>2. CASE ~Fault
      BY <1>5, <3>2 DEF Next, Script, Kubernetes, vars, Start, CheckCurrentStatus,
             LoginToServer, CheckMounted, PatchDeployment, ScaleDown, ScaleUp, Interrupt, Evict,
             StartPod, StopPod, Reconcile
    <3> QED
      BY <3>1, <3>2
  <2> QED
    BY <1>1, <2>1, <2>2
<1> QED
  BY <1>2, <1>3, <1>4, <1>5

LEMMA HandoverInvStep == HandoverInv /\ [Next]_vars => HandoverInv'
  BY InvStep, NewestStep DEF HandoverInv

LEMMA InitImplements == Init => Handover!Init
  BY DEF Init, LoginOnly, Report, Handover!Init

\* Steps that the promise does not see.
LEMMA StutterStep ==
    ASSUME UNCHANGED <<secret, pod, minted>>,
           report' \in {"patched", "restarted"} <=> report \in {"patched", "restarted"}
    PROVE  UNCHANGED Handover!vars
  BY DEF Handover!vars

\* While the script runs it has told nothing; the call that asks for a client may create one.
LEMMA ScriptImplements == ASSUME HandoverInv, Script PROVE [Handover!Next]_(Handover!vars)
<1> USE DEF HandoverInv, Inv, ClientInv, NewestInv, TypeOK, Replacing, Replaced, settings,
            cluster, script, Goto, Exit, Abort, Report
<1>1. CASE CheckCurrentStatus \/ LoginToServer \/ CheckMounted \/ ScaleDown
  BY <1>1, StutterStep DEF CheckCurrentStatus, LoginToServer, CheckMounted, ScaleDown
<1>2. CASE RequestClient
  <2>1. Handover!Issue
    BY <1>2 DEF RequestClient, Handover!Issue
  <2> QED
    BY <2>1 DEF Handover!Next
<1>3. CASE DeleteSecret
  <2>1. minted > (IF (IF secret = None THEN None ELSE secret.client) = None
                  THEN 0 ELSE IF secret = None THEN None ELSE secret.client)
    BY <1>3 DEF DeleteSecret
  <2>2. Handover!GiveUp
    BY <1>3, <2>1 DEF DeleteSecret, Handover!GiveUp
  <2> QED
    BY <2>2 DEF Handover!Next
<1>4. CASE CreateSecret /\ secret = None
  <2>0. [login |-> FALSE, client |-> held] \in Secret
    BY DEF Secret
  <2>1. secret' = [login |-> FALSE, client |-> held] /\ held = minted
    BY <1>4 DEF CreateSecret
  <2>2. secret'.client = minted /\ ~secret'.login /\ secret' # None
    BY ONLY <2>0, <2>1, ConstantsAssumption
  <2>3. (secret' # None /\ secret'.login) = (secret # None /\ secret.login)
    BY <1>4, <2>2
  <2>4. Handover!Store
    BY <1>4, <2>2, <2>3 DEF CreateSecret, Handover!Store
  <2> QED
    BY <2>4 DEF Handover!Next
<1>5. CASE CreateSecret /\ secret # None
  BY <1>5, StutterStep DEF CreateSecret
<1>6. CASE PatchDeployment \/ ScaleUp
  <2>1. Handover!Confirm
    BY <1>6 DEF PatchDeployment, ScaleUp, Handover!Confirm
  <2> QED
    BY <2>1 DEF Handover!Next
<1> QED
  BY <1>1, <1>2, <1>3, <1>4, <1>5, <1>6 DEF Script

LEMMA OthersImplement ==
    ASSUME HandoverInv, Start \/ Fault \/ Interrupt \/ Evict \/ Kubernetes \/ Reconcile
    PROVE  [Handover!Next]_(Handover!vars)
<1> USE DEF HandoverInv, Inv, ClientInv, TypeOK, settings, cluster, script, Goto, Exit, Abort,
            Report
<1>1. CASE Start
  <2>1. Handover!Begin
    BY <1>1 DEF Start, Handover!Begin
  <2> QED
    BY <2>1 DEF Handover!Next
<1>2. CASE Fault
  <2>1. UNCHANGED <<secret, pod>> /\ report = None /\ report' = None
    BY <1>2 DEF Fault
  <2>2. CASE minted' = minted
    BY <2>1, <2>2, StutterStep
  <2>3. CASE minted' = minted + 1
    <3>1. Handover!Issue
      BY <2>1, <2>3 DEF Handover!Issue, Report
    <3> QED
      BY <3>1 DEF Handover!Next
  <2> QED
    BY <1>2, <2>2, <2>3 DEF Fault
<1>3. CASE Interrupt \/ Reconcile
  BY <1>3, StutterStep DEF Interrupt, Reconcile
<1>4. CASE Evict \/ Kubernetes
  <2>1. Handover!PodReads
    BY <1>4 DEF Evict, Kubernetes, StartPod, StopPod, Handover!PodReads
  <2> QED
    BY <2>1 DEF Handover!Next
<1> QED
  BY <1>1, <1>2, <1>3, <1>4

\* Every run of the script, with any number of faults, interruptions and evictions, is a
\* handover: what the secret holds is given up only for a newer client, and the script stores
\* and reports only the latest.
THEOREM MigrationImplementsHandover == Spec => ImplementsHandover
<1>1. HandoverInv /\ [Next]_vars => [Handover!Next]_(Handover!vars)
  <2> SUFFICES ASSUME HandoverInv, [Next]_vars PROVE [Handover!Next]_(Handover!vars)
    OBVIOUS
  <2>1. CASE UNCHANGED vars
    BY <2>1, StutterStep DEF vars
  <2>2. CASE Next
    BY <2>2, ScriptImplements, OthersImplement DEF Next
  <2> QED
    BY <2>1, <2>2
<1> QED
  BY Init_HandoverInv, HandoverInvStep, InitImplements, <1>1, PTL
     DEF Spec, ImplementsHandover, Handover!Spec
=============================================================================
