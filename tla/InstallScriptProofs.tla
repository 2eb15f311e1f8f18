------------------------- MODULE InstallScriptProofs -------------------------
(***************************************************************************)
(* In any number of namespaces, runs and interruptions, installations leave *)
(* each other's rights alone, and an operator goes only after its CR.       *)
(***************************************************************************)
EXTENDS InstallScript, TLAPS

LEMMA Steps ==
    /\ SetupKubeturbo["apply"] = "lookUpBinding"
    /\ SetupKubeturbo["lookUpBinding"] = "bind"
    /\ SetupKubeturbo["bind"] = "applyOperator"
    /\ SetupKubeturbo["applyOperator"] = "awaitOperator"
    /\ SetupKubeturbo["awaitOperator"] = "applyCR"
    /\ SetupKubeturbo["applyCR"] = "awaitKubeturbo"
    /\ SetupKubeturbo["awaitKubeturbo"] = "idle"
    /\ SetupKubeturbo["delete"] = "deleteCR"
    /\ SetupKubeturbo["deleteCR"] = "awaitDeletion"
    /\ SetupKubeturbo["awaitDeletion"] = "deleteOperator"
    /\ SetupKubeturbo["deleteOperator"] = "idle"
  BY DEF SetupKubeturbo

LEMMA Init_Type == Init => TypeOK
  BY ConstantsAssumption DEF Init, TypeOK, Label

\* Where a call leads, and that it is to a place.
LEMMA GotoType ==
    ASSUME TypeOK, NEW n \in Namespace, NEW label \in Label, Goto(n, label)
    PROVE  /\ pc' \in [Namespace -> Label]
           /\ action' \in [Namespace -> {"apply", "delete"}]
           /\ told' \in [Namespace -> {"apply", "delete", None}]
  BY DEF TypeOK, Goto

LEMMA ProceedType ==
    ASSUME TypeOK, NEW n \in Namespace, pc[n] # "idle", Proceed(n)
    PROVE  /\ SetupKubeturbo[pc[n]] \in Label
           /\ pc' = [pc EXCEPT ![n] = SetupKubeturbo[pc[n]]]
           /\ pc' \in [Namespace -> Label]
           /\ action' \in [Namespace -> {"apply", "delete"}]
           /\ told' \in [Namespace -> {"apply", "delete", None}]
  <1>1. pc[n] \in Label \ {"idle"}
    BY DEF TypeOK
  <1>2. SetupKubeturbo[pc[n]] \in Label
    BY <1>1, Steps DEF Label
  <1>3. Goto(n, SetupKubeturbo[pc[n]])
    BY DEF Proceed
  <1> QED
    BY <1>2, <1>3, GotoType DEF Goto

LEMMA Next_Type == TypeOK /\ [Next]_vars => TypeOK'
  <1> SUFFICES ASSUME TypeOK, [Next]_vars
               PROVE  TypeOK'
    OBVIOUS
  <1>1. CASE UNCHANGED vars
    BY <1>1 DEF TypeOK, vars
  <1>2. ASSUME NEW n \in Namespace, NEW a \in Actions, Start(n, a)
        PROVE  TypeOK'
    <2>1. a \in {"apply", "delete"}
      BY ConstantsAssumption
    <2>2. SetupKubeturbo[a] \in Label
      BY <2>1, Steps DEF Label
    <2>3. used' \in [runs : 0..MaxRuns, faults : 0..MaxFaults, interrupts : 0..MaxInterrupts]
      BY <1>2, ConstantsAssumption DEF Start, TypeOK
    <2> QED
      BY <1>2, <2>1, <2>2, <2>3 DEF Start, TypeOK, release, history
  <1>3. ASSUME NEW n \in Namespace, Script(n)
        PROVE  TypeOK'
    <2>1. CASE LookUpBinding(n)
      BY <2>1, ProceedType DEF LookUpBinding, TypeOK, release, history
    <2>2. CASE Bind(n)
      <3>1. binding' \subseteq Namespace /\ binding' # None
        BY <2>2, ConstantsAssumption DEF Bind, TypeOK
      <3> QED
        BY <2>2, <3>1, ProceedType DEF Bind, TypeOK, release, history
    <2>3. CASE ApplyOperator(n)
      BY <2>3, ProceedType DEF ApplyOperator, TypeOK, release, history
    <2>4. CASE ApplyCR(n)
      BY <2>4, ProceedType DEF ApplyCR, TypeOK, history
    <2>5. CASE WaitForDeployment(n)
      BY <2>5, ProceedType DEF WaitForDeployment, Ready, TypeOK, release, history
    <2>6. CASE GiveUp(n)
      BY <2>6 DEF GiveUp, TypeOK, Label, release, history
    <2>7. CASE DeleteCR(n)
      BY <2>7, ProceedType DEF DeleteCR, TypeOK, history
    <2>8. CASE AwaitDeletion(n)
      BY <2>8, ProceedType DEF AwaitDeletion, TypeOK, release, history
    <2>9. CASE DeleteOperator(n)
      BY <2>9, ProceedType DEF DeleteOperator, TypeOK, history
    <2> QED
      BY <1>3, <2>1, <2>2, <2>3, <2>4, <2>5, <2>6, <2>7, <2>8, <2>9 DEF Script
  <1>4. ASSUME NEW n \in Namespace, Fault(n)
        PROVE  TypeOK'
    <2> DEFINE label == IF pc[n] = "deleteCR" THEN SetupKubeturbo["awaitDeletion"]
                        ELSE SetupKubeturbo[pc[n]]
    <2>1. label \in Label
      BY <1>4, Steps DEF Fault, Label
    <2>2. Goto(n, label)
      BY <1>4 DEF Fault
    <2>3. used' \in [runs : 0..MaxRuns, faults : 0..MaxFaults, interrupts : 0..MaxInterrupts]
      BY <1>4, ConstantsAssumption DEF Fault, TypeOK
    <2>4. exists' \in [Namespace -> BOOLEAN]
      BY <1>4 DEF Fault, TypeOK
    <2> QED
      BY <1>4, <2>1, <2>2, <2>3, <2>4, GotoType DEF Fault, TypeOK, release, history
  <1>5. ASSUME NEW n \in Namespace, Interrupt(n)
        PROVE  TypeOK'
    <2>1. used' \in [runs : 0..MaxRuns, faults : 0..MaxFaults, interrupts : 0..MaxInterrupts]
      BY <1>5, ConstantsAssumption DEF Interrupt, TypeOK
    <2> QED
      BY <1>5, <2>1 DEF Interrupt, TypeOK, Label, release, history
  <1>6. ASSUME NEW n \in Namespace, Cluster(n)
        PROVE  TypeOK'
    BY <1>6 DEF Cluster, PatchFinalizer, Reconcile, RemoveFinalizer, TearDown, CollectGarbage,
                TypeOK, history
  <1> QED
    BY <1>1, <1>2, <1>3, <1>4, <1>5, <1>6 DEF Next

\* Every variable has a value of its sort, in every run.
THEOREM TypeCorrect == Spec => []TypeOK
  BY Init_Type, Next_Type, PTL DEF Spec

LEMMA Next_RightsKept ==
    ASSUME TypeOK, [Next]_vars, NEW m \in Namespace, Bound(m)
    PROVE  Bound(m)'
  <1>1. CASE UNCHANGED binding
    BY <1>1 DEF Bound
  <1>2. ASSUME NEW n \in Namespace, Bind(n)
        PROVE  Bound(m)'
    <2>1. binding' = binding \cup {n} \/ binding' = binding
      BY <1>2 DEF Bind, Bound
    <2>2. binding' # None
      BY <2>1, ConstantsAssumption DEF Bound, TypeOK
    <2> QED
      BY <2>1, <2>2 DEF Bound
  <1> QED
    BY <1>1, <1>2 DEF Next, vars, Start, Script, LookUpBinding, ApplyOperator, ApplyCR,
                       WaitForDeployment, GiveUp, DeleteCR, AwaitDeletion, DeleteOperator,
                       Fault, Interrupt, Cluster

\* No installation takes rights from the operator of another namespace (lines 859-874).
THEOREM RightsAreKept == Spec => RightsKept
  <1>1. TypeOK /\ [Next]_vars => [\A n \in Namespace : Bound(n) => Bound(n)']_vars
    BY Next_RightsKept
  <1> QED
    BY <1>1, TypeCorrect, PTL DEF Spec, RightsKept

-----------------------------------------------------------------------------
(* A script about to delete the operator has seen the CR go, and nobody but *)
(* the script makes one.                                                    *)

Last == \A n \in Namespace : pc[n] = "deleteOperator" => cr[n] = "none" \/ failed[n]

LastInv == TypeOK /\ Last

LEMMA Next_Last ==
    ASSUME LastInv, [Next]_vars
    PROVE  Last'
  <1> USE DEF LastInv
  <1> SUFFICES ASSUME NEW m \in Namespace, pc'[m] = "deleteOperator"
               PROVE  cr'[m] = "none" \/ failed'[m]
    BY DEF Last
  <1>1. CASE UNCHANGED vars
    BY <1>1 DEF Last, vars
  <1>2. ASSUME NEW n \in Namespace, NEW a \in Actions, Start(n, a)
        PROVE  cr'[m] = "none" \/ failed'[m]
    <2>1. a \in {"apply", "delete"}
      BY ConstantsAssumption
    <2>2. SetupKubeturbo[a] # "deleteOperator"
      BY <2>1, Steps
    <2> QED
      BY <1>2, <2>2 DEF Start, Last, TypeOK, release, history
  <1>3. ASSUME NEW n \in Namespace, Script(n)
        PROVE  cr'[m] = "none" \/ failed'[m]
    <2>1. CASE AwaitDeletion(n)
      BY <2>1, ProceedType DEF AwaitDeletion, Last, TypeOK, release, history
    <2>2. CASE ApplyCR(n)
      BY <2>2, ProceedType, Steps DEF ApplyCR, Last, TypeOK, history
    <2>3. CASE DeleteCR(n)
      BY <2>3, ProceedType, Steps DEF DeleteCR, Last, TypeOK, history
    <2>4. CASE DeleteOperator(n)
      BY <2>4, ProceedType, Steps DEF DeleteOperator, Last, TypeOK, history
    <2>5. CASE GiveUp(n)
      BY <2>5 DEF GiveUp, Last, TypeOK, release, history
    <2>6. CASE LookUpBinding(n) \/ Bind(n) \/ ApplyOperator(n) \/ WaitForDeployment(n)
      <3>1. /\ pc[n] \in {"lookUpBinding", "bind", "applyOperator", "awaitOperator",
                          "awaitKubeturbo"}
            /\ Proceed(n)
            /\ UNCHANGED <<cr, failed>>
        BY <2>6 DEF LookUpBinding, Bind, ApplyOperator, WaitForDeployment, Ready, release,
                    history
      <3>2. SetupKubeturbo[pc[n]] # "deleteOperator"
        BY <3>1, Steps
      <3> QED
        BY <3>1, <3>2, ProceedType DEF Last, TypeOK
    <2> QED
      BY <1>3, <2>1, <2>2, <2>3, <2>4, <2>5, <2>6 DEF Script
  <1>4. ASSUME NEW n \in Namespace, Fault(n)
        PROVE  cr'[m] = "none" \/ failed'[m]
    <2>1. CASE m = n
      BY <1>4, <2>1 DEF Fault, TypeOK
    <2>2. CASE m # n
      BY <1>4, <2>2 DEF Fault, Goto, Last, TypeOK, release
    <2> QED
      BY <2>1, <2>2
  <1>5. ASSUME NEW n \in Namespace, Interrupt(n)
        PROVE  cr'[m] = "none" \/ failed'[m]
    BY <1>5 DEF Interrupt, Last, TypeOK, release, history
  <1>6. ASSUME NEW n \in Namespace, Cluster(n)
        PROVE  cr'[m] = "none" \/ failed'[m]
    BY <1>6 DEF Cluster, PatchFinalizer, Reconcile, RemoveFinalizer, TearDown, CollectGarbage,
                Last, TypeOK, history
  <1> QED
    BY <1>1, <1>2, <1>3, <1>4, <1>5, <1>6 DEF Next

LEMMA Step_Last ==
    ASSUME LastInv, [Next]_vars, NEW m \in Namespace, operator[m], ~operator'[m]
    PROVE  cr[m] = "none" \/ failed[m]
  <1>1. ASSUME NEW n \in Namespace, DeleteOperator(n)
        PROVE  cr[m] = "none" \/ failed[m]
    BY <1>1 DEF DeleteOperator, LastInv, Last, TypeOK
  <1>2. ASSUME NEW n \in Namespace, ApplyOperator(n)
        PROVE  operator'[m]
    BY <1>2 DEF ApplyOperator, LastInv, TypeOK
  <1> QED
    BY <1>1, <1>2 DEF Next, vars, Start, Script, LookUpBinding, Bind, ApplyCR,
                       WaitForDeployment, GiveUp, DeleteCR, AwaitDeletion, Fault, Interrupt,
                       Cluster

\* Unless a call of the script has failed unnoticed in its namespace, an operator is deleted
\* only when no CR is left there, wherever earlier runs were interrupted (lines 321-323).
THEOREM OperatorIsLast == Spec => OperatorGoesLast
  <1>1. Init => LastInv
    BY Init_Type DEF Init, LastInv, Last
  <1>2. LastInv /\ [Next]_vars => LastInv'
    BY Next_Type, Next_Last DEF LastInv
  <1>3. LastInv /\ [Next]_vars
          => [\A n \in Namespace :
                  operator[n] /\ ~operator'[n] => cr[n] = "none" \/ failed[n]]_vars
    BY Step_Last
  <1> QED
    BY <1>1, <1>2, <1>3, PTL DEF Spec, OperatorGoesLast
=============================================================================
