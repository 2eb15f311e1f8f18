----------------------- MODULE OperatorStartupProofs -----------------------
(***************************************************************************)
(* No process of the operator reconciles a CR before its own CRD check has  *)
(* passed, for every number of restarts, faults and changes of the CRD.     *)
(***************************************************************************)
EXTENDS OperatorStartup, TLAPS

USE BudgetsAssumption

\* Each signal rests on the one before it: the check, two channels, the worker.
ChainInv ==
    /\ crdCheckDone => check = "passed" /\ seen = "new"
    /\ postCheckDone => crdCheckDone
    /\ worker = "reconciling" => postCheckDone

Inv == TypeOK /\ ChainInv

LEMMA InvInit == Init => Inv
<1>1. Init => TypeOK
  <2> SUFFICES ASSUME Init PROVE TypeOK
    OBVIOUS
  <2>1. used \in [changes: Nat, faults: Nat, stops: Nat]
    BY DEF Init
  <2>2. crdCheckDone \in BOOLEAN /\ postCheckDone \in BOOLEAN
    BY DEF Init
  <2> QED
    BY <2>1, <2>2 DEF Init, TypeOK, CRD
<1>2. Init => ChainInv
  BY DEF Init, ChainInv
<1> QED
  BY <1>1, <1>2 DEF Inv

LEMMA SpentType ==
    ASSUME TypeOK
    PROVE  /\ [used EXCEPT !.changes = used.changes + 1] \in [changes: Nat, faults: Nat, stops: Nat]
           /\ [used EXCEPT !.faults = used.faults + 1] \in [changes: Nat, faults: Nat, stops: Nat]
           /\ [used EXCEPT !.stops = used.stops + 1] \in [changes: Nat, faults: Nat, stops: Nat]
  BY DEF TypeOK

LEMMA InvStep == Inv /\ [Next]_vars => Inv'
<1> SUFFICES ASSUME Inv, [Next]_vars PROVE Inv'
  OBVIOUS
<1> USE DEF Inv, TypeOK, ChainInv, CRD, channels
<1>1. CASE IsCrdExists
  BY <1>1 DEF IsCrdExists, Fail
<1>2. CASE IsCrdUpToDate
  BY <1>2 DEF IsCrdUpToDate, UpToDate, Fail
<1>3. CASE PostChecksDone
  BY <1>3 DEF PostChecksDone
<1>4. CASE BeginCycle
  BY <1>4 DEF BeginCycle
<1>5. CASE PassGate
  BY <1>5 DEF PassGate
<1>6. CASE EndCycle
  BY <1>6 DEF EndCycle
<1>7. CASE StartManager
  BY <1>7 DEF StartManager
<1>8. CASE Exit
  BY <1>8 DEF Exit
<1>9. CASE SyncTimeout
  BY <1>9 DEF SyncTimeout
<1>10. CASE ChangeCRD
  BY <1>10, SpentType DEF ChangeCRD
<1>11. CASE ReadFails
  BY <1>11, SpentType DEF ReadFails, Fail
<1>12. CASE Terminate
  BY <1>12, SpentType DEF Terminate
<1>13. CASE UNCHANGED vars
  BY <1>13 DEF vars
<1> QED
  BY <1>1, <1>2, <1>3, <1>4, <1>5, <1>6, <1>7, <1>8, <1>9, <1>10, <1>11, <1>12, <1>13
     DEF Next, CRDCheck, Controller, Manager

\* A process reconciles CRs only after it has itself found the CRD up to date, for every
\* number of restarts, faults and changes of the CRD.
THEOREM GateIsSafe == Spec => []GateHolds
<1>1. Inv => GateHolds
  BY DEF Inv, ChainInv, GateHolds
<1> QED
  BY InvInit, InvStep, <1>1, PTL DEF Spec
=============================================================================
