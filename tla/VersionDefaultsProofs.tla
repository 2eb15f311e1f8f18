----------------------- MODULE VersionDefaultsProofs -----------------------
(***************************************************************************)
(* The types of VersionDefaults, and when the default version survives the  *)
(* answers decoded through it.                                              *)
(***************************************************************************)
EXTENDS VersionDefaults, TLAPS

-----------------------------------------------------------------------------
(* Types                                                                    *)

\* Whatever the CR in the worker's hands says, it says a version.
LEMMA ReadType ==
    ASSUME TypeOK, pc # "idle"
    PROVE  Read \in Tag
BY ConstantsAssumption DEF TypeOK, Read, Defaulted, Tag

\* What an answer puts into the variable is a version, never nothing.
LEMMA DecodeType ==
    ASSUME TypeOK, pc # "idle", Decode
    PROVE  default' \in Tag
BY ConstantsAssumption DEF TypeOK, Decode, Tag

LEMMA SaveHashType ==
    ASSUME TypeOK, pc # "idle", SaveHash
    PROVE  default' \in Tag /\ hash' \in [CRs -> Tag \cup {None}]
<1>1. CASE kt.fresh
  BY <1>1, ReadType, DecodeType DEF SaveHash, TypeOK
<1>2. CASE ~kt.fresh
  BY <1>2 DEF SaveHash, TypeOK
<1>. QED
  BY <1>1, <1>2

LEMMA InitType == Init => TypeOK
BY ConstantsAssumption DEF Init, TypeOK, PlaceholderWritten

LEMMA NextType == TypeOK /\ [Next]_vars => TypeOK'
<1>. SUFFICES ASSUME TypeOK, [Next]_vars PROVE TypeOK'
  OBVIOUS
<1>. USE ConstantsAssumption
<1>1. ASSUME NEW n \in CRs, NEW v \in Writes, EditCR(n, v) PROVE TypeOK'
  <2>1. tainted' \in BOOLEAN
    BY <1>1 DEF EditCR
  <2>2. used' \in [edits : Nat, restarts : Nat] /\ version' \in [CRs -> Writes]
    BY <1>1 DEF EditCR, TypeOK
  <2>3. IF pc' = "idle" THEN kt' = None
        ELSE kt' \in [cr : CRs, version : Writes, fresh : BOOLEAN] /\ default' # None
    BY <1>1 DEF EditCR, TypeOK
  <2>. QED
    BY <1>1, <2>1, <2>2, <2>3 DEF EditCR, TypeOK
<1>2. ASSUME NEW v \in Versions, Restart(v) PROVE TypeOK'
  <2>1. tainted' \in BOOLEAN
    BY <1>2 DEF Restart, PlaceholderWritten
  <2>2. used' \in [edits : Nat, restarts : Nat]
    BY <1>2 DEF Restart, TypeOK
  <2>. QED
    BY <1>2, <2>1, <2>2 DEF Restart, cluster, TypeOK
<1>3. ASSUME NEW n \in CRs, Get(n) PROVE TypeOK'
  <2>1. kt' \in [cr : CRs, version : Writes, fresh : BOOLEAN]
    BY <1>3 DEF Get, TypeOK
  <2>2. default' \in Tag
    BY <1>3 DEF Get, TypeOK, Tag
  <2>. QED
    BY <1>3, <2>1, <2>2 DEF Get, cluster, TypeOK, Tag
<1>4. CASE PatchFinalizer
  BY <1>4, DecodeType DEF PatchFinalizer, Return, TypeOK
<1>5. CASE SaveHashBeforeRestart
  BY <1>5, SaveHashType DEF SaveHashBeforeRestart, TypeOK, Tag
<1>6. CASE DeleteDeployment
  BY <1>6 DEF DeleteDeployment, Return, TypeOK
<1>7. CASE CreateOrUpdateDeployment
  BY <1>7, ReadType DEF CreateOrUpdateDeployment, TypeOK
<1>8. CASE UpdateStatus
  BY <1>8, SaveHashType DEF UpdateStatus, Return, TypeOK
<1>9. CASE UNCHANGED vars
  BY <1>9 DEF vars, TypeOK
<1>. QED
  BY <1>1, <1>2, <1>3, <1>4, <1>5, <1>6, <1>7, <1>8, <1>9 DEF Next, Worker

\* Every variable keeps its type; above all, once a CR is in the worker's hands, the variable
\* holds a version, so that no image and no hash is ever made of nothing
\* (kubeturbo_types.go, 368-381).
THEOREM TypeCorrect == Spec => []TypeOK
BY InitType, NextType, PTL DEF Spec

-----------------------------------------------------------------------------
(* The default                                                              *)

\* As long as nothing has tainted the variable, nobody has written the placeholder, and a CR
\* whose finalizer is about to be patched is in the API server as the worker read it; later
\* answers come only to the latest copy.
KeptInv ==
    /\ DefaultKept
    /\ ~tainted => ~PlaceholderWritten
    /\ tainted \in BOOLEAN
    /\ version \in [CRs -> Writes]
    /\ pc # "idle" => kt \in [cr : CRs, version : Writes, fresh : BOOLEAN]
    /\ pc # "idle" /\ kt.fresh => version[kt.cr] = kt.version
    /\ pc = "patch" /\ ~tainted => kt.fresh

LEMMA InitKeptInv == Init => KeptInv
BY DEF Init, KeptInv, DefaultKept, PlaceholderWritten

\* An untainted answer never holds a version that the variable stands for.
LEMMA DecodeKeeps ==
    ASSUME KeptInv, ~tainted, pc # "idle", kt.fresh, Decode
    PROVE  default' = default
<1>1. /\ version[kt.cr] = kt.version
      /\ kt.version # Placeholder
  BY DEF KeptInv, PlaceholderWritten
<1>2. CASE Defaulted(kt.version)
  BY <1>1, <1>2 DEF Decode, Defaulted
<1>3. CASE ~Defaulted(kt.version)
  BY <1>3 DEF Decode
<1>. QED
  BY <1>2, <1>3

LEMMA SaveHashKeeps ==
    ASSUME KeptInv, ~tainted, pc # "idle", SaveHash
    PROVE  default' = default
<1>1. CASE kt.fresh
  BY <1>1, DecodeKeeps DEF SaveHash
<1>2. CASE ~kt.fresh
  BY <1>2 DEF SaveHash
<1>. QED
  BY <1>1, <1>2

LEMMA NextKeptInv == KeptInv /\ [Next]_vars => KeptInv'
<1>. SUFFICES ASSUME KeptInv, [Next]_vars PROVE KeptInv'
  OBVIOUS
<1>1. ASSUME NEW n \in CRs, NEW v \in Writes, EditCR(n, v) PROVE KeptInv'
  <2>1. ~tainted' => ~tainted /\ v # Placeholder /\ ~(pc = "patch" /\ kt.cr = n)
    BY <1>1 DEF EditCR
  <2>2. ~tainted' => ~PlaceholderWritten'
    BY <1>1, <2>1 DEF EditCR, KeptInv, PlaceholderWritten
  <2>3. version' \in [CRs -> Writes] /\ tainted' \in BOOLEAN
    BY <1>1 DEF EditCR, KeptInv
  <2>4. DefaultKept'
    BY <1>1, <2>1 DEF EditCR, KeptInv, DefaultKept
  <2>5. CASE pc # "idle" /\ kt.cr = n
    <3>1. kt' = [kt EXCEPT !.fresh = FALSE]
      BY <1>1, <2>5 DEF EditCR
    <3>. QED
      BY <1>1, <2>1, <2>2, <2>3, <2>4, <2>5, <3>1 DEF EditCR, KeptInv
  <2>6. CASE pc # "idle" /\ kt.cr # n
    BY <1>1, <2>1, <2>2, <2>3, <2>4, <2>6 DEF EditCR, KeptInv
  <2>7. CASE pc = "idle"
    BY <1>1, <2>1, <2>2, <2>3, <2>4, <2>7 DEF EditCR, KeptInv
  <2>. QED
    BY <2>5, <2>6, <2>7
<1>2. ASSUME NEW v \in Versions, Restart(v) PROVE KeptInv'
  BY <1>2 DEF Restart, cluster, KeptInv, DefaultKept, PlaceholderWritten
<1>3. ASSUME NEW n \in CRs, Get(n) PROVE KeptInv'
  <2>1. kt' \in [cr : CRs, version : Writes, fresh : BOOLEAN]
    BY <1>3 DEF Get, KeptInv
  <2>. QED
    BY <1>3, <2>1 DEF Get, cluster, KeptInv, DefaultKept, PlaceholderWritten
<1>4. CASE PatchFinalizer
  <2>1. ~tainted => default' = default
    BY <1>4, DecodeKeeps DEF PatchFinalizer, KeptInv
  <2>. QED
    BY <1>4, <2>1 DEF PatchFinalizer, Return, KeptInv, DefaultKept, PlaceholderWritten
<1>5. CASE SaveHashBeforeRestart
  <2>1. ~tainted => default' = default
    BY <1>5, SaveHashKeeps DEF SaveHashBeforeRestart
  <2>. QED
    BY <1>5, <2>1 DEF SaveHashBeforeRestart, KeptInv, DefaultKept, PlaceholderWritten
<1>6. CASE DeleteDeployment
  BY <1>6 DEF DeleteDeployment, Return, KeptInv, DefaultKept, PlaceholderWritten
<1>7. CASE CreateOrUpdateDeployment
  BY <1>7 DEF CreateOrUpdateDeployment, KeptInv, DefaultKept, PlaceholderWritten
<1>8. CASE UpdateStatus
  <2>1. ~tainted => default' = default
    BY <1>8, SaveHashKeeps DEF UpdateStatus
  <2>. QED
    BY <1>8, <2>1 DEF UpdateStatus, Return, KeptInv, DefaultKept, PlaceholderWritten
<1>9. CASE UNCHANGED vars
  BY <1>9 DEF vars, KeptInv, DefaultKept, PlaceholderWritten
<1>. QED
  BY <1>1, <1>2, <1>3, <1>4, <1>5, <1>6, <1>7, <1>8, <1>9 DEF Next, Worker

\* Unless the placeholder is written, or a CR edited between the worker's look at it and the
\* patch of its finalizer, no answer of the API server changes the default version
\* (kubeturbo_types.go, 376-381).
THEOREM DefaultIsKept == Spec => []DefaultKept
<1>1. KeptInv => DefaultKept
  BY DEF KeptInv
<1>. QED
  BY <1>1, InitKeptInv, NextKeptInv, PTL DEF Spec
=============================================================================
