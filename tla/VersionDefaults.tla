--------------------------- MODULE VersionDefaults ---------------------------
(***************************************************************************)
(* The default version of Kubeturbo, and what becomes of it.                *)
(*                                                                          *)
(* SetSpecDefault puts the address of a package variable into a CR that     *)
(* names no version.  When the operator then patches the CR or updates its  *)
(* status, the client decodes the API server's answer into the same CR, and *)
(* thereby into the variable, which every CR shares.                        *)
(*                                                                          *)
(* The image's tag and the version of the server are defaulted alike; one   *)
(* version stands for both.                                                 *)
(*                                                                          *)
(* An operator Mutant... is the definition of the rest of its name with a   *)
(* plausible mistake; the runs show that the properties detect it.          *)
(***************************************************************************)
EXTENDS Naturals

CONSTANTS
    None,           \* an unset version, hash or variable; no Deployment
    CRs,            \* names of the CRs
    Fixed,          \* versions that users name
    Placeholder,    \* the literal "VERSION", which asks for the default as well
    Writes,         \* what users write: members of Fixed, None, Placeholder
    Versions,       \* values of DEFAULT_KUBETURBO_VERSION, over the operator's releases
    MaxEdits, MaxRestarts   \* budgets

ASSUME ConstantsAssumption ==
    /\ None \notin Fixed \cup Versions \cup {Placeholder} \cup CRs
    /\ Placeholder \notin Fixed
    /\ Writes \subseteq Fixed \cup {None, Placeholder}
    /\ MaxEdits \in Nat
    /\ MaxRestarts \in Nat

VARIABLES
    version,   \* the version in the spec of each CR, in the API server
    patched,   \* the CRs that have the operator's finalizer
    hash,      \* status.configHash of each CR: the version it was made of
    image,     \* the version that the Deployment of each CR runs
    env,       \* DEFAULT_KUBETURBO_VERSION of the running operator
    default,   \* its package variable defaultKtVersion
    pc, kt,    \* next call of the worker, and the CR in its hands
    queued,    \* the CRs in the work queue
    tainted,   \* history: what can spoil the default has happened since the process started
    used       \* budgets spent

vars == <<version, patched, hash, image, env, default, pc, kt, queued, tainted, used>>
cluster == <<version, patched, hash, image>>

Tag == Fixed \cup Versions \cup {Placeholder}

TypeOK ==
    /\ version \in [CRs -> Writes]
    /\ patched \subseteq CRs
    /\ hash \in [CRs -> Tag \cup {None}]
    /\ image \in [CRs -> Tag \cup {None}]
    /\ env \in Versions
    /\ default \in Tag \cup {None}
    /\ pc \in {"idle", "patch", "deployment", "deleteDeployment", "updateStatus"}
    /\ IF pc = "idle" THEN kt = None
       ELSE kt \in [cr : CRs, version : Writes, fresh : BOOLEAN] /\ default # None
    /\ queued \subseteq CRs
    /\ tainted \in BOOLEAN
    /\ used \in [edits : Nat, restarts : Nat]

PlaceholderWritten == \E n \in CRs : version[n] = Placeholder

Init ==
    /\ version \in [CRs -> Writes]
    /\ patched = {}
    /\ hash = [n \in CRs |-> None]
    /\ image = [n \in CRs |-> None]
    /\ env \in Versions
    /\ default = None
    /\ pc = "idle"
    /\ kt = None
    /\ queued = CRs
    /\ tainted = PlaceholderWritten
    /\ used = [edits |-> 0, restarts |-> 0]

\* An edit makes the copy in the worker's hands an old one.  The patch of the finalizer does
\* not care, and its answer has the new version.
EditCR(n, v) ==
    /\ used.edits < MaxEdits
    /\ v # version[n]
    /\ version' = [version EXCEPT ![n] = v]
    /\ kt' = IF pc # "idle" /\ kt.cr = n THEN [kt EXCEPT !.fresh = FALSE] ELSE kt
    /\ queued' = queued \cup {n}
    /\ tainted' = (tainted \/ v = Placeholder \/ (pc = "patch" /\ kt.cr = n))
    /\ used' = [used EXCEPT !.edits = @ + 1]
    /\ UNCHANGED <<patched, hash, image, env, default, pc>>

\* The process starts again, perhaps as another release.
Restart(v) ==
    /\ used.restarts < MaxRestarts
    /\ env' = v
    /\ default' = None
    /\ pc' = "idle"
    /\ kt' = None
    /\ queued' = CRs
    /\ tainted' = PlaceholderWritten
    /\ used' = [used EXCEPT !.restarts = @ + 1]
    /\ UNCHANGED cluster

-----------------------------------------------------------------------------
(* The worker                                                               *)

MutantDefaulted(v) == v = Placeholder
Defaulted(v) == v \in {None, Placeholder}

MutantRead == IF default = None THEN kt.version ELSE default
\* What the CR in the worker's hands says at this moment: its own value or the variable.
Read == IF Defaulted(kt.version) THEN default ELSE kt.version

MutantDecode == default' = IF version[kt.cr] # None THEN version[kt.cr] ELSE default
\* The answer holds the version in the API server; decoding follows the pointer.
Decode ==
    default' = IF Defaulted(kt.version) /\ version[kt.cr] # None THEN version[kt.cr]
               ELSE default

Return(again) ==
    /\ pc' = "idle"
    /\ kt' = None
    /\ queued' = queued \cup again

MutantGet(n) ==
    /\ pc = "idle"
    /\ n \in queued
    /\ queued' = queued \ {n}
    /\ default' = IF default # None THEN env ELSE default
    /\ kt' = [cr |-> n, version |-> version[n], fresh |-> TRUE]
    /\ pc' = IF n \in patched THEN "deployment" ELSE "patch"
    /\ UNCHANGED <<cluster, env, tainted, used>>

\* The environment is read once, for the first CR.
Get(n) ==
    /\ pc = "idle"
    /\ n \in queued
    /\ queued' = queued \ {n}
    /\ default' = IF default = None THEN env ELSE default
    /\ kt' = [cr |-> n, version |-> version[n], fresh |-> TRUE]
    /\ pc' = IF n \in patched THEN "deployment" ELSE "patch"
    /\ UNCHANGED <<cluster, env, tainted, used>>

PatchFinalizer ==
    /\ pc = "patch"
    /\ patched' = patched \cup {kt.cr}
    /\ Decode
    /\ Return({kt.cr})
    /\ UNCHANGED <<version, hash, image, env, tainted, used>>

RestartPending == hash[kt.cr] # None /\ hash[kt.cr] # Read

\* A status update based on an old copy fails, and nothing is decoded.
SaveHash ==
    IF kt.fresh
    THEN hash' = [hash EXCEPT ![kt.cr] = Read] /\ Decode
    ELSE UNCHANGED <<hash, default>>

SaveHashBeforeRestart ==
    /\ pc = "deployment"
    /\ RestartPending
    /\ SaveHash
    /\ pc' = "deleteDeployment"
    /\ UNCHANGED <<version, patched, image, env, kt, queued, tainted, used>>

DeleteDeployment ==
    /\ pc = "deleteDeployment"
    /\ image' = [image EXCEPT ![kt.cr] = None]
    /\ Return({kt.cr})
    /\ UNCHANGED <<version, patched, hash, env, default, tainted, used>>

CreateOrUpdateDeployment ==
    /\ pc = "deployment"
    /\ ~RestartPending
    /\ image' = [image EXCEPT ![kt.cr] = Read]
    /\ pc' = "updateStatus"
    /\ UNCHANGED <<version, patched, hash, env, default, kt, queued, tainted, used>>

UpdateStatus ==
    /\ pc = "updateStatus"
    /\ IF hash[kt.cr] = Read
       THEN /\ Return({})
            /\ UNCHANGED <<hash, default>>
       ELSE /\ Return({kt.cr})
            /\ SaveHash
    /\ UNCHANGED <<version, patched, image, env, tainted, used>>

Worker ==
    \/ \E n \in CRs : Get(n)
    \/ PatchFinalizer
    \/ SaveHashBeforeRestart
    \/ DeleteDeployment
    \/ CreateOrUpdateDeployment
    \/ UpdateStatus

Next ==
    \/ \E n \in CRs, v \in Writes : EditCR(n, v)
    \/ \E v \in Versions : Restart(v)
    \/ Worker

Spec == Init /\ [][Next]_vars

FairSpec == Spec /\ WF_vars(Worker)

-----------------------------------------------------------------------------
(* Properties                                                               *)

\* Once users stop, a CR with a version of its own runs that version, whatever the other CRs
\* do to the default: "Won't affect the scenario if the client want to use a fixed version"
\* (kubeturbo_types.go, lines 363-367).
FixedVersionServed == <>[](\A n \in CRs : version[n] \in Fixed => image[n] = version[n])

\* A CR without one runs the version that the running operator was released with: "always
\* up-to-date when the operator bumping up its version" (kubeturbo_types.go, lines 363-367).
\* Not so once the variable is tainted; a restart of the operator repairs what became of that.
DefaultVersionServed ==
    <>[](~tainted => \A n \in CRs : version[n] \notin Fixed => image[n] = env)

\* The variable is unset or what the environment says: no answer of the API server changes it,
\* although answers are decoded through pointers to it (kubeturbo_types.go, lines 376-381),
\* unless the placeholder is written, or a CR edited just before its finalizer is patched.
DefaultKept == ~tainted => default \in {None, env}
=============================================================================
