--------------------------- MODULE KubeturboConfig ---------------------------
(***************************************************************************)
(* What the operator makes of a spec: turbo.config, the dynamic file, the   *)
(* pod template with the container's arguments, and the rules of its role.  *)
(* Users edit the spec field by field; the operator takes it up in cycles   *)
(* of its own, several edits at a time.                                     *)
(*                                                                          *)
(* A file is a set of entries <<key, value>>, a key being the path of names *)
(* that leads to the value.                                                 *)
(*                                                                          *)
(* An operator Mutant... is the definition of the rest of its name with a   *)
(* plausible mistake; the runs show that the properties detect it.          *)
(***************************************************************************)
EXTENDS Naturals, Sequences

CONSTANTS
    None,      \* an unset field: a nil pointer or slice, an empty map or string
    Word,      \* the values of a field whose value is copied as it is
    Version,   \* the same, of the fields that name a release
    Segment,   \* pieces of HANodeConfig.nodeRoles between two commas
    Malformed, \* those that the code cannot index: empty, or a lone quotation mark
    Unquote,   \* a piece without its quotation marks
    RolesList, \* the values of HANodeConfig.nodeRoles: nonempty sequences of pieces
    DefaultVersion, \* DEFAULT_KUBETURBO_VERSION
    Placeholder, \* the version that stands for it
    IfNotPresent, \* the default pull policy
    DefaultNamespaces, \* default patterns of the system's namespaces
    MaxEdits   \* budget

ASSUME ConstantsAssumption ==
    /\ Malformed \subseteq Segment
    /\ Unquote \in [Segment \ Malformed -> Word]
    /\ RolesList \subseteq Seq(Segment) \ {<<>>}
    /\ {DefaultVersion, Placeholder} \subseteq Version
    /\ {IfNotPresent, DefaultNamespaces} \subseteq Word
    /\ \A w \in Word \cup Version : w # None
    /\ \A r \in RolesList : r # None
    /\ \A b \in BOOLEAN : b # None
    /\ \A a \in SUBSET {"controllable", "own"} : a # None
    /\ MaxEdits \in Nat

\* Fields that turbo.config copies, and those of the login.
StaticField == {"version", "turboServer", "proxy", "registrationTimeoutSec",
                "restartOnRegistrationTimeout", "featureGates", "targetName",
                "containerSpec", "namespace", "workloadController"}
LoginField == {"opsManagerUserName", "opsManagerPassword"}

\* Fields that the dynamic file copies.
DynamicField == {"level", "min", "max", "systemNamespaces", "controlledWorkloads",
                 "controlledNamespaces", "daemonNamespaces", "daemonPodNames",
                 "chunkSendDelayMillis", "numObjectsPerChunk"}
WiremockField == {"wiremockEnabled", "wiremockUrl"}

\* A field's name stands for the key that the sample ConfigMap and the helm template give it
\* (deploy/kubeturbo/templates/configmap.yaml); these fields the code writes under other keys.
Renamed == [nodeRoles          |-> "roles",
            containerSpec      |-> "annotationWhiteList.containerSpec",
            namespace          |-> "annotationWhiteList.namespace",
            workloadController |-> "annotationWhiteList.workloadController",
            level              |-> "logging",
            max                |-> "mac",
            daemonNamespaces   |-> "daemonPodDetectors.operatorControlledWorkloadsPatterns",
            daemonPodNames     |-> "daemonPodDetectors.operatorControlledNamespacePatterns"]
Key(f) == IF f \in DOMAIN Renamed THEN Renamed[f] ELSE f

\* Fields that the container has a flag for.
ArgField == {"logginglevel", "kubelethttps", "kubeletport", "sccsupport",
             "readinessRetryThreshold", "failVolumePodMoves", "busyboxRepository",
             "cpufreqgetterRepository", "busyboxExcludeNodeLabels", "stitchuuid",
             "cleanupSccImpersonationResources", "skipCreatingSccImpersonationResources",
             "gitEmail", "gitUsername", "gitSecretName", "gitSecretNamespace",
             "gitCommitMode", "satelliteLocationProvider", "discoveryIntervalSec",
             "discoverySampleIntervalSec", "discoverySamples", "discoveryTimeoutSec",
             "garbageCollectionIntervalMin", "discoveryWorkers", "imagePullSecret"}

\* Fields of the pod template, and those of the role and its binding.
TemplateField == {"repository", "tag", "imagePullSecret", "pullPolicy", "resources",
                  "serviceAccountName", "nodeSelector", "affinity", "tolerations",
                  "turbonomicCredentialsSecretName"}
OrmField == {"ormApiGroup", "ormResources"}
RightsField == {"roleName", "roleBinding"} \cup OrmField

VersionField == {"version", "tag"}
WordField == StaticField \cup LoginField \cup DynamicField \cup ArgField \cup TemplateField
                \cup RightsField \cup {"wiremockUrl", "replicaCount"}
SwitchField == {"wiremockEnabled", "pre16k8sVersion"}
Field == WordField \cup SwitchField \cup {"nodeRoles", "annotations"}

ValuesOf(f) ==
    IF f \in VersionField THEN Version
    ELSE IF f \in WordField THEN Word
    ELSE IF f \in SwitchField THEN BOOLEAN
    ELSE IF f = "nodeRoles" THEN RolesList
    ELSE SUBSET {"controllable", "own"}

IsSpec(s) ==
    /\ s = [f \in Field |-> s[f]]
    /\ \A f \in Field : s[f] \in ValuesOf(f) \cup {None}

-----------------------------------------------------------------------------
(* Defaults and the check of required fields                                *)

\* Annotations without the operator's own key are replaced as a whole.
SetSpecDefault(s) ==
    [s EXCEPT !["version"] = IF @ \in {None, Placeholder} THEN DefaultVersion ELSE @,
              !["tag"] = IF @ \in {None, Placeholder} THEN DefaultVersion ELSE @,
              !["annotations"] = IF @ # None /\ "controllable" \in @ THEN @
                                 ELSE {"controllable"},
              !["systemNamespaces"] = IF @ = None THEN DefaultNamespaces ELSE @]

CheckList == {"roleName", "roleBinding", "serviceAccountName", "repository", "turboServer",
              "turbonomicCredentialsSecretName", "nodeRoles"}

AllSet(s, fields) == \A f \in fields : s[f] # None

MutantVerifySubfields(s) == AllSet(s, CheckList \cup {"tag"})
VerifySubfields(s) == AllSet(s, CheckList)

-----------------------------------------------------------------------------
(* Rendering                                                                *)

Copied(s, fields) == {<<Key(f), s[f]>> : f \in {g \in fields : s[g] # None}}
Together(s, fields) == IF AllSet(s, fields) THEN Copied(s, fields) ELSE {}

\* Indexing the first character of an empty piece, or cutting a lone mark, panics.
Panics(s) == \E i \in DOMAIN s["nodeRoles"] : s["nodeRoles"][i] \in Malformed

Roles(s) == [i \in DOMAIN s["nodeRoles"] |-> Unquote[s["nodeRoles"][i]]]

MutantBuildKubeturboConfig(s) ==
    Copied(s, StaticField \cup {"level"}) \cup Together(s, LoginField) \cup {<<Key("nodeRoles"), Roles(s)>>}

\* A login is written as a whole or not at all.
BuildKubeturboConfig(s) ==
    Copied(s, StaticField) \cup Together(s, LoginField) \cup {<<Key("nodeRoles"), Roles(s)>>}

Wiremock(s) == IF s["wiremockEnabled"] = TRUE THEN Together(s, WiremockField) ELSE {}

MutantBuildKubeturboDynamicConfig(s) ==
    Copied([s EXCEPT !["daemonPodNames"] = s["daemonNamespaces"]], DynamicField) \cup Wiremock(s)

BuildKubeturboDynamicConfig(s) == Copied(s, DynamicField) \cup Wiremock(s)

ContainerArgs(s) ==
    Copied(s, ArgField)
        \cup (IF s["pre16k8sVersion"] = TRUE THEN {<<"k8sVersion", "1.5">>} ELSE {})

PullPolicy(s) == IF s["pullPolicy"] = None THEN IfNotPresent ELSE s["pullPolicy"]

\* A change of the template replaces the pod; one of the replicas does not.
Template(s) ==
    [fields      |-> [f \in TemplateField |-> IF f = "pullPolicy" THEN PullPolicy(s) ELSE s[f]],
     annotations |-> s["annotations"],
     args        |-> ContainerArgs(s)]

\* The rule for the owners is added when both of its fields are set.
Rights(s) ==
    [role    |-> s["roleName"],
     binding |-> s["roleBinding"],
     orm     |-> Together(s, OrmField)]

Render(s) ==
    LET d == SetSpecDefault(s)
    IN  [static   |-> BuildKubeturboConfig(d),
         dynamic  |-> BuildKubeturboDynamicConfig(d),
         template |-> Template(d),
         replicas |-> d["replicaCount"],
         rights   |-> Rights(d)]

-----------------------------------------------------------------------------
VARIABLES
    spec,    \* the spec of the CR
    taken,   \* history: the spec of the last cycle that ended, or None
    out,     \* what that cycle wrote to the cluster, or None
    process, \* the operator's process is "up" or "down"
    edits    \* budget spent

vars == <<spec, taken, out, process, edits>>

TypeOK ==
    /\ IsSpec(spec)
    /\ taken # None => IsSpec(taken)
    /\ process \in {"up", "down"}
    /\ edits \in 0..MaxEdits

\* A new CR has its required fields, from its author or from the CRD's defaults.
Init ==
    /\ \E r \in RolesList, w \in Word :
          /\ \A i \in DOMAIN r : r[i] \notin Malformed
          /\ spec = [f \in Field |-> IF f = "nodeRoles" THEN r
                                     ELSE IF f \in CheckList THEN w ELSE None]
    /\ taken = None
    /\ out = None
    /\ process = "up"
    /\ edits = 0

EditCR(f, v) ==
    /\ edits < MaxEdits
    /\ v # spec[f]
    /\ spec' = [spec EXCEPT ![f] = v]
    /\ edits' = edits + 1
    /\ UNCHANGED <<taken, out, process>>

\* A spec that misses a required field pauses the operator.
Reconcile ==
    /\ process = "up"
    /\ VerifySubfields(spec)
    /\ ~Panics(spec)
    /\ taken # spec
    /\ taken' = spec
    /\ out' = Render(spec)
    /\ UNCHANGED <<spec, process, edits>>

\* Nothing recovers the panic: the process ends, and finds the same spec when it is back.
Panic ==
    /\ process = "up"
    /\ VerifySubfields(spec)
    /\ Panics(spec)
    /\ process' = "down"
    /\ UNCHANGED <<spec, taken, out, edits>>

Restart ==
    /\ process = "down"
    /\ process' = "up"
    /\ UNCHANGED <<spec, taken, out, edits>>

Operator == Reconcile \/ Panic \/ Restart

Next ==
    \/ \E f \in Field : \E v \in ValuesOf(f) \cup {None} : EditCR(f, v)
    \/ Operator

Spec == Init /\ [][Next]_vars
FairSpec == Spec /\ WF_vars(Operator)

-----------------------------------------------------------------------------
(* Properties                                                               *)

\* What is changed without a restart of the pod: the dynamic file, the replicas, and the role
\* and its binding.
NoRestartField == DynamicField \cup WiremockField \cup RightsField \cup {"replicaCount"}

SameExcept(s, t, fields) == \A f \in Field \ fields : s[f] = t[f]

\* However many such edits a cycle takes up, it leaves turbo.config and the pod template as
\* they are, so neither its hash nor the Deployment restarts the pod (reconciler.go, 459-524).
PodKept ==
    [][(/\ out # None
        /\ SameExcept(taken, taken', NoRestartField))
          => out'.static = out.static /\ out'.template = out.template]_vars

\* What a field counts for: with its default, and with those it counts together with.
Meaning(s, f) ==
    LET d == SetSpecDefault(s)
        if(condition) == IF condition THEN d[f] ELSE None
    IN  CASE f = "nodeRoles"       -> Roles(d)
          [] f = "pullPolicy"      -> PullPolicy(d)
          [] f = "pre16k8sVersion" -> d[f] = TRUE
          [] f \in LoginField      -> if(AllSet(d, LoginField))
          [] f \in OrmField        -> if(AllSet(d, OrmField))
          [] f \in WiremockField   -> if(d["wiremockEnabled"] = TRUE /\ AllSet(d, WiremockField))
          [] OTHER                 -> d[f]

Changed(f) == taken # None /\ Meaning(taken', f) # Meaning(taken, f)

\* What a reader of a file finds under a key.
Found(file, key) == {e[2] : e \in {d \in file : d[1] = key}}

\* Fields whose documented key no file has.
Misnamed == {"nodeRoles", "containerSpec", "namespace", "workloadController",
             "level", "max", "daemonNamespaces", "daemonPodNames"}

\* A reader of the file sees a change, and, who looks under the documented key, what the field
\* is now.
Reaches(f, file, next, s) ==
    /\ next # file
    /\ f \notin Misnamed => Found(next, f) = {Meaning(s, f)} \ {None}

StaticFile == StaticField \cup LoginField \cup {"nodeRoles"}
DynamicFile == DynamicField \cup WiremockField
TemplatePart == TemplateField \cup ArgField \cup {"pre16k8sVersion", "annotations"}

\* No edit of any field is lost on its way to where it belongs: no two fields share a key, none
\* is read in the place of another (reconciler.go, 112-321, 377-524, 582-725).  Of a misnamed
\* field a file shows only that something has changed.
NoEditLost ==
    [][\A f \in Field : Changed(f) =>
          /\ f \in StaticFile => Reaches(f, out.static, out'.static, taken')
          /\ f \in DynamicFile => Reaches(f, out.dynamic, out'.dynamic, taken')
          /\ f \in TemplatePart => out'.template # out.template
          /\ f \in RightsField => out'.rights # out.rights
          /\ f = "replicaCount" => out'.replicas # out.replicas]_vars

Acceptable(s) == AllSet(s, CheckList) /\ ~Panics(s)

\* Once users stop, an acceptable spec is taken up for good, whatever they wrote before: a
\* field that only its default fills in never pauses the operator (kubeturbo_types.go, 360-460).
AcceptableIsServed == <>[](Acceptable(spec) => taken = spec)
=============================================================================
