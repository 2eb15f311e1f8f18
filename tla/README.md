# Verification of the kubeturbo operator

TLA+ models of the kubeturbo operator, TLC configurations that check them on
small instances, and TLAPS proofs that hold for every instance. Paths below are
relative to `src/`.

## 1. The system

The operator is a Kubernetes controller in Go. Users write a `Kubeturbo` custom
resource (CR); the operator keeps a ConfigMap, a ServiceAccount, a ClusterRole, a
ClusterRoleBinding and a Deployment as the CR says, and tears them down when the CR
is deleted.

| component | files | state | operations |
|---|---|---|---|
| controller | `internal/controller/kubeturbo_controller.go`, `internal/reconcile/reconcile.go` | work queue, copy of the CR during a cycle | one reconcile cycle: get, defaults, finalizers, deletion, requeue |
| reconciler | `internal/api/kubeturbo/reconciler.go` | none of its own: the five derived objects, `status.configHash` | create or update each object, restart the pod, publish the hash, tear down |
| requests | `internal/request/request.go`, `internal/api/kubeturbo/request.go` | none | CreateOrUpdate, Update, UpdateStatus, DeleteIfExists, List, label values |
| CR type | `api/v1/kubeturbo_types.go` | package variable with the default version | `SetSpecDefault`, `VerifySubfields` |
| rendering | `internal/api/kubeturbo/reconciler.go` 377-524 | none | `turbo.config` and `turbo-autoreload.config` from the spec |
| startup | `cmd/main.go`, `internal/runnable/CRDCheck.go` | two channels | manager, CRD check, gate of the worker |
| utils | `internal/utils/` | none | `ReturnOnError`, map builder, environment |
| install script | `scripts/install_kubeturbo_via_operator.sh` | the cluster | install, upgrade, uninstall |
| migration script | `scripts/oauth2_probe_migration.sh` | the cluster, the Turbo server | OAuth2 client, secret, restart of the probe |
| v1alpha1, deep copies, manifests, helm chart, e2e tests | `api/v1alpha1/`, `deploy/`, `config/`, `test/` | none | none |

**How they interact.** The controller runtime keeps informer caches of everything
the operator reads. A change of the CR, or of a ConfigMap, ServiceAccount or
Deployment that a CR owns, puts the CR's key in the work queue
(`kubeturbo_controller.go` 183-192); ClusterRoles and ClusterRoleBindings are not
watched. One worker takes the key and runs `Reconcile`: it reads the CR from the
cache and either tears it down, patches its finalizers, or calls, in this order,
ConfigMap, ServiceAccount, ClusterRole, ClusterRoleBinding, Deployment, status
(`reconciler.go` 54-63). Every one of these is a read from a cache followed by at
most one write to the API server, which refuses a write based on an old version.
The first error ends the cycle and puts the key back in the queue.

The pod reads `turbo.config` once, when it starts. So that an edit reaches it, the
operator keeps the hash of `turbo.config` in `status.configHash`; when the hash of the
spec differs, it saves the new hash and deletes the Deployment, which a later cycle
creates again (73-92).

**What is hard.** Steps of users, garbage collector, kubelet and other controllers
between any two calls of a cycle; caches that lag behind each other; calls that
fail or whose error is dropped (85); a crash between the calls; a teardown that
starts when the CR is already gone; a new CR of the same name in the middle of it;
and the progress of the whole, which rests on who queues the CR when.

**What makes each component correct.**

- controller and reconciler: once users stop, the objects and the pod are as the spec
  says; the pod restarts only because `turbo.config` changed; the published hash is
  that of the ConfigMap; a deleted CR goes and nothing of it stays; a binding always
  names a role that exists; the running pod keeps its ServiceAccount.
- CR type: a spec that passes `VerifySubfields` has every field the rest
  dereferences; defaults are idempotent and independent of earlier CRs.
- rendering: a dynamic field never changes `turbo.config`; rendering succeeds on every
  accepted spec.
- startup: no CR is reconciled before the CRD check passed; after a failure the process
  ends and does not wait.
- requests: instance labels are valid label values, and differ for different CRs.
- several CRs: what one does to its objects, the teardown included, leaves those of the others alone.
- scripts: a run that fails anywhere and is repeated ends like one that succeeds; what a script reports as
  done is done.

## 2. Modules

| module | models |
|---|---|
| `KubeturboOperator` | one CR name, its objects, the worker, caches, users, garbage collector, kubelet, faults, crashes |
| `MCKubeturboOperator` | the values of the constants for TLC |
| `Custody` | abstract: for which CR objects are made, kept and taken away |
| `KubeturboOperatorProofs` | the core's safety: types, restarts, bindings, the pod's account, the published hash; the core implements `Custody` |
| `OAuth2Migration` | the migration script, the secret, the Deployment and its pod, faults, interruption, reruns |
| `MCOAuth2Migration` | the values of its constants for TLC |
| `OAuth2MigrationProofs` | the login is safe; a success is true |
| `OperatorStartup` | the operator's process: manager, CRD check, channels, waiting worker; the CRD |
| `OperatorStartupProofs` | no cycle before the check |
| `KubeturboConfig` | what becomes of every field of the spec: defaults, required fields, `turbo.config`, the dynamic file, the pod template, the rights |
| `MCKubeturboConfig` | the values of its constants for TLC |
| `KubeturboConfigProofs` | which edits reach which file |
| `VersionDefaults` | several CRs and the one package variable with the default version |
| `MCVersionDefaults` | the values of its constants for TLC |
| `VersionDefaultsProofs` | type correctness; when the variable keeps its value |
| `CRFinalizers` | the list of finalizers, which other controllers change and the operator patches back |
| `MCCRFinalizers` | the values of its constants for TLC |
| `CRFinalizersProofs` | what the loop leaves of any list; derived objects have a held CR |
| `Releases` | several CRs and the operators of their namespaces; the names of ServiceAccounts, ClusterRoles and bindings |
| `MCReleases` | the values of its constants for TLC |
| `ReleasesProofs` | an object whose name nobody shares stays |
| `CredentialHandover` | abstract: what the migration promises of login, client and pod |
| `InstallScript` | the install script in several namespaces, its runs, interruptions and failing calls, and the operator as far as the script meets it |
| `MCInstallScript` | the values of its constants for TLC |
| `InstallScriptProofs` | rights are kept; the operator goes last |

`OAuth2Migration` instantiates `CredentialHandover` (`Handover`) and implements it: `login` and `client` are what the
secret holds, `issued` the clients minted, `read` what the pod holds, `told` a report of success.

`KubeturboOperator` instantiates `Custody` and implements it: `latest` is the number of CRs created, `live` the UID of the CR that
is there, `holder` the UID in each object's instance label (`Holder`). `Custody` has no worker, cache, copy or crash. It says that
an object is made only for the CR that is there at that moment (`Make`); that a ClusterRole, which no garbage collector, user or
bring-up deletes, is never taken from that CR (`Retire`); and that the ServiceAccount that a late teardown writes under a CR
that is gone (`LeaveBehind`) comes only while no later CR has an object. The other objects may go at any time (`Lose`).

Each of the other modules takes up what the core reduces. In the core a spec is the content of its ConfigMap, its role
and its ServiceAccount; `KubeturboConfig` has the fields this content is made of. The core has one foreign
finalizer and a patch that leaves the operator's own; `CRFinalizers` has the list and the loop. The core has one CR;
`Releases` has several, without edits and lagging caches. In `VersionDefaults` several CRs meet in the operator's
memory, and in `InstallScript` in the rights of their operators. They are not composed with the core: each
adds a dimension to it (fields, lists, names, namespaces), and the product would be too large to check.

`KubeturboOperator` and `OperatorStartup` share the worker: the core's cycles are those of a process whose
gate is open, and its `Crash` is one more stop and start of that process. They are not composed, because
the gate keeps the core from starting and has no other effect on it. `OAuth2Migration` meets the core
in the Deployment: its `Reconcile` is the effect of a whole cycle of the core on replicas and
volumes.

### State of `KubeturboOperator`

- `cr`, `cm`, `sa`, `role`, `crb`, `dep`: the objects in the API server. `sa` is indexed by
  name and `role` by role, because a spec may name another one later. `uid` is the
  CR's UID in an object's instance label, `owner` the one in its owner reference: the two
  differ after a recreation, since the label is written again and
  `SetControllerReference`'s error on an object with another owner is dropped
  (`internal/request/request.go` 41-43).
- `view`: the same objects as the informer caches have them.
- `pod`: the content of `turbo.config` it read, its ServiceAccount, and whether its
  Deployment is gone.
- `pc`, `kt`, `queued`: the next call of the worker, its copy of the CR, and whether
  the key is queued.
- `used`: the budgets spent. `gen`, `restarts`: history, read by no action's guard.

### Actions and code

| action | code |
|---|---|
| `Get` | `kubeturbo_controller.go` 62-110: read, `SetSpecDefault`'s refusal, choice of branch |
| `RemoveFinalizer`, `WaitForPodDeletion` | 109-125, 169-181 |
| `CleanUpServiceAccount`, `CleanUpClusterRole`, `CleanUpClusterRolebinding` | `reconciler.go` 750-797 |
| `PatchFinalizer` | `kubeturbo_controller.go` 133-154 |
| `CreateOrUpdateConfigMap` ... `CreateOrUpdateClusterRoleBinding`, `DeleteClusterRoleBinding` | `reconciler.go` 323-361, 526-725 |
| `SaveHashBeforeRestart`, `DeleteDeployment`, `CreateOrUpdateDeployment` | 69-233 |
| `UpdateClusterResource` | 727-740 |
| `Fault` | an error of any of these calls; the CR is queued again, except where the code drops the error |
| `Crash` | the process dies; the caches are listed and every CR queued at the restart |
| `CreateCR`, `EditCR`, `DeleteCR`, `Tamper` | users |
| `CollectGarbage`, `StartPod`, `StopPod`, `Sync` | Kubernetes and the informers |

`PROJECT.json` maps every definition to its lines.

### `OAuth2Migration` and the script

`secret` is `turbonomic-credentials` (a login, an OAuth2 client, both kinds in one record), `loginInFile` whether
`turbo.config` holds the login, `mounts` and `replicas` the Deployment, `pod` the pod with the client it read at
its start, `minted` the number of clients the server has made. `pc` and `held` are the script's place and
the client it holds. `managed` tells whether the Deployment belongs to a CR, `named` whether that CR names
`turbonomic-credentials` as its secret: users may name another (`kubeturbo_types.go` 180-182), and the operator mounts
the one they name (`reconciler.go` 215).

| action | `scripts/oauth2_probe_migration.sh` |
|---|---|
| `Start` | `main`'s choice of a Deployment, 31-101, 464-520 |
| `CheckCurrentStatus` | `check_current_status` 9-28 |
| `LoginToServer` | reading the login from the secret or the ConfigMap, 104-212, 406-431 |
| `RequestClient` | 215-276 |
| `DeleteSecret`, `CreateSecret` | 279-305: delete, its error dropped, then create |
| `CheckMounted`, `PatchDeployment` | 308-403 |
| `ScaleDown`, `ScaleUp` | 434-458 |
| `Fault` | a failing call; `IgnoredAt` lists the calls whose error the script does not look at |
| `Interrupt`, `Evict` | the user's terminal, the cluster |
| `StartPod`, `StopPod`, `Reconcile` | Deployment controller and kubelet; `mutateDeployment` of the operator |

### `OperatorStartup` and the code

`process` is the operator's process, `check` the CRD check's next step or outcome, `crdCheckDone` and
`postCheckDone` the closed channels, `worker` the controller's worker, `crd` the CRD in the cluster.

| action | code |
|---|---|
| `StartManager`, `Exit` | `cmd/main.go` 148-197 with the restart by the operator's own Deployment |
| `IsCrdExists`, `IsCrdUpToDate`, `Fail`, `ReadFails` | `CRDCheck.go` 48-82, 150-196 |
| `PostChecksDone` | `cmd/main.go` 182-190 |
| `BeginCycle`, `PassGate`, `EndCycle` | `kubeturbo_controller.go` 62-66 and the rest of the cycle |
| `SyncTimeout`, `ChangeCRD`, `Terminate` | the manager's caches, users, signals |

### `KubeturboConfig` and the code

`spec` is a function from the fields to a value or `None`; `taken` and `out` are the spec of the last cycle and what
that cycle wrote; `process` is the operator's process. A rendered file is a set of entries, key and value. A field
bears the name of the key that the helm template (`deploy/kubeturbo/templates/configmap.yaml`) and the sample ConfigMap give it;
`Renamed` has the keys that the code writes instead.

| definition | code |
|---|---|
| `SetSpecDefault`, `VerifySubfields`, `CheckList` | `kubeturbo_types.go` 359-460 |
| `BuildKubeturboConfig`, `Roles`, `Panics` | `reconciler.go` 377-457 |
| `BuildKubeturboDynamicConfig`, `Wiremock` | 459-524 |
| `Renamed` | 422-503 |
| `ContainerArgs`, `Template`, `PullPolicy` | 112-321; the default pull policy, 122-125 |
| `Rights` | 582-687 |
| `Reconcile`, `Panic`, `Restart` | a cycle; the panic of line 417, which nothing recovers; the pod's restart |

### `VersionDefaults` and the code

`version` is what users wrote, `env` the environment of the running operator, `default` the variable, `kt` the CR in
the worker's hands: `Read` is what its version is at this moment, since it may be the variable's.

| action | code |
|---|---|
| `Get` | `SetSpecDefault` 361-381 and `utils.GetDefaultKubeturboVersion` |
| `PatchFinalizer`, `UpdateStatus`, `SaveHashBeforeRestart` with `Decode` | the calls whose answer the client decodes into the CR it was given |
| `CreateOrUpdateDeployment`, `DeleteDeployment` | `reconciler.go` 69-98 |
| `EditCR`, `Restart` | users; the operator's process, perhaps of another release |

### `CRFinalizers` and the code

`cr` and `seen` are the CR in the API server and in the cache, `kt` the worker's copy, `objects` whether anything derived
from the CR exists.

| definition | code |
|---|---|
| `Stricken`, `Compacted`, `Cleaned` | `kubeturbo_controller.go` 93-106 and `controllerutil.RemoveFinalizer`, which compacts in place |
| `Get`, `UpdateCR`, `Teardown` | 74-131 |
| `NeedToUpdateCR`, `PatchCR` | 133-154 |
| `OtherController`, `CreateCR`, `DeleteCR`, `Sync` | the rest of the cluster |

### `Releases` and the code

A release is a CR with the fields that name its objects. `phase` and `finalizer` are its CR, `sa`, `role` and `crb` the
objects by name, `pc` and `kt` the operator of each namespace.

| definition | code |
|---|---|
| `ClusterRoleName`, `ClusterRoleBindingName`, `ServiceAccount` | `reconciler.go` 558, 686, 527 |
| `Get`, `UpdateCR`, `PatchFinalizer` | `kubeturbo_controller.go` 62-154 |
| `CleanUp...`, `ListedRoles`, `ListedBindings` | `reconciler.go` 750-797: what is deleted is selected by the instance label |
| `CreateOrUpdate...`, `WriteServiceAccount`, `Event` | 526-725; `internal/request/request.go` |
| `CollectGarbage`, `Resync` | Kubernetes; the informers |

### `InstallScript` and the script

`pc`, `action` and `exists` are the script of each namespace, `told` its last report, `binding` the subjects of the
operators' ClusterRoleBinding, which all namespaces share; the rest is what the operator does.

| action | `scripts/install_kubeturbo_via_operator.sh` |
|---|---|
| `Start`, `SetupKubeturbo` | the order of the calls, 251-331 |
| `LookUpBinding`, `Bind` | 853-874 |
| `ApplyOperator`, `ApplyCR`, `DeleteCR`, `AwaitDeletion`, `DeleteOperator` | the `kubectl apply` and `delete` of operator and CR |
| `WaitForDeployment`, `GiveUp` | 785-823 |
| `Fault`, `Interrupt` | a call that fails unnoticed; the user's terminal |
| `PatchFinalizer`, `Reconcile`, `RemoveFinalizer`, `TearDown`, `CollectGarbage` | the operator, if it runs and is bound; Kubernetes |

### Abstractions

- One CR name and one worker (the controller's default). A CR may be created again under
  its name, with a new UID.
- A spec is the content of its ConfigMap, its role and its ServiceAccount. A content stands for
  both files; `StaticPart` gives its `turbo.config`, which stands for its hash.
  Distinct contents are taken to have distinct FNV-64 hashes.
- A spec that `SetSpecDefault` rejects is a member of `IncompleteSpecs`. The API server's own
  defaulting of the CRD is not modelled: an old CRD is why the check exists.
- `spec.roleBinding` does not change. The code never deletes the binding of an earlier
  name, and says so (`kubeturbo_types.go` 69-71).
- The informer of a kind jumps to the latest version, per kind; caches of different kinds lag
  independently. `Lagging` names the kinds that lag in a run; the others are brought up to
  date before anything else happens (`Settled`).
- Optimistic concurrency on the CR compares UID and version; on the derived objects it
  compares values, so an object that was changed and changed back counts as unchanged.
- `mutateDeployment` leaves out what the API server fills in, so `CreateOrUpdate` always sends
  an update of the Deployment; the other objects are written only when they differ.
- The finalizer patch is a JSON "replace" without a version. It is taken to be accepted on a CR
  that has no finalizers yet.
- One foreign finalizer stands for those of the helm operator. The loop that removes them steps over one
  of two adjacent ones; `CRFinalizers` has it.
- One pod at a time: the Deployment's strategy is Recreate. A pod whose Deployment is
  gone stops before the next starts.
- The end of the wait for the pod after five seconds, and a failed list of pods, are `Fault`s.
- Requeue delays and back-off only order the steps; time is not modelled.

Of `OAuth2Migration`:

- One Deployment with one replica. Prompts, choice menus and parsing are left out; that the user declines is a run
  that does not start.
- A login that is known is accepted by the server, unless a fault strikes.
- The look at the old secret and its deletion are one step, as nobody else writes the secret. A creation whose answer is lost leaves what an
  interruption after it leaves.
- The Deployment controller looks at states, not at changes: a Deployment scaled to zero and back before it
  looks keeps its pod.
- The script mounts the secret as a volume that is not optional; that such a pod would wait for a missing
  secret is left out. It starts without a client instead, which only makes `PatchedMeansMigrated` harder.
- The operator's `Reconcile` may come at any moment, between any two steps of the script.

Of `KubeturboConfig`:

- A field is unset or a word; structures are taken apart into their fields, and the words of a field are not told
  apart by more than equality. An empty string, slice or map is unset, as `omitempty` makes it; `resources` that are
  there and empty count as unset.
- Of the node role list the pieces are kept, and which of them the code cannot index.
- The two fields that name a release (`version` of the server, `tag`) take the default when they are unset or have the
  placeholder. That the default is a variable, which answers may overwrite, is `VersionDefaults`.
- A cycle is one step, and it finds the spec of that moment. What comes between its calls is the core's.

Of `VersionDefaults`:

- One version stands for the image's tag and the server's version. Caches do not lag, but a copy in
  the worker's hands grows old with an edit, and a status update based on it fails.
- `status.configHash` is the version it was made of, and a Deployment its image.

Of `CRFinalizers`:

- The derived objects are one Boolean, which a whole cycle sets and a whole teardown clears.
- The patch of a CR in deletion is refused if it adds a finalizer, as the API server does.
- A CR is created again at most under its own name; the budgets bound how often, and how often others change the list.

Of `Releases`:

- Each release is created and deleted at most once and never edited. Calls do not fail, and caches do not lag.
- A name is the sequence of its words, so joining with dashes is concatenation. The instance label is
  the release: it holds the UID of the CR, so the cut of a long name does not make labels equal.
- ConfigMap and Deployment bear the CR's own name in its own namespace and are left out.
- The operator watches one namespace. A ServiceAccount queues the release that owns it; ClusterRoles and bindings
  queue nobody.

Of `InstallScript`:

- The path over the plain bundle. OperatorHub's, where OLM manages the rights, and the t8c client with
  its tunnel are left out; so are the secrets, downloads and prompts.
- The operator makes Kubeturbo's Deployment and its rights in one step and tears down in another. It needs its
  own subject in the operators' binding for every step.
- Cluster-wide objects of the bundle, the operators' binding among them, are not deleted by the script.
- A failing call is passed over, which is what the script does with all but the waits.

Of `OperatorStartup`:

- A CR is always there to be reconciled while there is a CRD.
- The manager's cache timeout may come or not whenever the CRD is missing. The grace period after which `main` exits with a
  worker still waiting always ends.
- One replica of the operator; leader election is left out. So is the event that the check records.

## 3. Runs

The budgets bound what users and failures do, and are in the guards of these actions only: `MaxCreates`, `MaxEdits`,
`MaxTampers`, `MaxCrashes` and `MaxFaults` in the core, `MaxForeign` for the changes of other controllers, `MaxRestarts` for
the operator's process, `MaxRuns`, `MaxFaults` and `MaxInterrupts` for the scripts. The operator and the cluster are
unbounded. `Releases` has no budget: each release lives once. All constants of the core's runs are small: two
`turbo.config`s (one with two dynamic files), two roles of the operator's own and one of the user's, two
ServiceAccount names.

| run | checks | bounds |
|---|---|---|
| `core_converge` | `HashPublished`, `Converges` | one CR, two edits of any kind, an incomplete spec among them; caches of CR and Deployment lag |
| `core_recreate` | `Converges`, `TeardownCompletes`, `DeletionCompletes`, `PodHasServiceAccount`, `ImplementsCustody` | two CRs one after the other, one edit of the role, a foreign finalizer or none; no lag |
| `core_failures` | `TypeOK`, `RestartsJustified`, `PodHasServiceAccount`, `BindsExistingRole` | two CRs one after the other, or two edits and a deleted object of one; one crash, one fault; caches of CR and ClusterRoles lag |
| `lost_config_update` | `Converges` fails | one edit, before the first status update |
| `teardown_crash` | `TeardownCompletes` fails | one crash |
| `config` | `PodKept`, `NoEditLost`, `AcceptableIsServed` | all fields, two words, three versions (the default, its placeholder, another), three node role lists, two edits |
| `versions` | `TypeOK`, `DefaultKept`, `FixedVersionServed`, `DefaultVersionServed` | two CRs; a fixed version, none and the placeholder; two edits, two restarts, two releases of the operator |
| `finalizers` | `TypeOK`, `ObjectsAreHeld`, `DeletionCompletes`, `OwnFinalizerSettles` | two CRs one after the other, three foreign finalizers, three changes by others |
| `releases` | `TypeOK`, `ObjectsKept`, `AllServed`, `ClusterIsClean` | three CRs, two namespaces; two share an account, two a role and a binding |
| `startup` | `GateHolds`, `FailedCheckEndsProcess`, `Serves` | three changes of the CRD, one failing read, one stop |
| `install` | `TypeOK`, `RightsKept`, `OperatorGoesLast`, `DoneMeansServed`, `UninstallEnds` | two namespaces, four runs of either kind, two faults, two interruptions |
| `migration` | `TypeOK`, `DoneWithLatestClient`, `LoginGivenUpForClient`, `PodReturns`, `PatchedMeansMigrated`, `ImplementsHandover` | two runs, two faults, one interruption, one eviction; Deployment with or without a CR, which names this secret or another, with or without the mount |

What the passing runs show:

- **The core** (`core_*`). The pod is restarted at most once per change of `turbo.config`, however stale the copy of the
  CR and whatever fails (`RestartsJustified`); a published hash is that of the ConfigMap (`HashPublished`); a
  binding is written only to a role that exists, though the cache may still show the one of an earlier CR, deleted or left by a
  teardown that an error cut short (`BindsExistingRole`); a running pod keeps its ServiceAccount,
  also through the teardown of an earlier CR of that name (`PodHasServiceAccount`); what is made, kept and taken away
  is what the abstract custody allows (`ImplementsCustody`); and the system gets to where the
  spec wants it, or to where nothing is left (`Converges`, `TeardownCompletes`, `DeletionCompletes`).
- **`config`**. Edits of the dynamic settings, the replicas and the rights never touch what restarts the pod. An edit of any
  field that changes what the field counts for (`Meaning`: with its default, and with the fields it counts together with)
  changes the file, the template, the role or the replicas it belongs to, and a reader of a file finds the new value under
  the documented key, but for the misnamed ones (`Misnamed`). A spec with its required fields and no malformed node role is taken up in the end.
- **`versions`**. A CR with a version of its own ends with that version, whatever the others do to the shared default. The
  default is that of the running operator until it is tainted: until a placeholder is written, or a CR edited between
  the worker's look at it and the patch of its finalizer. `tainted` is that history; a restart of the operator clears it.
- **`finalizers`**. Whatever others do to the list while the operator patches an old one back, derived objects always
  have a CR held by the operator's finalizer or a teardown at hand; deletion waits for no other controller; the
  operator's finalizer alone is left in the end.
- **`releases`**. The teardown of one CR takes nothing from another that the other does not share with anyone. A CR with a
  ClusterRole and a binding of its own is served in the end, also when the ServiceAccount that it shares goes with
  its first owner. When all are gone no ClusterRole and no binding is left.
- **`startup`**. No cycle before the check; no process left waiting after a failed one; service once the CRD is up to date.
- **`install`**. No installation takes the rights of another namespace's operator; an operator goes only after its CR
  unless a call failed unnoticed (`failed` is that history); an installation reported as done works, unless the
  report was of a CR in deletion (`late`); no deletion waits for ever.
- **`migration`**. The login is given up for a client only; a success is reported only with the client in the secret; the pod
  comes back; a patch of a Deployment without a CR, or with one that names this secret, ends in a migrated pod; every step
  is one of the abstract hand-over.

Why these bounds. A restart too many needs two copies of the CR, before and after an edit of
`turbo.config`, and a third to go back to the first content: two edits. The races of a teardown need the
objects of an earlier CR and one later CR: two creations. What one crash or one fault leaves behind is the state
a second one would find again, as nothing but the API server's objects persists. Which caches lag
is a choice per run because each lagging kind multiplies the states: CR and Deployment are what
the restart reads; CR and ClusterRoles what the binding relies on. `core_failures` has both: two CRs with a crash and a fault under
lagging caches, and the edits and the deleted object with one CR. `EditsOrSuccessor`, its state constraint, leaves out behaviours
that have them together; that is sound for safety, since what is checked is a prefix of every behaviour. `ImplementsCustody`
met all of them in a longer search, and the proofs hold for every choice.

An edit that is lost or reaches the wrong file shows with two words and one field; the second edit is there for the
fields that count only together (the login, wiremock, the owners' rule). A version may be the default, the placeholder
that stands for it, or neither: three versions. The first word is the default pull policy, so that writing it out changes nothing. The default version goes wrong in
the hands of one CR and shows in another: two CRs; two releases of the operator tell its version
from an older one's. The loop over the finalizers goes wrong with two neighbours, and the patch of an old list
with one change by others between read and write; three allow a finalizer to be taken off, put back and added to.
Two releases are what it takes to share a name, and a third is served by another operator.

A binding that two namespaces make takes two scripts; a wrong report takes a run to be cut short, one to undo it and one
to be told: four runs leave one for the other namespace. A migration that goes wrong needs a run that leaves something
behind, and a second that meets it. Two faults are what it takes to create a secret over an older client: a failed read
of the secret lets the second run go on, and a failed deletion leaves the old one. Three changes let the CRD be
installed, downgraded and upgraded around one process, and restarts are unbounded, since a failed check always ends in one.

What the passing runs do not cover, and why:

- `HashPublished`, `Converges` and `TeardownCompletes` are checked with the ConfigMap's, the
  ServiceAccount's and the binding's caches in step, `TeardownCompletes` with the ClusterRoles' too; section 4 says what a
  stale one does.
- `AwaitHash` keeps users from changing `turbo.config` before `status.configHash` is set in
  `core_converge` and `core_recreate`. `lost_config_update` is `Converges` without it.
- The liveness runs of the core have no crashes and faults. `teardown_crash` shows what one does to the teardown; section 4
  says what one does to a restart.
- Nor do they have users who delete derived objects. A cache jumps to the latest version, so an object that comes and goes between
  two jumps queues nobody; a real watch reports both.
- The core's name of the ServiceAccount is edited in `core_converge` only, which says nothing of a teardown.
- `DefaultKept` and `DefaultVersionServed` end with the first taint, `AllServed` needs a role and a binding of the
  release's own, `DoneMeansServed` a report that is not `late`, `OperatorGoesLast` and `UninstallEnds` a namespace
  in which no call failed unnoticed, `PatchedMeansMigrated` a Deployment whose CR, if it has one, names the script's secret
  (`PatchLasts`). Of the fields in `Misnamed`, `NoEditLost` says that an edit changes the file, not that it is found.
  Section 4 says what happens otherwise.
- The wait for the pod that times out (`kubeturbo_controller.go` 169) is a `Fault` that changes nothing; no property speaks of
  the pods of a CR in deletion. A panic of line 417 is outside `AcceptableIsServed`, until the roles are corrected.

Every cfg sets `CHECK_DEADLOCK FALSE`: once the budgets are spent and the objects are as the
spec says, the system is at rest.

**Fairness.** `WF_vars(Worker)`: the controller runtime's worker takes a queued key and goes on
with a cycle. `WF_vars(Cluster)`: garbage collector, Deployment controller and kubelet go on.
`WF_vars(Sync(k))`: each informer catches up. Users, crashes and faults are not obliged. Weak fairness of the worker as
a whole is enough in the core, since in every state it has at most one kind of step.

At startup the goroutines of the check, of `main` and of the worker run on, and the manager's grace period ends (`WF_vars` of
`CRDCheck`, `PostChecksDone`, `Controller` and `Manager`); the timeout, the users and the signals are free. The
migration script, once started, goes on by itself (`WF_vars(Script)`); Deployment controller, kubelet and operator never
stop (`WF_vars(Kubernetes)`, `WF_vars(Reconcile)`). Nobody is obliged to run it again.

In `KubeturboConfig`, `VersionDefaults` and `CRFinalizers` the worker goes on, and so does the informer of the last; a
process that ended is started again by its Deployment. In `Releases` the operators and the garbage collector go on,
and the informers resync (controller-runtime does it every ten hours or so). There an operator has several keys to choose
from, and weak fairness would let it serve one for ever: `SF_vars(Get(n, r))` says that a work queue hands out every key in
turn. In `InstallScript` the script of each namespace goes on until it ends or is interrupted, its waits being `kubectl` calls
and bounded polls (`GiveUp`), and so do its operator and the garbage collector (`WF_vars(Script(n))`, `WF_vars(Cluster(n))`).

## 4. Disagreements and limits

Two runs are counterexamples to what the code says of itself:

1. **An update of turbo.config is lost during the first cycle** (`lost_config_update`,
   `reconciler.go` 83). While `configHash` is unset no restart is made. If the
   user edits `turbo.config` after the pod started and before the first status update, that update
   conflicts; the next cycle rewrites the ConfigMap, keeps the pod, and publishes the hash of the new content. The
   pod runs with the old one, for good.
2. **The teardown is forgotten** (`teardown_crash`, `kubeturbo_controller.go` 114). The CR's
   finalizer is removed before the teardown. After a crash or an error, the retry
   finds no CR and does nothing: ClusterRole and binding stay, and so does the ServiceAccount's finalizer.

The models have the following behaviour too. The properties exclude it by name, so a reader knows what they do not promise;
what to change to see it is in parentheses.

- The teardown uses `CreateOrUpdate` to remove the ServiceAccount's finalizer (`reconciler.go` 753). If the account was never
  made it is created, without an owner, after the CR is gone. `TeardownCompletes` does not count such an account
  (demand `sa[n] = None` in `Clean`).
- The teardown removes the finalizer of the ServiceAccount the last spec names (752). One that an earlier spec named keeps
  its own and stays in deletion (`Specs <- RenameSpecs` in `core_recreate`).
- A spec with a missing field ends the cycle before the deletion timestamp is looked at (`kubeturbo_controller.go` 87). A deleted
  CR stays with its objects until somebody completes it (drop `Complete` from `DeletionCompletes`).
- `CreateOrUpdate` compares with the cache (`reconciler.go` 331). If the cached ConfigMap has the content of before an
  edit, undoing that edit makes no call; the pod restarts on the first edit and the hash of the second is published
  (`Lagging = {"cm"}` in `core_converge`). The same holds for a binding, which nothing watches (`kubeturbo_controller.go` 190).
- The teardown lists ClusterRoles and bindings in the cache (772, 786). What the last cycle made and the cache has not seen yet
  is not listed and stays for good (`Lagging = {"role"}` or `{"crb"}` in `core_recreate`).
- The hash is saved before the Deployment is deleted (85-90). If the process dies in between, or the deletion fails, the retry
  finds the hash up to date and restarts nothing: the pod keeps the old `turbo.config` (`MaxCrashes = 1` in `core_converge`).
- The first character of each piece of the node roles is read (`reconciler.go` 417). A trailing comma gives an
  empty piece, which panics in every cycle after every restart (drop `~Panics` from `Acceptable`).
- Without `kubeturbo.io/controllable` among them, the default replaces all annotations of the user (`kubeturbo_types.go`
  384-386; `SetSpecDefault`).
- Eight fields are written under other keys (`Renamed`) than `deploy/kubeturbo_yamls/step4_turbo_configMap_sample.yaml` 49-76 and
  `deploy/kubeturbo/templates/configmap.yaml` 29-79 have. The dynamic file names the node pool's maximum `mac`, the level a bare
  `logging`, and the daemon pod detectors as those of the exclusion detectors (`reconciler.go` 463, 472, 497, 500); `turbo.config`
  has `roles` for `nodeRoles` (424) and `annotationWhiteList` for `annotationWhitelist` (453), which differs in case only. How strictly
  the probe reads keys is not in this repository (make `Misnamed` empty).
- The API server's answer is decoded into the CR that was sent, and so through the pointer into the shared default
  version (`kubeturbo_types.go` 377). If the answer has `VERSION`, every CR without a version gets an image of that
  name (drop `~tainted`).
- The loop that removes foreign finalizers ranges over the slice that its body compacts and steps over the neighbour of each
  it removes (`kubeturbo_controller.go` 95; `Stricken`). The patch leaves that neighbour; later cycles take it, so
  `OwnFinalizerSettles` holds.
- The owner reference set before `CreateOrUpdate` is read over (`reconciler.go` 536), so a second CR never owns a shared
  ServiceAccount. When the first goes, so does the account, and only a resync brings it back (drop `WF_vars(Resync)`).
- Names joined with dashes are ambiguous (558, 686): `kubeturbo-a` in `turbo` and `kubeturbo` in `a-turbo` write over each other's
  binding for ever (drop `OwnRole` and `OwnBinding` from `AllServed`).
- The install script deletes the operator when the CR is gone (`scripts/install_kubeturbo_via_operator.sh` 321-323), which is before the
  operator has torn down (2). The script reports success while `rights` and a ClusterRole are left for good.
- An installation after an interrupted deletion edits a CR in deletion and finds the Deployment of before ready
  (792). It reports success, and both go soon after (drop `~late` from `DoneMeansServed`).
- The migration script takes a client in the secret for the whole migration (`scripts/oauth2_probe_migration.sh` 24). If a run ends
  between the secret and the patch of the Deployment, later ones say "already completed" and leave the pod without it
  (`PatchedMeansMigrated` with `"completed"`).
- If the CR names another secret, the script still mounts `turbonomic-credentials` and says that it has patched the Deployment; the operator's
  next cycle writes its own volumes over it (`reconciler.go` 215), and the pod keeps the old login (drop `PatchLasts` from
  `PatchedMeansMigrated`).

## 5. Proofs

All hold for every value of the constants that meets their module's assumptions. Of the core, these are `ConstantsAssumption` (types of the
constants, `None` distinct from UIDs and hashes, user-written specs are specs), `BudgetsAssumption`
(budgets are natural numbers) and `NoneAssumption` (an absent object is no object): any number of specs, roles, names, edits,
recreations, crashes and faults, and any set of lagging caches. Every invariant and every action property that a passing run
checks is proved, and both refinements.

### The core

The proofs build on each other: `Inv` is `TypeOK`, `RestartInv` and `RoleInv`; `PodInv`, `HashInv` and `CustodyInv` are
inductive relative to it. Each has one lemma per action or group of actions, and a lemma for the steps that leave
its variables alone.

- **`TypeCorrect`**: `Spec => []TypeOK`. `TypeOK` is inductive by itself; the lemmas on records with a
  changed field carry most of it.
- **`RestartsAreJustified`**: `Spec => []RestartsJustified`. The bound `restarts <= gen` is not inductive: a step
  of the worker increments the left side and has no idea of the right one. `RestartInv` adds that each
  version of the CR (in the API server, in the cache, in the worker's hands) accounts for
  the restarts made, plus the one a worker holding it would still make, with the changes of `turbo.config`
  it has seen (`Accounted`); that these versions are ordered, and that one considered served is never
  followed by an unserved one of the same generation (`Later`); that the cached Deployment is of the same CR as
  the real one; and that a worker about to delete a Deployment of its own CR owes the restart
  (`DoomedForRestart`). The worker saves the hash first, and only
  then deletes; if the save fails because the CR changed, the account of the newer version pays.
- **`BindingsAreSound`**: `Spec => BindsExistingRole`, an action property. A ClusterRole whose deletion the cache has not seen
  yet could pass for up to date, and no call would be made. `RoleInv` shows that such a role always belongs
  to a CR that is over (`GoneForGood`, `Over`): the API server, the cache and the worker's copy can only have it in
  deletion, so a worker that brings objects up has another UID, its write differs from
  the cached role and is refused. For that it keeps that marks for deletion are never
  lost between copies (`StaysMarked`) and that the worker is in the teardown exactly with a marked copy (`Marked`).
- **`PodIsServed`**: `Spec => []PodHasServiceAccount`. An account disappears only without its finalizer, so `ServedByHeld` says that
  the accounts of the Deployment and of the pod are held while the CR is the Deployment's. The worker takes the finalizer off in
  a teardown, and that is of a CR that is over; but an account that the *cache* still shows as held would make the next
  CR's write a no-op. `ReleasedForGood` is the same thought as for the ClusterRoles: such an account belongs to a CR that is
  over. It rests on `AllEarlier`, that no object bears the UID of a later CR than any copy of the CR (`Earlier`), and on
  `InOrder`, that the worker's copy is never of a later CR than the cache's, nor that than the API server's. Between the call on
  the account and that on the Deployment the account is held (`Prepared`).
- **`HashIsPublished`**: `Spec => HashPublished`, if `"cm"` is not in `Lagging`. That condition is the code's: with a stale ConfigMap
  the property is false (section 4). `HashInv` says that the worker's copy and the cached CR are no newer than the
  CR in the API server, and have its spec where they have its version, and that between the call on the ConfigMap and the status update
  the ConfigMap, if it is there, has the content of the worker's copy (`ConfigMapWritten`). The status update
  succeeds on the worker's version only, so the hash it writes is that content's.
- **`OperatorImplementsCustody`**: `Spec => ImplementsCustody`, that is, every behaviour of users, cluster, caches and operator, seen
  through the substitutions of `Custody`, is one of that module. `CustodyInv` says that a cycle which brings objects up holds a
  copy of the CR that is there, kept by the operator's finalizer (`Holds`), since only a teardown of that CR takes the finalizer off
  and there is one worker; that what the cache shows as held and in use is so, which is why the look at the cached finalizers
  before the cycle is enough; and that ConfigMap, binding and ClusterRoles bear the UID of no later CR than any copy
  (`NoEarlierHolder`). The deletes are where it could go wrong: a stale list names ClusterRoles that a later CR has
  written since. They cannot be the later CR's while the worker is still in the teardown of the earlier one, as
  its copy bounds every UID (`HoldersAreEarlier`, `CleanUpRolesImplements`).

### The other modules

- **`DoneIsTrue`** and **`LoginIsSafe`**: `Spec => []DoneWithLatestClient` and `Spec => LoginGivenUpForClient`, from
  `ClientInv`. Neither is inductive: that the secret holds the latest client at the end depends on every place the
  script went through. `ClientInv` says that while the secret is replaced the script holds the latest client, that
  afterwards the secret holds it, and that a report is made only by a run that has ended. Assumed are natural budgets and
  a `None` that is no number, report or secret: any number of runs, faults, interruptions and evictions.
- **`GateIsSafe`**: `Spec => []GateHolds`. `ChainInv` ties the ends together: a worker that reconciles has seen
  `postCheckDone` closed, which only follows `crdCheckDone`, which only follows a check that passed in this process.

- **`TypeCorrect`** and **`MigrationImplementsHandover`** (`OAuth2MigrationProofs`): `Spec => ImplementsHandover`, that is,
  every behaviour of the script and the cluster, seen through `Handover`'s substitutions, is one of
  `CredentialHandover`. `HandoverInv` adds to `ClientInv` that the client in the secret is never newer than the last one
  minted, and that the client the script holds is the last one (`NewestInv`): without it the step that
  creates the secret could not be a `Store`. One lemma per action says which abstract step it is, or that it is none.
- **`EditsKeepPod`** and **`EditsAreNotLost`**: `Spec => PodKept` and `Spec => NoEditLost`, for any words, versions,
  node role lists and numbers of edits. `RenderInv` says that the cluster holds what the last cycle made of its spec; the
  rest are lemmas on the renderings. `Meanings` says what each kind of field counts for. A file is a set of entries, so that a
  reader finds it (`CopiedIsFound`, `TogetherIsFound`, then one lemma per file) rests on keys being distinct: `Key` is injective on the
  fields of a file, by cases on the renamed ones, and no key of another part of the file (the login, the roles, wiremock) is
  one of them. What is found differs when what it counts for does, and so do the files (`EditReaches`).
- **`TypeCorrect`** and **`DefaultIsKept`** (`VersionDefaultsProofs`): `Spec => []TypeOK` and `Spec => []DefaultKept`, without further assumptions on what users write. `KeptInv` says that while
  nothing is tainted no CR has the placeholder, that a fresh copy in the worker's hands is what the API server holds, and that
  the copy is fresh when the finalizer is patched; a stale copy is refused by the status update and nothing is decoded.
- **`TypeCorrect`** and **`ObjectsAreKept`** (`ReleasesProofs`): `Spec => ObjectsKept`, for any set of releases, also those
  that share names. `Labelled` says that an object was last written for a release that names it so, and `Torn` that a
  teardown is of a release that is gone: a step that takes an object of a release in use would have to
  belong to another release of the same name. `AccountStep`, `RoleStep` and `BindingStep` say so for each kind.
- **`TypeCorrect`**, **`RightsAreKept`** and **`OperatorIsLast`** (`InstallScriptProofs`), for any number of namespaces, runs,
  failing calls and interruptions. Rights are kept because a script that found the binding adds to it (`exists` implies that
  there is one, a part of `TypeOK`) and one that did not cannot create it twice. `Last` says that a script that is about to
  delete the operator has seen the CR go, unless a call failed in its namespace; nobody but the script makes a CR.

- **`TypeCorrect`** and **`DerivedObjectsAreHeld`** (`CRFinalizersProofs`): `Spec => []TypeOK` and `Spec => []ObjectsAreHeld`, for any set of
  finalizers and lists without duplicates. Most of it is about the loop: what `Without` and the rounds of `Stricken` do to a list of any length.
  They are recursive functions, defined by well-foundedness, and what they satisfy at each index is shown by a least counterexample:
  `Least` says that a non-empty set of numbers has a least element, `SetInduction` draws induction on a *set* of numbers
  from it, and each use names that set, so no operator is passed as a parameter. `StrickenList`: the loop
  leaves a list of finalizers without duplicates, whatever it steps over; `CleanedList`: the list that goes into the worker's copy has
  the operator's own in it. `CopyInv` says that the copy has it at every label, `VersionInv` that copy, cache and API server hold versions in
  that order and that the same version is the same CR, and `HeldInv` that a CR which the cache shows in use and held is still held, and so is
  the one that objects are about to be made for: only the teardown of a marked CR takes that finalizer off.

TLC checked the inductive invariants as invariants of a run before they were proved; those of the refinement with two CRs, an edit, a crash
and lagging caches of CR and ClusterRoles, 5.3 million states.

Only model-checked: the liveness properties (`Converges`, `TeardownCompletes`, `DeletionCompletes` of the core and of `CRFinalizers`,
`PodReturns`, `PatchedMeansMigrated`, `FailedCheckEndsProcess`, `Serves`, `AcceptableIsServed`, `FixedVersionServed`,
`DefaultVersionServed`, `OwnFinalizerSettles`, `AllServed`, `ClusterIsClean`, `DoneMeansServed`, `UninstallEnds`). They
need fairness and `ENABLED`, which are out of reach of the prover.

## 6. Plan

All components with behaviour have a module. What is left, in this order:

1. The safety that the liveness properties rest on, proved: in the core, that a cycle which ends without a requeue leaves either what
   `Converged` says or a change that the cache has not seen; in `Releases`, that a teardown of the last holder of a name leaves
   none of its objects.
2. Edits of `spec.roleBinding` in the core: a binding of an earlier name stays until the teardown, which finds it
   by its label.
3. The core as an implementation of `Releases` restricted to one release, as far as their abstractions meet.
4. The path of the install script over OperatorHub, if the rights that OLM grants are taken as given.

## 7. Not modelled

Deployment contents, CRD YAML, the helm chart and bundle manifests (data without behaviour); generated deep copies;
v1alpha1 types (nothing reads them); the scaffolding of `main` (flags, metrics, health checks) and leader election; the
end-to-end tests, which the findings quote; release scripts; prompts and parsing of the scripts, the OperatorHub path, the
secrets and the t8c client of the install script; the patch and restart requests that no code calls; the cut of
long names in labels, which the UID behind the name keeps apart.
