# TLA+ models of the hmc controllers

These modules model the reconcilers of the hmc operator (`src/internal/controller`)
together with the collaborators they drive: Flux `HelmRelease`/`HelmChart`,
the Cluster API objects a cluster chart creates, and the Sveltos `ClusterProfile`.
Each is checked with TLC.

## 1. The system

| Part | Source | State it owns | Operations |
|---|---|---|---|
| ManagedCluster controller | `managedcluster_controller.go` 674-1317 (current revision) | ManagedCluster finalizer and status conditions (TemplateReady, HelmChartReady, HelmReleaseReady, the copied cluster conditions, the aggregate Ready), observedGeneration; it creates or updates a HelmRelease and a ClusterProfile | Reconcile → Update or Delete; Update adds the finalizer, checks the template, the chart and a dry-run install, reconciles the HelmRelease, mirrors its Ready condition, copies the CAPI Cluster conditions, then reconciles the services (`updateServices`). Delete deletes the ClusterProfile, deletes the HelmRelease and runs `releaseCluster`. Once the HelmRelease is gone, Delete removes the finalizer |
| Teardown gate | `releaseCluster`, `getProviders`, `getCluster`, `machinesAvailable`, `removeClusterFinalizer` (1204-1292) | `hmc.BlockingFinalizer` on the AWSCluster/AzureCluster object | For each infrastructure provider of the template: find the cluster object, check for Machines (limit 1), and if none exist, remove the blocking finalizer |
| ManagedCluster controller, earlier revision | same file, 1-659 | as above | Delete does not delete the ClusterProfile. A missing ServiceTemplate is skipped with `continue` |
| Management controller (component installer) | `management_controller.go`, `api/v1alpha1/management_types.go` | Management finalizer, spec defaults, status.components, availableProviders | SetDefaults; `enableAdditionalComponents` (cert-manager precondition, values merged in memory); one HelmRelease per component, with dependsOn HMC → CAPI → providers; per-component errors joined; Delete suspends the hmc release, then deletes the releases, charts and repositories |
| Template controller | `template_controller.go`, `unnamed/part_001` (earlier revision) | Template status: valid, validationError, chartRef, config, providers | Resolves or creates the HelmChart (and the HelmRepository for system templates). Waits for the artifact, downloads it, parses the metadata and providers, validates the chart, stores the default values |
| MultiClusterService controller | `multiclusterservice_controller.go` | none | Reconcile is a no-op |
| Template webhook | `internal/webhook/template_webhook_test.go` (test only) | n/a | Refuses to delete a ClusterTemplate that a ManagedCluster in the same namespace references |
| e2e provider validator | `test/e2e/clusterdeployment/providervalidator.go` | map of resources still to validate | Validates sequentially. The first error ends the pass. A validated resource is never rechecked |

How the parts interact:
- The Management controller installs the components. Among them is the template chart, which creates the Templates.
- The Template controller marks a Template valid.
- The ManagedCluster controller reads a valid ClusterTemplate (in the system namespace) and ServiceTemplates (in its own namespace), and creates a HelmRelease.
- Flux installs the release's chart: a CAPI Cluster and an infrastructure cluster object carrying `hmc.BlockingFinalizer`. Cluster API then creates Machines.
- On deletion, Flux uninstalls the chart. Cluster API deletes the Machines, and the infrastructure object goes once the gate has removed the blocking finalizer.

Scheduling, from controller-runtime and §5 of the spec:
- At most one reconcile runs per object at a time. Different objects share only what they read.
- Every "not ready" outcome either returns an error, which is requeued with backoff, or asks for `RequeueAfter: 10s`.
- The ManagedCluster controller also watches its HelmReleases.

## 2. Modules

### ManagedClusterCommon.tla, ManagedCluster.tla, ManagedClusterEarlier.tla (+ MCManagedCluster.tla, MCManagedClusterEarlier.tla)

`ManagedClusterCommon` holds what the two revisions of the reconciler share: the state, the passes that are the same in both, `releaseLoop`, the environment and the properties. `ManagedCluster` (the current revision, lines 674-1317) and `ManagedClusterEarlier` (lines 1-659) each EXTEND it and add `updateServices`, `UpdateRelease`, `DeleteRelease`, `Controller`, `Next` and `Spec`.

It models one ManagedCluster. Distinct ManagedClusters share nothing writable, so one is enough. One reconcile pass is one atomic step. This is sound because the pass holds the object exclusively, and its writes to other objects are the effects listed below. The environment acts between passes.

| Variable | Code |
|---|---|
| `mc` | ManagedCluster metadata and spec: exists, deletionTimestamp, finalizer, generation, `spec.dryRun`, `spec.services[].install` |
| `status` | `status.observedGeneration`, `status.conditions` (Absent = condition not present) |
| `mgmt`, `tmpl`, `chart`, `svcOk` | Management exists; ClusterTemplate missing/invalid/valid; outcome of getSource/download/`actionConfig.Init`/dry-run; ServiceTemplate → HelmChart → HelmRepository resolves |
| `hr` | the HelmRelease: exists, being deleted, Ready condition, installed, uninstalled |
| `capi`, `infra`, `machines` | CAPI Cluster and its conditions; the AWSCluster/AzureCluster objects with `hmc.BlockingFinalizer`; the number of Machines |
| `profile` | the ClusterProfile and the services it carries |
| `flaps` | the number of environment outcome changes so far, bounded by `MaxFlaps` |

Controller actions. There is one per way a pass ends, and each includes everything the pass writes, the deferred `updateStatus` included:
- `AddFinalizer`
- `UpdateTemplateNotReady`
- `UpdateChartNotReady`
- `UpdateDryRun`
- `UpdateRelease`, with a disjunct for a failing `ReconcileHelmRelease`
- `DeleteRemoveFinalizer`
- `DeleteRelease`, which performs the profile delete, the release delete and `releaseCluster`. In the earlier revision it does not delete the profile, and the module adds `CollectGarbage`: the garbage collector deletes the ClusterProfile through its owner reference once the ManagedCluster is gone.

The services pass differs between revisions. The current one aborts the whole pass when one ServiceTemplate → HelmChart → HelmRepository chain does not resolve. The earlier one skips a missing ServiceTemplate with `continue` and applies the others.

`releaseLoop` is a RECURSIVE operator that walks the template's providers exactly as the `for` loop does. A non-gated provider is skipped with `continue`. A missing cluster object is an error that ends the walk. Existing Machines move on to the next provider. No Machines means the finalizer is removed and the walk returns. The three calls it makes have operators named after them: `getCluster`, `machinesAvailable` and `removeClusterFinalizer`.

Environment actions:
- The user: `EditSpec` and `DeleteObject`.
- Sources: `CreateManagement`, `ValidateTemplate`, `ChangeChart`, `ResolveServiceTemplate`, and `DeleteTemplate`. `DeleteTemplate` deletes the ClusterTemplate. Under `InSystemNamespace = TRUE` it is refused while the ManagedCluster exists, as the webhook test does for a template in the ManagedCluster's own namespace. Under FALSE the template lives in another namespace, where the webhook does not look.
- Flux: `FluxInstall`, `FluxReadiness`, `FluxUninstall` and `FluxRemoveRelease`.
- Cluster API: `ClusterConditionsChange`, `CreateMachine`, `DeleteMachine`, `DeleteInfra` and `RemoveCluster`.

Fairness:
- Weak fairness on `Controller`. A pass that is enabled keeps being retried, by requeue, resync or the HelmRelease watch.
- Weak fairness on the progress steps of what Flux and Cluster API own: install, uninstall, release removal, Machine deletion, infrastructure deletion and Cluster removal.
- No fairness on the user, the sources or readiness flips. They may stop at any time.
- In the earlier revision, weak fairness on `CollectGarbage`. The garbage collector processes every object whose owner is gone.

#### The refinement: Teardown.tla

`Teardown` is the abstract specification of what a finalizer-guarded owner promises. The owner is live, being deleted or gone. While it is not gone, dependents may appear. Once it is being deleted, each dependent is removed only after the dependents that `Before` orders ahead of it. The owner goes only when none is left. Under fairness, deletion is carried through.

Both revisions are checked to implement it (`TeardownRefinement == Abstract!Spec`, a PROPERTY), with the mapping:
- `phase`: gone if the ManagedCluster does not exist, deleting if it has a deletionTimestamp, otherwise live;
- `owned`: the subset of {release, cluster, infra, machines} that exists (HelmRelease, CAPI Cluster, any infrastructure object, Machines > 0);
- `Before`: Machines and infrastructure go before the Cluster, and the Cluster and infrastructure before the HelmRelease. This is the order that Helm uninstall waiting and the blocking finalizer produce.

Each concrete step maps to one abstract step or a stutter. The release's disappearance maps to `Remove("release")`, and the finalizer's removal with nothing left maps to `Finish`. Under `UninstallWaits = FALSE`, Flux drops the release before the Cluster, and the mapping is violated. No run uses FALSE, because it models a Flux configuration (an uninstall that times out or does not wait) rather than hmc's code. Under such a configuration the ManagedCluster finalizer goes while an AWSCluster can keep `hmc.BlockingFinalizer` for ever.

Deadlock checking is off. Once the object is gone, or the environment's bounded changes are used up, there is nothing left to do, and an idle reconcile is a stutter.

### Runs of ManagedCluster

All runs use `MCManagedCluster` (or `MCManagedClusterEarlier`, with the same constants) with:
- two services;
- template providers `<<"vsphere", "aws">>`, so the walk must skip a non-gated provider;
- the chart creating an AWSCluster;
- MaxGeneration 2, so there is one spec edit;
- MaxMachines 1, so there is one Machine;
- MaxFlaps 2 in the violation runs, so there are two outcome changes. The two passing runs use MaxFlaps 1: one outcome change, such as a template turning invalid, a chart failing, a ServiceTemplate resolving or the cluster conditions changing. That keeps each run under two minutes.

These bounds are enough to exercise each branch of each pass. They also cover a Machine appearing before and after the gate check, and a spec edit between passes.

| Run | cfg | Expect | What it shows |
|---|---|---|---|
| mc_core | MCManagedCluster.cfg | pass (~310k states, under 2 min) | `TeardownRefinement`: the current revision implements `Teardown`. `ProfileGoneBeforeUninstall`: the ClusterProfile is deleted before Flux uninstalls the chart, so Sveltos never deploys services to a cluster that is going away. Deletion completing is part of `Teardown`'s fairness, so the refinement also shows that a deleted ManagedCluster takes its release, profile, Cluster, Machines and infrastructure with it. `ServicesConverge`: once the cluster stays deployed and ready, the ClusterProfile carries exactly the services with install=true, dropping the others. This holds when Flux waits for uninstalled resources (`UninstallWaits = TRUE`) |
| mc_infra_gate | MCInfraGate.cfg | violation | `InfraOutlivesMachines`. Delete runs while the chart is installing and finds no Machine yet, so it removes the blocking finalizer. Cluster API then creates a Machine before the uninstall, and the AWSCluster is deleted under it. The gate checks Machines once, at a moment when none exist |
| mc_ready_status | MCReadyStatus.cfg | violation | `ReadyImpliesReleaseReady`. The first pass runs under dryRun=true, so InitConditions creates no HelmReleaseReady condition. After dryRun is switched off, the new HelmRelease has no Ready condition yet and the aggregate says Ready=True |
| mc_service_status | MCServiceStatus.cfg | violation | `ReadyReflectsServices`. A service that does not resolve aborts `updateServices`, but no condition records it, so Ready=True (see the TODO at line 993) |
| mc_template_deleted | MCTemplateDeleted.cfg | violation | `DeletionCompletes` with `InSystemNamespace = FALSE`. The ClusterTemplate is deleted while the ManagedCluster is deployed. On deletion, `getProviders` (line 1242) fails on every pass, so the AWSCluster's blocking finalizer is never removed and the ManagedCluster never goes |
| mc_earlier_core | MCManagedClusterEarlier.cfg | pass (~340k states, under 2 min) | The earlier revision shares the teardown definitions of `ManagedClusterCommon`, so only its own services pass is checked here. `ResolvableServicesConverge`: once deployed and ready, the profile carries exactly the installable services whose ServiceTemplate exists, one missing template not holding the others back |

Each property of mc_core and mc_earlier_core has a mutant in PROJECT.json that breaks it, and the `releaseLoop` gate is exercised by the violation run mc_infra_gate:
- `updateStatusAhead`;
- `DeleteReleaseKeepProfile`, which leaves the profile to the garbage collector, as the earlier revision does (so the earlier revision's Delete breaks `ProfileGoneBeforeUninstall`);
- `updateServicesAbortAll` (earlier revision), which aborts the pass on one missing template;
- `DeleteRemoveFinalizerAnyError`, which treats any failed read as not-found;
- `updateServicesAddOnly`, which never drops uninstalled services.

### Management.tla (+ MCManagement.tla)

This module models the singleton Management object, one pass per step.

| Variable | Code |
|---|---|
| `mg` | exists, deletionTimestamp, finalizer, `spec.core` set, `spec.providers` (a subset of `ProviderNames`), generation |
| `mstatus` | `status.observedGeneration`, `status.components` (none / success / failed per template name) |
| `tmpl` | the component Templates in the system namespace: missing / invalid / valid |
| `certOk` | `certmanager.VerifyAPI` succeeds |
| `rel` | the HMC-labelled HelmRelease named after each component: exists, deleting, `spec.suspend`, Ready, `dependsOn` |
| `charts`, `repos` | the HMC-labelled HelmCharts and HelmRepositories. One aggregate each, because `EnsureDeleteAllOf` treats them as a set |

Controller actions:
- `AddFinalizer` and `SetDefaults`. Each writes the spec and returns. `SetDefaults` is taken when `SpecSetDefaults` (`ManagementSpec.SetDefaults` in management_types.go) reports a change.
- The Delete actions are guarded by `Deleting`, which requires `spec.core` to be set. `Delete` dereferences `Spec.Core.HMC` (line 158), and a Management deleted before `SetDefaults` ran makes every pass fail.
- `UpdateComponents`: the whole loop over `wrappedComponents`. A missing or invalid template, or a failed `ReconcileHelmRelease2`, is recorded and the loop continues. Then comes the status write, which may itself fail. Transient failures consume `flaps`.
- `DeleteReleases`, `DeleteCharts`, `DeleteRepositories` and `RemoveFinalizer`. These are the early returns of `Delete`.

`EnsureDeleteAllOf` is not in this tree. It is modelled from spec §4.2: it issues deletes and fails while objects remain. `enableAdditionalComponents` is reduced to its precondition, because its values merging happens in memory.

Environment actions:
- the user's `EditProviders` and `DeleteObject`;
- `CertManagerUp`;
- `ValidateTemplate`;
- `RecreateSources`: a Template reconcile re-creating the HelmChart and HelmRepository during deletion;
- Flux's `FluxInstall`, which waits for every `dependsOn` release to be Ready;
- `FluxRemoveRelease`, `SourceRemoveChart` and `SourceRemoveRepository`.

Fairness is weak fairness:
- on `Controller` (errors requeue);
- on the Flux and source-controller progress steps;
- on `CertManagerUp`, because cert-manager is a subchart of the hmc chart (`unnamed/part_000`, `cert-manager.enabled: true`).

### ProviderValidator.tla (+ MCProviderValidator.tla)

This module models the e2e provider validator (`test/e2e/clusterdeployment/providervalidator.go`).

| Variable | Code |
|---|---|
| `toValidate` | `p.resourcesToValidate`, the keys of the map |
| `order` | `p.resourceOrder` |
| `passing` | the resource kinds whose validation function currently succeeds on the cluster under test |
| `result` | what the last `Validate` returned: none yet, an error, or nil |

`NewProviderValidator(t, a)` is the constructor's `switch` over the template and the action, written as one CASE. `Init` builds it for any template of `Templates` and either action. `validateLoop` is a RECURSIVE operator that walks `order` as the `for` loop does:
- a kind missing from the map is skipped with `continue`;
- a failing check returns its error;
- a passing check deletes the kind.

`Validate` is one poll of the Ginkgo `Eventually` block, which stops once the result is nil. `Progress` lets the cluster under test make one more check pass. Both are weakly fair.

| Run | cfg | Expect | What it shows |
|---|---|---|---|
| pv_adopted | MCProviderValidatorAdopted.cfg | violation | `ValidatedAll`: when `Validate` returns nil, every kind the validator was built to check has passed. For `TemplateAdoptedCluster`, the map holds only `sveltoscluster`, but `resourceOrder` keeps the four deploy kinds. The first poll skips them all and returns nil while nothing on the cluster passes |

`MCProviderValidator` ranges over all eight template cases. Run by hand without `TemplateAdoptedCluster`, `ValidatedAll` holds over 4,464 states.

### Template.tla (+ MCTemplate.tla)

This module models one template and `ReconcileTemplate`.

| Variable | Code |
|---|---|
| `tpl` | the template's spec: the chart locator (`chartName`, a `chartRef` to a HelmChart, a `chartRef` of another kind, or neither), `spec.providers`, generation |
| `tstatus` | observedGeneration, valid, validationError set, chartRef, providers (one infrastructure list abstracted to none/aws/azure), config |
| `hc` | the HelmChart the locator resolves to: exists, artifact pending / ready / failed, and what its content yields (download, metadata, Validate, the providers annotation) |
| `repo` | the default HelmRepository |

Controller actions:
- `ReconcileNotReady`: no artifact yet, no write.
- `ReconcileArtifactFailed`: the chart reports an error, which is written.
- `ReconcileChart`: download, `parseChartMetadata`, Validate, values. The first failure is written, together with what the pass already set in memory.

Each of these includes `reconcileSources`. A locator that does not resolve returns an error before any write, which makes it a stutter.

`helm.ArtifactReady` is not in this tree. It is modelled from spec §4.1 step 2.

Environment actions:
- `EditTemplate` (bounded by MaxGeneration);
- `FetchArtifact`, which is fair;
- `Republish`, for a chart behind a chartRef (bounded by MaxFlaps).

#### The refinement: TemplateStatus.tla

`TemplateStatus` is the abstract specification of what a template's status promises its readers. Its variables are the template's generation, whether the chart its spec names is usable, `status.observedGeneration` and `status.valid`.
- `Change`: the user edits the spec or the chart changes.
- `Record`: a status write. It takes a snapshot of the present generation and usability.
- Fairness: weak fairness on a `Record` that corrects a stale status.

Template implements it (`TemplateStatusRefinement`). The mapping is `generation <- tpl.generation`, `usable <- ChartUsable`, `observed <- tstatus.observedGeneration` and `valid <- tstatus.valid`. Each status write of `ReconcileTemplate` maps to `Record`, because the pass judges the chart it read at the generation it read. Spec edits, fetches and re-publications map to `Change`. The refinement implies the earlier liveness property `ValidityConverges`, which it replaces in tmpl_core. It also checks the safety half: no write pairs a generation with a judgement of a different chart.

### Runs of Management and Template

| Run | cfg | Expect | What it shows |
|---|---|---|---|
| mgmt_core | MCManagement.cfg | pass (~750k states, 2 min) | `ComponentsConverge`: with valid templates, every spec component reaches success for the current generation and is installed. `ProviderConvergesDespiteOthers`: a provider whose own template and those of hmc and cluster-api stay valid is installed and reported successful even while another provider's template stays missing or invalid. This holds because the loop records the error and continues (lines 108-119, 130); its mutant `UpdateComponentsAbort` returns at the first bad template. `DefaultedDeletionCompletes`: the deletion of a defaulted Management finishes despite Template re-creations, and removes the HelmRelease of every component, including those no longer in the spec |
| mgmt_delete_early | MCManagementDeleteEarly.cfg | violation | `DeletionCompletes`. A Management deleted before its first pass has no `spec.core`. `Delete` dereferences it and fails on every pass, so the finalizer is never removed |
| tmpl_core | MCTemplate.cfg | pass (~39k states) | `TemplateStatusRefinement`: with well-formed locators, `ReconcileTemplate` implements `TemplateStatus`. Every status write records one instant's generation and chart usability, and a stale `status.valid` is eventually rewritten (spec §4.1, self-healing). Its mutant is `updateStatusKeepGeneration`, which forgets `observedGeneration` |
| tmpl_bad_locator | MCTemplateBadLocator.cfg | violation | `ValidityConverges`. A valid template whose spec is edited to a chartRef of another kind stays valid for ever. The error is returned before any status write |
| tmpl_providers | MCTemplateProviders.cfg | violation | `ProvidersMatchChart`. A chart without the providers annotation is marked valid with the providers of an earlier chart, because `parseChartMetadata` only overwrites a list with a non-empty one |

Bounds:
- **MCManagement.** There are two providers, so that there is a spec edit that adds or removes one, and providers sit in the third tier. MaxGeneration is 3, which covers the defaults write plus two edits. MaxFlaps is 2, which covers two validity changes, failed writes or re-creations.
- **MCTemplate.** MaxGeneration is 3, which allows two spec edits: a locator change and then a chart change. MaxFlaps is 1, which allows one re-publication.

## 3. Not modelled, and why

- **A stale informer cache.** The model reads the true state. The Delete Get of the HelmRelease goes through the cache, so a lagging cache is a listed hazard with no property.
- **Status write conflicts.** A conflict fails the pass. The pass is retried and re-reads state, which is the same as a stutter.
- **Telemetry, logging, message texts and values merging.** These are data, not control.
- **Multiple conditions copied from the CAPI Cluster.** They are abstracted into one status value.
- **MultiClusterService.** Its reconcile is a no-op.
- **The earlier Template revision** (`unnamed/part_001`). It differs from the current one in three ways. It has a single `Template` kind. It never reconciles the default HelmRepository. It rejects charts without a recognised type annotation. In the model the type check is one more way for the chart to be unusable, which `Contents` already covers. The repository is an input of source-controller, which is not in this tree.
- **What the e2e validation functions check.** `validateCluster`, `validateMachines` and the others query a live cluster and are not in this tree. `ProviderValidator` reduces each one to whether its check currently passes.
- **The earlier revision's code that is identical to the current one** (Reconcile, the first steps of Update, updateStatus, the finalizer removal, releaseCluster). It is checked through the shared definitions of `ManagedClusterCommon`, and its lines are mapped once, at the current revision.
- **Orphaned releases while Management lives.** A provider removed from `spec.providers` keeps its HelmRelease until the Management object is deleted. Nothing in the code or the spec removes it, so no property claims it.
- **Webhooks.** Only a test is in the tree. `DeleteTemplate` models the rule it tests, from the test, not from code under `src/`: deletion is refused for a template referenced from the same namespace.
- **A refinement for Management.** Its teardown is not an instance of `Teardown`. The Template controller may re-create a chart or repository after it was removed, so removal is not monotone.

## 4. Plan for the remaining work

Done:
- ManagedCluster (both revisions), Management, Template and the e2e provider validator;
- the `Teardown` abstract spec, with both ManagedCluster revisions refining it;
- the `TemplateStatus` abstract spec, with Template refining it.

What is left:

1. **A composition, `Platform.tla`.** It would compose Template and ManagedCluster, so that stale template providers from `parseChartMetadata` reach `releaseCluster`. A provider whose cluster object does not exist makes every Delete pass fail. The product of the two state spaces, about 310k and 39k states, is far beyond what one run can explore, so the composition would need a smaller ManagedCluster environment.
2. **A Flux uninstall timeout as a run.** This would be `UninstallWaits = FALSE` in a violation run of `DeletionCompletes`.
