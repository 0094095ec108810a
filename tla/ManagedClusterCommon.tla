------------------------ MODULE ManagedClusterCommon ------------------------
(***************************************************************************)
(* What the two revisions of the ManagedCluster reconciler in             *)
(* internal/controller/managedcluster_controller.go (lines 1-659 and the   *)
(* revision from line 674 on) share: the state of one ManagedCluster and   *)
(* of the collaborators the reconciler drives and reads -- the Flux        *)
(* HelmRelease, the Cluster API objects the release's chart creates        *)
(* (Cluster, the provider's infrastructure cluster object and its         *)
(* Machines) and the Sveltos ClusterProfile --, the reconcile steps whose  *)
(* code is the same in both revisions, the environment, and the           *)
(* properties both are checked against.                                    *)
(*                                                                         *)
(* One ManagedCluster is modelled: the controller-runtime queue runs at    *)
(* most one reconcile per object at a time and distinct ManagedClusters    *)
(* share nothing but read-only templates.  One reconcile pass is one      *)
(* atomic step; what its collaborators do (install, uninstall, machine     *)
(* creation and deletion) interleaves between passes.  The revision        *)
(* modules ManagedCluster and ManagedClusterEarlier add the steps that     *)
(* differ and the specification.                                           *)
(***************************************************************************)
EXTENDS Naturals, FiniteSets, Sequences

CONSTANTS
    Services,           \* entries of spec.services (model values)
    TemplateProviders,  \* ClusterTemplate status.providers.infrastructureProviders
    ChartInfraKinds,    \* infrastructure cluster kinds the cluster chart creates
    MaxGeneration,      \* bound on spec edits of the ManagedCluster
    MaxMachines,        \* bound on Machines CAPI creates for the cluster
    UninstallWaits,     \* TRUE: Flux drops the HelmRelease only once the
                        \* resources it uninstalled are gone
    InSystemNamespace,  \* the ManagedCluster lives in the system namespace,
                        \* where its ClusterTemplate is read from
    MaxFlaps            \* bound on changes of template validity, chart
                        \* outcome, release readiness and cluster conditions

\* providerGVKs in releaseCluster: the providers whose cluster object is gated.
ProviderGVKs == {"aws", "azure"}

ASSUME /\ TemplateProviders \in Seq(ProviderGVKs \cup {"vsphere"})
       /\ ChartInfraKinds \subseteq ProviderGVKs
       /\ MaxGeneration \in Nat \ {0} /\ MaxMachines \in Nat
       /\ UninstallWaits \in BOOLEAN /\ InSystemNamespace \in BOOLEAN
       /\ MaxFlaps \in Nat

VARIABLES
    mc,        \* the ManagedCluster object: metadata and spec
    status,    \* its status: observedGeneration and conditions
    mgmt,      \* the Management object exists
    tmpl,      \* the ClusterTemplate: "missing", "invalid" or "valid"
    chart,     \* what resolving, downloading and dry-running its chart yields
    svcOk,     \* ServiceTemplate -> HelmChart -> HelmRepository resolves
    hr,        \* the HelmRelease named after the cluster
    capi,      \* the CAPI Cluster object labelled with the release name
    infra,     \* the infrastructure cluster object of each provider kind
    machines,  \* number of Machines labelled with the cluster name
    profile,   \* the Sveltos ClusterProfile of the cluster
    flaps      \* collaborator outcome changes so far (bounded by MaxFlaps)

vars == <<mc, status, mgmt, tmpl, chart, svcOk, hr, capi, infra, machines, profile, flaps>>
envVars == <<mgmt, tmpl, chart, svcOk, flaps>>

CondTypes == {"TemplateReady", "HelmChartReady", "HelmReleaseReady",
              "ClusterConditions", "Ready"}
CondStatus == {"True", "False", "Unknown"}
Absent == "Absent"
\* "fails": getSource, the download or the dry-run install fails (each sets
\* HelmChartReady=False); "initFails": the Helm action config fails.
ChartOutcomes == {"fails", "initFails", "ok"}

NoRelease == [exists |-> FALSE, deleting |-> FALSE, ready |-> Absent,
              installed |-> FALSE, uninstalled |-> FALSE]
NoCluster == [exists |-> FALSE, deleting |-> FALSE, conds |-> Absent]
NoInfra   == [exists |-> FALSE, deleting |-> FALSE, blocking |-> FALSE]

TypeOK ==
    /\ mc \in [exists: BOOLEAN, deleting: BOOLEAN, finalizer: BOOLEAN,
               generation: 1..MaxGeneration, dryRun: BOOLEAN,
               install: [Services -> BOOLEAN]]
    /\ status \in [observedGeneration: 0..MaxGeneration,
                   conditions: [CondTypes -> CondStatus \cup {Absent}]]
    /\ mgmt \in BOOLEAN
    /\ tmpl \in {"missing", "invalid", "valid"}
    /\ chart \in ChartOutcomes
    /\ svcOk \in [Services -> BOOLEAN]
    /\ hr \in [exists: BOOLEAN, deleting: BOOLEAN, ready: CondStatus \cup {Absent},
               installed: BOOLEAN, uninstalled: BOOLEAN]
    /\ capi \in [exists: BOOLEAN, deleting: BOOLEAN,
                 conds: CondStatus \cup {Absent}]
    /\ infra \in [ProviderGVKs -> [exists: BOOLEAN, deleting: BOOLEAN, blocking: BOOLEAN]]
    /\ machines \in 0..MaxMachines
    /\ profile \in [exists: BOOLEAN, entries: SUBSET Services]
    /\ flaps \in 0..MaxFlaps

Init ==
    /\ mc \in [exists: {TRUE}, deleting: {FALSE}, finalizer: {FALSE},
               generation: {1}, dryRun: BOOLEAN, install: [Services -> BOOLEAN]]
    /\ status = [observedGeneration |-> 0, conditions |-> [t \in CondTypes |-> Absent]]
    /\ mgmt \in BOOLEAN
    /\ tmpl \in {"missing", "invalid", "valid"}
    /\ chart \in ChartOutcomes
    /\ svcOk \in [Services -> BOOLEAN]
    /\ hr = NoRelease
    /\ capi = NoCluster
    /\ infra = [k \in ProviderGVKs |-> NoInfra]
    /\ machines = 0
    /\ profile = [exists |-> FALSE, entries |-> {}]
    /\ flaps = 0

-----------------------------------------------------------------------------
(***************************************************************************)
(* Condition helpers.                                                      *)
(***************************************************************************)

\* ManagedCluster.InitConditions (api/v1alpha1, not in this tree): every
\* condition Unknown, HelmReleaseReady only when the cluster is not a dry run.
InitConditions(dryRun) ==
    [t \in CondTypes |->
        IF t = "ClusterConditions" \/ (t = "HelmReleaseReady" /\ dryRun)
        THEN Absent ELSE "Unknown"]

SetCond(conds, t, s) == [conds EXCEPT ![t] = s]

\* updateStatus: Ready is False if any other condition is False, else
\* Unknown if any is Unknown, else True.
ReadyOf(conds) ==
    LET others == {conds[t] : t \in CondTypes \ {"Ready"}}
    IN  IF "False" \in others THEN "False"
        ELSE IF "Unknown" \in others THEN "Unknown" ELSE "True"

\* Mutant of updateStatus: observedGeneration recorded one past the spec's.
updateStatusAhead(conds) ==
    status' = [observedGeneration |-> mc.generation + 1,
               conditions |-> SetCond(conds, "Ready", ReadyOf(conds))]

\* updateStatus: observedGeneration and the aggregate Ready condition are
\* written together with the conditions the pass has set.
updateStatus(conds) ==
    status' = [observedGeneration |-> mc.generation,
               conditions |-> SetCond(conds, "Ready", ReadyOf(conds))]

\* Conditions the pass starts from (Update: InitConditions when empty).
StartConds ==
    IF \A t \in CondTypes : status.conditions[t] = Absent
    THEN InitConditions(mc.dryRun) ELSE status.conditions

-----------------------------------------------------------------------------
(***************************************************************************)
(* Reconcile and Update.                                                   *)
(***************************************************************************)

\* Reconcile: a live object is updated; before its first status write the
\* Management object must exist, or the pass returns an error.
CanUpdate ==
    /\ mc.exists /\ ~mc.deleting
    /\ status.observedGeneration = 0 => mgmt

\* Update, first pass: add the finalizer and return.
AddFinalizer ==
    /\ CanUpdate
    /\ ~mc.finalizer
    /\ mc' = [mc EXCEPT !.finalizer = TRUE]
    /\ UNCHANGED <<status, envVars, hr, capi, infra, machines, profile>>

\* Update, ClusterTemplate missing or not valid: TemplateReady=False.
UpdateTemplateNotReady ==
    /\ CanUpdate /\ mc.finalizer
    /\ tmpl # "valid"
    /\ updateStatus(SetCond(StartConds, "TemplateReady", "False"))
    /\ UNCHANGED <<mc, envVars, hr, capi, infra, machines, profile>>

\* Update, template valid but getSource, the download or the dry-run install
\* fails (HelmChartReady=False), or the Helm action config fails to
\* initialise (no condition set).
UpdateChartNotReady ==
    /\ CanUpdate /\ mc.finalizer
    /\ tmpl = "valid"
    /\ chart # "ok"
    /\ LET c1 == SetCond(StartConds, "TemplateReady", "True")
       IN  updateStatus(IF chart = "initFails" THEN c1
                        ELSE SetCond(c1, "HelmChartReady", "False"))
    /\ UNCHANGED <<mc, envVars, hr, capi, infra, machines, profile>>

\* Update, chart valid and spec.dryRun: stop before creating anything.
UpdateDryRun ==
    /\ CanUpdate /\ mc.finalizer
    /\ tmpl = "valid" /\ chart = "ok"
    /\ mc.dryRun
    /\ updateStatus(SetCond(SetCond(StartConds, "TemplateReady", "True"),
                            "HelmChartReady", "True"))
    /\ UNCHANGED <<mc, envVars, hr, capi, infra, machines, profile>>

\* helm.ReconcileHelmRelease (create-or-update): a release it creates has no
\* Ready condition yet.
ReconciledRelease ==
    IF hr.exists THEN hr ELSE [NoRelease EXCEPT !.exists = TRUE]

\* setStatusFromClusterStatus: with no CAPI Cluster yet it asks for a requeue;
\* with no status.conditions it fails; otherwise it copies the conditions
\* and asks for a requeue unless all are True.
ClusterStatusConds(conds) ==
    IF capi.exists /\ capi.conds # Absent
    THEN SetCond(conds, "ClusterConditions", capi.conds) ELSE conds
ClusterComplete == capi.exists /\ capi.conds = "True"

\* The services lookup: svcOk[s] says the lookup of service s succeeds --
\* in the current revision the ServiceTemplate -> HelmChart ->
\* HelmRepository chain of getServiceTemplateRepoURL, in the earlier one
\* the ServiceTemplate Get.
ServicesResolve == \A s \in Services : mc.install[s] => svcOk[s]

-----------------------------------------------------------------------------
(***************************************************************************)
(* Delete and the teardown gate (releaseCluster).                          *)
(***************************************************************************)

\* getCluster lists the objects of kind k labelled with the release name;
\* none found is an error.  machinesAvailable lists Machines with limit 1.
\* removeClusterFinalizer patches hmc.BlockingFinalizer away (a failed
\* patch is an error, i.e. a stutter).
getCluster(k, inf) == inf[k].exists
machinesAvailable == machines > 0
removeClusterFinalizer(k, inf) == [inf EXCEPT ![k].blocking = FALSE]

\* releaseCluster: walk the template's infrastructure providers in order;
\* for a gated provider, a missing cluster object (getCluster) is an error
\* that ends the walk, existing Machines (machinesAvailable) move on to the
\* next provider, and no Machines remove hmc.BlockingFinalizer from the
\* object (removeClusterFinalizer) and end the walk.
RECURSIVE releaseLoop(_, _)
releaseLoop(ps, inf) ==
    IF ps = <<>> THEN inf
    ELSE LET p == Head(ps) IN
         IF p \notin ProviderGVKs THEN releaseLoop(Tail(ps), inf)
         ELSE IF ~getCluster(p, inf) THEN inf
         ELSE IF machinesAvailable THEN releaseLoop(Tail(ps), inf)
         ELSE removeClusterFinalizer(p, inf)

\* getProviders fails when the ClusterTemplate is missing.
releaseCluster ==
    IF tmpl = "missing" THEN infra ELSE releaseLoop(TemplateProviders, infra)

\* Mutant of DeleteRemoveFinalizer: any failed HelmRelease read taken as
\* "not found".
DeleteRemoveFinalizerAnyError ==
    /\ mc.exists /\ mc.deleting
    /\ mc' = [mc EXCEPT !.finalizer = FALSE, !.exists = FALSE]
    /\ UNCHANGED <<status, envVars, hr, capi, infra, machines, profile>>

\* Delete, HelmRelease gone: remove the finalizer; the object, being
\* deleted, then disappears.
DeleteRemoveFinalizer ==
    /\ mc.exists /\ mc.deleting
    /\ ~hr.exists
    /\ mc' = [mc EXCEPT !.finalizer = FALSE, !.exists = FALSE]
    /\ UNCHANGED <<status, envVars, hr, capi, infra, machines, profile>>

-----------------------------------------------------------------------------
(***************************************************************************)
(* The environment: the user, the template and chart sources, Flux,       *)
(* and Cluster API.                                                     *)
(***************************************************************************)

\* The user edits spec.dryRun or the install flags of spec.services.
EditSpec ==
    /\ mc.exists /\ ~mc.deleting
    /\ mc.generation < MaxGeneration
    /\ \E d \in BOOLEAN, i \in [Services -> BOOLEAN] :
          /\ <<d, i>> # <<mc.dryRun, mc.install>>
          /\ mc' = [mc EXCEPT !.dryRun = d, !.install = i, !.generation = @ + 1]
    /\ UNCHANGED <<status, envVars, hr, capi, infra, machines, profile>>

\* The user deletes the ManagedCluster; without a finalizer it goes at once.
DeleteObject ==
    /\ mc.exists /\ ~mc.deleting
    /\ mc' = [mc EXCEPT !.deleting = TRUE, !.exists = mc.finalizer]
    /\ UNCHANGED <<status, envVars, hr, capi, infra, machines, profile>>

\* The Management object is created; the ClusterTemplate arrives (again,
\* after a deletion) or is revalidated; the chart source changes; a
\* ServiceTemplate chain becomes resolvable.
CreateManagement ==
    /\ ~mgmt /\ mgmt' = TRUE
    /\ UNCHANGED <<mc, status, tmpl, chart, svcOk, hr, capi, infra, machines, profile, flaps>>
Flap == flaps < MaxFlaps /\ flaps' = flaps + 1
ValidateTemplate ==
    /\ Flap
    /\ \E v \in {"invalid", "valid"} \ {tmpl} : tmpl' = v
    /\ UNCHANGED <<mc, status, mgmt, chart, svcOk, hr, capi, infra, machines, profile>>
ChangeChart ==
    /\ Flap
    /\ \E c \in ChartOutcomes \ {chart} : chart' = c
    /\ UNCHANGED <<mc, status, mgmt, tmpl, svcOk, hr, capi, infra, machines, profile>>
\* The template deletion webhook (ClusterTemplateValidator.ValidateDelete)
\* refuses while a ManagedCluster in the template's own namespace
\* references it; one in another namespace does not hold it back.
DeleteTemplate ==
    /\ tmpl # "missing"
    /\ ~(InSystemNamespace /\ mc.exists)
    /\ tmpl' = "missing"
    /\ UNCHANGED <<mc, status, mgmt, chart, svcOk, hr, capi, infra, machines, profile, flaps>>
ResolveServiceTemplate(s) ==
    /\ ~svcOk[s] /\ svcOk' = [svcOk EXCEPT ![s] = TRUE]
    /\ UNCHANGED <<mc, status, mgmt, tmpl, chart, hr, capi, infra, machines, profile, flaps>>

\* helm-controller installs the release: the chart creates the CAPI Cluster
\* and the infrastructure cluster objects, which carry hmc.BlockingFinalizer.
FluxInstall ==
    /\ hr.exists /\ ~hr.deleting /\ ~hr.installed
    /\ \E r \in {"True", "False"} : hr' = [hr EXCEPT !.ready = r, !.installed = TRUE]
    /\ capi' = [exists |-> TRUE, deleting |-> FALSE, conds |-> Absent]
    /\ infra' = [k \in ProviderGVKs |->
                   IF k \in ChartInfraKinds
                   THEN [exists |-> TRUE, deleting |-> FALSE, blocking |-> TRUE]
                   ELSE infra[k]]
    /\ UNCHANGED <<mc, status, envVars, machines, profile>>

\* helm-controller later reports the installed release Ready or failed.
FluxReadiness ==
    /\ hr.exists /\ ~hr.deleting /\ hr.installed
    /\ Flap
    /\ \E r \in {"True", "False"} \ {hr.ready} : hr' = [hr EXCEPT !.ready = r]
    /\ UNCHANGED <<mc, status, mgmt, tmpl, chart, svcOk, capi, infra, machines, profile>>

\* helm-controller uninstalls a release being deleted: every resource of the
\* chart is marked for deletion.
FluxUninstall ==
    /\ hr.exists /\ hr.deleting /\ ~hr.uninstalled
    /\ hr' = [hr EXCEPT !.uninstalled = TRUE]
    /\ capi' = [capi EXCEPT !.deleting = capi.exists]
    /\ infra' = [k \in ProviderGVKs |-> [infra[k] EXCEPT !.deleting = infra[k].exists]]
    /\ UNCHANGED <<mc, status, envVars, machines, profile>>

\* helm-controller drops its finalizer and the release disappears.
FluxRemoveRelease ==
    /\ hr.exists /\ hr.uninstalled
    /\ UninstallWaits => (~capi.exists /\ \A k \in ProviderGVKs : ~infra[k].exists)
    /\ hr' = NoRelease
    /\ UNCHANGED <<mc, status, envVars, capi, infra, machines, profile>>

\* Cluster API: the Cluster reports its conditions, which may later change; MachineSets create Machines
\* while the Cluster is not being deleted and delete them once it is; an
\* infrastructure object without the blocking finalizer is torn down; the
\* Cluster goes once its Machines and infrastructure are gone.
ClusterConditionsChange ==
    /\ capi.exists /\ ~capi.deleting
    /\ IF capi.conds = Absent THEN UNCHANGED flaps ELSE Flap
    /\ \E c \in CondStatus \ {capi.conds} : capi' = [capi EXCEPT !.conds = c]
    /\ UNCHANGED <<mc, status, mgmt, tmpl, chart, svcOk, hr, infra, machines, profile>>
CreateMachine ==
    /\ capi.exists /\ ~capi.deleting
    /\ machines < MaxMachines /\ machines' = machines + 1
    /\ UNCHANGED <<mc, status, envVars, hr, capi, infra, profile>>
DeleteMachine ==
    /\ capi.deleting
    /\ machines > 0 /\ machines' = machines - 1
    /\ UNCHANGED <<mc, status, envVars, hr, capi, infra, profile>>
DeleteInfra(k) ==
    /\ infra[k].exists /\ infra[k].deleting /\ ~infra[k].blocking
    /\ infra' = [infra EXCEPT ![k] = NoInfra]
    /\ UNCHANGED <<mc, status, envVars, hr, capi, machines, profile>>
RemoveCluster ==
    /\ capi.exists /\ capi.deleting
    /\ machines = 0 /\ \A k \in ProviderGVKs : ~infra[k].exists
    /\ capi' = NoCluster
    /\ UNCHANGED <<mc, status, envVars, hr, infra, machines, profile>>

Environment ==
    \/ EditSpec \/ DeleteObject
    \/ CreateManagement \/ ValidateTemplate \/ DeleteTemplate \/ ChangeChart
    \/ \E s \in Services : ResolveServiceTemplate(s)
    \/ FluxInstall \/ FluxReadiness \/ FluxUninstall \/ FluxRemoveRelease
    \/ ClusterConditionsChange \/ CreateMachine \/ DeleteMachine
    \/ \E k \in ProviderGVKs : DeleteInfra(k)
    \/ RemoveCluster

\* Flux and Cluster API make progress on what they own; the user, the
\* template sources and readiness outcomes do not.
EnvFairness ==
    /\ WF_vars(FluxInstall) /\ WF_vars(FluxUninstall) /\ WF_vars(FluxRemoveRelease)
    /\ WF_vars(DeleteMachine) /\ WF_vars(RemoveCluster)
    /\ \A k \in ProviderGVKs : WF_vars(DeleteInfra(k))

-----------------------------------------------------------------------------
(***************************************************************************)
(* Properties.                                                             *)
(***************************************************************************)

\* The objects a ManagedCluster deploys, as the abstract teardown sees
\* them: its HelmRelease, the CAPI Cluster, the infrastructure cluster
\* objects and the Machines.  The Cluster goes after its Machines and
\* infrastructure, the release after everything its chart created.
Deployed == {"release", "cluster", "infra", "machines"}
TeardownBefore ==
    {<<"machines", "cluster">>, <<"infra", "cluster">>,
     <<"cluster", "release">>, <<"infra", "release">>}

\* The refinement mapping: the ManagedCluster's phase, and which of its
\* dependents exist.
Phase == IF ~mc.exists THEN "gone" ELSE IF mc.deleting THEN "deleting" ELSE "live"
Owned ==
    {d \in Deployed :
        \/ d = "release"  /\ hr.exists
        \/ d = "cluster"  /\ capi.exists
        \/ d = "infra"    /\ \E k \in ProviderGVKs : infra[k].exists
        \/ d = "machines" /\ machines > 0}

Abstract == INSTANCE Teardown WITH
    Dependents <- Deployed, Before <- TeardownBefore,
    phase <- Phase, owned <- Owned

\* Delete implements the abstract teardown: the ManagedCluster loses its
\* finalizer only once its release, Cluster, infrastructure objects and
\* Machines are all gone; Flux and Cluster API remove them in dependency
\* order; and a deletion, once requested, completes.
TeardownRefinement == Abstract!Spec

\* Deleting a ManagedCluster eventually removes it together with its
\* release, profile, CAPI Cluster, Machines and infrastructure objects.
Cleaned ==
    /\ ~mc.exists /\ ~hr.exists /\ ~profile.exists
    /\ ~capi.exists /\ machines = 0
    /\ \A k \in ProviderGVKs : ~infra[k].exists
DeletionCompletes == mc.deleting ~> Cleaned

\* Once the cluster is deployed and ready and stays so, updateServices
\* brings the ClusterProfile to exactly the services with install=true.
Settled ==
    /\ mc.exists /\ ~mc.deleting /\ mc.finalizer /\ ~mc.dryRun
    /\ tmpl = "valid" /\ chart = "ok"
    /\ hr.ready = "True" /\ ClusterComplete /\ ServicesResolve
ServicesConverge ==
    <>[]Settled => <>[](profile.exists /\ profile.entries = {s \in Services : mc.install[s]})

\* releaseCluster's gate: while a Machine of the cluster exists, every
\* infrastructure cluster object the chart created still exists.
InfraOutlivesMachines ==
    capi.exists /\ machines > 0 => \A k \in ChartInfraKinds : infra[k].exists

\* Spec 4.3 deletion order: the add-on profile is deleted before the
\* primary release, so by the time Flux uninstalls the cluster's release
\* no ClusterProfile still selects the cluster to deploy services into it.
ProfileGoneBeforeUninstall == hr.uninstalled => ~profile.exists

\* A status write that reports a non-dry-run cluster Ready=True is made
\* only while its HelmRelease is Ready.
ReadyImpliesReleaseReady ==
    [][status' # status /\ status'.conditions["Ready"] = "True" /\ ~mc.dryRun
        => hr'.exists /\ hr'.ready = "True"]_vars

====
