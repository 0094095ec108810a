----------------------------- MODULE Management -----------------------------
(***************************************************************************)
(* The Management reconciler (internal/controller/management_controller.go) *)
(* -- the component installer -- with the objects it drives: one Flux      *)
(* HelmRelease per component in the system namespace, the HMC-labelled     *)
(* HelmCharts and HelmRepositories it removes on deletion, the component   *)
(* Templates it reads, and the cert-manager API it requires.               *)
(*                                                                         *)
(* Management is a singleton ("hmc"), and controller-runtime runs at most  *)
(* one reconcile of it at a time: one pass is one atomic step.  Flux,      *)
(* the Template controller and the user act between passes.                *)
(***************************************************************************)
EXTENDS Naturals, FiniteSets

CONSTANTS
    ProviderNames,   \* templates that spec.providers may name
    MaxGeneration,   \* bound on spec writes (defaults and user edits)
    MaxFlaps         \* bound on template validity changes, failed writes
                     \* and Template controller re-creations

\* DefaultCoreHMCTemplate and DefaultCoreCAPITemplate (management_types.go).
HMC  == "hmc"
CAPI == "cluster-api"
Names == {HMC, CAPI} \cup ProviderNames

ASSUME /\ HMC \notin ProviderNames /\ CAPI \notin ProviderNames
       /\ MaxGeneration \in Nat \ {0} /\ MaxFlaps \in Nat

VARIABLES
    mg,        \* the Management object: metadata and spec
    mstatus,   \* its status: observedGeneration and components
    tmpl,      \* component Templates in the system namespace
    certOk,    \* the cert-manager API is installed
    rel,       \* HMC-labelled HelmReleases, one per component name
    charts,    \* the HMC-labelled HelmCharts (created by the Template controller)
    repos,     \* the HMC-labelled HelmRepositories (likewise)
    flaps      \* environment outcome changes so far (bounded by MaxFlaps)

vars == <<mg, mstatus, tmpl, certOk, rel, charts, repos, flaps>>

NoRelease == [exists |-> FALSE, deleting |-> FALSE, suspended |-> FALSE,
              ready |-> FALSE, dependsOn |-> {}]
Source == [exists: BOOLEAN, deleting: BOOLEAN]
CompStatus == {"none", "success", "failed"}

TypeOK ==
    /\ mg \in [exists: BOOLEAN, deleting: BOOLEAN, finalizer: BOOLEAN,
               core: BOOLEAN, providers: SUBSET ProviderNames,
               generation: 1..MaxGeneration]
    /\ mstatus \in [observedGeneration: 0..MaxGeneration,
                    components: [Names -> CompStatus]]
    /\ tmpl \in [Names -> {"missing", "invalid", "valid"}]
    /\ certOk \in BOOLEAN
    /\ rel \in [Names -> [exists: BOOLEAN, deleting: BOOLEAN, suspended: BOOLEAN,
                          ready: BOOLEAN, dependsOn: SUBSET Names]]
    /\ charts \in Source /\ repos \in Source
    /\ flaps \in 0..MaxFlaps

\* The hmc chart creates the Management object (createManagement: true),
\* with or without spec.core; the templates are created by the same chart
\* and validated by the Template controller, which also created the
\* HelmCharts and the default HelmRepository.
Init ==
    /\ mg \in [exists: {TRUE}, deleting: {FALSE}, finalizer: {FALSE},
               core: BOOLEAN, providers: SUBSET ProviderNames, generation: {1}]
    /\ mstatus = [observedGeneration |-> 0, components |-> [n \in Names |-> "none"]]
    /\ tmpl \in [Names -> {"missing", "valid"}]
    /\ certOk \in BOOLEAN
    /\ rel = [n \in Names |-> NoRelease]
    /\ charts = [exists |-> TRUE, deleting |-> FALSE]
    /\ repos = [exists |-> TRUE, deleting |-> FALSE]
    /\ flaps = 0

Flap == flaps < MaxFlaps /\ flaps' = flaps + 1

-----------------------------------------------------------------------------
(***************************************************************************)
(* Update.                                                                 *)
(***************************************************************************)

Live == mg.exists /\ ~mg.deleting

\* Update, first pass: add the finalizer and return.
AddFinalizer ==
    /\ Live /\ ~mg.finalizer
    /\ mg' = [mg EXCEPT !.finalizer = TRUE]
    /\ UNCHANGED <<mstatus, tmpl, certOk, rel, charts, repos, flaps>>

\* ManagementSpec.SetDefaults: an unset spec.core becomes
\* DefaultCoreConfiguration; a set one is left alone (changed = false).
SpecSetDefaults(m) == IF m.core THEN m ELSE [m EXCEPT !.core = TRUE]

\* Update: when SetDefaults changed the spec, write it (a spec write, so a
\* new generation) and return.
SetDefaults ==
    /\ Live /\ mg.finalizer
    /\ SpecSetDefaults(mg) # mg
    /\ mg.generation < MaxGeneration
    /\ mg' = [SpecSetDefaults(mg) EXCEPT !.generation = @ + 1]
    /\ UNCHANGED <<mstatus, tmpl, certOk, rel, charts, repos, flaps>>

\* enableAdditionalComponents: fails the whole pass unless the cert-manager
\* API is installed (certmanager.VerifyAPI); otherwise it only rewrites the
\* hmc component's values in memory.
enableAdditionalComponents == certOk

\* Mutant of wrappedComponents: the providers loop is lost.
wrappedComponentsCoreOnly ==
    [n \in {HMC, CAPI} |-> IF n = HMC THEN {} ELSE {HMC}]
\* wrappedComponents: component name -> the releases its HelmRelease
\* dependsOn: hmc none, cluster-api the hmc release, every provider the
\* cluster-api release.
wrappedComponents ==
    [n \in {HMC, CAPI} \cup mg.providers |->
        IF n = HMC THEN {} ELSE IF n = CAPI THEN {HMC} ELSE {CAPI}]

\* helm.ReconcileHelmRelease2: create or update the release's spec.
reconciledRelease(n, deps) ==
    IF rel[n].exists THEN [rel[n] EXCEPT !.dependsOn = deps]
    ELSE [NoRelease EXCEPT !.exists = TRUE, !.dependsOn = deps]

\* updateComponentsStatus: success exactly when no error was recorded.
updateComponentsStatus(comps, ok) ==
    [n \in Names |-> IF n \notin comps THEN "none"
                     ELSE IF n \in ok THEN "success" ELSE "failed"]

\* Mutant of UpdateComponents: observedGeneration one past the spec's.
UpdateComponentsAhead ==
    /\ Live /\ mg.finalizer /\ mg.core
    /\ enableAdditionalComponents
    /\ LET wc == wrappedComponents
           comps == DOMAIN wc
           valid == {n \in comps : tmpl[n] = "valid"}
       IN  /\ rel' = [n \in Names |-> IF n \in valid THEN reconciledRelease(n, wc[n])
                                      ELSE rel[n]]
           /\ mstatus' = [observedGeneration |-> mg.generation + 1,
                          components |-> updateComponentsStatus(comps, valid)]
           /\ UNCHANGED flaps
    /\ UNCHANGED <<mg, tmpl, certOk, charts, repos>>

\* Mutant of UpdateComponents: a missing or invalid template returns the
\* error instead of continuing, so the components after it in the loop
\* (hmc, cluster-api, then spec.providers; the bad provider listed first)
\* are skipped and no status is written.
UpdateComponentsAbort ==
    /\ Live /\ mg.finalizer /\ mg.core
    /\ enableAdditionalComponents
    /\ LET wc == wrappedComponents
           comps == DOMAIN wc
           bad == {n \in comps : tmpl[n] # "valid"}
           reached == IF HMC \in bad THEN {}
                      ELSE IF CAPI \in bad THEN {HMC}
                      ELSE IF bad # {} THEN {HMC, CAPI}
                      ELSE comps
       IN  /\ rel' = [n \in Names |-> IF n \in reached THEN reconciledRelease(n, wc[n])
                                      ELSE rel[n]]
           /\ mstatus' = IF bad # {} THEN mstatus
                         ELSE [observedGeneration |-> mg.generation,
                               components |-> updateComponentsStatus(comps, comps)]
    /\ UNCHANGED <<mg, tmpl, certOk, charts, repos, flaps>>

\* Update, core set and cert-manager present: for every wrapped component
\* whose Template exists and is valid, reconcile its HelmRelease (a failure
\* is recorded and the loop continues); then write observedGeneration and
\* the components map rebuilt from this pass.  ReconcileHelmRelease2 and
\* the status write may fail transiently.
UpdateComponents ==
    /\ Live /\ mg.finalizer /\ mg.core
    /\ enableAdditionalComponents
    /\ LET wc == wrappedComponents
           comps == DOMAIN wc
           valid == {n \in comps : tmpl[n] = "valid"}
       IN  \E failed \in SUBSET valid, statusFails \in BOOLEAN :
             LET ok == valid \ failed IN
             /\ (failed # {} \/ statusFails) => Flap
             /\ (failed = {} /\ ~statusFails) => UNCHANGED flaps
             /\ rel' = [n \in Names |-> IF n \in ok THEN reconciledRelease(n, wc[n])
                                        ELSE rel[n]]
             /\ mstatus' = IF statusFails THEN mstatus
                           ELSE [observedGeneration |-> mg.generation,
                                 components |-> updateComponentsStatus(comps, ok)]
    /\ UNCHANGED <<mg, tmpl, certOk, charts, repos>>

-----------------------------------------------------------------------------
(***************************************************************************)
(* Delete: removeHelmReleases, removeHelmCharts, removeHelmRepositories,   *)
(* then the finalizer; each step returns the error of its predecessor.     *)
(***************************************************************************)

\* utils.EnsureDeleteAllOf (not in this tree; spec 4.2): issue a delete on
\* every labelled object not yet being deleted, and fail while any remains.
EnsureDeleteAllOf(o) == [o EXCEPT !.deleting = o.exists]
AllGone(o) == ~o.exists

ReleasesGone == \A n \in Names : ~rel[n].exists

\* Delete passes the hmc release name as Spec.Core.HMC.HelmReleaseName():
\* with spec.core unset the pass dereferences a nil pointer and panics
\* before changing anything.
Deleting == mg.exists /\ mg.deleting /\ mg.core

\* Mutant of removeHelmReleases: only the releases of the current spec's
\* components are deleted (a list by name instead of by label).
removeHelmReleasesSpecOnly ==
    [n \in Names |->
        IF ~rel[n].exists \/ n \notin {HMC, CAPI} \cup mg.providers THEN rel[n]
        ELSE [rel[n] EXCEPT !.deleting = TRUE,
                            !.suspended = IF n = HMC THEN TRUE ELSE @]]

\* removeHelmReleases: suspend the hmc release if it exists, then delete
\* every HelmRelease.
removeHelmReleases ==
    [n \in Names |->
        IF ~rel[n].exists THEN rel[n]
        ELSE [rel[n] EXCEPT !.deleting = TRUE,
                            !.suspended = IF n = HMC THEN TRUE ELSE @]]

\* Delete, HelmReleases remain: suspend hmc, delete them all, fail.
DeleteReleases ==
    /\ Deleting
    /\ ~ReleasesGone
    /\ rel' = removeHelmReleases
    /\ UNCHANGED <<mg, mstatus, tmpl, certOk, charts, repos, flaps>>

\* Delete, no HelmRelease left, HelmCharts remain: delete them, fail.
DeleteCharts ==
    /\ Deleting
    /\ ReleasesGone /\ ~AllGone(charts)
    /\ charts' = EnsureDeleteAllOf(charts)
    /\ UNCHANGED <<mg, mstatus, tmpl, certOk, rel, repos, flaps>>

\* Delete, HelmRepositories remain: delete them, fail.
DeleteRepositories ==
    /\ Deleting
    /\ ReleasesGone /\ AllGone(charts) /\ ~AllGone(repos)
    /\ repos' = EnsureDeleteAllOf(repos)
    /\ UNCHANGED <<mg, mstatus, tmpl, certOk, rel, charts, flaps>>

\* Delete, everything gone: remove the finalizer; the object disappears.
RemoveFinalizer ==
    /\ Deleting
    /\ ReleasesGone /\ AllGone(charts) /\ AllGone(repos)
    /\ mg' = [mg EXCEPT !.finalizer = FALSE, !.exists = FALSE]
    /\ UNCHANGED <<mstatus, tmpl, certOk, rel, charts, repos, flaps>>

Controller ==
    \/ AddFinalizer \/ SetDefaults \/ UpdateComponents
    \/ DeleteReleases \/ DeleteCharts \/ DeleteRepositories \/ RemoveFinalizer

-----------------------------------------------------------------------------
(***************************************************************************)
(* The environment.                                                        *)
(***************************************************************************)

\* The user edits spec.providers, or deletes the Management object.
EditProviders ==
    /\ Live /\ mg.core /\ mg.generation < MaxGeneration
    /\ \E ps \in (SUBSET ProviderNames) \ {mg.providers} :
          mg' = [mg EXCEPT !.providers = ps, !.generation = @ + 1]
    /\ UNCHANGED <<mstatus, tmpl, certOk, rel, charts, repos, flaps>>
DeleteObject ==
    /\ Live
    /\ mg' = [mg EXCEPT !.deleting = TRUE, !.exists = mg.finalizer]
    /\ UNCHANGED <<mstatus, tmpl, certOk, rel, charts, repos, flaps>>

\* cert-manager, a subchart of the hmc chart, comes up.
CertManagerUp ==
    /\ ~certOk /\ certOk' = TRUE
    /\ UNCHANGED <<mg, mstatus, tmpl, rel, charts, repos, flaps>>

\* The Template controller marks a component template valid or invalid.
ValidateTemplate(n) ==
    /\ Flap
    /\ \E v \in {"invalid", "valid"} \ {tmpl[n]} : tmpl' = [tmpl EXCEPT ![n] = v]
    /\ UNCHANGED <<mg, mstatus, certOk, rel, charts, repos>>

\* A template reconcile re-creates the default HelmRepository and its
\* HelmChart when they are gone (ReconcileHelmRepository, reconcileHelmChart).
RecreateSources ==
    /\ Flap
    /\ ~charts.exists \/ ~repos.exists
    /\ charts' = IF charts.exists THEN charts ELSE [exists |-> TRUE, deleting |-> FALSE]
    /\ repos' = IF repos.exists THEN repos ELSE [exists |-> TRUE, deleting |-> FALSE]
    /\ UNCHANGED <<mg, mstatus, tmpl, certOk, rel>>

\* helm-controller installs a release once every release it dependsOn is
\* Ready, and removes a release being deleted (a suspended one without
\* uninstalling).  source-controller removes deleted charts and repositories.
FluxInstall(n) ==
    /\ rel[n].exists /\ ~rel[n].deleting /\ ~rel[n].suspended /\ ~rel[n].ready
    /\ \A d \in rel[n].dependsOn : rel[d].ready
    /\ rel' = [rel EXCEPT ![n].ready = TRUE]
    /\ UNCHANGED <<mg, mstatus, tmpl, certOk, charts, repos, flaps>>
FluxRemoveRelease(n) ==
    /\ rel[n].exists /\ rel[n].deleting
    /\ rel' = [rel EXCEPT ![n] = NoRelease]
    /\ UNCHANGED <<mg, mstatus, tmpl, certOk, charts, repos, flaps>>
SourceRemoveChart ==
    /\ charts.exists /\ charts.deleting
    /\ charts' = [exists |-> FALSE, deleting |-> FALSE]
    /\ UNCHANGED <<mg, mstatus, tmpl, certOk, rel, repos, flaps>>
SourceRemoveRepository ==
    /\ repos.exists /\ repos.deleting
    /\ repos' = [exists |-> FALSE, deleting |-> FALSE]
    /\ UNCHANGED <<mg, mstatus, tmpl, certOk, rel, charts, flaps>>

Environment ==
    \/ EditProviders \/ DeleteObject \/ CertManagerUp
    \/ \E n \in Names : ValidateTemplate(n)
    \/ RecreateSources
    \/ \E n \in Names : FluxInstall(n) \/ FluxRemoveRelease(n)
    \/ SourceRemoveChart \/ SourceRemoveRepository

Next == Controller \/ Environment

\* Errors are requeued with backoff and Management is resynced, so an
\* enabled pass is eventually taken; Flux and source-controller make
\* progress on what they own; cert-manager is installed by the hmc chart
\* itself.  The user and template validity get no fairness.
Fairness ==
    /\ WF_vars(Controller)
    /\ WF_vars(CertManagerUp)
    /\ \A n \in Names : WF_vars(FluxInstall(n)) /\ WF_vars(FluxRemoveRelease(n))
    /\ WF_vars(SourceRemoveChart) /\ WF_vars(SourceRemoveRepository)

Spec == Init /\ [][Next]_vars /\ Fairness

-----------------------------------------------------------------------------
(***************************************************************************)
(* Properties.                                                             *)
(***************************************************************************)

\* While the Management object stays and its templates stay valid, Update
\* eventually reports every component of the current spec as successful
\* for the current generation, and every one of them is installed.
Stable == mg.exists /\ ~mg.deleting /\ \A n \in Names : tmpl[n] = "valid"
Converged ==
    /\ mg.core /\ mstatus.observedGeneration = mg.generation
    /\ \A n \in {HMC, CAPI} \cup mg.providers :
          mstatus.components[n] = "success" /\ rel[n].ready
ComponentsConverge == <>[]Stable => <>[]Converged

\* Update records a missing or invalid template, or a failed release
\* reconcile, and continues with the next component, so a provider whose
\* template stays bad does not hold back the others: a provider that stays
\* in spec.providers, with its own template and those of hmc and
\* cluster-api valid, is eventually installed and reported successful,
\* whatever the templates of the other providers are.
ProviderConvergesDespiteOthers ==
    \A p \in ProviderNames :
        <>[](/\ Live /\ mg.core /\ p \in mg.providers
             /\ tmpl[HMC] = "valid" /\ tmpl[CAPI] = "valid" /\ tmpl[p] = "valid")
          => <>[](rel[p].ready /\ mstatus.components[p] = "success")

\* Deleting a Management object that has its finalizer eventually removes
\* it and every HMC HelmRelease, HelmChart and HelmRepository (spec 4.2:
\* finalizer removal naturally succeeds once the children are gone).
Removed == ~mg.exists /\ ReleasesGone /\ AllGone(charts) /\ AllGone(repos)
DeletionCompletes == mg.deleting /\ mg.finalizer ~> Removed

\* The same for a Management object whose spec.core was defaulted before
\* its deletion: Delete removes every labelled release, orphans of
\* providers dropped from spec.providers included, then the charts and
\* repositories, and finally the object.
DefaultedDeletionCompletes == mg.deleting /\ mg.finalizer /\ mg.core ~> Removed

====
