------------------------------ MODULE Template ------------------------------
(***************************************************************************)
(* The template reconcilers (internal/controller/template_controller.go): *)
(* ClusterTemplate, ServiceTemplate and ProviderTemplate share            *)
(* ReconcileTemplate.  One template is modelled with the HelmChart its     *)
(* spec resolves to, the default HelmRepository, and Flux source-         *)
(* controller fetching the chart's artifact.  Templates share nothing      *)
(* writable, and controller-runtime runs one reconcile per template at a   *)
(* time: one pass is one atomic step.                                      *)
(***************************************************************************)
EXTENDS Naturals

CONSTANTS
    Locators,       \* spec.helm forms the user may write (see LocatorForms)
    SystemTemplate, \* in the system namespace or not HMC-managed: the
                    \* controller also reconciles the default HelmRepository
    MaxGeneration,  \* bound on spec edits
    MaxFlaps        \* bound on re-published chart contents

\* "name": chartName set; "ref": chartRef to a HelmChart; "badRef": chartRef
\* of another kind; "empty": neither set.
LocatorForms == {"name", "ref", "badRef", "empty"}
\* An infrastructure provider list: empty, or one of two values.
ProvVals == {"none", "aws", "azure"}
\* What the downloaded chart yields: download, metadata and Validate outcomes
\* and the infrastructure-providers annotation.
Contents == [download: BOOLEAN, metadata: BOOLEAN, valid: BOOLEAN,
             annotation: ProvVals]

ASSUME /\ Locators \subseteq LocatorForms /\ "name" \in Locators
       /\ SystemTemplate \in BOOLEAN
       /\ MaxGeneration \in Nat \ {0} /\ MaxFlaps \in Nat

VARIABLES
    tpl,      \* the template's spec: locator, spec.providers, generation
    tstatus,  \* its status
    hc,       \* the HelmChart the spec resolves to, and its artifact
    repo,     \* the default HelmRepository exists
    flaps     \* chart re-publications so far (bounded by MaxFlaps)

vars == <<tpl, tstatus, hc, repo, flaps>>

Artifacts == {"pending", "ready", "failed"}
NoChart == [exists |-> FALSE, artifact |-> "pending",
            content |-> [download |-> TRUE, metadata |-> TRUE, valid |-> TRUE,
                         annotation |-> "none"]]

TypeOK ==
    /\ tpl \in [locator: Locators, specProviders: ProvVals,
                generation: 1..MaxGeneration]
    /\ tstatus \in [observedGeneration: 0..MaxGeneration, valid: BOOLEAN,
                    error: BOOLEAN, chartRef: BOOLEAN, providers: ProvVals,
                    config: BOOLEAN]
    /\ hc \in [exists: BOOLEAN, artifact: Artifacts, content: Contents]
    /\ repo \in BOOLEAN
    /\ flaps \in 0..MaxFlaps

\* A chartRef names a HelmChart someone else created; a chartName's chart
\* is created by the controller.
ChartOf(loc) == IF loc = "ref" THEN [NoChart EXCEPT !.exists = TRUE] ELSE NoChart

Init ==
    /\ tpl \in [locator: Locators \cap {"name", "ref"}, specProviders: ProvVals,
                generation: {1}]
    /\ tstatus = [observedGeneration |-> 0, valid |-> FALSE, error |-> FALSE,
                  chartRef |-> FALSE, providers |-> "none", config |-> FALSE]
    /\ hc = ChartOf(tpl.locator)
    /\ repo = FALSE
    /\ flaps = 0

-----------------------------------------------------------------------------
(***************************************************************************)
(* ReconcileTemplate.                                                      *)
(***************************************************************************)

\* The locator resolves to a HelmChart: a chartRef of kind HelmChart that
\* exists (getHelmChartFromChartRef), or a chartName.  Otherwise the pass
\* returns an error before writing anything.
Resolves ==
    \/ tpl.locator = "ref" /\ hc.exists
    \/ tpl.locator = "name"

\* ReconcileHelmRepository and reconcileHelmChart (chartName only): create
\* the default repository and the chart if missing.
reconcileSources ==
    /\ repo' = IF tpl.locator = "name" /\ SystemTemplate THEN TRUE ELSE repo
    /\ hc' = IF tpl.locator = "name" /\ ~hc.exists
             THEN [hc EXCEPT !.exists = TRUE, !.artifact = "pending"]
             ELSE hc

\* parseChartMetadata: spec.providers win; otherwise a non-empty annotation
\* replaces the status list; an empty one leaves it as it was.
parseChartMetadata(c) ==
    IF tpl.specProviders # "none" THEN tpl.specProviders
    ELSE IF c.annotation # "none" THEN c.annotation
    ELSE tstatus.providers

\* Mutant of updateStatus: observedGeneration one past the spec's.
updateStatusAhead(s, err) ==
    tstatus' = [s EXCEPT !.observedGeneration = tpl.generation + 1,
                         !.error = err, !.valid = ~err]

\* Mutant of updateStatus: observedGeneration is not written.
updateStatusKeepGeneration(s, err) ==
    tstatus' = [s EXCEPT !.error = err, !.valid = ~err]

\* updateStatus: observedGeneration, validationError and valid = (error
\* empty), with whatever the pass set in memory before it failed.
updateStatus(s, err) ==
    tstatus' = [s EXCEPT !.observedGeneration = tpl.generation,
                         !.error = err, !.valid = ~err]

\* helm.ArtifactReady (not in this tree; spec 4.1 step 2): no artifact yet
\* -> error, status left alone; the chart reports a failure -> error
\* copied to status.
ReconcileNotReady ==
    /\ Resolves
    /\ reconcileSources
    /\ hc'.artifact = "pending"
    /\ UNCHANGED <<tpl, tstatus, flaps>>

ReconcileArtifactFailed ==
    /\ Resolves
    /\ reconcileSources
    /\ hc'.artifact = "failed"
    /\ updateStatus([tstatus EXCEPT !.chartRef = TRUE], TRUE)
    /\ UNCHANGED <<tpl, flaps>>

\* Artifact ready: download it, parse the metadata, validate the chart and
\* store its values; the first failure is written to status.
ReconcileChart ==
    /\ Resolves
    /\ reconcileSources
    /\ hc'.artifact = "ready"
    /\ LET c  == hc.content
           s1 == [tstatus EXCEPT !.chartRef = TRUE]
           s2 == [s1 EXCEPT !.providers = parseChartMetadata(c)]
       IN  CASE ~c.download -> updateStatus(s1, TRUE)
             [] ~c.metadata -> updateStatus(s1, TRUE)
             [] ~c.valid    -> updateStatus(s2, TRUE)
             [] OTHER       -> updateStatus([s2 EXCEPT !.config = TRUE], FALSE)
    /\ UNCHANGED <<tpl, flaps>>

Controller == ReconcileNotReady \/ ReconcileArtifactFailed \/ ReconcileChart

-----------------------------------------------------------------------------
(***************************************************************************)
(* The environment: the user edits the spec, source-controller fetches     *)
(* artifacts, a chart behind a chartRef is re-published.                   *)
(***************************************************************************)

\* A spec edit: a new locator (a new chart object to resolve) or new
\* spec.providers; a new chart version makes the chart fetch again.
EditTemplate ==
    /\ tpl.generation < MaxGeneration
    /\ \E l \in Locators, p \in ProvVals :
          /\ tpl' = [locator |-> l, specProviders |-> p, generation |-> tpl.generation + 1]
          /\ hc' = IF l = tpl.locator /\ l \in {"name", "ref"} /\ hc.exists
                   THEN [hc EXCEPT !.artifact = "pending"]
                   ELSE ChartOf(l)
    /\ UNCHANGED <<tstatus, repo, flaps>>

FetchArtifact ==
    /\ hc.exists /\ hc.artifact = "pending"
    /\ \/ \E c \in Contents : hc' = [hc EXCEPT !.artifact = "ready", !.content = c]
       \/ hc' = [hc EXCEPT !.artifact = "failed"]
    /\ UNCHANGED <<tpl, tstatus, repo, flaps>>

\* The HelmChart behind a chartRef is changed by its owner.
Republish ==
    /\ tpl.locator = "ref" /\ hc.exists /\ hc.artifact # "pending"
    /\ flaps < MaxFlaps /\ flaps' = flaps + 1
    /\ hc' = [hc EXCEPT !.artifact = "pending"]
    /\ UNCHANGED <<tpl, tstatus, repo>>

Environment == EditTemplate \/ FetchArtifact \/ Republish

Next == Controller \/ Environment

\* Every error is requeued with backoff, so an enabled pass is eventually
\* taken; source-controller eventually fetches a pending chart.
Fairness == WF_vars(Controller) /\ WF_vars(FetchArtifact)

Spec == Init /\ [][Next]_vars /\ Fairness

-----------------------------------------------------------------------------
(***************************************************************************)
(* Properties.                                                             *)
(***************************************************************************)

\* The chart the current spec resolves to downloads, parses and validates.
ChartUsable ==
    /\ tpl.locator \in {"name", "ref"} /\ hc.exists /\ hc.artifact = "ready"
    /\ hc.content.download /\ hc.content.metadata /\ hc.content.valid

\* Validity self-heals (spec 4.1): whatever the earlier spec and artifacts,
\* status.valid eventually says, for good, whether the current spec's chart
\* is usable.
ValidityConverges == <>[](tstatus.valid <=> ChartUsable)

\* ReconcileTemplate implements TemplateStatus: every status write records
\* the generation and the chart's usability of one instant (observed-
\* Generation with the validity judged from the chart that pass read), and
\* a status that no longer matches the spec or the chart is rewritten.
Abstract == INSTANCE TemplateStatus
    WITH generation <- tpl.generation, usable <- ChartUsable,
         observed <- tstatus.observedGeneration, valid <- tstatus.valid
TemplateStatusRefinement == Abstract!Spec

\* The infrastructure providers that spec 4.1 step 4 derives: spec.providers
\* if set, else the chart's annotation (empty when it has none).
EffectiveProviders ==
    IF tpl.specProviders # "none" THEN tpl.specProviders ELSE hc.content.annotation

\* A status write that marks the template valid records exactly the
\* providers derived from the current spec and chart (releaseCluster and
\* the Management status read them).
ProvidersMatchChart ==
    [][tstatus'.valid /\ tstatus' # tstatus => tstatus'.providers = EffectiveProviders']_vars

====
