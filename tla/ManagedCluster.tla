--------------------------- MODULE ManagedCluster ---------------------------
(***************************************************************************)
(* The current revision of the ManagedCluster reconciler                  *)
(* (internal/controller/managedcluster_controller.go, from line 674 on):   *)
(* what it does differently from the earlier revision -- the services      *)
(* pass of updateServices, which aborts on any unresolvable service, and   *)
(* a Delete that removes the ClusterProfile itself -- and its             *)
(* specification.                                                          *)
(***************************************************************************)
EXTENDS ManagedClusterCommon

\* Mutant of updateServices: entries are added but never dropped.
updateServicesAddOnly ==
    IF ServicesResolve
    THEN [exists |-> TRUE,
          entries |-> {s \in Services : mc.install[s] \/ s \in profile.entries}]
    ELSE profile

\* updateServices: every service with install=true must resolve through
\* getServiceTemplateRepoURL, or the whole pass fails; otherwise the
\* ClusterProfile is reconciled to carry exactly those services.
updateServices ==
    IF ServicesResolve
    THEN [exists |-> TRUE, entries |-> {s \in Services : mc.install[s]}]
    ELSE profile

\* Update, chart valid and not a dry run: reconcile the HelmRelease, mirror
\* its Ready condition, copy the CAPI Cluster conditions, and once both are
\* ready reconcile the services.  A failed ReconcileHelmRelease sets
\* HelmReleaseReady=False and stops.
UpdateRelease ==
    /\ CanUpdate /\ mc.finalizer
    /\ tmpl = "valid" /\ chart = "ok"
    /\ ~mc.dryRun
    /\ LET c2 == SetCond(SetCond(StartConds, "TemplateReady", "True"),
                         "HelmChartReady", "True")
       IN  \/ /\ updateStatus(SetCond(c2, "HelmReleaseReady", "False"))
              /\ UNCHANGED <<hr, profile>>
           \/ LET r  == ReconciledRelease
                  c3 == IF r.ready = Absent THEN c2
                        ELSE SetCond(c2, "HelmReleaseReady", r.ready)
              IN  /\ hr' = r
                  /\ updateStatus(ClusterStatusConds(c3))
                  /\ profile' = IF ClusterComplete /\ r.ready = "True"
                                THEN updateServices ELSE profile
    /\ UNCHANGED <<mc, envVars, capi, infra, machines>>

\* Mutant of DeleteRelease: the ClusterProfile is left in place.
DeleteReleaseKeepProfile ==
    /\ mc.exists /\ mc.deleting
    /\ hr.exists
    /\ hr' = [hr EXCEPT !.deleting = TRUE]
    /\ infra' = releaseCluster
    /\ UNCHANGED <<mc, status, envVars, capi, machines, profile>>

\* Delete, HelmRelease present: delete the ClusterProfile, issue the delete
\* of the release, run releaseCluster and requeue.
DeleteRelease ==
    /\ mc.exists /\ mc.deleting
    /\ hr.exists
    /\ profile' = [exists |-> FALSE, entries |-> {}]
    /\ hr' = [hr EXCEPT !.deleting = TRUE]
    /\ infra' = releaseCluster
    /\ UNCHANGED <<mc, status, envVars, capi, machines>>

Controller ==
    \/ AddFinalizer \/ UpdateTemplateNotReady \/ UpdateChartNotReady
    \/ UpdateDryRun \/ UpdateRelease
    \/ DeleteRemoveFinalizer \/ DeleteRelease

Next == Controller \/ Environment

\* Every reconcile outcome is retried: errors and "not ready" results are
\* requeued, HelmRelease changes are watched, and objects are resynced.
Fairness == WF_vars(Controller) /\ EnvFairness

Spec == Init /\ [][Next]_vars /\ Fairness

-----------------------------------------------------------------------------
\* A failure of updateServices is reported in status: a pass that reaches
\* updateServices (release Ready, cluster conditions all True) writes
\* Ready=True only if every service with install=true resolves through
\* getServiceTemplateRepoURL.
ReadyReflectsServices ==
    [][UpdateRelease /\ hr.ready = "True" /\ ClusterComplete
       /\ status'.conditions["Ready"] = "True" => ServicesResolve]_vars

====
