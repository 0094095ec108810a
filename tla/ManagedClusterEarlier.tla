------------------------ MODULE ManagedClusterEarlier ------------------------
(***************************************************************************)
(* The earlier revision of the ManagedCluster reconciler                  *)
(* (internal/controller/managedcluster_controller.go, lines 1-659): what   *)
(* it does differently from the current one.  Its services pass skips a   *)
(* service whose ServiceTemplate it cannot get and applies the others,     *)
(* and its Delete leaves the ClusterProfile to the Kubernetes garbage      *)
(* collector, which removes it through its owner reference once the       *)
(* ManagedCluster is gone.                                                 *)
(***************************************************************************)
EXTENDS ManagedClusterCommon

\* Mutant of updateServices: any service that cannot be got aborts the
\* whole pass (the current revision's behaviour).
updateServicesAbortAll ==
    IF ServicesResolve
    THEN [exists |-> TRUE, entries |-> {s \in Services : mc.install[s]}]
    ELSE profile

\* The services block of Update: every service with install=true whose
\* ServiceTemplate can be got becomes an entry, the others are skipped
\* with continue; the ClusterProfile is reconciled with those entries.
updateServices ==
    [exists |-> TRUE, entries |-> {s \in Services : mc.install[s] /\ svcOk[s]}]

\* Update, chart valid and not a dry run: reconcile the HelmRelease, mirror
\* its Ready condition, copy the CAPI Cluster conditions, and once the
\* release is Ready and all conditions True reconcile the services.  A
\* failed ReconcileHelmRelease sets HelmReleaseReady=False and stops.
UpdateRelease ==
    /\ CanUpdate /\ mc.finalizer
    /\ tmpl = "valid" /\ chart = "ok"
    /\ ~mc.dryRun
    /\ LET c2 == SetCond(SetCond(StartConds, "TemplateReady", "True"),
                         "HelmChartReady", "True")
       IN  \/ /\ updateStatus(SetCond(c2, "HelmReleaseReady", "False"))
              /\ UNCHANGED <<hr, profile>>
           \/ LET r  == ReconciledRelease
                  c3 == IF r.ready = Absent THEN c2
                        ELSE SetCond(c2, "HelmReleaseReady", r.ready)
              IN  /\ hr' = r
                  /\ updateStatus(ClusterStatusConds(c3))
                  /\ profile' = IF ClusterComplete /\ r.ready = "True"
                                THEN updateServices ELSE profile
    /\ UNCHANGED <<mc, envVars, capi, infra, machines>>

\* Delete, HelmRelease present: issue the delete of the release, run
\* releaseCluster and requeue; the ClusterProfile is not touched.
DeleteRelease ==
    /\ mc.exists /\ mc.deleting
    /\ hr.exists
    /\ hr' = [hr EXCEPT !.deleting = TRUE]
    /\ infra' = releaseCluster
    /\ UNCHANGED <<mc, status, envVars, capi, machines, profile>>

Controller ==
    \/ AddFinalizer \/ UpdateTemplateNotReady \/ UpdateChartNotReady
    \/ UpdateDryRun \/ UpdateRelease
    \/ DeleteRemoveFinalizer \/ DeleteRelease

\* The ClusterProfile carries an owner reference to the ManagedCluster:
\* once the owner is gone the garbage collector deletes it.
CollectGarbage ==
    /\ ~mc.exists /\ profile.exists
    /\ profile' = [exists |-> FALSE, entries |-> {}]
    /\ UNCHANGED <<mc, status, envVars, hr, capi, infra, machines>>

Next == Controller \/ Environment \/ CollectGarbage

\* Passes are retried and resynced; the garbage collector processes every
\* object whose owner is gone.
Fairness == WF_vars(Controller) /\ EnvFairness /\ WF_vars(CollectGarbage)

Spec == Init /\ [][Next]_vars /\ Fairness

-----------------------------------------------------------------------------
\* Once the cluster stays deployed and ready, the earlier services pass
\* brings the ClusterProfile to exactly the services with install=true
\* whose ServiceTemplate exists: one missing template does not hold the
\* others back.
Running ==
    /\ mc.exists /\ ~mc.deleting /\ mc.finalizer /\ ~mc.dryRun
    /\ tmpl = "valid" /\ chart = "ok"
    /\ hr.ready = "True" /\ ClusterComplete
ResolvableServicesConverge ==
    <>[]Running =>
        <>[](profile.exists /\ profile.entries = {s \in Services : mc.install[s] /\ svcOk[s]})

====
