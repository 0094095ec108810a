-------------------------- MODULE MCManagedCluster --------------------------
(***************************************************************************)
(* Model-checking instance of ManagedCluster: two services, one AWS        *)
(* cluster whose template lists a non-gated provider before the gated one, *)
(* two spec edits and two Machines.                                        *)
(***************************************************************************)
EXTENDS ManagedCluster

CONSTANTS s1, s2

MCServices == {s1, s2}
MCTemplateProviders == <<"vsphere", "aws">>
MCChartInfraKinds == {"aws"}

=============================================================================
