---------------------- MODULE MCManagedClusterEarlier ----------------------
(***************************************************************************)
(* Model-checking instance of the earlier ManagedCluster revision, with    *)
(* the same objects and bounds as MCManagedCluster.                        *)
(***************************************************************************)
EXTENDS ManagedClusterEarlier

CONSTANTS s1, s2

MCServices == {s1, s2}
MCTemplateProviders == <<"vsphere", "aws">>
MCChartInfraKinds == {"aws"}

=============================================================================
