------------------------ MODULE MCProviderValidator ------------------------
(* Model-checking instance of ProviderValidator.                           *)
EXTENDS ProviderValidator

\* Every template the validator distinguishes, and one it does not.
MCTemplates == {"TemplateAWSStandaloneCP", "TemplateAWSHostedCP", "TemplateAWSEKS",
                "TemplateAzureStandaloneCP", "TemplateAzureHostedCP",
                "TemplateVSphereStandaloneCP", "TemplateAdoptedCluster", "TemplateOther"}

====
