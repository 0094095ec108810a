CONSTANTS
    s1 = s1
    s2 = s2
    Services <- MCServices
    TemplateProviders <- MCTemplateProviders
    ChartInfraKinds <- MCChartInfraKinds
    MaxGeneration = 2
    MaxMachines = 1
    UninstallWaits = TRUE
    InSystemNamespace = FALSE
    MaxFlaps = 2

SPECIFICATION Spec

PROPERTY DeletionCompletes

CHECK_DEADLOCK FALSE
