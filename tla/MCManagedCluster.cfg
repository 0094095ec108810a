CONSTANTS
    s1 = s1
    s2 = s2
    Services <- MCServices
    TemplateProviders <- MCTemplateProviders
    ChartInfraKinds <- MCChartInfraKinds
    MaxGeneration = 2
    MaxMachines = 1
    UninstallWaits = TRUE
    InSystemNamespace = TRUE
    MaxFlaps = 1

SPECIFICATION Spec

INVARIANTS
    TypeOK
    ProfileGoneBeforeUninstall

PROPERTIES
    TeardownRefinement
    ServicesConverge


CHECK_DEADLOCK FALSE
