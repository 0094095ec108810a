CONSTANTS
    p1 = p1
    p2 = p2
    ProviderNames <- MCProviderNames
    MaxGeneration = 3
    MaxFlaps = 2

SPECIFICATION Spec

PROPERTY DeletionCompletes

CHECK_DEADLOCK FALSE
