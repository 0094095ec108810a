CONSTANTS
    Locators <- MCLocatorsWellFormed
    SystemTemplate = TRUE
    MaxGeneration = 3
    MaxFlaps = 1

SPECIFICATION Spec


PROPERTIES
    ProvidersMatchChart

CHECK_DEADLOCK FALSE
