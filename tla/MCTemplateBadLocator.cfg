CONSTANTS
    Locators <- MCLocatorsAll
    SystemTemplate = TRUE
    MaxGeneration = 3
    MaxFlaps = 1

SPECIFICATION Spec


PROPERTIES
    ValidityConverges

CHECK_DEADLOCK FALSE
