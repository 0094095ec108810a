CONSTANTS
    Locators <- MCLocatorsWellFormed
    SystemTemplate = TRUE
    MaxGeneration = 3
    MaxFlaps = 1

SPECIFICATION Spec

INVARIANT TypeOK

PROPERTIES
    TemplateStatusRefinement

CHECK_DEADLOCK FALSE
