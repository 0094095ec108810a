CONSTANTS
    Templates <- MCTemplates

SPECIFICATION Spec

INVARIANT ValidatedAll

CHECK_DEADLOCK FALSE
