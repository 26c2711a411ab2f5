SPECIFICATION Spec
CONSTANTS
    Calls <- TwoCalls
    Instance <- TwoInstances
    RequestCount = 1
    Backend <- Recommended
    Batching = TRUE
INVARIANT ShapeConfigured
