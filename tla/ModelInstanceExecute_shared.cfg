SPECIFICATION Spec
CONSTANTS
    Calls <- ThreeCalls
    Instance <- ThreeInstances
    RequestCount = 2
    Backend <- MixedBackends
    Batching = TRUE
INVARIANTS TypeOK NullIffAnswered ReportedAsAnswered ComputedFromBatch
PROPERTY ProtocolKept
