SPECIFICATION Spec
CONSTANT
    Scenarios <- AllScenarios
INVARIANTS TypeOK Gathered AnsweredForCause SyncCoversCopies
PROPERTY TensorWrittenWhenReady
