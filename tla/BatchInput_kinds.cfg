SPECIFICATION BatchSpec
CONSTANT
    Scenarios <- AllScenarios
INVARIANTS Described ErrorForCause WithinBuffer
