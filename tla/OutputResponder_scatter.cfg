SPECIFICATION Spec
CONSTANT
    Scenarios <- AllScenarios
INVARIANTS TypeOK Scattered AnsweredForCause QuietWhenSent
