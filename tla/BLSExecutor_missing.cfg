SPECIFICATION Spec
CONSTANTS
    RequestCount = 1
    Faults = {"infer"}
    MaxFaults = 1
INVARIANT SuccessIsComplete
