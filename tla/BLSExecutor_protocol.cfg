SPECIFICATION FairSpec
CONSTANTS
    RequestCount = 2
    Faults = {"create", "ready", "new", "send", "infer", "output"}
    MaxFaults = 3
INVARIANTS ReportedAsAnswered OutputsFromSuccess NothingLeft
PROPERTIES ProtocolKept EverybodyReleased
