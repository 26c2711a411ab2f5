\* Three workers, four buffers, no fault: Finalize() should return.
SPECIFICATION FairSpec
CONSTANTS
    WorkerCount = 3
    GroupSize <- OneGroup4
    Span <- OneGroupSpan
    RequestCount = 4
    SourceType <- HostOnly
    TensorType <- DeviceOnly
    CopyOnStream = FALSE
    HasReadyEvent = FALSE
    MaxFaults = 0
    MaxRejects = 0
PROPERTY FinalizeReturns
CHECK_DEADLOCK FALSE
