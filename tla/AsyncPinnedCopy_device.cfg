\* GPU buffers staged for a CPU tensor.
SPECIFICATION Spec
CONSTANTS
    WorkerCount = 2
    GroupSize <- OneGroup3
    Span <- OneGroupSpan
    RequestCount = 3
    SourceType <- DeviceOnly
    TensorType <- HostOnly
    CopyOnStream = FALSE
    HasReadyEvent = FALSE
    MaxFaults = 0
    MaxRejects = 0
INVARIANT Delivered
