\* Two workers, two flushes, one fault, one refused task.  The program may
\* stop in Finalize() when a task was refused.
SPECIFICATION FairSpec
CONSTANTS
    WorkerCount = 2
    GroupSize <- TwoGroups
    Span <- TwoGroupsSpan
    RequestCount = 3
    SourceType <- HostThenDevice
    TensorType <- DeviceThenHost
    CopyOnStream = FALSE
    HasReadyEvent = TRUE
    MaxFaults = 1
    MaxRejects = 1
INVARIANTS
    TypeOK FinalCopyAfterStaging OneCloserPerGroup HostDelivered QuietUnlessSync
PROPERTIES
    TensorWrittenWhenReady FinalizeReturns
CHECK_DEADLOCK FALSE
