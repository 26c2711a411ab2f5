CONSTANTS
    Configs <- MCConfigs
    Normalized <- MCNormalized
    MaxParses = 3
    Limits <- MCLimits
    Requests <- MCRequests
    VolumeModulus = 8
    MaxBatch = 2
    Backends = {"recommended", "minimal", "bls"}
    Instances <- MCInstances
    Kind <- MCKind
    DeviceId <- MCDeviceId
    Device = 0
    Completed <- MCCompleted
    ControlKinds = {"START", "CORRID"}
SPECIFICATION Spec
INVARIANTS
    MembersAsParsed
    ResourcesHeld
    ServedAsSupported
    ControlsAsConfigured
    FilledToLimit
CHECK_DEADLOCK FALSE
