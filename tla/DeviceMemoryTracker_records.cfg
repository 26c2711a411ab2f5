SPECIFICATION Spec
CONSTANTS
    Threads = {t1, t2}
    Worker = worker
    Usages = {u1, u2}
    DeviceCount = 1
    Ops <- AllOps
    BufferRecords = 3
    SizeModulus = 8
    MaxCalls = 2
INVARIANTS TypeOK Attributed Counted RecordsAccounted
PROPERTIES CountedWhenUntracked ReportedAsCounted
SYMMETRY Interchangeable
CHECK_DEADLOCK FALSE
