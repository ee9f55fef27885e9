SPECIFICATION Spec
CONSTANTS
    MaxOffset = 2
    NewStatuses = {"PENDING"}
    Faults = {"stop"}
    MessageChannelSize = 2
    MaxRecordsPerRead = 1
    MessageChannelSendTimeout = 10
    RateLimitBurst = 2
    MaxRestarts = 0
INVARIANTS ReliableTracking
