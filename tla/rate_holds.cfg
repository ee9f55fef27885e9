SPECIFICATION RateSpec
CONSTANTS
    MaxOffset = 2
    NewStatuses = {"PENDING"}
    Faults = {"stop"}
    MessageChannelSize = 2
    MaxRecordsPerRead = 2
    MessageChannelSendTimeout = 10
    RateLimitBurst = 1
    MaxRestarts = 0
    MaxRenewals = 1
INVARIANTS RateHolds
