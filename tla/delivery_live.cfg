SPECIFICATION FairSpec
CONSTANTS
    MaxOffset = 3
    NewStatuses = {"PENDING"}
    Faults = {"webhook", "redis"}
    MessageChannelSize = 2
    MaxRecordsPerRead = 2
    MessageChannelSendTimeout = 10
    RateLimitBurst = 2
    MaxRestarts = 1
INVARIANTS IInv OnItsWay
PROPERTIES EventuallyResolved
