SPECIFICATION Spec
CONSTANTS
    MaxOffset = 4
    NewStatuses = {"PENDING", "SENT"}
    Faults = {"late", "stop"}
    MessageChannelSize = 2
    MaxRecordsPerRead = 0
    MessageChannelSendTimeout = 0
    RateLimitBurst = 0
    MaxRestarts = 1
INVARIANTS TypeOK RoomForBatch AccountedFor
PROPERTIES OffsetMonotone
