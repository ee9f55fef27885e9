SPECIFICATION FairSpec
CONSTANTS
    MaxOffset = 2
    NewStatuses = {"PENDING"}
    Faults = {"store", "webhook", "panic", "redis", "late", "stop"}
    MessageChannelSize = 2
    MaxRecordsPerRead = 2
    MessageChannelSendTimeout = 10
    RateLimitBurst = 2
    MaxRestarts = 1
INVARIANTS IInv InOrder AccountedFor DrainedBeforeOff CarriesPending SentIsReal
PROPERTIES FinalStatus ImplementsLedger StopCompletes
