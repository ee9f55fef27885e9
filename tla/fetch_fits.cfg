SPECIFICATION FairSpec
CONSTANTS
    MaxOffset = 3
    NewStatuses = {"PENDING"}
    Faults = {}
    MessageChannelSize = 2
    MaxRecordsPerRead = 3
    MessageChannelSendTimeout = 10
    RateLimitBurst = 2
    MaxRestarts = 0
PROPERTIES FetchedIsSent
