SPECIFICATION ProgFairSpec
CONSTANTS
    Requests = {r1, r2}
    Main = main
    Nobody = nobody
    Faults = {}
    MaxOffset = 1
    NewStatuses = {"PENDING"}
    CallFaults = {"webhook"}
    MessageChannelSize = 1
    MaxRecordsPerRead = 1
    MessageChannelSendTimeout = 10
    RateLimitBurst = 1
INVARIANTS AInv StartEnables CleanExit
PROPERTIES ImplementsPipeline SilentWhenStopped RequestsAnswered ShutdownCompletes
