SPECIFICATION FairSpec
CONSTANTS
    c1 = c1
    c2 = c2
    Calls <- MCCalls
    ConfiguredRetries = 1
    RateLimitPerSecond = 10
    RateLimitBurst = 1
    HttpTimeoutSeconds = 30
INVARIANTS NInv RepeatedOnlyWhenUnanswered AcceptanceCounts Paced
PROPERTIES ImplementsNotification EveryCallEnds
