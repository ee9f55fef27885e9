SPECIFICATION FairSpec
CONSTANTS
    MaxOffset = 4
    NewStatuses = {"PENDING", "SENT"}
    Faults = {"store", "late"}
    CreatedAt <- CreationTimes
    Keys = {none, wrong, right}
    NoKey = none
    ApiKey = right
    Malformed = malformed
    Params <- SomeParams
INVARIANTS QInv FaithfulReading TotalCoversPage
PROPERTIES ReadingEnds
