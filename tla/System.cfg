SPECIFICATION SystemFairSpec
CONSTANTS
    j1 = j1
    c1 = c1
    NoJob = NoJob
    Empty = Empty
    Garbled = Garbled
    Jobs <- MCJobs
    Commands <- MCCommands
    XzJobs <- MCJobs
    Undecodable <- MCNobody
    Unplayable <- MCNobody
    MaxRetries = 2
    MaxFaults = 2
INVARIANTS
    FailedOnlyForCause
    SavedIsWhole
PROPERTIES
    ImplementsUser
    WaitsEnd
