SPECIFICATION PlaybackSpec
CONSTANTS
    j1 = j1
    j2 = j2
    j3 = j3
    NoJob = NoJob
    Jobs <- MCJobs
    XzJobs <- MCXzJobs
    Undecodable <- MCBadStream
    Unplayable <- MCNobody
    MaxRetries = 2
    MaxFaults = 3
INVARIANTS
    TypeOK
    HeldIsProcessing
    LocalFilesBackState
    DoneIsDelivered
    NoTornFile
    NoEarlyFailure
    RetriesPaidByFaults
    AttemptsAreBounded
    PlaysArePaid
    PassStaysInStep
PROPERTIES
    RecordingKeptUntilDelivered
    LifeCycleIsKept
    ImplementsQueue
