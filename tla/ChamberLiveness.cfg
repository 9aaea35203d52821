SPECIFICATION FairSpec
CONSTANTS
    j1 = j1
    j2 = j2
    NoJob = NoJob
    Jobs <- MCJobs
    XzJobs <- MCXzJobs
    Undecodable <- MCNobody
    Unplayable <- MCBadAudio
    MaxRetries = 2
    MaxFaults = 2
PROPERTIES
    RecordsOffline
    EveryJobResolved
    GoodJobsAnswered
    BadJobsRejected
    FailedFilesSwept
    TempFilesSwept
