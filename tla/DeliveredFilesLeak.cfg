SPECIFICATION SweptSpec
CONSTANTS
    j1 = j1
    j2 = j2
    NoJob = NoJob
    Jobs <- MCJobs
    XzJobs <- MCXzJobs
    Undecodable <- MCNobody
    Unplayable <- MCNobody
    MaxRetries = 2
    MaxFaults = 1
PROPERTY DeliveredFilesReclaimed
