SPECIFICATION FairSpec
CONSTANTS
    j1 = j1
    j2 = j2
    c1 = c1
    c2 = c2
    Jobs <- MCJobs
    Commands <- MCCommands
    NoJob = NoJob
    Empty = Empty
    Garbled = Garbled
INVARIANTS
    TypeOK
    ReportIsTrue
    RecordIsSubmitted
PROPERTIES
    TimedWaitEnds
    OutcomeEndsWait
