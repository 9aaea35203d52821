SPECIFICATION FairSpec
CONSTANTS
    unit = unit
    manual1 = manual1
    manual2 = manual2
    Process <- MCProcess
    Supervised <- MCSupervised
    Stale = 2
    MaxKills = 2
INVARIANTS
    OneDaemon
    LockShowsDaemon
    CleanExitsUnlock
PROPERTIES
    StartsAgain
