CONSTANTS
    c1 = c1
    c2 = c2
    c3 = c3
    Commit = {c1, c2, c3}
    Content <- MCContent
    Absent = Absent
    Torn = Torn
    Loadable <- MCLoadable
    Version = {1, 2}
    HeadVersion = HeadVersion
    NoCommit = NoCommit
    NoEntry = NoEntry
    NoProc = NoProc
    NoVersion = NoVersion
    NoManifest = NoManifest
    TornManifest = TornManifest
    ModeOf <- MCModeOf
    HeadCommit <- HeadGood
    Proc = {"wfusion"}
    Daemon = {"wfusion"}
    InitVersion <- InitMixed
    Tree <- MixedTree
    InitialImage <- MixedStart
    InitialTags <- MixedTags
    MaxRuns = 2
    MaxFaults = 1
    MaxCrashes = 1
    MaxPublish = 1
SPECIFICATION FairSpec
CHECK_DEADLOCK FALSE
INVARIANTS
    IInv
PROPERTIES
    AtomicUpdates
    LockIsReturned
