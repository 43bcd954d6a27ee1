CONSTANTS
    c1 = c1
    c2 = c2
    c3 = c3
    Commit = {c1, c2, c3}
    Content <- MCContent
    Absent = Absent
    Torn = Torn
    Loadable <- MCLoadable
    Version = {1, 2}
    HeadVersion = HeadVersion
    NoCommit = NoCommit
    NoEntry = NoEntry
    NoProc = NoProc
    NoVersion = NoVersion
    NoManifest = NoManifest
    TornManifest = TornManifest
    ModeOf <- MCModeOf
    HeadCommit <- HeadGood
    Proc = {"cli", "wfusion"}
    Daemon = {"wfusion"}
    InitVersion <- InitFirst
    Tree <- DualTree
    InitialImage <- DualStart
    InitialTags <- BadTags
    MaxRuns = 3
    MaxFaults = 1
    MaxCrashes = 1
    MaxPublish = 0
SPECIFICATION Spec
CHECK_DEADLOCK FALSE
INVARIANTS
    RollbackRestores
    BackupCoversLoss
    SuccessIsExact
    RecordsAreTrue
PROPERTIES
    GroupIsolation
