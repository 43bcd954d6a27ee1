CONSTANTS
    Req = {r1, r2}
    NoReq = NoReq
    Cli = Cli
    Nobody = Nobody
    Start = Start
    Torn = Torn
    Broken = Broken
    MaxCli = 1
    MaxDrops = 0
    MaxFaults = 1
SPECIFICATION FairSpec
CHECK_DEADLOCK FALSE
INVARIANTS
    
    ReadsWholeProject
    RefusedIsUndone
    ReloadingIsInFlight
PROPERTIES
    ReloadEnds
