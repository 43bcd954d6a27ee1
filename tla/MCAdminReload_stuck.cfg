CONSTANTS
    Req = {r1, r2}
    NoReq = NoReq
    Cli = Cli
    Nobody = Nobody
    Start = Start
    Torn = Torn
    Broken = Broken
    MaxCli = 0
    MaxDrops = 1
    MaxFaults = 0
SPECIFICATION Spec
CHECK_DEADLOCK FALSE
INVARIANTS
    ReloadingIsInFlight
