CONSTANTS
    Req = {r1, r2, r3}
    NoReq = NoReq
    Cli = Cli
    Nobody = Nobody
    Start = Start
    Torn = Torn
    Broken = Broken
    MaxCli = 1
    MaxDrops = 1
    MaxFaults = 0
SPECIFICATION Spec
CHECK_DEADLOCK FALSE
SYMMETRY ReqSymmetry
INVARIANTS
    AtMostOneApply
    AppliedIsOnDisk
