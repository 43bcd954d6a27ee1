SPECIFICATION MCSpec
CONSTANTS
  Scenarios <- MCScenarios
  Inputs <- MCInputs
  Keys = {"even", "odd"}
  Faults = {"drop", "duplicate", "outOfOrder", "late"}
  LateSpan = 3
  MaxTime = 2
  MaxChunk = 2
  MissOffset = 10
  Absent = Absent
INVARIANTS FaultsAccounted ArrivalExplained VerdictExact HitCompletes QuietStaysQuiet SharesKept
CHECK_DEADLOCK FALSE
