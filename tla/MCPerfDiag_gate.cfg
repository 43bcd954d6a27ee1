SPECIFICATION FairSpec
CONSTANTS
  Unit = 16
  None = None
  Stages <- MCStages
  Cost <- MCCost
  Gate <- MCGate
  Frames <- MCFrames
  NList <- MCTargets
  Rounds = 2
  RuleSets = {"lean", "heavy"}
  Load = 2
  MaxLoads = 1
  CleanStart = TRUE
  MaxSessions = 2
  MaxFaults = 1
  MaxRuleChanges = 1
INVARIANTS OwnMeasurement
PROPERTIES GateCatchesRegression SessionIsReported
CHECK_DEADLOCK FALSE
