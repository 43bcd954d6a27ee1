SPECIFICATION Spec
CONSTANTS
  Unit = 40
  None = None
  GateConfigs <- MCGateConfigs
  Walls <- MCWalls
  Bases <- MCBases
  Absent = Absent
  Counts = {1, 7, 12, 18, 24, 30, 36}
  People = 1
  Auctions = 2
  Bids = 3
  HotPeople = 2
  HotAuctions = 3
  ActivePeople = 2
  PersonLead = 1
  InFlightAuctions = 3
  AuctionLead = 1
  BucketWidth = 8
  RuleSets <- MCRuleSets
  EventsOn <- MCEventsOn
  Known = {"q12"}
  Projects <- MCProjects
  Commands <- MCCommands
  ScenarioDirs <- MCScenarioDirs
  Rates = {0, 2, 20}
  Slices = {0, 1, 2}
  Budgets = {1, 5, 9, Unlimited}
  Unlimited = Unlimited
  MaxBatch = 4
  MaxTotal = 5
INVARIANTS PassNeedsEveryRow CheckAgrees VerdictFollowsEngine VerdictIsWhole
 
CHECK_DEADLOCK FALSE
