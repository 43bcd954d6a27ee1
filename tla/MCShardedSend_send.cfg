SPECIFICATION FairSpec
CONSTANTS
  Modes <- AllModes
  Frames <- MCFrames
  KeyedStreams = {"bid", "auction"}
  OddStreams = {"auction"}
  Connections = 2
  ChannelCap = 1
  NetCap = 1
  TargetRows = 2
  Sentinel = TRUE
  MaxFaults = 2
INVARIANTS PerKeyOrder CompleteOnSuccess SentinelCounts
PROPERTIES Returns
CHECK_DEADLOCK FALSE
