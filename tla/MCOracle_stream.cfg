SPECIFICATION Spec
CONSTANTS
  Rules <- MCRules
  Streams <- MCStreams
  Keys = {"k1", "k2"}
  Dur = 2
  Over = 2
  EosTime = 3
  MaxEvents = 3
  MaxTime = 3
  None = None
INVARIANTS JoinSeesWindow DeferredOnce ClosedInTime IntermediateDelivered
CHECK_DEADLOCK FALSE
