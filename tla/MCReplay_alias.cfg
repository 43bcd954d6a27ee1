SPECIFICATION SpecFiles
CONSTANTS
  RuleFiles <- SharedFiles
  Schemas <- MCSchemas
  Pipes <- MCPipes
  Files <- MCFiles
  Width = 2
  PipeTime = "__wf_pipe_ts"
  NoField = NoField
  Requests <- MCRequests
  Disks <- MCDisks
  MetaTolerance <- Exactly
  DefaultTolerance <- Lenient
  None = None
  MaxLines = 2
  MaxTime = 3
  MaxEvents = 3
  EosTime = 3
INVARIANT RoutedAsBound
CHECK_DEADLOCK FALSE
