CONSTANTS
  p1 = p1
  p2 = p2
  None = None
  Altered = Altered
  Executions <- MCExecutions
  Requests <- MCRequests
  Geometries <- MCGeometries
  Provisioned = p1
  Profiles <- MCProfiles
  Symbols <- MCSymbols
  Callable <- MCCallable
  SourceBytes = 2
  SourceNodes = 4
  ParameterBytes = 4
  ParameterDepth = 2
  KeyLength = 3
  MaxFaults = 1
SPECIFICATION Spec
INVARIANTS
  EvidenceIsSound
  GateIsRight
PROPERTIES
  EveryExecutionEnds
CHECK_DEADLOCK FALSE
