SPECIFICATION CreationSpec
CONSTANTS
  d1 = d1
  d2 = d2
  Nothing = Nothing
  Requests <- MCRequests
  MaxAttempts = 3
  Dirs = {d1, d2}
  Kinds = {"ir", "text", "provider", "design", "agent", "revision"}
  MaxCalls = 2
INVARIANTS
  ReturnedIsConsistent
  RepairConverges
PROPERTIES
  ParentUntouched
SYMMETRY Symmetry
CHECK_DEADLOCK FALSE
