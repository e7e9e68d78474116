SPECIFICATION Spec
CONSTANTS
  c1 = c1
  c2 = c2
  p1 = p1
  p2 = p2
  q1 = q1
  q2 = q2
  a1 = a1
  a2 = a2
  None = None
  Clients <- OneClient
  Parts <- TwoParts
  Requests <- TwoRequests
  Answers <- TwoAnswers
  MaxRuns = 2
  MaxCommands = 5
  MaxCrashes = 1
SYMMETRY SequentialSymmetry
INVARIANTS
  EveryWriteValidates
PROPERTIES
  KeepsTheLedger
CHECK_DEADLOCK FALSE
