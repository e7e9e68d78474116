SPECIFICATION PageSpec
CONSTANTS
  NumParts = 2
  Stops <- MCStops
  MaxDetours = 3
  MaxRecords = 20
INVARIANTS
  OffersAreRight
  SelectedScopeIsAuthoritative
  QuestionHasAttention
  AdviceGetsThere
CHECK_DEADLOCK FALSE
