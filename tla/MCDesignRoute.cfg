SPECIFICATION RouteFairSpec
CONSTANTS
  c1 = c1
  c2 = c2
  r1 = r1
  r2 = r2
  Callers <- MCCallers
  Requests <- MCRequests
  Limit <- MCLimit
  ContextSizes <- MCContextSizes
INVARIANTS
  RepliesAgree
  PublicationSound
  EpisodeAccounting
  CompletionStandsOnEvidence
PROPERTIES
  EvidenceFrozen
  NoCorrectionAfterSideEffect
  CallsEnd
CHECK_DEADLOCK FALSE
