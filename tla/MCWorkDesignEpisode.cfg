SPECIFICATION FairSpec
CONSTANTS
  Limit <- MCLimit
  ContextSizes <- MCContextSizes
INVARIANTS
  JobsStandOnProposal
  ArtifactsOnDisk
  QuestionIsOnDisk
PROPERTIES
  CallEnds
CHECK_DEADLOCK FALSE
