SPECIFICATION Spec
CONSTANTS
  Plan <- MCPlan
  Edits <- MCEdits
  MaxCreations = 2
  None = None
INVARIANTS
  OnlyReviewableModelled
  PreviewedIsReviewable
