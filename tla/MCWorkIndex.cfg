SPECIFICATION Spec
CONSTANTS
  Plan <- MCPlan
  MaxRuns = 3
  MaxCommands = 6
  MaxCrashes = 1
  None = None
INVARIANTS
  NamesStandOnRuns
  AcceptedStandsOnApproval
  CurrentWasChosen
  ViewsAgree
CHECK_DEADLOCK FALSE
