SPECIFICATION Spec
CONSTANTS
  Prompts <- MCPrompts
  MaxCommands = 5
  MaxEdits = 2
  None = None
INVARIANTS
  NothingAskedIsModelled
  PublishedIsSound
  RecordsKept
CHECK_DEADLOCK FALSE
