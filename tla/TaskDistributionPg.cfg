SPECIFICATION FairSpec
CONSTANTS
  Backend = "pg"
  WorkersOption = 2
  HasTimeout = TRUE
  MaxSubtasks = 2
  MaxSkills = 2
INVARIANTS
  TerminalRowExact
  SuccessIsEarned
PROPERTIES
  TerminalRowStable
  EventuallyReplied
