SPECIFICATION Spec
CONSTANTS
  Backend = "pg"
  WorkersOption = 2
  HasTimeout = TRUE
  MaxSubtasks = 2
  MaxSkills = 1
INVARIANTS
  ReturnedIsPersisted
