SPECIFICATION Spec
CONSTANTS
  Backend = "memory"
  WorkersOption = 2
  HasTimeout = TRUE
  MaxSubtasks = 3
  MaxSkills = 2
INVARIANTS
  PoolBound
  WaitsAreFounded
  ReturnedIsPersisted
PROPERTIES
  SubtasksAdvance
