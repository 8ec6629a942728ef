SPECIFICATION Spec
CONSTANTS
  Backend = "memory"
  Runs = {"r1", "r2"}
  FlowOf <- MCSame
  Graph <- MCGraph
  Initially <- MCInitially
  Editable = {}
INVARIANTS
  NothingLeftBehind
