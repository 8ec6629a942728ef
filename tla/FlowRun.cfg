SPECIFICATION Spec
CONSTANTS
  Backend = "pg"
  Runs = {"r1", "r2"}
  FlowOf <- MCOther
  Graph <- MCGraph
  Initially <- MCInitially
  Editable = {"branch"}
INVARIANTS
  EffectsAtomic
  AnswerRecorded
  PermissionBoundary
  ExecutesExactly
PROPERTY ImplementsTransactions
