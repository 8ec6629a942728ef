SPECIFICATION HubFairSpec
CONSTANTS
  CapacityOption = 2
  Requests = {"d1", "d2"}
  MaxTime = 3
  Backend = "pg"
  Sockets = {"s1"}
INVARIANTS
  StoreClosedLast
  SchemaComplete
PROPERTIES
  ImplementsLog
  ExitsAfterSignal
