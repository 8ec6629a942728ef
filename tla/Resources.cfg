SPECIFICATION Spec
CONSTANTS
  Backend = "pg"
  Requests = {"r1", "r2", "r3"}
  TenantOf <- MCTenantOf
  Bodies = {"a", "b"}
  BadBodies = {"bad"}
  MaxId = 3
INVARIANTS
  ReadsOwnTenant
  StatusMatchesTransport
PROPERTY DeletedStaysDeleted
