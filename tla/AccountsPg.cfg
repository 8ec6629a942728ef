SPECIFICATION Spec
CONSTANTS
  l1 = l1
  l2 = l2
  e1 = e1
  e2 = e2
  Backend = "pg"
  Logins = {l1, l2}
  Credentials <- MCCredentials
  Edits = {e1, e2}
  Names = {"admin", "bob"}
  Passwords = {"secret", "longer"}
  TooLong = {"longer"}
  Seed <- MCSeed
  Expiry = 2
  MaxUsers = 3
  MaxTime = 3
SYMMETRY MCSymmetry
INVARIANTS
  SeedLoginWorks
PROPERTIES
  NoResurrection
  RightsFollowRole
