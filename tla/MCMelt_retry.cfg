SPECIFICATION Spec
CONSTANTS
  Notes = {n1, n2}
  Hashes = {h1}
  Requests = {r1, r2, r3}
  ServerPasses = {p1}
  AdminPasses = {}
  MaxConfirm = 2
  MaxCrashes = 1
  Reuse = TRUE
  SharedNode = FALSE
  LateSend = FALSE
  NoNote = NoNote
  NoHash = NoHash
  Others = Others
INVARIANTS
  BurnedForOwnPayment
PROPERTIES
  KeepsThePromise
CHECK_DEADLOCK FALSE
