SPECIFICATION Spec
CONSTANTS
  Notes = {n1}
  Hashes = {h1}
  Requests = {r1}
  ServerPasses = {p1}
  AdminPasses = {}
  MaxConfirm = 2
  MaxCrashes = 0
  Reuse = FALSE
  SharedNode = TRUE
  LateSend = FALSE
  NoNote = NoNote
  NoHash = NoHash
  Others = Others
SYMMETRY Symmetry
INVARIANTS
  BurnedForOwnPayment
CHECK_DEADLOCK FALSE
