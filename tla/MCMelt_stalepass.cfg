SPECIFICATION Spec
CONSTANTS
  Notes = {n1, n2}
  Hashes = {h1, h2}
  Requests = {r1, r2, r3}
  ServerPasses = {p1}
  AdminPasses = {}
  MaxConfirm = 1
  MaxCrashes = 0
  Reuse = TRUE
  SharedNode = FALSE
  LateSend = FALSE
  NoNote = NoNote
  NoHash = NoHash
  Others = Others
SYMMETRY Symmetry
INVARIANTS
  NoUncoveredPayment
CHECK_DEADLOCK FALSE
