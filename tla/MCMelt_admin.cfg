SPECIFICATION Spec
CONSTANTS
  Notes = {n1}
  Hashes = {h1}
  Requests = {r1}
  ServerPasses = {}
  AdminPasses = {a1}
  MaxConfirm = 2
  MaxCrashes = 0
  Reuse = FALSE
  SharedNode = FALSE
  LateSend = FALSE
  NoNote = NoNote
  NoHash = NoHash
  Others = Others
SYMMETRY Symmetry
INVARIANTS
  NoUncoveredPayment
CHECK_DEADLOCK FALSE
