SPECIFICATION FairSpec
CONSTANTS
  Notes = {n1, n2}
  Hashes = {h1, h2}
  Requests = {r1, r2}
  ServerPasses = {p1}
  AdminPasses = {}
  MaxConfirm = 2
  MaxCrashes = 1
  Reuse = FALSE
  SharedNode = TRUE
  LateSend = FALSE
  NoNote = NoNote
  NoHash = NoHash
  Others = Others
INVARIANTS
  TypeOK
  OneRowPerReservedNote
  BurnedOnlyIfPaid
  NoUncoveredPayment
PROPERTIES
  LiveMeltsBelongToTheirAttempt
  EveryMeltResolves
CHECK_DEADLOCK FALSE
