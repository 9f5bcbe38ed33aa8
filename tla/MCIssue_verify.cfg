SPECIFICATION Spec
CONSTANTS
  h1 = h1
  h2 = h2
  k1 = k1
  k2 = k2
  PayKey <- MCPayKey
  Outputs = {o1}
  Hashes = {h1, h2}
  Quotes = {q1}
  Checks = {c1}
  Sweeps = {s1}
  MaxCrashes = 0
  Choosers = {"mint"}
  ForeignPaid = {}
  NoId = NoId
  NoHash = NoHash
  Swapped = Swapped
INVARIANTS
  VerifyFindsItsInvoice
CHECK_DEADLOCK FALSE
