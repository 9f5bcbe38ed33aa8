SPECIFICATION FairSpec
CONSTANTS
  h1 = h1
  h2 = h2
  k1 = k1
  k2 = k2
  PayKey <- MCPayKey
  Outputs = {o1}
  Hashes = {h1, h2}
  Quotes = {q1, q2}
  Checks = {c1}
  Sweeps = {s1, s2}
  MaxCrashes = 1
  Choosers = {"mint", "node"}
  ForeignPaid = {h2}
  NoId = NoId
  NoHash = NoHash
  Swapped = Swapped
INVARIANTS
  TypeOK
  NoStrandedPayment
  PromisedOutputsAreExclusive
  PreimagesOpenNothing
PROPERTIES
  MintedOnce
  KeepsThePaymentPromise
  EveryPaymentIsCredited
CHECK_DEADLOCK FALSE
