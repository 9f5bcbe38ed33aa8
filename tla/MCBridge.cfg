SPECIFICATION FairSpec
CONSTANTS
  n1 = n1
  n2 = n2
  k1 = k1
  k2 = k2
  s1 = s1
  s2 = s2
  h1 = h1
  h2 = h2
  t1 = t1
  t2 = t2
  z1 = z1
  z2 = z2
  g1 = g1
  Names = {n1, n2}
  Keys = {k1, k2}
  Shares = {s1, s2}
  Holds = {h1, h2}
  FeeNotes = {t1, t2}
  ZapHashes = {z1, z2}
  Gifts = {g1}
  Casts <- MCCasts
  MaxIndex = 2
  FreeNamesPerKey = 1
  MaxCalls = 2
  MaxCrashes = 1
  NoKey = NoKey
  NoShare = NoShare
  NoHold = NoHold
  NoNote = NoNote
  NoZap = NoZap
  Wallet = Wallet
INVARIANTS
  TypeOK
  OneHomePerShare
  LiveHoldKeepsItsName
  EveryNameHasAPayee
  CreditedOnce
  PaidToTheShareInvoiced
  NoGapInTheScan
PROPERTIES
  SharesNeverReturn
  FeeBuysTheName
  EveryZapArrives
  EveryFeeSettles
CHECK_DEADLOCK FALSE
