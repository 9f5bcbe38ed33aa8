SPECIFICATION MCSpec
CONSTANTS
  o1 = o1
  o2 = o2
  d1 = d1
  d2 = d2
  x1 = x1
  k1 = k1
  a1 = a1
  Openings = {o1, o2}
  Spends <- MCSpends
  Domains = {d1, d2}
  Children = {c1, c2}
  LocktimeThreshold = 1
  LockUnit = 1
  MaxTime = 1
  NoChild = NoChild
  Runs = {r1, r2}
  Secrets = {s1, s2}
  Invoices = {q1, q2}
  Refunds = {f1, f2}
  NoSecret = NoSecret
  NoInvoice = NoInvoice
  NoRefund = NoRefund
  Mints = {m1, m2}
  MaxPolls = 2
  MaxSettles = 3
  MaxStops = 2
  NoMint = NoMint
  Processes = {p1, p2}
  Servers = {p1}
  OldIds = {x1}
  NewIds = {k1, k2}
  BearerId <- MCBearerId
  Handles = {a1, a2}
  Branches = {b1}
  MaxIndex = 1
  NoBranch = NoBranch
INVARIANTS
  MCTypeOK
  OpenedOnItsOwnVerdict
  SecretOutlivesTheValue
  OnePaymentOneRefund
  NoteShownIsTheMoney
  ClaimedOnce
  UpgradedOnceAndWhole
PROPERTIES
  EveryScriptIsJudged
  EverySettleIsHeard
CHECK_DEADLOCK FALSE
