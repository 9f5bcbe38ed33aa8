SPECIFICATION PageSpec
CONSTANTS
  Mints = {m1, m2}
  MaxPolls = 2
  NoMint = NoMint
INVARIANT PaidSecretIsKept
CHECK_DEADLOCK FALSE
