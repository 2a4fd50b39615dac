CONSTANTS
  o1 = o1
  o2 = o2
  Observers <- MCObservers
  Genesis = Genesis
  NoReq = NoReq
  MaxHeight = 2
  MaxBlocks = 2
  MaxTimeout = 1
  RetryLimit = 2
  InboxMax = 1
  MaxRestarts = 1
  GenSlots = 2
  SignWindow = 2
  PacingBeforeNextRound = FALSE
SPECIFICATION Spec
INVARIANT NoCircularWait
