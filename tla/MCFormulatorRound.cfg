CONSTANTS
  o1 = o1
  o2 = o2
  Observers <- MCObservers
  Genesis = Genesis
  NoReq = NoReq
  MaxHeight = 2
  MaxBlocks = 2
  MaxTimeout = 1
  RetryLimit = 1
  InboxMax = 1
  MaxRestarts = 2
  GenSlots = 1
  SignWindow = 2
  PacingBeforeNextRound = TRUE
SPECIFICATION Spec
INVARIANT TypeOK
PROPERTY ImplementsAgreedChain
PROPERTY CatchUp
