CONSTANTS
  o1 = o1
  o2 = o2
  s1 = s1
  s2 = s2
  s3 = s3
  None = None
  Obs <- MCObs
  Slots <- MCSlots
  MaxDrops = 3
  RedialAfterUnwind = TRUE
SPECIFICATION Spec
INVARIANT TypeOK
INVARIANT ObStatusOfLivePeer
PROPERTY FormulatorCleanupOwnOnly
PROPERTY LinkUp
CHECK_DEADLOCK FALSE
