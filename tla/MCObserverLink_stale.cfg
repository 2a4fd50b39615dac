CONSTANTS
  o1 = o1
  o2 = o2
  s1 = s1
  s2 = s2
  s3 = s3
  None = None
  Obs <- MCObs
  Slots <- MCSlots
  MaxDrops = 1
  RedialAfterUnwind = TRUE
SPECIFICATION Spec
PROPERTY ObserverCleanupOwnOnly
CHECK_DEADLOCK FALSE
