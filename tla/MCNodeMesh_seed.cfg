CONSTANTS
  n1 = n1
  n2 = n2
  s1 = s1
  s2 = s2
  s3 = s3
  s4 = s4
  None = None
  Ids <- MCIds
  Slots <- MCSlots
  MaxDrops = 0
  MaxRequests = 1
  MaxAccepts = 0
SPECIFICATION Spec
PROPERTY SeedConnected
CHECK_DEADLOCK FALSE
