CONSTANTS
  n1 = n1
  n2 = n2
  s1 = s1
  s2 = s2
  s3 = s3
  s4 = s4
  None = None
  Ids <- MCIds
  Slots <- MCSlots
  MaxDrops = 3
  MaxRequests = 2
  MaxAccepts = 2
SPECIFICATION Spec
INVARIANT TypeOK
SYMMETRY MCSymmetry
CHECK_DEADLOCK FALSE
