CONSTANTS
  a = a
  b = b
  Ends <- MCEnds
  Sizes <- MCSizes
  MaxMsgs = 1
  PingCountLimit = 3
  StallMax = 1
  MaxCrashes = 1
SPECIFICATION Spec
INVARIANT TypeOK
INVARIANT NoFalseClose
INVARIANT DeliveredInOrder
PROPERTY LinkEnds
