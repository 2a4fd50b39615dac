CONSTANTS
  a1 = a1
  x = x
  y = y
  w1 = w1
  w2 = w2
  Accounts <- MCAccounts
  Ids <- MCIds
  Workers <- MCWorkers
  MaxSeq = 2
  PoolCap = 2
  SeqWindow = 1
  MaxTxPerBlock = 2
  ExpireTiers = 2
SPECIFICATION Spec
INVARIANT NoIncludedInPool
