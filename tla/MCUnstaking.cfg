CONSTANTS
  x1 = x1
  x2 = x2
  hy = hy
  fo = fo
  None = None
  Addrs <- MCAddrs
  Hypers <- MCHypers
  Others <- MCOthers
  LockHeights = {1}
  MaxHeight = 2
  UnlockBlocks = 1
  Coin = 10
  MaxAmount = 2
  MaxSeq = 1

SPECIFICATION Spec
INVARIANT TypeOK
INVARIANT LockIndexConsistent
INVARIANT ValidatedExecutes
INVARIANT CoinsConserved
PROPERTY FlushReleasesAll
