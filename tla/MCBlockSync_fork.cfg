CONSTANTS
  p1 = p1
  p2 = p2
  o1 = o1
  None = None
  Peers <- MCTwoPeers
  Byzantine <- MCByzantine
  Obs <- MCObs
  MaxHeight = 2
  Window = 2
  Windows = 1
  QueueMax = 1
  MaxDrops = 1
SPECIFICATION Spec
INVARIANT NoForkPanic
