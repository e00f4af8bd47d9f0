SPECIFICATION Spec
CONSTANTS
  poolA = poolA
  poolB = poolB
  worker = worker
  outsider = outsider
  NoPool = NoPool
  NoThread = NoThread
  Pools <- TwoPools
  Threads <- TwoThreads
  Home <- HomeOfWorker
  MaxDepth = 3
INVARIANTS
  OneOwnerPerDeque
  ScopeHasWorker
  IdentityReturned
