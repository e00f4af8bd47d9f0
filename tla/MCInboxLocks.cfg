SPECIFICATION FairSpec
CONSTANTS
  HostCall = HostCall
  HelperCall = HelperCall
  h1 = h1
  h2 = h2
  x1 = x1
  n1 = n1
  n2 = n2
  n3 = n3
  n4 = n4
  NoThread = NoThread
  N = 2
  Call <- Callers
  Batch <- Batches
  Boxed <- BigClosures
CHECK_DEADLOCK FALSE
INVARIANTS
  OnePublisher
  FairShares
  ClosuresUsedOnce
PROPERTIES
  AllOrNothing
  PublicationsEnd
