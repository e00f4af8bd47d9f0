SPECIFICATION Spec
CONSTANTS
  t1 = t1
  t2 = t2
  t3 = t3
  x = x
  y = y
  NoThread = NoThread
  Threads <- ThreeThreads
  Values <- TwoValues
  Batches <- SomeBatches
  Limits <- OneOrTwo
SYMMETRY Symmetric
CONSTRAINT Bounded
INVARIANTS
  TypeOK
  NothingHidden
  LengthInv
