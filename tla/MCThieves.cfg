SPECIFICATION FairSpec
CONSTANTS
  w1 = w1
  w2 = w2
  w3 = w3
  j1 = j1
  j2 = j2
  j3 = j3
  j4 = j4
  NoJob = NoJob
  Workers <- ThreeWorkers
  Jobs <- TwoJobs
  Capacity = 2
  Wrap = 4
CONSTRAINT OneProducer
INVARIANTS
  NoSlotRace
  NextInLine
  WorkersInv
PROPERTY StealReturns
