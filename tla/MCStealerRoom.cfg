SPECIFICATION Spec
CONSTANTS
  w1 = w1
  w2 = w2
  w3 = w3
  j1 = j1
  j2 = j2
  j3 = j3
  j4 = j4
  NoJob = NoJob
  Workers <- TwoWorkers
  Jobs <- TwoJobs
  Capacity = 1
  Wrap = 4
INVARIANT StealerHasRoom
