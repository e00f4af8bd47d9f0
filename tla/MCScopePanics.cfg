SPECIFICATION Spec
CONSTANTS
  j1 = j1
  j2 = j2
  j3 = j3
  NoJob = NoJob
  Jobs <- ThreeJobs
SYMMETRY JobSymmetry
INVARIANTS
  TypeOK
  ScopeOutlivesJobs
  ValueMeansAllFinished
  ScopeInv
