SPECIFICATION Spec
CONSTANTS
  p1 = p1
  p2 = p2
  s1 = s1
  s2 = s2
  b1 = b1
  b2 = b2
  Scope1 = Scope1
  Scope2 = Scope2
  RunBatch = RunBatch
  NoThread = NoThread
  N = 2
  Capacity = 1
  Pushed <- OnePush
  Calls <- HostBatch
  HelperCalls <- Nobody
  Spawns <- BatchSpawns
  Batch <- BatchOfTwo
INVARIANTS
  TypeOK
  OnlyHostLeavesJobs
  SleeperReachable
  RegistrationsCurrent
  AssignedWorkerWoken
  OnlyLiveSlotsRead
