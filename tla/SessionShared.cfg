SPECIFICATION Spec
CONSTANTS
  npp1 = npp1
  npp2 = npp2
  Procs = {npp1, npp2}
  Faults = {"open", "exec", "throw"}
  MaxLoads = 2
  MaxJobs = 2
  MaxFaults = 1
  MaxExits = 1
SYMMETRY Instances
INVARIANTS
  TypeOK
  DiskWhole
  QueriesWhole
PROPERTIES
  OkMeansStored
  AtomicJobs
CHECK_DEADLOCK FALSE
