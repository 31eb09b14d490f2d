SPECIFICATION Spec
CONSTANTS
  npp1 = npp1
  npp2 = npp2
  Procs = {npp1}
  Faults = {"open", "exec", "rollback", "throw"}
  MaxLoads = 3
  MaxJobs = 3
  MaxFaults = 2
  MaxExits = 1
INVARIANTS
  AlwaysSucceeds
PROPERTIES
  RebuildFills
  OkMeansStored
CHECK_DEADLOCK FALSE
