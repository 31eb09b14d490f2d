SPECIFICATION Spec
CONSTANTS
  npp1 = npp1
  npp2 = npp2
  Procs = {npp1}
  Faults = {"throw"}
  MaxLoads = 2
  MaxJobs = 1
  MaxFaults = 1
  MaxExits = 0
INVARIANT LoadOverwrites
CHECK_DEADLOCK FALSE
