SPECIFICATION FairSpec
CONSTANTS
  p1 = p1
  p2 = p2
  p3 = p3
  d1 = d1
  d2 = d2
  JobCount = 1
  MaxBatch = 1
  Identity <- AllDiffer
  Poison = {}
  MachineCount = 2
  WorkerCounts = {1, 2}
  Procs = {p1, p2}
  Dedupers = {}
  Events = {"stop", "reconfigure"}
  Budget = 3
PROPERTY LoweringWorkersIsSafe
