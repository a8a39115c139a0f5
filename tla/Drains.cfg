SPECIFICATION FairSpec
CONSTANTS
  p1 = p1
  p2 = p2
  p3 = p3
  d1 = d1
  d2 = d2
  JobCount = 2
  MaxBatch = 2
  Identity <- AllDiffer
  Poison = {1}
  MachineCount = 1
  WorkerCounts = {2, 3}
  Procs <- ThreeProcs
  Dedupers = {}
  Events = {"crash", "stop", "pause"}
  Budget = 2
PROPERTY EveryJobRuns
