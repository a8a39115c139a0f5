SPECIFICATION Spec
CONSTANTS
  p1 = p1
  p2 = p2
  p3 = p3
  d1 = d1
  d2 = d2
  JobCount = 3
  MaxBatch = 1
  Identity <- AllAlike
  Poison = {}
  MachineCount = 1
  WorkerCounts = {1}
  Procs = {p1}
  Dedupers = {d1, d2}
  Events = {"dedup"}
  Budget = 2
INVARIANT NothingLost
