SPECIFICATION Spec
CONSTANTS
  p1 = p1
  p2 = p2
  p3 = p3
  d1 = d1
  d2 = d2
  JobCount = 3
  MaxBatch = 2
  Identity <- FirstTwice
  Poison = {3}
  MachineCount = 2
  WorkerCounts = {2, 3}
  Procs <- TwoProcs
  Dedupers = {d1}
  Events = {"crash", "stop", "clear", "dedup"}
  Budget = 4
SYMMETRY ProcSymmetry
INVARIANTS TypeOK Exclusive OneInFlight MainNewestFirst DroppedHasElder
PROPERTIES DedupLeavesNoTwins KeepsPromise
