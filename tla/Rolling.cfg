SPECIFICATION Spec
CONSTANTS
  p1 = p1
  p2 = p2
  p3 = p3
  d1 = d1
  d2 = d2
  JobCount = 2
  MaxBatch = 1
  Identity <- AllDiffer
  Poison = {}
  MachineCount = 2
  WorkerCounts = {1, 2}
  Procs <- ThreeProcs
  Dedupers = {}
  Events = {"crash", "stop", "orphan", "reconfigure", "lost_reply"}
  Budget = 3
SYMMETRY ProcSymmetry
INVARIANTS KeptUntilRun
PROPERTIES StartupMovesAll NeverCopies
