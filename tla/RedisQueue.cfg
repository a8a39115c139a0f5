SPECIFICATION Spec
CONSTANTS
  c1 = c1
  h1 = h1
  h2 = h2
  p1 = p1
  p2 = p2
  Callers = {c1}
  Helpers = {h1}
  PerClient = 3
  BatchSize = 2
  Procs = {p1, p2}
  Events = {"lost_push", "lost_request", "lost_pop", "crash", "clear", "pause"}
  Budget = 2
SYMMETRY ProcSymmetry
INVARIANTS TypeOK BulkIsEquivalent
PROPERTIES StartedInOrder KeepsPromise
