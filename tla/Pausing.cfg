SPECIFICATION Spec
CONSTANTS
  Workers = {w1}
  Commands = {c1, c2}
  Timeout = 4
  Frequency = 2
  Second = 2
  Lengths = {5}
  Horizon = 10
SYMMETRY CommandSymmetry
INVARIANTS ResumeIsNoticed BlockingEnds PauseEndsOnTime
PROPERTY PauseTakesHold
CHECK_DEADLOCK FALSE
