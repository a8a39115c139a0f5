SPECIFICATION FairSpec
CONSTANTS
  Hooks <- ThreeMiddlewares
  Optional = {2}
  Callers = {"worker", "synchronous", "debug"}
  JobCount = 2
  Historic = {1}
  TouchFile = TRUE
  MaxFaults = 4
INVARIANTS OncePerLife AllOrNothing ReturnIsHonest DebugLeavesNothing
PROPERTY JobsLeave
CHECK_DEADLOCK FALSE
