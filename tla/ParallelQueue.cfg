CONSTANTS
  r1 = r1
  r2 = r2
  r3 = r3
  a1 = a1
  a2 = a2
  b1 = b1
  b3 = b3
  n1 = n1
  n2 = n2
  None = None
  Requests <- MCRequests
  Targets <- MCTargets
  Tid <- MCTid
  NodeOf <- MCNodeOf
  Ram <- MCRam
  Memory <- MCMemory
  Limit = 2
  MaxAttempts = 2
  Timeouts = FALSE
SPECIFICATION SpecDistinct
INVARIANTS TypeOK LimitRespected 
PROPERTY ImplementsPlaces
SYMMETRY Symmetry
