CONSTANTS
  r1 = r1
  r2 = r2
  r3 = r3
  a1 = a1
  a2 = a2
  b1 = b1
  b3 = b3
  n1 = n1
  n2 = n2
  None = None
  Requests <- MCTwoRequests
  Targets <- MCThreeTargets
  Tid <- MCTid
  NodeOf <- MCNodeOf
  Ram <- MCRam
  Memory <- MCMemory
  Limit = 1
  MaxAttempts = 2
  Timeouts = TRUE
SPECIFICATION FairServer
PROPERTIES RequestEnds EntryWithdrawn
