CONSTANTS
  m1 = m1
  m2 = m2
  None = None
  Macs <- MCMacs
  Deletable <- MCDeletable
  Numbers <- MCNumbers
  Start = 1
  MaxBatch = 2
SPECIFICATION Spec
INVARIANTS TypeOK NumberUnique ConfirmKept
PROPERTY LockComesFree
