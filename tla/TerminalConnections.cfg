CONSTANTS
  m1 = m1
  m2 = m2
  t1 = t1
  t2 = t2
  None = None
  Macs <- MCMacs
  Tokens <- MCTwoTokens
SPECIFICATION Spec
INVARIANT TypeOK
   
