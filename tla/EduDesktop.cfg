CONSTANTS
  r1 = r1
  r2 = r2
  a1 = a1
  b1 = b1
  c2 = c2
  n1 = n1
  n2 = n2
  m1 = m1
  m2 = m2
  s1 = s1
  s2 = s2
  None = None
  Requests <- MCRequests
  Insts <- MCThreeInsts
  Nodes <- MCOneNode
  Macs <- MCMacs
  Ports = {1, 2}
  HostOf <- MCHostThree
  Seat <- MCSeatThree
  VdiSize = 2
  Failures = FALSE
SPECIFICATION SpecSerial
INVARIANTS TypeOK SeatExclusive
PROPERTY NoTakeover
SYMMETRY Symmetry
