CONSTANTS
  r1 = r1
  u1 = u1
  u2 = u2
  g1 = g1
  g2 = g2
  g3 = g3
  None = None
  Requests <- MCRequests
  Users <- MCUsers
  Pool = {1, 2}
  Static = {}
  Owner <- NoOwner
  Group <- MCGroupSmall
  Ports = {1, 2}
  VdiSize = 2
  Failures = TRUE
SPECIFICATION SpecOneHandler
INVARIANTS TypeOK BindUnique OneBindPerGroup
SYMMETRY Symmetry
