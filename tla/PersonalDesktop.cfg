CONSTANTS
  r1 = r1
  u1 = u1
  u2 = u2
  g1 = g1
  g2 = g2
  g3 = g3
  None = None
  Requests <- MCRequests
  Users <- MCUsers
  Pool = {1}
  Static = {4, 5, 6}
  Owner <- MCOwner
  Group <- MCGroupMixed
  Ports = {1, 2, 3, 4}
  VdiSize = 3
  Failures = FALSE
SPECIFICATION SpecSerial
INVARIANTS LicenceRespected AtMostTwo
PROPERTY NoTakeover
