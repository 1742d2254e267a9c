CONSTANTS
  u1 = u1
  u2 = u2
  u3 = u3
  Users <- MCUsers
  Overlap <- MCOverlap
  Terminals = {m1, m2}
  Sessions = {s1, s2, s3, s4}
  None = None
SPECIFICATION Spec
SYMMETRY SessionSymmetry
INVARIANTS TypeOK BoundOnce   BoundIsOnline
