--------------------------- MODULE MCUserSessions ---------------------------
\* Two terminals, three users of whom the last logs in at both at once.
EXTENDS UserSessions, TLC
CONSTANTS u1, u2, u3

MCUsers == {u1, u2, u3}
MCOverlap == {u3}
SessionSymmetry == Permutations(Sessions) \cup Permutations(Terminals)
  \cup Permutations({u1, u2})
=============================================================================
