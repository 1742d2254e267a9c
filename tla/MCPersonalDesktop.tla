------------------------- MODULE MCPersonalDesktop -------------------------
(* Desktops 1 and 2 form the pool of group g1; 4 and 5 are static desktops of
   user u1 in groups g2 and g3, 6 is one of user u2 in group g2.             *)
EXTENDS PersonalDesktop, TLC

CONSTANTS r1, u1, u2, g1, g2, g3

MCRequests == {r1}
MCUsers == {u1, u2}
MCOwner == 4 :> u1 @@ 5 :> u1 @@ 6 :> u2
MCGroupMixed == 1 :> g1 @@ 4 :> g2 @@ 5 :> g3 @@ 6 :> g2
MCGroupSmall == 1 :> g1 @@ 2 :> g1
NoOwner == <<>>
Symmetry == Permutations(MCUsers)
=============================================================================
