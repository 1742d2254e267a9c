---------------------------- MODULE MCEduDesktop ----------------------------
(* Desktops a1 and b1 of two desktop groups at one seat, c2 at another seat.  *)
EXTENDS EduDesktop, TLC

CONSTANTS r1, r2, a1, b1, c2, n1, n2, m1, m2, s1, s2

MCRequests == {r1, r2}
MCOneRequest == {r1}
MCOneMac == {m1}
MCNodes == {n1, n2}
MCMacs == {m1, m2}
MCInsts == {a1, b1}
MCOneInst == {a1}
MCThreeInsts == {a1, b1, c2}
MCOneNode == {n1}
MCHostOne == (a1 :> n1)
MCHostApart == (a1 :> n1) @@ (b1 :> n2)
MCSeatOne == (a1 :> s1)
MCSeat == (a1 :> s1) @@ (b1 :> s1)
MCHostThree == [i \in MCThreeInsts |-> n1]
MCSeatThree == (a1 :> s1) @@ (b1 :> s1) @@ (c2 :> s2)
Symmetry == Permutations(MCRequests) \cup Permutations(MCMacs)
=============================================================================
