-------------------------- MODULE MCParallelQueue --------------------------
(* Two classrooms whose terminals share the numbers 1 and 2.  Node n1 has
   three of their desktops, node n2 one.                                    *)
EXTENDS ParallelQueue, TLC

CONSTANTS r1, r2, r3, a1, a2, b1, b3, n1, n2

MCRequests == {r1, r2, r3}
MCTwoRequests == {r1, r2}
MCTargets == {a1, a2, b1, b3}
MCThreeTargets == {a1, a2, b1}
MCTid == (a1 :> 1) @@ (a2 :> 2) @@ (b1 :> 1) @@ (b3 :> 3)
MCNodeOf == (a1 :> n1) @@ (a2 :> n1) @@ (b1 :> n2) @@ (b3 :> n1)
MCNodeSame == [t \in MCTargets |-> n1]
MCRam == (a1 :> 1) @@ (a2 :> 2) @@ (b1 :> 1) @@ (b3 :> 1)
MCMemory == (n1 :> 3) @@ (n2 :> 1)
Symmetry == Permutations(MCRequests)
=============================================================================
