--------------------------- MODULE MCTemplateSave ---------------------------
(* A controller and one more node, a desktop group at each.                 *)
EXTENDS TemplateSave, TLC

CONSTANTS o1, c, n1, g1, g2, u1, j1, j2

MCOps == {o1}
MCNodes == {c, n1}
MCOneGroup == {g1}
MCGroups == {g1, g2}
MCHost == g1 :> n1 @@ g2 :> c
MCHostOne == g1 :> n1
MCUsers == {u1}
MCJobs == {j1, j2}
MCOneJob == {j1}
MCAnswers == c :> {"ok", "down", "lost"} @@ n1 :> {"ok", "down", "lost"}
MCBroken == c :> {"ok", "kept"} @@ n1 :> {"ok"}
=============================================================================
