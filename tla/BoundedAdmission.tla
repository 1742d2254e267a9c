------------------------- MODULE BoundedAdmission -------------------------
(***************************************************************************)
(* What the admission of desktop openings promises: a compute node has     *)
(* Limit places (PARALELL_NUM of common/constants.py), an opening takes    *)
(* one in a single step when one is free, and gives it back.               *)
(* ParallelQueue is how TerminalController.check_concurrency does it.      *)
(***************************************************************************)
EXTENDS Naturals, FiniteSets

CONSTANTS Requests, Nodes, Limit

VARIABLE inside   \* inside[n]: the requests that hold a place on node n

Init == inside = [n \in Nodes |-> {}]

Enter(r, n) ==
  /\ \A m \in Nodes : r \notin inside[m]
  /\ Cardinality(inside[n]) < Limit
  /\ inside' = [inside EXCEPT ![n] = @ \cup {r}]

Leave(r, n) ==
  /\ r \in inside[n]
  /\ inside' = [inside EXCEPT ![n] = @ \ {r}]

Next == \E r \in Requests, n \in Nodes : Enter(r, n) \/ Leave(r, n)

Spec == Init /\ [][Next]_inside
=============================================================================
