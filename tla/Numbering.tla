----------------------------- MODULE Numbering -----------------------------
(***************************************************************************)
(* What the numbering of a classroom promises to those who confirm numbers *)
(* at the terminals: an ordering hands a number out in one step, to a      *)
(* terminal that has none of it and not to two; an answer is about a       *)
(* number that was handed out; and an ordering that has ended hands out    *)
(* nothing any more.  TerminalOrder is how yzy_terminal does it with       *)
(* sessions in redis and a lock.                                           *)
(***************************************************************************)
EXTENDS Naturals

CONSTANTS Macs, Numbers, Start

VARIABLES
  begun,  \* the orderings that were begun are 1..begun
  given,  \* given[b]: who has which number of ordering b, for those that are open
  due,    \* numbers handed out whose terminal has not been answered
  won     \* the answers

vars == <<begun, given, due, won>>

Init == begun = 0 /\ given = [b \in {} |-> {}] /\ due = {} /\ won = {}

Open == DOMAIN given

Begin ==
  /\ begun' = begun + 1
  /\ given' = [b \in Open \cup {begun'} |-> IF b = begun' THEN {} ELSE given[b]]
  /\ UNCHANGED <<due, won>>

\* Terminal m gets number n of ordering b: nobody has it, and m has none.
Give(b, m, n) ==
  /\ due' = due \cup {<<b, m, n>>}
  /\ given' = [given EXCEPT ![b] = @ \cup {<<m, n>>}]
  /\ n >= Start
  /\ \A k \in Macs : <<k, n>> \notin given[b]
  /\ \A l \in Numbers : <<m, l>> \notin given[b]
  /\ UNCHANGED <<begun, won>>

Answer(x) ==
  /\ due' = due \ {x}
  /\ won' = won \cup {x}
  /\ UNCHANGED <<begun, given>>

\* The process that was to answer is gone.
Lose(x) ==
  /\ due' = due \ {x}
  /\ UNCHANGED <<begun, given, won>>

\* Some orderings end.
End ==
  /\ Open' \subseteq Open /\ Open' # Open
  /\ given' = [b \in Open' |-> given[b]]
  /\ UNCHANGED <<begun, due, won>>

Next ==
  \/ Begin
  \/ \E b \in Open, m \in Macs, n \in Numbers : Give(b, m, n)
  \/ \E x \in due : Answer(x) \/ Lose(x)
  \/ End

Spec == Init /\ [][Next]_vars
=============================================================================
