------------------------- MODULE UserSessionsProofs -------------------------
(***************************************************************************)
(* Proofs about UserSessions, for any number of users, terminals and       *)
(* sessions: no two users are bound to one terminal; a user whose requests *)
(* come one at a time has one session, is bound to the terminal that shows *)
(* it or to none, and is online while he is bound.                         *)
(*                                                                         *)
(* StepMoves says once what a step can do to the requests and the tables;  *)
(* the parts of the inductive invariant Inv follow from it.                *)
(***************************************************************************)
EXTENDS UserSessions, TLAPS

(* What the helpers do to the requests: that of terminal m becomes the record that
   is named, the others stay.                                                *)
Becomes(m, r) == /\ op' \in [Terminals -> [pc : Pcs, user : Owners, session : Tokens,
                                           rows : SUBSET Users, mac : Places, on : BOOLEAN]]
                 /\ op'[m] = r
                 /\ \A n \in Terminals \ {m} : op'[n] = op[n]

LEMMA RequestBecomes ==
  ASSUME OpsTyped, NEW m \in Terminals, NEW u \in Owners, NEW pc \in Pcs,
         NEW s \in Tokens, NEW rows \in SUBSET Users, Request(m, u, pc, s, rows)
  PROVE Becomes(m, [pc |-> pc, user |-> u, session |-> s, rows |-> rows,
                    mac |-> None, on |-> FALSE])
BY DEF OpsTyped, Request, NoOp, Becomes, Places

LEMMA LoadsBecomes ==
  ASSUME OpsTyped, NEW m \in Terminals, NEW u \in Users, NEW pc \in Pcs,
         NEW s \in Tokens, NEW rows \in SUBSET Users, Loads(m, u, pc, s, rows),
         mac \in [Users -> Places], online \in [Users -> BOOLEAN]
  PROVE Becomes(m, [pc |-> pc, user |-> u, session |-> s, rows |-> rows,
                    mac |-> mac[u], on |-> online[u]])
BY DEF OpsTyped, Loads, Becomes, Owners

LEMMA EndsBecomes ==
  ASSUME OpsTyped, NEW m \in Terminals, Ends(m)
  PROVE Becomes(m, NoOp)
<1>1. "idle" \in Pcs BY DEF Pcs
<1> QED BY <1>1 DEF OpsTyped, Ends, NoOp, Becomes, Places, Tokens, Owners


LEMMA PcsAre ==
  {"idle", "change", "find", "drop", "again", "others", "evict", "dropOther", "create",
   "read", "bind", "load", "leave", "close"} \subseteq Pcs
BY DEF Pcs, LoginPcs, LogoutPcs

LEMMA BranchIs == \A t : Branch(t) \in {"others", "create"}
BY DEF Branch

(* Type correctness.  A request at work has a user, and one that is to end a
   session has found it.                                                      *)
HasSession == {"drop", "dropOther", "read", "bind", "load", "leave", "close"}

TypeInv ==
  /\ TypeOK
  /\ \A m \in Terminals : op[m].pc \in HasSession => op[m].session \in Sessions

\* Every step of terminal m leaves the requests of the others alone.
Alone(m) == \A n \in Terminals \ {m} : op'[n] = op[n]

LEMMA TypesOfOps ==
  ASSUME TypeInv, NEW m \in Terminals, NEW r,
         Becomes(m, r), r.pc # "idle" => r.user \in Users,
         r.pc \in HasSession => r.session \in Sessions
  PROVE /\ OpsTyped'
        /\ \A n \in Terminals : op'[n].pc # "idle" => op'[n].user \in Users
        /\ \A n \in Terminals : op'[n].pc \in HasSession => op'[n].session \in Sessions
<1>1. OpsTyped' BY DEF Becomes, OpsTyped
<1>2. ASSUME NEW n \in Terminals
      PROVE /\ op'[n].pc # "idle" => op'[n].user \in Users
            /\ op'[n].pc \in HasSession => op'[n].session \in Sessions
  <2>1. CASE n = m BY <2>1 DEF Becomes
  <2>2. CASE n # m BY <2>2 DEF Becomes, TypeInv, TypeOK
  <2> QED BY <2>1, <2>2
<1> QED BY <1>1, <1>2

LEMMA TypeInvInit == Init => TypeInv
BY PcsAre DEF Init, TypeInv, TypeOK, OpsTyped, NoOp, Places, Owners, Tokens, HasSession

LEMMA TypeInvNext == TypeInv /\ [Next]_vars => TypeInv'
<1> SUFFICES ASSUME TypeInv, [Next]_vars PROVE TypeInv'
  OBVIOUS
<1> USE PcsAre
<1>u. CASE UNCHANGED vars
  BY <1>u DEF vars, TypeInv, TypeOK, OpsTyped
<1>n. ASSUME NEW m \in Terminals, Step(m) \/ Begin(m) PROVE TypeInv'
  <2> DEFINE u == op[m].user
             s == op[m].session
             Rec(p, v, t, rows) == [pc |-> p, user |-> v, session |-> t, rows |-> rows,
                                    mac |-> None, on |-> FALSE]
             Full(p, v, t, rows) == [pc |-> p, user |-> v, session |-> t, rows |-> rows,
                                     mac |-> mac[v], on |-> online[v]]
             Rest == TypeOK'
  <2>t. /\ OpsTyped /\ mac \in [Users -> Places] /\ online \in [Users -> BOOLEAN]
        /\ owner \in [Sessions -> Owners] /\ screen \in [Terminals -> Tokens]
        /\ op[m].pc \in Pcs /\ u \in Owners /\ s \in Tokens /\ op[m].rows \in SUBSET Users
        /\ op[m].pc # "idle" => u \in Users
        /\ op[m].pc \in HasSession => s \in Sessions
        /\ None \in Tokens /\ None \in Owners /\ None \in Places /\ m \in Places
        /\ \A v : Live(v) \subseteq Sessions
        /\ \A v \in Users : v \in Owners
        /\ \A v \in Sessions : v \in Tokens
    BY DEF TypeInv, TypeOK, OpsTyped, Tokens, Owners, Places, Live
  <2>r. ASSUME NEW r, Becomes(m, r), r.pc # "idle" => r.user \in Users,
               r.pc \in HasSession => r.session \in Sessions,
               mac' \in [Users -> Places], online' \in [Users -> BOOLEAN],
               owner' \in [Sessions -> Owners], screen' \in [Terminals -> Tokens]
        PROVE TypeInv'
    BY <2>r, TypesOfOps DEF TypeInv, TypeOK
  <2>q. ASSUME NEW p \in Pcs, NEW v \in Users, NEW t \in Tokens, NEW rows \in SUBSET Users,
               Request(m, v, p, t, rows), p \in HasSession => t \in Sessions,
               mac' \in [Users -> Places], online' \in [Users -> BOOLEAN],
               owner' \in [Sessions -> Owners], screen' \in [Terminals -> Tokens]
        PROVE TypeInv'
    <3>1. Becomes(m, Rec(p, v, t, rows)) BY <2>q, <2>t, RequestBecomes
    <3> QED BY <3>1, <2>q, <2>r
  <2>l. ASSUME NEW p \in Pcs, NEW v \in Users, NEW t \in Tokens, NEW rows \in SUBSET Users,
               Loads(m, v, p, t, rows), p \in HasSession => t \in Sessions,
               UNCHANGED <<row, owner, screen>>
        PROVE TypeInv'
    <3>1. Becomes(m, Full(p, v, t, rows)) BY <2>l, <2>t, LoadsBecomes
    <3> QED BY <3>1, <2>l, <2>r, <2>t DEF row
  <2>e. ASSUME Ends(m), mac' \in [Users -> Places], online' \in [Users -> BOOLEAN],
               owner' \in [Sessions -> Owners], screen' \in [Terminals -> Tokens]
        PROVE TypeInv'
    <3>1. Becomes(m, NoOp) BY <2>e, <2>t, EndsBecomes
    <3>2. NoOp.pc = "idle" /\ NoOp.pc \notin HasSession BY DEF NoOp, HasSession
    <3> QED BY <3>1, <3>2, <2>e, <2>r
  <2> HIDE DEF u, s
  <2>b. ASSUME Unbinds(m), u \in Users
        PROVE mac' \in [Users -> Places] /\ online' \in [Users -> BOOLEAN]
    BY <2>b, <2>t DEF Unbinds
  <2>1. ASSUME NEW v \in Users, LoginBegin(m, v) \/ ChangeBegin(m, v) PROVE TypeInv'
    BY <2>1, <2>l, <2>t DEF LoginBegin, ChangeBegin, HasSession
  <2>2. CASE FindOwn(m)
    <3>1. u \in Users BY <2>2, <2>t DEF FindOwn
    <3>2. mac' = mac /\ online' = online /\ owner' = owner /\ screen' = screen
      BY <2>2 DEF FindOwn, row
    <3>3. CASE Goes(m, Branch(op[m].mac))
      BY <3>1, <3>2, <3>3, <2>q, <2>t, BranchIs DEF Goes, HasSession, u
    <3>4. ASSUME NEW t \in Live(u), Request(m, u, "drop", t, {}) PROVE TypeInv'
      BY <3>1, <3>2, <3>4, <2>q, <2>t
    <3> QED BY <2>2, <3>3, <3>4 DEF FindOwn, u
  <2>3. CASE DropOwn(m) \/ DropOther(m)
    <3>1. u \in Users /\ s \in Sessions BY <2>3, <2>t DEF DropOwn, DropOther, HasSession
    <3>2. mac' = mac /\ online' = online /\ screen' = screen
          /\ owner' \in [Sessions -> Owners]
      BY <2>3, <2>t DEF DropOwn, DropOther, row
    <3> QED BY <2>3, <3>1, <3>2, <2>q, <2>t DEF DropOwn, DropOther, Goes, HasSession, u
  <2>4. CASE Again(m)
    <3>1. u \in Users BY <2>4, <2>t DEF Again
    <3> QED BY <2>4, <3>1, <2>q, <2>t, BranchIs DEF Again, Goes, HasSession, u, row
  <2>5. CASE FindOthers(m)
    <3>1. u \in Users BY <2>5, <2>t DEF FindOthers
    <3> QED BY <2>5, <3>1, <2>q, <2>t DEF FindOthers, HasSession, u, row, BoundTo
  <2>6. ASSUME NEW v \in Users, FindOther(m, v) PROVE TypeInv'
    <3>1. u \in Users BY <2>6, <2>t DEF FindOther
    <3>2. mac' = mac /\ online' = online /\ owner' = owner /\ screen' = screen
      BY <2>6 DEF FindOther, row
    <3>3. CASE Request(m, u, "evict", None, op[m].rows \ {v})
      BY <3>1, <3>2, <3>3, <2>q, <2>t DEF HasSession
    <3>4. ASSUME NEW t \in Live(v), Request(m, u, "dropOther", t, op[m].rows \ {v})
          PROVE TypeInv'
      BY <3>1, <3>2, <3>4, <2>q, <2>t
    <3> QED BY <2>6, <3>3, <3>4 DEF FindOther, u
  <2>7. CASE Evicted(m)
    <3>1. u \in Users BY <2>7, <2>t DEF Evicted
    <3> QED BY <2>7, <3>1, <2>q, <2>t DEF Evicted, Goes, HasSession, u, row
  <2>8. CASE Create(m)
    <3>1. u \in Users BY <2>8, <2>t DEF Create
    <3>2. PICK t \in Fresh : /\ owner' = [owner EXCEPT ![t] = u]
                             /\ Request(m, u, "read", t, {})
      BY <2>8 DEF Create, u
    <3>3. t \in Sessions BY DEF Fresh
    <3>4. owner' \in [Sessions -> Owners] BY <3>1, <3>2, <3>3, <2>t
    <3>5. mac' = mac /\ online' = online /\ screen' = screen BY <2>8 DEF Create, row
    <3> QED BY <3>1, <3>2, <3>3, <3>4, <3>5, <2>q, <2>t
  <2>9. CASE ReadBound(m)
    <3>1. u \in Users /\ s \in Sessions BY <2>9, <2>t DEF ReadBound, HasSession
    <3> QED BY <2>9, <3>1, <2>l, <2>t DEF ReadBound, u, s, BoundTo
  <2>10. CASE Bind(m)
    <3>1. u \in Users /\ s \in Sessions BY <2>10, <2>t DEF Bind, HasSession
    <3>2. mac' \in [Users -> Places] /\ online' \in [Users -> BOOLEAN]
          /\ screen' \in [Terminals -> Tokens]
      BY <2>10, <3>1, <2>t DEF Bind, s
    <3> QED BY <2>10, <3>2, <2>e, <2>t DEF Bind
  <2>11. CASE LogoutBegin(m)
    <3>1. Shown(m) \in Users /\ screen[m] \in Sessions
      BY <2>11, <2>t, SessionsAssumption DEF LogoutBegin, Shown, Tokens
    <3> QED BY <2>11, <3>1, <2>q, <2>t DEF LogoutBegin, row
  <2>12. CASE LogoutLoad(m)
    <3>1. u \in Users /\ s \in Sessions BY <2>12, <2>t DEF LogoutLoad, HasSession
    <3> QED BY <2>12, <3>1, <2>l, <2>t DEF LogoutLoad, u, s
  <2>13. CASE Leave(m)
    <3>1. u \in Users /\ s \in Sessions BY <2>13, <2>t DEF Leave, HasSession
    <3> QED BY <2>13, <3>1, <2>b, <2>q, <2>t DEF Leave, u, s
  <2>14. CASE Close(m)
    <3>1. owner' \in [Sessions -> Owners] /\ screen' \in [Terminals -> Tokens]
      BY <2>14, <2>t DEF Close
    <3> QED BY <2>14, <3>1, <2>e, <2>t DEF Close, row
  <2>15. CASE Change(m)
    <3>1. u \in Users BY <2>15, <2>t DEF Change
    <3> QED BY <2>15, <3>1, <2>b, <2>e, <2>t DEF Change
  <2>16. CASE Die(m)
    BY <2>16, <2>e, <2>t DEF Die, row
  <2>17. CASE Clear(m)
    BY <2>17, <2>t DEF Clear, row, TypeInv, TypeOK, OpsTyped
  <2> QED
    BY <1>n, <2>1, <2>2, <2>3, <2>4, <2>5, <2>6, <2>7, <2>8, <2>9, <2>10, <2>11, <2>12,
       <2>13, <2>14, <2>15, <2>16, <2>17 DEF Step, Begin
<1> QED BY <1>u, <1>n DEF Next

(* The sessions and the rows of users keep their types, for any number of users,
   terminals and sessions, overlapping requests and failures.                 *)
THEOREM Types == Spec => []TypeOK
<1>1. TypeInv => TypeOK BY DEF TypeInv
<1> QED BY <1>1, TypeInvInit, TypeInvNext, PTL DEF Spec


-----------------------------------------------------------------------------
(* What a step of terminal m can do, whichever it is.                         *)
Cleared == {"again", "others", "evict", "dropOther", "create"}
Holding == {"drop", "read", "bind"}

RequestMoves(m) ==
  LET r == op[m]
      r1 == op'[m] IN
  /\ Alone(m)
  /\ r1.user = r.user \/ r1.user = None \/ MayBegin(m, r1.user)
  /\ r1.pc = "bind" => ReadBound(m)
  /\ r1.pc \in {"leave", "change"} =>
       r1.user \in Users /\ r1.mac = mac[r1.user] /\ UNCHANGED row
  /\ r1.pc = "read" => Create(m)
  /\ r1.pc = "drop" => r1.user = r.user /\ r1.session \in Live(r.user) /\ UNCHANGED owner
  /\ r1.pc \in Cleared =>
       /\ r1.user = r.user /\ r.user \in Users
       /\ \/ r.pc = "drop" /\ owner' = [owner EXCEPT ![r.session] = None]
          \/ r.pc = "find" /\ Live(r.user) = {} /\ UNCHANGED owner
          \/ r.pc \in Cleared
  /\ r.pc \notin HasSession => owner' = owner \/ Create(m)

TablesMove(m) ==
  /\ UNCHANGED row \/ Bind(m) \/ (Unbinds(m) /\ op[m].pc \in {"leave", "change"})
  /\ owner' = owner \/ Create(m) \/ owner' = [owner EXCEPT ![op[m].session] = None]
  /\ screen' = screen \/ Bind(m) \/ screen' = [screen EXCEPT ![m] = None]

LEMMA StepMoves ==
  ASSUME TypeInv, NEW m \in Terminals, Step(m) \/ Begin(m)
  PROVE RequestMoves(m) /\ TablesMove(m)
<1> USE PcsAre
<1> DEFINE u == op[m].user
           s == op[m].session
           Rec(p, v, t, rows) == [pc |-> p, user |-> v, session |-> t, rows |-> rows,
                                  mac |-> None, on |-> FALSE]
           Got(p, v, t) == /\ Alone(m)
                           /\ op'[m].pc = p /\ op'[m].user = v
                           /\ op'[m].session = t /\ op'[m].mac = mac[v]
<1>t. /\ OpsTyped /\ mac \in [Users -> Places] /\ online \in [Users -> BOOLEAN]
      /\ owner \in [Sessions -> Owners] /\ screen \in [Terminals -> Tokens]
      /\ op[m].pc \in Pcs /\ u \in Owners /\ s \in Tokens /\ op[m].rows \in SUBSET Users
      /\ op[m].pc # "idle" => u \in Users
      /\ op[m].pc \in HasSession => s \in Sessions
      /\ None \in Tokens /\ None \in Owners /\ None \in Places /\ m \in Places
      /\ \A v : Live(v) \subseteq Sessions
      /\ \A v \in Users : v \in Owners
      /\ \A v \in Sessions : v \in Tokens
  BY DEF TypeInv, TypeOK, OpsTyped, Tokens, Owners, Places, Live
<1>q. ASSUME NEW p \in Pcs, NEW v \in Users, NEW t \in Tokens, NEW rows \in SUBSET Users,
             Request(m, v, p, t, rows)
      PROVE Alone(m) /\ op'[m] = Rec(p, v, t, rows)
  BY <1>q, <1>t, RequestBecomes DEF Becomes, Alone
<1>l. ASSUME NEW p \in Pcs, NEW v \in Users, NEW t \in Tokens, NEW rows \in SUBSET Users,
             Loads(m, v, p, t, rows)
      PROVE Got(p, v, t)
  <2>1. Becomes(m, [pc |-> p, user |-> v, session |-> t, rows |-> rows,
                    mac |-> mac[v], on |-> online[v]])
    BY <1>l, <1>t, LoadsBecomes
  <2> QED BY <2>1 DEF Becomes, Alone
<1>e. ASSUME Ends(m)
      PROVE Alone(m) /\ op'[m].pc = "idle" /\ op'[m].user = None
  BY <1>e, <1>t, EndsBecomes DEF Becomes, Alone, NoOp
<1> HIDE DEF u, s
<1> USE DEF RequestMoves, TablesMove, Cleared, HasSession
<1>1. ASSUME NEW v \in Users, LoginBegin(m, v) PROVE RequestMoves(m) /\ TablesMove(m)
  <2>1. Got("find", v, None)
    BY <1>1, <1>l, <1>t DEF LoginBegin
  <2> QED BY <1>1, <2>1 DEF LoginBegin
<1>2. ASSUME NEW v \in Users, ChangeBegin(m, v) PROVE RequestMoves(m) /\ TablesMove(m)
  <2>1. Got("change", v, None)
    BY <1>2, <1>l, <1>t DEF ChangeBegin
  <2> QED BY <1>2, <2>1 DEF ChangeBegin
<1>3. CASE FindOwn(m)
  <2>1. u \in Users BY <1>3, <1>t DEF FindOwn
  <2>2. ASSUME Live(u) = {}, Goes(m, Branch(op[m].mac)) PROVE RequestMoves(m)
    <3>0. Request(m, u, Branch(op[m].mac), None, {}) BY <2>2 DEF Goes, u
    <3>1. Alone(m) /\ op'[m] = Rec(Branch(op[m].mac), u, None, {})
      BY <2>1, <3>0, <1>q, <1>t, BranchIs
    <3> QED BY <1>3, <2>1, <2>2, <3>1, BranchIs DEF FindOwn, u
  <2>3. ASSUME NEW t \in Live(u), Request(m, u, "drop", t, {}) PROVE RequestMoves(m)
    <3>1. Alone(m) /\ op'[m] = Rec("drop", u, t, {})
      BY <2>1, <2>3, <1>q, <1>t
    <3> QED BY <1>3, <2>1, <3>1 DEF FindOwn, u
  <2>4. TablesMove(m) BY <1>3 DEF FindOwn
  <2> QED BY <1>3, <2>2, <2>3, <2>4 DEF FindOwn, u
<1>4. CASE DropOwn(m)
  <2>1. u \in Users BY <1>4, <1>t DEF DropOwn
  <2>2. Alone(m) /\ op'[m] = Rec("again", u, None, {})
    BY <1>4, <2>1, <1>q, <1>t DEF DropOwn, Goes, u
  <2> QED BY <1>4, <2>1, <2>2 DEF DropOwn, u
<1>5. CASE Again(m)
  <2>1. u \in Users BY <1>5, <1>t DEF Again
  <2>0. Request(m, u, Branch(mac[u]), None, {}) BY <1>5 DEF Again, Goes, u
  <2>2. Alone(m) /\ op'[m] = Rec(Branch(mac[u]), u, None, {})
    BY <2>0, <2>1, <1>q, <1>t, BranchIs
  <2> QED BY <1>5, <2>1, <2>2, BranchIs DEF Again, u
<1>6. CASE FindOthers(m)
  <2>1. u \in Users BY <1>6, <1>t DEF FindOthers
  <2>2. Alone(m) /\ op'[m] = Rec("evict", u, None, BoundTo(m))
    BY <1>6, <2>1, <1>q, <1>t DEF FindOthers, BoundTo, u
  <2> QED BY <1>6, <2>1, <2>2 DEF FindOthers, u
<1>7. ASSUME NEW v \in Users, FindOther(m, v) PROVE RequestMoves(m) /\ TablesMove(m)
  <2>1. u \in Users BY <1>7, <1>t DEF FindOther
  <2> DEFINE Stays == /\ Alone(m) /\ op'[m].user = u
                      /\ op'[m].pc \in {"evict", "dropOther"}
  <2>2. Stays
    <3>1. ASSUME Request(m, u, "evict", None, op[m].rows \ {v}) PROVE Stays
      <4>1. Alone(m) /\ op'[m] = Rec("evict", u, None, op[m].rows \ {v})
        BY <2>1, <3>1, <1>q, <1>t
      <4> QED BY <4>1
    <3>2. ASSUME NEW t \in Live(v), Request(m, u, "dropOther", t, op[m].rows \ {v})
          PROVE Stays
      <4>1. Alone(m) /\ op'[m] = Rec("dropOther", u, t, op[m].rows \ {v})
        BY <2>1, <3>2, <1>q, <1>t
      <4> QED BY <4>1
    <3> QED BY <1>7, <3>1, <3>2 DEF FindOther, u
  <2> QED BY <1>7, <2>1, <2>2 DEF FindOther, u
<1>8. CASE DropOther(m)
  <2>1. u \in Users BY <1>8, <1>t DEF DropOther
  <2>2. Alone(m) /\ op'[m] = Rec("evict", u, None, op[m].rows)
    BY <1>8, <2>1, <1>q, <1>t DEF DropOther, u
  <2> QED BY <1>8, <2>1, <2>2 DEF DropOther, u
<1>9. CASE Evicted(m)
  <2>1. u \in Users BY <1>9, <1>t DEF Evicted
  <2>2. Alone(m) /\ op'[m] = Rec("create", u, None, {})
    BY <1>9, <2>1, <1>q, <1>t DEF Evicted, Goes, u
  <2> QED BY <1>9, <2>1, <2>2 DEF Evicted, u
<1>10. CASE Create(m)
  <2>1. u \in Users BY <1>10, <1>t DEF Create
  <2>2. PICK t \in Fresh : Request(m, u, "read", t, {})
    BY <1>10 DEF Create, u
  <2>3. t \in Sessions BY DEF Fresh
  <2>4. Alone(m) /\ op'[m] = Rec("read", u, t, {})
    BY <2>1, <2>2, <2>3, <1>q, <1>t
  <2>5. RequestMoves(m) BY <1>10, <2>4 DEF u
  <2>6. TablesMove(m) BY <1>10 DEF Create
  <2> QED BY <2>5, <2>6
<1>11. CASE ReadBound(m)
  <2>1. u \in Users /\ s \in Sessions BY <1>11, <1>t DEF ReadBound
  <2>2. Got("bind", u, s)
    BY <1>11, <2>1, <1>l, <1>t DEF ReadBound, BoundTo, u, s
  <2> QED BY <1>11, <2>1, <2>2 DEF u, ReadBound
<1>12. CASE Bind(m)
  BY <1>12, <1>e DEF Bind
<1>13. CASE LogoutBegin(m)
  <2>1. Shown(m) \in Users /\ screen[m] \in Sessions
    BY <1>13, <1>t, SessionsAssumption DEF LogoutBegin, Shown, Tokens
  <2>2. Alone(m) /\ op'[m] = Rec("load", Shown(m), screen[m], {})
    BY <1>13, <2>1, <1>q, <1>t DEF LogoutBegin
  <2> QED BY <1>13, <2>1, <2>2 DEF LogoutBegin
<1>14. CASE LogoutLoad(m)
  <2>1. u \in Users /\ s \in Sessions BY <1>14, <1>t DEF LogoutLoad
  <2>2. Got("leave", u, s)
    BY <1>14, <2>1, <1>l, <1>t DEF LogoutLoad, u, s
  <2> QED BY <1>14, <2>1, <2>2 DEF u, LogoutLoad
<1>15. CASE Leave(m)
  <2>1. u \in Users /\ s \in Sessions BY <1>15, <1>t DEF Leave
  <2>2. Alone(m) /\ op'[m] = Rec("close", u, s, {})
    BY <1>15, <2>1, <1>q, <1>t DEF Leave, u, s
  <2> QED BY <1>15, <2>1, <2>2 DEF u, Leave
<1>16. CASE Close(m)
  BY <1>16, <1>e DEF Close
<1>17. CASE Change(m)
  BY <1>17, <1>e DEF Change
<1>18. CASE Die(m)
  BY <1>18, <1>e DEF Die
<1>19. CASE Clear(m)
  BY <1>19 DEF Clear, Alone
<1> QED
  BY <1>1, <1>2, <1>3, <1>4, <1>5, <1>6, <1>7, <1>8, <1>9, <1>10, <1>11, <1>12,
     <1>13, <1>14, <1>15, <1>16, <1>17, <1>18, <1>19 DEF Step, Begin


-----------------------------------------------------------------------------
(* The requests of a careful user come one at a time.                         *)
Careful == Users \ Overlap

Solo ==
  \A u \in Careful : \A m, n \in Terminals : op[m].user = u /\ op[n].user = u => m = n

LEMMA SoloNext ==
  ASSUME Solo, NEW m \in Terminals, RequestMoves(m) PROVE Solo'
<1>1. Alone(m) /\ (op'[m].user \in {op[m].user, None} \/ MayBegin(m, op'[m].user))
  BY DEF RequestMoves
<1>2. None \notin Users BY SessionsAssumption
<1> SUFFICES ASSUME NEW u \in Careful, NEW n \in Terminals, NEW k \in Terminals,
                    op'[n].user = u, op'[k].user = u
             PROVE n = k
  BY DEF Solo
<1>3. CASE n # m /\ k # m BY <1>1, <1>3 DEF Alone, Solo
<1>4. ASSUME op'[m].user = u, NEW i \in Terminals \ {m} PROVE op'[i].user # u
  <2>1. op'[i] = op[i] BY <1>1 DEF Alone
  <2>2. CASE op'[m].user = op[m].user BY <1>4, <2>1, <2>2 DEF Solo
  <2>3. CASE MayBegin(m, op'[m].user) BY <1>4, <2>1, <2>3 DEF MayBegin, Busy, Careful
  <2> QED BY <1>1, <1>2, <1>4, <2>2, <2>3 DEF Careful
<1> QED BY <1>3, <1>4

(* The rows of the users.  A request about to bind has the rows of all who are
   bound to its terminal; what a request of a careful user has loaded of his row
   has changed since only by another user's login, which unbinds him.         *)
RowInv ==
  /\ BoundOnce
  /\ \A m \in Terminals, v \in Users : op[m].pc = "bind" /\ mac[v] = m => v \in op[m].rows
  /\ \A m \in Terminals : op[m].pc = "bind" /\ op[m].user \in Careful /\ op[m].user \in op[m].rows
       => mac[op[m].user] \in {None, m}
  /\ \A m \in Terminals : op[m].pc \in {"leave", "change"} /\ op[m].user \in Careful
       => op[m].mac # None \/ mac[op[m].user] = None
  /\ BoundIsOnline

\* A step changes mac only so: the user who binds moves, others are unbound.
LEMMA MacMoves ==
  ASSUME TypeInv, NEW m \in Terminals, TablesMove(m), NEW v \in Users
  PROVE /\ mac'[v] \in {mac[v], None} \/ (Bind(m) /\ v = op[m].user /\ mac'[v] = m)
        /\ v # op[m].user => online'[v] = online[v]
<1>1. mac \in [Users -> Places] /\ online \in [Users -> BOOLEAN]
  BY DEF TypeInv, TypeOK
<1>2. CASE UNCHANGED row BY <1>2 DEF row
<1>3. CASE Bind(m) BY <1>1, <1>3 DEF Bind
<1>4. CASE Unbinds(m) BY <1>1, <1>4 DEF Unbinds
<1> QED BY <1>2, <1>3, <1>4 DEF TablesMove

LEMMA RowInvNext ==
  ASSUME TypeInv, Solo, RowInv, NEW m \in Terminals, RequestMoves(m), TablesMove(m)
  PROVE RowInv'
<1>t. /\ mac \in [Users -> Places] /\ online \in [Users -> BOOLEAN]
      /\ None \notin Terminals
      /\ op[m].pc # "idle" => op[m].user \in Users
  BY SessionsAssumption DEF TypeInv, TypeOK
<1>a. \A n \in Terminals \ {m} : op'[n] = op[n] BY DEF RequestMoves, Alone
<1>m. \A v \in Users : mac'[v] \in {mac[v], None}
                        \/ (Bind(m) /\ v = op[m].user /\ mac'[v] = m)
  BY MacMoves
<1>b. Bind(m) => op[m].pc = "bind" BY DEF Bind
<1>1. BoundOnce'
  <2> SUFFICES ASSUME NEW u \in Users, NEW v \in Users, mac'[u] # None, mac'[u] = mac'[v]
               PROVE u = v
    BY DEF BoundOnce
  <2>1. CASE mac'[u] = mac[u] /\ mac'[v] = mac[v] BY <2>1 DEF RowInv, BoundOnce
  <2>2. ASSUME NEW w \in Users, Bind(m), w # op[m].user, mac'[w] = m PROVE FALSE
    <3>1. mac'[w] = IF w \in op[m].rows THEN None ELSE mac[w] BY <2>2, <1>t DEF Bind
    <3> QED BY <3>1, <2>2, <1>t, <1>b DEF RowInv
  <2> QED BY <2>1, <2>2, <1>m
<1>2. ASSUME NEW n \in Terminals, NEW v \in Users, op'[n].pc = "bind", mac'[v] = n
      PROVE v \in op'[n].rows
  <2>1. CASE n = m
    <3>1. ReadBound(m) BY <2>1, <1>2 DEF RequestMoves
    <3>2. op'[m].rows = BoundTo(m) /\ mac' = mac
      BY <3>1 DEF ReadBound, Loads, TypeInv, TypeOK, OpsTyped, row
    <3> QED BY <2>1, <1>2, <3>2 DEF BoundTo
  <2>2. CASE n # m
    <3>1. mac[v] = n BY <2>2, <1>2, <1>m, <1>t
    <3> QED BY <2>2, <1>2, <1>a, <3>1 DEF RowInv
  <2> QED BY <2>1, <2>2
<1>3. ASSUME NEW n \in Terminals, op'[n].pc = "bind", op'[n].user \in Careful,
             op'[n].user \in op'[n].rows
      PROVE mac'[op'[n].user] \in {None, n}
  <2>1. CASE n = m
    <3>1. ReadBound(m) BY <2>1, <1>3 DEF RequestMoves
    <3>2. op'[m].rows = BoundTo(m) /\ mac' = mac
      BY <3>1 DEF ReadBound, Loads, TypeInv, TypeOK, OpsTyped, row
    <3> QED BY <2>1, <1>3, <3>2 DEF BoundTo
  <2>2. CASE n # m
    <3>1. op'[n] = op[n] /\ op[n].user # op[m].user BY <2>2, <1>a, <1>3 DEF Solo
    <3>2. mac[op[n].user] \in {None, n} BY <3>1, <1>3 DEF RowInv
    <3> QED BY <3>1, <3>2, <1>3, <1>m DEF Careful
  <2> QED BY <2>1, <2>2
<1>4. ASSUME NEW n \in Terminals, op'[n].pc \in {"leave", "change"}, op'[n].user \in Careful
      PROVE op'[n].mac # None \/ mac'[op'[n].user] = None
  <2>1. CASE n = m BY <2>1, <1>4 DEF RequestMoves, row
  <2>2. CASE n # m
    <3>1. op'[n] = op[n] /\ op[n].user # op[m].user BY <2>2, <1>a, <1>4 DEF Solo
    <3>2. op[n].mac # None \/ mac[op[n].user] = None BY <3>1, <1>4 DEF RowInv
    <3> QED BY <3>1, <3>2, <1>4, <1>m DEF Careful
  <2> QED BY <2>1, <2>2
<1>5. ASSUME NEW v \in Careful, mac'[v] # None PROVE online'[v]
  <2>0. v \in Users BY DEF Careful
  <2>1. CASE v # op[m].user
    <3>1. mac'[v] = mac[v] BY <2>0, <2>1, <1>5, <1>m
    <3> QED BY <2>0, <2>1, <1>5, <3>1, MacMoves DEF RowInv, BoundIsOnline, Careful
  <2>2. CASE v = op[m].user
    <3>1. CASE UNCHANGED row BY <2>0, <3>1, <1>5 DEF row, RowInv, BoundIsOnline, Careful
    <3>2. CASE Bind(m)
      <4>1. mac'[v] = IF v \in op[m].rows THEN mac[v] ELSE m BY <2>0, <2>2, <3>2, <1>t DEF Bind
      <4>2. online'[v] = IF v \in op[m].rows /\ op[m].on THEN online[v] ELSE TRUE
        BY <2>0, <2>2, <3>2, <1>t DEF Bind
      <4>3. CASE v \in op[m].rows /\ op[m].on
        <5>1. online[v] BY <4>1, <4>3, <1>5 DEF RowInv, BoundIsOnline, Careful
        <5> QED BY <4>2, <4>3, <5>1
      <4> QED BY <4>2, <4>3
    <3>3. CASE Unbinds(m) /\ op[m].pc \in {"leave", "change"}
      <4>1. mac'[v] = IF op[m].mac # None THEN None ELSE mac[v]
        BY <2>0, <2>2, <3>3, <1>t DEF Unbinds
      <4> QED BY <4>1, <2>2, <3>3, <1>5 DEF RowInv
    <3> QED BY <3>1, <3>2, <3>3 DEF TablesMove
  <2> QED BY <2>1, <2>2
<1> QED BY <1>1, <1>2, <1>3, <1>4, <1>5 DEF RowInv, BoundIsOnline, Careful


-----------------------------------------------------------------------------
(* The sessions.  From the end of a careful user's former session to the creation
   of the next he has none; one that was made is on no screen before it is
   answered, and in no other request.                                         *)
SessionInv ==
  /\ OneSession
  /\ \A m \in Terminals : op[m].user \in Careful =>
       /\ op[m].pc \in Cleared => Live(op[m].user) = {}
       /\ op[m].pc \in Holding => Live(op[m].user) \subseteq {op[m].session}

Made(m) == op[m].pc \in {"read", "bind"}

MadeInv ==
  \A m \in Terminals : Made(m) =>
    /\ owner[op[m].session] \in {None, op[m].user}
    /\ \A n \in Terminals : screen[n] # op[m].session
    /\ \A n \in Terminals : Made(n) /\ op[n].session = op[m].session => n = m

Inv == TypeInv /\ Solo /\ RowInv /\ SessionInv /\ MadeInv /\ ServedWhereBound

\* A session is made for the user of the request, and only by Create.
LEMMA OwnerMoves ==
  ASSUME TypeInv, NEW m \in Terminals, TablesMove(m), NEW s \in Sessions
  PROVE /\ owner'[s] \in {owner[s], None}
           \/ (Create(m) /\ s \in Fresh /\ owner'[s] = op[m].user /\ op'[m].session = s)
        /\ op[m].pc # "create" => owner'[s] \in {owner[s], None}
<1>1. owner \in [Sessions -> Owners] BY DEF TypeInv, TypeOK
<1>2. CASE Create(m)
  <2>1. PICK t \in Fresh : /\ owner' = [owner EXCEPT ![t] = op[m].user]
                           /\ Request(m, op[m].user, "read", t, {})
    BY <1>2 DEF Create
  <2>2. op'[m].session = t BY <2>1 DEF Request, TypeInv, TypeOK, OpsTyped
  <2> QED BY <1>1, <1>2, <2>1, <2>2 DEF Create
<1>3. CASE owner' = owner \/ owner' = [owner EXCEPT ![op[m].session] = None]
  BY <1>1, <1>3
<1> QED BY <1>2, <1>3 DEF TablesMove, Create

LEMMA LiveMoves ==
  ASSUME TypeInv, NEW m \in Terminals, TablesMove(m), NEW u \in Users,
         u # op[m].user \/ op[m].pc # "create"
  PROVE Live(u)' \subseteq Live(u)
<1>1. None \notin Users BY SessionsAssumption
<1> QED BY <1>1, OwnerMoves DEF Live

LEMMA SessionInvNext ==
  ASSUME TypeInv, Solo, SessionInv, NEW m \in Terminals, RequestMoves(m), TablesMove(m)
  PROVE SessionInv'
<1>t. /\ owner \in [Sessions -> Owners] /\ None \notin Users
      /\ op[m].pc # "idle" => op[m].user \in Users
      /\ op[m].pc \in HasSession => op[m].session \in Sessions
  BY SessionsAssumption DEF TypeInv, TypeOK
<1>a. \A n \in Terminals \ {m} : op'[n] = op[n] BY DEF RequestMoves, Alone
<1>1. ASSUME NEW u \in Careful PROVE \A s, t \in Live(u)' : s = t
  <2>0. u \in Users \ Overlap BY DEF Careful
  <2>1. CASE u # op[m].user \/ op[m].pc # "create"
    BY <2>0, <2>1, LiveMoves DEF SessionInv, OneSession
  <2>2. CASE u = op[m].user /\ op[m].pc = "create"
    <3>1. Live(u) = {} BY <2>2, <1>1 DEF SessionInv, Cleared
    <3>2. \A s \in Live(u)' : s = op'[m].session
      BY <2>0, <3>1, OwnerMoves, <1>t DEF Live
    <3> QED BY <3>2
  <2> QED BY <2>1, <2>2
<1>2. ASSUME NEW n \in Terminals, NEW u \in Careful, op'[n].user = u, op'[n].pc \in Cleared
      PROVE Live(u)' = {}
  <2>0. u \in Users BY DEF Careful
  <2>1. CASE n # m
    <3>1. op'[n] = op[n] /\ u # op[m].user BY <2>1, <1>a, <1>2 DEF Solo
    <3>2. Live(u) = {} BY <3>1, <1>2 DEF SessionInv
    <3> QED BY <2>0, <3>1, <3>2, LiveMoves
  <2>2. CASE n = m
    <3>1. op[m].user = u BY <2>2, <1>2 DEF RequestMoves
    <3>2. CASE op[m].pc = "drop" /\ owner' = [owner EXCEPT ![op[m].session] = None]
      <4>1. Live(u) \subseteq {op[m].session} BY <3>1, <3>2 DEF SessionInv, Holding
      <4>2. owner'[op[m].session] = None BY <3>2, <1>t DEF HasSession
      <4>3. Live(u)' \subseteq Live(u) BY <2>0, <3>2, LiveMoves
      <4> QED BY <4>1, <4>2, <4>3, <2>0, <1>t DEF Live
    <3>3. CASE op[m].pc = "find" /\ Live(u) = {} /\ UNCHANGED owner
      BY <3>3 DEF Live
    <3>4. CASE op[m].pc \in Cleared
      <4>1. Live(u) = {} BY <3>1, <3>4 DEF SessionInv
      <4>2. ~Create(m)
        <5> SUFFICES ASSUME Create(m) PROVE FALSE
          OBVIOUS
        <5>1. PICK t \in Fresh : Request(m, op[m].user, "read", t, {}) BY DEF Create
        <5>2. op'[m].pc = "read" BY <5>1 DEF Request, TypeInv, TypeOK, OpsTyped
        <5> QED BY <5>2, <2>2, <1>2 DEF Cleared
      <4>3. \A s \in Sessions : owner'[s] \in {owner[s], None} BY <4>2, OwnerMoves
      <4> QED BY <4>1, <4>3, <2>0, <1>t DEF Live
    <3> QED BY <2>2, <1>2, <3>1, <3>2, <3>3, <3>4 DEF RequestMoves
  <2> QED BY <2>1, <2>2
<1>3. ASSUME NEW n \in Terminals, NEW u \in Careful, op'[n].user = u, op'[n].pc \in Holding
      PROVE Live(u)' \subseteq {op'[n].session}
  <2>0. u \in Users \ Overlap BY DEF Careful
  <2>1. CASE n # m
    <3>1. op'[n] = op[n] /\ u # op[m].user BY <2>1, <1>a, <1>3 DEF Solo
    <3>2. Live(u) \subseteq {op[n].session} BY <3>1, <1>3 DEF SessionInv
    <3> QED BY <2>0, <3>1, <3>2, LiveMoves
  <2>2. CASE n = m
    <3>1. CASE op'[m].pc = "drop"
      <4>1. op[m].user = u /\ op'[m].session \in Live(u) /\ owner' = owner
        BY <3>1, <2>2, <1>3 DEF RequestMoves
      <4>2. Live(u)' = Live(u) BY <4>1 DEF Live
      <4> QED BY <4>1, <4>2, <2>0, <2>2 DEF SessionInv, OneSession
    <3>2. CASE op'[m].pc = "read"
      <4>1. Create(m) BY <3>2 DEF RequestMoves
      <4>2. PICK t \in Fresh : /\ owner' = [owner EXCEPT ![t] = op[m].user]
                               /\ Request(m, op[m].user, "read", t, {})
        BY <4>1 DEF Create
      <4>3. op'[m].user = op[m].user /\ op'[m].session = t /\ op[m].pc = "create"
        BY <4>1, <4>2 DEF Request, TypeInv, TypeOK, OpsTyped, Create
      <4>4. Live(u) = {} BY <4>3, <2>2, <1>3 DEF SessionInv, Cleared
      <4> QED BY <4>2, <4>3, <4>4, <2>2, <2>0, <1>t DEF Live
    <3>3. CASE op'[m].pc = "bind"
      <4>1. ReadBound(m) BY <3>3 DEF RequestMoves
      <4>2. op'[m].user = op[m].user /\ op'[m].session = op[m].session /\ owner' = owner
            /\ op[m].pc = "read"
        BY <4>1 DEF ReadBound, Loads, TypeInv, TypeOK, OpsTyped
      <4>3. Live(u)' = Live(u) BY <4>2 DEF Live
      <4> QED BY <4>2, <4>3, <2>2, <1>3 DEF SessionInv, Holding
    <3> QED BY <2>2, <1>3, <3>1, <3>2, <3>3 DEF Holding
  <2> QED BY <2>1, <2>2
<1>4. OneSession' BY <1>1 DEF OneSession, Careful
<1> QED BY <1>2, <1>3, <1>4 DEF SessionInv

LEMMA MadeInvNext ==
  ASSUME TypeInv, MadeInv, NEW m \in Terminals, RequestMoves(m), TablesMove(m)
  PROVE MadeInv'
<1>t. /\ owner \in [Sessions -> Owners] /\ screen \in [Terminals -> Tokens]
      /\ None \notin Users /\ None \notin Sessions
      /\ \A n \in Terminals : Made(n) => op[n].session \in Sessions
  BY SessionsAssumption DEF TypeInv, TypeOK, Made, HasSession
<1>a. \A n \in Terminals \ {m} : op'[n] = op[n] BY DEF RequestMoves, Alone
<1>f. \A s \in Fresh, n \in Terminals : s \in Sessions /\ s # screen[n] /\ s # op[n].session
  BY DEF Fresh
\* The session of m after the step, if it has made one, is its own or a fresh one.
<1>1. Made(m)' => \/ /\ ReadBound(m) /\ Made(m) /\ UNCHANGED <<owner, screen>>
                     /\ op'[m].session = op[m].session /\ op'[m].user = op[m].user
                  \/ /\ op'[m].session \in Fresh /\ screen' = screen
                     /\ op'[m].user = op[m].user /\ owner'[op'[m].session] = op[m].user
  <2>1. CASE op'[m].pc = "bind"
    <3>1. ReadBound(m) BY <2>1 DEF RequestMoves
    <3> QED BY <3>1 DEF ReadBound, Loads, Made, TypeInv, TypeOK, OpsTyped
  <2>2. CASE op'[m].pc = "read"
    <3>1. Create(m) BY <2>2 DEF RequestMoves
    <3>2. PICK t \in Fresh : /\ owner' = [owner EXCEPT ![t] = op[m].user]
                             /\ Request(m, op[m].user, "read", t, {})
      BY <3>1 DEF Create
    <3>3. op'[m].user = op[m].user /\ op'[m].session = t
      BY <3>2 DEF Request, TypeInv, TypeOK, OpsTyped
    <3> QED BY <3>1, <3>2, <3>3, <1>t, <1>f DEF Create
  <2> QED BY <2>1, <2>2 DEF Made
<1>2. ASSUME NEW n \in Terminals, Made(n)', NEW k \in Terminals
      PROVE screen'[k] # op'[n].session
  <2>1. CASE n = m BY <2>1, <1>2, <1>1, <1>f DEF MadeInv
  <2>2. CASE n # m
    <3>1. op'[n] = op[n] /\ Made(n) BY <2>2, <1>2, <1>a DEF Made
    <3>2. screen[k] # op[n].session BY <3>1 DEF MadeInv
    <3>3. CASE Bind(m)
      <4>1. Made(m) /\ op[m].session # op[n].session
        BY <2>2, <3>1, <3>3 DEF Bind, Made, MadeInv
      <4> QED BY <3>1, <3>2, <3>3, <4>1, <1>t DEF Bind
    <3>4. CASE screen' = screen \/ screen' = [screen EXCEPT ![m] = None]
      BY <3>1, <3>2, <3>4, <1>t
    <3> QED BY <3>3, <3>4 DEF TablesMove
  <2> QED BY <2>1, <2>2
<1>3. ASSUME NEW n \in Terminals, Made(n)' PROVE owner'[op'[n].session] \in {None, op'[n].user}
  <2>1. CASE n = m BY <2>1, <1>3, <1>1 DEF MadeInv
  <2>2. CASE n # m
    <3>1. op'[n] = op[n] /\ Made(n) BY <2>2, <1>3, <1>a DEF Made
    <3> QED BY <3>1, <1>t, <1>f, OwnerMoves DEF MadeInv
  <2> QED BY <2>1, <2>2
<1>4. ASSUME NEW n \in Terminals, Made(n)', NEW k \in Terminals, Made(k)',
             op'[n].session = op'[k].session
      PROVE n = k
  <2>1. CASE n # m /\ k # m BY <2>1, <1>4, <1>a DEF Made, MadeInv
  <2>2. ASSUME NEW i \in Terminals \ {m}, Made(m)', Made(i)' PROVE op'[i].session # op'[m].session
    <3>1. op'[i] = op[i] /\ Made(i) BY <2>2, <1>a DEF Made
    <3> QED BY <3>1, <2>2, <1>1, <1>f DEF MadeInv
  <2> QED BY <2>1, <2>2, <1>4
<1> QED BY <1>2, <1>3, <1>4 DEF MadeInv

LEMMA ServedNext ==
  ASSUME Inv, NEW m \in Terminals, RequestMoves(m), TablesMove(m)
  PROVE ServedWhereBound'
<1>t. /\ owner \in [Sessions -> Owners] /\ screen \in [Terminals -> Tokens]
      /\ mac \in [Users -> Places] /\ None \notin Users /\ None \notin Sessions
  BY SessionsAssumption DEF Inv, TypeInv, TypeOK
<1> SUFFICES ASSUME NEW n \in Terminals, Shown(n)' \in Careful
             PROVE mac'[Shown(n)'] \in {None, n}
  BY DEF ServedWhereBound, Careful
<1> DEFINE v == Shown(n)'
<1>v. v \in Users /\ screen'[n] # None /\ owner'[screen'[n]] = v
  BY <1>t DEF Careful, Shown
<1>1. CASE n = m /\ Bind(m)
  <2>1. screen'[m] = op[m].session /\ owner' = owner /\ Made(m)
    BY <1>1, <1>t DEF Bind, Made
  <2>2. v = op[m].user BY <1>1, <1>v, <2>1, <1>t DEF Inv, MadeInv
  <2>3. mac'[v] = IF v \in op[m].rows THEN mac[v] ELSE m BY <1>1, <1>v, <2>2, <1>t DEF Bind
  <2> QED BY <2>2, <2>3, <1>1, <1>v DEF Inv, RowInv, Bind
<1>2. CASE ~(n = m /\ Bind(m))
  <2>1. screen'[n] = screen[n] /\ screen[n] \in Sessions
    BY <1>2, <1>t, <1>v DEF TablesMove, Bind, Tokens
  <2>2. owner[screen[n]] = v
    BY <2>1, <1>v, <1>t, OwnerMoves DEF Inv, Fresh
  <2>3. Shown(n) = v BY <2>1, <2>2, <1>t DEF Shown
  <2>4. mac[v] \in {None, n} BY <2>3 DEF Inv, ServedWhereBound, Careful
  <2>5. ~(Bind(m) /\ v = op[m].user)
    <3> SUFFICES ASSUME Bind(m), v = op[m].user PROVE FALSE
      OBVIOUS
    <3>1. screen[n] \in Live(v) BY <2>1, <2>2 DEF Live
    <3>2. screen[n] = op[m].session
      BY <3>1 DEF Inv, SessionInv, Holding, Bind
    <3> QED BY <3>2 DEF Inv, MadeInv, Made, Bind
  <2> QED BY <2>4, <2>5, <1>v, MacMoves DEF Inv
<1> QED BY <1>1, <1>2

-----------------------------------------------------------------------------
LEMMA InvInit == Init => Inv
<1> SUFFICES ASSUME Init PROVE Inv
  OBVIOUS
<1>1. TypeInv BY TypeInvInit
<1>2. \A m \in Terminals : op[m].pc = "idle" /\ op[m].user = None /\ None \notin Users
  BY SessionsAssumption DEF Init, NoOp
<1>3. \A u \in Users : Live(u) = {} BY <1>2, SessionsAssumption DEF Init, Live
<1>4. Solo /\ RowInv
  BY <1>2 DEF Init, Solo, RowInv, BoundOnce, BoundIsOnline, Careful
<1>5. SessionInv /\ MadeInv
  BY <1>2, <1>3 DEF SessionInv, OneSession, MadeInv, Made, Careful
<1>6. ServedWhereBound
  BY SessionsAssumption DEF Init, ServedWhereBound, Shown
<1> QED BY <1>1, <1>4, <1>5, <1>6 DEF Inv

LEMMA InvNext == Inv /\ [Next]_vars => Inv'
<1> SUFFICES ASSUME Inv, [Next]_vars PROVE Inv'
  OBVIOUS
<1>1. TypeInv' BY TypeInvNext DEF Inv
<1>2. CASE UNCHANGED vars
  BY <1>1, <1>2 DEF vars, Inv, Solo, RowInv, BoundOnce, BoundIsOnline, SessionInv,
     OneSession, Live, MadeInv, Made, ServedWhereBound, Shown
<1>3. ASSUME NEW m \in Terminals, Step(m) \/ Begin(m) PROVE Inv'
  <2>1. RequestMoves(m) /\ TablesMove(m) BY <1>3, StepMoves DEF Inv
  <2>2. Solo' BY <2>1, SoloNext DEF Inv
  <2>3. RowInv' BY <2>1, RowInvNext DEF Inv
  <2>4. SessionInv' BY <2>1, SessionInvNext DEF Inv
  <2>5. MadeInv' BY <2>1, MadeInvNext DEF Inv
  <2>6. ServedWhereBound' BY <2>1, ServedNext
  <2> QED BY <1>1, <2>2, <2>3, <2>4, <2>5, <2>6 DEF Inv
<1> QED BY <1>2, <1>3 DEF Next

(* The invariant that the theorems below follow from holds throughout, with all
   overlapping logins and failures.                                           *)
THEOREM Invariance == Spec => []Inv
BY InvInit, InvNext, PTL DEF Spec

(* No two users are bound to one terminal, whatever overlaps.                 *)
THEOREM UsersBoundOnce == Spec => []BoundOnce
<1>1. Inv => BoundOnce BY DEF Inv, RowInv
<1> QED BY <1>1, Invariance, PTL

(* A user whose requests come one at a time has one session.                  *)
THEOREM SessionsAreSingle == Spec => []OneSession
<1>1. Inv => OneSession BY DEF Inv, SessionInv
<1> QED BY <1>1, Invariance, PTL

(* ... and is bound to the terminal that shows it, or to none.                *)
THEOREM SessionsAreBound == Spec => []ServedWhereBound
<1>1. Inv => ServedWhereBound BY DEF Inv
<1> QED BY <1>1, Invariance, PTL

(* ... and is counted as online while he is bound.                            *)
THEOREM BoundUsersAreOnline == Spec => []BoundIsOnline
<1>1. Inv => BoundIsOnline BY DEF Inv, RowInv
<1> QED BY <1>1, Invariance, PTL
=============================================================================
