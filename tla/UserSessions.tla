---------------------------- MODULE UserSessions ----------------------------
(***************************************************************************)
(* Logins of the users of personal desktops: user_login, user_logout and   *)
(* user_password_change of TerminalController (yzy_server).  A user has a  *)
(* row that names the terminal he is bound to, and sessions in a table of  *)
(* their own; a login ends the sessions of before, binds the user and      *)
(* unbinds whoever was bound to the terminal, in a series of queries and   *)
(* flushes that no transaction holds together.                             *)
(*                                                                         *)
(* A terminal makes one call at a time.  One step is one query or flush.   *)
(* Names, passwords and the enabled column are left out (a refused request *)
(* changes nothing), as are expire_time, which nothing reads, and the      *)
(* notice that yzy_terminal sends to the terminal a user has left.         *)
(***************************************************************************)
CONSTANTS
  Users, Terminals,
  Sessions,  \* ids of sessions: the bound on those alive or in use at a time
  Overlap,   \* users whose requests may be at work at several terminals at once
  None

ASSUME SessionsAssumption ==
  /\ None \notin Terminals \cup Sessions \cup Users
  /\ Overlap \subseteq Users

VARIABLES
  mac,     \* the terminal a user is bound to (column mac; '' is None)
  online,  \* column online
  owner,   \* the user of a session; None: no such session, or marked as deleted
  screen,  \* the session a terminal was given, and shows
  op       \* the request of each terminal

vars == <<mac, online, owner, screen, op>>
row == <<mac, online>>

LoginPcs == {"find", "drop", "again", "others", "evict", "dropOther", "create",
             "read", "bind"}
LogoutPcs == {"load", "leave", "close"}
Pcs == {"idle", "change"} \cup LoginPcs \cup LogoutPcs
Places == Terminals \cup {None}
Owners == Users \cup {None}
Tokens == Sessions \cup {None}

(* user: whose request it is; session: the one found or made; rows: the users that
   a query for the terminal has returned; mac, on: the columns of the user's row
   as loaded.  A request forgets what it does not use again.                  *)
NoOp == [pc |-> "idle", user |-> None, session |-> None, rows |-> {},
         mac |-> None, on |-> FALSE]

OpsTyped ==
  op \in [Terminals -> [pc : Pcs, user : Owners, session : Tokens,
                        rows : SUBSET Users, mac : Places, on : BOOLEAN]]

TypeOK ==
  /\ mac \in [Users -> Places] /\ online \in [Users -> BOOLEAN]
  /\ owner \in [Sessions -> Owners]
  /\ screen \in [Terminals -> Tokens]
  /\ OpsTyped
  /\ \A m \in Terminals : op[m].pc # "idle" => op[m].user \in Users

Init ==
  /\ mac = [u \in Users |-> None] /\ online = [u \in Users |-> FALSE]
  /\ owner = [s \in Sessions |-> None]
  /\ screen = [m \in Terminals |-> None]
  /\ op = [m \in Terminals |-> NoOp]

Live(u) == {s \in Sessions : owner[s] = u}
BoundTo(m) == {u \in Users : mac[u] = m}
Shown(m) == IF screen[m] = None THEN None ELSE owner[screen[m]]
Busy(u) == \E m \in Terminals : op[m].user = u
MayBegin(m, u) == op[m].pc = "idle" /\ (u \in Overlap \/ ~Busy(u))

\* The request of u at terminal m goes on at pc, remembering session s and rows.
Request(m, u, pc, s, rows) ==
  op' = [op EXCEPT ![m] = [pc |-> pc, user |-> u, session |-> s, rows |-> rows,
                           mac |-> None, on |-> FALSE]]
Goes(m, pc) == Request(m, op[m].user, pc, None, {})
Ends(m) == op' = [op EXCEPT ![m] = NoOp]
\* ... with the columns of its user's row.
Loads(m, u, pc, s, rows) ==
  op' = [op EXCEPT ![m] = [pc |-> pc, user |-> u, session |-> s, rows |-> rows,
                           mac |-> mac[u], on |-> online[u]]]

-----------------------------------------------------------------------------
LoginBegin(m, u) ==
  /\ MayBegin(m, u)
  /\ Loads(m, u, "find", None, {})
  /\ UNCHANGED <<row, owner, screen>>

(* The users bound to the terminal lose their sessions when the one who logs in
   has no terminal, and keep them when he comes from another one.             *)
Branch(terminal) == IF terminal = None THEN "others" ELSE "create"

\* Mutant: the session of before is kept.
FindOwnIgnored(m) ==
  /\ op[m].pc = "find"
  /\ Goes(m, Branch(op[m].mac))
  /\ UNCHANGED <<row, owner, screen>>

FindOwn(m) ==
  /\ op[m].pc = "find"
  /\ \/ \E s \in Live(op[m].user) : Request(m, op[m].user, "drop", s, {})
     \/ Live(op[m].user) = {} /\ Goes(m, Branch(op[m].mac))
  /\ UNCHANGED <<row, owner, screen>>

\* soft_delete; its flush expires the row of the user, which is read again.
DropOwn(m) ==
  /\ op[m].pc = "drop"
  /\ owner' = [owner EXCEPT ![op[m].session] = None]
  /\ Goes(m, "again")
  /\ UNCHANGED <<row, screen>>

Again(m) ==
  /\ op[m].pc = "again"
  /\ Goes(m, Branch(mac[op[m].user]))
  /\ UNCHANGED <<row, owner, screen>>

FindOthers(m) ==
  /\ op[m].pc = "others"
  /\ Request(m, op[m].user, "evict", None, BoundTo(m))
  /\ UNCHANGED <<row, owner, screen>>

FindOther(m, v) ==
  /\ op[m].pc = "evict" /\ v \in op[m].rows
  /\ \/ Live(v) = {} /\ Request(m, op[m].user, "evict", None, op[m].rows \ {v})
     \/ \E s \in Live(v) : Request(m, op[m].user, "dropOther", s, op[m].rows \ {v})
  /\ UNCHANGED <<row, owner, screen>>

DropOther(m) ==
  /\ op[m].pc = "dropOther"
  /\ owner' = [owner EXCEPT ![op[m].session] = None]
  /\ Request(m, op[m].user, "evict", None, op[m].rows)
  /\ UNCHANGED <<row, screen>>

Evicted(m) ==
  /\ op[m].pc = "evict" /\ op[m].rows = {}
  /\ Goes(m, "create")
  /\ UNCHANGED <<row, owner, screen>>

(* An id is a hash of the time: none that is alive, or that somebody still has. *)
Fresh ==
  {s \in Sessions : owner[s] = None /\ \A m \in Terminals : s \notin {screen[m], op[m].session}}

Create(m) ==
  /\ op[m].pc = "create"
  /\ \E s \in Fresh :
       /\ owner' = [owner EXCEPT ![s] = op[m].user]
       /\ Request(m, op[m].user, "read", s, {})
  /\ UNCHANGED <<row, screen>>

\* Mutant: only the user who logs in is looked at.
ReadOwn(m) ==
  /\ op[m].pc = "read"
  /\ Loads(m, op[m].user, "bind", op[m].session, BoundTo(m) \cap {op[m].user})
  /\ UNCHANGED <<row, owner, screen>>

(* The rows of the users bound to the terminal, that of the user himself if he is
   among them.                                                                *)
ReadBound(m) ==
  /\ op[m].pc = "read"
  /\ Loads(m, op[m].user, "bind", op[m].session, BoundTo(m))
  /\ UNCHANGED <<row, owner, screen>>

\* Mutant: a user who comes from another terminal stays bound to it.
BindKeeps(m) ==
  /\ op[m].pc = "bind"
  /\ LET u == op[m].user IN
     /\ mac' = [v \in Users |->
                  IF v = u THEN IF mac[u] = None THEN m ELSE mac[u]
                  ELSE IF v \in op[m].rows THEN None ELSE mac[v]]
     /\ online' = [online EXCEPT ![u] = TRUE]
  /\ screen' = [screen EXCEPT ![m] = op[m].session]
  /\ Ends(m)
  /\ UNCHANGED owner

(* One flush, of the columns that differ from what was loaded: the row of the user
   was loaded only if he was bound to this terminal, and then mac is no change.
   With the answer the terminal has its session.                              *)
Bind(m) ==
  /\ op[m].pc = "bind"
  /\ LET u == op[m].user
         held == u \in op[m].rows IN
     /\ mac' = [v \in Users |->
                  IF v = u THEN IF held THEN mac[u] ELSE m
                  ELSE IF v \in op[m].rows THEN None ELSE mac[v]]
     /\ online' = [online EXCEPT ![u] = IF held /\ op[m].on THEN @ ELSE TRUE]
  /\ screen' = [screen EXCEPT ![m] = op[m].session]
  /\ Ends(m)
  /\ UNCHANGED owner

-----------------------------------------------------------------------------
\* Mutant: a session that is not found is taken for one.
LogoutUnchecked(m) ==
  /\ op[m].pc = "idle" /\ screen[m] # None
  /\ Request(m, Shown(m), "load", screen[m], {})
  /\ UNCHANGED <<row, owner, screen>>

(* user_logout.  A session that is no longer there is answered Success.       *)
LogoutBegin(m) ==
  /\ Shown(m) \in Users
  /\ MayBegin(m, Shown(m))
  /\ Request(m, Shown(m), "load", screen[m], {})
  /\ UNCHANGED <<row, owner, screen>>

LogoutLoad(m) ==
  /\ op[m].pc = "load"
  /\ Loads(m, op[m].user, "leave", op[m].session, {})
  /\ UNCHANGED <<row, owner, screen>>

\* The flush of online = 0 and mac = '': what was loaded so is not written.
Unbinds(m) ==
  LET u == op[m].user IN
  /\ mac' = [mac EXCEPT ![u] = IF op[m].mac # None THEN None ELSE @]
  /\ online' = [online EXCEPT ![u] = IF op[m].on THEN FALSE ELSE @]

Leave(m) ==
  /\ op[m].pc = "leave"
  /\ Unbinds(m)
  /\ Request(m, op[m].user, "close", op[m].session, {})
  /\ UNCHANGED <<owner, screen>>

Close(m) ==
  /\ op[m].pc = "close"
  /\ owner' = [owner EXCEPT ![op[m].session] = None]
  /\ screen' = [screen EXCEPT ![m] = None]
  /\ Ends(m)
  /\ UNCHANGED row

\* user_password_change: the user is unbound, his sessions stay.
ChangeBegin(m, u) ==
  /\ MayBegin(m, u)
  /\ Loads(m, u, "change", None, {})
  /\ UNCHANGED <<row, owner, screen>>

\* Mutant: the user is marked as away and stays bound.
ChangeHalf(m) ==
  /\ op[m].pc = "change"
  /\ online' = [online EXCEPT ![op[m].user] = IF op[m].on THEN FALSE ELSE @]
  /\ Ends(m)
  /\ UNCHANGED <<mac, owner, screen>>

Change(m) ==
  /\ op[m].pc = "change"
  /\ Unbinds(m)
  /\ Ends(m)
  /\ UNCHANGED <<owner, screen>>

(* The worker dies, or the database fails and the answer is an error.         *)
Die(m) ==
  /\ op[m].pc # "idle"
  /\ Ends(m)
  /\ UNCHANGED <<row, owner, screen>>

\* A terminal goes back to its first page, by itself or by a user_logout notice.
Clear(m) ==
  /\ op[m].pc = "idle" /\ screen[m] # None
  /\ screen' = [screen EXCEPT ![m] = None]
  /\ UNCHANGED <<row, owner, op>>

-----------------------------------------------------------------------------
Step(m) ==
  \/ FindOwn(m) \/ DropOwn(m) \/ Again(m)
  \/ FindOthers(m) \/ (\E v \in Users : FindOther(m, v)) \/ DropOther(m) \/ Evicted(m)
  \/ Create(m) \/ ReadBound(m) \/ Bind(m)
  \/ LogoutLoad(m) \/ Leave(m) \/ Close(m) \/ Change(m)
  \/ Die(m)

Begin(m) ==
  \/ \E u \in Users : LoginBegin(m, u) \/ ChangeBegin(m, u)
  \/ LogoutBegin(m) \/ Clear(m)

Next == \E m \in Terminals : Step(m) \/ Begin(m)

Spec == Init /\ [][Next]_vars

-----------------------------------------------------------------------------
(* "single mac login": no two users are bound to one terminal, in whichever order
   logins at several terminals read and write the rows, and even when one user
   logs in at two terminals at once.                                          *)
BoundOnce ==
  \A u, v \in Users : mac[u] # None /\ mac[u] = mac[v] => u = v

(* A login ends the session of before.  A user whose requests do not overlap has
   never two, although each request touches the sessions in steps of its own, may
   die between them, and logins of others delete sessions too.                *)
OneSession ==
  \A u \in Users \ Overlap : \A s, t \in Live(u) : s = t

(* The binding and the session agree: a terminal whose session is alive is the one
   its user is bound to, or he is bound to none.  That is where the notice of his
   next login goes.                                                           *)
ServedWhereBound ==
  \A m \in Terminals :
    Shown(m) \in Users \ Overlap => mac[Shown(m)] \in {None, m}

(* A user who is bound to a terminal is counted as online, although the flush of a
   logout writes only the columns that differ from what it had loaded.        *)
BoundIsOnline ==
  \A u \in Users \ Overlap : mac[u] # None => online[u]
=============================================================================
