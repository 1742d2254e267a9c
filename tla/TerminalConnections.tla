------------------------ MODULE TerminalConnections ------------------------
(***************************************************************************)
(* Which terminals are connected (yzy_terminal).                           *)
(*                                                                         *)
(* A terminal holds a connection of ConnectService open.  The thread that  *)
(* serves it reports its beginning and its end in conn_mq, one thread      *)
(* (thrift_connect_handler) takes these reports one after the other and    *)
(* gives the connection a token; the terminal answers with TokenId, logs   *)
(* in with ClientLogin over another connection, and pings.  Every 30       *)
(* seconds do_status_check drops the terminals that have not pinged since  *)
(* the last round and corrects the status column of yzy_terminal.          *)
(*                                                                         *)
(* The tables token_client, mac_token and token_status are dictionaries    *)
(* shared by all these threads without a lock.  A step of this module runs *)
(* from one database call, queue operation or log message to the next.     *)
(*                                                                         *)
(* A token is the digest of the address of the connection's object.  Here  *)
(* an address is used again only when no table names it any more.          *)
(***************************************************************************)
EXTENDS Naturals, Sequences, Functions

CONSTANTS
  Macs,     \* terminals, by MAC address; each has a row in yzy_terminal
  Tokens,   \* tokens of connections, a bound on those in use at a time
  None

ASSUME NoneAssumption == None \notin Macs \cup Tokens \cup BOOLEAN

VARIABLES
  term,          \* the terminals: what each is doing, and its connection's token
  conn,          \* conn[t]: the connection with token t, and the terminal that opened it
  events,        \* conn_mq
  tmp,           \* token_client_tmp
  token_client,  \* tokens whose connection commands are sent on
  mac_token,     \* the token each terminal has logged in with
  keys,          \* the keys of mac_token, in the order in which they were inserted
  token_status,  \* whether a ping has come since the last round
  row,           \* the status column: the terminals that are shown online
  login,         \* a ClientLogin call of each terminal
  closer,        \* the thread that takes the reports
  check          \* the round of do_status_check

tables == <<tmp, token_client, mac_token, keys, token_status>>
vars == <<term, conn, events, tables, row, login, closer, check>>

NoConn == [state |-> "none", mac |-> None]
Off == [pc |-> "off", token |-> None]
IdleCloser == [pc |-> "idle", token |-> None, mac |-> None]
IdleCheck == [pc |-> "idle", macs |-> <<>>, clients |-> {}, lost |-> {}]

TypeOK ==
  /\ term \in [Macs -> [pc : {"off", "wait", "named", "known", "login", "up"},
                        token : Tokens \cup {None}]]
  /\ conn \in [Tokens -> [state : {"none", "open", "dead", "closed"}, mac : Macs \cup {None}]]
  /\ events \in Seq({"in", "out"} \X Tokens)
  /\ tmp \subseteq Tokens
  /\ token_client \subseteq Tokens
  /\ mac_token \in [Macs -> Tokens \cup {None}]
  /\ keys \in Seq(Macs) /\ {m \in Macs : mac_token[m] # None} = Range(keys)
  /\ token_status \in [Tokens -> BOOLEAN \cup {None}]
  /\ row \subseteq Macs
  /\ login \in [Macs -> [pc : {"idle", "sent", "row"}, token : Tokens \cup {None}]]
  /\ closer \in {IdleCloser} \cup [pc : {"pop", "row"}, token : Tokens, mac : Macs]
  /\ check \in [pc : {"idle", "rows", "lost", "each", "row"}, macs : Seq(Macs),
                clients : SUBSET Tokens, lost : SUBSET Macs]

Init ==
  /\ term = [m \in Macs |-> Off]
  /\ conn = [t \in Tokens |-> NoConn]
  /\ events = <<>>
  /\ tmp = {} /\ token_client = {}
  /\ mac_token = [m \in Macs |-> None] /\ keys = <<>>
  /\ token_status = [t \in Tokens |-> None]
  /\ row = {}
  /\ login = [m \in Macs |-> [pc |-> "idle", token |-> None]]
  /\ closer = IdleCloser
  /\ check = IdleCheck

-----------------------------------------------------------------------------
\* A dictionary keeps the order of its keys; one that is removed comes back last.
Enter(m, t) ==
  /\ mac_token' = [mac_token EXCEPT ![m] = t]
  /\ keys' = IF mac_token[m] = None THEN Append(keys, m) ELSE keys
Remove(m) ==
  /\ mac_token' = [mac_token EXCEPT ![m] = None]
  /\ \E i \in DOMAIN keys :
       keys[i] = m /\ keys' = SubSeq(keys, 1, i - 1) \o SubSeq(keys, i + 1, Len(keys))

\* No object and no table has the token.
Fresh(t) ==
  /\ conn[t] = NoConn
  /\ \A m \in Macs : t \notin {mac_token[m], login[m].token, term[m].token}
  /\ token_status[t] = None /\ closer.token # t /\ t \notin check.clients

\* The terminal connects; the thread that serves it reports the connection.
Connect(m) ==
  /\ term[m].pc = "off"
  /\ \E t \in Tokens :
       /\ Fresh(t)
       /\ conn' = [conn EXCEPT ![t] = [state |-> "open", mac |-> m]]
       /\ events' = Append(events, <<"in", t>>)
       /\ term' = [term EXCEPT ![m] = [pc |-> "wait", token |-> t]]
  /\ UNCHANGED <<tables, row, login, closer, check>>

\* client_connected: the connection is kept and its token sent to the terminal.
ClientConnected ==
  /\ closer.pc = "idle" /\ events # <<>> /\ Head(events)[1] = "in"
  /\ LET t == Head(events)[2] IN
     /\ tmp' = tmp \cup {t}
     /\ term' = [m \in Macs |-> IF term[m] = [pc |-> "wait", token |-> t]
                                THEN [term[m] EXCEPT !.pc = "named"] ELSE term[m]]
  /\ events' = Tail(events)
  /\ UNCHANGED <<conn, token_client, mac_token, keys, token_status, row, login, closer, check>>

\* TokenId: from now on commands can be sent.
TokenId(m) ==
  LET t == term[m].token IN
  /\ term[m].pc = "named"
  /\ token_client' = token_client \cup ({t} \cap tmp)
  /\ term' = [term EXCEPT ![m].pc = "known"]
  /\ UNCHANGED <<conn, events, tmp, mac_token, keys, token_status, row, login, closer, check>>

\* The terminal sends ClientLogin with its token, over a connection of its own.
SendLogin(m) ==
  /\ term[m].pc = "known"
  /\ login[m].pc = "idle"
  /\ login' = [login EXCEPT ![m] = [pc |-> "sent", token |-> term[m].token]]
  /\ term' = [term EXCEPT ![m].pc = "login"]
  /\ UNCHANGED <<conn, events, tables, row, closer, check>>

\* Mutant: a login does not count as a ping.
ClientLoginUnpinged(m) ==
  LET t == login[m].token IN
  /\ login[m].pc = "sent"
  /\ Enter(m, t)
  /\ token_status' = [token_status EXCEPT ![t] = FALSE]
  /\ login' = [login EXCEPT ![m].pc = "row"]
  /\ UNCHANGED <<term, conn, events, tmp, token_client, row, closer, check>>

\* ClientLogin: the terminal is entered in the tables ...
ClientLogin(m) ==
  LET t == login[m].token IN
  /\ login[m].pc = "sent"
  /\ Enter(m, t)
  /\ token_status' = [token_status EXCEPT ![t] = TRUE]
  /\ login' = [login EXCEPT ![m].pc = "row"]
  /\ UNCHANGED <<term, conn, events, tmp, token_client, row, closer, check>>

\* ... then its row is set online, and it is told so if it is still there.
LoginRow(m) ==
  /\ login[m].pc = "row"
  /\ row' = row \cup {m}
  /\ term' = [term EXCEPT ![m].pc = IF term[m] = [pc |-> "login", token |-> login[m].token]
                                    THEN "up" ELSE @]
  /\ login' = [login EXCEPT ![m] = [pc |-> "idle", token |-> None]]
  /\ UNCHANGED <<conn, events, tables, closer, check>>

Pinging(m) == term[m].pc \in {"known", "login", "up"}

\* Ping, of a connection whose token is known
Ping(m) ==
  LET t == term[m].token IN
  /\ Pinging(m)
  /\ t \in token_client
  /\ token_status' = [token_status EXCEPT ![t] = TRUE]
  /\ UNCHANGED <<term, conn, events, tmp, token_client, mac_token, keys, row, login, closer, check>>

-----------------------------------------------------------------------------
\* The end of the connection is seen and reported.
Disconnect(m) ==
  LET t == term[m].token IN
  /\ term[m].pc # "off"
  /\ conn' = [conn EXCEPT ![t].state = "closed"]
  /\ events' = Append(events, <<"out", t>>)
  /\ term' = [term EXCEPT ![m] = Off]
  /\ UNCHANGED <<tables, row, login, closer, check>>

\* The terminal loses its power or its network: nothing is seen of it ...
Vanish(m) ==
  /\ term[m].pc # "off"
  /\ conn' = [conn EXCEPT ![term[m].token].state = "dead"]
  /\ term' = [term EXCEPT ![m] = Off]
  /\ UNCHANGED <<events, tables, row, login, closer, check>>

\* ... unless something is sent to it.
DeadSeen(t) ==
  /\ conn[t].state = "dead"
  /\ conn' = [conn EXCEPT ![t].state = "closed"]
  /\ events' = Append(events, <<"out", t>>)
  /\ UNCHANGED <<term, tables, row, login, closer, check>>

\* Mutant: it is not asked whether a terminal has logged in with the token.
ClientClosedUnasked ==
  /\ closer.pc = "idle" /\ events # <<>> /\ Head(events)[1] = "out"
  /\ LET t == Head(events)[2]
         macs == {m \in Macs : mac_token[m] = t}
     IN /\ tmp' = tmp \ {t}
        /\ token_client' = token_client \ {t}
        /\ conn' = [conn EXCEPT ![t] = NoConn]
        /\ IF t \in token_client
           THEN closer' = [pc |-> "pop", token |-> t,
                           mac |-> IF macs = {} THEN None ELSE CHOOSE m \in macs : TRUE]
           ELSE UNCHANGED closer
  /\ events' = Tail(events)
  /\ UNCHANGED <<term, mac_token, keys, token_status, row, login, check>>

\* client_closed: the token is withdrawn and its terminal looked up ...
ClientClosed ==
  /\ closer.pc = "idle" /\ events # <<>> /\ Head(events)[1] = "out"
  /\ LET t == Head(events)[2]
         macs == {m \in Macs : mac_token[m] = t}
     IN /\ tmp' = tmp \ {t}
        /\ token_client' = token_client \ {t}
        /\ conn' = [conn EXCEPT ![t] = NoConn]
        /\ \/ /\ t \in token_client /\ macs # {}
              /\ \E m \in macs : closer' = [pc |-> "pop", token |-> t, mac |-> m]
           \/ /\ t \notin token_client \/ macs = {}
              /\ UNCHANGED closer
  /\ events' = Tail(events)
  /\ UNCHANGED <<term, mac_token, keys, token_status, row, login, check>>

\* ... what mac_token has of that terminal by now is removed (nothing is an
\* exception that ends the handling of the report) ...
ClosedPop ==
  LET m == closer.mac IN
  /\ closer.pc = "pop"
  /\ \/ /\ mac_token[m] # None
        /\ Remove(m)
        /\ token_status' = [token_status EXCEPT ![closer.token] = None]
        /\ closer' = [closer EXCEPT !.pc = "row"]
     \/ /\ mac_token[m] = None
        /\ closer' = IdleCloser
        /\ UNCHANGED <<mac_token, keys, token_status>>
  /\ UNCHANGED <<term, conn, events, tmp, token_client, row, login, check>>

\* ... and its row set offline.
ClosedRow ==
  /\ closer.pc = "row"
  /\ row' = row \ {closer.mac}
  /\ closer' = IdleCloser
  /\ UNCHANGED <<term, conn, events, tables, login, check>>

-----------------------------------------------------------------------------
\* A terminal pings every 10 seconds, a round begins 30 seconds after the last one.
PingsServed == \A m \in Macs : Pinging(m) => token_status[term[m].token] # FALSE

\* do_status_check: the keys of the tables are listed, ...
CheckBegin ==
  /\ check.pc = "idle"
  /\ PingsServed
  /\ check' = [IdleCheck EXCEPT !.pc = "rows", !.macs = keys,
                                !.clients = token_client]
  /\ UNCHANGED <<term, conn, events, tables, row, login, closer>>

\* ... the rows that are online are read, ...
CheckRows ==
  /\ check.pc = "rows"
  /\ check' = [check EXCEPT !.pc = "lost", !.lost = row \ Range(check.macs)]
  /\ UNCHANGED <<term, conn, events, tables, row, login, closer>>

\* Mutant: rows of terminals without a token are left alone.
CheckLostSkipped ==
  /\ check.pc = "lost"
  /\ check' = [check EXCEPT !.pc = "each", !.lost = {}]
  /\ UNCHANGED <<term, conn, events, tables, row, login, closer>>

\* ... those of terminals without a token are set offline, ...
CheckLost ==
  /\ check.pc = "lost"
  /\ row' = row \ check.lost
  /\ check' = [check EXCEPT !.pc = "each", !.lost = {}]
  /\ UNCHANGED <<term, conn, events, tables, login, closer>>

Drop(m, t) ==
  /\ Remove(m)
  /\ token_status' = [token_status EXCEPT ![t] = None]

\* Mutant: a terminal without a ping is left in the tables.
CheckOneKept ==
  LET t == mac_token[Head(check.macs)] IN
  /\ check.pc = "each" /\ check.macs # <<>>
  /\ token_status' = IF t # None /\ token_status[t] = TRUE
                     THEN [token_status EXCEPT ![t] = FALSE] ELSE token_status
  /\ check' = IF t = None THEN IdleCheck ELSE [check EXCEPT !.macs = Tail(@)]
  /\ UNCHANGED <<term, conn, events, tmp, mac_token, keys, token_client, row, login, closer>>

(* ... and of the others, one after the other, those that have not pinged are
   dropped and their connections closed.  A key that is gone meanwhile is an
   exception that ends the round.                                            *)
CheckOne ==
  LET m == Head(check.macs)
      t == mac_token[m]
      rest == [check EXCEPT !.macs = Tail(@)]
  IN
  /\ check.pc = "each" /\ check.macs # <<>>
  /\ \/ /\ t = None
        /\ check' = IdleCheck
        /\ UNCHANGED <<term, conn, events, token_client, mac_token, keys, token_status>>
     \/ /\ t # None /\ token_status[t] \in {None, TRUE}
        /\ token_status' = [token_status EXCEPT ![t] = IF @ = TRUE THEN FALSE ELSE @]
        /\ check' = rest
        /\ UNCHANGED <<term, conn, events, token_client, mac_token, keys>>
     \/ /\ t # None /\ token_status[t] = FALSE
        /\ t \notin check.clients
        /\ Drop(m, t)
        /\ check' = [rest EXCEPT !.pc = "row", !.lost = {m}]
        /\ UNCHANGED <<term, conn, events, token_client>>
     \/ /\ t # None /\ token_status[t] = FALSE
        /\ t \in check.clients \ token_client
        /\ Drop(m, t)
        /\ check' = IdleCheck
        /\ UNCHANGED <<term, conn, events, token_client>>
     \/ /\ t # None /\ token_status[t] = FALSE
        /\ t \in check.clients \cap token_client
        /\ Drop(m, t)
        /\ token_client' = token_client \ {t}
        /\ conn' = [conn EXCEPT ![t].state = "closed"]
        /\ events' = IF conn[t].state = "closed" THEN events ELSE Append(events, <<"out", t>>)
        /\ term' = [k \in Macs |-> IF term[k].token = t THEN Off ELSE term[k]]
        /\ check' = [rest EXCEPT !.pc = "row", !.lost = {m}]
  /\ UNCHANGED <<tmp, row, login, closer>>

\* The row of a terminal that was dropped
CheckRow ==
  /\ check.pc = "row"
  /\ row' = row \ check.lost
  /\ check' = [check EXCEPT !.pc = "each", !.lost = {}]
  /\ UNCHANGED <<term, conn, events, tables, login, closer>>

CheckEnd ==
  /\ check.pc = "each" /\ check.macs = <<>>
  /\ check' = IdleCheck
  /\ UNCHANGED <<term, conn, events, tables, row, login, closer>>

\* The process restarts: nothing is left of its memory, all rows are set offline.
Restart ==
  /\ row # {} \/ \E t \in Tokens : conn[t] # NoConn
  /\ term' = [m \in Macs |-> Off]
  /\ conn' = [t \in Tokens |-> NoConn]
  /\ events' = <<>>
  /\ tmp' = {} /\ token_client' = {}
  /\ mac_token' = [m \in Macs |-> None] /\ keys' = <<>>
  /\ token_status' = [t \in Tokens |-> None]
  /\ row' = {}
  /\ login' = [m \in Macs |-> [pc |-> "idle", token |-> None]]
  /\ closer' = IdleCloser
  /\ check' = IdleCheck

-----------------------------------------------------------------------------
QueueStep == ClientConnected \/ ClientClosed \/ ClosedPop \/ ClosedRow
LoginStep(m) == ClientLogin(m) \/ LoginRow(m)
CheckStep ==
  CheckBegin \/ CheckRows \/ CheckLost \/ CheckOne \/ CheckRow \/ CheckEnd
Environment ==
  \/ \E m \in Macs : Connect(m) \/ TokenId(m) \/ SendLogin(m) \/ Disconnect(m) \/ Vanish(m)
  \/ \E t \in Tokens : DeadSeen(t)

Next ==
  \/ QueueStep \/ CheckStep \/ Environment \/ Restart
  \/ \E m \in Macs : LoginStep(m) \/ Ping(m)

(* The threads of the server run, and a terminal that is connected goes on
   pinging.                                                                  *)
Spec ==
  /\ Init /\ [][Next]_vars
  /\ WF_vars(QueueStep) /\ WF_vars(CheckStep)
  /\ \A m \in Macs : WF_vars(LoginStep(m)) /\ WF_vars(Ping(m))

-----------------------------------------------------------------------------
(* do_status_check: a round never closes the connection of a terminal that
   pings in time, whatever it does to its tokens meanwhile.                  *)
HeartbeatKeeps ==
  [][check # check' /\ check'.pc # "idle"
       => \A m \in Macs : term[m].pc # "off" => term'[m].pc # "off"]_vars

(* A terminal that is gone for good is shown offline in the end, although the
   tables and the row are written by three threads and a late ClientLogin sets
   it online again.                                                          *)
GoneIsOffline == \A m \in Macs : <>[](term[m].pc = "off") => <>[](m \notin row)

(* ... and its token is removed, so that no command is sent to it for ever.   *)
GoneIsForgotten == \A m \in Macs : <>[](term[m].pc = "off") => <>[](mac_token[m] = None)

(* The status column, "0-offline 1-online": a terminal that has logged in and
   stays connected is shown online in the end.                               *)
ConnectedIsOnline == \A m \in Macs : <>[](term[m].pc = "up") => <>[](m \in row)
=============================================================================
