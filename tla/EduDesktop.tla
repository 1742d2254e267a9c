----------------------------- MODULE EduDesktop -----------------------------
(***************************************************************************)
(* Opening, starting and stopping education desktops.                      *)
(*                                                                         *)
(* A terminal opens the desktop of its number with                         *)
(* TerminalController.education_instance, an administrator starts one with *)
(* start_instances, and both go through BaseController.create_instance,    *)
(* which closes (for a terminal) or refuses on account of (for the         *)
(* administrator) the desktops of the other desktop groups at the same     *)
(* seat, that is with the same terminal group and terminal number.         *)
(* stop_instance stops a desktop, and the monitor process copies the state *)
(* of the domains into the database every 8 seconds.                       *)
(*                                                                         *)
(* Requests are greenlets of several gunicorn workers and the monitor is a *)
(* thread of another process; nothing locks a row.  A step of this module  *)
(* ends where the code waits: a query, a flush, a call to a node.  The     *)
(* session is in autocommit mode: a row is read when a query loads it and  *)
(* again after the next flush of the same session, and an UPDATE writes    *)
(* only the columns that differ from what was read.                        *)
(*                                                                         *)
(* Left out: licence type, names, subnets, the columns that only the       *)
(* display uses (spice_link, link_time, ...).  Admission to a node         *)
(* (check_concurrency) is ParallelQueue; here it says yes or no.           *)
(***************************************************************************)
EXTENDS Naturals, FiniteSets

CONSTANTS
  Requests,   \* request slots of the server
  Insts,      \* education desktops (yzy_instances)
  Nodes,      \* compute nodes
  Macs,       \* terminals, by MAC address
  Ports,      \* spice ports of a node, a set of numbers
  HostOf,     \* HostOf[i]: node of instance.host_uuid
  Seat,       \* Seat[i]: its terminal group and terminal number
  VdiSize,    \* licensed number of connections
  Failures,   \* whether calls to nodes may fail or time out
  None

ASSUME ConstantAssumption ==
  /\ Ports \subseteq Nat /\ Ports # {}
  /\ HostOf \in [Insts -> Nodes]
  /\ VdiSize \in Nat
  /\ Failures \in BOOLEAN
  /\ None \notin Insts \cup Nodes \cup Macs \cup Ports
  /\ Requests \cap Macs = {} /\ "stop" \notin Requests \cup Macs   \* counted as handlers

VARIABLES
  row,   \* the rows of yzy_instances: status, spice_port, terminal_mac
  vm,    \* vm[n][i]: the domain of i at node n
  told,  \* the desktop and port each terminal was told to connect to
  req,   \* the requests
  stop,  \* a stop_instance in progress
  mon    \* the monitor's round

vars == <<row, vm, told, req, stop, mon>>

Statuses == {"active", "inactive", "error"}
Rows == [status : Statuses, port : Ports \cup {None}, mac : Macs \cup {None}]
NoDomain == [state |-> "absent", port |-> None, viewer |-> None]
OffDomain == [state |-> "off", port |-> None, viewer |-> None]
Domains == {NoDomain, OffDomain}
             \cup [state : {"running"}, port : Ports, viewer : Macs \cup {None}]
IdleRequest == [pc |-> "idle", inst |-> None, mac |-> None, seen |-> None,
                node |-> None, todo |-> {}, sib |-> None, sibSeen |-> None, port |-> None]
IdleStop == [pc |-> "idle", inst |-> None, seen |-> None]
IdleMon == [pc |-> "idle", snap |-> [i \in Insts |-> None], poll |-> {}, inst |-> None]

TypeOK ==
  /\ row \in [Insts -> Rows]
  /\ vm \in [Nodes -> [Insts -> Domains]]
  /\ told \in [Macs -> [inst : Insts, port : Ports] \cup {None}]
  /\ req \in [Requests ->
       [pc : {"idle", "link", "siblings", "stop", "clear", "create",
              "record", "error", "answer"},
        inst : Insts \cup {None}, mac : Macs \cup {None}, seen : Rows \cup {None},
        node : Nodes \cup {None}, todo : SUBSET Insts, sib : Insts \cup {None},
        sibSeen : Rows \cup {None}, port : Ports \cup {None}]]
  /\ stop \in [pc : {"idle", "call", "record"}, inst : Insts \cup {None},
               seen : Rows \cup {None}]
  /\ mon \in [pc : {"idle", "poll", "apply", "notify"},
              snap : [Insts -> Rows \cup {None}], poll : SUBSET (Insts \X {"on", "off", "down"}),
              inst : Insts \cup {None}]

-----------------------------------------------------------------------------
\* The desktops of the other desktop groups at the same seat.
Siblings(i) == {s \in Insts \ {i} : Seat[s] = Seat[i]}

Running(n, i) == vm[n][i].state = "running"
Linked(n, p) == \E i \in Insts : Running(n, i) /\ vm[n][i].port = p /\ vm[n][i].viewer # None

\* get_links_num: the connected ports among those the rows name
LinksNum ==
  Cardinality({link \in Nodes \X Ports :
                 /\ Linked(link[1], link[2])
                 /\ \E i \in Insts : HostOf[i] = link[1] /\ row[i].port = link[2]})

\* libvirt gives a new domain the lowest free port.
FreePorts(n) == Ports \ {vm[n][i].port : i \in Insts}
LeastFree(n) == CHOOSE p \in FreePorts(n) : \A q \in FreePorts(n) : p <= q

\* Mutant: the port above the highest one in use.
FreePortAbove(n) ==
  LET used == {vm[n][i].port : i \in Insts} \ {None} IN
  IF used = {} THEN LeastFree(n) ELSE (CHOOSE p \in used : \A q \in used : q <= p) + 1

FreePort(n) == LeastFree(n)

\* A flush: the columns that differ from what the session read are written.
Flushed(i, read, new) ==
  [c \in {"status", "port", "mac"} |-> IF new[c] # read[c] THEN new[c] ELSE row[i][c]]

\* What the session of request r holds of its desktop: read again after a flush.
Held(r) == IF req[r].seen = None THEN row[req[r].inst] ELSE req[r].seen

\* Power off: a domain that runs is off afterwards.
PoweredOff(n, i) ==
  [vm EXCEPT ![n][i] = IF @.state = "running" THEN OffDomain ELSE @]

-----------------------------------------------------------------------------
Init ==
  /\ row = [i \in Insts |-> [status |-> "inactive", port |-> None, mac |-> None]]
  /\ vm = [n \in Nodes |-> [i \in Insts |-> IF HostOf[i] = n THEN OffDomain ELSE NoDomain]]
  /\ told = [m \in Macs |-> None]
  /\ req = [r \in Requests |-> IdleRequest]
  /\ stop = IdleStop
  /\ mon = IdleMon

\* education_instance: the licence allows one more, the desktop is found and, some
\* time after its row was read, check_concurrency admits the request.
Open(r, i, m) ==
  /\ req[r].pc = "idle"
  /\ LinksNum < VdiSize \/ Failures      \* a node without an answer has no connections
  /\ req' = [req EXCEPT ![r] = [IdleRequest EXCEPT
               !.pc = "link", !.inst = i, !.mac = m, !.seen = row[i], !.node = HostOf[i],
               !.todo = Siblings(i)]]
  /\ UNCHANGED <<row, vm, told, stop, mon>>

\* start_instances: one create_instance of the batch, in a thread of its own
AdminStart(r, i) ==
  /\ req[r].pc = "idle"
  /\ req' = [req EXCEPT ![r] = [IdleRequest EXCEPT
               !.pc = "siblings", !.inst = i, !.seen = row[i], !.node = HostOf[i],
               !.todo = Siblings(i)]]
  /\ UNCHANGED <<row, vm, told, stop, mon>>

\* The request is answered with an error; nothing else changes.
Refuse(r) ==
  /\ req' = [req EXCEPT ![r] = IdleRequest]
  /\ UNCHANGED <<row, vm, told, stop, mon>>

Goto(r, label) ==
  /\ req' = [req EXCEPT ![r].pc = label]
  /\ UNCHANGED <<row, vm, told, stop, mon>>

\* Mutant: the MAC addresses are not compared.
CheckLinkAnyMac(r) ==
  /\ req[r].pc = "link"
  /\ Goto(r, "siblings")

\* The port read with the row is asked for; no answer counts as not connected.
CheckLink(r) ==
  LET i == req[r].inst
      online == req[r].seen.port # None /\ Linked(HostOf[i], req[r].seen.port)
      other == req[r].seen.mac \notin {None, req[r].mac}
  IN /\ req[r].pc = "link"
     /\ \/ online /\ other /\ Refuse(r)
        \/ ~(online /\ other) /\ Goto(r, "siblings")
        \/ Failures /\ Goto(r, "siblings")

\* Mutant: an open desktop at the seat is forgotten and not stopped.
ReadSiblingNoStop(r, s) ==
  /\ req[r].pc = "siblings"
  /\ s \in req[r].todo
  /\ \/ /\ req[r].mac # None
        /\ req' = [req EXCEPT ![r].pc = "clear", ![r].sib = s, ![r].sibSeen = row[s]]
        /\ UNCHANGED <<row, vm, told, stop, mon>>
     \/ req[r].mac = None /\ row[s].status = "active" /\ Refuse(r)
     \/ /\ req[r].mac = None /\ row[s].status # "active"
        /\ req' = [req EXCEPT ![r].todo = @ \ {s}]
        /\ UNCHANGED <<row, vm, told, stop, mon>>

\* create_instance reads the row of the next desktop at the seat.
ReadSibling(r, s) ==
  /\ req[r].pc = "siblings"
  /\ s \in req[r].todo
  /\ LET open == row[s].status = "active" IN
     \/ /\ req[r].mac # None
        /\ req' = [req EXCEPT ![r].pc = IF open THEN "stop" ELSE "clear",
                              ![r].sib = s, ![r].sibSeen = row[s],
                              ![r].node = IF open THEN HostOf[s] ELSE @]
        /\ UNCHANGED <<row, vm, told, stop, mon>>
     \/ req[r].mac = None /\ open /\ Refuse(r)      \* InstanceStartConflict
     \/ /\ req[r].mac = None /\ ~open
        /\ req' = [req EXCEPT ![r].todo = @ \ {s}]
        /\ UNCHANGED <<row, vm, told, stop, mon>>

\* It is stopped at its node; an error of the call is ignored.
StopSibling(r) ==
  /\ req[r].pc = "stop"
  /\ req' = [req EXCEPT ![r].pc = "clear"]
  /\ \/ vm' = PoweredOff(HostOf[req[r].sib], req[r].sib)
     \/ Failures /\ UNCHANGED vm
  /\ UNCHANGED <<row, told, stop, mon>>

\* Its terminal and port are forgotten, its status is not touched.
ClearSibling(r) ==
  LET s == req[r].sib
      read == req[r].sibSeen
  IN /\ req[r].pc = "clear"
     /\ row' = [row EXCEPT ![s] = Flushed(s, read, [read EXCEPT !.port = None, !.mac = None])]
     /\ req' = [req EXCEPT ![r].pc = "siblings", ![r].todo = @ \ {s}, ![r].seen = None,
                           ![r].sib = None, ![r].sibSeen = None]
     /\ UNCHANGED <<vm, told, stop, mon>>

\* check_ram and the interface of the network: an error ends the request.
Prepare(r) ==
  /\ req[r].pc = "siblings" /\ req[r].todo = {}
  /\ \/ /\ req' = [req EXCEPT ![r].pc = "create", ![r].seen = Held(r)]
        /\ UNCHANGED <<row, vm, told, stop, mon>>
     \/ Failures /\ Refuse(r)

\* The node starts the domain unless it runs; the call fails, perhaps after it did.
Create(r) ==
  LET i == req[r].inst
      n == req[r].node
      started == IF Running(n, i) THEN vm
                 ELSE [vm EXCEPT ![n][i] = [state |-> "running", port |-> FreePort(n),
                                            viewer |-> None]]
  IN /\ req[r].pc = "create"
     /\ \/ /\ Running(n, i) \/ FreePorts(n) # {}
           /\ vm' = started
           /\ req' = [req EXCEPT ![r].pc = "record", ![r].port = started[n][i].port]
        \/ /\ Failures
           /\ Running(n, i) \/ FreePorts(n) # {}
           /\ vm' \in {vm, started}
           /\ req' = [req EXCEPT ![r].pc = "error"]
        \/ /\ ~Running(n, i) /\ FreePorts(n) = {}
           /\ vm' = vm
           /\ req' = [req EXCEPT ![r].pc = "error"]
     /\ UNCHANGED <<row, told, stop, mon>>

\* The exception handler of create_instance
RecordError(r) ==
  LET i == req[r].inst
      read == req[r].seen
  IN /\ req[r].pc = "error"
     /\ row' = [row EXCEPT ![i] = Flushed(i, read, [read EXCEPT !.status = "error"])]
     /\ req' = [req EXCEPT ![r] = IdleRequest]
     /\ UNCHANGED <<vm, told, stop, mon>>

\* The domain is up: status and port of the row.
Record(r) ==
  LET i == req[r].inst
      read == req[r].seen
  IN /\ req[r].pc = "record"
     /\ row' = [row EXCEPT ![i] =
                  Flushed(i, read, [read EXCEPT !.status = "active", !.port = req[r].port])]
     /\ req' = [req EXCEPT ![r] = IF req[r].mac = None THEN IdleRequest
                                  ELSE [@ EXCEPT !.pc = "answer", !.seen = None]]
     /\ UNCHANGED <<vm, told, stop, mon>>

\* education_instance binds the terminal to the row and answers it.
Answer(r) ==
  LET i == req[r].inst IN
  /\ req[r].pc = "answer"
  /\ row' = [row EXCEPT ![i] = [@ EXCEPT !.mac = req[r].mac]]
  /\ told' = [told EXCEPT ![req[r].mac] = [inst |-> i, port |-> req[r].port]]
  /\ req' = [req EXCEPT ![r] = IdleRequest]
  /\ UNCHANGED <<vm, stop, mon>>

-----------------------------------------------------------------------------
(* The terminal connects to the node of the row; the token of the answer opens
   no other desktop.  A newer viewer takes the place of the one connected.    *)
Connect(m) ==
  LET i == told[m].inst
      n == HostOf[i]
  IN /\ told[m] # None
     /\ told' = [told EXCEPT ![m] = None]
     /\ vm' = IF Running(n, i) /\ vm[n][i].port = told[m].port
              THEN [vm EXCEPT ![n][i].viewer = m] ELSE vm
     /\ UNCHANGED <<row, req, stop, mon>>

Disconnect(n, i) ==
  /\ vm[n][i].viewer # None
  /\ vm' = [vm EXCEPT ![n][i].viewer = None]
  /\ UNCHANGED <<row, told, req, stop, mon>>

\* The user shuts the guest down, or it crashes.
GuestOff(n, i) ==
  /\ Running(n, i)
  /\ vm' = PoweredOff(n, i)
  /\ UNCHANGED <<row, told, req, stop, mon>>

-----------------------------------------------------------------------------
\* stop_instance, called by an administrator or by close_education_instance
StopBegin(i) ==
  /\ stop.pc = "idle"
  /\ stop' = [pc |-> "call", inst |-> i, seen |-> row[i]]
  /\ UNCHANGED <<row, vm, told, req, mon>>

StopCall ==
  /\ stop.pc = "call"
  /\ \/ /\ vm' = PoweredOff(HostOf[stop.inst], stop.inst)
        /\ stop' = [stop EXCEPT !.pc = "record"]
     \/ /\ Failures
        /\ vm' = vm
        /\ stop' = IdleStop
  /\ UNCHANGED <<row, told, req, mon>>

StopRecord ==
  LET i == stop.inst IN
  /\ stop.pc = "record"
  /\ row' = [row EXCEPT ![i] =
               Flushed(i, stop.seen, [status |-> "inactive", port |-> None, mac |-> None])]
  /\ stop' = IdleStop
  /\ UNCHANGED <<vm, told, req, mon>>

-----------------------------------------------------------------------------
\* update_instance_info: all rows are loaded.
MonLoad ==
  /\ mon.pc = "idle"
  /\ mon' = [IdleMon EXCEPT !.pc = "poll", !.snap = row]
  /\ UNCHANGED <<row, vm, told, req, stop>>

\* get_status_many at a node; a domain it does not know has no state.
PollOf(n) ==
  {<<i, IF Running(n, i) THEN "on" ELSE "off">> :
     i \in {j \in Insts : HostOf[j] = n /\ vm[n][j].state # "absent"}}

\* The nodes are asked one after the other; here a round asks one of them.
MonPoll(n) ==
  /\ mon.pc = "poll"
  /\ mon' = [mon EXCEPT !.pc = "apply", !.poll = PollOf(n)]
  /\ UNCHANGED <<row, vm, told, req, stop>>

\* Connection refused: all desktops of the node count as off.  Other errors: skipped.
MonPollFails(n) ==
  /\ mon.pc = "poll"
  /\ Failures
  /\ \/ mon' = [mon EXCEPT !.pc = "apply",
                           !.poll = {i \in Insts : HostOf[i] = n} \X {"down"}]
     \/ mon' = IdleMon
  /\ UNCHANGED <<row, vm, told, req, stop>>

MonHeld(i) == IF mon.snap[i] = None THEN row[i] ELSE mon.snap[i]
AllExpired == [i \in Insts |-> None]

\* Mutant: a domain that is off is not noticed.
CorrectedOnOnly(status, state) ==
  CASE state = "on" /\ status = "inactive" -> "active"
    [] state = "down" -> "inactive"
    [] OTHER -> status

\* Mutant: a desktop counted as off when its node was down stays so.
CorrectedOffOnly(status, state) ==
  IF state = "down" \/ (state = "off" /\ status = "active") THEN "inactive" ELSE status

\* The status of a desktop after its domain was found in a state
Corrected(status, state) ==
  CASE state = "on" /\ status = "inactive" -> "active"
    [] state = "off" /\ status = "active" -> "inactive"
    [] state = "down" -> "inactive"
    [] OTHER -> status

\* One desktop of the answer: the status is compared with what was read.
MonApply(i, state) ==
  LET held == MonHeld(i)
      status == Corrected(held.status, state)
      notify == state = "off" /\ held.mac # None
      written == [row EXCEPT ![i] = Flushed(i, held, [held EXCEPT !.status = status])]
      flushed == status # held.status
  IN /\ mon.pc = "apply"
     /\ <<i, state>> \in mon.poll
     /\ row' = written
     /\ mon' = [mon EXCEPT !.pc = IF notify THEN "notify" ELSE "apply",
                           !.poll = @ \ {<<i, state>>},
                           !.inst = IF notify THEN i ELSE None,
                           !.snap = IF flushed THEN [AllExpired EXCEPT ![i] =
                                                       IF notify THEN written[i] ELSE None]
                                    ELSE [@ EXCEPT ![i] = held]]
     /\ UNCHANGED <<vm, told, req, stop>>

\* The terminal has been notified, its binding is dropped.
MonUnbind ==
  LET i == mon.inst
      held == MonHeld(i)
  IN /\ mon.pc = "notify"
     /\ row' = [row EXCEPT ![i] = Flushed(i, held, [held EXCEPT !.mac = None])]
     /\ mon' = [mon EXCEPT !.pc = "apply", !.inst = None, !.snap = AllExpired]
     /\ UNCHANGED <<vm, told, req, stop>>

MonEnd ==
  /\ mon.pc = "apply" /\ mon.poll = {}
  /\ mon' = IdleMon
  /\ UNCHANGED <<row, vm, told, req, stop>>

-----------------------------------------------------------------------------
Step(r) ==
  \/ CheckLink(r)
  \/ \E s \in Insts : ReadSibling(r, s)
  \/ StopSibling(r) \/ ClearSibling(r) \/ Prepare(r)
  \/ Create(r) \/ RecordError(r) \/ Record(r) \/ Answer(r)

StopStep == StopCall \/ StopRecord

MonStep ==
  \/ MonLoad \/ MonUnbind \/ MonEnd
  \/ \E n \in Nodes : MonPoll(n) \/ MonPollFails(n)
  \/ \E i \in Insts, state \in {"on", "off", "down"} : MonApply(i, state)

Arrival ==
  \/ \E r \in Requests, i \in Insts :
       AdminStart(r, i) \/ \E m \in Macs : Open(r, i, m)
  \/ \E i \in Insts : StopBegin(i)

Environment ==
  \/ \E m \in Macs : Connect(m)
  \/ \E n \in Nodes, i \in Insts : Disconnect(n, i) \/ GuestOff(n, i)

Next ==
  \/ \E r \in Requests : Step(r)
  \/ StopStep \/ MonStep \/ Arrival \/ Environment

Spec == Init /\ [][Next]_vars

(* Handlers and monitor rounds go on to their end, terminals connect, and the
   monitor gets an answer from every node again and again.                   *)
FairSpec ==
  /\ Spec
  /\ \A r \in Requests : WF_vars(Step(r))
  /\ WF_vars(StopStep) /\ WF_vars(MonStep)
  /\ \A m \in Macs : WF_vars(Connect(m))
  /\ \A n \in Nodes : SF_vars(MonPoll(n))

-----------------------------------------------------------------------------
\* What is going on at a seat: requests, a stop, a terminal about to connect.
HandlersAt(seat) ==
  {r \in Requests : req[r].pc # "idle" /\ Seat[req[r].inst] = seat}
    \cup {x \in {"stop"} : stop.pc # "idle" /\ Seat[stop.inst] = seat}
    \cup {m \in Macs : told[m] # None /\ Seat[told[m].inst] = seat}

\* The system when the handlers of one seat run one after the other, and none of
\* them runs while the monitor is in a round.
OneHandlerPerSeat == \A i \in Insts : Cardinality(HandlersAt(Seat[i])) <= 1
RoundAlone == mon.pc # "idle" => \A i \in Insts : HandlersAt(Seat[i]) = {}
Serial == OneHandlerPerSeat /\ RoundAlone
NextSerial ==
  \/ \E r \in Requests : Step(r)
  \/ StopStep \/ Environment
  \/ Arrival /\ Serial'
  \/ MonStep /\ Serial'
SpecSerial == Init /\ [][NextSerial]_vars

(* create_instance: at one seat at most one desktop runs, on account of the
   look at the desktops of the other groups before each start.               *)
SeatExclusive ==
  \A n, k \in Nodes, i, j \in Insts :
    Seat[i] = Seat[j] /\ i # j => ~(Running(n, i) /\ Running(k, j))

(* A desktop runs on the node its row names: that is where the monitor, the
   terminal and stop_instance look for it.                                   *)
RunsAtHome == \A n \in Nodes, i \in Insts : Running(n, i) => n = HostOf[i]

(* The check of the terminal's MAC address: a terminal that is connected to a
   desktop is not pushed out of it by another terminal.                      *)
NoTakeover ==
  [][\A n \in Nodes, i \in Insts :
       vm[n][i].viewer \in Macs /\ vm'[n][i].viewer \in Macs
         => vm'[n][i].viewer = vm[n][i].viewer]_vars

(* update_instance_info: whatever handlers, failed calls and stale answers wrote,
   a desktop whose domain stays off is not shown as running for ever ...     *)
StatusFollowsOff ==
  \A i \in Insts : <>[](~Running(HostOf[i], i)) => <>[](row[i].status # "active")

\* ... and one whose domain stays on is shown as running again and again, unless
\* a failed start left it in error.
StatusFollowsOn ==
  \A i \in Insts : <>[](Running(HostOf[i], i)) => []<>(row[i].status # "inactive")
=============================================================================
