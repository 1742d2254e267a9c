-------------------------- MODULE PersonalDesktop --------------------------
(***************************************************************************)
(* Personal desktops: the pool of a random desktop group is handed out to  *)
(* its users one opening at a time, a static desktop belongs to its user.  *)
(*                                                                         *)
(* TerminalController.person_instance looks for the desktop the user has   *)
(* in the group, releases it when nobody is connected to it, takes the     *)
(* first desktop of the pool whose allocated column is 0, starts it (a     *)
(* call to a node that takes seconds), and only then records the binding   *)
(* (yzy_user_random_instance) and the allocated column.  The monitor       *)
(* clears allocated for every desktop whose spice port has no connection.  *)
(*                                                                         *)
(* Steps end where the code waits, rows are read and flushed as described  *)
(* in EduDesktop; flushes with nothing but flushes between them are one    *)
(* step, and so is a stop_instance, which EduDesktop takes apart.  A user  *)
(* works at one terminal, so a viewer is named by its user.  All desktops  *)
(* are on one node: none of the statements here depends on which.  Left    *)
(* out: the checks of session and user and of a group under maintenance,   *)
(* which only refuse; status, terminal_mac and spice_link of personal      *)
(* desktops, which nothing here reads; and the stop_instance of the        *)
(* terminal's education desktop before the answer, which is EduDesktop's.  *)
(***************************************************************************)
EXTENDS Naturals, FiniteSets, FiniteSetsExt

CONSTANTS
  Requests,   \* request slots of the server
  Users,      \* users, each at its terminal
  Pool,       \* random desktops, numbered by id
  Static,     \* static desktops, numbered by id
  Owner,      \* Owner[i]: user a static desktop is bound to (user_uuid)
  Group,      \* Group[i]: desktop group of a desktop
  Ports,      \* spice ports of the node
  VdiSize,    \* licensed number of connections
  Failures,   \* whether calls to the node may fail
  None

Insts == Pool \cup Static
Groups == {Group[i] : i \in Insts}

ASSUME ConstantAssumption ==
  /\ Insts \subseteq Nat /\ Pool \cap Static = {}
  /\ Ports \subseteq Nat
  /\ \A i \in Static : Owner[i] \in Users
  /\ \A i \in Pool, j \in Static : Group[i] # Group[j]      \* desktop_type of a group
  /\ Ports # {}
  /\ VdiSize \in Nat /\ Failures \in BOOLEAN
  /\ None \notin Users \cup Insts \cup Groups \cup Ports
  /\ Requests \cap Users = {}      \* both are counted as handlers

VARIABLES
  row,    \* yzy_instances: spice_port and allocated
  binds,  \* the bindings of yzy_user_random_instance that are not deleted
  vm,     \* the domains: port and connected user
  told,   \* the desktop and port a user's terminal was told to connect to
  req,    \* the requests
  mon     \* the monitor's round

vars == <<row, binds, vm, told, req, mon>>

Off == [port |-> None, viewer |-> None]
Idle == [pc |-> "idle", user |-> None, group |-> None, read |-> {}, ports |-> {},
         mine |-> None, started |-> None, others |-> {}, inst |-> None,
         seen |-> None, port |-> None, todo |-> {}]
IdleMon == [pc |-> "idle", snap |-> None, linked |-> {}, todo |-> {}]

Rows == [Insts -> [port : Ports \cup {None}, alloc : BOOLEAN]]

TypeOK ==
  /\ row \in Rows
  /\ binds \subseteq Users \X Pool
  /\ vm \in [Insts -> [port : Ports \cup {None}, viewer : Users \cup {None}]]
  /\ told \in [Users -> [inst : Insts, port : Ports \cup {None}] \cup {None}]
  /\ req \in [Requests ->
       [pc : {"idle", "links", "release", "pick", "create", "record", "binds", "clear",
              "bind", "answer", "close"},
        user : Users \cup {None}, group : Groups \cup {None}, read : SUBSET Pool,
        ports : SUBSET Ports, mine : Insts \cup {None}, started : Insts \cup {None},
        others : SUBSET (Users \X Pool), inst : Insts \cup {None},
        seen : Ports \cup {None}, port : Ports \cup {None}, todo : SUBSET Insts]]
  /\ mon \in [pc : {"idle", "poll", "apply"}, snap : Rows \cup {None},
              linked : SUBSET Ports, todo : SUBSET Insts]

-----------------------------------------------------------------------------
Running(i) == vm[i].port # None
Linked(p) == \E i \in Insts : vm[i].port = p /\ vm[i].viewer # None
LinksNum == Cardinality({p \in Ports : Linked(p) /\ \E i \in Insts : row[i].port = p})

\* Mutant: one connection more than the licence has.
LicensedOneMore == LinksNum <= VdiSize

Licensed == LinksNum < VdiSize

FreePorts == Ports \ {vm[i].port : i \in Insts}

\* Mutant: the port above the highest one in use.
FreePortAbove ==
  LET used == {vm[i].port : i \in Insts} \ {None} IN
  IF used = {} THEN Min(FreePorts) ELSE Max(used) + 1

\* libvirt gives a new domain the lowest free port.
FreePort == Min(FreePorts)

\* Mutant: only the bindings to desktops that are still allocated.
BindsOfAllocated(u) == {i \in Pool : <<u, i>> \in binds /\ row[i].alloc}

\* get_user_random_instance_with_all and get_instance_with_all of a user
BindsOf(u) == {i \in Pool : <<u, i>> \in binds}
StaticOf(u) == {i \in Static : Owner[i] = u}

\* Mutant: allocated is not looked at.
FreeOrNot(g) == {i \in Pool : Group[i] = g}

\* get_instance_by_desktop_first_alloc: allocated = 0, lowest id
Free(g) == {i \in Pool : Group[i] = g /\ ~row[i].alloc}

Goto(r, label) == req' = [req EXCEPT ![r].pc = label]
Finish(r) == req' = [req EXCEPT ![r] = Idle]

-----------------------------------------------------------------------------
Init ==
  /\ row = [i \in Insts |-> [port |-> None, alloc |-> FALSE]]
  /\ binds = {}
  /\ vm = [i \in Insts |-> Off]
  /\ told = [u \in Users |-> None]
  /\ req = [r \in Requests |-> Idle]
  /\ mon = IdleMon

(* person_instance: the licence allows it (a node that does not answer has no
   connections), the user's desktops are loaded.                             *)
Open(r, u, g) ==
  LET own == BindsOf(u) \cup StaticOf(u) IN
  /\ req[r].pc = "idle"
  /\ Licensed \/ Failures
  /\ \E mine \in IF \E i \in own : Group[i] = g
                 THEN {i \in own : Group[i] = g} ELSE {None} :
       req' = [req EXCEPT ![r] = [Idle EXCEPT
                 !.pc = "links", !.user = u, !.group = g, !.read = BindsOf(u),
                 !.ports = {row[i].port : i \in own} \ {None}, !.mine = mine,
                 !.seen = IF mine = None THEN None ELSE row[mine].port]]
  /\ UNCHANGED <<row, binds, vm, told, mon>>

(* get_spice_link: reconnect to the desktop that is open, release one that is
   not.  No answer counts as no connection.                                  *)
CheckLinks(r) ==
  LET q == req[r] IN
  /\ q.pc = "links"
  /\ \E linked \in {{p \in q.ports : Linked(p)}} \cup {none \in {{}} : Failures} :
       \/ /\ q.seen \in linked
          /\ told' = [told EXCEPT ![q.user] = [inst |-> q.mine, port |-> q.seen]]
          /\ Finish(r)
       \/ /\ q.seen \notin linked
          /\ req' = [req EXCEPT ![r].pc = IF q.mine \in Pool THEN "release" ELSE "pick",
                                ![r].ports = linked]
          /\ UNCHANGED told
  /\ UNCHANGED <<row, binds, vm, mon>>

Release(r) ==
  LET q == req[r] IN
  /\ q.pc = "release"
  /\ binds' = binds \ {<<q.user, q.mine>>}
  /\ row' = [row EXCEPT ![q.mine].alloc = FALSE]
  /\ Goto(r, "pick")
  /\ UNCHANGED <<vm, told, mon>>

\* Mutant: a third desktop is opened.
MayOpenThird(ports) == Cardinality(ports) <= 2

\* Fewer than two of the user's desktops are connected.
MayOpen(ports) == Cardinality(ports) < 2

\* A desktop is chosen, if the user may open one and there is one to be had.
Pick(r) ==
  LET q == req[r]
      candidates == IF \E i \in Pool : Group[i] = q.group
                    THEN (IF Free(q.group) = {} THEN {} ELSE {Min(Free(q.group))})
                    ELSE {i \in StaticOf(q.user) : Group[i] = q.group}
  IN /\ q.pc = "pick"
     /\ \/ /\ MayOpen(q.ports)
           /\ \E i \in candidates :
                req' = [req EXCEPT ![r].pc = "create", ![r].started = i, ![r].inst = i,
                                      ![r].seen = row[i].port]
        \/ ~MayOpen(q.ports) /\ Finish(r)      \* TerminalPersonalInstanceNumError
        \/ candidates = {} /\ Finish(r)                \* TerminalPersonInstanceNotAlloc
     /\ UNCHANGED <<row, binds, vm, told, mon>>

\* create_instance: the node starts the domain unless it runs, or the call fails.
Create(r) ==
  LET i == req[r].started
      started == IF Running(i) THEN vm
                 ELSE [vm EXCEPT ![i] = [port |-> FreePort, viewer |-> None]]
  IN /\ req[r].pc = "create"
     /\ \/ /\ Running(i) \/ FreePorts # {}
           /\ vm' = started
           /\ req' = [req EXCEPT ![r].pc = "record", ![r].port = started[i].port]
        \/ /\ Failures \/ (~Running(i) /\ FreePorts = {})
           /\ vm' = vm
           /\ Finish(r)
     /\ UNCHANGED <<row, binds, told, mon>>

\* The port of the reply is written when it differs from the one that was read.
Record(r) ==
  LET i == req[r].started IN
  /\ req[r].pc = "record"
  /\ row' = [row EXCEPT ![i].port = IF req[r].port # req[r].seen THEN req[r].port ELSE @]
  /\ Goto(r, IF i \in Pool THEN "binds" ELSE "bind")
  /\ UNCHANGED <<binds, vm, told, mon>>

\* The bindings others still have to the desktop that was started
ReadBinds(r) ==
  LET i == req[r].started IN
  /\ req[r].pc = "binds"
  /\ req' = [req EXCEPT ![r].pc = "clear",
                        ![r].others = {b \in binds : b[2] = i}]
  /\ UNCHANGED <<row, binds, vm, told, mon>>

(* The user's earlier bindings in the group, as they were loaded at the start,
   are cleared.  The loop assigns its desktop to the variable that holds the
   desktop just started.                                                     *)
ClearOld(r) ==
  LET q == req[r]
      old == {i \in q.read : Group[i] = q.group}
  IN /\ q.pc = "clear"
     /\ row' = [i \in Insts |-> IF i \in old THEN [row[i] EXCEPT !.alloc = FALSE] ELSE row[i]]
     /\ binds' = binds \ ({q.user} \X old)
     /\ \E last \in IF old = {} THEN {q.started} ELSE old :
          req' = [req EXCEPT ![r].pc = "bind", ![r].inst = last]
     /\ UNCHANGED <<vm, told, mon>>

\* Mutant: the bindings of others are left.
BindBeside(r) ==
  LET q == req[r] IN
  /\ q.pc = "bind"
  /\ binds' = binds \cup ({q.user} \X ({q.inst} \cap Pool))
  /\ row' = [row EXCEPT ![q.inst].alloc = @ \/ q.inst \in Pool]
  /\ Goto(r, "answer")
  /\ UNCHANGED <<vm, told, mon>>

\* The binding is recorded and the desktop marked as allocated.
Bind(r) ==
  LET q == req[r] IN
  /\ q.pc = "bind"
  /\ binds' = (binds \ q.others) \cup ({q.user} \X ({q.inst} \cap Pool))
  /\ row' = [row EXCEPT ![q.inst].alloc = @ \/ q.inst \in Pool]
  /\ Goto(r, "answer")
  /\ UNCHANGED <<vm, told, mon>>

\* The answer is sent.
Answer(r) ==
  LET q == req[r] IN
  /\ q.pc = "answer"
  /\ told' = [told EXCEPT ![q.user] = [inst |-> q.inst, port |-> row[q.inst].port]]
  /\ Finish(r)
  /\ UNCHANGED <<row, binds, vm, mon>>

-----------------------------------------------------------------------------
\* person_instance_close: the user's desktops are loaded and stopped one by one.
Close(r, u) ==
  /\ req[r].pc = "idle"
  /\ req' = [req EXCEPT ![r] = [Idle EXCEPT
               !.pc = "close", !.user = u, !.todo = BindsOf(u) \cup StaticOf(u)]]
  /\ UNCHANGED <<row, binds, vm, told, mon>>

\* stop_instance; a random desktop is marked free even if that failed.
CloseOne(r, i) ==
  /\ req[r].pc = "close"
  /\ i \in req[r].todo
  /\ \/ /\ vm' = [vm EXCEPT ![i] = Off]
        /\ row' = [row EXCEPT ![i] = [port |-> None, alloc |-> FALSE]]
     \/ /\ Failures
        /\ vm' = vm
        /\ row' = [row EXCEPT ![i].alloc = FALSE]
  /\ req' = [req EXCEPT ![r].todo = @ \ {i}]
  /\ UNCHANGED <<binds, told, mon>>

CloseEnd(r) ==
  /\ req[r].pc = "close" /\ req[r].todo = {}
  /\ Finish(r)
  /\ UNCHANGED <<row, binds, vm, told, mon>>

-----------------------------------------------------------------------------
\* The terminal connects; a newer viewer takes the place of the one connected.
Connect(u) ==
  LET i == told[u].inst IN
  /\ told[u] # None
  /\ told' = [told EXCEPT ![u] = None]
  /\ vm' = IF Running(i) /\ vm[i].port = told[u].port
           THEN [vm EXCEPT ![i].viewer = u] ELSE vm
  /\ UNCHANGED <<row, binds, req, mon>>

Disconnect(i) ==
  /\ vm[i].viewer # None
  /\ vm' = [vm EXCEPT ![i].viewer = None]
  /\ UNCHANGED <<row, binds, told, req, mon>>

GuestOff(i) ==
  /\ Running(i)
  /\ vm' = [vm EXCEPT ![i] = Off]
  /\ UNCHANGED <<row, binds, told, req, mon>>

-----------------------------------------------------------------------------
\* update_instance_info loads the rows, asks for the ports, and goes over the rows.
MonLoad ==
  /\ mon.pc = "idle"
  /\ mon' = [IdleMon EXCEPT !.pc = "poll", !.snap = row]
  /\ UNCHANGED <<row, binds, vm, told, req>>

\* No answer counts as no connection.
MonPoll ==
  /\ mon.pc = "poll"
  /\ \E linked \in {{p \in Ports : Linked(p)}} \cup {none \in {{}} : Failures} :
       mon' = [mon EXCEPT !.pc = "apply", !.linked = linked, !.todo = Insts]
  /\ UNCHANGED <<row, binds, vm, told, req>>

(* In the order of the rows, a desktop without a connection is marked free.  What
   the session holds of it was read with the others, or again if a column of
   another has been flushed.                                                  *)
MonApply(i) ==
  /\ mon.pc = "apply"
  /\ i \in mon.todo /\ \A j \in mon.todo : i <= j
  /\ \E held \in {mon.snap[i], row[i]} :
       row' = [row EXCEPT ![i].alloc =
                 @ /\ ~(held.alloc /\ held.port # None /\ held.port \notin mon.linked)]
  /\ mon' = [mon EXCEPT !.todo = @ \ {i}]
  /\ UNCHANGED <<binds, vm, told, req>>

MonEnd ==
  /\ mon.pc = "apply" /\ mon.todo = {}
  /\ mon' = IdleMon
  /\ UNCHANGED <<row, binds, vm, told, req>>

-----------------------------------------------------------------------------
Step(r) ==
  \/ CheckLinks(r) \/ Release(r) \/ Pick(r) \/ Create(r) \/ Record(r)
  \/ ReadBinds(r) \/ ClearOld(r) \/ Bind(r) \/ Answer(r)
  \/ CloseEnd(r) \/ \E i \in Insts : CloseOne(r, i)

Arrival ==
  \E r \in Requests, u \in Users : Close(r, u) \/ \E g \in Groups : Open(r, u, g)

MonStep == MonLoad \/ MonPoll \/ MonEnd \/ \E i \in Insts : MonApply(i)

Environment ==
  \/ \E u \in Users : Connect(u)
  \/ \E i \in Insts : Disconnect(i) \/ GuestOff(i)

Next ==
  \/ \E r \in Requests : Step(r)
  \/ Arrival \/ MonStep \/ Environment

Spec == Init /\ [][Next]_vars

-----------------------------------------------------------------------------
\* Requests in progress and terminals about to connect
Handlers == {r \in Requests : req[r].pc # "idle"} \cup {u \in Users : told[u] # None}

\* The system when handlers run one after the other ...
OneHandler == Cardinality(Handlers) <= 1
NextOneHandler ==
  \/ \E r \in Requests : Step(r)
  \/ MonStep \/ Environment
  \/ Arrival /\ OneHandler'
SpecOneHandler == Init /\ [][NextOneHandler]_vars

\* ... and none of them runs while the monitor is in a round.
Serial == OneHandler /\ (mon.pc # "idle" => Handlers = {})
NextSerial ==
  \/ \E r \in Requests : Step(r)
  \/ Environment
  \/ Arrival /\ Serial'
  \/ MonStep /\ Serial'
SpecSerial == Init /\ [][NextSerial]_vars

(* person_instance: a random desktop is bound to one user at most, though a
   binding outlives the connection and the desktop is handed out again.      *)
BindUnique == \A i \in Pool : Cardinality({u \in Users : <<u, i>> \in binds}) <= 1

(* person_instance: a user has one random desktop of a group at most, however
   often it was opened, closed and cleared by the monitor.                   *)
OneBindPerGroup ==
  \A b, c \in binds : b[1] = c[1] /\ Group[b[2]] = Group[c[2]] => b = c

(* The allocated column: a user who is connected to a desktop is not pushed out
   of it by another user who is given the same one.                          *)
NoTakeover ==
  [][\A i \in Insts :
       vm[i].viewer \in Users /\ vm'[i].viewer \in Users
         => vm'[i].viewer = vm[i].viewer]_vars

(* The count of connected ports in person_instance: a user has at most two
   personal desktops open.                                                   *)
AtMostTwo == \A u \in Users : Cardinality({i \in Insts : vm[i].viewer = u}) <= 2

(* get_links_num: no more desktops are connected than the licence has, counted
   by the ports in the database.                                             *)
LicenceRespected == Cardinality({i \in Insts : vm[i].viewer # None}) <= VdiSize

(* person_instance: the desktop a user is bound to and told to connect to is the
   one that was started for the request.                                     *)
StartedIsAnswered ==
  \A r \in Requests : req[r].pc = "answer" => req[r].inst = req[r].started
=============================================================================
