-------------------------- MODULE EduDesktopProofs --------------------------
(***************************************************************************)
(* Proofs about EduDesktop, for any desktops, seats, nodes, terminals,     *)
(* ports and licence.  Types hold whatever overlaps and fails; a desktop   *)
(* runs on its own node when the desktops of a seat are on one node        *)
(* (HomeInv).  When also the handlers of a seat run one after the other,   *)
(* none of them during a round of the monitor, and the nodes answer, a     *)
(* seat has one running desktop and no terminal is pushed out (SeatInv).   *)
(***************************************************************************)
EXTENDS EduDesktop, FiniteSetTheorems, WellFoundedInduction, TLAPS

USE ConstantAssumption

ReqRecs ==
  [pc : {"idle", "link", "siblings", "stop", "clear", "create", "record", "error", "answer"},
   inst : Insts \cup {None}, mac : Macs \cup {None}, seen : Rows \cup {None},
   node : Nodes \cup {None}, todo : SUBSET Insts, sib : Insts \cup {None},
   sibSeen : Rows \cup {None}, port : Ports \cup {None}]
Vms == [Nodes -> [Insts -> Domains]]
Told == [inst : Insts, port : Ports] \cup {None}
Stops == [pc : {"idle", "call", "record"}, inst : Insts \cup {None}, seen : Rows \cup {None}]
Mons == [pc : {"idle", "poll", "apply", "notify"}, snap : [Insts -> Rows \cup {None}],
         poll : SUBSET (Insts \X {"on", "off", "down"}), inst : Insts \cup {None}]

(* What a request has at the places where it uses it: its desktop, the terminal
   it answers, the rows it compares with what it writes.                     *)
ReqOK(q) ==
  /\ q \in ReqRecs
  /\ q.pc # "idle" => q.inst \in Insts /\ q.node \in Nodes
  /\ q.pc \in {"link", "create", "record", "error"} => q.seen \in Rows
  /\ q.pc \in {"stop", "clear"} => q.sib \in Insts /\ q.sibSeen \in Rows
  /\ q.pc \in {"record", "answer"} => q.port \in Ports
  /\ q.pc = "answer" => q.mac \in Macs

TypeInv ==
  /\ TypeOK
  /\ \A r \in Requests : ReqOK(req[r])
  /\ stop.pc # "idle" => stop.inst \in Insts /\ stop.seen \in Rows
  /\ mon.pc = "notify" => mon.inst \in Insts

\* A node that has a free port gives a new domain one of them.
LEMMA FreePortIsFree ==
  ASSUME NEW n, FreePorts(n) # {}
  PROVE FreePort(n) \in Ports /\ \A i \in Insts : FreePort(n) # vm[n][i].port
<1>1. FreePorts(n) \in SUBSET Nat BY DEF FreePorts
<1>2. IsWellFoundedOn(OpToRel(<, Nat), Nat) BY NatLessThanWellFounded
<1>3. PICK p \in FreePorts(n) : \A q \in FreePorts(n) : ~(<<q, p>> \in OpToRel(<, Nat))
  BY <1>1, <1>2, WFMin
<1>4. \A q \in FreePorts(n) : p <= q
  <2> TAKE q \in FreePorts(n)
  <2>1. ~(q < p) BY <1>1, <1>3 DEF OpToRel
  <2> QED BY <1>1, <2>1
<1>5. LeastFree(n) \in FreePorts(n) BY <1>3, <1>4 DEF LeastFree
<1> QED BY <1>5 DEF FreePort, FreePorts

\* A flush writes a column when it is to change, whatever the row has in it.
LEMMA FlushedColumns ==
  ASSUME NEW i, row[i] \in Rows, NEW read \in Rows, NEW new \in Rows
  PROVE /\ Flushed(i, read, new) \in Rows
        /\ Flushed(i, read, new).status =
             IF new.status # read.status THEN new.status ELSE row[i].status
        /\ Flushed(i, read, new).port =
             IF new.port # read.port THEN new.port ELSE row[i].port
        /\ Flushed(i, read, new).mac =
             IF new.mac # read.mac THEN new.mac ELSE row[i].mac
<1>1. Flushed(i, read, new) \in Rows BY DEF Flushed, Rows
<1>2. /\ Flushed(i, read, new).status =
           IF new.status # read.status THEN new.status ELSE row[i].status
      /\ Flushed(i, read, new).port =
           IF new.port # read.port THEN new.port ELSE row[i].port
      /\ Flushed(i, read, new).mac =
           IF new.mac # read.mac THEN new.mac ELSE row[i].mac
  BY DEF Flushed
<1> QED BY <1>1, <1>2

\* Only a running domain has a port and a viewer.
LEMMA DomainKinds ==
  ASSUME NEW d \in Domains
  PROVE /\ d.state = "running" => d.port \in Ports
        /\ d.port \in Ports \cup {None} /\ d.viewer \in Macs \cup {None}
        /\ d.viewer # None => d.state = "running"
        /\ d.state # "running" => d.port = None /\ d.viewer = None
BY DEF Domains, NoDomain, OffDomain

\* Powering off stops one domain and leaves the others.
LEMMA PowerOffStops ==
  ASSUME vm \in Vms, NEW n \in Nodes, NEW i \in Insts
  PROVE /\ PoweredOff(n, i) \in Vms
        /\ PoweredOff(n, i)[n][i].state # "running"
        /\ \A k \in Nodes, j \in Insts :
             k # n \/ j # i => PoweredOff(n, i)[k][j] = vm[k][j]
<1> DEFINE d == IF vm[n][i].state = "running" THEN OffDomain ELSE vm[n][i]
<1>1. PoweredOff(n, i) = [vm EXCEPT ![n][i] = d] BY DEF PoweredOff
<1>2. vm[n][i] \in Domains BY DEF Vms
<1>3. d \in Domains /\ d.state # "running" BY <1>2 DEF Domains, OffDomain
<1> HIDE DEF d
<1> QED BY <1>1, <1>3 DEF Vms

\* A domain that starts takes a free port, the others stay.
LEMMA StartTakesPort ==
  ASSUME vm \in Vms, NEW n \in Nodes, NEW i \in Insts, FreePorts(n) # {}, NEW v,
         v = [vm EXCEPT ![n][i] = [state |-> "running", port |-> FreePort(n), viewer |-> None]]
  PROVE /\ v \in Vms
        /\ v[n][i].state = "running" /\ v[n][i].viewer = None /\ v[n][i].port \in Ports
        /\ \A k \in Nodes, j \in Insts : k # n \/ j # i => v[k][j] = vm[k][j]
<1> DEFINE d == [state |-> "running", port |-> FreePort(n), viewer |-> None]
<1>1. d.state = "running" /\ d.viewer = None /\ d.port = FreePort(n) OBVIOUS
<1>2. FreePort(n) \in Ports BY FreePortIsFree
<1>3. d \in Domains BY <1>2 DEF Domains
<1> HIDE DEF d
<1>4. v = [vm EXCEPT ![n][i] = d] BY DEF d
<1> QED BY <1>1, <1>2, <1>3, <1>4 DEF Vms

LEMMA TypeInvInit == Init => TypeInv
<1> SUFFICES ASSUME Init PROVE TypeInv
  OBVIOUS
<1>1. row \in [Insts -> Rows] BY DEF Init, Rows, Statuses
<1>2. vm \in Vms BY DEF Init, Vms, Domains
<1>3. told \in [Macs -> Told] BY DEF Init, Told
<1>4. req \in [Requests -> ReqRecs] /\ \A r \in Requests : ReqOK(req[r])
  BY DEF Init, IdleRequest, ReqRecs, ReqOK
<1>5. stop \in Stops /\ mon \in Mons BY DEF Init, IdleStop, IdleMon, Stops, Mons
<1>6. stop.pc = "idle" /\ mon.pc = "idle" BY DEF Init, IdleStop, IdleMon
<1> QED BY <1>1, <1>2, <1>3, <1>4, <1>5, <1>6
     DEF TypeInv, TypeOK, Vms, Told, ReqRecs, Stops, Mons

\* What a step of a request leaves to be shown of the rest of the state
LEMMA TypesOf ==
  ASSUME TypeInv, NEW r \in Requests, NEW q, ReqOK(q), req' = [req EXCEPT ![r] = q],
         row' \in [Insts -> Rows], vm' \in Vms, told' \in [Macs -> Told],
         UNCHANGED <<stop, mon>>
  PROVE TypeInv'
<1>1. req' \in [Requests -> ReqRecs] /\ \A s \in Requests : ReqOK(req'[s])
  BY DEF TypeInv, TypeOK, ReqOK, ReqRecs
<1> QED BY <1>1 DEF TypeInv, TypeOK, Vms, Told, ReqRecs

LEMMA TypeInvStep == ASSUME TypeInv, NEW r \in Requests, Step(r) PROVE TypeInv'
<1> DEFINE q == req[r]
<1>t. /\ ReqOK(q) /\ q \in ReqRecs
      /\ row \in [Insts -> Rows] /\ vm \in Vms /\ told \in [Macs -> Told]
      /\ req \in [Requests -> ReqRecs]
  BY DEF TypeInv, TypeOK, ReqOK, Vms, Told, ReqRecs
<1>i. ReqOK(IdleRequest) BY DEF ReqOK, IdleRequest, ReqRecs
<1>r. ASSUME Refuse(r) PROVE TypeInv' BY <1>r, <1>i, <1>t, TypesOf DEF Refuse
<1>1. CASE CheckLink(r)
  <2>1. CASE Refuse(r) BY <2>1, <1>r
  <2>2. CASE Goto(r, "siblings")
    <3> DEFINE n == [q EXCEPT !.pc = "siblings"]
    <3>1. q.pc = "link" BY <1>1 DEF CheckLink
    <3>2. n \in ReqRecs BY <1>t DEF ReqRecs
    <3>3. ReqOK(n) BY <1>t, <3>1, <3>2 DEF ReqOK, ReqRecs
    <3>4. req' = [req EXCEPT ![r] = n] BY <2>2, <1>t DEF Goto
    <3> QED BY <2>2, <3>3, <3>4, <1>t, TypesOf DEF Goto
  <2> QED BY <1>1, <2>1, <2>2 DEF CheckLink
<1>2. ASSUME NEW s \in Insts, ReadSibling(r, s) PROVE TypeInv'
  <2>1. q.pc = "siblings" BY <1>2 DEF ReadSibling
  <2>2. CASE Refuse(r) BY <2>2, <1>r
  <2>3. PICK p \in {"stop", "clear"}, k \in {q.node, HostOf[s]} :
           \/ Refuse(r)
           \/ /\ \/ req' = [req EXCEPT ![r].pc = p, ![r].sib = s, ![r].sibSeen = row[s],
                                       ![r].node = k]
                 \/ req' = [req EXCEPT ![r].todo = @ \ {s}]
              /\ UNCHANGED <<row, vm, told, stop, mon>>
    <3>1. CASE q.mac # None
      <4> DEFINE p == IF row[s].status = "active" THEN "stop" ELSE "clear"
                 k == IF row[s].status = "active" THEN HostOf[s] ELSE q.node
      <4>1. /\ req' = [req EXCEPT ![r].pc = p, ![r].sib = s, ![r].sibSeen = row[s],
                                  ![r].node = k]
            /\ UNCHANGED <<row, vm, told, stop, mon>>
        BY <1>2, <3>1 DEF ReadSibling
      <4>2. p \in {"stop", "clear"} /\ k \in {q.node, HostOf[s]} OBVIOUS
      <4> HIDE DEF p, k
      <4> QED BY <4>1, <4>2
    <3>2. CASE q.mac = None BY <1>2, <3>2 DEF ReadSibling
    <3> QED BY <3>1, <3>2
  <2>4. CASE /\ req' = [req EXCEPT ![r].pc = p, ![r].sib = s, ![r].sibSeen = row[s],
                                   ![r].node = k]
             /\ UNCHANGED <<row, vm, told, stop, mon>>
    <3> DEFINE n == [q EXCEPT !.pc = p, !.sib = s, !.sibSeen = row[s], !.node = k]
    <3>1. k \in Nodes /\ row[s] \in Rows BY <2>1, <1>t DEF ReqOK
    <3>2. n \in ReqRecs BY <1>t, <3>1 DEF ReqRecs
    <3>3. ReqOK(n) BY <1>t, <2>1, <3>1, <3>2 DEF ReqOK, ReqRecs
    <3>4. req' = [req EXCEPT ![r] = n] BY <2>4, <1>t DEF ReqRecs
    <3> QED BY <2>4, <3>3, <3>4, <1>t, TypesOf
  <2>5. CASE /\ req' = [req EXCEPT ![r].todo = @ \ {s}]
             /\ UNCHANGED <<row, vm, told, stop, mon>>
    <3> DEFINE n == [q EXCEPT !.todo = @ \ {s}]
    <3>1. n \in ReqRecs BY <1>t DEF ReqRecs
    <3>2. ReqOK(n) BY <1>t, <2>1, <3>1 DEF ReqOK, ReqRecs
    <3>3. req' = [req EXCEPT ![r] = n] BY <2>5, <1>t DEF ReqRecs
    <3> QED BY <2>5, <3>2, <3>3, <1>t, TypesOf
  <2> QED BY <2>2, <2>3, <2>4, <2>5
<1>3. CASE StopSibling(r)
  <2> DEFINE n == [q EXCEPT !.pc = "clear"]
  <2>1. q.pc = "stop" /\ UNCHANGED <<row, told, stop, mon>> /\ req' = [req EXCEPT ![r] = n]
    BY <1>3, <1>t DEF StopSibling
  <2>2. vm' \in Vms
    <3>1. q.sib \in Insts /\ HostOf[q.sib] \in Nodes BY <2>1, <1>t DEF ReqOK
    <3> QED BY <1>3, <3>1, <1>t, PowerOffStops DEF StopSibling
  <2>3. n \in ReqRecs BY <1>t DEF ReqRecs
  <2>4. ReqOK(n) BY <1>t, <2>1, <2>3 DEF ReqOK, ReqRecs
  <2> QED BY <2>1, <2>2, <2>4, <1>t, TypesOf
<1>4. CASE ClearSibling(r)
  <2> DEFINE n == [q EXCEPT !.pc = "siblings", !.todo = @ \ {q.sib}, !.seen = None,
                            !.sib = None, !.sibSeen = None]
             new == [q.sibSeen EXCEPT !.port = None, !.mac = None]
  <2>1. /\ q.pc = "clear" /\ UNCHANGED <<vm, told, stop, mon>>
        /\ row' = [row EXCEPT ![q.sib] = Flushed(q.sib, q.sibSeen, new)]
        /\ req' = [req EXCEPT ![r] = n]
    BY <1>4, <1>t DEF ClearSibling, ReqRecs
  <2>2. q.sib \in Insts /\ q.sibSeen \in Rows BY <2>1, <1>t DEF ReqOK
  <2>3. new \in Rows BY <2>2 DEF Rows
  <2>4. row' \in [Insts -> Rows]
    <3>1. Flushed(q.sib, q.sibSeen, new) \in Rows BY <2>2, <2>3, <1>t, FlushedColumns
    <3> QED BY <2>1, <3>1, <1>t
  <2>5. n \in ReqRecs BY <1>t DEF ReqRecs
  <2>6. ReqOK(n) BY <1>t, <2>1, <2>5 DEF ReqOK, ReqRecs
  <2> QED BY <2>1, <2>4, <2>6, <1>t, TypesOf
<1>5. CASE Prepare(r)
  <2>1. CASE Refuse(r) BY <2>1, <1>r
  <2>2. CASE ~Refuse(r)
    <3> DEFINE n == [q EXCEPT !.pc = "create", !.seen = Held(r)]
    <3>1. q.pc = "siblings" /\ UNCHANGED <<row, vm, told, stop, mon>>
          /\ req' = [req EXCEPT ![r] = n]
      BY <1>5, <2>2, <1>t DEF Prepare
    <3>2. Held(r) \in Rows BY <3>1, <1>t DEF Held, ReqOK, ReqRecs
    <3>3. n \in ReqRecs BY <1>t, <3>2 DEF ReqRecs
    <3>4. ReqOK(n) BY <1>t, <3>1, <3>2, <3>3 DEF ReqOK, ReqRecs
    <3> QED BY <3>1, <3>4, <1>t, TypesOf
  <2> QED BY <2>1, <2>2
<1>6. CASE Create(r)
  <2> DEFINE i == q.inst
             n == q.node
             start == [vm EXCEPT ![n][i] = [state |-> "running", port |-> FreePort(n),
                                            viewer |-> None]]
             started == IF Running(n, i) THEN vm ELSE start
  <2>1. q.pc = "create" /\ i \in Insts /\ n \in Nodes /\ UNCHANGED <<row, told, stop, mon>>
    BY <1>6, <1>t DEF Create, ReqOK
  <2>2. Running(n, i) \/ FreePorts(n) # {} => started \in Vms /\ started[n][i].port \in Ports
    <3>1. CASE Running(n, i) BY <3>1, <2>1, <1>t, DomainKinds DEF Running, Vms
    <3>2. CASE ~Running(n, i) BY <3>2, <2>1, <1>t, StartTakesPort
    <3> QED BY <3>1, <3>2
  <2>3. \/ /\ Running(n, i) \/ FreePorts(n) # {}
           /\ vm' = started
           /\ req' = [req EXCEPT ![r].pc = "record", ![r].port = started[n][i].port]
        \/ /\ vm' = vm \/ (vm' = started /\ (Running(n, i) \/ FreePorts(n) # {}))
           /\ req' = [req EXCEPT ![r].pc = "error"]
    BY <1>6 DEF Create
  <2> HIDE DEF started
  <2>4. vm' \in Vms BY <2>2, <2>3, <1>t
  <2>5. CASE req' = [req EXCEPT ![r].pc = "error"]
    <3> DEFINE m == [q EXCEPT !.pc = "error"]
    <3>1. m \in ReqRecs BY <1>t DEF ReqRecs
    <3>2. ReqOK(m) BY <1>t, <2>1, <3>1 DEF ReqOK, ReqRecs
    <3> QED BY <2>1, <2>4, <2>5, <3>2, <1>t, TypesOf
  <2>6. CASE /\ started[n][i].port \in Ports
             /\ req' = [req EXCEPT ![r].pc = "record", ![r].port = started[n][i].port]
    <3> DEFINE m == [q EXCEPT !.pc = "record", !.port = started[n][i].port]
    <3>1. m \in ReqRecs BY <1>t, <2>6 DEF ReqRecs
    <3>2. ReqOK(m) BY <1>t, <2>1, <2>6, <3>1 DEF ReqOK, ReqRecs
    <3>3. req' = [req EXCEPT ![r] = m] BY <2>6, <1>t DEF ReqRecs
    <3> QED BY <2>1, <2>4, <3>2, <3>3, <1>t, TypesOf
  <2> QED BY <2>2, <2>3, <2>5, <2>6
<1>7. CASE RecordError(r)
  <2> DEFINE new == [q.seen EXCEPT !.status = "error"]
  <2>1. /\ q.pc = "error" /\ UNCHANGED <<vm, told, stop, mon>>
        /\ row' = [row EXCEPT ![q.inst] = Flushed(q.inst, q.seen, new)]
        /\ req' = [req EXCEPT ![r] = IdleRequest]
    BY <1>7 DEF RecordError
  <2>2. q.inst \in Insts /\ q.seen \in Rows BY <2>1, <1>t DEF ReqOK
  <2>3. new \in Rows BY <2>2 DEF Rows, Statuses
  <2>4. Flushed(q.inst, q.seen, new) \in Rows BY <2>2, <2>3, <1>t, FlushedColumns
  <2>5. row' \in [Insts -> Rows] BY <2>1, <2>4, <1>t
  <2> QED BY <2>1, <2>5, <1>i, <1>t, TypesOf
<1>8. CASE Record(r)
  <2> DEFINE new == [q.seen EXCEPT !.status = "active", !.port = q.port]
             m == [q EXCEPT !.pc = "answer", !.seen = None]
             n == IF q.mac = None THEN IdleRequest ELSE m
  <2>1. /\ q.pc = "record" /\ UNCHANGED <<vm, told, stop, mon>>
        /\ row' = [row EXCEPT ![q.inst] = Flushed(q.inst, q.seen, new)]
        /\ req' = [req EXCEPT ![r] = n]
    BY <1>8, <1>t DEF Record
  <2>2. q.inst \in Insts /\ q.seen \in Rows /\ q.port \in Ports BY <2>1, <1>t DEF ReqOK
  <2>3. new \in Rows BY <2>2 DEF Rows, Statuses
  <2>4. Flushed(q.inst, q.seen, new) \in Rows BY <2>2, <2>3, <1>t, FlushedColumns
  <2>5. row' \in [Insts -> Rows] BY <2>1, <2>4, <1>t
  <2>6. ReqOK(n)
    <3>1. m \in ReqRecs BY <1>t DEF ReqRecs
    <3>2. q.mac # None => ReqOK(m) BY <1>t, <2>1, <2>2, <3>1 DEF ReqOK, ReqRecs
    <3> QED BY <3>2, <1>i
  <2> QED BY <2>1, <2>5, <2>6, <1>t, TypesOf
<1>9. CASE Answer(r)
  <2>1. /\ q.pc = "answer" /\ UNCHANGED <<vm, stop, mon>>
        /\ row' = [row EXCEPT ![q.inst] = [@ EXCEPT !.mac = q.mac]]
        /\ told' = [told EXCEPT ![q.mac] = [inst |-> q.inst, port |-> q.port]]
        /\ req' = [req EXCEPT ![r] = IdleRequest]
    BY <1>9 DEF Answer
  <2>2. q.inst \in Insts /\ q.mac \in Macs /\ q.port \in Ports BY <2>1, <1>t DEF ReqOK
  <2>3. row' \in [Insts -> Rows] BY <2>1, <2>2, <1>t DEF Rows
  <2>4. told' \in [Macs -> Told] BY <2>1, <2>2, <1>t DEF Told
  <2> QED BY <2>1, <2>3, <2>4, <1>i, <1>t, TypesOf
<1> QED BY <1>1, <1>2, <1>3, <1>4, <1>5, <1>6, <1>7, <1>8, <1>9 DEF Step

LEMMA TypeInvArrival == ASSUME TypeInv, Arrival PROVE TypeInv'
<1>t. /\ row \in [Insts -> Rows] /\ vm \in Vms /\ told \in [Macs -> Told]
      /\ req \in [Requests -> ReqRecs]
  BY DEF TypeInv, TypeOK, Vms, Told, ReqRecs
<1>1. ASSUME NEW r \in Requests, NEW i \in Insts, AdminStart(r, i) PROVE TypeInv'
  <2> DEFINE n == [IdleRequest EXCEPT !.pc = "siblings", !.inst = i, !.seen = row[i],
                                      !.node = HostOf[i], !.todo = Siblings(i)]
  <2>1. n \in ReqRecs BY <1>t DEF IdleRequest, ReqRecs, Siblings
  <2>2. ReqOK(n) BY <1>t, <2>1 DEF ReqOK, IdleRequest
  <2> QED BY <1>1, <2>2, <1>t, TypesOf DEF AdminStart
<1>2. ASSUME NEW r \in Requests, NEW i \in Insts, NEW m \in Macs, Open(r, i, m) PROVE TypeInv'
  <2> DEFINE n == [IdleRequest EXCEPT !.pc = "link", !.inst = i, !.mac = m, !.seen = row[i],
                                      !.node = HostOf[i], !.todo = Siblings(i)]
  <2>1. n \in ReqRecs BY <1>t DEF IdleRequest, ReqRecs, Siblings
  <2>2. ReqOK(n) BY <1>t, <2>1 DEF ReqOK, IdleRequest
  <2> QED BY <1>2, <2>2, <1>t, TypesOf DEF Open
<1>3. ASSUME NEW i \in Insts, StopBegin(i) PROVE TypeInv'
  <2>1. stop' = [pc |-> "call", inst |-> i, seen |-> row[i]]
        /\ UNCHANGED <<row, vm, told, req, mon>>
    BY <1>3 DEF StopBegin
  <2>2. stop' \in Stops /\ stop'.inst \in Insts /\ stop'.seen \in Rows BY <2>1, <1>t DEF Stops
  <2> QED BY <2>1, <2>2 DEF TypeInv, TypeOK, Stops
<1> QED BY <1>1, <1>2, <1>3 DEF Arrival

LEMMA TypeInvStop == ASSUME TypeInv, StopStep PROVE TypeInv'
<1>t. row \in [Insts -> Rows] /\ vm \in Vms /\ stop \in Stops
      /\ (stop.pc # "idle" => stop.inst \in Insts /\ stop.seen \in Rows)
  BY DEF TypeInv, TypeOK, Vms, Stops
<1>m. ASSUME row' \in [Insts -> Rows], vm' \in Vms, stop' \in Stops,
             stop'.pc # "idle" => stop'.inst \in Insts /\ stop'.seen \in Rows,
             UNCHANGED <<told, req, mon>>
      PROVE TypeInv'
  BY <1>m DEF TypeInv, TypeOK, Vms, Stops
<1>i. IdleStop \in Stops /\ IdleStop.pc = "idle" BY DEF IdleStop, Stops
<1>1. CASE StopCall
  <2>1. /\ stop.pc = "call" /\ UNCHANGED <<row, told, req, mon>>
        /\ vm' \in {vm, PoweredOff(HostOf[stop.inst], stop.inst)}
        /\ stop' \in {IdleStop, [stop EXCEPT !.pc = "record"]}
    BY <1>1 DEF StopCall
  <2>2. HostOf[stop.inst] \in Nodes BY <2>1, <1>t
  <2>3. vm' \in Vms BY <2>1, <2>2, <1>t, PowerOffStops
  <2>4. stop' \in Stops /\ (stop'.pc # "idle" => stop'.inst \in Insts /\ stop'.seen \in Rows)
    BY <2>1, <1>t, <1>i DEF Stops
  <2> QED BY <2>1, <2>3, <2>4, <1>m, <1>t
<1>2. CASE StopRecord
  <2> DEFINE new == [status |-> "inactive", port |-> None, mac |-> None]
  <2>1. /\ stop.pc = "record" /\ stop' = IdleStop /\ UNCHANGED <<vm, told, req, mon>>
        /\ row' = [row EXCEPT ![stop.inst] = Flushed(stop.inst, stop.seen, new)]
    BY <1>2 DEF StopRecord
  <2>2. new \in Rows BY DEF Rows, Statuses
  <2>3. Flushed(stop.inst, stop.seen, new) \in Rows BY <2>1, <2>2, <1>t, FlushedColumns
  <2>4. row' \in [Insts -> Rows] BY <2>1, <2>3, <1>t
  <2> QED BY <2>1, <2>4, <1>i, <1>m, <1>t
<1> QED BY <1>1, <1>2 DEF StopStep

\* What the monitor makes of a status is a status.
LEMMA CorrectedStatus ==
  ASSUME NEW status \in Statuses, NEW state PROVE Corrected(status, state) \in Statuses
BY DEF Corrected, Statuses

LEMMA TypeInvMonitor == ASSUME TypeInv, MonStep PROVE TypeInv'
<1>t. row \in [Insts -> Rows] /\ mon \in Mons /\ (mon.pc = "notify" => mon.inst \in Insts)
  BY DEF TypeInv, TypeOK, Mons
<1>m. ASSUME row' \in [Insts -> Rows], mon' \in Mons, mon'.pc = "notify" => mon'.inst \in Insts,
             UNCHANGED <<vm, told, req, stop>>
      PROVE TypeInv'
  BY <1>m DEF TypeInv, TypeOK, Mons
<1>i. IdleMon \in Mons /\ IdleMon.pc = "idle" BY DEF IdleMon, Mons
<1>h. ASSUME NEW i \in Insts PROVE MonHeld(i) \in Rows BY <1>t DEF MonHeld, Mons
<1>1. CASE MonLoad
  <2>1. mon' = [IdleMon EXCEPT !.pc = "poll", !.snap = row] /\ row' = row
    BY <1>1 DEF MonLoad
  <2>2. mon' \in Mons /\ mon'.pc = "poll" BY <2>1, <1>t DEF IdleMon, Mons
  <2> QED BY <1>1, <2>2, <1>m, <1>t DEF MonLoad
<1>2. ASSUME NEW n \in Nodes, MonPoll(n) PROVE TypeInv'
  <2>1. PollOf(n) \in SUBSET (Insts \X {"on", "off", "down"}) BY DEF PollOf
  <2>2. mon' = [mon EXCEPT !.pc = "apply", !.poll = PollOf(n)] BY <1>2 DEF MonPoll
  <2>3. mon' \in Mons /\ mon'.pc = "apply" BY <2>1, <2>2, <1>t DEF Mons
  <2> QED BY <1>2, <2>3, <1>m, <1>t DEF MonPoll
<1>3. ASSUME NEW n \in Nodes, MonPollFails(n) PROVE TypeInv'
  <2>1. CASE mon' = IdleMon BY <1>3, <2>1, <1>i, <1>m, <1>t DEF MonPollFails
  <2>2. CASE mon' # IdleMon
    <3> DEFINE down == {i \in Insts : HostOf[i] = n} \X {"down"}
    <3>1. mon' = [mon EXCEPT !.pc = "apply", !.poll = down] BY <1>3, <2>2 DEF MonPollFails
    <3>2. down \in SUBSET (Insts \X {"on", "off", "down"}) OBVIOUS
    <3> HIDE DEF down
    <3>3. mon' \in Mons /\ mon'.pc = "apply" BY <3>1, <3>2, <1>t DEF Mons
    <3> QED BY <1>3, <3>3, <1>m, <1>t DEF MonPollFails
  <2> QED BY <2>1, <2>2
<1>4. ASSUME NEW i \in Insts, NEW state \in {"on", "off", "down"}, MonApply(i, state) PROVE TypeInv'
  <2> DEFINE held == MonHeld(i)
             status == Corrected(held.status, state)
             new == [held EXCEPT !.status = status]
             written == [row EXCEPT ![i] = Flushed(i, held, new)]
             notify == state = "off" /\ held.mac # None
             p == IF notify THEN "notify" ELSE "apply"
             j == IF notify THEN i ELSE None
             snap == IF status # held.status
                     THEN [AllExpired EXCEPT ![i] = IF notify THEN written[i] ELSE None]
                     ELSE [mon.snap EXCEPT ![i] = held]
  <2>1. /\ row' = written /\ UNCHANGED <<vm, told, req, stop>>
        /\ mon' = [mon EXCEPT !.pc = p, !.poll = @ \ {<<i, state>>}, !.inst = j, !.snap = snap]
    BY <1>4, <1>t DEF MonApply, Mons
  <2>2. new \in Rows
    <3>1. held \in Rows BY <1>h
    <3>2. status \in Statuses BY <3>1, CorrectedStatus DEF Rows
    <3> HIDE DEF status, held
    <3> QED BY <3>1, <3>2 DEF Rows
  <2>3. written \in [Insts -> Rows]
    <3>1. Flushed(i, held, new) \in Rows BY <2>2, <1>h, <1>t, FlushedColumns
    <3> QED BY <3>1, <1>t
  <2>4. snap \in [Insts -> Rows \cup {None}]
    <3> HIDE DEF written, notify, status, new
    <3> QED BY <2>3, <1>h, <1>t DEF AllExpired, Mons
  <2>5. p \in {"notify", "apply"} /\ j \in Insts \cup {None} /\ (p = "notify" => j \in Insts)
    OBVIOUS
  <2> HIDE DEF snap, p, j, written
  <2>6. mon' \in Mons /\ (mon'.pc = "notify" => mon'.inst \in Insts)
    BY <2>1, <2>4, <2>5, <1>t DEF Mons
  <2> QED BY <2>1, <2>3, <2>6, <1>m
<1>5. CASE MonUnbind
  <2> DEFINE i == mon.inst
             new == [MonHeld(i) EXCEPT !.mac = None]
  <2>1. /\ i \in Insts /\ UNCHANGED <<vm, told, req, stop>>
        /\ row' = [row EXCEPT ![i] = Flushed(i, MonHeld(i), new)]
        /\ mon' = [mon EXCEPT !.pc = "apply", !.inst = None, !.snap = AllExpired]
    BY <1>5, <1>t DEF MonUnbind
  <2>2. MonHeld(i) \in Rows BY <2>1, <1>h
  <2>3. new \in Rows BY <2>2 DEF Rows
  <2>4. Flushed(i, MonHeld(i), new) \in Rows BY <2>1, <2>2, <2>3, <1>t, FlushedColumns
  <2>5. row' \in [Insts -> Rows] BY <2>1, <2>4, <1>t
  <2>6. mon' \in Mons /\ mon'.pc = "apply" BY <2>1, <1>t DEF Mons, AllExpired
  <2> QED BY <2>1, <2>5, <2>6, <1>m
<1>6. CASE MonEnd BY <1>6, <1>i, <1>m, <1>t DEF MonEnd
<1> QED BY <1>1, <1>2, <1>3, <1>4, <1>5, <1>6 DEF MonStep

LEMMA TypeInvEnvironment == ASSUME TypeInv, Environment \/ UNCHANGED vars PROVE TypeInv'
<1>t. vm \in Vms /\ told \in [Macs -> Told] BY DEF TypeInv, TypeOK, Vms, Told
<1>m. ASSUME vm' \in Vms, told' \in [Macs -> Told], UNCHANGED <<row, req, stop, mon>>
      PROVE TypeInv'
  BY <1>m DEF TypeInv, TypeOK, Vms, Told
<1>v. ASSUME NEW n \in Nodes, NEW i \in Insts, NEW m \in Macs \cup {None}, Running(n, i),
             vm' = [vm EXCEPT ![n][i].viewer = m]
      PROVE vm' \in Vms
  <2>1. vm[n][i] \in Domains BY <1>t DEF Vms
  <2>2. [vm[n][i] EXCEPT !.viewer = m] \in Domains
    BY <2>1, <1>v DEF Domains, Running, NoDomain, OffDomain
  <2> QED BY <2>2, <1>v, <1>t DEF Vms
<1>1. ASSUME NEW m \in Macs, Connect(m) PROVE TypeInv'
  <2> DEFINE i == told[m].inst
             n == HostOf[i]
  <2>1. /\ i \in Insts /\ n \in Nodes /\ told' = [told EXCEPT ![m] = None]
        /\ UNCHANGED <<row, req, stop, mon>>
        /\ vm' = IF Running(n, i) /\ vm[n][i].port = told[m].port
                 THEN [vm EXCEPT ![n][i].viewer = m] ELSE vm
    BY <1>1, <1>t DEF Connect, Told
  <2>2. told' \in [Macs -> Told] BY <2>1, <1>t DEF Told
  <2> HIDE DEF i, n
  <2>3. vm' \in Vms BY <2>1, <1>v, <1>t
  <2> QED BY <2>1, <2>2, <2>3, <1>m
<1>2. ASSUME NEW n \in Nodes, NEW i \in Insts, Disconnect(n, i) PROVE TypeInv'
  <2>1. vm[n][i] \in Domains BY <1>t DEF Vms
  <2>2. Running(n, i) BY <1>2, <2>1, DomainKinds DEF Disconnect, Running
  <2>3. vm' \in Vms BY <1>2, <2>2, <1>v DEF Disconnect
  <2> QED BY <1>2, <2>3, <1>m, <1>t DEF Disconnect
<1>3. ASSUME NEW n \in Nodes, NEW i \in Insts, GuestOff(n, i) PROVE TypeInv'
  <2>1. vm' \in Vms BY <1>3, <1>t, PowerOffStops DEF GuestOff
  <2> QED BY <1>3, <2>1, <1>m, <1>t DEF GuestOff
<1>4. CASE UNCHANGED vars BY <1>4, <1>m, <1>t DEF vars
<1> QED BY <1>1, <1>2, <1>3, <1>4 DEF Environment

LEMMA TypeInvNext == TypeInv /\ [Next]_vars => TypeInv'
BY TypeInvStep, TypeInvArrival, TypeInvStop, TypeInvMonitor, TypeInvEnvironment DEF Next

(* Types of the rows, the domains, the requests, the stop and the monitor's round,
   for any number of requests that overlap and any calls that fail.          *)
THEOREM Types == Spec => []TypeOK
<1>1. TypeInv => TypeOK BY DEF TypeInv
<1> QED BY <1>1, TypeInvInit, TypeInvNext, PTL DEF Spec

-----------------------------------------------------------------------------
(* A request works at its own seat: the desktop it opens, those it stops for it
   and, when the desktops of a seat share a node, the node it starts it on.  *)
SeatOnOneNode == \A i, j \in Insts : Seat[i] = Seat[j] => HostOf[i] = HostOf[j]

AtHome(q) ==
  q.pc # "idle" =>
    /\ q.node = HostOf[q.inst] /\ q.todo \subseteq Siblings(q.inst)
    /\ q.pc \in {"stop", "clear"} => q.sib \in q.todo

HomeInv ==
  /\ TypeInv /\ RunsAtHome
  /\ \A r \in Requests : AtHome(req[r])

\* Nothing is written of the desktops at other seats.
OnlyAt(seat) ==
  \A j \in Insts : Seat[j] # seat => row'[j] = row[j] /\ \A n \in Nodes : vm'[n][j] = vm[n][j]

\* No domain is started but that of desktop i at node n.
StartsOnly(n, i) ==
  \A k \in Nodes, j \in Insts : Running(k, j)' => Running(k, j) \/ (k = n /\ j = i)

\* What any step of a request may change: lemmas about single steps follow it.
LEMMA StepShape ==
  ASSUME TypeInv, NEW r \in Requests, AtHome(req[r]), Step(r)
  PROVE /\ req[r].pc # "idle" /\ UNCHANGED <<stop, mon>>
        /\ req' = [req EXCEPT ![r] = req'[r]]
        /\ \/ req'[r].pc = "idle"
           \/ /\ req'[r].pc # "link"
              /\ req'[r].inst = req[r].inst /\ req'[r].mac = req[r].mac
              /\ req'[r].todo \subseteq req[r].todo
              /\ req'[r].node \in {req[r].node} \cup {HostOf[s] : s \in req[r].todo}
              /\ req'[r].pc \in {"stop", "clear"} => req'[r].sib \in req'[r].todo
        /\ \/ told' = told
           \/ /\ req[r].pc = "answer" /\ req'[r].pc = "idle"
              /\ told' = [told EXCEPT ![req[r].mac] =
                            [inst |-> req[r].inst, port |-> req[r].port]]
        /\ OnlyAt(Seat[req[r].inst])
        /\ StartsOnly(req[r].node, req[r].inst)
<1> DEFINE q == req[r]
           seat == Seat[q.inst]
<1>t. /\ ReqOK(q) /\ q \in ReqRecs /\ AtHome(q)
      /\ row \in [Insts -> Rows] /\ vm \in Vms /\ told \in [Macs -> Told]
      /\ req \in [Requests -> ReqRecs]
  BY DEF TypeInv, TypeOK, ReqOK, Vms, Told, ReqRecs
<1> DEFINE Shape(n) ==
      \/ n.pc = "idle"
      \/ /\ n.pc # "link" /\ n.inst = q.inst /\ n.mac = q.mac
         /\ n.todo \subseteq q.todo
         /\ n.node \in {q.node} \cup {HostOf[s] : s \in q.todo}
         /\ n.pc \in {"stop", "clear"} => n.sib \in n.todo
<1> DEFINE Goal ==
      /\ req[r].pc # "idle" /\ UNCHANGED <<stop, mon>>
      /\ req' = [req EXCEPT ![r] = req'[r]]
      /\ Shape(req'[r])
      /\ \/ told' = told
         \/ /\ q.pc = "answer" /\ req'[r].pc = "idle"
            /\ told' = [told EXCEPT ![q.mac] = [inst |-> q.inst, port |-> q.port]]
      /\ OnlyAt(seat)
      /\ StartsOnly(q.node, q.inst)
<1> SUFFICES Goal
  OBVIOUS
<1>i. Shape(IdleRequest) BY DEF IdleRequest
<1>s. ASSUME UNCHANGED <<row, vm>> PROVE OnlyAt(seat) /\ StartsOnly(q.node, q.inst)
  BY <1>s DEF OnlyAt, StartsOnly, Running
<1>m. ASSUME NEW n, req' = [req EXCEPT ![r] = n], Shape(n), q.pc # "idle",
             UNCHANGED <<row, vm, told, stop, mon>>
      PROVE Goal
  <2>1. req'[r] = n BY <1>m, <1>t
  <2> HIDE DEF Shape
  <2> QED BY <2>1, <1>m, <1>s
<1>r. ASSUME Refuse(r), q.pc # "idle" PROVE Goal BY <1>r, <1>i, <1>m DEF Refuse
<1>1. CASE CheckLink(r)
  <2>1. q.pc = "link" BY <1>1 DEF CheckLink
  <2>2. CASE Refuse(r) BY <2>1, <2>2, <1>r
  <2>3. CASE Goto(r, "siblings")
    <3> DEFINE n == [q EXCEPT !.pc = "siblings"]
    <3>1. Shape(n) BY <1>t DEF ReqRecs
    <3> QED BY <2>1, <2>3, <3>1, <1>m, <1>t DEF Goto
  <2> QED BY <1>1, <2>2, <2>3 DEF CheckLink
<1>2. ASSUME NEW s \in Insts, ReadSibling(r, s) PROVE Goal
  <2>1. q.pc = "siblings" /\ s \in q.todo BY <1>2 DEF ReadSibling
  <2>2. CASE Refuse(r) BY <2>1, <2>2, <1>r
  <2>3. CASE q.mac # None
    <3> DEFINE p == IF row[s].status = "active" THEN "stop" ELSE "clear"
               k == IF row[s].status = "active" THEN HostOf[s] ELSE q.node
               n == [q EXCEPT !.pc = p, !.sib = s, !.sibSeen = row[s], !.node = k]
    <3>1. req' = [req EXCEPT ![r].pc = p, ![r].sib = s, ![r].sibSeen = row[s],
                             ![r].node = k]
          /\ UNCHANGED <<row, vm, told, stop, mon>>
      BY <1>2, <2>3 DEF ReadSibling
    <3>2. p \in {"stop", "clear"} /\ k \in {q.node, HostOf[s]} OBVIOUS
    <3> HIDE DEF p, k
    <3>3. req' = [req EXCEPT ![r] = n] BY <3>1, <1>t DEF ReqRecs
    <3>4. Shape(n) BY <2>1, <3>2, <1>t DEF ReqRecs
    <3> HIDE DEF n, Goal
    <3> QED BY <2>1, <3>1, <3>3, <3>4, <1>m
  <2>4. CASE q.mac = None /\ ~Refuse(r)
    <3> DEFINE n == [q EXCEPT !.todo = @ \ {s}]
    <3>1. req' = [req EXCEPT ![r].todo = @ \ {s}] /\ UNCHANGED <<row, vm, told, stop, mon>>
      BY <1>2, <2>4 DEF ReadSibling
    <3>2. req' = [req EXCEPT ![r] = n] BY <3>1, <1>t DEF ReqRecs
    <3>3. Shape(n) BY <2>1, <1>t DEF ReqRecs
    <3> HIDE DEF n, Goal
    <3> QED BY <2>1, <3>1, <3>2, <3>3, <1>m
  <2> QED BY <2>2, <2>3, <2>4
<1>3. CASE StopSibling(r)
  <2> DEFINE n == [q EXCEPT !.pc = "clear"]
  <2>1. q.pc = "stop" /\ UNCHANGED <<row, told, stop, mon>> /\ req' = [req EXCEPT ![r] = n]
        /\ vm' \in {vm, PoweredOff(HostOf[q.sib], q.sib)}
    BY <1>3, <1>t DEF StopSibling
  <2>2. q.sib \in Insts /\ HostOf[q.sib] \in Nodes /\ Seat[q.sib] = seat /\ q.sib \in q.todo
    BY <2>1, <1>t DEF ReqOK, AtHome, Siblings
  <2>3. OnlyAt(seat) BY <2>1, <2>2, <1>t, PowerOffStops DEF OnlyAt
  <2>4. StartsOnly(q.node, q.inst)
    BY <2>1, <2>2, <1>t, PowerOffStops DEF StartsOnly, Running
  <2>5. Shape(n) BY <2>2, <1>t DEF ReqRecs
  <2>6. req'[r] = n BY <2>1, <1>t
  <2> HIDE DEF n, Shape
  <2> QED BY <2>1, <2>3, <2>4, <2>5, <2>6
<1>4. CASE ClearSibling(r)
  <2> DEFINE n == [q EXCEPT !.pc = "siblings", !.todo = @ \ {q.sib}, !.seen = None,
                            !.sib = None, !.sibSeen = None]
  <2>1. PICK new :
          /\ q.pc = "clear" /\ UNCHANGED <<vm, told, stop, mon>>
          /\ row' = [row EXCEPT ![q.sib] = new] /\ req' = [req EXCEPT ![r] = n]
    BY <1>4, <1>t DEF ClearSibling, ReqRecs
  <2>2. q.sib \in Insts /\ Seat[q.sib] = seat BY <2>1, <1>t DEF ReqOK, AtHome, Siblings
  <2>3. OnlyAt(seat) /\ StartsOnly(q.node, q.inst)
    BY <2>1, <2>2, <1>t DEF OnlyAt, StartsOnly, Running
  <2>4. Shape(n) BY <1>t DEF ReqRecs
  <2>5. req'[r] = n BY <2>1, <1>t
  <2> HIDE DEF n, Shape
  <2> QED BY <2>1, <2>3, <2>4, <2>5
<1>5. CASE Prepare(r)
  <2>1. q.pc = "siblings" BY <1>5 DEF Prepare
  <2>2. CASE Refuse(r) BY <2>1, <2>2, <1>r
  <2>3. CASE ~Refuse(r)
    <3> DEFINE n == [q EXCEPT !.pc = "create", !.seen = Held(r)]
    <3>1. UNCHANGED <<row, vm, told, stop, mon>> /\ req' = [req EXCEPT ![r] = n]
      BY <1>5, <2>3, <1>t DEF Prepare
    <3>2. Shape(n) BY <1>t DEF ReqRecs
    <3> HIDE DEF n, Goal
    <3> QED BY <2>1, <3>1, <3>2, <1>m
  <2> QED BY <2>2, <2>3
<1>6. CASE Create(r)
  <2> DEFINE start == [vm EXCEPT ![q.node][q.inst] =
                         [state |-> "running", port |-> FreePort(q.node), viewer |-> None]]
  <2>1. q.pc = "create" /\ q.inst \in Insts /\ q.node \in Nodes /\ UNCHANGED <<row, told, stop, mon>>
    BY <1>6, <1>t DEF Create, ReqOK
  <2>2. \/ vm' = vm
        \/ vm' = start /\ FreePorts(q.node) # {}
    BY <1>6 DEF Create
  <2>3. OnlyAt(seat) /\ StartsOnly(q.node, q.inst)
    <3>1. CASE vm' = vm BY <2>1, <3>1, <1>s
    <3>2. CASE vm' = start /\ FreePorts(q.node) # {}
      <4>1. \A k \in Nodes, j \in Insts : k # q.node \/ j # q.inst => vm'[k][j] = vm[k][j]
        BY <2>1, <3>2, <1>t, StartTakesPort
      <4> QED BY <2>1, <4>1 DEF OnlyAt, StartsOnly, Running
    <3> QED BY <2>2, <3>1, <3>2
  <2>4. PICK p, port : req' = [req EXCEPT ![r].pc = p, ![r].port = port]
                       /\ p \in {"record", "error"}
    <3>1. CASE \E port : req' = [req EXCEPT ![r].pc = "record", ![r].port = port] BY <3>1
    <3>2. CASE req' = [req EXCEPT ![r].pc = "error"]
      <4>1. req' = [req EXCEPT ![r].pc = "error", ![r].port = q.port] BY <3>2, <1>t DEF ReqRecs
      <4> QED BY <4>1
    <3> QED BY <1>6, <3>1, <3>2 DEF Create
  <2> DEFINE n == [q EXCEPT !.pc = p, !.port = port]
  <2>5. Shape(n) BY <2>4, <1>t DEF ReqRecs
  <2>6. req' = [req EXCEPT ![r] = n] BY <2>4, <1>t DEF ReqRecs
  <2>7. req'[r] = n BY <2>6, <1>t
  <2> HIDE DEF n, Shape
  <2> QED BY <2>1, <2>3, <2>5, <2>6, <2>7
<1>7. CASE RecordError(r) \/ Record(r)
  <2> DEFINE m == [q EXCEPT !.pc = "answer", !.seen = None]
  <2>1. PICK new : q.pc \in {"error", "record"} /\ UNCHANGED <<vm, told, stop, mon>>
                   /\ row' = [row EXCEPT ![q.inst] = new]
    BY <1>7 DEF RecordError, Record
  <2>2. PICK n \in {IdleRequest, m} : req' = [req EXCEPT ![r] = n]
    BY <1>7, <1>t DEF RecordError, Record
  <2>3. OnlyAt(seat) /\ StartsOnly(q.node, q.inst)
    BY <2>1, <1>t DEF OnlyAt, StartsOnly, Running
  <2>4. Shape(n)
    <3>1. Shape(m) BY <1>t DEF ReqRecs
    <3> QED BY <2>2, <3>1, <1>i
  <2>5. req'[r] = n BY <2>2, <1>t
  <2> HIDE DEF m, Shape
  <2> QED BY <2>1, <2>2, <2>3, <2>4, <2>5
<1>8. CASE Answer(r)
  <2>1. /\ q.pc = "answer" /\ UNCHANGED <<vm, stop, mon>>
        /\ row' = [row EXCEPT ![q.inst] = [@ EXCEPT !.mac = q.mac]]
        /\ told' = [told EXCEPT ![q.mac] = [inst |-> q.inst, port |-> q.port]]
        /\ req' = [req EXCEPT ![r] = IdleRequest]
    BY <1>8 DEF Answer
  <2>2. OnlyAt(seat) /\ StartsOnly(q.node, q.inst)
    BY <2>1, <1>t DEF OnlyAt, StartsOnly, Running
  <2>3. req'[r] = IdleRequest /\ IdleRequest.pc = "idle" BY <2>1, <1>t DEF IdleRequest
  <2> QED BY <2>1, <2>2, <2>3
<1> HIDE DEF Goal
<1> QED BY <1>1, <1>2, <1>3, <1>4, <1>5, <1>6, <1>7, <1>8 DEF Step

LEMMA HomeInvInit == Init => HomeInv
<1> SUFFICES ASSUME Init PROVE HomeInv
  OBVIOUS
<1>1. \A n \in Nodes, i \in Insts : ~Running(n, i)
  BY DEF Init, Running, OffDomain, NoDomain
<1>2. \A r \in Requests : AtHome(req[r]) BY DEF Init, IdleRequest, AtHome
<1> QED BY <1>1, <1>2, TypeInvInit DEF HomeInv, RunsAtHome

LEMMA HomeInvNext == SeatOnOneNode /\ HomeInv /\ [Next]_vars => HomeInv'
<1> SUFFICES ASSUME SeatOnOneNode, HomeInv, [Next]_vars PROVE HomeInv'
  OBVIOUS
<1>t. /\ TypeInv /\ TypeInv' /\ RunsAtHome /\ vm \in Vms /\ req \in [Requests -> ReqRecs]
      /\ \A r \in Requests : AtHome(req[r]) /\ ReqOK(req[r])
      /\ stop \in Stops /\ (stop.pc # "idle" => stop.inst \in Insts)
      /\ told \in [Macs -> Told]
  BY TypeInvNext DEF HomeInv, TypeInv, TypeOK, Vms, ReqRecs, Stops, Told
<1>1. ASSUME NEW r \in Requests, Step(r) PROVE HomeInv'
  <2> DEFINE q == req[r]
             n == req'[r]
  <2>1. /\ q.pc # "idle"
        /\ req' = [req EXCEPT ![r] = n]
        /\ \/ n.pc = "idle"
           \/ /\ n.inst = q.inst /\ n.todo \subseteq q.todo
              /\ n.node \in {q.node} \cup {HostOf[s] : s \in q.todo}
              /\ n.pc \in {"stop", "clear"} => n.sib \in n.todo
        /\ StartsOnly(q.node, q.inst)
    BY <1>1, <1>t, StepShape
  <2>2. q.inst \in Insts /\ q.node = HostOf[q.inst] /\ q.todo \subseteq Siblings(q.inst)
    BY <2>1, <1>t DEF AtHome, ReqOK
  <2>3. \A s \in q.todo : HostOf[s] = HostOf[q.inst]
    BY <2>2 DEF Siblings, SeatOnOneNode
  <2>4. n.pc # "idle" => /\ n.node = HostOf[n.inst] /\ n.todo \subseteq Siblings(n.inst)
                         /\ n.pc \in {"stop", "clear"} => n.sib \in n.todo
    BY <2>1, <2>2, <2>3
  <2>5. \A s \in Requests : AtHome(req'[s])
    <3>1. \A s \in Requests \ {r} : req'[s] = req[s] BY <2>1, <1>t
    <3> QED BY <2>4, <3>1, <1>t DEF AtHome
  <2>6. RunsAtHome' BY <2>1, <2>2, <1>t DEF RunsAtHome, StartsOnly
  <2>7. \A s \in Requests : AtHome(req[s])' BY <2>5 DEF AtHome, Siblings
  <2> QED BY <2>6, <2>7, <1>t DEF HomeInv
<1>2. ASSUME UNCHANGED req, \A n \in Nodes, i \in Insts : Running(n, i)' => Running(n, i)
      PROVE HomeInv'
  <2>1. \A s \in Requests : AtHome(req[s])' BY <1>2, <1>t DEF AtHome, Siblings
  <2> QED BY <2>1, <1>2, <1>t DEF HomeInv, RunsAtHome
<1>3. CASE StopStep
  <2>1. UNCHANGED req BY <1>3 DEF StopStep, StopCall, StopRecord
  <2>2. \A n \in Nodes, i \in Insts : Running(n, i)' => Running(n, i)
    <3>1. CASE vm' = vm BY <3>1 DEF Running
    <3>2. CASE vm' = PoweredOff(HostOf[stop.inst], stop.inst) /\ stop.pc = "call"
      <4>1. stop.inst \in Insts /\ HostOf[stop.inst] \in Nodes BY <3>2, <1>t
      <4> QED BY <3>2, <4>1, <1>t, PowerOffStops DEF Running
    <3> QED BY <1>3, <3>1, <3>2 DEF StopStep, StopCall, StopRecord
  <2> QED BY <2>1, <2>2, <1>2
<1>4. CASE MonStep
  <2>1. UNCHANGED <<vm, req>>
    BY <1>4 DEF MonStep, MonLoad, MonPoll, MonPollFails, MonApply, MonUnbind, MonEnd
  <2> QED BY <2>1, <1>2 DEF Running
<1>5. CASE Arrival
  <2>1. ASSUME NEW i \in Insts, StopBegin(i) PROVE HomeInv'
    BY <2>1, <1>2 DEF StopBegin, Running
  <2>2. ASSUME NEW r \in Requests, NEW i \in Insts, NEW n, req' = [req EXCEPT ![r] = n],
               n.pc \in {"siblings", "link"}, n.inst = i, n.node = HostOf[i],
               n.todo = Siblings(i), UNCHANGED vm
        PROVE HomeInv'
    <3>1. \A s \in Requests : AtHome(req'[s]) BY <2>2, <1>t DEF AtHome
    <3>2. \A s \in Requests : AtHome(req[s])' BY <3>1 DEF AtHome, Siblings
    <3> QED BY <2>2, <3>2, <1>t DEF HomeInv, RunsAtHome, Running
  <2>3. ASSUME NEW r \in Requests, NEW i \in Insts, AdminStart(r, i) PROVE HomeInv'
    <3> DEFINE n == [IdleRequest EXCEPT !.pc = "siblings", !.inst = i, !.seen = row[i],
                                        !.node = HostOf[i], !.todo = Siblings(i)]
    <3>1. n.pc = "siblings" /\ n.inst = i /\ n.node = HostOf[i] /\ n.todo = Siblings(i)
      BY DEF IdleRequest
    <3>2. req' = [req EXCEPT ![r] = n] /\ UNCHANGED vm BY <2>3 DEF AdminStart
    <3> HIDE DEF n
    <3> QED BY <3>1, <3>2, <2>2
  <2>4. ASSUME NEW r \in Requests, NEW i \in Insts, NEW m \in Macs, Open(r, i, m) PROVE HomeInv'
    <3> DEFINE n == [IdleRequest EXCEPT !.pc = "link", !.inst = i, !.mac = m, !.seen = row[i],
                                        !.node = HostOf[i], !.todo = Siblings(i)]
    <3>1. n.pc = "link" /\ n.inst = i /\ n.node = HostOf[i] /\ n.todo = Siblings(i)
      BY DEF IdleRequest
    <3>2. req' = [req EXCEPT ![r] = n] /\ UNCHANGED vm BY <2>4 DEF Open
    <3> HIDE DEF n
    <3> QED BY <3>1, <3>2, <2>2
  <2> QED BY <1>5, <2>1, <2>3, <2>4 DEF Arrival
<1>6. CASE Environment
  <2>1. UNCHANGED req BY <1>6 DEF Environment, Connect, Disconnect, GuestOff
  <2>2. \A k \in Nodes, j \in Insts : Running(k, j)' => Running(k, j)
    <3>1. ASSUME NEW m \in Macs, Connect(m) PROVE \A k \in Nodes, j \in Insts : Running(k, j)' => Running(k, j)
      <4>1. told[m].inst \in Insts /\ HostOf[told[m].inst] \in Nodes
        BY <3>1, <1>t DEF Connect, Told
      <4>2. vm' = vm \/ vm' = [vm EXCEPT ![HostOf[told[m].inst]][told[m].inst].viewer = m]
        BY <3>1 DEF Connect
      <4>3. CASE vm' = vm BY <4>3 DEF Running
      <4>4. CASE vm' = [vm EXCEPT ![HostOf[told[m].inst]][told[m].inst].viewer = m]
        BY <4>1, <4>4, <1>t DEF Running, Vms
      <4> QED BY <4>2, <4>3, <4>4
    <3>2. ASSUME NEW n \in Nodes, NEW i \in Insts, Disconnect(n, i)
          PROVE \A k \in Nodes, j \in Insts : Running(k, j)' => Running(k, j)
      BY <3>2, <1>t DEF Disconnect, Running, Vms
    <3>3. ASSUME NEW n \in Nodes, NEW i \in Insts, GuestOff(n, i)
          PROVE \A k \in Nodes, j \in Insts : Running(k, j)' => Running(k, j)
      BY <3>3, <1>t, PowerOffStops DEF GuestOff, Running
    <3> QED BY <1>6, <3>1, <3>2, <3>3 DEF Environment
  <2> QED BY <2>1, <2>2, <1>2
<1>7. CASE UNCHANGED vars BY <1>7, <1>2 DEF vars, Running
<1> QED BY <1>1, <1>3, <1>4, <1>5, <1>6, <1>7 DEF Next

(* create_instance takes the node to start on from the desktop it stopped last, so
   that a desktop can end up on another one's node.  It does not when the desktops
   of a seat are on one node, whatever handlers overlap and whatever fails.  *)
THEOREM StartsAtHome == SeatOnOneNode /\ Spec => []RunsAtHome
<1> SUFFICES ASSUME SeatOnOneNode PROVE Spec => []RunsAtHome
  OBVIOUS
<1>1. HomeInv /\ [Next]_vars => HomeInv' BY HomeInvNext
<1>2. HomeInv => RunsAtHome BY DEF HomeInv
<1> QED BY <1>1, <1>2, HomeInvInit, PTL DEF Spec

-----------------------------------------------------------------------------
(* What holds at a seat whose handlers run one after the other, none of them during
   a round of the monitor, when the nodes answer.                            *)
Answered == ~Failures

Domain(i) == vm[HostOf[i]][i]
On(i) == Running(HostOf[i], i)

At(q, seat) == q.pc # "idle" /\ Seat[q.inst] = seat
TellAt(t, seat) == t # None /\ Seat[t.inst] = seat

\* HandlersAt counts the handlers; what the proofs use is that two are the same.
Alone(seat) == \A x, y \in HandlersAt(seat) : x = y

\* A desktop that runs is recorded as active, or the request that started it is
\* about to; whoever is connected is named by the row, with the port.
StatusOK(i) ==
  On(i) => \/ row[i].status = "active"
           \/ \E r \in Requests : req[r].pc = "record" /\ req[r].inst = i
ViewerOK(i) ==
  Domain(i).viewer # None => row[i].port = Domain(i).port /\ row[i].mac = Domain(i).viewer

\* What a request has read is still so; the other desktops of the seat are off or
\* still to be looked at; nobody but its terminal is connected to its desktop.
Serving(q) ==
  LET i == q.inst IN
  /\ q.pc \in {"link", "create", "record", "error"} => q.seen = row[i]
  /\ q.pc # "answer" => q.seen \in {None, row[i]}
  /\ \A s \in Siblings(i) : On(s) => s \in q.todo
  /\ q.pc \in {"stop", "clear"} => q.sibSeen = row[q.sib]
  /\ q.pc = "clear" => ~On(q.sib)
  /\ q.pc \in {"create", "record", "error", "answer"} => q.todo = {}
  /\ q.pc = "error" => ~On(i)
  /\ q.pc = "record" => Domain(i).port \in {None, q.port}
  /\ q.pc = "answer" => row[i].port = q.port
  /\ q.pc # "link" /\ q.mac # None => Domain(i).viewer \in {None, q.mac}

Stopping(s) == s.seen = row[s.inst] /\ (s.pc = "record" => ~On(s.inst))

\* A terminal that was told of a desktop: the row names it, the desktop is free.
Landing(m, t) ==
  row[t.inst].mac = m /\ row[t.inst].port = t.port /\ Domain(t.inst).viewer \in {None, m}

SeatOK(seat) ==
  /\ Alone(seat)
  /\ \A i, j \in Insts : Seat[i] = seat /\ Seat[j] = seat /\ On(i) /\ On(j) => i = j
  /\ \A i \in Insts : Seat[i] = seat => StatusOK(i) /\ ViewerOK(i)
  /\ \A r \in Requests : At(req[r], seat) => Serving(req[r])
  /\ At(stop, seat) => Stopping(stop)
  /\ \A m \in Macs : TellAt(told[m], seat) => Landing(m, told[m])

\* The monitor's round: the rows it holds are current, what it found off is off.
RoundOK ==
  mon.pc # "idle" =>
    /\ \A i \in Insts : HandlersAt(Seat[i]) = {} /\ mon.snap[i] \in {None, row[i]}
    /\ \A e \in mon.poll : e[2] # "down" /\ (e[2] = "off" => ~On(e[1]))
    /\ mon.pc = "notify" => ~On(mon.inst)

SeatInv ==
  /\ HomeInv /\ RoundOK
  /\ \A i \in Insts : SeatOK(Seat[i])

LEMMA AtMostOne ==
  ASSUME NEW S, IsFiniteSet(S), Cardinality(S) <= 1
  PROVE \A x, y \in S : x = y
<1> SUFFICES ASSUME NEW x \in S, NEW y \in S, x # y PROVE FALSE
  OBVIOUS
<1>1. IsFiniteSet({x}) /\ Cardinality({x}) = 1 BY FS_Singleton
<1>2. Cardinality({x} \cup {y}) = 2
  <2>1. Cardinality({x} \cup {y}) = IF y \in {x} THEN Cardinality({x}) ELSE Cardinality({x}) + 1
    BY <1>1, FS_AddElement
  <2> QED BY <1>1, <2>1
<1>3. {x} \cup {y} \in SUBSET S OBVIOUS
<1>4. Cardinality({x} \cup {y}) <= Cardinality(S) BY <1>3, FS_Subset
<1>5. Cardinality(S) \in Nat BY FS_CardinalityType
<1> QED BY <1>2, <1>4, <1>5

LEMMA OneIsFinite ==
  ASSUME NEW S, \A x, y \in S : x = y
  PROVE IsFiniteSet(S)
<1>1. CASE S = {} BY <1>1, FS_EmptySet
<1>2. CASE S # {}
  <2>1. PICK x \in S : S = {x} BY <1>2
  <2> QED BY <2>1, FS_Singleton
<1> QED BY <1>1, <1>2

LEMMA Handling ==
  ASSUME NEW seat
  PROVE /\ \A r \in Requests : r \in HandlersAt(seat) <=> At(req[r], seat)
        /\ "stop" \in HandlersAt(seat) <=> At(stop, seat)
        /\ \A m \in Macs : m \in HandlersAt(seat) <=> TellAt(told[m], seat)
        /\ HandlersAt(seat) \subseteq Requests \cup {"stop"} \cup Macs
BY DEF HandlersAt, At, TellAt

LEMMA HandlingNext ==
  ASSUME NEW seat
  PROVE /\ \A r \in Requests : r \in HandlersAt(seat)' <=> At(req'[r], seat)
        /\ "stop" \in HandlersAt(seat)' <=> At(stop', seat)
        /\ \A m \in Macs : m \in HandlersAt(seat)' <=> TellAt(told'[m], seat)
        /\ HandlersAt(seat)' \subseteq Requests \cup {"stop"} \cup Macs
BY DEF HandlersAt, At, TellAt

LEMMA OnlyRequest ==
  ASSUME NEW seat, Alone(seat), NEW r \in Requests, At(req[r], seat)
  PROVE /\ \A s \in Requests \ {r} : ~At(req[s], seat)
        /\ ~At(stop, seat) /\ \A m \in Macs : ~TellAt(told[m], seat)
<1>1. r \in HandlersAt(seat) BY Handling
<1>2. \A x \in HandlersAt(seat) : x = r BY <1>1 DEF Alone
<1> QED BY <1>2, Handling

LEMMA OnlyStop ==
  ASSUME NEW seat, Alone(seat), At(stop, seat)
  PROVE /\ \A s \in Requests : ~At(req[s], seat)
        /\ \A m \in Macs : ~TellAt(told[m], seat)
<1>1. "stop" \in HandlersAt(seat) BY Handling
<1>2. \A x \in HandlersAt(seat) : x = "stop" BY <1>1 DEF Alone
<1> QED BY <1>2, Handling

LEMMA OnlyTold ==
  ASSUME NEW seat, Alone(seat), NEW m \in Macs, TellAt(told[m], seat)
  PROVE /\ \A s \in Requests : ~At(req[s], seat)
        /\ ~At(stop, seat) /\ \A k \in Macs \ {m} : ~TellAt(told[k], seat)
<1>1. m \in HandlersAt(seat) BY Handling
<1>2. \A x \in HandlersAt(seat) : x = m BY <1>1 DEF Alone
<1> QED BY <1>2, Handling

\* No connection is new, none changes its port, and no domain starts.
Shrinks ==
  \A n \in Nodes, j \in Insts :
    /\ Running(n, j)' => Running(n, j)
    /\ vm'[n][j].viewer \in {None, vm[n][j].viewer}
    /\ vm'[n][j].port \in {None, vm[n][j].port}
    /\ vm'[n][j].viewer # None => vm'[n][j].port = vm[n][j].port

LEMMA OffShrinks ==
  ASSUME vm \in Vms, NEW n \in Nodes, NEW i \in Insts, vm' = PoweredOff(n, i)
  PROVE Shrinks /\ ~Running(n, i)'
<1>1. /\ vm' \in Vms /\ vm'[n][i].state # "running"
      /\ \A k \in Nodes, j \in Insts : k # n \/ j # i => vm'[k][j] = vm[k][j]
  BY PowerOffStops
<1>2. vm'[n][i] \in Domains BY <1>1 DEF Vms
<1>3. vm'[n][i].port = None /\ vm'[n][i].viewer = None BY <1>1, <1>2, DomainKinds
<1> QED BY <1>1, <1>3 DEF Shrinks, Running

LEMMA ShrinkKeeps ==
  ASSUME Shrinks, UNCHANGED row
  PROVE /\ \A i \in Insts : On(i)' => On(i)
        /\ \A i \in Insts : ViewerOK(i) => ViewerOK(i)'
        /\ \A q : ReqOK(q) /\ AtHome(q) /\ q.pc # "idle" /\ Serving(q) => Serving(q)'
        /\ \A s \in Stops : s.inst \in Insts /\ Stopping(s) => Stopping(s)'
        /\ \A m \in Macs, t \in Told : t # None /\ Landing(m, t) => Landing(m, t)'
<1>1. \A i \in Insts : HostOf[i] \in Nodes OBVIOUS
<1>2. \A i \in Insts : /\ On(i)' => On(i)
                       /\ Domain(i)'.viewer \in {None, Domain(i).viewer}
                       /\ Domain(i)'.port \in {None, Domain(i).port}
                       /\ Domain(i)'.viewer # None => Domain(i)'.port = Domain(i).port
  BY <1>1 DEF Shrinks, On, Domain
<1>3. \A i \in Insts : ViewerOK(i) => ViewerOK(i)' BY <1>2 DEF ViewerOK
<1>4. ASSUME NEW q, ReqOK(q), AtHome(q), q.pc # "idle", Serving(q) PROVE Serving(q)'
  <2>1. q.inst \in Insts /\ Siblings(q.inst) \subseteq Insts
        /\ (q.pc \in {"stop", "clear"} => q.sib \in Insts)
    BY <1>4 DEF ReqOK, Siblings
  <2>2. Siblings(q.inst)' = Siblings(q.inst) BY DEF Siblings
  <2> HIDE DEF Siblings
  <2> QED BY <1>2, <1>4, <2>1, <2>2 DEF Serving
<1>5. \A s \in Stops : s.inst \in Insts /\ Stopping(s) => Stopping(s)' BY <1>2 DEF Stopping
<1>6. \A m \in Macs, t \in Told : t # None /\ Landing(m, t) => Landing(m, t)'
  BY <1>2 DEF Landing, Told
<1> QED BY <1>2, <1>3, <1>4, <1>5, <1>6

\* A seat at which nothing is written and no handler begins stays as it is.
LEMMA ElsewhereStays ==
  ASSUME HomeInv, NEW seat, SeatOK(seat),
         \A j \in Insts : Seat[j] = seat =>
                            row'[j] = row[j] /\ \A n \in Nodes : vm'[n][j] = vm[n][j],
         \A r \in Requests : req'[r] = req[r] \/ (~At(req[r], seat) /\ ~At(req'[r], seat)),
         stop' = stop \/ ~At(stop', seat),
         \A m \in Macs : told'[m] = told[m] \/ ~TellAt(told'[m], seat)
  PROVE SeatOK(seat)'
<1>t. /\ \A r \in Requests : ReqOK(req[r]) /\ AtHome(req[r])
      /\ (stop.pc # "idle" => stop.inst \in Insts) /\ told \in [Macs -> Told]
  BY DEF HomeInv, TypeInv, TypeOK, Told
<1>1. \A j \in Insts : Seat[j] = seat =>
        row'[j] = row[j] /\ Domain(j)' = Domain(j) /\ (On(j)' <=> On(j))
  BY DEF Domain, On, Running
<1>2. Alone(seat)'
  <2>1. HandlersAt(seat)' \subseteq HandlersAt(seat)
    <3> SUFFICES ASSUME NEW x \in HandlersAt(seat)' PROVE x \in HandlersAt(seat)
      OBVIOUS
    <3>1. x \in Requests \/ x = "stop" \/ x \in Macs BY HandlingNext
    <3> QED BY <3>1, Handling, HandlingNext
  <2> QED BY <2>1 DEF SeatOK, Alone
<1>3. \A i, j \in Insts : Seat[i] = seat /\ Seat[j] = seat /\ On(i)' /\ On(j)' => i = j
  BY <1>1 DEF SeatOK
<1>4. ASSUME NEW i \in Insts, Seat[i] = seat PROVE StatusOK(i)' /\ ViewerOK(i)'
  <2>1. StatusOK(i) /\ ViewerOK(i) BY <1>4 DEF SeatOK
  <2>2. ASSUME NEW r \in Requests, req[r].pc = "record", req[r].inst = i PROVE req'[r] = req[r]
    BY <1>4, <2>2 DEF At
  <2>3. StatusOK(i)' BY <1>1, <1>4, <2>1, <2>2 DEF StatusOK
  <2>4. ViewerOK(i)' BY <1>1, <1>4, <2>1 DEF ViewerOK
  <2> QED BY <2>3, <2>4
<1>5. ASSUME NEW r \in Requests, At(req'[r], seat) PROVE Serving(req[r])'
  <2>1. PICK q : q = req[r] /\ req'[r] = q BY <1>5
  <2>2. /\ q.inst \in Insts /\ Seat[q.inst] = seat
        /\ Serving(q) /\ ReqOK(q) /\ AtHome(q) /\ q.pc # "idle"
    BY <1>5, <2>1, <1>t DEF SeatOK, At, ReqOK
  <2>3. \A s \in Siblings(q.inst) : s \in Insts /\ Seat[s] = seat BY <2>2 DEF Siblings
  <2>4. q.pc \in {"stop", "clear"} => q.sib \in Siblings(q.inst) BY <2>2 DEF AtHome
  <2>5. Siblings(q.inst)' = Siblings(q.inst) BY DEF Siblings
  <2>6. Serving(q)' BY <1>1, <2>2, <2>3, <2>4, <2>5 DEF Serving
  <2> QED BY <2>1, <2>6 DEF Serving, Siblings, On, Domain
<1>6. ASSUME At(stop', seat) PROVE Stopping(stop)'
  <2>1. stop' = stop /\ stop.inst \in Insts /\ Seat[stop.inst] = seat /\ Stopping(stop)
    BY <1>6, <1>t DEF At, SeatOK
  <2> QED BY <1>1, <2>1 DEF Stopping
<1>7. ASSUME NEW m \in Macs, TellAt(told'[m], seat) PROVE Landing(m, told[m])'
  <2>1. told'[m] = told[m] /\ told[m].inst \in Insts /\ Seat[told[m].inst] = seat
        /\ Landing(m, told[m])
    BY <1>7, <1>t DEF TellAt, SeatOK, Told
  <2> QED BY <1>1, <2>1 DEF Landing
<1> QED BY <1>2, <1>3, <1>4, <1>5, <1>6, <1>7 DEF SeatOK, At, TellAt

LEMMA SeatInvStep ==
  ASSUME Answered, SeatOnOneNode, SeatInv, NEW r \in Requests, Step(r) PROVE SeatInv'
<1>t. /\ HomeInv /\ TypeInv /\ RoundOK
      /\ row \in [Insts -> Rows] /\ vm \in Vms /\ told \in [Macs -> Told]
      /\ req \in [Requests -> ReqRecs] /\ ReqOK(req[r]) /\ AtHome(req[r])
  BY DEF SeatInv, HomeInv, TypeInv, TypeOK, Vms, Told, ReqRecs
<1>h. HomeInv' /\ vm' \in Vms
  <2>1. HomeInv' BY <1>t, HomeInvNext DEF Next
  <2> QED BY <2>1 DEF HomeInv, TypeInv, TypeOK, Vms
<1>q. PICK q : q = req[r] OBVIOUS
<1>n. PICK n : n = req'[r] OBVIOUS
<1>a. /\ q.pc # "idle" /\ UNCHANGED <<stop, mon>> /\ req' = [req EXCEPT ![r] = n]
      /\ \/ n.pc = "idle"
         \/ n.inst = q.inst /\ n.pc # "link" /\ n.mac = q.mac /\ n.todo \subseteq q.todo
      /\ \/ told' = told
         \/ /\ q.pc = "answer" /\ n.pc = "idle"
            /\ told' = [told EXCEPT ![q.mac] = [inst |-> q.inst, port |-> q.port]]
      /\ OnlyAt(Seat[q.inst])
      /\ StartsOnly(q.node, q.inst)
  BY <1>q, <1>n, <1>t, StepShape DEF OnlyAt
<1>i. PICK i \in Insts : i = q.inst BY <1>a, <1>q, <1>t DEF ReqOK
<1>s. PICK seat : seat = Seat[i] OBVIOUS
<1>o. /\ SeatOK(seat) /\ Serving(q) /\ At(q, seat)
      /\ \A s \in Requests \ {r} : ~At(req[s], seat) /\ req'[s] = req[s]
      /\ ~At(stop, seat) /\ \A m \in Macs : ~TellAt(told[m], seat)
      /\ mon.pc = "idle"
  <2>1. SeatOK(seat) /\ At(q, seat) BY <1>a, <1>i, <1>s DEF SeatInv, At
  <2>2. Serving(q) BY <2>1, <1>q DEF SeatOK
  <2>3. Alone(seat) BY <2>1 DEF SeatOK
  <2>4. r \in HandlersAt(seat) BY <2>1, <1>q, Handling
  <2>5. mon.pc = "idle" BY <2>4, <1>s, <1>t DEF RoundOK
  <2>6. \A s \in Requests \ {r} : req'[s] = req[s] BY <1>a, <1>t
  <2> QED BY <2>1, <2>2, <2>3, <2>5, <2>6, <1>q, OnlyRequest
<1>e. ASSUME NEW j \in Insts, Seat[j] # seat PROVE SeatOK(Seat[j])'
  <2>1. PICK T : T = Seat[j] OBVIOUS
  <2>2. SeatOK(T) /\ T # seat BY <2>1, <1>e DEF SeatInv
  <2>3. \A k \in Insts : Seat[k] = T =>
          row'[k] = row[k] /\ \A x \in Nodes : vm'[x][k] = vm[x][k]
    BY <2>2, <1>a, <1>i, <1>s DEF OnlyAt
  <2>4. \A s \in Requests : req'[s] = req[s] \/ (~At(req[s], T) /\ ~At(req'[s], T))
    <3>1. ~At(q, T) /\ ~At(n, T) BY <2>2, <1>a, <1>i, <1>s DEF At
    <3> QED BY <3>1, <1>o, <1>q, <1>n
  <2>5. \A m \in Macs : told'[m] = told[m] \/ ~TellAt(told'[m], T)
    BY <2>2, <1>a, <1>i, <1>s, <1>t DEF TellAt
  <2>6. SeatOK(T)' BY <2>2, <2>3, <2>4, <2>5, <1>a, <1>t, ElsewhereStays
  <2>7. T = Seat[j] => SeatOK(Seat[j])' BY <2>6
  <2> QED BY <2>1, <2>7
<1>z. ASSUME \A j, k \in Insts : Seat[j] = seat /\ Seat[k] = seat /\ On(j)' /\ On(k)' => j = k,
             \A j \in Insts : Seat[j] = seat => StatusOK(j)' /\ ViewerOK(j)',
             n.pc # "idle" => Serving(n)',
             \A m \in Macs : \A t : t = told'[m] /\ t # told[m] => Landing(m, t)'
      PROVE SeatInv'
  <2>1. Alone(seat)'
    <3>1. CASE told' = told
      <4>1. HandlersAt(seat)' \subseteq {r}
        <5> SUFFICES ASSUME NEW x \in HandlersAt(seat)', x # r PROVE FALSE
          OBVIOUS
        <5>1. x \in Requests \/ x = "stop" \/ x \in Macs BY HandlingNext
        <5> QED BY <5>1, <3>1, <1>a, <1>o, HandlingNext
      <4> QED BY <4>1 DEF Alone
    <3>2. CASE told' # told
      <4>1. n.pc = "idle" /\ told' = [told EXCEPT ![q.mac] = [inst |-> q.inst, port |-> q.port]]
        BY <3>2, <1>a
      <4>2. HandlersAt(seat)' \subseteq {q.mac}
        <5> SUFFICES ASSUME NEW x \in HandlersAt(seat)', x # q.mac PROVE FALSE
          OBVIOUS
        <5>1. x \in Requests \/ x = "stop" \/ x \in Macs BY HandlingNext
        <5>2. x \notin Requests
          <6>1. \A s \in Requests : ~At(req'[s], seat) BY <4>1, <1>o, <1>n DEF At
          <6> QED BY <6>1, HandlingNext
        <5>3. x # "stop" BY <1>a, <1>o, HandlingNext
        <5>4. CASE x \in Macs
          <6>1. told'[x] = told[x] BY <4>1, <5>4, <1>t
          <6> QED BY <5>4, <6>1, <1>o, HandlingNext
        <5> QED BY <5>1, <5>2, <5>3, <5>4
      <4> QED BY <4>2 DEF Alone
    <3> QED BY <3>1, <3>2
  <2>2. \A s \in Requests : At(req'[s], seat) => s = r /\ n.pc # "idle" BY <1>o, <1>n DEF At
  <2>3. \A s \in Requests : At(req'[s], seat) => Serving(req[s])'
    <3> SUFFICES ASSUME NEW s \in Requests, At(req'[s], seat) PROVE Serving(req[s])'
      OBVIOUS
    <3>1. req'[s] = n /\ Serving(n)' BY <2>2, <1>z, <1>n
    <3> QED BY <3>1 DEF Serving, Siblings, On, Domain
  <2>4. ~At(stop', seat) BY <1>a, <1>o
  <2>5. \A m \in Macs : TellAt(told'[m], seat) => Landing(m, told[m])'
    <3> SUFFICES ASSUME NEW m \in Macs, TellAt(told'[m], seat) PROVE Landing(m, told[m])'
      OBVIOUS
    <3>1. PICK t : t = told'[m] OBVIOUS
    <3>2. t # told[m] BY <3>1, <1>o
    <3>3. Landing(m, t)' BY <3>1, <3>2, <1>z
    <3> QED BY <3>1, <3>3 DEF Landing, Domain
  <2>6. SeatOK(seat)' BY <2>1, <2>3, <2>4, <2>5, <1>z DEF SeatOK, At, TellAt
  <2>7. \A j \in Insts : SeatOK(Seat[j])'
    <3> SUFFICES ASSUME NEW j \in Insts PROVE SeatOK(Seat[j])'
      OBVIOUS
    <3>1. CASE Seat[j] = seat
      <4>1. seat = Seat[j] => SeatOK(Seat[j])' BY <2>6
      <4> QED BY <3>1, <4>1
    <3> QED BY <3>1, <1>e
  <2>8. RoundOK' BY <1>a, <1>o DEF RoundOK
  <2> QED BY <2>7, <2>8, <1>h DEF SeatInv
<1>d. /\ HostOf[i] \in Nodes /\ Siblings(i) \subseteq Insts /\ i \notin Siblings(i)
      /\ \A s \in Siblings(i) : Seat[s] = seat
      /\ \A j \in Insts : Seat[j] = seat => j = i \/ j \in Siblings(i)
      /\ \A j \in Insts : HostOf[j] \in Nodes /\ Domain(j) \in Domains
      /\ \A j \in Insts : Seat[j] = seat => StatusOK(j) /\ ViewerOK(j)
      /\ \A j, k \in Insts : Seat[j] = seat /\ Seat[k] = seat /\ On(j) /\ On(k) => j = k
  BY <1>i, <1>s, <1>o, <1>t DEF Siblings, Domain, Vms, SeatOK
<1>k. q.pc # "record" => \A j \in Insts : Seat[j] = seat /\ On(j) => row[j].status = "active"
  <2> SUFFICES ASSUME q.pc # "record", NEW j \in Insts, Seat[j] = seat, On(j)
               PROVE row[j].status = "active"
    OBVIOUS
  <2>1. ASSUME NEW s \in Requests, req[s].pc = "record", req[s].inst = j PROVE FALSE
    BY <2>1, <1>o, <1>q DEF At
  <2> QED BY <2>1, <1>d DEF StatusOK
<1>v. \A j \in Insts : Domain(j).viewer # None => On(j) /\ Domain(j).port \in Ports
  BY <1>d, DomainKinds DEF On, Running, Domain
\* the state is read, or only the request changes
<1>f. ASSUME UNCHANGED <<row, vm, told>>, q.pc # "record", n.pc # "idle" => Serving(n)
      PROVE SeatInv'
  <2>1. \A j \in Insts : Seat[j] = seat => StatusOK(j)' /\ ViewerOK(j)'
    BY <1>f, <1>d, <1>k DEF StatusOK, ViewerOK, On, Domain, Running
  <2>2. \A j, k \in Insts : Seat[j] = seat /\ Seat[k] = seat /\ On(j)' /\ On(k)' => j = k
    BY <1>f, <1>d DEF On, Running
  <2>3. n.pc # "idle" => Serving(n)' BY <1>f DEF Serving, Siblings, On, Running, Domain
  <2> QED BY <1>f, <2>1, <2>2, <2>3, <1>z
<1>r. ASSUME Refuse(r), q.pc # "record" PROVE SeatInv'
  <2>1. UNCHANGED <<row, vm, told>> /\ n.pc = "idle"
    BY <1>r, <1>n, <1>t DEF Refuse, IdleRequest
  <2> QED BY <2>1, <1>r, <1>f
<1>1. CASE CheckLink(r)
  <2>1. q.pc = "link" /\ q.seen = row[i] BY <1>1, <1>q, <1>i, <1>o DEF CheckLink, Serving
  <2>2. CASE Refuse(r) BY <2>1, <2>2, <1>r
  <2>3. CASE ~Refuse(r)
    <3> DEFINE online == q.seen.port # None /\ Linked(HostOf[i], q.seen.port)
               other == q.seen.mac \notin {None, q.mac}
    <3>1. ~(online /\ other) /\ Goto(r, "siblings")
      BY <1>1, <2>3, <1>q, <1>i DEF CheckLink, Answered
    <3>2. UNCHANGED <<row, vm, told>> /\ n = [q EXCEPT !.pc = "siblings"]
      BY <3>1, <1>n, <1>q, <1>t DEF Goto, ReqRecs
    <3>3. Domain(i).viewer # None => Domain(i).viewer = q.mac
      <4> SUFFICES ASSUME Domain(i).viewer # None PROVE Domain(i).viewer = q.mac
        OBVIOUS
      <4>1. row[i].port = Domain(i).port /\ row[i].mac = Domain(i).viewer
        BY <1>d, <1>i, <1>s DEF ViewerOK
      <4>2. Domain(i).port \in Ports /\ On(i) BY <1>v
      <4>3. online BY <4>1, <4>2, <2>1 DEF Linked, On, Domain
      <4> QED BY <3>1, <4>1, <4>3, <2>1
    <3>4. Serving(n) BY <3>2, <3>3, <2>1, <1>o, <1>i, <1>q, <1>t DEF Serving, ReqRecs
    <3> QED BY <3>2, <3>4, <2>1, <1>f
  <2> QED BY <2>2, <2>3
<1>2. ASSUME NEW s \in Insts, ReadSibling(r, s) PROVE SeatInv'
  <2>1. q.pc = "siblings" /\ s \in q.todo /\ s \in Siblings(i)
    BY <1>2, <1>q, <1>i, <1>a, <1>t DEF ReadSibling, AtHome
  <2>2. row[s].status # "active" => ~On(s) BY <2>1, <1>k, <1>d
  <2>3. CASE Refuse(r) BY <2>1, <2>3, <1>r
  <2>4. CASE q.mac # None
    <3> DEFINE p == IF row[s].status = "active" THEN "stop" ELSE "clear"
               k == IF row[s].status = "active" THEN HostOf[s] ELSE q.node
    <3>1. /\ req' = [req EXCEPT ![r].pc = p, ![r].sib = s, ![r].sibSeen = row[s],
                                ![r].node = k]
          /\ UNCHANGED <<row, vm, told, stop, mon>>
      BY <1>2, <2>4, <1>q DEF ReadSibling
    <3>2. p \in {"stop", "clear"} /\ (p = "clear" => ~On(s)) BY <2>2
    <3> HIDE DEF p, k
    <3>3. n = [q EXCEPT !.pc = p, !.sib = s, !.sibSeen = row[s], !.node = k]
      BY <3>1, <1>n, <1>q, <1>t DEF ReqRecs
    <3>4. /\ n.pc = p /\ n.sib = s /\ n.sibSeen = row[s] /\ n.inst = i
          /\ n.mac = q.mac /\ n.seen = q.seen /\ n.todo = q.todo
      BY <3>3, <1>q, <1>i, <1>t DEF ReqRecs
    <3>5. Serving(n) BY <3>2, <3>4, <2>1, <1>o, <1>i DEF Serving
    <3> QED BY <3>1, <3>5, <2>1, <1>f
  <2>5. CASE q.mac = None /\ ~Refuse(r)
    <3>1. /\ req' = [req EXCEPT ![r].todo = @ \ {s}] /\ row[s].status # "active"
          /\ UNCHANGED <<row, vm, told, stop, mon>>
      BY <1>2, <2>5, <1>q DEF ReadSibling
    <3>2. n = [q EXCEPT !.todo = @ \ {s}] BY <3>1, <1>n, <1>q, <1>t DEF ReqRecs
    <3>3. /\ n.pc = "siblings" /\ n.inst = i /\ n.mac = None /\ n.seen = q.seen
          /\ n.todo = q.todo \ {s}
      BY <3>2, <2>1, <2>5, <1>q, <1>i, <1>t DEF ReqRecs
    <3>4. Serving(n) BY <3>1, <3>3, <2>1, <2>2, <1>o, <1>i DEF Serving
    <3> QED BY <3>1, <3>4, <2>1, <1>f
  <2> QED BY <2>3, <2>4, <2>5
<1>3. CASE StopSibling(r)
  <2>1. /\ q.pc = "stop" /\ q.sib \in Insts /\ UNCHANGED <<row, told>>
        /\ vm' = PoweredOff(HostOf[q.sib], q.sib)
        /\ req' = [req EXCEPT ![r].pc = "clear"]
    BY <1>3, <1>q, <1>t DEF StopSibling, ReqOK, Answered
  <2>2. Shrinks /\ ~On(q.sib)'
    <3>1. HostOf[q.sib] \in Nodes BY <2>1
    <3> QED BY <3>1, <2>1, <1>t, OffShrinks DEF On
  <2>3. /\ \A j \in Insts : On(j)' => On(j)
        /\ \A j \in Insts : ViewerOK(j) => ViewerOK(j)'
        /\ Serving(q)'
    BY <2>1, <2>2, <1>t, <1>q, <1>o, ShrinkKeeps
  <2>4. n = [q EXCEPT !.pc = "clear"] BY <2>1, <1>n, <1>q, <1>t DEF ReqRecs
  <2>5. /\ n.pc = "clear" /\ n.inst = q.inst /\ n.mac = q.mac /\ n.seen = q.seen
        /\ n.todo = q.todo /\ n.sib = q.sib /\ n.sibSeen = q.sibSeen
    BY <2>4, <1>q, <1>t DEF ReqRecs
  <2>6. Serving(n)' BY <2>1, <2>2, <2>3, <2>5 DEF Serving
  <2>7. \A j \in Insts : Seat[j] = seat => StatusOK(j)' /\ ViewerOK(j)'
    BY <2>1, <2>3, <1>d, <1>k DEF StatusOK
  <2>8. \A j, k \in Insts : Seat[j] = seat /\ Seat[k] = seat /\ On(j)' /\ On(k)' => j = k
    BY <2>3, <1>d
  <2> QED BY <2>1, <2>6, <2>7, <2>8, <1>z
<1>4. CASE ClearSibling(r)
  <2> DEFINE s == q.sib
             f == Flushed(s, row[s], [row[s] EXCEPT !.port = None, !.mac = None])
  <2>1. /\ q.pc = "clear" /\ s \in Insts /\ s \in Siblings(i) /\ ~On(s)
        /\ q.sibSeen = row[s] /\ q.seen \in {None, row[i]}
    BY <1>4, <1>q, <1>i, <1>t, <1>o DEF ClearSibling, ReqOK, AtHome, Serving
  <2>2. /\ UNCHANGED <<vm, told>> /\ row' = [row EXCEPT ![s] = f]
        /\ req' = [req EXCEPT ![r].pc = "siblings", ![r].todo = @ \ {s}, ![r].seen = None,
                              ![r].sib = None, ![r].sibSeen = None]
    BY <1>4, <1>q, <2>1 DEF ClearSibling
  <2>3. f.status = row[s].status
    <3>1. row[s] \in Rows BY <2>1, <1>t
    <3>2. \A a \in Rows : /\ [a EXCEPT !.port = None, !.mac = None] \in Rows
                         /\ [a EXCEPT !.port = None, !.mac = None].status = a.status
      BY DEF Rows
    <3>3. PICK b : b = [row[s] EXCEPT !.port = None, !.mac = None] OBVIOUS
    <3>4. b \in Rows /\ b.status = row[s].status BY <3>1, <3>2, <3>3
    <3>5. f = Flushed(s, row[s], b) BY <3>3
    <3> HIDE DEF f
    <3> QED BY <3>1, <3>4, <3>5, FlushedColumns
  <2>4. n = [q EXCEPT !.pc = "siblings", !.todo = @ \ {s}, !.seen = None,
                      !.sib = None, !.sibSeen = None]
    BY <2>2, <1>n, <1>q, <1>t DEF ReqRecs
  <2>5. /\ n.pc = "siblings" /\ n.inst = i /\ n.mac = q.mac /\ n.seen = None
        /\ n.todo = q.todo \ {s}
    BY <2>4, <1>q, <1>i, <1>t DEF ReqRecs
  <2> HIDE DEF s, f
  <2>6. /\ \A j \in Insts : On(j)' = On(j) /\ Domain(j)' = Domain(j)
        /\ \A j \in Insts : row'[j].status = row[j].status
        /\ \A j \in Insts \ {s} : row'[j] = row[j]
    BY <2>1, <2>2, <2>3, <1>t DEF On, Domain, Running
  <2>7. Serving(n)'
    <3>1. Siblings(n.inst)' = Siblings(i) BY <2>5 DEF Siblings
    <3>2. \A k \in Siblings(i) : On(k)' => k \in n.todo
      BY <2>1, <2>5, <2>6, <1>d, <1>i, <1>o DEF Serving
    <3>3. q.mac # None => Domain(i)'.viewer \in {None, q.mac}
      BY <2>1, <2>6, <1>i, <1>o DEF Serving
    <3> QED BY <3>1, <3>2, <3>3, <2>5 DEF Serving
  <2>8. \A j \in Insts : Seat[j] = seat => StatusOK(j)' /\ ViewerOK(j)'
    <3>1. Domain(s).viewer = None BY <2>1, <1>v
    <3> QED BY <3>1, <2>1, <2>6, <1>d, <1>k DEF StatusOK, ViewerOK
  <2>9. \A j, k \in Insts : Seat[j] = seat /\ Seat[k] = seat /\ On(j)' /\ On(k)' => j = k
    BY <2>6, <1>d
  <2> QED BY <2>2, <2>7, <2>8, <2>9, <1>z
<1>5. CASE Prepare(r)
  <2>1. /\ q.pc = "siblings" /\ q.todo = {} /\ Held(r) = row[i]
        /\ UNCHANGED <<row, vm, told>>
        /\ req' = [req EXCEPT ![r].pc = "create", ![r].seen = Held(r)]
    BY <1>5, <1>q, <1>i, <1>o DEF Prepare, Held, Answered, Serving
  <2>2. n = [q EXCEPT !.pc = "create", !.seen = row[i]] BY <2>1, <1>n, <1>q, <1>t DEF ReqRecs
  <2>3. /\ n.pc = "create" /\ n.inst = i /\ n.mac = q.mac /\ n.seen = row[i] /\ n.todo = {}
    BY <2>1, <2>2, <1>q, <1>i, <1>t DEF ReqRecs
  <2>4. Serving(n) BY <2>1, <2>3, <1>o, <1>i DEF Serving
  <2> QED BY <2>1, <2>4, <1>f
\* nothing else at the seat runs once the request is past the other desktops
<1>c. q.pc \in {"create", "record", "error", "answer"} =>
        /\ \A s \in Siblings(i) : ~On(s)
        /\ \A j \in Insts : Seat[j] = seat /\ On(j) => j = i
  BY <1>o, <1>i, <1>d DEF Serving
<1>6. CASE Create(r)
  <2>0. PICK k \in Nodes : k = HostOf[i] BY <1>d
  <2> DEFINE start == [vm EXCEPT ![k][i] = [state |-> "running", port |-> FreePort(k),
                                            viewer |-> None]]
             started == IF On(i) THEN vm ELSE start
  <2>1. /\ q.pc = "create" /\ q.node = k /\ UNCHANGED <<row, told>>
        /\ \/ /\ On(i) \/ FreePorts(k) # {}
              /\ vm' = started
              /\ req' = [req EXCEPT ![r].pc = "record", ![r].port = started[k][i].port]
           \/ /\ ~On(i) /\ vm' = vm
              /\ req' = [req EXCEPT ![r].pc = "error"]
    BY <2>0, <1>6, <1>q, <1>i, <1>t DEF Create, Answered, On, AtHome
  <2>2. /\ \A j \in Insts \ {i} : Domain(j)' = Domain(j) /\ On(j)' = On(j)
        /\ On(i) => Domain(i)' = Domain(i)
        /\ ~On(i) => Domain(i)'.viewer = None
    <3>1. CASE vm' = vm
      BY <3>1, <1>d, DomainKinds DEF Domain, On, Running
    <3>2. CASE ~On(i) /\ vm' = start /\ FreePorts(k) # {}
      <4>1. /\ vm'[k][i].viewer = None
            /\ \A x \in Nodes, j \in Insts : x # k \/ j # i => vm'[x][j] = vm[x][j]
        <5> DEFINE d == [state |-> "running", port |-> FreePort(k), viewer |-> None]
        <5>1. d.viewer = None /\ vm' = [vm EXCEPT ![k][i] = d] BY <3>2
        <5> HIDE DEF d
        <5> QED BY <5>1, <1>t DEF Vms
      <4> QED BY <2>0, <3>2, <4>1, <1>d DEF Domain, On, Running
    <3> QED BY <2>1, <3>1, <3>2
  <2>3. /\ n.inst = i /\ n.mac = q.mac /\ n.seen = row[i] /\ n.todo = {}
        /\ \/ n.pc = "record" /\ n.port = Domain(i)'.port
           \/ n.pc = "error" /\ ~On(i) /\ vm' = vm
    <3>1. q.seen = row[i] /\ q.todo = {} BY <2>1, <1>o, <1>i DEF Serving
    <3>2. CASE /\ vm' = started
               /\ req' = [req EXCEPT ![r].pc = "record", ![r].port = started[k][i].port]
      <4> HIDE DEF started
      <4>1. n = [q EXCEPT !.pc = "record", !.port = started[k][i].port]
        BY <3>2, <1>n, <1>q, <1>t DEF ReqRecs
      <4> QED BY <2>0, <3>1, <3>2, <4>1, <1>q, <1>i, <1>t DEF ReqRecs, Domain
    <3>3. CASE ~On(i) /\ vm' = vm /\ req' = [req EXCEPT ![r].pc = "error"]
      <4>1. n = [q EXCEPT !.pc = "error"] BY <3>3, <1>n, <1>q, <1>t DEF ReqRecs
      <4> QED BY <3>1, <3>3, <4>1, <1>q, <1>i, <1>t DEF ReqRecs
    <3> QED BY <2>1, <3>2, <3>3
  <2>4. \A s \in Siblings(i) : ~On(s)' BY <2>1, <2>2, <1>c, <1>d
  <2>5. Serving(n)'
    <3>1. Siblings(n.inst)' = Siblings(i) BY <2>3 DEF Siblings
    <3>2. q.mac # None => Domain(i)'.viewer \in {None, q.mac}
      BY <2>1, <2>2, <1>o, <1>i DEF Serving
    <3>3. n.pc = "error" => ~On(i)' BY <2>3 DEF On, Running
    <3>4. row' = row BY <2>1
    <3> QED BY <3>1, <3>2, <3>3, <3>4, <2>3, <2>4 DEF Serving
  <2>6. ASSUME NEW j \in Insts, Seat[j] = seat PROVE StatusOK(j)' /\ ViewerOK(j)'
    <3>1. CASE j = i
      <4>1. On(i)' => n.pc = "record" \/ (On(i) /\ row[i].status = "active")
        BY <2>1, <2>3, <1>k, <1>s DEF On, Running
      <4>2. StatusOK(j)' BY <3>1, <4>1, <2>1, <2>3, <1>n DEF StatusOK
      <4>3. ViewerOK(j)' BY <3>1, <2>1, <2>2, <1>d, <1>s DEF ViewerOK
      <4> QED BY <4>2, <4>3
    <3>2. CASE j # i
      <4>1. ~On(j)' /\ Domain(j)' = Domain(j) /\ ~On(j) BY <3>2, <2>1, <2>2, <2>6, <1>c
      <4>2. Domain(j).viewer = None BY <4>1, <1>v
      <4> QED BY <4>1, <4>2 DEF StatusOK, ViewerOK
    <3> QED BY <3>1, <3>2
  <2>7. \A j, l \in Insts : Seat[j] = seat /\ Seat[l] = seat /\ On(j)' /\ On(l)' => j = l
    BY <2>4, <1>d
  <2> QED BY <2>1, <2>5, <2>6, <2>7, <1>z
\* the row of the request's desktop is written: what is to be shown of it
<1>w. ASSUME NEW w, UNCHANGED vm, row' = [row EXCEPT ![i] = w],
             q.pc \in {"record", "error", "answer"},
             On(i) => w.status = "active",
             Domain(i).viewer # None => w.port = Domain(i).port /\ w.mac = Domain(i).viewer,
             n.pc # "idle" => Serving(n)',
             \A m \in Macs : \A t : t = told'[m] /\ t # told[m] => Landing(m, t)'
      PROVE SeatInv'
  <2>1. /\ \A j \in Insts : On(j)' = On(j) /\ Domain(j)' = Domain(j)
        /\ row'[i] = w /\ \A j \in Insts \ {i} : row'[j] = row[j]
    BY <1>w, <1>t DEF On, Domain, Running
  <2>2. ASSUME NEW j \in Insts, Seat[j] = seat PROVE StatusOK(j)' /\ ViewerOK(j)'
    <3>1. CASE j = i BY <3>1, <2>1, <1>w DEF StatusOK, ViewerOK
    <3>2. CASE j # i
      <4>1. ~On(j) /\ Domain(j).viewer = None BY <3>2, <2>2, <1>w, <1>c, <1>v
      <4> QED BY <4>1, <2>1 DEF StatusOK, ViewerOK
    <3> QED BY <3>1, <3>2
  <2>3. \A j, l \in Insts : Seat[j] = seat /\ Seat[l] = seat /\ On(j)' /\ On(l)' => j = l
    BY <2>1, <1>d
  <2> QED BY <2>2, <2>3, <1>w, <1>z
<1>7. CASE RecordError(r)
  <2>1. PICK w : /\ q.pc = "error" /\ UNCHANGED <<vm, told>> /\ row' = [row EXCEPT ![i] = w]
                 /\ n.pc = "idle"
    BY <1>7, <1>q, <1>i, <1>n, <1>t DEF RecordError, IdleRequest
  <2>2. ~On(i) /\ Domain(i).viewer = None BY <2>1, <1>o, <1>i, <1>v DEF Serving
  <2> QED BY <2>1, <2>2, <1>w
<1>8. CASE Record(r)
  <2>1. /\ q.pc = "record" /\ q.port \in Ports /\ q.seen = row[i] /\ row[i] \in Rows
        /\ Domain(i).port \in {None, q.port}
        /\ (q.mac # None => Domain(i).viewer \in {None, q.mac})
    BY <1>8, <1>q, <1>i, <1>o, <1>t DEF Record, Serving, ReqOK
  <2>2. PICK a : a = [row[i] EXCEPT !.status = "active", !.port = q.port] OBVIOUS
  <2>3. a \in Rows /\ a.status = "active" /\ a.port = q.port /\ a.mac = row[i].mac
    <3>1. \A b \in Rows, p \in Ports :
            /\ [b EXCEPT !.status = "active", !.port = p] \in Rows
            /\ [b EXCEPT !.status = "active", !.port = p].status = "active"
            /\ [b EXCEPT !.status = "active", !.port = p].port = p
            /\ [b EXCEPT !.status = "active", !.port = p].mac = b.mac
      BY DEF Rows, Statuses
    <3> QED BY <3>1, <2>1, <2>2
  <2>4. PICK w : w = Flushed(i, row[i], a) OBVIOUS
  <2>5. w.status = "active" /\ w.port = q.port /\ w.mac = row[i].mac
    BY <2>1, <2>3, <2>4, FlushedColumns
  <2>6. /\ UNCHANGED <<vm, told>> /\ row' = [row EXCEPT ![i] = w]
        /\ req' = [req EXCEPT ![r] = IF req[r].mac = None THEN IdleRequest
                                     ELSE [@ EXCEPT !.pc = "answer", !.seen = None]]
    BY <1>8, <2>1, <2>2, <2>4, <1>q, <1>i DEF Record
  <2>7. Domain(i).viewer # None => w.port = Domain(i).port /\ w.mac = Domain(i).viewer
    BY <2>1, <2>5, <1>d, <1>s, <1>v DEF ViewerOK
  <2>8. n.pc # "idle" => Serving(n)'
    <3> SUFFICES ASSUME n.pc # "idle" PROVE Serving(n)'
      OBVIOUS
    <3>1. q.mac # None BY <2>6, <1>n, <1>q, <1>t DEF IdleRequest
    <3>2. n = [q EXCEPT !.pc = "answer", !.seen = None] BY <3>1, <2>6, <1>n, <1>q, <1>t
    <3>3. /\ n.pc = "answer" /\ n.inst = i /\ n.mac = q.mac /\ n.port = q.port
          /\ n.todo = q.todo /\ q.todo = {} /\ n.seen = None
      BY <3>2, <2>1, <1>q, <1>i, <1>o, <1>t DEF ReqRecs, Serving
    <3>4. Siblings(n.inst)' = Siblings(i) BY <3>3 DEF Siblings
    <3>5. /\ \A j \in Insts : On(j)' = On(j) /\ Domain(j)' = Domain(j)
          /\ row'[i] = w
      BY <2>6, <1>t DEF On, Domain, Running
    <3>6. \A k \in Siblings(i) : ~On(k)' BY <3>5, <2>1, <1>c, <1>d
    <3> QED BY <3>1, <3>3, <3>4, <3>5, <3>6, <2>1, <2>5 DEF Serving
  <2> QED BY <2>1, <2>5, <2>6, <2>7, <2>8, <1>w
<1>9. CASE Answer(r)
  <2>1. /\ q.pc = "answer" /\ q.mac \in Macs /\ q.port = row[i].port
        /\ Domain(i).viewer \in {None, q.mac}
    BY <1>9, <1>q, <1>i, <1>o, <1>t DEF Answer, Serving, ReqOK
  <2>2. PICK w : w = [row[i] EXCEPT !.mac = q.mac] OBVIOUS
  <2>3. w.status = row[i].status /\ w.port = row[i].port /\ w.mac = q.mac
    BY <2>2, <1>t DEF Rows
  <2>4. /\ UNCHANGED vm /\ row' = [row EXCEPT ![i] = w] /\ n.pc = "idle"
        /\ told' = [told EXCEPT ![q.mac] = [inst |-> i, port |-> q.port]]
    BY <1>9, <2>2, <1>q, <1>i, <1>n, <1>t DEF Answer, IdleRequest
  <2>5. ASSUME NEW m \in Macs, NEW t, t = told'[m], t # told[m] PROVE Landing(m, t)'
    <3>1. m = q.mac /\ t = [inst |-> i, port |-> q.port] BY <2>4, <2>5, <1>t
    <3>2. row'[i] = w /\ Domain(i)' = Domain(i) BY <2>4, <1>t DEF Domain
    <3> QED BY <3>1, <3>2, <2>1, <2>3 DEF Landing
  <2>6. On(i) => w.status = "active" BY <2>1, <2>3, <1>k, <1>s
  <2>7. Domain(i).viewer # None => w.port = Domain(i).port /\ w.mac = Domain(i).viewer
    BY <2>1, <2>3, <1>d, <1>s DEF ViewerOK
  <2> QED BY <2>1, <2>4, <2>5, <2>6, <2>7, <1>w
<1> QED BY <1>1, <1>2, <1>3, <1>4, <1>5, <1>6, <1>7, <1>8, <1>9 DEF Step

\* A viewer leaves or a domain stops; a stop at the seat goes on from its call.
LEMMA SeatShrinks ==
  ASSUME HomeInv, NEW seat, SeatOK(seat), Shrinks, UNCHANGED <<row, req, told>>,
         At(stop', seat) => At(stop, seat) /\ Stopping(stop)'
  PROVE SeatOK(seat)'
<1>t. /\ \A r \in Requests : ReqOK(req[r]) /\ AtHome(req[r])
      /\ told \in [Macs -> Told]
  BY DEF HomeInv, TypeInv, TypeOK, Told
<1>1. Alone(seat)'
  <2>1. HandlersAt(seat)' \subseteq HandlersAt(seat)
    <3> SUFFICES ASSUME NEW x \in HandlersAt(seat)' PROVE x \in HandlersAt(seat)
      OBVIOUS
    <3>1. x \in Requests \/ x = "stop" \/ x \in Macs BY HandlingNext
    <3> QED BY <3>1, Handling, HandlingNext
  <2> QED BY <2>1 DEF SeatOK, Alone
<1>2. \A i, j \in Insts : Seat[i] = seat /\ Seat[j] = seat /\ On(i)' /\ On(j)' => i = j
  BY ShrinkKeeps DEF SeatOK
<1>3. ASSUME NEW i \in Insts, Seat[i] = seat PROVE StatusOK(i)' /\ ViewerOK(i)'
  <2>1. StatusOK(i) /\ ViewerOK(i) BY <1>3 DEF SeatOK
  <2>2. (On(i)' => On(i)) /\ ViewerOK(i)' BY <2>1, ShrinkKeeps
  <2> QED BY <2>1, <2>2 DEF StatusOK
<1>4. ASSUME NEW r \in Requests, At(req'[r], seat) PROVE Serving(req[r])'
  <2>1. PICK q : q = req[r] OBVIOUS
  <2>2. Serving(q)' BY <2>1, <1>4, <1>t, ShrinkKeeps DEF SeatOK, At
  <2> QED BY <2>1, <2>2 DEF Serving, Siblings, On, Domain
<1>5. ASSUME NEW m \in Macs, TellAt(told'[m], seat) PROVE Landing(m, told[m])'
  <2>1. PICK t : t = told[m] OBVIOUS
  <2>2. Landing(m, t)' BY <2>1, <1>5, <1>t, ShrinkKeeps DEF SeatOK, TellAt
  <2> QED BY <2>1, <2>2 DEF Landing, Domain
<1>6. At(stop', seat) => Stopping(stop)' OBVIOUS
<1> QED BY <1>1, <1>2, <1>3, <1>4, <1>5, <1>6 DEF SeatOK, At, TellAt

\* At a seat without handlers the rows are written by the monitor or a stop.
LEMMA SeatWritten ==
  ASSUME HomeInv, NEW seat, SeatOK(seat), UNCHANGED <<vm, told, req>>,
         \A r \in Requests : ~At(req[r], seat), \A m \in Macs : ~TellAt(told[m], seat),
         ~At(stop', seat),
         \A j \in Insts : Seat[j] = seat =>
           /\ On(j) /\ row[j].status = "active" => row'[j].status = "active"
           /\ On(j) => row'[j].port = row[j].port /\ row'[j].mac = row[j].mac
  PROVE SeatOK(seat)'
<1>1. /\ \A r \in Requests : ~At(req'[r], seat)
      /\ \A m \in Macs : ~TellAt(told'[m], seat)
  OBVIOUS
<1>2. Alone(seat)'
  <2>1. HandlersAt(seat)' = {} BY <1>1, HandlingNext
  <2> QED BY <2>1 DEF Alone
<1>3. \A j \in Insts : /\ HostOf[j] \in Nodes
                       /\ On(j)' = On(j) /\ Domain(j)' = Domain(j) /\ Domain(j) \in Domains
  BY DEF On, Running, Domain, HomeInv, TypeInv, TypeOK
<1>4. \A i, j \in Insts : Seat[i] = seat /\ Seat[j] = seat /\ On(i)' /\ On(j)' => i = j
  BY <1>3 DEF SeatOK
<1>5. ASSUME NEW i \in Insts, Seat[i] = seat PROVE StatusOK(i)' /\ ViewerOK(i)'
  <2>1. StatusOK(i) /\ ViewerOK(i) BY <1>5 DEF SeatOK
  <2>2. ASSUME NEW r \in Requests, req[r].pc = "record", req[r].inst = i PROVE FALSE
    BY <1>5, <2>2 DEF At
  <2>3. On(i) => row'[i].status = "active" BY <1>5, <2>1, <2>2 DEF StatusOK
  <2>4. Domain(i).viewer # None => On(i) BY <1>3, DomainKinds DEF On, Running, Domain
  <2> QED BY <1>3, <1>5, <2>1, <2>3, <2>4 DEF StatusOK, ViewerOK
<1> QED BY <1>1, <1>2, <1>4, <1>5 DEF SeatOK, At, TellAt

LEMMA SeatInvStop ==
  ASSUME Answered, SeatOnOneNode, SeatInv, StopStep PROVE SeatInv'
<1>t. /\ HomeInv /\ RoundOK /\ row \in [Insts -> Rows] /\ vm \in Vms
      /\ stop \in Stops /\ stop.inst \in Insts /\ stop.pc # "idle"
      /\ HostOf[stop.inst] \in Nodes
  BY DEF SeatInv, HomeInv, TypeInv, TypeOK, Vms, Stops, StopStep, StopCall, StopRecord
<1>h. HomeInv' BY <1>t, HomeInvNext DEF Next
<1>i. PICK i \in Insts : i = stop.inst BY <1>t
<1>s. PICK seat : seat = Seat[i] OBVIOUS
<1>o. /\ SeatOK(seat) /\ At(stop, seat) /\ Stopping(stop) /\ mon.pc = "idle"
      /\ \A r \in Requests : ~At(req[r], seat)
      /\ \A m \in Macs : ~TellAt(told[m], seat)
  <2>1. SeatOK(seat) /\ At(stop, seat) BY <1>t, <1>i, <1>s DEF SeatInv, At
  <2>2. Stopping(stop) /\ Alone(seat) BY <2>1 DEF SeatOK
  <2>3. "stop" \in HandlersAt(seat) BY <2>1, Handling
  <2>4. mon.pc = "idle" BY <2>3, <1>s, <1>t DEF RoundOK
  <2> QED BY <2>1, <2>2, <2>4, OnlyStop
<1>z. ASSUME UNCHANGED mon, \A T : (\E j \in Insts : T = Seat[j]) => SeatOK(T)' PROVE SeatInv'
  <2>1. RoundOK' BY <1>o, <1>z DEF RoundOK
  <2>2. \A j \in Insts : SeatOK(Seat[j])'
    <3> SUFFICES ASSUME NEW j \in Insts PROVE SeatOK(Seat[j])'
      OBVIOUS
    <3>1. PICK T : T = Seat[j] OBVIOUS
    <3>2. T = Seat[j] => SeatOK(Seat[j])' BY <1>z
    <3> QED BY <3>1, <3>2
  <2> QED BY <2>1, <2>2, <1>h DEF SeatInv
<1>1. CASE StopCall
  <2>1. /\ vm' = PoweredOff(HostOf[i], i) /\ stop' = [stop EXCEPT !.pc = "record"]
        /\ UNCHANGED <<row, told, req, mon>>
    BY <1>1, <1>i DEF StopCall, Answered
  <2>2. Shrinks /\ ~On(i)'
    <3>1. HostOf[i] \in Nodes OBVIOUS
    <3> QED BY <3>1, <2>1, <1>t, OffShrinks DEF On
  <2>3. stop'.inst = i /\ stop'.seen = row[i] BY <2>1, <1>t, <1>i, <1>o DEF Stops, Stopping
  <2>4. Stopping(stop)'
    <3>1. PICK x : x = stop' OBVIOUS
    <3>2. x.inst = i /\ x.seen = row[i] BY <3>1, <2>3
    <3>3. Stopping(x)' BY <3>2, <2>1, <2>2 DEF Stopping
    <3> QED BY <3>1, <3>3 DEF Stopping, On
  <2>5. ASSUME NEW T, \E j \in Insts : T = Seat[j] PROVE SeatOK(T)'
    <3>1. SeatOK(T) BY <2>5 DEF SeatInv
    <3>2. At(stop', T) => At(stop, T) BY <2>3, <1>i, <1>s, <1>o DEF At
    <3> QED BY <3>1, <3>2, <2>1, <2>2, <2>4, <1>t, SeatShrinks
  <2> QED BY <2>1, <2>5, <1>z
<1>2. CASE StopRecord
  <2>1. PICK w : /\ row' = [row EXCEPT ![i] = w] /\ stop' = IdleStop
                 /\ UNCHANGED <<vm, told, req, mon>> /\ stop.pc = "record"
    BY <1>2, <1>i DEF StopRecord
  <2>2. ~On(i) BY <2>1, <1>i, <1>o DEF Stopping
  <2>3. \A T : ~At(stop', T) BY <2>1 DEF At, IdleStop
  <2>4. \A j \in Insts \ {i} : row'[j] = row[j] BY <2>1, <1>t
  <2>5. SeatOK(seat)' BY <2>1, <2>2, <2>3, <2>4, <1>o, <1>t, SeatWritten
  <2>6. ASSUME NEW T, \E j \in Insts : T = Seat[j] PROVE SeatOK(T)'
    <3>1. SeatOK(T) BY <2>6 DEF SeatInv
    <3>2. CASE T = seat BY <3>2, <2>5
    <3>3. CASE T # seat
      BY <3>1, <3>3, <2>1, <2>3, <2>4, <1>s, <1>t, ElsewhereStays
    <3> QED BY <3>2, <3>3
  <2> QED BY <2>1, <2>6, <1>z
<1> QED BY <1>1, <1>2 DEF StopStep

LEMMA SeatInvMonitor ==
  ASSUME SeatOnOneNode, Answered, SeatInv, MonStep, RoundAlone' PROVE SeatInv'
<1>t. /\ HomeInv /\ RoundOK /\ row \in [Insts -> Rows] /\ vm \in Vms /\ mon \in Mons
      /\ UNCHANGED <<vm, told, req, stop>>
      /\ \A r \in Requests : req[r].pc # "idle" => req[r].inst \in Insts
      /\ (stop.pc # "idle" => stop.inst \in Insts)
      /\ told \in [Macs -> Told]
      /\ (mon.pc = "notify" => mon.inst \in Insts)
  <2>1. UNCHANGED <<vm, told, req, stop>>
    BY DEF MonStep, MonLoad, MonPoll, MonPollFails, MonApply, MonUnbind, MonEnd
  <2> QED BY <2>1 DEF SeatInv, HomeInv, TypeInv, TypeOK, Vms, Mons, Told, ReqOK
<1>h. HomeInv' BY <1>t, HomeInvNext DEF Next
<1>s. \A T : HandlersAt(T)' = HandlersAt(T) BY <1>t DEF HandlersAt
<1>o. ASSUME NEW j \in Insts PROVE HandlersAt(Seat[j]) = {}
  <2>1. CASE mon.pc # "idle" BY <2>1, <1>t DEF RoundOK
  <2>2. CASE mon.pc = "idle"
    <3>1. mon'.pc = "poll"
      BY <2>2, <1>t DEF MonStep, MonLoad, MonPoll, MonPollFails, MonApply, MonUnbind, MonEnd,
                        IdleMon
    <3>2. HandlersAt(Seat[j])' = {} BY <3>1 DEF RoundAlone
    <3> QED BY <3>2, <1>s
  <2> QED BY <2>1, <2>2
<1>z. ASSUME \A j \in Insts :
               /\ On(j) /\ row[j].status = "active" => row'[j].status = "active"
               /\ On(j) => row'[j].port = row[j].port /\ row'[j].mac = row[j].mac,
             RoundOK'
      PROVE SeatInv'
  <2>1. ASSUME NEW T, \E j \in Insts : T = Seat[j] PROVE SeatOK(T)'
    <3>1. SeatOK(T) /\ HandlersAt(T) = {} BY <2>1, <1>o DEF SeatInv
    <3>2. /\ \A r \in Requests : ~At(req[r], T)
          /\ \A m \in Macs : ~TellAt(told[m], T)
          /\ ~At(stop', T)
      BY <3>1, <1>t, Handling
    <3> QED BY <3>1, <3>2, <1>t, <1>z, SeatWritten
  <2>2. \A j \in Insts : SeatOK(Seat[j])'
    <3> SUFFICES ASSUME NEW j \in Insts PROVE SeatOK(Seat[j])'
      OBVIOUS
    <3>1. PICK T : T = Seat[j] OBVIOUS
    <3>2. T = Seat[j] => SeatOK(Seat[j])' BY <2>1
    <3> QED BY <3>1, <3>2
  <2> QED BY <2>2, <1>h, <1>z DEF SeatInv
\* what the round holds, when it goes on
<1>r. ASSUME \A j \in Insts : mon'.snap[j] \in {None, row'[j]},
             \A e \in mon'.poll : e[2] # "down" /\ (e[2] = "off" => ~On(e[1])),
             mon'.pc = "notify" => ~On(mon'.inst)
      PROVE RoundOK'
  <2>1. \A j \in Insts : HandlersAt(Seat[j])' = {} BY <1>o, <1>s
  <2> QED BY <2>1, <1>r, <1>t DEF RoundOK, On, Running
<1>1. CASE MonLoad
  <2>1. mon'.pc = "poll" /\ mon'.snap = row /\ mon'.poll = {} /\ row' = row
    BY <1>1 DEF MonLoad, IdleMon
  <2> QED BY <2>1, <1>r, <1>z
<1>2. CASE MonEnd
  <2>1. mon' = IdleMon /\ row' = row BY <1>2 DEF MonEnd
  <2>2. RoundOK' BY <2>1 DEF RoundOK, IdleMon
  <2> QED BY <2>1, <2>2, <1>z
<1>3. ASSUME NEW k \in Nodes, MonPoll(k) PROVE SeatInv'
  <2>1. /\ mon' = [mon EXCEPT !.pc = "apply", !.poll = PollOf(k)] /\ row' = row
        /\ mon.pc = "poll"
    BY <1>3 DEF MonPoll
  <2>2. mon'.pc = "apply" /\ mon'.snap = mon.snap /\ mon'.poll = PollOf(k)
    BY <2>1, <1>t DEF Mons
  <2>3. \A e \in PollOf(k) : e[2] # "down" /\ (e[2] = "off" => ~On(e[1]))
    BY DEF PollOf, On
  <2>4. \A j \in Insts : mon.snap[j] \in {None, row[j]} BY <2>1, <1>t DEF RoundOK
  <2> QED BY <2>1, <2>2, <2>3, <2>4, <1>r, <1>z
<1>4. ASSUME NEW k \in Nodes, MonPollFails(k) PROVE SeatInv'
  BY <1>4 DEF MonPollFails, Answered
<1>5. CASE MonUnbind
  <2> DEFINE i == mon.inst
  <2>1. /\ i \in Insts /\ ~On(i) /\ mon.pc = "notify" BY <1>5, <1>t DEF MonUnbind, RoundOK
  <2>2. PICK w : /\ row' = [row EXCEPT ![i] = w]
                 /\ mon' = [mon EXCEPT !.pc = "apply", !.inst = None, !.snap = AllExpired]
    BY <1>5 DEF MonUnbind
  <2>3. mon'.pc = "apply" /\ mon'.snap = AllExpired /\ mon'.poll = mon.poll
    BY <2>2, <1>t DEF Mons
  <2>4. RoundOK' BY <2>1, <2>3, <1>t, <1>r DEF RoundOK, AllExpired
  <2>5. \A j \in Insts : On(j) => row'[j] = row[j] BY <2>1, <2>2, <1>t
  <2> QED BY <2>4, <2>5, <1>z
<1>6. ASSUME NEW i \in Insts, NEW state \in {"on", "off", "down"}, MonApply(i, state)
      PROVE SeatInv'
  <2> DEFINE status == Corrected(row[i].status, state)
             notify == state = "off" /\ row[i].mac # None
             new == [row[i] EXCEPT !.status = status]
             w == Flushed(i, row[i], new)
             snap == IF status # row[i].status
                     THEN [AllExpired EXCEPT ![i] = IF notify THEN w ELSE None]
                     ELSE [mon.snap EXCEPT ![i] = row[i]]
  <2>1. /\ mon.pc = "apply" /\ <<i, state>> \in mon.poll /\ row[i] \in Rows
        /\ state # "down" /\ (state = "off" => ~On(i))
    BY <1>6, <1>t DEF MonApply, RoundOK
  <2>2. MonHeld(i) = row[i] BY <2>1, <1>t DEF MonHeld, RoundOK
  <2>3. /\ row' = [row EXCEPT ![i] = w]
        /\ mon' = [mon EXCEPT !.pc = IF notify THEN "notify" ELSE "apply",
                              !.poll = @ \ {<<i, state>>},
                              !.inst = IF notify THEN i ELSE None, !.snap = snap]
    <3>1. row'[i] = w /\ [row EXCEPT ![i] = w][i] = w BY <1>6, <2>2, <1>t DEF MonApply
    <3> QED BY <1>6, <2>2, <3>1 DEF MonApply
  <2>4. /\ w \in Rows /\ w.port = row[i].port /\ w.mac = row[i].mac /\ w.status = status
    <3>1. status \in Statuses BY <2>1 DEF Corrected, Rows, Statuses
    <3>2. \A a \in Rows, x \in Statuses :
            /\ [a EXCEPT !.status = x] \in Rows
            /\ [a EXCEPT !.status = x].status = x
            /\ [a EXCEPT !.status = x].port = a.port /\ [a EXCEPT !.status = x].mac = a.mac
      BY DEF Rows
    <3> HIDE DEF status
    <3>3. /\ new \in Rows /\ new.status = status
          /\ new.port = row[i].port /\ new.mac = row[i].mac
      BY <2>1, <3>1, <3>2
    <3> HIDE DEF new
    <3> QED BY <2>1, <3>3, FlushedColumns
  <2>5. status = row[i].status => w = row[i]
    <3>1. \A a, b \in Rows : a.status = b.status /\ a.port = b.port /\ a.mac = b.mac => a = b
      BY DEF Rows
    <3> HIDE DEF w
    <3> QED BY <2>1, <2>4, <3>1
  <2>8. row'[i] = w /\ \A j \in Insts \ {i} : row'[j] = row[j]
    <3> HIDE DEF w
    <3> QED BY <2>3, <1>t
  <2>6. RoundOK'
    <3>1. \A j \in Insts : snap[j] \in {None, row'[j]}
      <4>1. \A j \in Insts : mon.snap[j] \in {None, row[j]} BY <2>1, <1>t DEF RoundOK
      <4>2. mon.snap \in [Insts -> Rows \cup {None}] BY <1>t DEF Mons
      <4> HIDE DEF w, status, notify
      <4> QED BY <2>5, <2>8, <4>1, <4>2 DEF AllExpired
    <3> HIDE DEF snap, w, status
    <3>2. /\ mon'.snap = snap /\ mon'.poll = mon.poll \ {<<i, state>>}
          /\ mon'.pc = "notify" => mon'.inst = i /\ state = "off"
      BY <2>3, <1>t DEF Mons
    <3>3. \A e \in mon.poll : e[2] # "down" /\ (e[2] = "off" => ~On(e[1]))
      BY <2>1, <1>t DEF RoundOK
    <3> QED BY <2>1, <3>1, <3>2, <3>3, <1>r
  <2>7. On(i) /\ row[i].status = "active" => w.status = "active"
    BY <2>1, <2>4 DEF Corrected
  <2> QED BY <2>4, <2>6, <2>7, <2>8, <1>z
<1> QED BY <1>1, <1>2, <1>3, <1>4, <1>5, <1>6 DEF MonStep

LEMMA StaysAlone ==
  ASSUME NEW seat, Alone(seat), NEW x, HandlersAt(seat)' \subseteq HandlersAt(seat) \cup {x},
         Cardinality(HandlersAt(seat)') <= 1
  PROVE Alone(seat)'
<1>1. IsFiniteSet(HandlersAt(seat)) BY OneIsFinite DEF Alone
<1>2. IsFiniteSet(HandlersAt(seat) \cup {x}) BY <1>1, FS_AddElement
<1>3. IsFiniteSet(HandlersAt(seat)') BY <1>2, FS_Subset
<1> QED BY <1>3, AtMostOne DEF Alone

LEMMA SeatInvArrival ==
  ASSUME SeatOnOneNode, SeatInv, Arrival, Serial' PROVE SeatInv'
<1>t. /\ HomeInv /\ RoundOK /\ row \in [Insts -> Rows] /\ vm \in Vms
      /\ req \in [Requests -> ReqRecs] /\ UNCHANGED <<row, vm, told, mon>>
      /\ \A r \in Requests : ReqOK(req[r]) /\ AtHome(req[r])
  BY DEF SeatInv, HomeInv, TypeInv, TypeOK, Vms, ReqRecs, Arrival, AdminStart, Open, StopBegin
<1>h. HomeInv' BY <1>t, HomeInvNext DEF Next
<1>c. \A j \in Insts : Cardinality(HandlersAt(Seat[j])') <= 1
  BY DEF Serial, OneHandlerPerSeat
<1>u. /\ \A j : On(j)' = On(j) /\ Domain(j)' = Domain(j) /\ ViewerOK(j)' = ViewerOK(j)
      /\ \A q : Serving(q)' = Serving(q)
      /\ \A m, t : Landing(m, t)' = Landing(m, t)
      /\ \A s : Stopping(s)' = Stopping(s)
  BY <1>t DEF On, Running, Domain, ViewerOK, Serving, Landing, Stopping, Siblings
<1>z. ASSUME NEW x, NEW i \in Insts, x \in HandlersAt(Seat[i])',
             \A T : (\E j \in Insts : T = Seat[j]) =>
                /\ HandlersAt(T)' \subseteq HandlersAt(T) \cup {x}
                /\ \A r \in Requests : At(req'[r], T) /\ req'[r] # req[r] => Serving(req'[r])
                /\ At(stop', T) /\ stop' # stop => Stopping(stop'),
             \A r \in Requests : req[r].pc = "record" => req'[r] = req[r]
      PROVE SeatInv'
  <2>1. ASSUME NEW T, \E j \in Insts : T = Seat[j] PROVE SeatOK(T)'
    <3>1. SeatOK(T) BY <2>1 DEF SeatInv
    <3>2. Alone(T)' BY <3>1, <2>1, <1>z, <1>c, StaysAlone DEF SeatOK
    <3>3. \A r \in Requests : At(req'[r], T) => Serving(req[r])'
      <4> SUFFICES ASSUME NEW r \in Requests, At(req'[r], T) PROVE Serving(req[r])'
        OBVIOUS
      <4>1. PICK q : q = req'[r] OBVIOUS
      <4>2. Serving(q) BY <4>1, <3>1, <2>1, <1>z DEF SeatOK
      <4>3. Serving(q)' BY <4>2, <1>u
      <4> QED BY <4>1, <4>3 DEF Serving, Siblings, On, Domain
    <3>4. At(stop', T) => Stopping(stop)'
      <4> SUFFICES ASSUME At(stop', T) PROVE Stopping(stop)'
        OBVIOUS
      <4>1. PICK s : s = stop' OBVIOUS
      <4>2. Stopping(s) BY <4>1, <3>1, <2>1, <1>z DEF SeatOK
      <4>3. Stopping(s)' BY <4>2, <1>u
      <4> QED BY <4>1, <4>3 DEF Stopping, On
    <3>5. ASSUME NEW m \in Macs, TellAt(told'[m], T) PROVE Landing(m, told[m])'
      <4>1. PICK t : t = told[m] /\ t = told'[m] BY <1>t
      <4>2. Landing(m, t)' BY <4>1, <3>1, <3>5, <1>u DEF SeatOK
      <4> QED BY <4>1, <4>2 DEF Landing, Domain
    <3>6. ASSUME NEW j \in Insts, Seat[j] = T PROVE StatusOK(j)' /\ ViewerOK(j)'
      <4>1. StatusOK(j) /\ ViewerOK(j) BY <3>1, <3>6 DEF SeatOK
      <4> QED BY <4>1, <1>u, <1>t, <1>z DEF StatusOK
    <3>7. \A j, k \in Insts : Seat[j] = T /\ Seat[k] = T /\ On(j)' /\ On(k)' => j = k
      BY <3>1, <1>u DEF SeatOK
    <3> QED BY <3>2, <3>3, <3>4, <3>5, <3>6, <3>7 DEF SeatOK, At, TellAt
  <2>2. \A j \in Insts : SeatOK(Seat[j])'
    <3> SUFFICES ASSUME NEW j \in Insts PROVE SeatOK(Seat[j])'
      OBVIOUS
    <3>1. PICK T : T = Seat[j] OBVIOUS
    <3>2. T = Seat[j] => SeatOK(Seat[j])' BY <2>1
    <3> QED BY <3>1, <3>2
  <2>3. mon'.pc = "idle" BY <1>z DEF Serial, RoundAlone
  <2>4. RoundOK' BY <2>3 DEF RoundOK
  <2> QED BY <2>2, <2>4, <1>h DEF SeatInv
<1>1. ASSUME NEW r \in Requests, NEW i \in Insts, NEW n, req[r].pc = "idle",
             req' = [req EXCEPT ![r] = n], n.pc \in {"link", "siblings"}, n.inst = i,
             n.seen = row[i], n.todo = Siblings(i), n.pc = "siblings" => n.mac = None,
             UNCHANGED stop
      PROVE SeatInv'
  <2>1. req'[r] = n /\ \A s \in Requests \ {r} : req'[s] = req[s] BY <1>1, <1>t
  <2>2. Serving(n) BY <1>1 DEF Serving
  <2>3. r \in HandlersAt(Seat[i])' BY <2>1, <1>1, HandlingNext DEF At
  <2>4. ASSUME NEW T PROVE HandlersAt(T)' \subseteq HandlersAt(T) \cup {r}
    <3> SUFFICES ASSUME NEW x \in HandlersAt(T)', x # r PROVE x \in HandlersAt(T)
      OBVIOUS
    <3>1. x \in Requests \/ x = "stop" \/ x \in Macs BY HandlingNext
    <3> QED BY <3>1, <2>1, <1>1, <1>t, Handling, HandlingNext
  <2> QED BY <2>1, <2>2, <2>3, <2>4, <1>1, <1>z
<1>2. ASSUME NEW r \in Requests, NEW i \in Insts, AdminStart(r, i) PROVE SeatInv'
  <2> DEFINE n == [IdleRequest EXCEPT !.pc = "siblings", !.inst = i, !.seen = row[i],
                                      !.node = HostOf[i], !.todo = Siblings(i)]
  <2>1. n.pc = "siblings" /\ n.inst = i /\ n.seen = row[i] /\ n.todo = Siblings(i)
        /\ n.mac = None
    BY DEF IdleRequest
  <2>2. req' = [req EXCEPT ![r] = n] /\ req[r].pc = "idle" /\ UNCHANGED stop
    BY <1>2 DEF AdminStart
  <2> HIDE DEF n
  <2> QED BY <2>1, <2>2, <1>1
<1>3. ASSUME NEW r \in Requests, NEW i \in Insts, NEW m \in Macs, Open(r, i, m) PROVE SeatInv'
  <2> DEFINE n == [IdleRequest EXCEPT !.pc = "link", !.inst = i, !.mac = m, !.seen = row[i],
                                      !.node = HostOf[i], !.todo = Siblings(i)]
  <2>1. n.pc = "link" /\ n.inst = i /\ n.seen = row[i] /\ n.todo = Siblings(i)
    BY DEF IdleRequest
  <2>2. req' = [req EXCEPT ![r] = n] /\ req[r].pc = "idle" /\ UNCHANGED stop
    BY <1>3 DEF Open
  <2> HIDE DEF n
  <2> QED BY <2>1, <2>2, <1>1
<1>4. ASSUME NEW i \in Insts, StopBegin(i) PROVE SeatInv'
  <2>1. /\ stop'.pc = "call" /\ stop'.inst = i /\ stop'.seen = row[i] /\ UNCHANGED req
    BY <1>4 DEF StopBegin
  <2>2. Stopping(stop') BY <2>1 DEF Stopping
  <2>3. "stop" \in HandlersAt(Seat[i])' BY <2>1, HandlingNext DEF At
  <2>4. ASSUME NEW T PROVE HandlersAt(T)' \subseteq HandlersAt(T) \cup {"stop"}
    <3> SUFFICES ASSUME NEW x \in HandlersAt(T)', x # "stop" PROVE x \in HandlersAt(T)
      OBVIOUS
    <3>1. x \in Requests \/ x \in Macs BY HandlingNext
    <3> QED BY <3>1, <2>1, <1>t, Handling, HandlingNext
  <2> QED BY <2>1, <2>2, <2>3, <2>4, <1>z
<1> QED BY <1>2, <1>3, <1>4 DEF Arrival

LEMMA SeatInvEnvironment ==
  ASSUME SeatOnOneNode, SeatInv, Environment PROVE SeatInv'
<1>t. /\ HomeInv /\ RoundOK /\ row \in [Insts -> Rows] /\ vm \in Vms
      /\ told \in [Macs -> Told] /\ UNCHANGED <<row, req, stop, mon>>
  BY DEF SeatInv, HomeInv, TypeInv, TypeOK, Vms, Told, Environment, Connect, Disconnect,
         GuestOff
<1>h. HomeInv' BY <1>t, HomeInvNext DEF Next
<1>z. ASSUME \A T : (\E j \in Insts : T = Seat[j]) => SeatOK(T)', RoundOK' PROVE SeatInv'
  <2>1. \A j \in Insts : SeatOK(Seat[j])'
    <3> SUFFICES ASSUME NEW j \in Insts PROVE SeatOK(Seat[j])'
      OBVIOUS
    <3>1. PICK T : T = Seat[j] OBVIOUS
    <3>2. T = Seat[j] => SeatOK(Seat[j])' BY <1>z
    <3> QED BY <3>1, <3>2
  <2> QED BY <2>1, <1>h, <1>z DEF SeatInv
\* someone leaves, or a domain stops
<1>s. ASSUME Shrinks, UNCHANGED told PROVE SeatInv'
  <2>1. ASSUME NEW T, \E j \in Insts : T = Seat[j] PROVE SeatOK(T)'
    <3>1. SeatOK(T) BY <2>1 DEF SeatInv
    <3>2. At(stop', T) => At(stop, T) /\ Stopping(stop)'
      <4> SUFFICES ASSUME At(stop', T) PROVE At(stop, T) /\ Stopping(stop)'
        OBVIOUS
      <4>1. PICK s : s = stop OBVIOUS
      <4>2. s \in Stops /\ s.inst \in Insts /\ Stopping(s) /\ At(stop, T)
        BY <4>1, <3>1, <1>t DEF SeatOK, At, HomeInv, TypeInv, TypeOK, Stops
      <4>3. Stopping(s)' BY <4>2, <1>s, <1>t, ShrinkKeeps
      <4> QED BY <4>1, <4>2, <4>3, <1>t DEF Stopping, On
    <3> QED BY <3>1, <3>2, <1>s, <1>t, SeatShrinks
  <2>2. RoundOK'
    <3>2. \A j \in Insts : On(j)' => On(j) BY <1>s, <1>t, ShrinkKeeps
    <3>3. PICK M : M = mon /\ M = mon' BY <1>t
    <3>4. M \in Mons /\ (M.pc = "notify" => M.inst \in Insts)
      BY <3>3, <1>t DEF HomeInv, TypeInv, TypeOK, Mons
    <3>5. M.pc # "idle" =>
            /\ \A j \in Insts : HandlersAt(Seat[j]) = {} /\ M.snap[j] \in {None, row[j]}
            /\ \A e \in M.poll : e[2] # "down" /\ (e[2] = "off" => ~On(e[1]))
            /\ M.pc = "notify" => ~On(M.inst)
      BY <3>3, <1>t DEF RoundOK
    <3>6. \A e \in M.poll : e[1] \in Insts BY <3>4 DEF Mons
    <3>7. \A j \in Insts : HandlersAt(Seat[j])' = HandlersAt(Seat[j])
      <4> SUFFICES ASSUME NEW j \in Insts PROVE HandlersAt(Seat[j])' = HandlersAt(Seat[j])
        OBVIOUS
      <4> QED BY <1>s, <1>t DEF HandlersAt
    <3>8. M.pc # "idle" =>
            /\ \A j \in Insts : HandlersAt(Seat[j])' = {} /\ M.snap[j] \in {None, row'[j]}
            /\ \A e \in M.poll : e[2] # "down" /\ (e[2] = "off" => ~On(e[1])')
            /\ M.pc = "notify" => ~On(M.inst)'
      BY <3>2, <3>4, <3>5, <3>6, <3>7, <1>t
    <3> QED BY <3>3, <3>8 DEF RoundOK, On
  <2> QED BY <2>1, <2>2, <1>z
<1>1. ASSUME NEW m \in Macs, Connect(m) PROVE SeatInv'
  <2>1. PICK t : t = told[m] OBVIOUS
  <2>2. PICK i : i = t.inst OBVIOUS
  <2>3. /\ t # None /\ i \in Insts /\ told' = [told EXCEPT ![m] = None]
        /\ vm' = IF On(i) /\ Domain(i).port = t.port
                 THEN [vm EXCEPT ![HostOf[i]][i].viewer = m] ELSE vm
    BY <1>1, <2>1, <2>2, <1>t DEF Connect, Told, On, Domain
  <2>4. PICK seat : seat = Seat[i] OBVIOUS
  <2>5. /\ SeatOK(seat) /\ Landing(m, t) /\ mon.pc = "idle" /\ ~At(stop, seat)
        /\ \A r \in Requests : ~At(req[r], seat)
        /\ \A k \in Macs \ {m} : ~TellAt(told[k], seat)
    <3>1. SeatOK(seat) /\ TellAt(told[m], seat)
      BY <2>1, <2>2, <2>3, <2>4 DEF SeatInv, TellAt
    <3>2. Alone(seat) /\ Landing(m, t) BY <3>1, <2>1 DEF SeatOK
    <3>3. m \in HandlersAt(seat) BY <3>1, Handling
    <3>4. mon.pc = "idle" BY <3>3, <2>3, <2>4, <1>t DEF RoundOK
    <3> QED BY <3>1, <3>2, <3>4, OnlyTold
  <2>6. /\ \A k \in Nodes, j \in Insts : j # i => vm'[k][j] = vm[k][j]
        /\ \A j \in Insts : On(j)' = On(j) /\ Domain(j)'.port = Domain(j).port
        /\ \A j \in Insts \ {i} : Domain(j)' = Domain(j)
        /\ \/ Domain(i)'.viewer = Domain(i).viewer
           \/ Domain(i)'.viewer = m /\ Domain(i).port = t.port
    <3>1. CASE vm' = vm BY <3>1 DEF On, Running, Domain
    <3>2. CASE vm' = [vm EXCEPT ![HostOf[i]][i].viewer = m] /\ Domain(i).port = t.port
      <4>1. HostOf[i] \in Nodes /\ \A j \in Insts : HostOf[j] \in Nodes BY <2>3
      <4>2. vm'[HostOf[i]][i] = [vm[HostOf[i]][i] EXCEPT !.viewer = m]
        BY <3>2, <4>1, <2>3, <1>t DEF Vms
      <4>3. \A k \in Nodes, j \in Insts : (j # i \/ k # HostOf[i]) => vm'[k][j] = vm[k][j]
        BY <3>2, <4>1, <2>3, <1>t DEF Vms
      <4>4. \A d \in Domains : /\ [d EXCEPT !.viewer = m].viewer = m
                               /\ [d EXCEPT !.viewer = m].port = d.port
                               /\ [d EXCEPT !.viewer = m].state = d.state
        BY DEF Domains, NoDomain, OffDomain
      <4>5. vm[HostOf[i]][i] \in Domains BY <4>1, <2>3, <1>t DEF Vms
      <4> QED BY <3>2, <4>1, <4>2, <4>3, <4>4, <4>5, <2>3 DEF On, Running, Domain
    <3> QED BY <2>3, <3>1, <3>2
  <2>7. SeatOK(seat)'
    <3>1. \A x \in Macs : ~TellAt(told'[x], seat) BY <2>3, <2>5, <1>t DEF TellAt
    <3>2. HandlersAt(seat)' \subseteq {}
      <4> SUFFICES ASSUME NEW x \in HandlersAt(seat)' PROVE FALSE
        OBVIOUS
      <4>1. x \in Requests \/ x = "stop" \/ x \in Macs BY HandlingNext
      <4> QED BY <4>1, <3>1, <2>5, <1>t, HandlingNext
    <3>3. Alone(seat)' BY <3>2 DEF Alone
    <3>4. ASSUME NEW j \in Insts, Seat[j] = seat PROVE StatusOK(j)' /\ ViewerOK(j)'
      <4>1. StatusOK(j) /\ ViewerOK(j) BY <3>4, <2>5 DEF SeatOK
      <4>2. StatusOK(j)' BY <4>1, <2>6, <1>t DEF StatusOK
      <4>3. ViewerOK(j)' BY <4>1, <2>2, <2>5, <2>6, <1>t DEF ViewerOK, Landing
      <4> QED BY <4>2, <4>3
    <3>5. \A j, k \in Insts : Seat[j] = seat /\ Seat[k] = seat /\ On(j)' /\ On(k)' => j = k
      BY <2>5, <2>6 DEF SeatOK
    <3> QED BY <3>1, <3>3, <3>4, <3>5, <2>5, <1>t DEF SeatOK, At, TellAt
  <2>8. ASSUME NEW T, \E j \in Insts : T = Seat[j] PROVE SeatOK(T)'
    <3>1. SeatOK(T) BY <2>8 DEF SeatInv
    <3>2. CASE T = seat BY <3>2, <2>7
    <3>3. CASE T # seat
      <4>1. \A j \in Insts : Seat[j] = T => \A k \in Nodes : vm'[k][j] = vm[k][j]
        BY <3>3, <2>4, <2>6
      <4>2. \A x \in Macs : told'[x] = told[x] \/ ~TellAt(told'[x], T)
        BY <2>3, <1>t DEF TellAt
      <4> QED BY <3>1, <4>1, <4>2, <1>t, ElsewhereStays
    <3> QED BY <3>2, <3>3
  <2>9. RoundOK' BY <2>5, <1>t DEF RoundOK
  <2> QED BY <2>8, <2>9, <1>z
<1>2. ASSUME NEW k \in Nodes, NEW i \in Insts, Disconnect(k, i) PROVE SeatInv'
  <2>1. Shrinks
    <3>1. vm' = [vm EXCEPT ![k][i].viewer = None] BY <1>2 DEF Disconnect
    <3> QED BY <3>1, <1>t DEF Shrinks, Running, Vms
  <2> QED BY <2>1, <1>2, <1>s DEF Disconnect
<1>3. ASSUME NEW k \in Nodes, NEW i \in Insts, GuestOff(k, i) PROVE SeatInv'
  <2>1. Shrinks BY <1>3, <1>t, OffShrinks DEF GuestOff
  <2> QED BY <2>1, <1>3, <1>s DEF GuestOff
<1> QED BY <1>1, <1>2, <1>3 DEF Environment

LEMMA SeatInvInit == Init => SeatInv
<1> SUFFICES ASSUME Init PROVE SeatInv
  OBVIOUS
<1>1. /\ \A r \in Requests : req[r].pc = "idle"
      /\ stop.pc = "idle" /\ mon.pc = "idle" /\ \A m \in Macs : told[m] = None
  BY DEF Init, IdleRequest, IdleStop, IdleMon
<1>2. \A i \in Insts : ~On(i) /\ Domain(i).viewer = None
  BY DEF Init, On, Running, Domain, OffDomain, NoDomain
<1>3. ASSUME NEW j \in Insts PROVE SeatOK(Seat[j])
  <2>1. HandlersAt(Seat[j]) = {} BY <1>1, Handling DEF At, TellAt
  <2> QED BY <2>1, <1>1, <1>2 DEF SeatOK, Alone, StatusOK, ViewerOK, At, TellAt
<1> QED BY <1>1, <1>3, HomeInvInit DEF SeatInv, RoundOK

LEMMA SeatInvUnchanged ==
  ASSUME SeatOnOneNode, SeatInv, UNCHANGED vars PROVE SeatInv'
<1>1. HomeInv' BY HomeInvNext DEF SeatInv
<1>2. ASSUME NEW j \in Insts PROVE SeatOK(Seat[j])'
  <2>1. PICK T : T = Seat[j] OBVIOUS
  <2>2. SeatOK(T) BY <2>1 DEF SeatInv
  <2>3. SeatOK(T)' BY <2>2, ElsewhereStays DEF vars, SeatInv
  <2>4. T = Seat[j] => SeatOK(Seat[j])' BY <2>3
  <2> QED BY <2>1, <2>4
<1>3. RoundOK'
  <2>1. \A j \in Insts : HandlersAt(Seat[j])' = HandlersAt(Seat[j]) BY DEF HandlersAt, vars
  <2> QED BY <2>1 DEF SeatInv, RoundOK, vars, On, Running
<1> QED BY <1>1, <1>2, <1>3 DEF SeatInv

LEMMA SeatInvNext ==
  SeatOnOneNode /\ Answered /\ SeatInv /\ [NextSerial]_vars => SeatInv'
<1> SUFFICES ASSUME SeatOnOneNode, Answered, SeatInv, [NextSerial]_vars PROVE SeatInv'
  OBVIOUS
<1>1. ASSUME NEW r \in Requests, Step(r) PROVE SeatInv' BY <1>1, SeatInvStep
<1>2. CASE StopStep BY <1>2, SeatInvStop
<1>3. CASE Environment BY <1>3, SeatInvEnvironment
<1>4. CASE Arrival /\ Serial' BY <1>4, SeatInvArrival
<1>5. CASE MonStep /\ Serial' BY <1>5, SeatInvMonitor DEF Serial
<1>6. CASE UNCHANGED vars BY <1>6, SeatInvUnchanged
<1> QED BY <1>1, <1>2, <1>3, <1>4, <1>5, <1>6 DEF NextSerial

-----------------------------------------------------------------------------
(* create_instance looks at the desktops of the other groups before it starts one:
   a seat never has two that run, when its desktops are on one node, the nodes
   answer and nothing overlaps at the seat.                                  *)
THEOREM SeatHasOne == SeatOnOneNode /\ Answered /\ SpecSerial => []SeatExclusive
<1> SUFFICES ASSUME SeatOnOneNode, Answered PROVE SpecSerial => []SeatExclusive
  OBVIOUS
<1>1. SeatInv /\ [NextSerial]_vars => SeatInv' BY SeatInvNext
<1>2. SeatInv => SeatExclusive
  <2> SUFFICES ASSUME SeatInv, NEW n \in Nodes, NEW k \in Nodes, NEW i \in Insts, NEW j \in Insts,
                      Seat[i] = Seat[j], i # j, Running(n, i), Running(k, j)
               PROVE FALSE
    BY DEF SeatExclusive
  <2>1. n = HostOf[i] /\ k = HostOf[j] BY DEF SeatInv, HomeInv, RunsAtHome
  <2> QED BY <2>1 DEF SeatInv, SeatOK, On
<1> QED BY <1>1, <1>2, SeatInvInit, PTL DEF SpecSerial

(* education_instance refuses a terminal when another one is connected to its
   desktop: on the same conditions nobody who is connected is pushed out by the
   viewer of another terminal.                                               *)
THEOREM NobodyPushedOut == SeatOnOneNode /\ Answered /\ SpecSerial => NoTakeover
<1> SUFFICES ASSUME SeatOnOneNode, Answered PROVE SpecSerial => NoTakeover
  OBVIOUS
<1> DEFINE Same == \A n \in Nodes, i \in Insts :
                     vm[n][i].viewer \in Macs /\ vm'[n][i].viewer \in Macs
                       => vm'[n][i].viewer = vm[n][i].viewer
<1>1. SeatInv /\ [NextSerial]_vars => SeatInv' BY SeatInvNext
<1>2. SeatInv /\ [NextSerial]_vars => [Same]_vars
  <2> SUFFICES ASSUME SeatInv, NextSerial, NEW n \in Nodes, NEW i \in Insts,
                      vm[n][i].viewer \in Macs, vm'[n][i].viewer \in Macs
               PROVE vm'[n][i].viewer = vm[n][i].viewer
    OBVIOUS
  <2>t. /\ vm \in Vms /\ told \in [Macs -> Told] /\ TypeInv
        /\ \A r \in Requests : ReqOK(req[r])
        /\ (stop.pc # "idle" => stop.inst \in Insts)
    BY DEF SeatInv, HomeInv, TypeInv, TypeOK, Vms, Told
  <2>m. None \notin Macs OBVIOUS
  <2>s. ASSUME Shrinks PROVE vm'[n][i].viewer = vm[n][i].viewer BY <2>s, <2>m DEF Shrinks
  <2>u. CASE UNCHANGED vm BY <2>u
  <2>1. ASSUME NEW r \in Requests, Step(r) PROVE vm'[n][i].viewer = vm[n][i].viewer
    <3>1. CASE StopSibling(r)
      <4>1. req[r].sib \in Insts /\ HostOf[req[r].sib] \in Nodes
        BY <3>1, <2>t DEF StopSibling, ReqOK
      <4>2. vm' = PoweredOff(HostOf[req[r].sib], req[r].sib)
        BY <3>1 DEF StopSibling, Answered
      <4> QED BY <4>1, <4>2, <2>t, <2>s, OffShrinks
    <3>2. CASE Create(r)
      <4> DEFINE k == req[r].node
                 j == req[r].inst
                 d == [state |-> "running", port |-> FreePort(k), viewer |-> None]
      <4>1. k \in Nodes /\ j \in Insts BY <3>2, <2>t DEF Create, ReqOK
      <4>2. vm' = vm \/ vm' = [vm EXCEPT ![k][j] = d] BY <3>2 DEF Create, Answered
      <4>3. d.viewer = None OBVIOUS
      <4> HIDE DEF d
      <4>4. CASE vm' = [vm EXCEPT ![k][j] = d]
        BY <4>1, <4>3, <4>4, <2>t, <2>m DEF Vms
      <4> QED BY <4>2, <4>4
    <3>3. CASE ~StopSibling(r) /\ ~Create(r)
      BY <2>1, <3>3, <2>u
      DEF Step, CheckLink, ReadSibling, ClearSibling, Prepare, RecordError, Record, Answer,
          Refuse, Goto
    <3> QED BY <3>1, <3>2, <3>3
  <2>2. CASE StopStep
    <3>1. CASE vm' = PoweredOff(HostOf[stop.inst], stop.inst) /\ stop.inst \in Insts
      <4>1. HostOf[stop.inst] \in Nodes BY <3>1
      <4> QED BY <3>1, <4>1, <2>t, <2>s, OffShrinks
    <3> QED BY <3>1, <2>2, <2>t, <2>u DEF StopStep, StopCall, StopRecord
  <2>3. CASE MonStep \/ Arrival
    BY <2>3, <2>u DEF MonStep, MonLoad, MonPoll, MonPollFails, MonApply, MonUnbind, MonEnd,
                      Arrival, AdminStart, Open, StopBegin
  <2>4. ASSUME NEW m \in Macs, Connect(m) PROVE vm'[n][i].viewer = vm[n][i].viewer
    <3>1. PICK t : t = told[m] OBVIOUS
    <3>2. PICK j \in Insts : j = t.inst /\ t # None BY <2>4, <3>1, <2>t DEF Connect, Told
    <3>3. Domain(j).viewer \in {None, m}
      <4>1. TellAt(told[m], Seat[j]) BY <3>1, <3>2 DEF TellAt
      <4>2. Landing(m, told[m]) BY <4>1, <3>2 DEF SeatInv, SeatOK
      <4> QED BY <4>2, <3>1, <3>2 DEF Landing
    <3>4. vm' = vm \/ vm' = [vm EXCEPT ![HostOf[j]][j].viewer = m]
      BY <2>4, <3>1, <3>2 DEF Connect
    <3>5. CASE vm' = [vm EXCEPT ![HostOf[j]][j].viewer = m]
      <4>1. PICK k \in Nodes : k = HostOf[j] BY <3>2
      <4>2. CASE n = k /\ i = j
        <5>1. vm[n][i].viewer = m BY <4>1, <4>2, <3>3, <2>m DEF Domain
        <5>2. vm[n][i] \in Domains BY <2>t DEF Vms
        <5>3. \A e \in Domains : [e EXCEPT !.viewer = m].viewer = m
          BY DEF Domains, NoDomain, OffDomain
        <5>4. vm'[n][i] = [vm[n][i] EXCEPT !.viewer = m]
          BY <3>5, <4>1, <4>2, <2>t DEF Vms
        <5> QED BY <5>1, <5>2, <5>3, <5>4
      <4>3. CASE n # k \/ i # j BY <3>5, <4>1, <4>3, <2>t DEF Vms
      <4> QED BY <4>2, <4>3
    <3> QED BY <3>4, <3>5
  <2>5. ASSUME NEW k \in Nodes, NEW j \in Insts, Disconnect(k, j)
        PROVE vm'[n][i].viewer = vm[n][i].viewer
    <3>1. Shrinks
      <4>1. vm' = [vm EXCEPT ![k][j].viewer = None] BY <2>5 DEF Disconnect
      <4> QED BY <4>1, <2>t DEF Shrinks, Running, Vms
    <3> QED BY <3>1, <2>s
  <2>6. ASSUME NEW k \in Nodes, NEW j \in Insts, GuestOff(k, j)
        PROVE vm'[n][i].viewer = vm[n][i].viewer
    BY <2>6, <2>t, <2>s, OffShrinks DEF GuestOff
  <2> QED BY <2>1, <2>2, <2>3, <2>4, <2>5, <2>6 DEF NextSerial, Environment
<1>3. SpecSerial => [][Same]_vars BY <1>1, <1>2, SeatInvInit, PTL DEF SpecSerial
<1> QED BY <1>3 DEF NoTakeover
=============================================================================
