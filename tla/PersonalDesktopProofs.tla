------------------------ MODULE PersonalDesktopProofs -----------------------
(***************************************************************************)
(* Proofs about PersonalDesktop, for any pool, static desktops, users,     *)
(* groups, ports and licence.  Types hold whatever overlaps and fails.     *)
(* When handlers run one after the other, a random desktop is bound to one *)
(* user and a user has one random desktop of a group, whatever fails       *)
(* (BindInv).  When also no handler runs during a round of the monitor and *)
(* the node answers, the licence and the limit of two desktops are kept    *)
(* and nobody is pushed out of a desktop (ServeInv).                       *)
(***************************************************************************)
EXTENDS PersonalDesktop, FiniteSetTheorems, WellFoundedInduction, TLAPS

USE ConstantAssumption

(* Ports and desktops are numbers: a set of them that is not empty has a least
   one, and Min is it.                                                       *)
LEMMA MinIsMember ==
  ASSUME NEW S \in SUBSET Nat, S # {}
  PROVE Min(S) \in S
<1>1. IsWellFoundedOn(OpToRel(<, Nat), Nat) BY NatLessThanWellFounded
<1>2. PICK x \in S : \A y \in S : ~(<<y, x>> \in OpToRel(<, Nat)) BY <1>1, WFMin
<1>3. \A y \in S : x <= y
  <2> TAKE y \in S
  <2>1. ~(y < x) BY <1>2 DEF OpToRel
  <2> QED BY <2>1
<1> QED BY <1>3 DEF Min

Pcs == {"idle", "links", "release", "pick", "create", "record", "binds", "clear",
        "bind", "answer", "close"}
ReqRecs == [pc : Pcs,
            user : Users \cup {None}, group : Groups \cup {None}, read : SUBSET Pool,
            ports : SUBSET Ports, mine : Insts \cup {None}, started : Insts \cup {None},
            others : SUBSET (Users \X Pool), inst : Insts \cup {None},
            seen : Ports \cup {None}, port : Ports \cup {None}, todo : SUBSET Insts]
Vms == [port : Ports \cup {None}, viewer : Users \cup {None}]
Told == [inst : Insts, port : Ports \cup {None}] \cup {None}

(* What a request has at the places where it uses it: a user, the desktop it
   releases, starts or answers.                                              *)
ReqOK(q) ==
  /\ q \in ReqRecs
  /\ q.pc # "idle" => q.user \in Users
  /\ q.pc = "links" /\ q.mine = None => q.seen = None
  /\ q.pc = "release" => q.mine \in Pool
  /\ q.pc \in {"create", "record", "binds", "clear"} => q.started \in Insts
  /\ q.pc \in {"create", "record", "binds", "clear", "bind", "answer"} => q.inst \in Insts

TypeInv ==
  /\ TypeOK
  /\ \A r \in Requests : ReqOK(req[r])
  /\ mon.pc # "idle" => mon.snap \in Rows

LEMMA TypeInvInit == Init => TypeInv
BY DEF Init, TypeInv, TypeOK, ReqOK, ReqRecs, Pcs, Idle, IdleMon, Off, Rows, Insts

LEMMA ReqTyped ==
  ASSUME TypeInv, NEW r \in Requests, NEW q, ReqOK(q), req' = [req EXCEPT ![r] = q]
  PROVE /\ req' \in [Requests -> ReqRecs]
        /\ \A s \in Requests : ReqOK(req'[s])
BY DEF TypeInv, TypeOK, ReqOK

LEMMA IdleOK == ReqOK(Idle)
BY DEF ReqOK, Idle, ReqRecs, Pcs, Insts

(* What a step leaves to be shown of the rest of the state *)
LEMMA TypesOf ==
  ASSUME TypeInv, NEW r \in Requests, NEW q, ReqOK(q), req' = [req EXCEPT ![r] = q],
         row' \in Rows, binds' \in SUBSET (Users \X Pool), vm' \in [Insts -> Vms],
         told' \in [Users -> Told], UNCHANGED mon
  PROVE TypeInv'
<1>1. req' \in [Requests -> ReqRecs] /\ \A s \in Requests : ReqOK(req'[s]) BY ReqTyped
<1> QED BY <1>1 DEF TypeInv, TypeOK, ReqRecs, Pcs, Vms, Told

LEMMA TypeInvStep == ASSUME TypeInv, NEW r \in Requests, Step(r) PROVE TypeInv'
<1> DEFINE q == req[r]
<1>t. /\ ReqOK(q) /\ q \in ReqRecs
      /\ row \in Rows /\ binds \in SUBSET (Users \X Pool) /\ vm \in [Insts -> Vms]
      /\ told \in [Users -> Told] /\ req \in [Requests -> ReqRecs]
  BY DEF TypeInv, TypeOK, ReqOK, ReqRecs, Pcs, Vms, Told
<1>f. ASSUME Finish(r), row' \in Rows, binds' \in SUBSET (Users \X Pool),
             vm' \in [Insts -> Vms], told' \in [Users -> Told], UNCHANGED mon
      PROVE TypeInv'
  BY <1>f, TypesOf, IdleOK DEF Finish
<1>1. CASE CheckLinks(r)
  <2>1. PICK linked \in SUBSET Ports :
          \/ /\ q.seen \in linked
             /\ told' = [told EXCEPT ![q.user] = [inst |-> q.mine, port |-> q.seen]]
             /\ Finish(r)
          \/ /\ q.seen \notin linked
             /\ req' = [req EXCEPT ![r].pc = IF q.mine \in Pool THEN "release" ELSE "pick",
                                   ![r].ports = linked]
             /\ UNCHANGED told
    <3>1. q.ports \subseteq Ports BY <1>t DEF ReqRecs
    <3> QED BY <1>1, <3>1 DEF CheckLinks
  <2>2. q.pc = "links" /\ UNCHANGED <<row, binds, vm, mon>> BY <1>1 DEF CheckLinks
  <2>3. CASE q.seen \in linked
    <3>1. q.seen \in Ports /\ q.mine \in Insts /\ q.user \in Users
      BY <2>2, <2>3, <1>t DEF ReqOK, ReqRecs, Insts
    <3>2. told' \in [Users -> Told] BY <2>1, <2>3, <3>1, <1>t DEF Told
    <3> QED BY <2>1, <2>2, <2>3, <3>2, <1>f, <1>t
  <2>4. CASE q.seen \notin linked
    <3> DEFINE p == IF q.mine \in Pool THEN "release" ELSE "pick"
               n == [q EXCEPT !.pc = p, !.ports = linked]
    <3>1. p \in {"release", "pick"} /\ (p = "release" => q.mine \in Pool) OBVIOUS
    <3>2. req' = [req EXCEPT ![r].pc = p, ![r].ports = linked] BY <2>1, <2>4
    <3> HIDE DEF p
    <3>3. n \in ReqRecs BY <1>t, <3>1 DEF ReqRecs, Pcs
    <3>4. ReqOK(n) BY <1>t, <2>2, <3>1, <3>3 DEF ReqOK, ReqRecs
    <3>5. req' = [req EXCEPT ![r] = n] BY <3>2, <1>t DEF ReqRecs
    <3>6. UNCHANGED <<row, binds, vm, told, mon>> BY <2>1, <2>2, <2>4
    <3> QED BY <3>4, <3>5, <3>6, <1>t, TypesOf
  <2> QED BY <2>3, <2>4
<1>m. ASSUME NEW n \in ReqRecs, ReqOK(n), req' = [req EXCEPT ![r] = n],
             row' \in Rows, binds' \in SUBSET (Users \X Pool), vm' \in [Insts -> Vms],
             UNCHANGED <<told, mon>>
      PROVE TypeInv'
  BY <1>m, <1>t, TypesOf
<1>2. CASE Release(r)
  <2> DEFINE n == [q EXCEPT !.pc = "pick"]
  <2>1. q.pc = "release" /\ q.mine \in Pool BY <1>2, <1>t DEF Release, ReqOK
  <2>2. n \in ReqRecs /\ ReqOK(n) BY <1>t, <2>1 DEF ReqOK, ReqRecs, Pcs
  <2>3. req' = [req EXCEPT ![r] = n] BY <1>2 DEF Release, Goto
  <2>4. row' \in Rows /\ binds' \subseteq Users \X Pool
    BY <1>2, <1>t, <2>1 DEF Release, Rows, Insts
  <2> QED BY <1>2, <1>m, <1>t, <2>2, <2>3, <2>4 DEF Release
<1>3. CASE Pick(r)
  <2>1. q.pc = "pick" /\ UNCHANGED <<row, binds, vm, told, mon>> BY <1>3 DEF Pick
  <2>2. CASE Finish(r) BY <2>1, <2>2, <1>f, <1>t
  <2>3. CASE ~Finish(r)
    <3> DEFINE candidates == IF \E i \in Pool : Group[i] = q.group
                             THEN (IF Free(q.group) = {} THEN {} ELSE {Min(Free(q.group))})
                             ELSE {i \in StaticOf(q.user) : Group[i] = q.group}
    <3>1. PICK i \in candidates :
            req' = [req EXCEPT ![r].pc = "create", ![r].started = i, ![r].inst = i,
                               ![r].seen = row[i].port]
      BY <1>3, <2>3 DEF Pick
    <3>2. i \in Insts
      <4>1. Free(q.group) \subseteq Pool /\ Pool \subseteq Nat BY DEF Free, Insts
      <4>2. Free(q.group) # {} => Min(Free(q.group)) \in Pool BY <4>1, MinIsMember
      <4>3. StaticOf(q.user) \subseteq Static BY DEF StaticOf
      <4> QED BY <3>1, <4>2, <4>3 DEF Insts
    <3> DEFINE n == [q EXCEPT !.pc = "create", !.started = i, !.inst = i, !.seen = row[i].port]
    <3>3. row[i].port \in Ports \cup {None} BY <3>2, <1>t DEF Rows
    <3> HIDE DEF candidates
    <3>4. n \in ReqRecs BY <1>t, <3>2, <3>3 DEF ReqRecs, Pcs
    <3>5. ReqOK(n) BY <1>t, <2>1, <3>2, <3>4 DEF ReqOK, ReqRecs
    <3>6. req' = [req EXCEPT ![r] = n] BY <3>1, <1>t DEF ReqRecs
    <3> QED BY <1>m, <1>t, <2>1, <3>4, <3>5, <3>6
  <2> QED BY <2>2, <2>3
<1>4. CASE Create(r)
  <2> DEFINE i == q.started
             started == IF Running(i) THEN vm
                        ELSE [vm EXCEPT ![i] = [port |-> FreePort, viewer |-> None]]
  <2>1. q.pc = "create" /\ i \in Insts /\ UNCHANGED <<row, binds, told, mon>>
    BY <1>4, <1>t DEF Create, ReqOK
  <2>2. CASE vm' = vm /\ Finish(r) BY <2>1, <2>2, <1>f, <1>t
  <2>3. CASE ~(vm' = vm /\ Finish(r))
    <3>1. /\ Running(i) \/ FreePorts # {}
          /\ vm' = started
          /\ req' = [req EXCEPT ![r].pc = "record", ![r].port = started[i].port]
      BY <1>4, <2>3 DEF Create
    <3>2. started \in [Insts -> Vms]
      <4>1. FreePorts # {} => FreePort \in Ports
        <5>1. FreePorts \subseteq Ports BY DEF FreePorts
        <5> QED BY <5>1, MinIsMember DEF FreePort
      <4> QED BY <3>1, <4>1, <1>t, <2>1 DEF Vms
    <3>3. started[i].port \in Ports \cup {None} BY <3>2, <2>1 DEF Vms
    <3> DEFINE n == [q EXCEPT !.pc = "record", !.port = started[i].port]
    <3> HIDE DEF started
    <3>4. n \in ReqRecs /\ ReqOK(n) BY <1>t, <2>1, <3>3 DEF ReqOK, ReqRecs, Pcs
    <3>5. req' = [req EXCEPT ![r] = n] BY <3>1, <1>t DEF ReqRecs
    <3> QED BY <1>m, <1>t, <2>1, <3>1, <3>2, <3>4, <3>5
  <2> QED BY <2>2, <2>3
<1>5. CASE Record(r)
  <2> DEFINE p == IF q.started \in Pool THEN "binds" ELSE "bind"
             n == [q EXCEPT !.pc = p]
  <2>1. q.pc = "record" /\ q.started \in Insts /\ UNCHANGED <<binds, vm, told, mon>>
    BY <1>5, <1>t DEF Record, ReqOK
  <2>2. row' \in Rows
    <3>1. row' = [row EXCEPT ![q.started].port = IF q.port # q.seen THEN q.port ELSE @]
      BY <1>5 DEF Record
    <3>2. q.port \in Ports \cup {None} BY <1>t DEF ReqRecs
    <3> QED BY <3>1, <3>2, <2>1, <1>t DEF Rows
  <2>3. n \in ReqRecs /\ ReqOK(n) BY <1>t, <2>1 DEF ReqOK, ReqRecs, Pcs
  <2>4. req' = [req EXCEPT ![r] = n] BY <1>5 DEF Record, Goto
  <2> QED BY <1>m, <1>t, <2>1, <2>2, <2>3, <2>4
<1>6. CASE ReadBinds(r)
  <2> DEFINE n == [q EXCEPT !.pc = "clear", !.others = {b \in binds : b[2] = q.started}]
  <2>1. q.pc = "binds" /\ UNCHANGED <<row, binds, vm, told, mon>> BY <1>6 DEF ReadBinds
  <2>2. {b \in binds : b[2] = q.started} \in SUBSET (Users \X Pool) BY <1>t
  <2>3. n \in ReqRecs /\ ReqOK(n) BY <1>t, <2>1, <2>2 DEF ReqOK, ReqRecs, Pcs
  <2>4. req' = [req EXCEPT ![r] = n] BY <1>6, <1>t DEF ReadBinds, ReqRecs
  <2> QED BY <1>m, <1>t, <2>1, <2>3, <2>4
<1>7. CASE ClearOld(r)
  <2> DEFINE old == {i \in q.read : Group[i] = q.group}
  <2>1. /\ q.pc = "clear" /\ q.started \in Insts /\ old \subseteq Insts
        /\ row' = [i \in Insts |-> IF i \in old THEN [row[i] EXCEPT !.alloc = FALSE] ELSE row[i]]
        /\ binds' = binds \ ({q.user} \X old) /\ UNCHANGED <<vm, told, mon>>
    BY <1>7, <1>t DEF ClearOld, ReqOK, ReqRecs, Insts
  <2>2. PICK last \in IF old = {} THEN {q.started} ELSE old :
          req' = [req EXCEPT ![r].pc = "bind", ![r].inst = last]
    BY <1>7 DEF ClearOld
  <2>3. last \in Insts BY <2>1, <2>2
  <2>4. row' \in Rows
    <3>1. row \in [Insts -> [port : Ports \cup {None}, alloc : BOOLEAN]] BY <1>t DEF Rows
    <3>2. \A i \in Insts : [row[i] EXCEPT !.alloc = FALSE]
                             \in [port : Ports \cup {None}, alloc : BOOLEAN]
      BY <3>1
    <3> QED BY <3>1, <3>2, <2>1 DEF Rows
  <2> DEFINE n == [q EXCEPT !.pc = "bind", !.inst = last]
  <2> HIDE DEF old
  <2>5. n \in ReqRecs /\ ReqOK(n) BY <1>t, <2>1, <2>3 DEF ReqOK, ReqRecs, Pcs
  <2>6. req' = [req EXCEPT ![r] = n] BY <2>2, <1>t DEF ReqRecs
  <2> QED BY <1>m, <1>t, <2>1, <2>4, <2>5, <2>6
<1>8. CASE Bind(r)
  <2> DEFINE n == [q EXCEPT !.pc = "answer"]
  <2>1. /\ q.pc = "bind" /\ q.inst \in Insts /\ q.user \in Users /\ UNCHANGED <<vm, told, mon>>
        /\ binds' = (binds \ q.others) \cup ({q.user} \X ({q.inst} \cap Pool))
        /\ row' = [row EXCEPT ![q.inst].alloc = @ \/ q.inst \in Pool]
    BY <1>8, <1>t DEF Bind, ReqOK
  <2>2. binds' \subseteq Users \X Pool BY <2>1, <1>t
  <2>3. row' \in Rows
    <3> DEFINE b == row[q.inst].alloc \/ q.inst \in Pool
    <3>1. b \in BOOLEAN /\ row' = [row EXCEPT ![q.inst].alloc = b] BY <2>1
    <3> HIDE DEF b
    <3> QED BY <2>1, <3>1, <1>t DEF Rows
  <2>4. n \in ReqRecs /\ ReqOK(n) BY <1>t, <2>1 DEF ReqOK, ReqRecs, Pcs
  <2>5. req' = [req EXCEPT ![r] = n] BY <1>8 DEF Bind, Goto
  <2> QED BY <1>m, <1>t, <2>1, <2>2, <2>3, <2>4, <2>5
<1>9. CASE Answer(r)
  <2>1. /\ q.pc = "answer" /\ q.inst \in Insts /\ q.user \in Users /\ Finish(r)
        /\ UNCHANGED <<row, binds, vm, mon>>
        /\ told' = [told EXCEPT ![q.user] = [inst |-> q.inst, port |-> row[q.inst].port]]
    BY <1>9, <1>t DEF Answer, ReqOK
  <2>2. row[q.inst].port \in Ports \cup {None} BY <2>1, <1>t DEF Rows
  <2>3. told' \in [Users -> Told] BY <2>1, <2>2, <1>t DEF Told
  <2> QED BY <2>1, <2>3, <1>f, <1>t
<1>10. CASE CloseEnd(r)
  BY <1>10, <1>f, <1>t DEF CloseEnd
<1>11. ASSUME NEW i \in Insts, CloseOne(r, i) PROVE TypeInv'
  <2> DEFINE n == [q EXCEPT !.todo = @ \ {i}]
  <2>1. q.pc = "close" /\ UNCHANGED <<binds, told, mon>> BY <1>11 DEF CloseOne
  <2>2. vm' \in [Insts -> Vms] BY <1>11, <1>t DEF CloseOne, Vms, Off
  <2>3. row' \in Rows
    <3>1. CASE row' = [row EXCEPT ![i] = [port |-> None, alloc |-> FALSE]]
      BY <3>1, <1>t DEF Rows
    <3>2. CASE row' = [row EXCEPT ![i].alloc = FALSE]
      BY <3>2, <1>t DEF Rows
    <3> QED BY <3>1, <3>2, <1>11 DEF CloseOne
  <2>4. n \in ReqRecs /\ ReqOK(n) BY <1>t, <2>1 DEF ReqOK, ReqRecs, Pcs
  <2>5. req' = [req EXCEPT ![r] = n] BY <1>11, <1>t DEF CloseOne, ReqRecs
  <2> QED BY <1>m, <1>t, <2>1, <2>2, <2>3, <2>4, <2>5
<1> QED BY <1>1, <1>2, <1>3, <1>4, <1>5, <1>6, <1>7, <1>8, <1>9, <1>10, <1>11 DEF Step

LEMMA TypeInvArrival == ASSUME TypeInv, Arrival PROVE TypeInv'
<1>1. PICK r \in Requests, u \in Users : Close(r, u) \/ \E g \in Groups : Open(r, u, g)
  BY DEF Arrival
<1>t. /\ row \in Rows /\ binds \in SUBSET (Users \X Pool) /\ vm \in [Insts -> Vms]
      /\ told \in [Users -> Told] /\ req \in [Requests -> ReqRecs]
      /\ BindsOf(u) \in SUBSET Pool /\ StaticOf(u) \in SUBSET Static
  BY DEF TypeInv, TypeOK, ReqOK, ReqRecs, Pcs, Vms, Told, BindsOf, StaticOf
<1>2. CASE Close(r, u)
  <2> DEFINE n == [Idle EXCEPT !.pc = "close", !.user = u, !.todo = BindsOf(u) \cup StaticOf(u)]
  <2>1. n \in ReqRecs /\ ReqOK(n) BY <1>t DEF ReqOK, ReqRecs, Pcs, Idle, Insts
  <2> QED BY <1>2, <2>1, <1>t, TypesOf DEF Close
<1>3. ASSUME NEW g \in Groups, Open(r, u, g) PROVE TypeInv'
  <2> DEFINE own == BindsOf(u) \cup StaticOf(u)
             ports == {row[i].port : i \in own} \ {None}
             seen(mine) == IF mine = None THEN None ELSE row[mine].port
             n(mine) == [Idle EXCEPT !.pc = "links", !.user = u, !.group = g,
                           !.read = BindsOf(u), !.ports = ports, !.mine = mine,
                           !.seen = seen(mine)]
  <2>1. PICK mine \in IF \E i \in own : Group[i] = g
                      THEN {i \in own : Group[i] = g} ELSE {None} :
          req' = [req EXCEPT ![r] = n(mine)]
    BY <1>3 DEF Open
  <2>2. own \subseteq Insts /\ mine \in Insts \cup {None} BY <2>1, <1>t DEF Insts
  <2>3. ports \in SUBSET Ports BY <2>2, <1>t DEF Rows
  <2>4. seen(mine) \in Ports \cup {None} /\ (mine = None => seen(mine) = None)
    BY <2>2, <1>t DEF Rows
  <2> HIDE DEF own, ports, seen
  <2>5. n(mine) \in ReqRecs /\ ReqOK(n(mine))
    BY <1>t, <2>2, <2>3, <2>4 DEF ReqOK, ReqRecs, Pcs, Idle
  <2> QED BY <1>3, <2>1, <2>5, <1>t, TypesOf DEF Open
<1> QED BY <1>1, <1>2, <1>3

LEMMA TypeInvOthers ==
  ASSUME TypeInv, MonStep \/ Environment \/ UNCHANGED vars PROVE TypeInv'
<1>t. /\ row \in Rows /\ vm \in [Insts -> Vms] /\ told \in [Users -> Told]
      /\ mon \in [pc : {"idle", "poll", "apply"}, snap : Rows \cup {None},
                  linked : SUBSET Ports, todo : SUBSET Insts]
      /\ mon.pc # "idle" => mon.snap \in Rows
  BY DEF TypeInv, TypeOK, Vms, Told
<1>m. ASSUME row' \in Rows, UNCHANGED <<binds, vm, told, req>>,
             mon' \in [pc : {"idle", "poll", "apply"}, snap : Rows \cup {None},
                       linked : SUBSET Ports, todo : SUBSET Insts],
             mon'.pc # "idle" => mon'.snap \in Rows
      PROVE TypeInv'
  BY <1>m DEF TypeInv, TypeOK
<1>e. ASSUME UNCHANGED <<row, binds, req, mon>>, vm' \in [Insts -> Vms],
             told' \in [Users -> Told]
      PROVE TypeInv'
  BY <1>e DEF TypeInv, TypeOK, Vms, Told
<1>1. CASE MonLoad BY <1>1, <1>t, <1>m DEF MonLoad, IdleMon
<1>2. CASE MonPoll
  <2>1. PICK linked \in SUBSET Ports :
          mon' = [mon EXCEPT !.pc = "apply", !.linked = linked, !.todo = Insts]
    BY <1>2 DEF MonPoll
  <2> QED BY <1>2, <2>1, <1>t, <1>m DEF MonPoll
<1>3. CASE MonEnd BY <1>3, <1>t, <1>m DEF MonEnd, IdleMon
<1>4. ASSUME NEW i \in Insts, MonApply(i) PROVE TypeInv'
  <2>1. PICK held : row' = [row EXCEPT ![i].alloc =
          @ /\ ~(held.alloc /\ held.port # None /\ held.port \notin mon.linked)]
    BY <1>4 DEF MonApply
  <2> DEFINE b == row[i].alloc /\ ~(held.alloc /\ held.port # None /\ held.port \notin mon.linked)
  <2>3. b \in BOOLEAN /\ row' = [row EXCEPT ![i].alloc = b] BY <2>1
  <2> HIDE DEF b
  <2>2. row' \in Rows BY <2>3, <1>t DEF Rows
  <2> QED BY <1>4, <2>2, <1>t, <1>m DEF MonApply
<1>5. ASSUME NEW u \in Users, Connect(u) PROVE TypeInv'
  <2>1. vm' \in [Insts -> Vms]
    <3> DEFINE i == told[u].inst
    <3>1. vm' = [vm EXCEPT ![i].viewer = u] \/ vm' = vm BY <1>5 DEF Connect
    <3>2. i \in Insts BY <1>5, <1>t DEF Connect, Told
    <3> HIDE DEF i
    <3> QED BY <3>1, <3>2, <1>t DEF Vms
  <2>2. told' \in [Users -> Told] BY <1>5, <1>t DEF Connect, Told
  <2> QED BY <1>5, <2>1, <2>2, <1>e DEF Connect
<1>6. ASSUME NEW i \in Insts, Disconnect(i) \/ GuestOff(i) PROVE TypeInv'
  BY <1>6, <1>t, <1>e DEF Disconnect, GuestOff, Vms, Off
<1>7. CASE UNCHANGED vars BY <1>7, <1>t, <1>e DEF vars
<1> QED BY <1>1, <1>2, <1>3, <1>4, <1>5, <1>6, <1>7 DEF MonStep, Environment

LEMMA TypeInvNext == TypeInv /\ [Next]_vars => TypeInv'
BY TypeInvStep, TypeInvArrival, TypeInvOthers DEF Next

(* Types of the pool, the bindings, the domains and the requests, for any number
   of requests at a time, with calls that fail and a monitor that interferes.  *)
THEOREM Types == Spec => []TypeOK
<1>1. TypeInv => TypeOK BY DEF TypeInv
<1> QED BY <1>1, TypeInvInit, TypeInvNext, PTL DEF Spec

-----------------------------------------------------------------------------
(* Handlers one after the other.  OneHandler counts them; what the proofs use is
   that two of them are the same.                                            *)
Alone == \A x, y \in Handlers : x = y

LEMMA AtMostOne ==
  ASSUME NEW S, IsFiniteSet(S), Cardinality(S) <= 1
  PROVE \A x, y \in S : x = y
<1> SUFFICES ASSUME NEW x \in S, NEW y \in S, x # y PROVE FALSE
  OBVIOUS
<1>1. IsFiniteSet({x}) /\ Cardinality({x}) = 1 BY FS_Singleton
<1>2. Cardinality({x} \cup {y}) = 2
  <2>1. Cardinality({x} \cup {y}) = IF y \in {x} THEN Cardinality({x}) ELSE Cardinality({x}) + 1
    BY <1>1, FS_AddElement
  <2> QED BY <1>1, <2>1
<1>3. {x} \cup {y} \in SUBSET S OBVIOUS
<1>4. Cardinality({x} \cup {y}) <= Cardinality(S) BY <1>3, FS_Subset
<1>5. Cardinality(S) \in Nat BY FS_CardinalityType
<1> QED BY <1>2, <1>4, <1>5

LEMMA OneIsFinite ==
  ASSUME NEW S, \A x, y \in S : x = y
  PROVE IsFiniteSet(S) /\ Cardinality(S) <= 1
<1>1. CASE S = {}
  <2>1. IsFiniteSet(S) /\ Cardinality(S) = 0 BY <1>1, FS_EmptySet
  <2> QED BY <2>1
<1>2. CASE S # {}
  <2>1. PICK x \in S : S = {x} BY <1>2
  <2>2. IsFiniteSet(S) /\ Cardinality(S) = 1 BY <2>1, FS_Singleton
  <2> QED BY <2>2
<1> QED BY <1>1, <1>2

LEMMA AloneInit == Init => Alone
<1> SUFFICES ASSUME Init PROVE Alone
  OBVIOUS
<1>1. \A r \in Requests : req[r].pc = "idle" BY DEF Init, Idle
<1>2. \A u \in Users : told[u] = None BY DEF Init
<1> QED BY <1>1, <1>2 DEF Alone, Handlers

\* A step of a request: it was the only handler, and it or its terminal is now.
LEMMA AloneStep ==
  ASSUME TypeInv, Alone, NEW r \in Requests, Step(r)
  PROVE /\ req[r].pc # "idle"
        /\ \A s \in Requests \ {r} : req[s].pc = "idle" /\ req'[s] = req[s]
        /\ Alone'
<1>1. req[r].pc # "idle"
  BY DEF Step, CheckLinks, Release, Pick, Create, Record, ReadBinds, ClearOld, Bind,
         Answer, CloseEnd, CloseOne
<1>2. r \in Handlers BY <1>1 DEF Handlers
<1>3. /\ \A s \in Requests \ {r} : req[s].pc = "idle"
      /\ \A u \in Users : told[u] = None
  BY <1>2 DEF Alone, Handlers
<1>4. \A s \in Requests \ {r} : req'[s] = req[s]
  <2> SUFFICES ASSUME NEW s \in Requests \ {r} PROVE req'[s] = req[s]
    OBVIOUS
  <2>1. req \in [Requests -> ReqRecs] BY DEF TypeInv, TypeOK, ReqRecs, Pcs
  <2>2. ASSUME Finish(r) PROVE req'[s] = req[s] BY <2>1, <2>2 DEF Finish
  <2>3. ASSUME NEW p, Goto(r, p) PROVE req'[s] = req[s] BY <2>1, <2>3 DEF Goto
  <2>4. CASE CheckLinks(r) BY <2>1, <2>2, <2>4 DEF CheckLinks
  <2>5. CASE Release(r) \/ Record(r) \/ Bind(r) BY <2>3, <2>5 DEF Release, Record, Bind
  <2>6. CASE Pick(r) BY <2>1, <2>2, <2>6 DEF Pick
  <2>7. CASE Create(r) BY <2>1, <2>2, <2>7 DEF Create
  <2>8. CASE ReadBinds(r) \/ ClearOld(r) BY <2>1, <2>8 DEF ReadBinds, ClearOld
  <2>9. CASE Answer(r) \/ CloseEnd(r) BY <2>2, <2>9 DEF Answer, CloseEnd
  <2>10. ASSUME NEW i \in Insts, CloseOne(r, i) PROVE req'[s] = req[s]
    BY <2>1, <2>10 DEF CloseOne
  <2> QED BY <2>4, <2>5, <2>6, <2>7, <2>8, <2>9, <2>10 DEF Step
<1>5. \/ /\ told' = told
      \/ \E t : \E u \in Users : told' = [told EXCEPT ![u] = t] /\ req'[r] = Idle
  <2>1. req \in [Requests -> ReqRecs] /\ ReqOK(req[r])
    BY DEF TypeInv, TypeOK, ReqRecs, Pcs
  <2>2. ASSUME Finish(r) PROVE req'[r] = Idle BY <2>1, <2>2 DEF Finish
  <2>3. CASE CheckLinks(r) BY <2>1, <2>2, <2>3 DEF CheckLinks, ReqOK
  <2>4. CASE Answer(r) BY <2>1, <2>2, <2>4 DEF Answer, ReqOK
  <2>5. CASE ~CheckLinks(r) /\ ~Answer(r)
    BY <2>5 DEF Step, Release, Pick, Create, Record, ReadBinds, ClearOld, Bind, CloseEnd, CloseOne
  <2> QED BY <2>3, <2>4, <2>5
<1>6. Alone'
  <2>1. told \in [Users -> Told] BY DEF TypeInv, TypeOK, Told
  <2>2. CASE told' = told
    <3>1. Handlers' \subseteq {r} BY <1>3, <1>4, <2>2 DEF Handlers
    <3> QED BY <3>1 DEF Alone
  <2>3. ASSUME NEW u \in Users, NEW t, told' = [told EXCEPT ![u] = t], req'[r] = Idle
        PROVE Alone'
    <3>1. \A v \in Users \ {u} : told'[v] = None BY <1>3, <2>1, <2>3
    <3>2. \A s \in Requests : req'[s].pc = "idle" BY <1>3, <1>4, <2>3 DEF Idle
    <3>3. Handlers' \subseteq {u} BY <3>1, <3>2 DEF Handlers
    <3> QED BY <3>3 DEF Alone
  <2> QED BY <1>5, <2>2, <2>3
<1> QED BY <1>1, <1>3, <1>4, <1>6

\* A new request was admitted only because nothing else was about.
LEMMA AloneArrival ==
  ASSUME TypeInv, Alone, NEW r \in Requests, NEW n, req[r].pc = "idle",
         req' = [req EXCEPT ![r] = n], n.pc # "idle", UNCHANGED told, OneHandler'
  PROVE /\ \A s \in Requests \ {r} : req[s].pc = "idle" /\ req'[s] = req[s]
        /\ Alone'
<1>1. req \in [Requests -> ReqRecs] BY DEF TypeInv, TypeOK, ReqRecs, Pcs
<1>2. Handlers' = Handlers \cup {r} BY <1>1 DEF Handlers
<1>3. IsFiniteSet(Handlers) BY OneIsFinite DEF Alone
<1>4. IsFiniteSet(Handlers') BY <1>2, <1>3, FS_AddElement
<1>5. Alone' BY <1>4, AtMostOne DEF Alone, OneHandler
<1>6. Handlers \subseteq {r} BY <1>2, <1>5 DEF Alone
<1> QED BY <1>1, <1>5, <1>6 DEF Handlers

-----------------------------------------------------------------------------
(* What a request at work has read of the bindings is still so.  Until they are
   cleared: nobody but its user is bound to a desktop it has read as his.  When
   it binds him: he has no desktop of the group, and of those bound to the desktop
   it has all in others.                                                     *)
BindsCurrent(q) ==
  /\ q.pc \in {"links", "release", "pick", "create", "record", "binds", "clear"} =>
       /\ BindsOf(q.user) \subseteq q.read
       /\ \A b \in binds : b[2] \in q.read => b[1] = q.user
  /\ q.pc \in {"create", "record", "binds", "clear", "bind"} => Group[q.inst] = q.group
  /\ q.pc \in {"create", "record", "binds", "clear"} => q.inst = q.started
  /\ q.pc \in {"binds", "clear"} => q.started \in Pool
  /\ q.pc = "clear" => q.others = {b \in binds : b[2] = q.started}
  /\ q.pc = "bind" /\ q.inst \in Pool =>
       /\ \A b \in binds : b[1] = q.user => Group[b[2]] # q.group
       /\ \A b \in binds \ q.others : b[2] # q.inst

BindsDistinct == \A b, c \in binds : b[2] = c[2] => b = c

BindInv ==
  /\ TypeInv /\ Alone
  /\ BindsDistinct /\ OneBindPerGroup
  /\ \A r \in Requests : BindsCurrent(req[r])

LEMMA BindInvInit == Init => BindInv
<1> SUFFICES ASSUME Init PROVE BindInv
  OBVIOUS
<1>1. \A r \in Requests : BindsCurrent(req[r]) BY DEF Init, BindsCurrent, Idle
<1>2. BindsDistinct /\ OneBindPerGroup BY DEF Init, BindsDistinct, OneBindPerGroup
<1> QED BY <1>1, <1>2, TypeInvInit, AloneInit DEF BindInv

LEMMA BindInvStep ==
  ASSUME BindInv, NEW r \in Requests, Step(r) PROVE BindInv'
<1> DEFINE q == req[r]
<1>t. /\ ReqOK(q) /\ q \in ReqRecs /\ BindsCurrent(q)
      /\ row \in Rows /\ binds \in SUBSET (Users \X Pool) /\ req \in [Requests -> ReqRecs]
      /\ BindsDistinct /\ OneBindPerGroup
  BY DEF BindInv, TypeInv, TypeOK, ReqOK, ReqRecs, Pcs
<1>a. TypeInv' /\ Alone' /\ \A s \in Requests \ {r} : req'[s].pc = "idle"
  BY TypeInvStep, AloneStep DEF BindInv
<1>b. ASSUME BindsDistinct', OneBindPerGroup', BindsCurrent(req[r])' PROVE BindInv'
  <2>1. ASSUME NEW s \in Requests \ {r} PROVE BindsCurrent(req[s])'
    BY <1>a DEF BindsCurrent
  <2> QED BY <1>a, <1>b, <2>1 DEF BindInv
<1>c. ASSUME binds' \subseteq binds PROVE BindsDistinct' /\ OneBindPerGroup'
  BY <1>c, <1>t DEF BindsDistinct, OneBindPerGroup
<1>f. ASSUME Finish(r) PROVE BindsCurrent(req[r])'
  BY <1>f, <1>t DEF Finish, BindsCurrent, Idle
<1>1. CASE CheckLinks(r)
  <2>1. CASE Finish(r) BY <1>1, <2>1, <1>b, <1>c, <1>f DEF CheckLinks
  <2>2. CASE ~Finish(r)
    <3>1. /\ q.pc = "links" /\ binds' = binds
          /\ req'[r].pc \in {"release", "pick"} /\ req'[r].read = q.read /\ req'[r].user = q.user
      BY <1>1, <2>2, <1>t DEF CheckLinks, ReqRecs
    <3>2. BindsCurrent(req[r])' BY <3>1, <1>t DEF BindsCurrent, BindsOf
    <3> QED BY <3>1, <3>2, <1>b, <1>c
  <2> QED BY <2>1, <2>2
<1>2. CASE Release(r)
  <2>1. /\ q.pc = "release" /\ binds' = binds \ {<<q.user, q.mine>>}
        /\ req'[r].pc = "pick" /\ req'[r].read = q.read /\ req'[r].user = q.user
    BY <1>2, <1>t DEF Release, Goto, ReqRecs
  <2>2. BindsCurrent(req[r])' BY <2>1, <1>t DEF BindsCurrent, BindsOf
  <2> QED BY <2>1, <2>2, <1>b, <1>c
<1>3. CASE Pick(r)
  <2>1. CASE Finish(r) BY <1>3, <2>1, <1>b, <1>c, <1>f DEF Pick
  <2>2. CASE ~Finish(r)
    <3>1. PICK i \in IF \E i \in Pool : Group[i] = q.group
                     THEN (IF Free(q.group) = {} THEN {} ELSE {Min(Free(q.group))})
                     ELSE {i \in StaticOf(q.user) : Group[i] = q.group} :
            /\ q.pc = "pick" /\ binds' = binds
            /\ req' = [req EXCEPT ![r].pc = "create", ![r].started = i, ![r].inst = i,
                                  ![r].seen = row[i].port]
      BY <1>3, <2>2 DEF Pick
    <3>2. Group[i] = q.group
      <4>1. Free(q.group) \in SUBSET Nat BY DEF Free, Insts
      <4>2. Free(q.group) # {} => Min(Free(q.group)) \in Free(q.group) BY <4>1, MinIsMember
      <4> QED BY <3>1, <4>2 DEF Free
    <3>3. /\ req'[r].pc = "create" /\ req'[r].started = i /\ req'[r].inst = i
          /\ req'[r].read = q.read /\ req'[r].user = q.user /\ req'[r].group = q.group
      BY <3>1, <1>t DEF ReqRecs
    <3>4. BindsCurrent(req[r])' BY <3>1, <3>2, <3>3, <1>t DEF BindsCurrent, BindsOf
    <3> QED BY <3>1, <3>4, <1>b, <1>c
  <2> QED BY <2>1, <2>2
<1>4. CASE Create(r)
  <2>1. CASE Finish(r) BY <1>4, <2>1, <1>b, <1>c, <1>f DEF Create
  <2>2. CASE ~Finish(r)
    <3>1. PICK p : /\ q.pc = "create" /\ binds' = binds
                   /\ req' = [req EXCEPT ![r].pc = "record", ![r].port = p]
      BY <1>4, <2>2 DEF Create
    <3>2. /\ req'[r].pc = "record" /\ req'[r].started = q.started /\ req'[r].inst = q.inst
          /\ req'[r].read = q.read /\ req'[r].user = q.user /\ req'[r].group = q.group
      BY <3>1, <1>t DEF ReqRecs
    <3>3. BindsCurrent(req[r])' BY <3>1, <3>2, <1>t DEF BindsCurrent, BindsOf
    <3> QED BY <3>1, <3>3, <1>b, <1>c
  <2> QED BY <2>1, <2>2
<1>5. CASE Record(r)
  <2>1. /\ q.pc = "record" /\ binds' = binds
        /\ req'[r] = [q EXCEPT !.pc = IF q.started \in Pool THEN "binds" ELSE "bind"]
    BY <1>5, <1>t DEF Record, Goto
  <2>2. /\ req'[r].pc = (IF q.started \in Pool THEN "binds" ELSE "bind")
        /\ req'[r].started = q.started /\ req'[r].inst = q.inst
        /\ req'[r].read = q.read /\ req'[r].user = q.user /\ req'[r].group = q.group
    BY <2>1, <1>t DEF ReqRecs
  <2>3. BindsCurrent(req[r])' BY <2>1, <2>2, <1>t DEF BindsCurrent, BindsOf
  <2> QED BY <2>1, <2>3, <1>b, <1>c
<1>6. CASE ReadBinds(r)
  <2>1. /\ q.pc = "binds" /\ binds' = binds
        /\ req'[r] = [q EXCEPT !.pc = "clear", !.others = {b \in binds : b[2] = q.started}]
    BY <1>6, <1>t DEF ReadBinds, ReqRecs
  <2>2. /\ req'[r].pc = "clear" /\ req'[r].others = {b \in binds : b[2] = q.started}
        /\ req'[r].started = q.started /\ req'[r].inst = q.inst
        /\ req'[r].read = q.read /\ req'[r].user = q.user /\ req'[r].group = q.group
    BY <2>1, <1>t DEF ReqRecs
  <2>3. BindsCurrent(req[r])' BY <2>1, <2>2, <1>t DEF BindsCurrent, BindsOf
  <2> QED BY <2>1, <2>3, <1>b, <1>c
<1>7. CASE ClearOld(r)
  <2> DEFINE old == {i \in q.read : Group[i] = q.group}
  <2>1. PICK last \in IF old = {} THEN {q.started} ELSE old :
          /\ q.pc = "clear" /\ binds' = binds \ ({q.user} \X old)
          /\ req' = [req EXCEPT ![r].pc = "bind", ![r].inst = last]
    BY <1>7 DEF ClearOld
  <2>2. /\ req'[r].pc = "bind" /\ req'[r].inst = last /\ req'[r].others = q.others
        /\ req'[r].user = q.user /\ req'[r].group = q.group
    BY <2>1, <1>t DEF ReqRecs
  <2>3. Group[last] = q.group BY <2>1, <1>t DEF BindsCurrent
  <2>4. \A b \in binds' : b[1] = q.user => Group[b[2]] # q.group
    <3> SUFFICES ASSUME NEW b \in binds', b[1] = q.user, Group[b[2]] = q.group PROVE FALSE
      OBVIOUS
    <3>1. b \in binds /\ b = <<q.user, b[2]>> /\ b[2] \in Pool BY <2>1, <1>t
    <3>2. b[2] \in q.read BY <3>1, <2>1, <1>t DEF BindsCurrent, BindsOf
    <3> QED BY <3>1, <3>2, <2>1
  <2>5. \A b \in binds' \ q.others : b[2] # last
    <3> SUFFICES ASSUME NEW b \in binds', b \notin q.others, b[2] = last PROVE FALSE
      OBVIOUS
    <3>1. b \in binds BY <2>1
    <3>2. CASE old = {} BY <2>1, <3>1, <3>2, <1>t DEF BindsCurrent
    <3>3. CASE old # {}
      <4>1. last \in q.read BY <2>1, <3>3
      <4>2. b[1] = q.user BY <3>1, <4>1, <2>1, <1>t DEF BindsCurrent
      <4> QED BY <2>3, <2>4, <4>2
    <3> QED BY <3>2, <3>3
  <2>6. BindsCurrent(req[r])' BY <2>2, <2>3, <2>4, <2>5 DEF BindsCurrent
  <2>7. binds' \subseteq binds BY <2>1
  <2> QED BY <2>6, <2>7, <1>b, <1>c
<1>8. CASE Bind(r)
  <2>1. /\ q.pc = "bind"
        /\ binds' = (binds \ q.others) \cup ({q.user} \X ({q.inst} \cap Pool))
        /\ req'[r].pc = "answer"
    BY <1>8, <1>t DEF Bind, Goto, ReqRecs
  <2>2. BindsCurrent(req[r])' BY <2>1 DEF BindsCurrent
  <2>3. CASE q.inst \notin Pool
    <3>1. binds' \subseteq binds BY <2>1, <2>3
    <3> QED BY <2>2, <3>1, <1>b, <1>c
  <2>4. CASE q.inst \in Pool
    <3> DEFINE new == <<q.user, q.inst>>
    <3>1. binds' = (binds \ q.others) \cup {new} BY <2>1, <2>4
    <3>2. /\ Group[q.inst] = q.group
          /\ \A b \in binds : b[1] = q.user => Group[b[2]] # q.group
          /\ \A b \in binds \ q.others : b[2] # q.inst
      BY <2>1, <2>4, <1>t DEF BindsCurrent
    <3>3. new[1] = q.user /\ new[2] = q.inst OBVIOUS
    <3> HIDE DEF new
    <3>4. BindsDistinct' BY <3>1, <3>2, <3>3, <1>t DEF BindsDistinct
    <3>5. OneBindPerGroup' BY <3>1, <3>2, <3>3, <1>t DEF OneBindPerGroup
    <3> QED BY <2>2, <3>4, <3>5, <1>b
  <2> QED BY <2>3, <2>4
<1>9. CASE Answer(r) \/ CloseEnd(r)
  BY <1>9, <1>b, <1>c, <1>f DEF Answer, CloseEnd
<1>10. ASSUME NEW i \in Insts, CloseOne(r, i) PROVE BindInv'
  <2>1. binds' = binds /\ req'[r].pc = "close" BY <1>10, <1>t DEF CloseOne, ReqRecs
  <2>2. BindsCurrent(req[r])' BY <2>1 DEF BindsCurrent
  <2> QED BY <2>1, <2>2, <1>b, <1>c
<1> QED BY <1>1, <1>2, <1>3, <1>4, <1>5, <1>6, <1>7, <1>8, <1>9, <1>10 DEF Step

LEMMA BindInvArrival ==
  ASSUME BindInv, Arrival, OneHandler' PROVE BindInv'
<1>t. /\ binds \in SUBSET (Users \X Pool) /\ req \in [Requests -> ReqRecs]
      /\ BindsDistinct /\ OneBindPerGroup /\ Alone /\ TypeInv
      /\ \A s \in Requests : BindsCurrent(req[s])
  BY DEF BindInv, TypeInv, TypeOK, ReqRecs, Pcs
<1>1. PICK r \in Requests, u \in Users : Close(r, u) \/ \E g \in Groups : Open(r, u, g)
  BY DEF Arrival
<1>2. req[r].pc = "idle" /\ UNCHANGED <<binds, told>> BY <1>1 DEF Close, Open
<1>3. PICK n : /\ req' = [req EXCEPT ![r] = n]
               /\ \/ n.pc = "close"
                  \/ n.pc = "links" /\ n.user = u /\ n.read = BindsOf(u)
  <2> DEFINE P(n) == /\ req' = [req EXCEPT ![r] = n]
                     /\ \/ n.pc = "close"
                        \/ n.pc = "links" /\ n.user = u /\ n.read = BindsOf(u)
  <2>1. CASE Close(r, u)
    <3> DEFINE n == [Idle EXCEPT !.pc = "close", !.user = u, !.todo = BindsOf(u) \cup StaticOf(u)]
    <3>1. req' = [req EXCEPT ![r] = n] BY <2>1 DEF Close
    <3>2. n.pc = "close" BY DEF Idle
    <3>3. P(n) BY <3>1, <3>2
    <3> QED BY <3>3
  <2>2. ASSUME NEW g \in Groups, Open(r, u, g) PROVE \E n : P(n)
    <3>1. PICK mine, ports, seen : req' = [req EXCEPT ![r] = [Idle EXCEPT
            !.pc = "links", !.user = u, !.group = g, !.read = BindsOf(u),
            !.ports = ports, !.mine = mine, !.seen = seen]]
      BY <2>2 DEF Open
    <3> DEFINE n == [Idle EXCEPT
            !.pc = "links", !.user = u, !.group = g, !.read = BindsOf(u),
            !.ports = ports, !.mine = mine, !.seen = seen]
    <3>2. n.pc = "links" /\ n.user = u /\ n.read = BindsOf(u) BY DEF Idle
    <3>3. P(n) BY <3>1, <3>2
    <3> QED BY <3>3
  <2> QED BY <1>1, <2>1, <2>2
<1>4. Alone' /\ \A s \in Requests \ {r} : req[s].pc = "idle" /\ req'[s] = req[s]
  BY <1>2, <1>3, <1>t, AloneArrival
<1>5. BindsCurrent(req[r])'
  <2>1. req'[r] = n BY <1>3, <1>t
  <2>2. CASE n.pc = "close" BY <2>1, <2>2 DEF BindsCurrent
  <2>3. CASE n.pc = "links" /\ n.user = u /\ n.read = BindsOf(u)
    <3>1. \A b \in binds : b[2] \in BindsOf(u) => b[1] = u
      BY <1>t DEF BindsDistinct, BindsOf
    <3> QED BY <2>1, <2>3, <3>1, <1>2 DEF BindsCurrent, BindsOf
  <2> QED BY <1>3, <2>2, <2>3
<1>6. \A s \in Requests : BindsCurrent(req[s])'
  BY <1>2, <1>4, <1>5, <1>t DEF BindsCurrent
<1>7. BindsDistinct' /\ OneBindPerGroup' BY <1>2, <1>t DEF BindsDistinct, OneBindPerGroup
<1> QED BY <1>4, <1>6, <1>7, <1>t, TypeInvArrival DEF BindInv

LEMMA BindInvOthers ==
  ASSUME BindInv, MonStep \/ Environment \/ UNCHANGED vars PROVE BindInv'
<1>1. TypeInv' BY TypeInvOthers DEF BindInv
<1>2. UNCHANGED <<binds, req>>
  BY DEF MonStep, MonLoad, MonPoll, MonEnd, MonApply, Environment, Connect, Disconnect,
         GuestOff, vars
<1>3. told' = told \/ \E u \in Users : told' = [told EXCEPT ![u] = None]
  BY DEF MonStep, MonLoad, MonPoll, MonEnd, MonApply, Environment, Connect, Disconnect,
         GuestOff, vars
<1>4. Alone'
  <2>1. told \in [Users -> Told] BY DEF BindInv, TypeInv, TypeOK, Told
  <2>2. \A u \in Users : told'[u] # None => told[u] # None BY <1>3, <2>1
  <2>3. Handlers' \subseteq Handlers BY <1>2, <2>2 DEF Handlers
  <2> QED BY <2>3 DEF Alone, BindInv
<1>5. BindsDistinct' /\ OneBindPerGroup'
  BY <1>2 DEF BindInv, BindsDistinct, OneBindPerGroup
<1>6. \A r \in Requests : BindsCurrent(req[r])'
  BY <1>2 DEF BindInv, BindsCurrent, BindsOf
<1> QED BY <1>1, <1>4, <1>5, <1>6 DEF BindInv

LEMMA BindInvNext == BindInv /\ [NextOneHandler]_vars => BindInv'
BY BindInvStep, BindInvArrival, BindInvOthers DEF NextOneHandler

LEMMA BindInvHolds == SpecOneHandler => []BindInv
BY BindInvInit, BindInvNext, PTL DEF SpecOneHandler

(* person_instance: when handlers run one after the other, a random desktop is
   bound to one user at most, whatever calls fail and whatever the monitor and
   the guests do: the others' bindings are read in the handler that ends them,
   and the desktops it has read as its user's own were nobody else's.        *)
THEOREM DesktopsBoundOnce == SpecOneHandler => []BindUnique
<1>1. BindInv => BindUnique
  <2> SUFFICES ASSUME BindInv, NEW i \in Pool
               PROVE Cardinality({u \in Users : <<u, i>> \in binds}) <= 1
    BY DEF BindUnique
  <2>1. \A u, v \in {w \in Users : <<w, i>> \in binds} : u = v
    <3> SUFFICES ASSUME NEW u, NEW v, <<u, i>> \in binds, <<v, i>> \in binds PROVE u = v
      OBVIOUS
    <3>1. <<u, i>> = <<v, i>> BY DEF BindInv, BindsDistinct
    <3> QED BY <3>1
  <2> QED BY <2>1, OneIsFinite
<1> QED BY <1>1, BindInvHolds, PTL

(* person_instance: under the same condition a user is bound to one random desktop
   of a group at most: his former ones are cleared before, all of them because
   none can be added while the handler is at work.                           *)
THEOREM OneDesktopPerGroup == SpecOneHandler => []OneBindPerGroup
<1>1. BindInv => OneBindPerGroup BY DEF BindInv
<1> QED BY <1>1, BindInvHolds, PTL

-----------------------------------------------------------------------------
(* Who is connected, when no handler runs during a round of the monitor and the
   calls to the node are answered.                                           *)
Answered == ~Failures

Viewed == {i \in Insts : vm[i].viewer # None}
ViewedBy(u) == {i \in Insts : vm[i].viewer = u}
OwnOf(u) == BindsOf(u) \cup StaticOf(u)

(* A connected desktop runs, alone at its port, which its row names; its user is
   bound to it and it is marked as allocated, or he owns it.                 *)
ViewersOK ==
  /\ \A i, j \in Insts : Running(i) /\ vm[i].port = vm[j].port => i = j
  /\ \A i \in Viewed :
       /\ Running(i) /\ row[i].port = vm[i].port
       /\ i \in Pool => <<vm[i].viewer, i>> \in binds /\ row[i].alloc
       /\ i \in Static => Owner[i] = vm[i].viewer

FewViewers ==
  /\ IsFiniteSet(Viewed) /\ Cardinality(Viewed) <= VdiSize
  /\ \A u \in Users : Cardinality(ViewedBy(u)) <= 2

\* The monitor's round: what it has read of ports is current, so are the connections.
RoundOK ==
  mon.pc # "idle" =>
    /\ Handlers = {}
    /\ \A i \in Insts : mon.snap[i].port = row[i].port
    /\ mon.pc = "apply" => \A i \in Viewed : vm[i].port \in mon.linked

\* Desktop i may be given to user u: nobody is connected to it, but for its owner u.
Fit(i, u) ==
  /\ vm[i].viewer # None => i \in Static /\ vm[i].viewer = u
  /\ i \in Static => Owner[i] = u

Opening == {"links", "release", "pick", "create", "record", "binds", "clear", "bind", "answer"}
Chosen == {"create", "record", "binds", "clear", "bind", "answer"}

\* What an opening has read and chosen is still so: there is room for its user.
Serving(q) ==
  /\ q.pc = "links" =>
       /\ q.mine # None =>
            q.mine \in OwnOf(q.user) /\ Group[q.mine] = q.group /\ q.seen = row[q.mine].port
       /\ \A i \in OwnOf(q.user) : row[i].port # None => row[i].port \in q.ports
       /\ \A i \in q.read : Group[i] = q.group => i = q.mine
  /\ q.pc \in {"release", "pick"} =>
       IsFiniteSet(q.ports) /\ \A i \in ViewedBy(q.user) : vm[i].port \in q.ports
  /\ q.pc = "release" => vm[q.mine].viewer = None
  /\ q.pc \in {"release", "pick", "create", "record", "binds", "clear"} =>
       \A i \in q.read : Group[i] = q.group => vm[i].viewer = None
  /\ q.pc \in {"create", "record"} => q.seen = row[q.started].port
  /\ q.pc = "record" => vm[q.started].port \in {None, q.port}
  /\ q.pc \in Chosen => Fit(q.inst, q.user) /\ Cardinality(ViewedBy(q.user)) < 2
  /\ q.pc \in Opening =>
       Cardinality(Viewed) < VdiSize /\ \A b \in q.others : vm[b[2]].viewer = None
  /\ q.pc = "answer" /\ q.inst \in Pool => <<q.user, q.inst>> \in binds /\ row[q.inst].alloc

(* A terminal that was told of a desktop and finds it there: it is free or its
   own, recorded as its own, and the user and the licence have room for it.  *)
Landing(u) ==
  LET i == told[u].inst IN
  told[u] # None =>
    /\ told[u].port = row[i].port
    /\ Running(i) /\ vm[i].port = told[u].port =>
         /\ vm[i].viewer \in {None, u}
         /\ i \in Pool => <<u, i>> \in binds /\ row[i].alloc
         /\ i \in Static => Owner[i] = u
         /\ Cardinality(Viewed \cup {i}) <= VdiSize
         /\ Cardinality(ViewedBy(u) \cup {i}) <= 2

ServeInv ==
  /\ BindInv
  /\ ViewersOK /\ FewViewers /\ RoundOK
  /\ \A r \in Requests : Serving(req[r])
  /\ \A u \in Users : Landing(u)

LEMMA SubsetCard ==
  ASSUME NEW T, IsFiniteSet(T), NEW S \in SUBSET T
  PROVE /\ IsFiniteSet(S) /\ Cardinality(S) \in Nat /\ Cardinality(T) \in Nat
        /\ Cardinality(S) <= Cardinality(T)
BY FS_Subset, FS_CardinalityType

LEMMA AddCard ==
  ASSUME NEW S, IsFiniteSet(S), NEW x
  PROVE /\ IsFiniteSet(S \cup {x}) /\ Cardinality(S \cup {x}) \in Nat
        /\ Cardinality(S) \in Nat /\ Cardinality(S \cup {x}) <= Cardinality(S) + 1
<1>1. /\ IsFiniteSet(S \cup {x})
      /\ Cardinality(S \cup {x}) = IF x \in S THEN Cardinality(S) ELSE Cardinality(S) + 1
  BY FS_AddElement
<1>2. Cardinality(S) \in Nat BY FS_CardinalityType
<1> QED BY <1>1, <1>2

\* Running desktops have ports of their own, so that counting ports counts desktops.
LEMMA PortsCount ==
  ASSUME ViewersOK, NEW V \in SUBSET Viewed, NEW P, IsFiniteSet(P),
         \A i \in V : vm[i].port \in P
  PROVE Cardinality(V) <= Cardinality(P)
<1> DEFINE f == [i \in V |-> vm[i].port]
<1>1. \A i, j \in V : f[i] = f[j] => i = j BY DEF ViewersOK, Viewed
<1>2. f \in Injection(V, P) BY <1>1 DEF Injection, IsInjective
<1> QED BY <1>2, FS_Injection

LEMMA PortsFinite ==
  ASSUME IsFiniteSet(Viewed)
  PROVE IsFiniteSet({vm[i].port : i \in Viewed})
<1> DEFINE P == {vm[i].port : i \in Viewed}
           f == [i \in Viewed |-> vm[i].port]
<1>1. f \in Surjection(Viewed, P) BY DEF Surjection
<1> QED BY <1>1, FS_Surjection

\* No connection is new and none moves: the counts do not grow.
Shrinks ==
  \A i \in Insts : vm'[i] = vm[i] \/ (vm'[i].viewer = None /\ vm'[i].port \in {None, vm[i].port})

LEMMA ViewedShrinks ==
  ASSUME Shrinks
  PROVE /\ Viewed' \subseteq Viewed
        /\ \A u \in Users : ViewedBy(u)' \subseteq ViewedBy(u)
<1>1. \A u \in Users : u # None OBVIOUS
<1> QED BY <1>1 DEF Shrinks, Viewed, ViewedBy

LEMMA RoomStays ==
  ASSUME FewViewers, Shrinks
  PROVE /\ FewViewers'
        /\ Cardinality(Viewed) < VdiSize => Cardinality(Viewed') < VdiSize
        /\ \A u \in Users :
             Cardinality(ViewedBy(u)) < 2 => Cardinality(ViewedBy(u)') < 2
<1>1. /\ Viewed' \in SUBSET Viewed
      /\ \A u \in Users : ViewedBy(u)' \in SUBSET ViewedBy(u)
  BY ViewedShrinks
<1>2. IsFiniteSet(Viewed) /\ Cardinality(Viewed) <= VdiSize BY DEF FewViewers
<1>3. /\ IsFiniteSet(Viewed') /\ Cardinality(Viewed') \in Nat /\ Cardinality(Viewed) \in Nat
      /\ Cardinality(Viewed') <= Cardinality(Viewed)
  BY <1>1, <1>2, SubsetCard
<1>4. ASSUME NEW u \in Users
      PROVE /\ Cardinality(ViewedBy(u)) \in Nat /\ Cardinality(ViewedBy(u)') \in Nat
            /\ Cardinality(ViewedBy(u)') <= Cardinality(ViewedBy(u))
            /\ Cardinality(ViewedBy(u)) <= 2
  <2>1. u # None OBVIOUS
  <2>2. ViewedBy(u) \in SUBSET Viewed BY <2>1 DEF Viewed, ViewedBy
  <2>3. IsFiniteSet(ViewedBy(u)) BY <1>2, <2>2, SubsetCard
  <2> QED BY <1>1, <2>3, SubsetCard DEF FewViewers
<1>5. FewViewers'
  <2>1. Cardinality(Viewed') <= VdiSize BY <1>2, <1>3
  <2>2. \A u \in Users : Cardinality(ViewedBy(u)') <= 2 BY <1>4
  <2> QED BY <1>3, <2>1, <2>2 DEF FewViewers
<1>6. Cardinality(Viewed) < VdiSize => Cardinality(Viewed') < VdiSize BY <1>3
<1>7. \A u \in Users : Cardinality(ViewedBy(u)) < 2 => Cardinality(ViewedBy(u)') < 2
  BY <1>4
<1> QED BY <1>5, <1>6, <1>7

LEMMA ServingStays ==
  ASSUME TypeInv, FewViewers, Shrinks, UNCHANGED <<row, binds>>,
         NEW q, ReqOK(q), BindsCurrent(q), Serving(q)
  PROVE Serving(q)'
<1>1. q.pc # "idle" => q.user \in Users BY DEF ReqOK
<1>2. /\ Viewed' \subseteq Viewed
      /\ q.pc # "idle" => ViewedBy(q.user)' \subseteq ViewedBy(q.user)
  BY <1>1, ViewedShrinks
<1>3. /\ Cardinality(Viewed) < VdiSize => Cardinality(Viewed') < VdiSize
      /\ q.pc # "idle" /\ Cardinality(ViewedBy(q.user)) < 2
           => Cardinality(ViewedBy(q.user)') < 2
  BY <1>1, RoomStays
<1>4. \A i \in Insts : vm[i].viewer = None => vm'[i].viewer = None BY DEF Shrinks
<1>5. \A i \in ViewedBy(q.user)' : q.pc # "idle" => vm'[i].port = vm[i].port
  <2>1. q.pc # "idle" => q.user # None BY <1>1
  <2> QED BY <2>1 DEF Shrinks, ViewedBy
<1>6. q.read \subseteq Insts /\ \A b \in q.others : b[2] \in Insts
  BY DEF ReqOK, ReqRecs, Insts
<1>7. UNCHANGED row /\ OwnOf(q.user)' = OwnOf(q.user) BY DEF OwnOf, BindsOf, StaticOf
<1>8. q.pc = "links" =>
       /\ q.mine # None =>
            /\ q.mine \in OwnOf(q.user)' /\ Group[q.mine] = q.group
            /\ q.seen = row'[q.mine].port
       /\ \A i \in OwnOf(q.user)' : row'[i].port # None => row'[i].port \in q.ports
       /\ \A i \in q.read : Group[i] = q.group => i = q.mine
  BY <1>7 DEF Serving
<1>9. q.pc \in {"release", "pick"} =>
        IsFiniteSet(q.ports) /\ \A i \in ViewedBy(q.user)' : vm'[i].port \in q.ports
  BY <1>2, <1>5 DEF Serving
<1>10. q.pc = "release" => vm'[q.mine].viewer = None
  BY <1>4 DEF Serving, ReqOK, Insts
<1>11. q.pc \in {"release", "pick", "create", "record", "binds", "clear"} =>
         \A i \in q.read : Group[i] = q.group => vm'[i].viewer = None
  BY <1>4, <1>6 DEF Serving
<1>12. q.pc \in {"create", "record"} => q.seen = row'[q.started].port BY DEF Serving
<1>13. q.pc = "record" => vm'[q.started].port \in {None, q.port}
  BY DEF Serving, Shrinks, ReqOK
<1>14. q.pc \in Chosen => Fit(q.inst, q.user)' /\ Cardinality(ViewedBy(q.user)') < 2
  <2> SUFFICES ASSUME q.pc \in Chosen
               PROVE Fit(q.inst, q.user)' /\ Cardinality(ViewedBy(q.user)') < 2
    OBVIOUS
  <2>1. q.inst \in Insts /\ q.user \in Users BY DEF Chosen, ReqOK
  <2>2. vm'[q.inst].viewer # None => vm'[q.inst].viewer = vm[q.inst].viewer
    BY <2>1 DEF Shrinks
  <2>3. Fit(q.inst, q.user) /\ Cardinality(ViewedBy(q.user)) < 2 BY DEF Serving
  <2>4. q.pc # "idle" BY DEF Chosen
  <2> QED BY <2>2, <2>3, <2>4, <1>3 DEF Fit
<1>15. q.pc \in Opening =>
         Cardinality(Viewed') < VdiSize /\ \A b \in q.others : vm'[b[2]].viewer = None
  BY <1>3, <1>4, <1>6 DEF Serving
<1>16. q.pc = "answer" /\ q.inst \in Pool => <<q.user, q.inst>> \in binds' /\ row'[q.inst].alloc
  BY DEF Serving
<1> QED BY <1>8, <1>9, <1>10, <1>11, <1>12, <1>13, <1>14, <1>15, <1>16 DEF Serving

LEMMA ServeInvInit == Init => ServeInv
<1> SUFFICES ASSUME Init PROVE ServeInv
  OBVIOUS
<1>1. BindInv BY BindInvInit
<1>2. \A i \in Insts : vm[i].viewer = None /\ ~Running(i) BY DEF Init, Off, Running
<1>3. Viewed = {} /\ \A u \in Users : ViewedBy(u) = {}
  BY <1>2 DEF Viewed, ViewedBy
<1>4. ViewersOK BY <1>2, <1>3 DEF ViewersOK
<1>5. FewViewers
  <2>1. IsFiniteSet({}) /\ Cardinality({}) = 0 BY FS_EmptySet
  <2>2. IsFiniteSet(Viewed) /\ Cardinality(Viewed) = 0 BY <1>3, <2>1
  <2>3. \A u \in Users : Cardinality(ViewedBy(u)) = 0 BY <1>3, <2>1
  <2>4. Cardinality(Viewed) <= VdiSize BY <2>2
  <2>5. \A u \in Users : Cardinality(ViewedBy(u)) <= 2 BY <2>3
  <2> QED BY <2>2, <2>4, <2>5 DEF FewViewers
<1>6. RoundOK BY DEF Init, RoundOK, IdleMon
<1>7. \A r \in Requests : Serving(req[r]) BY DEF Init, Serving, Idle, Opening, Chosen
<1>8. \A u \in Users : Landing(u) BY DEF Init, Landing
<1> QED BY <1>1, <1>4, <1>5, <1>6, <1>7, <1>8 DEF ServeInv

\* What a request that is not opening has to serve: nothing.
LEMMA IdleServes ==
  ASSUME NEW q, q.pc \in {"idle", "close"} PROVE Serving(q) /\ Serving(q)'
BY DEF Serving, Opening, Chosen

\* A terminal lands only where nobody is pushed out, within the licence and the two.
LEMMA ServeInvConnect == ASSUME ServeInv, NEW u \in Users, Connect(u) PROVE ServeInv'
<1> DEFINE i == told[u].inst
<1>t. /\ TypeInv /\ Alone /\ BindInv /\ ViewersOK /\ FewViewers /\ RoundOK /\ Landing(u)
      /\ row \in Rows /\ vm \in [Insts -> Vms] /\ told \in [Users -> Told]
  BY DEF ServeInv, BindInv, TypeInv, TypeOK, Vms, Told
<1>1. /\ told[u] # None /\ told' = [told EXCEPT ![u] = None]
      /\ UNCHANGED <<row, binds, req, mon>> /\ i \in Insts
  BY <1>t DEF Connect, Told
<1>2. BindInv' BY <1>t, BindInvOthers DEF Environment
<1>3. /\ \A r \in Requests : req[r].pc = "idle"
      /\ \A v \in Users \ {u} : told[v] = None
      /\ mon.pc = "idle"
  <2>1. u \in Handlers BY <1>1 DEF Handlers
  <2>2. \A v \in Users \ {u} : told[v] = None BY <2>1, <1>t DEF Alone, Handlers
  <2>3. \A r \in Requests : req[r].pc = "idle"
    <3> SUFFICES ASSUME NEW r \in Requests, req[r].pc # "idle" PROVE FALSE
      OBVIOUS
    <3>1. r \in Handlers BY DEF Handlers
    <3>2. r = u BY <2>1, <3>1, <1>t DEF Alone
    <3> QED BY <3>2
  <2> QED BY <2>1, <2>2, <2>3, <1>t DEF RoundOK
<1>4. RoundOK' BY <1>1, <1>3 DEF RoundOK
<1>5. \A r \in Requests : Serving(req[r])' BY <1>1, <1>3, IdleServes
<1>6. \A v \in Users : Landing(v)' BY <1>1, <1>3, <1>t DEF Landing
<1>7. CASE vm' = vm
  <2>1. Shrinks BY <1>7 DEF Shrinks
  <2>2. FewViewers' BY <2>1, <1>t, RoomStays
  <2>3. ViewersOK' BY <1>1, <1>7, <1>t DEF ViewersOK, Viewed, Running
  <2> QED BY <1>2, <1>4, <1>5, <1>6, <2>2, <2>3 DEF ServeInv
<1>8. CASE vm' # vm
  <2>1. /\ Running(i) /\ vm[i].port = told[u].port /\ vm' = [vm EXCEPT ![i].viewer = u]
    BY <1>8 DEF Connect
  <2>2. /\ told[u].port = row[i].port
        /\ vm[i].viewer \in {None, u}
        /\ i \in Pool => <<u, i>> \in binds /\ row[i].alloc
        /\ i \in Static => Owner[i] = u
        /\ Cardinality(Viewed \cup {i}) <= VdiSize
        /\ Cardinality(ViewedBy(u) \cup {i}) <= 2
    BY <1>1, <2>1, <1>t DEF Landing
  <2>3. /\ vm'[i].viewer = u /\ \A j \in Insts : vm'[j].port = vm[j].port
        /\ \A j \in Insts \ {i} : vm'[j] = vm[j]
    BY <2>1, <1>1, <1>t DEF Vms
  <2>4. u # None OBVIOUS
  <2>5. Viewed' = Viewed \cup {i} BY <1>1, <2>3, <2>4 DEF Viewed
  <2>6. ViewedBy(u)' = ViewedBy(u) \cup {i} BY <1>1, <2>3 DEF ViewedBy
  <2>7. \A v \in Users \ {u} : ViewedBy(v)' = ViewedBy(v)
    <3> SUFFICES ASSUME NEW v \in Users \ {u} PROVE ViewedBy(v)' = ViewedBy(v)
      OBVIOUS
    <3>1. vm[i].viewer # v /\ vm'[i].viewer # v BY <2>2, <2>3
    <3> QED BY <3>1, <1>1, <2>3 DEF ViewedBy
  <2>8. FewViewers'
    <3>1. IsFiniteSet(Viewed') BY <2>5, <1>t, AddCard DEF FewViewers
    <3>2. Cardinality(Viewed') <= VdiSize BY <2>2, <2>5
    <3>3. \A v \in Users : Cardinality(ViewedBy(v)') <= 2
      BY <2>2, <2>6, <2>7, <1>t DEF FewViewers
    <3> QED BY <3>1, <3>2, <3>3 DEF FewViewers
  <2>9. ViewersOK'
    <3>1. \A j, k \in Insts : Running(j)' /\ vm'[j].port = vm'[k].port => j = k
      BY <2>3, <1>t DEF ViewersOK, Running
    <3>2. ASSUME NEW j \in Viewed'
          PROVE /\ Running(j)' /\ row'[j].port = vm'[j].port
                /\ j \in Pool => <<vm'[j].viewer, j>> \in binds' /\ row'[j].alloc
                /\ j \in Static => Owner[j] = vm'[j].viewer
      <4>1. CASE j = i BY <4>1, <1>1, <2>1, <2>2, <2>3 DEF Running
      <4>2. CASE j # i
        <5>1. j \in Viewed /\ j \in Insts /\ vm'[j] = vm[j]
          BY <4>2, <2>3, <2>5, <3>2 DEF Viewed
        <5> QED BY <5>1, <1>1, <1>t DEF ViewersOK, Running
      <4> QED BY <4>1, <4>2
    <3> QED BY <3>1, <3>2 DEF ViewersOK
  <2> QED BY <1>2, <1>4, <1>5, <1>6, <2>8, <2>9 DEF ServeInv
<1> QED BY <1>7, <1>8

LEMMA ServeInvLeave ==
  ASSUME ServeInv, NEW i \in Insts, Disconnect(i) \/ GuestOff(i) PROVE ServeInv'
<1>t. /\ TypeInv /\ BindInv /\ ViewersOK /\ FewViewers /\ RoundOK
      /\ vm \in [Insts -> Vms] /\ told \in [Users -> Told]
  BY DEF ServeInv, BindInv, TypeInv, TypeOK, Vms, Told
<1>1. UNCHANGED <<row, binds, told, req, mon>> BY DEF Disconnect, GuestOff
<1>2. Shrinks BY <1>t DEF Disconnect, GuestOff, Shrinks, Off, Vms
<1>3. BindInv' BY <1>t, BindInvOthers DEF Environment
<1>4. FewViewers' BY <1>2, <1>t, RoomStays
<1>5. \A j \in Viewed' : j \in Viewed /\ j \in Insts /\ vm'[j] = vm[j]
  BY <1>2 DEF Shrinks, Viewed
<1>6. ViewersOK'
  <2>1. \A j, k \in Insts : Running(j)' /\ vm'[j].port = vm'[k].port => j = k
    <3> SUFFICES ASSUME NEW j \in Insts, NEW k \in Insts, vm'[j].port # None,
                        vm'[j].port = vm'[k].port PROVE j = k
      BY DEF Running
    <3>1. vm'[j].port = vm[j].port /\ vm'[k].port = vm[k].port BY <1>2 DEF Shrinks
    <3> QED BY <3>1, <1>t DEF ViewersOK, Running
  <2> QED BY <2>1, <1>1, <1>5, <1>t DEF ViewersOK, Running
<1>7. RoundOK' BY <1>1, <1>5, <1>t DEF RoundOK, Handlers
<1>8. ASSUME NEW r \in Requests PROVE Serving(req[r])'
  <2>1. ReqOK(req[r]) /\ BindsCurrent(req[r]) /\ Serving(req[r])
    BY DEF ServeInv, BindInv, TypeInv
  <2>2. \A q : ReqOK(q) /\ BindsCurrent(q) /\ Serving(q) => Serving(q)'
    BY <1>1, <1>2, <1>t, ServingStays
  <2> QED BY <2>1, <2>2, <1>1
<1>9. ASSUME NEW u \in Users PROVE Landing(u)'
  <2> DEFINE j == told[u].inst
  <2> SUFFICES ASSUME told[u] # None PROVE Landing(u)'
    BY <1>1 DEF Landing
  <2>1. Landing(u) /\ j \in Insts BY <1>t DEF ServeInv, Told
  <2>2. told'[u].port = row'[j].port BY <1>1, <2>1 DEF Landing
  <2>3. ASSUME vm'[j].port # None, vm'[j].port = told[u].port
        PROVE /\ vm'[j].viewer \in {None, u}
              /\ j \in Pool => <<u, j>> \in binds' /\ row'[j].alloc
              /\ j \in Static => Owner[j] = u
              /\ Cardinality(Viewed' \cup {j}) <= VdiSize
              /\ Cardinality(ViewedBy(u)' \cup {j}) <= 2
    <3>1. vm'[j].port = vm[j].port /\ vm'[j].viewer \in {None, vm[j].viewer}
      BY <1>2, <2>1, <2>3 DEF Shrinks
    <3>2. /\ vm[j].viewer \in {None, u}
          /\ j \in Pool => <<u, j>> \in binds /\ row[j].alloc
          /\ j \in Static => Owner[j] = u
          /\ Cardinality(Viewed \cup {j}) <= VdiSize
          /\ Cardinality(ViewedBy(u) \cup {j}) <= 2
      BY <2>1, <2>3, <3>1 DEF Landing, Running
    <3>3. /\ Viewed' \cup {j} \in SUBSET (Viewed \cup {j})
          /\ ViewedBy(u)' \cup {j} \in SUBSET (ViewedBy(u) \cup {j})
      BY <1>2, ViewedShrinks
    <3>4. IsFiniteSet(Viewed \cup {j}) /\ IsFiniteSet(ViewedBy(u) \cup {j})
      <4>1. ViewedBy(u) \in SUBSET Viewed /\ IsFiniteSet(Viewed)
        <5>1. u # None OBVIOUS
        <5> QED BY <5>1, <1>t DEF Viewed, ViewedBy, FewViewers
      <4>2. IsFiniteSet(ViewedBy(u)) BY <4>1, SubsetCard
      <4> QED BY <4>1, <4>2, AddCard
    <3>5. /\ Cardinality(Viewed' \cup {j}) \in Nat /\ Cardinality(Viewed \cup {j}) \in Nat
          /\ Cardinality(Viewed' \cup {j}) <= Cardinality(Viewed \cup {j})
      BY <3>3, <3>4, SubsetCard
    <3>6. /\ Cardinality(ViewedBy(u)' \cup {j}) \in Nat /\ Cardinality(ViewedBy(u) \cup {j}) \in Nat
          /\ Cardinality(ViewedBy(u)' \cup {j}) <= Cardinality(ViewedBy(u) \cup {j})
      BY <3>3, <3>4, SubsetCard
    <3>7. Cardinality(Viewed' \cup {j}) <= VdiSize BY <3>2, <3>5
    <3>8. Cardinality(ViewedBy(u)' \cup {j}) <= 2 BY <3>2, <3>6
    <3> QED BY <1>1, <3>1, <3>2, <3>7, <3>8
  <2> QED BY <1>1, <2>2, <2>3 DEF Landing, Running
<1> QED BY <1>3, <1>4, <1>6, <1>7, <1>8, <1>9 DEF ServeInv

LEMMA ServeInvMonitor ==
  ASSUME Answered, ServeInv, MonStep, Serial' PROVE ServeInv'
<1>t. /\ TypeInv /\ BindInv /\ ViewersOK /\ FewViewers /\ RoundOK
      /\ row \in Rows /\ vm \in [Insts -> Vms]
      /\ mon.pc # "idle" => mon.snap \in Rows
      /\ mon \in [pc : {"idle", "poll", "apply"}, snap : Rows \cup {None},
                  linked : SUBSET Ports, todo : SUBSET Insts]
  BY DEF ServeInv, BindInv, TypeInv, TypeOK, Vms
<1>1. UNCHANGED <<binds, vm, told, req>>
  BY DEF MonStep, MonLoad, MonPoll, MonEnd, MonApply
<1>2. BindInv' BY <1>t, BindInvOthers
<1>3. Shrinks BY <1>1 DEF Shrinks
<1>4. FewViewers' BY <1>3, <1>t, RoomStays
<1>5. Handlers' = {} /\ Handlers = {}
  <2>1. CASE MonLoad \/ MonPoll \/ \E i \in Insts : MonApply(i)
    <3>1. mon'.pc # "idle"
      BY <2>1, <1>t DEF MonLoad, MonPoll, MonApply, IdleMon
    <3>2. Handlers' = {} BY <3>1 DEF Serial
    <3> QED BY <3>2, <1>1 DEF Handlers
  <2>2. CASE MonEnd
    <3>1. Handlers = {} BY <2>2, <1>t DEF MonEnd, RoundOK
    <3> QED BY <3>1, <1>1 DEF Handlers
  <2> QED BY <2>1, <2>2 DEF MonStep
<1>6. \A r \in Requests : Serving(req[r])'
  <2>1. \A r \in Requests : req'[r].pc = "idle" BY <1>5 DEF Handlers
  <2> QED BY <2>1, <1>1, IdleServes
<1>7. \A u \in Users : Landing(u)' BY <1>5 DEF Handlers, Landing
<1>8. ASSUME \A i \in Insts : row'[i].port = row[i].port,
             \A i \in Viewed : row[i].alloc => row'[i].alloc
      PROVE ViewersOK'
  BY <1>1, <1>8, <1>t DEF ViewersOK, Viewed, Running
<1>9. ASSUME ViewersOK', RoundOK' PROVE ServeInv'
  BY <1>2, <1>4, <1>6, <1>7, <1>9 DEF ServeInv
<1>10. CASE MonLoad
  <2>1. RoundOK' BY <1>10, <1>5, <1>1 DEF MonLoad, RoundOK, IdleMon
  <2> QED BY <1>10, <2>1, <1>8, <1>9 DEF MonLoad
<1>11. CASE MonPoll
  <2>1. mon.pc = "poll" /\ row' = row
        /\ mon' = [mon EXCEPT !.pc = "apply", !.linked = {p \in Ports : Linked(p)}, !.todo = Insts]
    BY <1>11 DEF MonPoll, Answered
  <2>2. \A i \in Viewed : vm[i].port \in {p \in Ports : Linked(p)}
    <3> SUFFICES ASSUME NEW i \in Viewed PROVE vm[i].port \in {p \in Ports : Linked(p)}
      OBVIOUS
    <3>1. i \in Insts /\ vm[i].port \in Ports BY <1>t DEF ViewersOK, Viewed, Running, Vms
    <3> QED BY <3>1 DEF Linked, Viewed
  <2>3. /\ mon'.linked = {p \in Ports : Linked(p)} /\ mon'.snap = mon.snap
    BY <2>1, <1>t
  <2>4. RoundOK' BY <2>1, <2>2, <2>3, <1>5, <1>1, <1>t DEF RoundOK, Viewed
  <2> QED BY <2>1, <2>4, <1>8, <1>9
<1>12. CASE MonEnd
  <2>1. RoundOK' BY <1>12 DEF MonEnd, RoundOK, IdleMon
  <2> QED BY <1>12, <2>1, <1>8, <1>9 DEF MonEnd
<1>13. ASSUME NEW i \in Insts, MonApply(i) PROVE ServeInv'
  <2>1. PICK held \in {mon.snap[i], row[i]} : row' = [row EXCEPT ![i].alloc =
          @ /\ ~(held.alloc /\ held.port # None /\ held.port \notin mon.linked)]
    BY <1>13 DEF MonApply
  <2>2. mon.pc = "apply" /\ mon' = [mon EXCEPT !.todo = @ \ {i}] BY <1>13 DEF MonApply
  <2>3. held.port = row[i].port BY <2>1, <2>2, <1>t DEF RoundOK
  <2>4. \A j \in Insts : row'[j].port = row[j].port BY <2>1, <1>t DEF Rows
  <2>5. \A j \in Viewed : row[j].alloc => row'[j].alloc
    <3> SUFFICES ASSUME NEW j \in Viewed, row[j].alloc PROVE row'[j].alloc
      OBVIOUS
    <3>1. row[j].port = vm[j].port /\ vm[j].port \in mon.linked /\ j \in Insts
      BY <2>2, <1>t DEF ViewersOK, RoundOK, Viewed
    <3>2. CASE j = i
      <4>1. ~(held.alloc /\ held.port # None /\ held.port \notin mon.linked)
        BY <2>3, <3>1, <3>2
      <4> DEFINE b == row[i].alloc
                        /\ ~(held.alloc /\ held.port # None /\ held.port \notin mon.linked)
      <4>2. b /\ row' = [row EXCEPT ![i].alloc = b] BY <2>1, <3>2, <4>1
      <4> HIDE DEF b
      <4> QED BY <3>2, <4>2, <1>t DEF Rows
    <3>3. CASE j # i BY <2>1, <3>1, <3>3, <1>t DEF Rows
    <3> QED BY <3>2, <3>3
  <2>6. mon'.pc = "apply" /\ mon'.snap = mon.snap /\ mon'.linked = mon.linked
    BY <2>2, <1>t
  <2>7. RoundOK' BY <2>2, <2>4, <2>6, <1>1, <1>5, <1>t DEF RoundOK, Viewed
  <2> QED BY <2>4, <2>5, <2>7, <1>8, <1>9
<1> QED BY <1>10, <1>11, <1>12, <1>13 DEF MonStep

LEMMA LinksBound ==
  ASSUME TypeInv, ViewersOK, FewViewers
  PROVE Cardinality(Viewed) <= LinksNum
<1> DEFINE L == {p \in Ports : Linked(p) /\ \E i \in Insts : row[i].port = p}
           P == {vm[i].port : i \in Viewed}
<1>1. vm \in [Insts -> Vms] BY DEF TypeInv, TypeOK, Vms
<1>2. L \in SUBSET P BY DEF Linked, Viewed
<1>3. IsFiniteSet(L) BY <1>2, PortsFinite, SubsetCard DEF FewViewers
<1>4. \A i \in Viewed : vm[i].port \in L
  <2> SUFFICES ASSUME NEW i \in Viewed PROVE vm[i].port \in L
    OBVIOUS
  <2>1. i \in Insts /\ vm[i].port \in Ports /\ row[i].port = vm[i].port
    BY <1>1 DEF ViewersOK, Viewed, Running, Vms
  <2> QED BY <2>1 DEF Linked, Viewed
<1>5. Viewed \in SUBSET Viewed OBVIOUS
<1> HIDE DEF L
<1>6. Cardinality(Viewed) <= Cardinality(L) BY <1>3, <1>4, <1>5, PortsCount
<1> QED BY <1>6 DEF LinksNum, L

LEMMA ServeInvArrival ==
  ASSUME Answered, ServeInv, Arrival, Serial' PROVE ServeInv'
<1>t. /\ TypeInv /\ BindInv /\ ViewersOK /\ FewViewers /\ RoundOK /\ Alone
      /\ BindsDistinct /\ OneBindPerGroup
      /\ row \in Rows /\ vm \in [Insts -> Vms] /\ req \in [Requests -> ReqRecs]
      /\ binds \in SUBSET (Users \X Pool)
      /\ \A r \in Requests : Serving(req[r])
      /\ \A u \in Users : Landing(u)
  BY DEF ServeInv, BindInv, TypeInv, TypeOK, Vms, ReqRecs, Pcs
<1>1. PICK r \in Requests, u \in Users : Close(r, u) \/ \E g \in Groups : Open(r, u, g)
  BY DEF Arrival
<1>2. UNCHANGED <<row, binds, vm, told, mon>> BY <1>1 DEF Close, Open
<1>3. BindInv' BY <1>t, BindInvArrival DEF Serial
<1>4. ViewersOK' /\ FewViewers' /\ \A v \in Users : Landing(v)'
  <2>1. ViewersOK' BY <1>2, <1>t DEF ViewersOK, Viewed, Running
  <2>2. FewViewers' BY <1>2, <1>t DEF FewViewers, Viewed, ViewedBy
  <2>3. \A v \in Users : Landing(v)'
    <3>1. Viewed' = Viewed /\ \A v \in Users : ViewedBy(v)' = ViewedBy(v)
      BY <1>2 DEF Viewed, ViewedBy
    <3> QED BY <3>1, <1>2, <1>t DEF Landing, Running
  <2> QED BY <2>1, <2>2, <2>3
<1>5. ASSUME req'[r].pc # "idle", Serving(req[r])', \A s \in Requests \ {r} : req'[s] = req[s]
      PROVE ServeInv'
  <2>1. r \in Handlers' BY <1>5 DEF Handlers
  <2>2. mon'.pc = "idle" BY <2>1 DEF Serial
  <2>3. RoundOK' BY <2>2 DEF RoundOK
  <2>4. \A s \in Requests \ {r} : req'[s].pc = "idle"
    <3> SUFFICES ASSUME NEW s \in Requests \ {r}, req'[s].pc # "idle" PROVE FALSE
      OBVIOUS
    <3>1. s \in Handlers' BY DEF Handlers
    <3> QED BY <2>1, <3>1, <1>3 DEF BindInv, Alone
  <2>5. \A s \in Requests \ {r} : Serving(req[s])' BY <2>4 DEF Serving, Opening, Chosen
  <2> QED BY <1>3, <1>4, <1>5, <2>3, <2>5 DEF ServeInv
<1>6. CASE Close(r, u)
  <2>1. req'[r].pc = "close" /\ \A s \in Requests \ {r} : req'[s] = req[s]
    BY <1>6, <1>t DEF Close, Idle
  <2>2. Serving(req[r])' BY <2>1 DEF Serving, Opening, Chosen
  <2> QED BY <2>1, <2>2, <1>5
<1>7. ASSUME NEW g \in Groups, Open(r, u, g) PROVE ServeInv'
  <2> DEFINE own == BindsOf(u) \cup StaticOf(u)
             ports == {row[i].port : i \in own} \ {None}
             seen(mine) == IF mine = None THEN None ELSE row[mine].port
             n(mine) == [Idle EXCEPT !.pc = "links", !.user = u, !.group = g,
                           !.read = BindsOf(u), !.ports = ports, !.mine = mine,
                           !.seen = seen(mine)]
  <2>1. PICK mine \in IF \E i \in own : Group[i] = g
                      THEN {i \in own : Group[i] = g} ELSE {None} :
          req' = [req EXCEPT ![r] = n(mine)]
    BY <1>7 DEF Open
  <2>2. Licensed BY <1>7 DEF Open, Answered
  <2>3. Cardinality(Viewed) < VdiSize
    <3>1. Cardinality(Viewed) <= LinksNum /\ LinksNum < VdiSize
      BY <2>2, <1>t, LinksBound DEF Licensed
    <3>2. Cardinality(Viewed) \in Nat BY <1>t, FS_CardinalityType DEF FewViewers
    <3>3. LinksNum \in Nat
      <4> DEFINE L == {p \in Ports : Linked(p) /\ \E i \in Insts : row[i].port = p}
                 P == {vm[i].port : i \in Viewed}
      <4>1. L \in SUBSET P BY DEF Linked, Viewed
      <4>2. IsFiniteSet(P) BY <1>t, PortsFinite DEF FewViewers
      <4>3. IsFiniteSet(L) BY <4>1, <4>2, SubsetCard
      <4> QED BY <4>3, FS_CardinalityType DEF LinksNum
    <3> QED BY <3>1, <3>2, <3>3
  <2>4. mine # None => mine \in own /\ Group[mine] = g BY <2>1
  <2>5. \A i \in BindsOf(u) : Group[i] = g => i = mine
    <3> SUFFICES ASSUME NEW i \in BindsOf(u), Group[i] = g PROVE i = mine
      OBVIOUS
    <3>1. mine \in own /\ Group[mine] = g BY <2>1
    <3>2. i \in Pool /\ <<u, i>> \in binds BY DEF BindsOf
    <3>3. mine \notin Static BY <3>1, <3>2
    <3>4. <<u, mine>> \in binds BY <3>1, <3>3 DEF BindsOf, StaticOf
    <3>5. <<u, i>> = <<u, mine>> BY <3>1, <3>2, <3>4, <1>t DEF OneBindPerGroup
    <3> QED BY <3>5
  <2>6. \A i \in own : row[i].port # None => row[i].port \in ports OBVIOUS
  <2>7. mine # None => seen(mine) = row[mine].port OBVIOUS
  <2>8. own = OwnOf(u) BY DEF OwnOf
  <2> HIDE DEF own, ports, seen
  <2>9. /\ req'[r].pc = "links" /\ req'[r].user = u /\ req'[r].group = g
        /\ req'[r].read = BindsOf(u) /\ req'[r].ports = ports /\ req'[r].mine = mine
        /\ req'[r].seen = seen(mine) /\ req'[r].others = {}
        /\ \A s \in Requests \ {r} : req'[s] = req[s]
    BY <2>1, <1>t DEF Idle
  <2>10. OwnOf(u)' = OwnOf(u) BY <1>2 DEF OwnOf, BindsOf, StaticOf
  <2>11. Cardinality(Viewed') < VdiSize BY <2>3, <1>2 DEF Viewed
  <2>12. Serving(req[r])'
    BY <2>4, <2>5, <2>6, <2>7, <2>8, <2>9, <2>10, <2>11, <1>2 DEF Serving, Chosen
  <2> QED BY <2>9, <2>12, <1>5
<1> QED BY <1>1, <1>6, <1>7

LEMMA ServeInvStep ==
  ASSUME Answered, ServeInv, NEW r \in Requests, Step(r) PROVE ServeInv'
<1> DEFINE q == req[r]
<1>t. /\ TypeInv /\ BindInv /\ ViewersOK /\ FewViewers /\ RoundOK /\ Alone
      /\ BindsDistinct /\ OneBindPerGroup
      /\ row \in Rows /\ vm \in [Insts -> Vms] /\ req \in [Requests -> ReqRecs]
      /\ told \in [Users -> Told] /\ binds \in SUBSET (Users \X Pool)
      /\ q \in ReqRecs /\ ReqOK(q) /\ BindsCurrent(q) /\ Serving(q)
  BY DEF ServeInv, BindInv, TypeInv, TypeOK, Vms, ReqRecs, Pcs, Told
<1>a. /\ q.pc # "idle" /\ mon.pc = "idle" /\ q.user \in Users
      /\ \A s \in Requests \ {r} : req[s].pc = "idle" /\ req'[s] = req[s]
      /\ \A u \in Users : told[u] = None
  <2>1. q.pc # "idle" /\ \A s \in Requests \ {r} : req[s].pc = "idle" /\ req'[s] = req[s]
    BY <1>t, AloneStep
  <2>2. r \in Handlers BY <2>1 DEF Handlers
  <2>3. mon.pc = "idle" BY <2>2, <1>t DEF RoundOK
  <2>4. \A u \in Users : told[u] = None
    <3> SUFFICES ASSUME NEW u \in Users, told[u] # None PROVE FALSE
      OBVIOUS
    <3>1. u \in Handlers BY DEF Handlers
    <3>2. u = r BY <2>2, <3>1, <1>t DEF Alone
    <3> QED BY <3>2
  <2> QED BY <2>1, <2>3, <2>4, <1>t DEF ReqOK
<1>b. BindInv' BY <1>t, BindInvStep
<1>c. UNCHANGED mon
  BY DEF Step, CheckLinks, Release, Pick, Create, Record, ReadBinds, ClearOld, Bind,
         Answer, CloseEnd, CloseOne
<1>d. RoundOK' /\ \A s \in Requests \ {r} : Serving(req[s])'
  <2>1. RoundOK' BY <1>a, <1>c DEF RoundOK
  <2>2. \A s \in Requests \ {r} : Serving(req[s])' BY <1>a DEF Serving, Opening, Chosen
  <2> QED BY <2>1, <2>2
<1>e. ASSUME ViewersOK', FewViewers', Serving(req[r])', UNCHANGED told PROVE ServeInv'
  <2>1. \A u \in Users : Landing(u)' BY <1>a, <1>e DEF Landing
  <2> QED BY <1>b, <1>d, <1>e, <2>1 DEF ServeInv
<1>k. ASSUME UNCHANGED vm PROVE FewViewers' /\ Viewed' = Viewed /\ \A u : ViewedBy(u)' = ViewedBy(u)
  BY <1>k, <1>t DEF FewViewers, Viewed, ViewedBy
<1>v. ASSUME UNCHANGED <<row, binds, vm>> PROVE ViewersOK'
  BY <1>v, <1>t DEF ViewersOK, Viewed, Running
<1>f. ASSUME Finish(r) PROVE Serving(req[r])'
  <2>1. req'[r].pc = "idle" BY <1>f, <1>t DEF Finish, Idle
  <2> QED BY <2>1 DEF Serving, Opening, Chosen
<1>o. q.pc \in Opening =>
        Cardinality(Viewed) < VdiSize /\ \A b \in q.others : vm[b[2]].viewer = None
  BY <1>t DEF Serving
<1>1. CASE CheckLinks(r)
  <2> DEFINE linked == {p \in q.ports : Linked(p)}
  <2>1. /\ q.pc = "links" /\ UNCHANGED <<row, binds, vm, mon>>
        /\ \/ /\ q.seen \in linked
              /\ told' = [told EXCEPT ![q.user] = [inst |-> q.mine, port |-> q.seen]]
              /\ Finish(r)
           \/ /\ q.seen \notin linked
              /\ req' = [req EXCEPT ![r].pc = IF q.mine \in Pool THEN "release" ELSE "pick",
                                    ![r].ports = linked]
              /\ UNCHANGED told
    BY <1>1 DEF CheckLinks, Answered
  <2>2. ViewersOK' /\ FewViewers' BY <2>1, <1>k, <1>v
  <2>3. /\ q.mine # None =>
             q.mine \in OwnOf(q.user) /\ Group[q.mine] = q.group /\ q.seen = row[q.mine].port
        /\ \A i \in OwnOf(q.user) : row[i].port # None => row[i].port \in q.ports
        /\ \A i \in q.read : Group[i] = q.group => i = q.mine
    BY <2>1, <1>t DEF Serving
  <2>4. \A i \in ViewedBy(q.user) : i \in OwnOf(q.user) /\ vm[i].port \in linked
    <3> SUFFICES ASSUME NEW i \in ViewedBy(q.user)
                 PROVE i \in OwnOf(q.user) /\ vm[i].port \in linked
      OBVIOUS
    <3>1. i \in Insts /\ vm[i].viewer = q.user /\ q.user # None /\ i \in Viewed
      BY <1>a DEF ViewedBy, Viewed
    <3>2. i \in OwnOf(q.user)
      BY <3>1, <1>t DEF ViewersOK, OwnOf, BindsOf, StaticOf, Insts
    <3>3. row[i].port = vm[i].port /\ vm[i].port # None BY <3>1, <1>t DEF ViewersOK, Running
    <3>4. vm[i].port \in q.ports BY <2>3, <3>2, <3>3
    <3> QED BY <3>1, <3>2, <3>4 DEF Linked
  <2>5. CASE q.seen \in linked
    <3>1. q.seen \in Ports /\ q.seen # None /\ Linked(q.seen) BY <2>5, <1>t DEF ReqRecs
    <3>u. PICK u \in Users : u = q.user BY <1>a
    <3>i. PICK i \in Insts : i = q.mine BY <3>1, <2>1, <1>t DEF ReqOK, ReqRecs
    <3>2. i \in OwnOf(u) /\ i \in Insts /\ q.seen = row[i].port
      BY <3>u, <3>i, <2>3
    <3>3. told' = [told EXCEPT ![u] = [inst |-> i, port |-> q.seen]] /\ Finish(r)
      BY <2>1, <2>5, <3>u, <3>i
    <3>4. told'[u] = [inst |-> i, port |-> q.seen] /\ \A v \in Users \ {u} : told'[v] = None
      BY <3>3, <1>a, <1>t
    <3>5. ASSUME Running(i), vm[i].port = q.seen
          PROVE /\ i \in Viewed /\ i \in ViewedBy(u)
                /\ i \in Pool => <<u, i>> \in binds /\ row[i].alloc
                /\ i \in Static => Owner[i] = u
      <4>1. PICK j \in Insts : vm[j].port = q.seen /\ vm[j].viewer # None
        BY <3>1 DEF Linked
      <4>2. i = j BY <3>2, <3>5, <4>1, <1>t DEF ViewersOK
      <4>3. i \in Viewed BY <3>2, <4>1, <4>2 DEF Viewed
      <4>4. CASE i \in Pool
        <5>1. <<vm[i].viewer, i>> \in binds /\ row[i].alloc
          BY <4>3, <4>4, <1>t DEF ViewersOK
        <5>2. <<u, i>> \in binds BY <3>2, <4>4 DEF OwnOf, BindsOf, StaticOf
        <5>3. <<vm[i].viewer, i>> = <<u, i>> BY <5>1, <5>2, <1>t DEF BindsDistinct
        <5> QED BY <3>2, <4>3, <4>4, <5>1, <5>2, <5>3 DEF ViewedBy
      <4>5. CASE i \in Static
        <5>1. Owner[i] = vm[i].viewer BY <4>3, <4>5, <1>t DEF ViewersOK
        <5>2. Owner[i] = u BY <3>2, <4>5 DEF OwnOf, BindsOf, StaticOf
        <5> QED BY <3>2, <4>3, <4>5, <5>1, <5>2 DEF ViewedBy
      <4> QED BY <3>2, <4>4, <4>5 DEF Insts
    <3>6. Landing(u)'
      <4>1. row' = row /\ vm' = vm /\ binds' = binds BY <2>1
      <4>2. ASSUME Running(i), vm[i].port = q.seen
            PROVE Cardinality(Viewed \cup {i}) <= VdiSize /\ Cardinality(ViewedBy(u) \cup {i}) <= 2
        <5>1. Viewed \cup {i} = Viewed /\ ViewedBy(u) \cup {i} = ViewedBy(u) BY <3>5, <4>2
        <5> QED BY <5>1, <1>t DEF FewViewers
      <4>3. ASSUME Running(i), vm[i].port = q.seen PROVE vm[i].viewer \in {None, u}
        BY <3>5, <4>3 DEF ViewedBy
      <4>4. told'[u].inst = i /\ told'[u].port = q.seen BY <3>4
      <4>5. Viewed' = Viewed /\ ViewedBy(u)' = ViewedBy(u) BY <4>1, <1>k
      <4> QED BY <3>2, <3>5, <4>1, <4>2, <4>3, <4>4, <4>5 DEF Landing, Running
    <3>7. \A v \in Users : Landing(v)' BY <3>4, <3>6 DEF Landing
    <3>8. Serving(req[r])' BY <3>3, <1>f
    <3> QED BY <2>2, <3>7, <3>8, <1>b, <1>d DEF ServeInv
  <2>6. CASE q.seen \notin linked
    <3> DEFINE p == IF q.mine \in Pool THEN "release" ELSE "pick"
    <3>1. req' = [req EXCEPT ![r].pc = p, ![r].ports = linked] /\ UNCHANGED told BY <2>1, <2>6
    <3>2. p \in {"release", "pick"} /\ (p = "release" => q.mine \in Pool) OBVIOUS
    <3> HIDE DEF p
    <3>3. /\ req'[r].pc = p /\ req'[r].ports = linked /\ req'[r].user = q.user
          /\ req'[r].read = q.read /\ req'[r].group = q.group /\ req'[r].mine = q.mine
          /\ req'[r].others = q.others
      BY <3>1, <1>t DEF ReqRecs
    <3>4. q.mine \in Pool => vm[q.mine].viewer = None
      <4> SUFFICES ASSUME q.mine \in Pool, vm[q.mine].viewer # None PROVE FALSE
        OBVIOUS
      <4>1. q.mine \in Insts /\ q.mine # None /\ q.mine \in Viewed BY DEF Viewed, Insts
      <4>2. <<vm[q.mine].viewer, q.mine>> \in binds BY <4>1, <1>t DEF ViewersOK
      <4>3. <<q.user, q.mine>> \in binds BY <2>3, <4>1 DEF OwnOf, BindsOf, StaticOf
      <4>4. <<vm[q.mine].viewer, q.mine>> = <<q.user, q.mine>>
        BY <4>2, <4>3, <1>t DEF BindsDistinct
      <4>5. q.mine \in ViewedBy(q.user) BY <4>1, <4>4 DEF ViewedBy
      <4>6. vm[q.mine].port \in linked /\ row[q.mine].port = vm[q.mine].port
        BY <2>4, <4>1, <4>5, <1>t DEF ViewersOK
      <4> QED BY <2>3, <2>6, <4>1, <4>6
    <3>5. \A i \in q.read : Group[i] = q.group => vm[i].viewer = None
      <4>1. q.read \subseteq Pool BY <1>t DEF ReqRecs
      <4> QED BY <4>1, <2>3, <3>4
    <3>6. IsFiniteSet(linked)
      <4>1. linked \in SUBSET {vm[i].port : i \in Viewed} BY DEF Linked, Viewed
      <4>2. IsFiniteSet({vm[i].port : i \in Viewed}) BY PortsFinite, <1>t DEF FewViewers
      <4> QED BY <4>1, <4>2, SubsetCard
    <3> HIDE DEF linked
    <3>7. Viewed' = Viewed /\ \A u : ViewedBy(u)' = ViewedBy(u) BY <2>1, <1>k
    <3>8. q.pc \in Opening BY <2>1 DEF Opening
    <3>9. Serving(req[r])'
      BY <2>1, <2>4, <3>2, <3>3, <3>4, <3>5, <3>6, <3>7, <3>8, <1>o DEF Serving, Chosen
    <3> QED BY <2>2, <3>1, <3>9, <1>e
  <2> QED BY <2>5, <2>6
<1>w. ASSUME UNCHANGED vm,
             \A i \in Viewed : /\ row'[i].port = vm[i].port
                               /\ i \in Pool /\ <<vm[i].viewer, i>> \in binds /\ row[i].alloc
                                    => <<vm[i].viewer, i>> \in binds' /\ row'[i].alloc
      PROVE ViewersOK' /\ FewViewers'
  <2>1. Viewed' = Viewed /\ FewViewers' BY <1>w, <1>k
  <2>2. ViewersOK' BY <2>1, <1>w, <1>t DEF ViewersOK, Viewed, Running
  <2> QED BY <2>1, <2>2
<1>u. PICK u \in Users : u = q.user BY <1>a
<1>2. CASE Release(r)
  <2>1. /\ q.pc = "release" /\ q.mine \in Pool /\ UNCHANGED <<vm, told, mon>>
        /\ binds' = binds \ {<<q.user, q.mine>>}
        /\ row' = [row EXCEPT ![q.mine].alloc = FALSE]
    BY <1>2, <1>t DEF Release, ReqOK
  <2>2. /\ req'[r].pc = "pick" /\ req'[r].ports = q.ports /\ req'[r].user = u
        /\ req'[r].read = q.read /\ req'[r].group = q.group /\ req'[r].others = q.others
    BY <1>2, <1>t, <1>u DEF Release, Goto, ReqRecs
  <2>3. vm[q.mine].viewer = None BY <2>1, <1>t DEF Serving
  <2>4. ViewersOK' /\ FewViewers'
    <3> SUFFICES ASSUME NEW i \in Viewed
                 PROVE /\ row'[i].port = vm[i].port
                       /\ i \in Pool /\ <<vm[i].viewer, i>> \in binds /\ row[i].alloc
                            => <<vm[i].viewer, i>> \in binds' /\ row'[i].alloc
      BY <2>1, <1>w
    <3>1. i \in Insts /\ i # q.mine BY <2>3 DEF Viewed
    <3>2. row'[i] = row[i] BY <2>1, <3>1, <1>t
    <3> QED BY <2>1, <3>1, <3>2, <1>t DEF ViewersOK
  <2>5. Viewed' = Viewed /\ ViewedBy(u)' = ViewedBy(u) BY <2>1, <1>k
  <2>6. q.pc \in Opening BY <2>1 DEF Opening
  <2>7. /\ IsFiniteSet(q.ports) /\ \A i \in ViewedBy(u) : vm[i].port \in q.ports
        /\ \A i \in q.read : Group[i] = q.group => vm[i].viewer = None
    BY <2>1, <1>t, <1>u DEF Serving
  <2>8. Serving(req[r])' BY <2>1, <2>2, <2>5, <2>6, <2>7, <1>o DEF Serving, Chosen
  <2> QED BY <2>1, <2>4, <2>8, <1>e
<1>3. CASE Pick(r)
  <2>1. q.pc = "pick" /\ UNCHANGED <<row, binds, vm, told, mon>> BY <1>3 DEF Pick
  <2>2. ViewersOK' /\ FewViewers' BY <2>1, <1>k, <1>v
  <2>3. CASE Finish(r) BY <2>1, <2>2, <2>3, <1>e, <1>f
  <2>4. CASE ~Finish(r)
    <3> DEFINE candidates == IF \E i \in Pool : Group[i] = q.group
                             THEN (IF Free(q.group) = {} THEN {} ELSE {Min(Free(q.group))})
                             ELSE {i \in StaticOf(q.user) : Group[i] = q.group}
    <3>1. MayOpen(q.ports) BY <1>3, <2>4 DEF Pick
    <3>2. PICK i \in candidates :
            req' = [req EXCEPT ![r].pc = "create", ![r].started = i, ![r].inst = i,
                               ![r].seen = row[i].port]
      BY <1>3, <2>4 DEF Pick
    <3>3. (i \in Pool /\ ~row[i].alloc) \/ (i \in Static /\ Owner[i] = u)
      <4>1. Free(q.group) \in SUBSET Nat BY DEF Free, Insts
      <4>2. Free(q.group) # {} => Min(Free(q.group)) \in Free(q.group) BY <4>1, MinIsMember
      <4> QED BY <3>2, <4>2, <1>u DEF Free, StaticOf
    <3>4. Fit(i, u)
      <4>1. i \in Insts BY <3>3 DEF Insts
      <4>2. i \in Viewed => (i \in Pool => row[i].alloc) /\ (i \in Static => Owner[i] = vm[i].viewer)
        BY <1>t DEF ViewersOK
      <4> QED BY <3>3, <4>1, <4>2 DEF Fit, Viewed
    <3>5. Cardinality(ViewedBy(u)) < 2
      <4>1. IsFiniteSet(q.ports) /\ \A j \in ViewedBy(u) : vm[j].port \in q.ports
        BY <2>1, <1>t, <1>u DEF Serving
      <4>2. u # None OBVIOUS
      <4>3. ViewedBy(u) \in SUBSET Viewed BY <4>2 DEF Viewed, ViewedBy
      <4>4. Cardinality(ViewedBy(u)) <= Cardinality(q.ports) BY <4>1, <4>3, <1>t, PortsCount
      <4>5. IsFiniteSet(ViewedBy(u)) BY <4>3, <1>t, SubsetCard DEF FewViewers
      <4>6. Cardinality(ViewedBy(u)) \in Nat /\ Cardinality(q.ports) \in Nat
        BY <4>1, <4>5, FS_CardinalityType
      <4>7. Cardinality(q.ports) < 2 BY <3>1 DEF MayOpen
      <4> QED BY <4>4, <4>6, <4>7
    <3>6. /\ req'[r].pc = "create" /\ req'[r].started = i /\ req'[r].inst = i
          /\ req'[r].seen = row[i].port /\ req'[r].user = u
          /\ req'[r].read = q.read /\ req'[r].group = q.group /\ req'[r].others = q.others
      BY <3>2, <1>t, <1>u DEF ReqRecs
    <3>7. Viewed' = Viewed /\ ViewedBy(u)' = ViewedBy(u) /\ Fit(i, u)'
      BY <2>1, <3>4, <1>k DEF Fit
    <3>8. q.pc \in Opening BY <2>1 DEF Opening
    <3>9. \A j \in q.read : Group[j] = q.group => vm[j].viewer = None
      BY <2>1, <1>t DEF Serving
    <3> HIDE DEF candidates
    <3>10. Serving(req[r])' BY <2>1, <3>5, <3>6, <3>7, <3>8, <3>9, <1>o DEF Serving
    <3> QED BY <2>1, <2>2, <3>10, <1>e
  <2> QED BY <2>3, <2>4
<1>4. CASE Create(r)
  <2>1. q.pc = "create" /\ q.started \in Insts /\ q.inst = q.started
        /\ UNCHANGED <<row, binds, told, mon>>
    BY <1>4, <1>t DEF Create, ReqOK, BindsCurrent
  <2>2. CASE vm' = vm /\ Finish(r)
    <3>1. ViewersOK' /\ FewViewers' BY <2>1, <2>2, <1>k, <1>v
    <3> QED BY <2>1, <2>2, <3>1, <1>e, <1>f
  <2>3. CASE ~(vm' = vm /\ Finish(r))
    <3>i. PICK i \in Insts : i = q.started BY <2>1
    <3> DEFINE started == IF Running(i) THEN vm
                          ELSE [vm EXCEPT ![i] = [port |-> FreePort, viewer |-> None]]
    <3>1. /\ Running(i) \/ FreePorts # {}
          /\ vm' = started
          /\ req' = [req EXCEPT ![r].pc = "record", ![r].port = started[i].port]
      BY <1>4, <2>3, <3>i DEF Create
    <3>2. /\ \A j \in Insts \ {i} : vm'[j] = vm[j]
          /\ \A j \in Insts : vm'[j].viewer = vm[j].viewer
          /\ Running(i) => vm'[i] = vm[i]
          /\ ~Running(i) => vm'[i].port = FreePort /\ FreePort \in FreePorts
      <4>1. ~Running(i) => vm[i].viewer = None BY <1>t DEF ViewersOK, Viewed
      <4>2. FreePorts \in SUBSET Nat BY DEF FreePorts
      <4>3. ~Running(i) => FreePort \in FreePorts BY <3>1, <4>2, MinIsMember DEF FreePort
      <4> QED BY <3>1, <4>1, <4>3, <1>t DEF Vms
    <3>3. Viewed' = Viewed /\ \A v : ViewedBy(v)' = ViewedBy(v) BY <3>2 DEF Viewed, ViewedBy
    <3>4. FewViewers' BY <3>3, <1>t DEF FewViewers
    <3>5. ViewersOK'
      <4>1. \A j, k \in Insts : vm'[j].port # None /\ vm'[j].port = vm'[k].port => j = k
        <5>1. ~Running(i) => \A j \in Insts : vm'[i].port # vm[j].port BY <3>2 DEF FreePorts
        <5> QED BY <3>2, <5>1, <1>t DEF ViewersOK, Running
      <4>2. \A j \in Viewed : Running(j) /\ vm'[j] = vm[j] BY <3>2, <1>t DEF ViewersOK, Viewed
      <4> QED BY <2>1, <3>3, <4>1, <4>2, <1>t DEF ViewersOK, Running
    <3>6. PICK p : p = vm'[i].port OBVIOUS
    <3>7. /\ req'[r].pc = "record" /\ req'[r].port = p
          /\ req'[r].started = i /\ req'[r].inst = i
          /\ req'[r].seen = q.seen /\ req'[r].user = u
          /\ req'[r].read = q.read /\ req'[r].group = q.group /\ req'[r].others = q.others
      <4>1. req' = [req EXCEPT ![r].pc = "record", ![r].port = p] BY <3>1, <3>6
      <4> QED BY <4>1, <2>1, <3>i, <1>t, <1>u DEF ReqRecs
    <3>8. /\ q.seen = row[i].port /\ Fit(i, u) /\ Cardinality(ViewedBy(u)) < 2
          /\ \A j \in q.read : Group[j] = q.group => vm[j].viewer = None
      BY <2>1, <3>i, <1>t, <1>u DEF Serving, Chosen
    <3>9. Fit(i, u)' BY <3>2, <3>8 DEF Fit
    <3>10. \A j \in q.read : Group[j] = q.group => vm'[j].viewer = None
      <4>1. q.read \subseteq Insts BY <1>t DEF ReqRecs, Insts
      <4> QED BY <3>2, <3>8, <4>1
    <3>11. /\ Cardinality(Viewed') < VdiSize /\ \A b \in q.others : vm'[b[2]].viewer = None
      <4>1. q.pc \in Opening BY <2>1 DEF Opening
      <4>2. \A b \in q.others : b[2] \in Insts BY <1>t DEF ReqRecs, Insts
      <4> QED BY <3>2, <3>3, <4>1, <4>2, <1>o
    <3> HIDE DEF started
    <3>12. Serving(req[r])' BY <2>1, <3>3, <3>6, <3>7, <3>8, <3>9, <3>10, <3>11 DEF Serving
    <3> QED BY <2>1, <3>4, <3>5, <3>12, <1>e
  <2> QED BY <2>2, <2>3
<1>5. CASE Record(r)
  <2>1. /\ q.pc = "record" /\ q.started \in Insts /\ q.inst = q.started
        /\ UNCHANGED <<binds, vm, told, mon>>
    BY <1>5, <1>t DEF Record, ReqOK, BindsCurrent
  <2>i. PICK i \in Insts : i = q.started BY <2>1
  <2>2. /\ q.seen = row[i].port /\ vm[i].port \in {None, q.port}
        /\ Fit(i, u) /\ Cardinality(ViewedBy(u)) < 2
        /\ \A j \in q.read : Group[j] = q.group => vm[j].viewer = None
    BY <2>1, <2>i, <1>t, <1>u DEF Serving, Chosen
  <2>3. row' = [row EXCEPT ![i].port = q.port]
    BY <1>5, <2>i, <2>2, <1>t DEF Record, Rows
  <2>4. ViewersOK' /\ FewViewers'
    <3> SUFFICES ASSUME NEW j \in Viewed
                 PROVE row'[j].port = vm[j].port /\ row'[j].alloc = row[j].alloc
      BY <2>1, <1>w
    <3>1. j \in Insts /\ Running(j) /\ row[j].port = vm[j].port BY <1>t DEF ViewersOK, Viewed
    <3> QED BY <2>2, <2>3, <3>1, <1>t DEF Rows, Running
  <2>5. /\ req'[r].pc \in {"binds", "bind"}
        /\ req'[r].started = i /\ req'[r].inst = i /\ req'[r].user = u
        /\ req'[r].read = q.read /\ req'[r].group = q.group /\ req'[r].others = q.others
    <3>1. req'[r] = [q EXCEPT !.pc = IF q.started \in Pool THEN "binds" ELSE "bind"]
      BY <1>5, <1>t DEF Record, Goto
    <3> QED BY <3>1, <2>1, <2>i, <1>t, <1>u DEF ReqRecs
  <2>6. Viewed' = Viewed /\ ViewedBy(u)' = ViewedBy(u) /\ Fit(i, u)'
    BY <2>1, <2>2, <1>k DEF Fit
  <2>7. q.pc \in Opening BY <2>1 DEF Opening
  <2>8. Serving(req[r])' BY <2>1, <2>2, <2>5, <2>6, <2>7, <1>o DEF Serving
  <2> QED BY <2>1, <2>4, <2>8, <1>e
<1>6. CASE ReadBinds(r)
  <2>1. /\ q.pc = "binds" /\ q.started \in Pool /\ q.inst = q.started
        /\ UNCHANGED <<row, binds, vm, told, mon>>
    BY <1>6, <1>t DEF ReadBinds, BindsCurrent
  <2>i. PICK i \in Pool : i = q.started BY <2>1
  <2>2. ViewersOK' /\ FewViewers' BY <2>1, <1>k, <1>v
  <2>3. /\ Fit(i, u) /\ Cardinality(ViewedBy(u)) < 2
        /\ \A j \in q.read : Group[j] = q.group => vm[j].viewer = None
    BY <2>1, <2>i, <1>t, <1>u DEF Serving, Chosen
  <2>4. /\ req'[r].pc = "clear" /\ req'[r].others = {b \in binds : b[2] = i}
        /\ req'[r].inst = i /\ req'[r].user = u /\ req'[r].read = q.read
        /\ req'[r].group = q.group
    BY <1>6, <2>1, <2>i, <1>t, <1>u DEF ReadBinds, ReqRecs
  <2>5. vm[i].viewer = None BY <2>3 DEF Fit
  <2>6. Viewed' = Viewed /\ ViewedBy(u)' = ViewedBy(u) /\ Fit(i, u)'
    BY <2>1, <2>3, <1>k DEF Fit
  <2>7. q.pc \in Opening BY <2>1 DEF Opening
  <2>8. Serving(req[r])' BY <2>1, <2>3, <2>4, <2>5, <2>6, <2>7, <1>o DEF Serving
  <2> QED BY <2>1, <2>2, <2>8, <1>e
<1>7. CASE ClearOld(r)
  <2> DEFINE old == {i \in q.read : Group[i] = q.group}
  <2>1. /\ q.pc = "clear" /\ q.started \in Pool /\ q.inst = q.started /\ old \subseteq Pool
        /\ row' = [i \in Insts |-> IF i \in old THEN [row[i] EXCEPT !.alloc = FALSE] ELSE row[i]]
        /\ binds' = binds \ ({q.user} \X old) /\ UNCHANGED <<vm, told, mon>>
    BY <1>7, <1>t DEF ClearOld, BindsCurrent, ReqRecs
  <2>2. PICK last \in IF old = {} THEN {q.started} ELSE old :
          req' = [req EXCEPT ![r].pc = "bind", ![r].inst = last]
    BY <1>7 DEF ClearOld
  <2>3. /\ Fit(q.started, u) /\ Cardinality(ViewedBy(u)) < 2
        /\ \A j \in old : vm[j].viewer = None
    BY <2>1, <1>t, <1>u DEF Serving, Chosen
  <2>4. last \in Pool /\ vm[last].viewer = None BY <2>1, <2>2, <2>3 DEF Fit
  <2>5. /\ req'[r].pc = "bind" /\ req'[r].inst = last /\ req'[r].user = u
        /\ req'[r].others = q.others
    BY <2>2, <1>t, <1>u DEF ReqRecs
  <2> HIDE DEF old
  <2>6. ViewersOK' /\ FewViewers'
    <3> SUFFICES ASSUME NEW i \in Viewed
                 PROVE /\ row'[i].port = vm[i].port /\ row'[i].alloc = row[i].alloc
                       /\ <<vm[i].viewer, i>> \in binds => <<vm[i].viewer, i>> \in binds'
      BY <2>1, <1>w
    <3>1. i \in Insts /\ i \notin old BY <2>3 DEF Viewed
    <3>2. row'[i] = row[i] BY <2>1, <3>1
    <3> QED BY <2>1, <3>1, <3>2, <1>t DEF ViewersOK
  <2>7. Viewed' = Viewed /\ ViewedBy(u)' = ViewedBy(u) BY <2>1, <1>k
  <2>8. Fit(last, u)' BY <2>1, <2>4 DEF Fit
  <2>9. q.pc \in Opening BY <2>1 DEF Opening
  <2>10. Serving(req[r])' BY <2>1, <2>3, <2>5, <2>7, <2>8, <2>9, <1>o DEF Serving
  <2> QED BY <2>1, <2>6, <2>10, <1>e
<1>8. CASE Bind(r)
  <2>1. /\ q.pc = "bind" /\ q.inst \in Insts /\ UNCHANGED <<vm, told, mon>>
        /\ binds' = (binds \ q.others) \cup ({q.user} \X ({q.inst} \cap Pool))
        /\ row' = [row EXCEPT ![q.inst].alloc = @ \/ q.inst \in Pool]
    BY <1>8, <1>t DEF Bind, ReqOK
  <2>i. PICK i \in Insts : i = q.inst BY <2>1
  <2>2. Fit(i, u) /\ Cardinality(ViewedBy(u)) < 2
    BY <2>1, <2>i, <1>t, <1>u DEF Serving, Chosen
  <2>3. /\ req'[r].pc = "answer" /\ req'[r].inst = i /\ req'[r].user = u
        /\ req'[r].others = q.others
    BY <1>8, <2>i, <1>t, <1>u DEF Bind, Goto, ReqRecs
  <2>4. q.pc \in Opening BY <2>1 DEF Opening
  <2> DEFINE b == row[i].alloc \/ i \in Pool
  <2>5. row' = [row EXCEPT ![i].alloc = b] BY <2>1, <2>i
  <2>6. (i \in Pool => b) /\ (row[i].alloc => b) OBVIOUS
  <2> HIDE DEF b
  <2>7. /\ i \in Pool => row'[i].alloc
        /\ \A j \in Insts : row'[j].port = row[j].port /\ (row[j].alloc => row'[j].alloc)
    BY <2>5, <2>6, <1>t DEF Rows
  <2>8. ViewersOK' /\ FewViewers'
    <3> SUFFICES ASSUME NEW j \in Viewed
                 PROVE /\ row'[j].port = vm[j].port /\ (row[j].alloc => row'[j].alloc)
                       /\ <<vm[j].viewer, j>> \in binds => <<vm[j].viewer, j>> \in binds'
      BY <2>1, <1>w
    <3>1. j \in Insts /\ row[j].port = vm[j].port BY <1>t DEF ViewersOK, Viewed
    <3>2. \A c \in q.others : c[2] # j BY <2>4, <1>o DEF Viewed
    <3> QED BY <2>1, <2>7, <3>1, <3>2
  <2>9. Viewed' = Viewed /\ ViewedBy(u)' = ViewedBy(u) BY <2>1, <1>k
  <2>10. Fit(i, u)' BY <2>1, <2>2 DEF Fit
  <2>11. i \in Pool => <<u, i>> \in binds' BY <2>1, <2>i, <1>u
  <2>12. Serving(req[r])'
    BY <2>1, <2>2, <2>3, <2>4, <2>7, <2>9, <2>10, <2>11, <1>o DEF Serving
  <2> QED BY <2>1, <2>8, <2>12, <1>e
<1>9. CASE Answer(r)
  <2>1. /\ q.pc = "answer" /\ q.inst \in Insts /\ Finish(r)
        /\ UNCHANGED <<row, binds, vm, mon>>
        /\ told' = [told EXCEPT ![q.user] = [inst |-> q.inst, port |-> row[q.inst].port]]
    BY <1>9, <1>t DEF Answer, ReqOK
  <2>i. PICK i \in Insts : i = q.inst BY <2>1
  <2>2. /\ Fit(i, u) /\ Cardinality(ViewedBy(u)) < 2
        /\ i \in Pool => <<u, i>> \in binds /\ row[i].alloc
    BY <2>1, <2>i, <1>t, <1>u DEF Serving, Chosen
  <2>3. Cardinality(Viewed) < VdiSize
    <3>1. q.pc \in Opening BY <2>1 DEF Opening
    <3> QED BY <3>1, <1>o
  <2>4. told'[u] = [inst |-> i, port |-> row[i].port] /\ \A v \in Users \ {u} : told'[v] = None
    BY <2>1, <2>i, <1>u, <1>a, <1>t
  <2>5. Cardinality(Viewed \cup {i}) <= VdiSize
    <3>1. IsFiniteSet(Viewed) BY <1>t DEF FewViewers
    <3>2. /\ Cardinality(Viewed \cup {i}) \in Nat /\ Cardinality(Viewed) \in Nat
          /\ Cardinality(Viewed \cup {i}) <= Cardinality(Viewed) + 1
      BY <3>1, AddCard
    <3> QED BY <2>3, <3>2
  <2>6. Cardinality(ViewedBy(u) \cup {i}) <= 2
    <3>1. IsFiniteSet(ViewedBy(u))
      <4>1. u # None OBVIOUS
      <4>2. ViewedBy(u) \in SUBSET Viewed BY <4>1 DEF Viewed, ViewedBy
      <4> QED BY <4>2, <1>t, SubsetCard DEF FewViewers
    <3>2. /\ Cardinality(ViewedBy(u) \cup {i}) \in Nat /\ Cardinality(ViewedBy(u)) \in Nat
          /\ Cardinality(ViewedBy(u) \cup {i}) <= Cardinality(ViewedBy(u)) + 1
      BY <3>1, AddCard
    <3> QED BY <2>2, <3>2
  <2>7. vm[i].viewer \in {None, u} /\ (i \in Static => Owner[i] = u) BY <2>2 DEF Fit
  <2>8. Viewed' = Viewed /\ ViewedBy(u)' = ViewedBy(u) BY <2>1, <1>k
  <2>9. told'[u].inst = i /\ told'[u].port = row[i].port BY <2>4
  <2>10. Landing(u)' BY <2>1, <2>2, <2>5, <2>6, <2>7, <2>8, <2>9 DEF Landing, Running
  <2>11. \A v \in Users : Landing(v)' BY <2>4, <2>10 DEF Landing
  <2>12. ViewersOK' /\ FewViewers' /\ Serving(req[r])' BY <2>1, <1>k, <1>v, <1>f
  <2> QED BY <2>11, <2>12, <1>b, <1>d DEF ServeInv
<1>10. CASE CloseEnd(r)
  <2>1. UNCHANGED <<row, binds, vm, told, mon>> /\ Finish(r) BY <1>10 DEF CloseEnd
  <2> QED BY <2>1, <1>e, <1>f, <1>k, <1>v
<1>11. ASSUME NEW i \in Insts, CloseOne(r, i) PROVE ServeInv'
  <2>1. /\ q.pc = "close" /\ UNCHANGED <<binds, told, mon>>
        /\ vm' = [vm EXCEPT ![i] = Off]
        /\ row' = [row EXCEPT ![i] = [port |-> None, alloc |-> FALSE]]
        /\ req' = [req EXCEPT ![r].todo = @ \ {i}]
    BY <1>11 DEF CloseOne, Answered
  <2>2. Shrinks BY <2>1, <1>t DEF Shrinks, Off, Vms
  <2>3. FewViewers' BY <2>2, <1>t, RoomStays
  <2>4. \A j \in Insts \ {i} : vm'[j] = vm[j] /\ row'[j] = row[j] BY <2>1, <1>t
  <2>5. vm'[i].port = None /\ vm'[i].viewer = None BY <2>1, <1>t DEF Off
  <2>6. ViewersOK'
    <3>1. \A j \in Viewed' : j \in Viewed /\ j # i /\ j \in Insts BY <2>4, <2>5 DEF Viewed
    <3>2. \A j, k \in Insts : vm'[j].port # None /\ vm'[j].port = vm'[k].port => j = k
      BY <2>4, <2>5, <1>t DEF ViewersOK, Running
    <3> QED BY <2>1, <2>4, <3>1, <3>2, <1>t DEF ViewersOK, Running
  <2>7. req'[r].pc = "close" BY <2>1, <1>t DEF ReqRecs
  <2>8. Serving(req[r])' BY <2>7 DEF Serving, Opening, Chosen
  <2> QED BY <2>1, <2>3, <2>6, <2>8, <1>e
<1> QED BY <1>1, <1>2, <1>3, <1>4, <1>5, <1>6, <1>7, <1>8, <1>9, <1>10, <1>11 DEF Step

LEMMA ServeInvNext == Answered /\ ServeInv /\ [NextSerial]_vars => ServeInv'
<1> SUFFICES ASSUME Answered, ServeInv, [NextSerial]_vars PROVE ServeInv'
  OBVIOUS
<1>1. ASSUME UNCHANGED vars PROVE ServeInv'
  <2>1. BindInv' BY <1>1, BindInvOthers DEF ServeInv
  <2>2. ViewersOK' /\ FewViewers' /\ RoundOK'
    BY <1>1 DEF ServeInv, vars, ViewersOK, FewViewers, RoundOK, Viewed, ViewedBy, Running,
                Handlers
  <2>3. \A r \in Requests : Serving(req[r])'
    <3> SUFFICES ASSUME NEW r \in Requests PROVE Serving(req[r])'
      OBVIOUS
    <3>1. /\ TypeInv /\ FewViewers /\ ReqOK(req[r]) /\ BindsCurrent(req[r])
          /\ Serving(req[r])
      BY DEF ServeInv, BindInv, TypeInv
    <3>2. Shrinks /\ UNCHANGED <<row, binds, req>> BY <1>1 DEF Shrinks, vars
    <3>3. \A q : ReqOK(q) /\ BindsCurrent(q) /\ Serving(q) => Serving(q)'
      BY <3>1, <3>2, ServingStays
    <3> QED BY <3>1, <3>2, <3>3
  <2>4. \A u \in Users : Landing(u)'
    BY <1>1 DEF ServeInv, vars, Landing, Running, Viewed, ViewedBy
  <2> QED BY <2>1, <2>2, <2>3, <2>4 DEF ServeInv
<1> QED BY <1>1, ServeInvStep, ServeInvConnect, ServeInvLeave, ServeInvArrival,
           ServeInvMonitor DEF NextSerial, Environment

LEMMA ServeInvHolds == Answered /\ SpecSerial => []ServeInv
<1>1. SUFFICES ASSUME Answered PROVE SpecSerial => []ServeInv
  OBVIOUS
<1>2. ServeInv /\ [NextSerial]_vars => ServeInv' BY <1>1, ServeInvNext
<1> QED BY <1>2, ServeInvInit, PTL DEF SpecSerial

(* get_links_num: the licence counts the ports that are both connected and named
   by a row.  When handlers run one after the other, none during a round of the
   monitor, and the node answers, no connected desktop escapes the count and
   none joins between the count and the connection: the licence is kept.     *)
THEOREM LicenceKept == Answered /\ SpecSerial => []LicenceRespected
<1>1. ServeInv => LicenceRespected BY DEF ServeInv, FewViewers, LicenceRespected, Viewed
<1> QED BY <1>1, ServeInvHolds, PTL

(* person_instance: under the same condition counting the ports of the desktops
   the user has is counting those he is connected to, wherever the desktops came
   from, so that he never has a third.                                       *)
THEOREM TwoDesktopsAtMost == Answered /\ SpecSerial => []AtMostTwo
<1>1. ServeInv => AtMostTwo BY DEF ServeInv, FewViewers, AtMostTwo, ViewedBy
<1> QED BY <1>1, ServeInvHolds, PTL

(* The allocated column and the terminal's answer: under the same condition a
   terminal that connects finds its desktop free or connected to its own user;
   no other step changes a connection to one of another user.                *)
THEOREM NobodyPushedOut == Answered /\ SpecSerial => NoTakeover
<1> DEFINE Stay == \A i \in Insts : vm[i].viewer \in Users /\ vm'[i].viewer \in Users
                                      => vm'[i].viewer = vm[i].viewer
<1>1. ServeInv /\ [NextSerial]_vars => Stay
  <2> SUFFICES ASSUME ServeInv, [NextSerial]_vars, NEW i \in Insts,
                      vm[i].viewer \in Users, vm'[i].viewer \in Users
               PROVE vm'[i].viewer = vm[i].viewer
    OBVIOUS
  <2>t. vm \in [Insts -> Vms] /\ ViewersOK /\ \A u \in Users : Landing(u)
    BY DEF ServeInv, BindInv, TypeInv, TypeOK, Vms
  <2>1. CASE UNCHANGED vm BY <2>1
  <2>2. ASSUME NEW u \in Users, Connect(u) PROVE vm'[i].viewer = vm[i].viewer
    <3> DEFINE j == told[u].inst
    <3>1. told[u] # None
          /\ \/ vm' = vm
             \/ /\ Running(j) /\ vm[j].port = told[u].port
                /\ vm' = [vm EXCEPT ![j].viewer = u]
      BY <2>2 DEF Connect
    <3>2. Running(j) /\ vm[j].port = told[u].port => vm[j].viewer \in {None, u}
      BY <3>1, <2>t DEF Landing
    <3> HIDE DEF j
    <3> QED BY <3>1, <3>2, <2>t DEF Vms
  <2>3. ASSUME NEW j \in Insts, Disconnect(j) \/ GuestOff(j) PROVE vm'[i].viewer = vm[i].viewer
    BY <2>3, <2>t DEF Disconnect, GuestOff, Off, Vms
  <2>4. ASSUME NEW r \in Requests, Step(r) PROVE vm'[i].viewer = vm[i].viewer
    <3>1. CASE Create(r)
      <4>1. Running(i) BY <2>t DEF ViewersOK, Viewed
      <4>2. vm'[i] = vm[i] BY <3>1, <4>1, <2>t DEF Create
      <4> QED BY <4>2
    <3>2. ASSUME NEW j \in Insts, CloseOne(r, j) PROVE vm'[i].viewer = vm[i].viewer
      BY <3>2, <2>t DEF CloseOne, Off
    <3>3. CASE UNCHANGED vm BY <3>3
    <3> QED BY <2>4, <3>1, <3>2, <3>3
      DEF Step, CheckLinks, Release, Pick, Record, ReadBinds, ClearOld, Bind, Answer, CloseEnd
  <2>5. ASSUME MonStep \/ Arrival PROVE vm'[i].viewer = vm[i].viewer
    BY <2>5 DEF MonStep, MonLoad, MonPoll, MonEnd, MonApply, Arrival, Open, Close
  <2> QED BY <2>1, <2>2, <2>3, <2>4, <2>5 DEF NextSerial, Environment, vars
<1>2. SpecSerial => [][NextSerial]_vars BY PTL DEF SpecSerial
<1>3. SUFFICES ASSUME Answered PROVE SpecSerial => NoTakeover
  OBVIOUS
<1>4. SpecSerial => []ServeInv BY <1>3, ServeInvHolds
<1> QED BY <1>1, <1>2, <1>4, PTL DEF NoTakeover
=============================================================================
