--------------------------- MODULE TerminalOrder ---------------------------
(***************************************************************************)
(* Numbering the terminals of a classroom (yzy_terminal).                  *)
(*                                                                         *)
(* An administrator starts an ordering of a group: a session is kept in    *)
(* redis under the key command:order:<group>:<batch> and every terminal of *)
(* the group is sent the first number.  Somebody walks from terminal to    *)
(* terminal and confirms a number at each; command_confirm takes it into   *)
(* the session and sends the others the next one.  The administrator may   *)
(* cancel the ordering, start another, or delete terminals meanwhile.      *)
(*                                                                         *)
(* command_confirm runs under order_lock, in a thread per terminal; the    *)
(* administrator's calls and order_query do not take the lock.  A step of  *)
(* this module is one call of the database or of redis; the messages of a  *)
(* call to several terminals are one step, since each matters only to what *)
(* its terminal does next.                                                 *)
(*                                                                         *)
(* Which number a terminal confirms is the terminal's matter: the server   *)
(* proposes one, which is left out here, and checks what comes.            *)
(***************************************************************************)
EXTENDS Naturals

CONSTANTS
  Macs,      \* the terminals of the group
  Deletable, \* those of them that the administrator may delete
  Numbers,   \* the numbers a terminal may confirm
  Start,     \* start_num of the orderings
  MaxBatch,  \* bound on the orderings started
  None

ASSUME OrderAssumption ==
  /\ Numbers \subseteq Nat /\ Start \in Nat /\ MaxBatch \in Nat
  /\ Deletable \subseteq Macs /\ None \notin Macs

VARIABLES
  rows,     \* the terminals that have a row in yzy_terminal
  sessions, \* the keys of redis: the session of each batch, or NoSession
  batch,    \* cmd_batch_num
  lock,     \* order_lock: the terminal whose call holds it
  confirm,  \* a command_confirm call of each terminal
  admin,    \* the call of the administrator
  shown,    \* what a terminal shows: the batch (0 if it is not ordering)
  won       \* the confirmations that were answered True

vars == <<rows, sessions, batch, lock, confirm, admin, shown, won>>

Batches == 1..MaxBatch
NoSession == [kept |-> "no", macs |-> {}, given |-> {}]
IdleCall == [pc |-> "idle", batch |-> 0, num |-> 0, data |-> NoSession]
IdleAdmin == [pc |-> "idle", batch |-> 0, macs |-> {}]

\* The terminals that wait, the numbers given, and how long redis keeps it
Session == [kept : {"day", "ever"}, macs : SUBSET Macs,
            given : SUBSET (Macs \X {n \in Numbers : n >= Start})]

Call == [pc : {"idle", "sent", "row", "get", "set", "tell"}, batch : 0..MaxBatch,
         num : Numbers \cup {0}, data : Session \cup {NoSession}]

TypeOK ==
  /\ rows \subseteq Macs
  /\ sessions \in [Batches -> Session \cup {NoSession}]
  /\ batch \in 0..MaxBatch
  /\ lock \in Macs \cup {None}
  /\ confirm \in [Macs -> Call]
  /\ admin \in [pc : {"idle", "clear", "set", "tell", "delete", "stop", "sweep"},
                batch : 0..MaxBatch, macs : SUBSET Macs]
  /\ shown \in [Macs -> 0..MaxBatch]
  /\ won \subseteq Batches \X Macs \X Numbers

Init ==
  /\ rows = Macs
  /\ sessions = [b \in Batches |-> NoSession]
  /\ batch = 0
  /\ lock = None
  /\ confirm = [m \in Macs |-> IdleCall]
  /\ admin = IdleAdmin
  /\ shown = [m \in Macs |-> 0]
  /\ won = {}

-----------------------------------------------------------------------------
\* send_thrift_cmd: of some terminals those that are connected are told.
Told(macs, b) ==
  \E there \in SUBSET macs :
    shown' = [m \in Macs |-> IF m \in there THEN b ELSE shown[m]]

\* terminal_order: the terminals of the group are read, ...
OrderBegin ==
  /\ admin.pc = "idle" /\ batch < MaxBatch
  /\ rows # {}
  /\ admin' = [pc |-> "clear", batch |-> 0, macs |-> rows]
  /\ UNCHANGED <<rows, sessions, batch, lock, confirm, shown, won>>

\* ... all sessions of the group are deleted, ...
OrderClear ==
  /\ admin.pc = "clear"
  /\ sessions' = [b \in Batches |-> NoSession]
  /\ admin' = [admin EXCEPT !.pc = "set"]
  /\ UNCHANGED <<rows, batch, lock, confirm, shown, won>>

\* ... a session is made under the next batch number, for a day, ...
OrderSet ==
  /\ admin.pc = "set"
  /\ batch' = batch + 1
  /\ sessions' = [sessions EXCEPT ![batch + 1] =
       [kept |-> "day", macs |-> admin.macs, given |-> {}]]
  /\ admin' = [admin EXCEPT !.pc = "tell", !.batch = batch + 1]
  /\ UNCHANGED <<rows, lock, confirm, shown, won>>

\* ... and its terminals are told.
OrderTell ==
  /\ admin.pc = "tell"
  /\ Told(admin.macs, admin.batch)
  /\ admin' = IdleAdmin
  /\ UNCHANGED <<rows, sessions, batch, lock, confirm, won>>

\* cancel_terminal_order: the terminals that still wait are read, ...
CancelBegin ==
  /\ admin.pc = "idle"
  /\ \E b \in 1..batch :
       admin' = IF sessions[b] = NoSession
                THEN [pc |-> "sweep", batch |-> b, macs |-> {}]
                ELSE [pc |-> "delete", batch |-> b, macs |-> sessions[b].macs]
  /\ UNCHANGED <<rows, sessions, batch, lock, confirm, shown, won>>

\* ... the session is deleted, ...
CancelDelete ==
  /\ admin.pc = "delete"
  /\ sessions' = [sessions EXCEPT ![admin.batch] = NoSession]
  /\ admin' = [admin EXCEPT !.pc = "stop"]
  /\ UNCHANGED <<rows, batch, lock, confirm, shown, won>>

\* ... they are told to stop, ...
CancelTell ==
  /\ admin.pc = "stop"
  /\ Told(admin.macs, 0)
  /\ admin' = [admin EXCEPT !.pc = "sweep", !.macs = {}]
  /\ UNCHANGED <<rows, sessions, batch, lock, confirm, won>>

\* ... and what else the group has of sessions is deleted.
CancelSweep ==
  /\ admin.pc = "sweep"
  /\ sessions' = [b \in Batches |-> NoSession]
  /\ admin' = IdleAdmin
  /\ UNCHANGED <<rows, batch, lock, confirm, shown, won>>

\* The administrator deletes a terminal.
Delete(m) ==
  /\ m \in rows \cap Deletable
  /\ rows' = rows \ {m}
  /\ UNCHANGED <<sessions, batch, lock, confirm, admin, shown, won>>

-----------------------------------------------------------------------------
\* The youngest session of the group, and the terminal waits in it.
WaitsIn(m, b) ==
  /\ m \in rows
  /\ m \in sessions[b].macs
  /\ \A c \in Batches : sessions[c] # NoSession => c <= b

\* order_query: the terminal shows the ordering it waits in, if there is one.
OrderQuery(m) ==
  /\ \/ \E b \in Batches : WaitsIn(m, b) /\ shown' = [shown EXCEPT ![m] = b]
     \/ /\ \A b \in Batches : ~WaitsIn(m, b)
        /\ shown' = [shown EXCEPT ![m] = 0]
  /\ UNCHANGED <<rows, sessions, batch, lock, confirm, admin, won>>

\* A number is confirmed at a terminal that shows a session.
SendConfirm(m) ==
  /\ shown[m] # 0
  /\ confirm[m].pc = "idle"
  /\ \E n \in Numbers :
       confirm' = [confirm EXCEPT ![m] = [IdleCall EXCEPT !.pc = "sent", !.batch = shown[m], !.num = n]]
  /\ UNCHANGED <<rows, sessions, batch, lock, admin, shown, won>>

\* Mutant: the lock is not waited for.
AcquireFree(m) ==
  /\ confirm[m].pc = "sent"
  /\ lock' = m
  /\ confirm' = [confirm EXCEPT ![m].pc = "row"]
  /\ UNCHANGED <<rows, sessions, batch, admin, shown, won>>

Acquire(m) ==
  /\ confirm[m].pc = "sent"
  /\ lock = None
  /\ lock' = m
  /\ confirm' = [confirm EXCEPT ![m].pc = "row"]
  /\ UNCHANGED <<rows, sessions, batch, admin, shown, won>>

\* A terminal without a row is answered False; this return keeps the lock.
ReadRow(m) ==
  /\ confirm[m].pc = "row"
  /\ confirm' = [confirm EXCEPT ![m] = IF m \in rows THEN [@ EXCEPT !.pc = "get"] ELSE IdleCall]
  /\ UNCHANGED <<rows, sessions, batch, lock, admin, shown, won>>

\* Mutant: numbers below the first are taken.
RefusedNotBelow(m, s) ==
  \/ s = NoSession
  \/ m \notin s.macs
  \/ \E k \in Macs : <<k, confirm[m].num>> \in s.given

\* No session, a number below the first, a terminal that does not wait (any
\* more), or a number that is taken
Refused(m, s) ==
  \/ s = NoSession
  \/ confirm[m].num < Start
  \/ m \notin s.macs
  \/ \E k \in Macs : <<k, confirm[m].num>> \in s.given

\* Mutant: only a missing session gives the lock back.
GetHolding(m) ==
  LET s == sessions[confirm[m].batch] IN
  /\ confirm[m].pc = "get"
  /\ \/ /\ ~Refused(m, s)
        /\ confirm' = [confirm EXCEPT ![m].pc = "set", ![m].data = s]
        /\ UNCHANGED lock
     \/ /\ Refused(m, s)
        /\ confirm' = [confirm EXCEPT ![m] = IdleCall]
        /\ lock' = IF s = NoSession THEN None ELSE lock
  /\ UNCHANGED <<rows, sessions, batch, admin, shown, won>>

\* The session is read and the number checked; redis may not answer.
Get(m) ==
  LET s == sessions[confirm[m].batch] IN
  /\ confirm[m].pc = "get"
  /\ \/ /\ ~Refused(m, s)
        /\ confirm' = [confirm EXCEPT ![m].pc = "set", ![m].data = s]
        /\ UNCHANGED lock
     \/ /\ confirm' = [confirm EXCEPT ![m] = IdleCall]
        /\ lock' = None
  /\ UNCHANGED <<rows, sessions, batch, admin, shown, won>>

\* The session with the confirmation; writing the key again drops its expiry.
TakenIn(m) ==
  LET c == confirm[m] IN
  [c.data EXCEPT !.macs = @ \ {m}, !.given = @ \cup {<<m, c.num>>}, !.kept = "ever"]

\* The session is written back, whether or not its key still exists.
Set(m) ==
  LET s == TakenIn(m) IN
  /\ confirm[m].pc = "set"
  /\ sessions' = [sessions EXCEPT ![confirm[m].batch] = s]
  /\ confirm' = [confirm EXCEPT ![m].pc = "tell", ![m].data = s]
  /\ UNCHANGED <<rows, batch, lock, admin, shown, won>>

\* The others are told that it goes on, the lock is given back, the answer True.
Tell(m) ==
  LET c == confirm[m] IN
  /\ c.pc = "tell"
  /\ \E there \in SUBSET c.data.macs :
       shown' = [k \in Macs |-> IF k = m THEN 0 ELSE IF k \in there THEN c.batch ELSE shown[k]]
  /\ won' = won \cup {<<c.batch, m, c.num>>}
  /\ confirm' = [confirm EXCEPT ![m] = IdleCall]
  /\ lock' = None
  /\ UNCHANGED <<rows, sessions, batch, admin>>

\* A day has passed.
Expire(b) ==
  /\ sessions[b].kept = "day"
  /\ sessions' = [sessions EXCEPT ![b] = NoSession]
  /\ UNCHANGED <<rows, batch, lock, confirm, admin, shown, won>>

\* The process restarts; redis keeps the sessions.
Restart ==
  /\ lock # None \/ admin.pc # "idle"
  /\ lock' = None
  /\ confirm' = [m \in Macs |-> IdleCall]
  /\ admin' = IdleAdmin
  /\ UNCHANGED <<rows, sessions, batch, shown, won>>

-----------------------------------------------------------------------------
AdminStep == OrderClear \/ OrderSet \/ OrderTell \/ CancelDelete \/ CancelTell \/ CancelSweep
\* What a call does once it has the lock
Held(m) == ReadRow(m) \/ Get(m) \/ Set(m) \/ Tell(m)

Next ==
  \/ AdminStep \/ OrderBegin \/ CancelBegin \/ Restart
  \/ \E m \in Macs : Delete(m) \/ OrderQuery(m) \/ SendConfirm(m) \/ Acquire(m) \/ Held(m)
  \/ \E b \in Batches : Expire(b)

Spec == Init /\ [][Next]_vars /\ \A m \in Macs : WF_vars(Held(m))

-----------------------------------------------------------------------------
(* command_confirm: two terminals are never told that the same number of an
   ordering is theirs, whatever is cancelled, begun anew or restarted meanwhile. *)
NumberUnique ==
  \A x, y \in won : x[1] = y[1] /\ x[3] = y[3] => x[2] = y[2]

(* A confirmation that was answered True stays in its session: no other call,
   working on a session it read before, writes over it.                      *)
ConfirmKept ==
  \A x \in won :
    LET s == sessions[x[1]] IN s # NoSession => x[2] \notin s.macs /\ <<x[2], x[3]>> \in s.given

\* The call that has the lock is about to write the session of batch b back.
Copied(b) == lock # None /\ confirm[lock].pc = "set" /\ confirm[lock].batch = b

\* The orderings that have not ended: none can come back once its session is gone
\* and no call can write it back.
Open == {b \in 1..batch : sessions[b] # NoSession \/ Copied(b)}

Given ==
  [b \in Open |->
     IF sessions[b] # NoSession THEN sessions[b].given ELSE confirm[lock].data.given]

\* The confirmations that were taken and are to be answered
Due == {<<confirm[m].batch, m, confirm[m].num>> : m \in {k \in Macs : confirm[k].pc = "tell"}}

(* The protocol of sessions, copies of them and the lock hands numbers out as
   Numbering does, each when its session is written.                         *)
Orderings == INSTANCE Numbering WITH begun <- batch, given <- Given, due <- Due
ImplementsNumbering == Orderings!Spec

(* As long as only terminals that have a row confirm, order_lock is given back
   again and again, on every path of command_confirm.                        *)
LockComesFree == [](lock # None => lock \in rows) => []<>(lock = None)
=============================================================================
