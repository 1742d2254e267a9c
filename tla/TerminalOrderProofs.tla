------------------------ MODULE TerminalOrderProofs ------------------------
(***************************************************************************)
(* Proofs about TerminalOrder: its types, that no number of an ordering is *)
(* given twice and no confirmation lost, and that it implements Numbering, *)
(* for any number of terminals, numbers and orderings.  That the lock      *)
(* comes free is a liveness property and stays with TLC.                   *)
(***************************************************************************)
EXTENDS TerminalOrder, TLAPS

Reading(m) == confirm[m].pc \in {"row", "get", "set", "tell"}
Writing(m) == confirm[m].pc \in {"set", "tell"}

(* A call works on a batch that was begun, an ordering under way has a batch
   number left, and what is written back is a session.                       *)
CallsOK ==
  \A m \in Macs :
    /\ shown[m] <= batch
    /\ confirm[m].pc # "idle" => confirm[m].batch \in 1..batch /\ confirm[m].num \in Numbers
    /\ Writing(m) => confirm[m].data \in Session /\ confirm[m].num >= Start

AdminOK ==
  /\ admin.pc \in {"clear", "set"} => batch < MaxBatch
  /\ admin.batch <= batch
  /\ \A b \in Batches : b > batch => sessions[b] = NoSession

TypeInv == TypeOK /\ CallsOK /\ AdminOK

LEMMA SessionFacts ==
  ASSUME NEW s \in Session
  PROVE  /\ s # NoSession
         /\ s.macs \subseteq Macs
         /\ s.given \subseteq Macs \X {n \in Numbers : n >= Start}
BY DEF Session, NoSession

\* The session with one more confirmation
LEMMA TakenInSession ==
  ASSUME NEW m \in Macs, confirm[m].data \in Session,
         confirm[m].num \in Numbers, confirm[m].num >= Start
  PROVE  /\ TakenIn(m) \in Session
         /\ TakenIn(m).macs = confirm[m].data.macs \ {m}
         /\ TakenIn(m).given = confirm[m].data.given \cup {<<m, confirm[m].num>>}
<1> DEFINE d == confirm[m].data
           g == d.given \cup {<<m, confirm[m].num>>}
<1>1. g \in SUBSET (Macs \X {n \in Numbers : n >= Start}) /\ d.macs \ {m} \in SUBSET Macs
  BY SessionFacts
<1>2. TakenIn(m) = [d EXCEPT !.macs = d.macs \ {m}, !.given = g, !.kept = "ever"]
  BY DEF TakenIn
<1>3. d \in [kept : {"day", "ever"}, macs : SUBSET Macs,
              given : SUBSET (Macs \X {n \in Numbers : n >= Start})]
  BY DEF Session
<1> HIDE DEF d, g
<1> QED
  <2>1. TakenIn(m) = [kept |-> "ever", macs |-> d.macs \ {m}, given |-> g]
    BY <1>2, <1>3
  <2> QED BY <1>1, <2>1 DEF Session, d, g

LEMMA TypeInvInit == Init => TypeInv
<1> SUFFICES ASSUME Init PROVE TypeInv
  OBVIOUS
<1> USE OrderAssumption DEF Init
<1>1. IdleCall \in Call /\ IdleAdmin.macs \subseteq Macs
  BY DEF IdleCall, IdleAdmin, Call
<1>2. TypeOK
  BY <1>1 DEF TypeOK, IdleAdmin
<1>3. CallsOK
  <2> SUFFICES ASSUME NEW m \in Macs
               PROVE  shown[m] <= batch /\ confirm[m].pc = "idle"
    BY DEF CallsOK, Writing
  <2> QED BY DEF IdleCall
<1>4. AdminOK
  BY DEF AdminOK, IdleAdmin
<1> QED BY <1>2, <1>3, <1>4 DEF TypeInv

\* What a message to some terminals changes
LEMMA ToldShown ==
  ASSUME TypeInv, NEW macs \in SUBSET Macs, NEW b \in 0..batch, Told(macs, b)
  PROVE  /\ shown' \in [Macs -> 0..MaxBatch]
         /\ \A m \in Macs : shown'[m] <= batch
BY OrderAssumption DEF TypeInv, TypeOK, CallsOK, Told

LEMMA TypeInvStep == TypeInv /\ [Next]_vars => TypeInv'
<1> SUFFICES ASSUME TypeInv, [Next]_vars PROVE TypeInv'
  OBVIOUS
<1> USE OrderAssumption, SessionFacts
    DEF TypeInv, TypeOK, CallsOK, AdminOK, Writing, Batches
<1>a. IdleCall \in Call /\ IdleCall.pc = "idle"
  BY DEF IdleCall, Call
<1>b. IdleAdmin.pc = "idle" /\ IdleAdmin.batch = 0 /\ IdleAdmin.macs = {}
  BY DEF IdleAdmin
<1>1. ASSUME OrderBegin PROVE TypeInv'
  BY <1>1 DEF OrderBegin
<1>2. ASSUME OrderClear PROVE TypeInv'
  BY <1>2 DEF OrderClear
<1>3. ASSUME OrderSet PROVE TypeInv'
  <2> DEFINE s == [kept |-> "day", macs |-> admin.macs, given |-> {}]
  <2>1. s \in Session
    BY DEF Session
  <2>2. sessions' = [sessions EXCEPT ![batch + 1] = s] /\ batch' = batch + 1 /\ batch + 1 \in Batches
    BY <1>3 DEF OrderSet
  <2> HIDE DEF s
  <2>3. TypeOK'
    <3>1. sessions' \in [Batches -> Session \cup {NoSession}]
      BY <2>1, <2>2
    <3>2. batch' \in 0..MaxBatch
      BY <2>2
    <3>3. admin' = [admin EXCEPT !.pc = "tell", !.batch = batch + 1]
      BY <1>3 DEF OrderSet
    <3> QED BY ZenonT(60), <1>3, <2>2, <3>1, <3>2, <3>3 DEF OrderSet
  <2>4. CallsOK'
    BY <1>3, <2>2 DEF OrderSet, Call
  <2>5. AdminOK'
    BY <1>3, <2>2 DEF OrderSet
  <2> QED BY <2>3, <2>4, <2>5
<1>4. ASSUME OrderTell PROVE TypeInv'
  <2>1. Told(admin.macs, admin.batch) /\ admin.batch \in 0..batch /\ admin.macs \in SUBSET Macs
    BY <1>4 DEF OrderTell
  <2>2. shown' \in [Macs -> 0..MaxBatch] /\ \A m \in Macs : shown'[m] <= batch
    BY <2>1, ToldShown
  <2> QED BY <1>4, <1>b, <2>2 DEF OrderTell, IdleAdmin
<1>5. ASSUME CancelBegin PROVE TypeInv'
  BY <1>5 DEF CancelBegin
<1>6. ASSUME CancelDelete PROVE TypeInv'
  BY <1>6 DEF CancelDelete
<1>7. ASSUME CancelTell PROVE TypeInv'
  <2>1. Told(admin.macs, 0) /\ 0 \in 0..batch /\ admin.macs \in SUBSET Macs
    BY <1>7 DEF CancelTell
  <2> QED BY <1>7, <2>1, ToldShown DEF CancelTell
<1>8. ASSUME CancelSweep PROVE TypeInv'
  BY <1>8, <1>b DEF CancelSweep, IdleAdmin
<1>9. ASSUME Restart PROVE TypeInv'
  BY <1>9, <1>a, <1>b DEF Restart, IdleAdmin
<1>10. ASSUME NEW m \in Macs, Delete(m) PROVE TypeInv'
  BY <1>10 DEF Delete
<1>11. ASSUME NEW m \in Macs, OrderQuery(m) PROVE TypeInv'
  <2>1. CASE \E b \in Batches : WaitsIn(m, b) /\ shown' = [shown EXCEPT ![m] = b]
    <3> PICK b \in Batches : WaitsIn(m, b) /\ shown' = [shown EXCEPT ![m] = b]
      BY <2>1
    <3>1. sessions[b] # NoSession
      BY DEF WaitsIn, NoSession
    <3> QED BY <1>11, <3>1 DEF OrderQuery
  <2>2. CASE shown' = [shown EXCEPT ![m] = 0]
    BY <1>11, <2>2 DEF OrderQuery
  <2> QED BY <1>11, <2>1, <2>2 DEF OrderQuery
<1>12. ASSUME NEW m \in Macs, SendConfirm(m) PROVE TypeInv'
  <2> PICK n \in Numbers :
        confirm' = [confirm EXCEPT ![m] =
                     [IdleCall EXCEPT !.pc = "sent", !.batch = shown[m], !.num = n]]
    BY <1>12 DEF SendConfirm
  <2> DEFINE c == [IdleCall EXCEPT !.pc = "sent", !.batch = shown[m], !.num = n]
  <2>1. c \in Call /\ c.pc = "sent" /\ c.batch = shown[m] /\ c.num = n
    BY DEF IdleCall, Call
  <2>2. shown[m] \in 1..batch
    BY <1>12 DEF SendConfirm
  <2>3. confirm' = [confirm EXCEPT ![m] = c]
    OBVIOUS
  <2> HIDE DEF c
  <2> QED BY <1>12, <2>1, <2>2, <2>3 DEF SendConfirm
<1>13. ASSUME NEW m \in Macs, Acquire(m) PROVE TypeInv'
  <2> DEFINE c == [confirm[m] EXCEPT !.pc = "row"]
  <2>1. /\ c \in Call /\ c.pc = "row"
        /\ c.batch = confirm[m].batch /\ c.num = confirm[m].num
    <3>1. confirm[m] \in Call
      OBVIOUS
    <3> QED BY <3>1 DEF Call
  <2>2. confirm' = [confirm EXCEPT ![m] = c]
    BY <1>13 DEF Acquire
  <2> HIDE DEF c
  <2> QED BY ZenonT(60), <1>13, <2>1, <2>2 DEF Acquire
<1>14. ASSUME NEW m \in Macs, ReadRow(m) PROVE TypeInv'
  BY <1>14, <1>a DEF ReadRow, Call
<1>15. ASSUME NEW m \in Macs, Get(m) PROVE TypeInv'
  <2> DEFINE s == sessions[confirm[m].batch]
             c == [confirm[m] EXCEPT !.pc = "set", !.data = s]
  <2>1. CASE /\ ~Refused(m, s) /\ UNCHANGED lock
             /\ confirm' = [confirm EXCEPT ![m].pc = "set", ![m].data = s]
    <3>1. /\ confirm[m].batch \in 1..batch /\ confirm[m].num \in Numbers
          /\ s \in Session /\ confirm[m].num >= Start
      BY <1>15, <2>1 DEF Get, Refused
    <3>2. /\ c \in Call /\ c.pc = "set" /\ c.data = s
          /\ c.batch = confirm[m].batch /\ c.num = confirm[m].num
      <4>1. confirm[m] \in Call /\ s \in Session \cup {NoSession}
        BY <3>1
      <4> HIDE DEF s
      <4> QED BY <4>1 DEF Call
    <3>3. confirm' = [confirm EXCEPT ![m] = c]
      BY <2>1
    <3>4. UNCHANGED <<rows, sessions, batch, lock, admin, shown, won>>
      BY <1>15, <2>1 DEF Get
    <3> HIDE DEF s, c
    <3>5. TypeOK'
      BY <3>2, <3>3, <3>4
    <3>6. CallsOK' /\ AdminOK'
      BY <3>1, <3>2, <3>3, <3>4
    <3> QED BY <3>5, <3>6
  <2>2. CASE confirm' = [confirm EXCEPT ![m] = IdleCall] /\ lock' = None
    BY <1>15, <1>a, <2>2 DEF Get
  <2> QED BY <1>15, <2>1, <2>2 DEF Get
<1>16. ASSUME NEW m \in Macs, Set(m) PROVE TypeInv'
  <2> DEFINE s == TakenIn(m)
             c == [confirm[m] EXCEPT !.pc = "tell", !.data = s]
  <2>1. /\ confirm[m].pc = "set" /\ confirm[m].data \in Session
        /\ confirm[m].batch \in 1..batch
        /\ confirm[m].num \in Numbers /\ confirm[m].num >= Start
    BY <1>16 DEF Set
  <2>2. s \in Session
    BY <2>1, TakenInSession
  <2>3. /\ sessions' = [sessions EXCEPT ![confirm[m].batch] = s]
        /\ confirm' = [confirm EXCEPT ![m] = c]
    BY <1>16 DEF Set
  <2> HIDE DEF s
  <2>4. /\ c \in Call /\ c.pc = "tell" /\ c.data = s
        /\ c.batch = confirm[m].batch /\ c.num = confirm[m].num
    <3>1. confirm[m] \in Call /\ s \in Session \cup {NoSession}
      BY <2>2
    <3> QED BY <3>1 DEF Call
  <2> HIDE DEF c
  <2>5. TypeOK'
    <3>1. sessions' \in [Batches -> Session \cup {NoSession}] /\ confirm' \in [Macs -> Call]
      BY <2>1, <2>2, <2>3, <2>4
    <3> QED BY <1>16, <3>1 DEF Set
  <2>6. CallsOK'
    BY <1>16, <2>1, <2>2, <2>3, <2>4 DEF Set
  <2>7. AdminOK'
    BY <1>16, <2>1, <2>3 DEF Set
  <2> QED BY <2>5, <2>6, <2>7
<1>17. ASSUME NEW m \in Macs, Tell(m) PROVE TypeInv'
  <2>1. /\ confirm[m].pc = "tell" /\ confirm[m].batch \in Batches
        /\ confirm[m].num \in Numbers
    BY <1>17 DEF Tell
  <2>2. /\ won' = won \cup {<<confirm[m].batch, m, confirm[m].num>>}
        /\ confirm' = [confirm EXCEPT ![m] = IdleCall]
        /\ UNCHANGED <<rows, sessions, batch, admin>>
    BY <1>17 DEF Tell
  <2>3. \E there \in SUBSET Macs :
          shown' = [k \in Macs |-> IF k = m THEN 0
                                    ELSE IF k \in there THEN confirm[m].batch ELSE shown[k]]
    BY <1>17, <2>1 DEF Tell
  <2>4. shown' \in [Macs -> 0..MaxBatch] /\ \A k \in Macs : shown'[k] <= batch
    BY <2>1, <2>3
  <2>5. lock' \in Macs \cup {None}
    BY <1>17 DEF Tell
  <2>6. confirm' \in [Macs -> Call]
    BY <2>2, <1>a
  <2>7. won' \subseteq Batches \X Macs \X Numbers
    BY <2>1, <2>2
  <2>8. TypeOK'
    BY <2>2, <2>4, <2>5, <2>6, <2>7
  <2>9. CallsOK' /\ AdminOK'
    BY <2>2, <2>4, <1>a
  <2> QED BY <2>8, <2>9
<1>18. ASSUME NEW b \in Batches, Expire(b) PROVE TypeInv'
  BY <1>18 DEF Expire
<1>19. CASE UNCHANGED vars
  BY <1>19 DEF vars
<1> QED
  BY <1>1, <1>2, <1>3, <1>4, <1>5, <1>6, <1>7, <1>8, <1>9, <1>10, <1>11, <1>12,
     <1>13, <1>14, <1>15, <1>16, <1>17, <1>18, <1>19 DEF Next, AdminStep, Held

(* No call reads or writes a session without the lock. *)
LockInv == \A m \in Macs : Reading(m) => lock = m

OneEach(given) ==
  \A k, l \in Macs : \A n \in Numbers : <<k, n>> \in given /\ <<l, n>> \in given => k = l

Kept(x, s) == x[2] \notin s.macs /\ <<x[2], x[3]>> \in s.given

(* What a call writes back is what it read, unless the administrator deleted
   it, and there the number is free; what it wrote holds its confirmation.   *)
CallInv ==
  \A m \in Macs : Writing(m) =>
    /\ sessions[confirm[m].batch] \in {confirm[m].data, NoSession}
    /\ OneEach(confirm[m].data.given)
    /\ confirm[m].pc = "set" => \A k \in Macs : <<k, confirm[m].num>> \notin confirm[m].data.given
    /\ confirm[m].pc = "tell" => Kept(<<confirm[m].batch, m, confirm[m].num>>, confirm[m].data)

SessionInv == \A b \in Batches : OneEach(sessions[b].given)

(* A confirmation that was answered is in its session and in every copy of it
   that may still be written back.                                           *)
WonInv ==
  \A x \in won :
    /\ x[1] <= batch
    /\ sessions[x[1]] # NoSession => Kept(x, sessions[x[1]])
    /\ \A m \in Macs : Writing(m) /\ confirm[m].batch = x[1] => Kept(x, confirm[m].data)

Inv == TypeInv /\ LockInv /\ CallInv /\ SessionInv /\ WonInv /\ NumberUnique

Parts == LockInv /\ CallInv /\ SessionInv /\ WonInv /\ NumberUnique

LEMMA NoSessionGiven == NoSession.given = {} /\ OneEach(NoSession.given)
BY DEF NoSession, OneEach

LEMMA InvInit == Init => Inv
<1> SUFFICES ASSUME Init PROVE Inv
  OBVIOUS
<1> USE DEF Init
<1>1. TypeInv
  BY TypeInvInit
<1>2. \A m \in Macs : ~Reading(m) /\ ~Writing(m)
  BY DEF Reading, Writing, IdleCall
<1>3. SessionInv
  BY NoSessionGiven DEF SessionInv
<1> QED
  BY <1>1, <1>2, <1>3 DEF Inv, LockInv, CallInv, WonInv, NumberUnique

(* Every step but four only deletes sessions, ends calls or leaves them be,
   or moves them before the point where they have read a session.            *)
LEMMA Lessens ==
  ASSUME Inv, TypeInv',
         \A b \in Batches : sessions'[b] \in {sessions[b], NoSession},
         \A m \in Macs : Writing(m)' => confirm'[m] = confirm[m],
         \A m \in Macs : Reading(m)' => lock' = m,
         won' = won, batch' = batch
  PROVE  Parts'
<1> USE DEF Inv, TypeInv, TypeOK
<1>1. \A m \in Macs : Writing(m)' => Writing(m) /\ confirm[m].batch \in Batches
  BY OrderAssumption DEF CallsOK, Writing, Batches
<1>2. LockInv'
  BY DEF LockInv
<1>3. CallInv'
  BY <1>1 DEF CallInv
<1>4. SessionInv'
  BY NoSessionGiven DEF SessionInv
<1>5. WonInv'
  <2> SUFFICES ASSUME NEW x \in won
               PROVE  /\ x[1] <= batch
                      /\ sessions'[x[1]] # NoSession => Kept(x, sessions'[x[1]])
                      /\ \A m \in Macs : Writing(m)' /\ confirm'[m].batch = x[1]
                                         => Kept(x, confirm'[m].data)
    BY DEF WonInv, Kept
  <2>1. x[1] \in Batches
    OBVIOUS
  <2> QED BY <1>1, <2>1 DEF WonInv
<1>6. NumberUnique'
  BY DEF NumberUnique
<1> QED BY <1>2, <1>3, <1>4, <1>5, <1>6 DEF Parts

\* The new session has a batch number that no call and no confirmation knows.
LEMMA OrderSetStep ==
  ASSUME Inv, TypeInv', OrderSet
  PROVE  Parts'
<1> USE OrderAssumption DEF Inv, TypeInv, TypeOK
<1> DEFINE s == [kept |-> "day", macs |-> admin.macs, given |-> {}]
<1>1. /\ sessions' = [sessions EXCEPT ![batch + 1] = s] /\ batch' = batch + 1
      /\ UNCHANGED <<confirm, lock, won>>
  BY DEF OrderSet
<1>2. batch + 1 \in Batches /\ s.given = {}
  BY DEF OrderSet, AdminOK, Batches
<1> HIDE DEF s
<1>3. \A m \in Macs : Writing(m) => confirm[m].batch \in Batches /\ confirm[m].batch # batch + 1
  BY DEF CallsOK, Writing, Batches
<1>4. LockInv'
  BY <1>1 DEF LockInv, Reading
<1>5. CallInv'
  BY <1>1, <1>3 DEF CallInv, Writing
<1>6. SessionInv'
  BY <1>1, <1>2 DEF SessionInv, OneEach
<1>7. WonInv'
  <2>1. \A x \in won : x[1] \in Batches /\ x[1] <= batch
    BY DEF WonInv
  <2>2. \A x \in won : x[1] # batch + 1 /\ x[1] <= batch'
    BY <1>1, <2>1 DEF Batches
  <2>3. \A x \in won : sessions'[x[1]] = sessions[x[1]]
    BY <1>1, <2>1, <2>2
  <2> QED BY <1>1, <2>2, <2>3 DEF WonInv, Writing, Kept
<1>8. NumberUnique'
  BY <1>1 DEF NumberUnique
<1> QED BY <1>4, <1>5, <1>6, <1>7, <1>8 DEF Parts

\* What is read is a session of the invariant, and the number is free in it.
LEMMA GetStep ==
  ASSUME Inv, TypeInv', NEW m \in Macs, Get(m)
  PROVE  Parts'
<1> USE OrderAssumption DEF Inv, TypeInv, TypeOK
<1> DEFINE b == confirm[m].batch
           s == sessions[b]
<1>1. CASE ~Refused(m, s) /\ confirm' = [confirm EXCEPT ![m].pc = "set", ![m].data = s]
           /\ UNCHANGED lock
  <2>1. UNCHANGED <<sessions, batch, won>> /\ confirm[m].pc = "get"
    BY <1>1 DEF Get
  <2>2. /\ s # NoSession /\ b \in Batches
        /\ \A k \in Macs : <<k, confirm[m].num>> \notin s.given
    <3>1. b \in 1..batch
      BY <2>1 DEF CallsOK
    <3>2. b \in Batches
      BY <3>1 DEF Batches
    <3> QED BY <1>1, <3>2 DEF Refused
  <2>3. /\ confirm'[m].pc = "set" /\ confirm'[m].data = s
        /\ confirm'[m].batch = b /\ confirm'[m].num = confirm[m].num
    <3>1. confirm[m] \in Call
      OBVIOUS
    <3> QED BY <1>1, <3>1 DEF Call
  <2>4. \A k \in Macs \ {m} : confirm'[k] = confirm[k]
    BY <1>1
  <2> HIDE DEF s, b
  <2>5. LockInv'
    BY <1>1, <2>1, <2>4 DEF LockInv, Reading
  <2>6. CallInv'
    <3>1. OneEach(s.given) /\ sessions[b] = s
      BY <2>2 DEF SessionInv, s
    <3> QED BY <2>1, <2>2, <2>3, <2>4, <3>1 DEF CallInv, Writing
  <2>7. SessionInv' /\ NumberUnique'
    BY <2>1 DEF SessionInv, NumberUnique
  <2>8. WonInv'
    <3>1. sessions[b] = s
      BY DEF s
    <3> QED BY <2>1, <2>2, <2>3, <2>4, <3>1 DEF WonInv, Writing
  <2> QED BY <2>5, <2>6, <2>7, <2>8 DEF Parts
<1>2. CASE confirm' = [confirm EXCEPT ![m] = IdleCall]
  <2>1. confirm'[m].pc = "idle" /\ \A k \in Macs \ {m} : confirm'[k] = confirm[k]
    BY <1>2 DEF IdleCall
  <2>2. UNCHANGED <<sessions, batch, won>> /\ confirm[m].pc = "get"
    BY DEF Get
  <2>3. \A k \in Macs \ {m} : ~Reading(k)
    BY <2>2 DEF LockInv, Reading
  <2> QED BY <2>1, <2>2, <2>3, Lessens DEF Reading, Writing
<1> QED BY <1>1, <1>2 DEF Get

\* The session that is written holds what was read and the confirmation.
LEMMA SetStep ==
  ASSUME Inv, TypeInv', NEW m \in Macs, Set(m)
  PROVE  Parts'
<1> USE OrderAssumption DEF Inv, TypeInv, TypeOK
<1> DEFINE b == confirm[m].batch
           n == confirm[m].num
           d == confirm[m].data
           s == TakenIn(m)
<1>1. /\ confirm[m].pc = "set" /\ b \in Batches /\ n \in Numbers /\ d \in Session
      /\ UNCHANGED <<batch, lock, won>>
      /\ sessions' = [sessions EXCEPT ![b] = s]
  BY DEF Set, CallsOK, Writing, Batches
<1>2. /\ s \in Session /\ s.macs = d.macs \ {m} /\ s.given = d.given \cup {<<m, n>>}
  BY <1>1, TakenInSession DEF CallsOK, Writing
<1>3. /\ confirm'[m].pc = "tell" /\ confirm'[m].data = s
      /\ confirm'[m].batch = b /\ confirm'[m].num = n
      /\ \A k \in Macs \ {m} : confirm'[k] = confirm[k]
  <2>1. confirm[m] \in Call /\ confirm' = [confirm EXCEPT ![m].pc = "tell", ![m].data = s]
    BY DEF Set
  <2> HIDE DEF s
  <2> QED BY <2>1 DEF Call
<1>4. /\ OneEach(d.given) /\ \A k \in Macs : <<k, n>> \notin d.given
      /\ sessions[b] \in {d, NoSession}
  BY <1>1 DEF CallInv, Writing
<1>5. \A k \in Macs \ {m} : ~Writing(k)
  BY <1>1 DEF LockInv, Reading, Writing
<1> HIDE DEF s, d, n, b
<1>6. OneEach(s.given)
  BY <1>2, <1>4 DEF OneEach
<1>7. LockInv'
  BY <1>1, <1>3 DEF LockInv, Reading
<1>8. CallInv'
  <2>1. sessions'[b] = s /\ <<b, m, n>>[2] = m /\ <<b, m, n>>[3] = n
    BY <1>1
  <2>2. Kept(<<b, m, n>>, s)
    BY <1>2 DEF Kept
  <2> QED BY <1>3, <1>5, <1>6, <2>1, <2>2 DEF CallInv, Writing
<1>9. SessionInv'
  BY <1>1, <1>6 DEF SessionInv
<1>10. WonInv'
  <2> SUFFICES ASSUME NEW x \in won
               PROVE  /\ x[1] <= batch
                      /\ sessions'[x[1]] # NoSession => Kept(x, sessions'[x[1]])
                      /\ \A k \in Macs : Writing(k)' /\ confirm'[k].batch = x[1]
                                         => Kept(x, confirm'[k].data)
    BY <1>1 DEF WonInv, Kept
  <2>1. x[1] = b => Kept(x, s)
    <3>1. x[1] = b => Kept(x, d)
      BY <1>1 DEF WonInv, Writing, b, d
    <3> QED BY <1>2, <3>1 DEF Kept
  <2> QED BY <1>1, <1>3, <1>5, <2>1 DEF WonInv, Writing
<1>11. NumberUnique'
  BY <1>1 DEF NumberUnique
<1> QED BY <1>7, <1>8, <1>9, <1>10, <1>11 DEF Parts

\* What the call wrote, or its copy if the session is gone, tells the new
\* confirmation from those before it.
LEMMA TellStep ==
  ASSUME Inv, TypeInv', NEW m \in Macs, Tell(m)
  PROVE  Parts'
<1> USE OrderAssumption DEF Inv, TypeInv, TypeOK
<1> DEFINE b == confirm[m].batch
           n == confirm[m].num
           d == confirm[m].data
           y == <<b, m, n>>
<1>1. /\ confirm[m].pc = "tell" /\ b \in 1..batch /\ n \in Numbers
      /\ UNCHANGED <<batch, sessions>>
      /\ won' = won \cup {y}
      /\ confirm' = [confirm EXCEPT ![m] = IdleCall]
  BY DEF Tell, CallsOK
<1>2. \A k \in Macs \ {m} : ~Reading(k) /\ ~Writing(k)
  BY <1>1 DEF LockInv, Reading, Writing
<1>3. /\ confirm'[m].pc = "idle"
      /\ \A k \in Macs \ {m} : confirm'[k] = confirm[k]
  BY <1>1 DEF IdleCall
<1>4. \A k \in Macs : ~Reading(k)' /\ ~Writing(k)'
  BY <1>2, <1>3 DEF Reading, Writing
<1>5. OneEach(d.given) /\ Kept(y, d) /\ sessions[b] \in {d, NoSession}
  BY <1>1 DEF CallInv, Writing
<1>6. y[1] = b /\ y[2] = m /\ y[3] = n /\ b \in Batches
  BY <1>1 DEF Batches
<1>7. \A x \in won : x[1] = b => Kept(x, d)
  BY <1>1 DEF WonInv, Writing
<1> HIDE DEF y, d, n, b
<1>8. WonInv'
  <2>1. b <= batch
    BY <1>1
  <2> QED BY <1>1, <1>4, <1>5, <1>6, <2>1 DEF WonInv, Kept
<1>9. NumberUnique'
  <2> SUFFICES ASSUME NEW x \in won, x[1] = b, x[3] = n
               PROVE  x[2] = m
    BY <1>1, <1>6 DEF NumberUnique
  <2>1. <<x[2], n>> \in d.given /\ <<m, n>> \in d.given
    BY <1>5, <1>6, <1>7 DEF Kept
  <2>2. x[2] \in Macs
    OBVIOUS
  <2> QED BY <1>1, <1>5, <2>1, <2>2 DEF OneEach
<1>10. LockInv' /\ CallInv' /\ SessionInv'
  BY <1>1, <1>4 DEF LockInv, CallInv, SessionInv
<1> QED BY <1>8, <1>9, <1>10 DEF Parts

LEMMA InvStep == Inv /\ [Next]_vars => Inv'
<1> SUFFICES ASSUME Inv, [Next]_vars PROVE Inv'
  OBVIOUS
<1>0. TypeInv'
  BY TypeInvStep DEF Inv
<1> SUFFICES Parts'
  BY <1>0 DEF Inv, Parts
<1> USE <1>0
<1>a. IdleCall.pc = "idle"
  BY DEF IdleCall
<1>b. \A k \in Macs : Reading(k) => lock = k
  BY DEF Inv, LockInv
<1>c. sessions \in [Batches -> Session \cup {NoSession}] /\ confirm \in [Macs -> Call]
  BY DEF Inv, TypeInv, TypeOK
<1>1. CASE \/ OrderBegin \/ OrderTell \/ CancelBegin \/ CancelTell
           \/ \E m \in Macs : Delete(m) \/ OrderQuery(m)
           \/ UNCHANGED vars
  <2>1. UNCHANGED <<sessions, confirm, lock, won, batch>>
    BY <1>1 DEF OrderBegin, OrderTell, CancelBegin, CancelTell, Delete, OrderQuery, vars
  <2> QED BY <1>b, <2>1, Lessens DEF Reading
<1>2. CASE OrderClear \/ CancelDelete \/ CancelSweep \/ \E b \in Batches : Expire(b)
  <2>1. UNCHANGED <<confirm, lock, won, batch>>
    BY <1>2 DEF OrderClear, CancelDelete, CancelSweep, Expire
  <2>2. \A b \in Batches : sessions'[b] \in {sessions[b], NoSession}
    BY <1>2, <1>c DEF OrderClear, CancelDelete, CancelSweep, Expire
  <2> QED BY <1>b, <2>1, <2>2, Lessens DEF Reading
<1>3. CASE OrderSet
  BY <1>3, OrderSetStep
<1>4. CASE Restart
  <2>1. UNCHANGED <<sessions, won, batch>> /\ \A m \in Macs : confirm'[m].pc = "idle"
    BY <1>4, <1>a DEF Restart
  <2> QED BY <2>1, Lessens DEF Reading, Writing
<1>5. ASSUME NEW m \in Macs, SendConfirm(m) \/ Acquire(m) \/ ReadRow(m) PROVE Parts'
  <2>1. /\ UNCHANGED <<sessions, won, batch>>
        /\ \A k \in Macs \ {m} : confirm'[k] = confirm[k]
    BY <1>5, <1>c DEF SendConfirm, Acquire, ReadRow
  <2>2. ~Writing(m)'
    <3>1. confirm[m] \in Call
      BY <1>c
    <3>2. confirm'[m].pc \in {"sent", "row", "get", "idle"}
      BY ZenonT(60), <1>5, <1>a, <1>c, <3>1 DEF SendConfirm, Acquire, ReadRow, IdleCall, Call
    <3> QED BY <3>2 DEF Writing
  <2>3. \A k \in Macs : Reading(k)' => lock' = k
    <3>1. CASE SendConfirm(m)
      <4>1. confirm'[m].pc = "sent" /\ lock' = lock
        BY <3>1, <1>c DEF SendConfirm, IdleCall
      <4> QED BY <1>b, <2>1, <4>1 DEF Reading
    <3>2. CASE Acquire(m)
      <4>1. lock = None /\ lock' = m /\ None \notin Macs
        BY <3>2, OrderAssumption DEF Acquire
      <4> QED BY <1>b, <2>1, <4>1 DEF Reading
    <3>3. CASE ReadRow(m)
      <4>1. lock' = lock /\ lock = m
        BY <1>b, <3>3 DEF ReadRow, Reading
      <4> QED BY <1>b, <2>1, <4>1 DEF Reading
    <3> QED BY <1>5, <3>1, <3>2, <3>3
  <2> QED BY <2>1, <2>2, <2>3, Lessens
<1>6. ASSUME NEW m \in Macs, Get(m) PROVE Parts'
  BY <1>6, GetStep
<1>7. ASSUME NEW m \in Macs, Set(m) PROVE Parts'
  BY <1>7, SetStep
<1>8. ASSUME NEW m \in Macs, Tell(m) PROVE Parts'
  BY <1>8, TellStep
<1> QED
  BY <1>1, <1>2, <1>3, <1>4, <1>5, <1>6, <1>7, <1>8 DEF Next, AdminStep, Held

(* The invariant that the theorems below follow from holds throughout. *)
THEOREM Invariance == Spec => []Inv
<1>1. Init => Inv
  BY InvInit
<1>2. Inv /\ [Next]_vars => Inv'
  BY InvStep
<1> QED BY <1>1, <1>2, PTL DEF Spec

(* Every variable keeps its type, for any number of terminals and orderings. *)
THEOREM TypeCorrect == Spec => []TypeOK
<1>1. Inv => TypeOK
  BY DEF Inv, TypeInv
<1> QED BY <1>1, Invariance, PTL

(* No two terminals are told that the same number of an ordering is theirs. *)
THEOREM NumbersUnique == Spec => []NumberUnique
<1>1. Inv => NumberUnique
  BY DEF Inv
<1> QED BY <1>1, Invariance, PTL

(* A confirmation that was answered True stays in its session as long as redis
   has the session.                                                           *)
THEOREM ConfirmationsKept == Spec => []ConfirmKept
<1>1. Inv => ConfirmKept
  BY DEF Inv, WonInv, ConfirmKept, Kept
<1> QED BY <1>1, Invariance, PTL

-----------------------------------------------------------------------------
(* That TerminalOrder implements Numbering.  A terminal that has a number of an
   ordering does not wait in it, and who is about to get one does.            *)
Waiting(s) == \A m \in Macs, n \in Numbers : <<m, n>> \in s.given => m \notin s.macs

WaitInv ==
  /\ \A b \in Batches : Waiting(sessions[b])
  /\ \A m \in Macs : Writing(m) => Waiting(confirm[m].data)
  /\ \A m \in Macs : confirm[m].pc = "set" => m \in confirm[m].data.macs

OrderInv == Inv /\ WaitInv

(* Nothing is written: sessions may go, calls begin, wait for the lock, read and
   give up, and those that have read a session keep it.                       *)
Quiet ==
  /\ UNCHANGED <<batch, won>>
  /\ \A b \in Batches : sessions'[b] \in {sessions[b], NoSession}
  /\ \A m \in Macs : /\ Writing(m)' <=> Writing(m)
                     /\ Writing(m) => confirm'[m] = confirm[m]

\* A call has found the number free in the session it read.
Reads(m) ==
  LET s == sessions[confirm[m].batch] IN
  /\ confirm[m].pc = "get" /\ lock = m /\ lock' = m
  /\ confirm[m].batch \in 1..batch
  /\ s # NoSession /\ m \in s.macs
  /\ confirm'[m].pc = "set" /\ confirm'[m].batch = confirm[m].batch /\ confirm'[m].data = s
  /\ \A k \in Macs \ {m} : confirm'[k] = confirm[k]
  /\ UNCHANGED <<batch, won, sessions>>

\* A call writes its session back.
Writes(m) ==
  LET b == confirm[m].batch
      d == confirm[m].data
      s == sessions'[b]
  IN
  /\ confirm[m].pc = "set" /\ lock = m /\ lock' = m
  /\ b \in 1..batch /\ confirm[m].num \in Numbers /\ confirm[m].num >= Start
  /\ s \in Session /\ s.macs = d.macs \ {m} /\ s.given = d.given \cup {<<m, confirm[m].num>>}
  /\ \A c \in Batches \ {b} : sessions'[c] = sessions[c]
  /\ confirm'[m].pc = "tell" /\ confirm'[m].data = s
  /\ confirm'[m].batch = b /\ confirm'[m].num = confirm[m].num
  /\ \A k \in Macs \ {m} : confirm'[k] = confirm[k]
  /\ UNCHANGED <<batch, won>>

\* A call answers.
Answers(m) ==
  /\ confirm[m].pc = "tell" /\ lock = m
  /\ won' = won \cup {<<confirm[m].batch, m, confirm[m].num>>}
  /\ \A k \in Macs : ~Writing(k)'
  /\ UNCHANGED <<batch, sessions>>

Stops == UNCHANGED <<batch, won, sessions>> /\ \A k \in Macs : ~Writing(k)'

LEMMA StepKinds ==
  ASSUME Inv, Inv', [Next]_vars
  PROVE  Quiet \/ OrderSet \/ Stops \/ \E m \in Macs : Reads(m) \/ Writes(m) \/ Answers(m)
<1>a. IdleCall.pc = "idle"
  BY DEF IdleCall
<1>c. /\ sessions \in [Batches -> Session \cup {NoSession}] /\ confirm \in [Macs -> Call]
      /\ \A m \in Macs : Reading(m) => lock = m
      /\ \A m \in Macs : Reading(m) => confirm[m].batch \in 1..batch /\ confirm[m].num \in Numbers
      /\ 1..batch \subseteq Batches
  BY OrderAssumption DEF Inv, TypeInv, TypeOK, LockInv, CallsOK, Reading, Batches
<1>1. CASE \/ OrderBegin \/ OrderTell \/ CancelBegin \/ CancelTell
           \/ \E m \in Macs : Delete(m) \/ OrderQuery(m)
           \/ UNCHANGED vars
  <2>1. UNCHANGED <<sessions, confirm, won, batch>>
    BY <1>1 DEF OrderBegin, OrderTell, CancelBegin, CancelTell, Delete, OrderQuery, vars
  <2> QED BY <2>1 DEF Quiet, Writing
<1>2. CASE OrderClear \/ CancelDelete \/ CancelSweep \/ \E b \in Batches : Expire(b)
  <2>1. UNCHANGED <<confirm, won, batch>>
    BY <1>2 DEF OrderClear, CancelDelete, CancelSweep, Expire
  <2>2. \A b \in Batches : sessions'[b] \in {sessions[b], NoSession}
    BY <1>2, <1>c DEF OrderClear, CancelDelete, CancelSweep, Expire
  <2> QED BY <2>1, <2>2 DEF Quiet, Writing
<1>4. CASE Restart
  <2>1. UNCHANGED <<sessions, won, batch>> /\ \A m \in Macs : confirm'[m].pc = "idle"
    BY <1>4, <1>a DEF Restart
  <2> QED BY <2>1 DEF Stops, Writing
<1>5. ASSUME NEW m \in Macs, SendConfirm(m) \/ Acquire(m) \/ ReadRow(m) PROVE Quiet
  <2>1. /\ UNCHANGED <<sessions, won, batch>>
        /\ \A k \in Macs \ {m} : confirm'[k] = confirm[k]
    BY <1>5, <1>c DEF SendConfirm, Acquire, ReadRow
  <2>2. ~Writing(m)' /\ ~Writing(m)
    <3>1. confirm[m] \in Call
      BY <1>c
    <3>2. confirm'[m].pc \in {"sent", "row", "get", "idle"}
      BY ZenonT(60), <1>5, <1>a, <1>c, <3>1 DEF SendConfirm, Acquire, ReadRow, IdleCall, Call
    <3>3. confirm[m].pc \in {"idle", "sent", "row"}
      BY <1>5 DEF SendConfirm, Acquire, ReadRow
    <3> QED BY <3>2, <3>3 DEF Writing
  <2> QED BY <2>1, <2>2 DEF Quiet, Writing
<1>6. ASSUME NEW m \in Macs, Get(m) PROVE Quiet \/ Reads(m)
  <2> DEFINE s == sessions[confirm[m].batch]
  <2>1. CASE ~Refused(m, s) /\ confirm' = [confirm EXCEPT ![m].pc = "set", ![m].data = s]
             /\ UNCHANGED lock
    <3>1. confirm[m].pc = "get" /\ UNCHANGED <<sessions, batch, won>>
      BY <1>6 DEF Get
    <3>2. s # NoSession /\ m \in s.macs
      BY <2>1 DEF Refused
    <3>3. confirm'[m].pc = "set" /\ confirm'[m].batch = confirm[m].batch /\ confirm'[m].data = s
      <4>1. confirm[m] \in Call
        BY <1>c
      <4> HIDE DEF s
      <4> QED BY <1>c, <2>1, <4>1 DEF Call
    <3>4. \A k \in Macs \ {m} : confirm'[k] = confirm[k]
      BY <1>c, <2>1
    <3> QED BY <1>c, <2>1, <3>1, <3>2, <3>3, <3>4 DEF Reads, Reading
  <2>2. CASE confirm' = [confirm EXCEPT ![m] = IdleCall]
    <3>1. confirm[m].pc = "get" /\ UNCHANGED <<sessions, batch, won>>
      BY <1>6 DEF Get
    <3>2. confirm'[m].pc = "idle" /\ \A k \in Macs \ {m} : confirm'[k] = confirm[k]
      BY <1>a, <1>c, <2>2
    <3> QED BY <3>1, <3>2 DEF Quiet, Writing
  <2> QED BY <1>6, <2>1, <2>2 DEF Get
<1>7. ASSUME NEW m \in Macs, Set(m) PROVE Writes(m)
  <2> DEFINE s == TakenIn(m)
  <2>1. /\ confirm[m].pc = "set" /\ UNCHANGED <<batch, lock, won>>
        /\ sessions' = [sessions EXCEPT ![confirm[m].batch] = s]
        /\ confirm' = [confirm EXCEPT ![m].pc = "tell", ![m].data = s]
    BY <1>7 DEF Set
  <2>2. /\ lock = m /\ confirm[m].batch \in 1..batch /\ confirm[m].num \in Numbers
        /\ confirm[m].data \in Session /\ confirm[m].num >= Start
    BY <1>c, <2>1 DEF Reading, Inv, TypeInv, CallsOK, Writing
  <2>3. /\ s \in Session /\ s.macs = confirm[m].data.macs \ {m}
        /\ s.given = confirm[m].data.given \cup {<<m, confirm[m].num>>}
    BY <2>2, TakenInSession
  <2> HIDE DEF s
  <2>4. /\ sessions'[confirm[m].batch] = s
        /\ \A c \in Batches \ {confirm[m].batch} : sessions'[c] = sessions[c]
    BY <1>c, <2>1, <2>2
  <2>5. /\ confirm'[m].pc = "tell" /\ confirm'[m].data = s
        /\ confirm'[m].batch = confirm[m].batch /\ confirm'[m].num = confirm[m].num
    <3>1. confirm[m] \in Call
      BY <1>c
    <3> QED BY <1>c, <2>1, <3>1 DEF Call
  <2>6. \A k \in Macs \ {m} : confirm'[k] = confirm[k]
    BY <1>c, <2>1
  <2> QED BY <2>1, <2>2, <2>3, <2>4, <2>5, <2>6 DEF Writes
<1>8. ASSUME NEW m \in Macs, Tell(m) PROVE Answers(m)
  <2>1. /\ confirm[m].pc = "tell" /\ UNCHANGED <<batch, sessions>>
        /\ won' = won \cup {<<confirm[m].batch, m, confirm[m].num>>}
        /\ confirm' = [confirm EXCEPT ![m] = IdleCall]
    BY <1>8 DEF Tell
  <2>2. lock = m
    BY <1>c, <2>1 DEF Reading
  <2>3. confirm'[m].pc = "idle" /\ \A k \in Macs \ {m} : confirm'[k] = confirm[k]
    BY <1>a, <1>c, <2>1
  <2>4. \A k \in Macs \ {m} : ~Writing(k)
    BY <1>c, <2>2 DEF Reading, Writing
  <2>5. \A k \in Macs : ~Writing(k)'
    BY <2>3, <2>4 DEF Writing
  <2> QED BY <2>1, <2>2, <2>5 DEF Answers
<1> QED
  BY <1>1, <1>2, <1>4, <1>5, <1>6, <1>7, <1>8 DEF Next, AdminStep, Held

LEMMA OrderInvInit == Init => OrderInv
<1> SUFFICES ASSUME Init PROVE WaitInv
  BY InvInit DEF OrderInv
<1>1. NoSession.given = {}
  BY DEF NoSession
<1>2. \A m \in Macs : confirm[m].pc = "idle"
  BY DEF Init, IdleCall
<1> QED BY <1>1, <1>2 DEF Init, WaitInv, Waiting, Writing

\* The session of an ordering that begins
LEMMA OrderSetSession ==
  ASSUME Inv, OrderSet
  PROVE  /\ batch + 1 \in Batches /\ batch' = batch + 1
         /\ sessions'[batch + 1] # NoSession /\ sessions'[batch + 1].given = {}
         /\ \A b \in Batches \ {batch + 1} : sessions'[b] = sessions[b]
         /\ UNCHANGED <<confirm, lock, won>>
<1> DEFINE s == [kept |-> "day", macs |-> admin.macs, given |-> {}]
<1>1. /\ sessions' = [sessions EXCEPT ![batch + 1] = s] /\ batch' = batch + 1
      /\ UNCHANGED <<confirm, lock, won>>
  BY DEF OrderSet
<1>2. batch + 1 \in Batches /\ sessions \in [Batches -> Session \cup {NoSession}]
  BY OrderAssumption DEF OrderSet, Inv, TypeInv, TypeOK, AdminOK, Batches
<1>3. s.given = {} /\ s # NoSession
  BY DEF NoSession
<1> HIDE DEF s
<1> QED BY <1>1, <1>2, <1>3

LEMMA OrderInvStep == OrderInv /\ [Next]_vars => OrderInv'
<1> SUFFICES ASSUME OrderInv, [Next]_vars PROVE OrderInv'
  OBVIOUS
<1>1. Inv /\ Inv' /\ WaitInv
  BY InvStep DEF OrderInv
<1> SUFFICES WaitInv'
  BY <1>1 DEF OrderInv
<1>2. /\ Waiting(NoSession)
      /\ 1..batch \subseteq Batches
  BY <1>1, OrderAssumption DEF Waiting, NoSession, Inv, TypeInv, TypeOK, Batches
<1>3. CASE Quiet
  <2>1. \A b \in Batches : Waiting(sessions'[b])
    BY <1>1, <1>2, <1>3 DEF Quiet, WaitInv
  <2>2. \A m \in Macs : Writing(m)' => Writing(m) /\ confirm'[m] = confirm[m]
    BY <1>3 DEF Quiet
  <2>3. \A m \in Macs : Writing(m)' => Waiting(confirm'[m].data)
    BY <1>1, <2>2 DEF WaitInv
  <2>4. \A m \in Macs : confirm'[m].pc = "set" => m \in confirm'[m].data.macs
    BY <1>1, <2>2 DEF WaitInv, Writing
  <2> QED BY <2>1, <2>3, <2>4 DEF WaitInv
<1>4. CASE OrderSet
  <2>1. Waiting(sessions'[batch + 1])
    BY <1>1, <1>4, OrderSetSession DEF Waiting
  <2>2. \A b \in Batches : Waiting(sessions'[b])
    BY <1>1, <1>4, <2>1, OrderSetSession DEF WaitInv
  <2>3. UNCHANGED confirm
    BY <1>1, <1>4, OrderSetSession
  <2> QED BY <1>1, <2>2, <2>3 DEF WaitInv, Writing
<1>5. CASE Stops
  <2>1. UNCHANGED sessions /\ \A m \in Macs : ~Writing(m)'
    BY <1>5 DEF Stops
  <2>2. \A b \in Batches : Waiting(sessions'[b])
    BY <1>1, <2>1 DEF WaitInv
  <2> QED BY <2>1, <2>2 DEF WaitInv, Writing
<1>6. ASSUME NEW m \in Macs, Reads(m) PROVE WaitInv'
  BY <1>1, <1>2, <1>6 DEF Reads, WaitInv, Writing
<1>7. ASSUME NEW m \in Macs, Writes(m) PROVE WaitInv'
  <2>1. PICK s : s = sessions'[confirm[m].batch]
    OBVIOUS
  <2>2. Waiting(s)
    <3>1. /\ Waiting(confirm[m].data) /\ s.macs = confirm[m].data.macs \ {m}
          /\ s.given = confirm[m].data.given \cup {<<m, confirm[m].num>>}
      BY <1>1, <1>7, <2>1 DEF Writes, WaitInv, Writing
    <3> QED BY <3>1 DEF Waiting
  <2>3. /\ \A c \in Batches : sessions'[c] \in {s, sessions[c]}
        /\ confirm'[m].pc = "tell" /\ confirm'[m].data = s
        /\ \A k \in Macs \ {m} : confirm'[k] = confirm[k]
    BY <1>7, <2>1 DEF Writes
  <2>4. \A c \in Batches : Waiting(sessions'[c])
    BY <1>1, <2>2, <2>3 DEF WaitInv
  <2> QED BY <1>1, <2>2, <2>3, <2>4 DEF WaitInv, Writing
<1>8. ASSUME NEW m \in Macs, Answers(m) PROVE WaitInv'
  BY <1>1, <1>8 DEF Answers, WaitInv, Writing
<1> QED BY <1>1, <1>3, <1>4, <1>5, <1>6, <1>7, <1>8, StepKinds

\* What Given and Open are, in terms of the calls
OpenIs ==
  /\ \A b \in 1..batch : b \in Open <=>
        \/ sessions[b] # NoSession
        \/ \E m \in Macs : confirm[m].pc = "set" /\ confirm[m].batch = b
  /\ Given = [b \in Open |-> Given[b]] /\ DOMAIN Given = Open
  /\ Open \subseteq 1..batch /\ 1..batch \subseteq Batches
  /\ \A b \in Open : sessions[b] # NoSession => Given[b] = sessions[b].given
  /\ \A m \in Macs : confirm[m].pc = "set" =>
        /\ lock = m /\ confirm[m].batch \in Open
        /\ Given[confirm[m].batch] = confirm[m].data.given

LEMMA OpenGiven == OrderInv => OpenIs
<1> SUFFICES ASSUME OrderInv PROVE OpenIs
  OBVIOUS
<1>1. /\ lock \in Macs \cup {None} /\ None \notin Macs /\ 1..batch \subseteq Batches
      /\ \A m \in Macs : confirm[m].pc = "set" =>
            /\ lock = m /\ confirm[m].batch \in 1..batch
            /\ sessions[confirm[m].batch] \in {confirm[m].data, NoSession}
  <2>1. /\ lock \in Macs \cup {None} /\ None \notin Macs /\ 1..batch \subseteq Batches
    BY OrderAssumption DEF OrderInv, Inv, TypeInv, TypeOK, Batches
  <2>2. \A m \in Macs : confirm[m].pc = "set" => lock = m /\ confirm[m].batch \in 1..batch
    BY DEF OrderInv, Inv, TypeInv, LockInv, CallsOK, Reading
  <2>3. \A m \in Macs : confirm[m].pc = "set"
          => sessions[confirm[m].batch] \in {confirm[m].data, NoSession}
    BY DEF OrderInv, Inv, CallInv, Writing
  <2> QED BY <2>1, <2>2, <2>3
<1>2. \A b \in 1..batch :
        Copied(b) <=> \E m \in Macs : confirm[m].pc = "set" /\ confirm[m].batch = b
  BY <1>1 DEF Copied
<1>3. Given = [b \in Open |-> Given[b]] /\ DOMAIN Given = Open /\ Open \subseteq 1..batch
  BY DEF Given, Open
<1>4. \A b \in Open : sessions[b] # NoSession => Given[b] = sessions[b].given
  BY DEF Given
<1>5. ASSUME NEW m \in Macs, confirm[m].pc = "set"
      PROVE  /\ lock = m /\ confirm[m].batch \in Open
             /\ Given[confirm[m].batch] = confirm[m].data.given
  <2>1. confirm[m].batch \in Open
    BY <1>1, <1>2, <1>5 DEF Open
  <2>2. CASE sessions[confirm[m].batch] # NoSession
    BY <1>1, <1>4, <1>5, <2>1, <2>2
  <2>3. CASE sessions[confirm[m].batch] = NoSession
    BY <1>1, <1>5, <2>1, <2>3 DEF Given
  <2> QED BY <1>1, <1>5, <2>1, <2>2, <2>3
<1> QED BY <1>1, <1>2, <1>3, <1>4, <1>5 DEF OpenIs, Open

LEMMA OpenGivenNext == OrderInv' => OpenIs'
BY OpenGiven, PTL

\* Sessions go, and copies of them: the orderings that have neither any more end.
LEMMA OrderingsEnd ==
  ASSUME OrderInv, OrderInv', UNCHANGED <<batch, won, Due>>,
         \A b \in Batches : sessions'[b] \in {sessions[b], NoSession},
         \A m \in Macs : confirm'[m].pc = "set" => confirm'[m] = confirm[m]
  PROVE  [Orderings!Next]_<<batch, Given, Due, won>>
<1>1. Open' \subseteq Open
  BY OpenGiven, OpenGivenNext DEF OpenIs
<1>2. ASSUME NEW b \in Open' PROVE Given'[b] = Given[b]
  <2>1. b \in 1..batch /\ b \in Batches /\ b \in Open
    BY <1>1, OpenGiven, OpenGivenNext DEF OpenIs
  <2>2. CASE sessions'[b] # NoSession
    BY <1>2, <2>1, <2>2, OpenGiven, OpenGivenNext DEF OpenIs
  <2>3. CASE sessions'[b] = NoSession
    <3>1. PICK m \in Macs : confirm'[m].pc = "set" /\ confirm'[m].batch = b
      BY <1>2, <2>1, <2>3, OpenGiven, OpenGivenNext DEF OpenIs
    <3> QED BY <3>1, OpenGiven, OpenGivenNext DEF OpenIs
  <2> QED BY <2>2, <2>3
<1>3. Given' = [b \in Open' |-> Given[b]]
  BY <1>2, OpenGiven, OpenGivenNext DEF OpenIs
<1>4. CASE Open' = Open
  <2>1. Given' = Given
    BY <1>3, <1>4, OpenGiven, OpenGivenNext DEF OpenIs
  <2> QED BY <2>1
<1>5. CASE Open' # Open
  <2>1. DOMAIN Given = Open /\ DOMAIN Given' = Open'
    BY OpenGiven, OpenGivenNext DEF OpenIs
  <2>2. Orderings!End
    BY <1>1, <1>3, <1>5, <2>1 DEF Orderings!End, Orderings!Open
  <2> QED BY <2>2 DEF Orderings!Next
<1> QED BY <1>4, <1>5

\* Every step hands out, answers, begins or ends as Numbering does, or changes nothing.
LEMMA OrderingsStep ==
  OrderInv /\ [Next]_vars => [Orderings!Next]_<<batch, Given, Due, won>>
<1> SUFFICES ASSUME OrderInv, [Next]_vars
             PROVE  [Orderings!Next]_<<batch, Given, Due, won>>
  OBVIOUS
<1>1. OrderInv' /\ Inv /\ Inv'
  BY OrderInvStep DEF OrderInv
<1>2. /\ \A m \in Macs : Reading(m) => lock = m
      /\ won \subseteq Batches \X Macs \X Numbers /\ batch \in Nat
  BY <1>1 DEF Inv, LockInv, TypeInv, TypeOK
<1>3. CASE Quiet
  <2>1. Due' = Due
    BY <1>3 DEF Quiet, Due, Writing
  <2>2. \A m \in Macs : confirm'[m].pc = "set" => confirm'[m] = confirm[m]
    BY <1>3 DEF Quiet, Writing
  <2> QED BY <1>1, <1>3, <2>1, <2>2, OrderingsEnd DEF Quiet
<1>4. CASE OrderSet
  <2>1. Due' = Due
    BY <1>1, <1>4, OrderSetSession DEF Due
  <2>2. batch + 1 \in Open' /\ batch + 1 \notin Open /\ Open' = Open \cup {batch + 1}
    <3>1. batch + 1 \in 1..(batch + 1) /\ 1..(batch + 1) = 1..batch \cup {batch + 1} /\ batch + 1 \notin 1..batch
      BY <1>2
    <3>2. \A b \in 1..batch : sessions'[b] = sessions[b] /\ confirm' = confirm
      BY <1>1, <1>4, <3>1, OrderSetSession, OpenGiven, OpenGivenNext DEF OpenIs
    <3> QED BY <1>1, <1>4, <3>1, <3>2, OrderSetSession, OpenGiven, OpenGivenNext DEF OpenIs
  <2>3. \A b \in Open : Given'[b] = Given[b]
    BY <1>1, <1>4, <2>2, OrderSetSession, OpenGiven, OpenGivenNext DEF OpenIs, Given
  <2>4. Given'[batch + 1] = {}
    BY <1>1, <1>4, <2>2, OrderSetSession, OpenGiven, OpenGivenNext DEF OpenIs
  <2>5. Given' = [b \in Open \cup {batch'} |-> IF b = batch' THEN {} ELSE Given[b]]
    BY <1>1, <1>4, <2>2, <2>3, <2>4, OrderSetSession, OpenGiven, OpenGivenNext DEF OpenIs
  <2>6. Orderings!Begin
    BY <1>1, <1>4, <2>1, <2>5, OrderSetSession, OpenGiven, OpenGivenNext DEF OpenIs, Orderings!Begin, Orderings!Open
  <2> QED BY <2>6 DEF Orderings!Next
<1>5. CASE Stops
  <2>1. Due' = {} /\ \A m \in Macs : confirm'[m].pc # "set"
    BY <1>5 DEF Stops, Due, Writing
  <2>2. CASE \E m \in Macs : confirm[m].pc = "tell"
    <3>1. PICK m \in Macs : confirm[m].pc = "tell"
      BY <2>2
    <3>2. \A k \in Macs : k # m => confirm[k].pc \notin {"set", "tell"}
      BY <1>2, <3>1 DEF Reading
    <3>3. PICK x : x = <<confirm[m].batch, m, confirm[m].num>>
      OBVIOUS
    <3>4. Due = {x}
      BY <3>1, <3>2, <3>3 DEF Due
    <3>5. Given' = Given
      <4>1. \A k \in Macs : confirm[k].pc # "set"
        BY <3>1, <3>2
      <4>2. UNCHANGED <<batch, sessions>>
        BY <1>5 DEF Stops
      <4>3. Open' = Open
        BY <1>1, <2>1, <4>1, <4>2, OpenGiven, OpenGivenNext DEF OpenIs
      <4>4. \A b \in Open : Given'[b] = Given[b]
        BY <1>1, <2>1, <4>1, <4>2, <4>3, OpenGiven, OpenGivenNext DEF OpenIs
      <4> QED BY <1>1, <4>3, <4>4, OpenGiven, OpenGivenNext DEF OpenIs
    <3>6. Orderings!Lose(x)
      BY <1>5, <2>1, <3>4, <3>5 DEF Orderings!Lose, Stops
    <3> QED BY <3>4, <3>6 DEF Orderings!Next
  <2>3. CASE \A m \in Macs : confirm[m].pc # "tell"
    <3>1. Due' = Due
      BY <2>1, <2>3 DEF Due
    <3> QED BY <1>1, <1>5, <2>1, <3>1, OrderingsEnd DEF Stops
  <2> QED BY <2>2, <2>3
<1>6. ASSUME NEW m \in Macs, Reads(m) PROVE UNCHANGED <<batch, Given, Due, won>>
  <2>1. Due' = Due
    BY <1>6 DEF Reads, Due
  <2>2. PICK b : b = confirm[m].batch
    OBVIOUS
  <2>3. \A k \in Macs : confirm[k].pc # "set"
    BY <1>2, <1>6 DEF Reads, Reading
  <2>4. Open' = Open
    <3>1. \A k \in Macs : confirm'[k].pc = "set" => k = m /\ confirm'[k].batch = b
      BY <1>6, <2>2, <2>3 DEF Reads
    <3>2. b \in 1..batch /\ sessions[b] # NoSession /\ UNCHANGED <<batch, sessions>>
      BY <1>6, <2>2 DEF Reads
    <3> QED BY <1>1, <2>3, <3>1, <3>2, OpenGiven, OpenGivenNext DEF OpenIs
  <2>5. \A c \in Open : Given'[c] = Given[c]
    <3>1. \A c \in Open : sessions[c] # NoSession
      BY <2>3, OpenGiven, OpenGivenNext DEF OpenIs
    <3>2. UNCHANGED sessions
      BY <1>6 DEF Reads
    <3> QED BY <1>1, <2>4, <3>1, <3>2, OpenGiven, OpenGivenNext DEF OpenIs
  <2> QED BY <1>1, <1>6, <2>1, <2>4, <2>5, OpenGiven, OpenGivenNext DEF OpenIs, Reads
<1>7. ASSUME NEW m \in Macs, Writes(m) PROVE Orderings!Next
  <2>1. PICK b, n : b = confirm[m].batch /\ n = confirm[m].num
    OBVIOUS
  <2>2. /\ b \in Open /\ Given[b] = confirm[m].data.given /\ b \in 1..batch /\ b \in Batches
        /\ n \in Numbers /\ n >= Start
    BY <1>7, <2>1, OpenGiven, OpenGivenNext DEF OpenIs, Writes
  <2>3. \A k \in Macs \ {m} : ~Writing(k) /\ ~Writing(k)'
    BY <1>2, <1>7 DEF Writes, Reading, Writing
  <2>4. Due' = Due \cup {<<b, m, n>>}
    BY <1>7, <2>1, <2>3 DEF Writes, Due, Writing
  <2>5. \A k \in Macs : confirm'[k].pc # "set"
    BY <1>7, <2>3 DEF Writes, Writing
  <2>6. Open' = Open
    <3>1. \A k \in Macs : confirm[k].pc = "set" => confirm[k].batch = b
      BY <2>1, <2>3 DEF Writing
    <3>2. /\ sessions'[b] # NoSession /\ UNCHANGED batch
          /\ \A c \in Batches \ {b} : sessions'[c] = sessions[c]
      BY <1>7, <2>1, SessionFacts DEF Writes
    <3> QED BY <1>1, <2>2, <2>5, <3>1, <3>2, OpenGiven, OpenGivenNext DEF OpenIs
  <2>7. Given'[b] = Given[b] \cup {<<m, n>>}
    <3>1. sessions'[b] # NoSession /\ sessions'[b].given = confirm[m].data.given \cup {<<m, n>>}
      BY <1>7, <2>1, SessionFacts DEF Writes
    <3> QED BY <1>1, <2>2, <2>6, <3>1, OpenGiven, OpenGivenNext DEF OpenIs
  <2>8. \A c \in Open \ {b} : Given'[c] = Given[c]
    <3>1. \A c \in Open \ {b} : sessions'[c] = sessions[c] /\ sessions[c] # NoSession
      BY <1>7, <2>1, <2>3, OpenGiven, OpenGivenNext DEF OpenIs, Writes, Writing
    <3> QED BY <1>1, <2>6, <3>1, OpenGiven, OpenGivenNext DEF OpenIs
  <2>9. Given' = [Given EXCEPT ![b] = @ \cup {<<m, n>>}]
    BY <1>1, <2>2, <2>6, <2>7, <2>8, OpenGiven, OpenGivenNext DEF OpenIs
  <2>10. \A k \in Macs : <<k, n>> \notin Given[b]
    BY <1>1, <1>7, <2>1, <2>2 DEF Writes, Inv, CallInv, Writing
  <2>11. \A l \in Numbers : <<m, l>> \notin Given[b]
    BY <1>7, <2>2 DEF Writes, OrderInv, WaitInv, Waiting, Writing
  <2>12. Orderings!Give(b, m, n)
    BY <1>7, <2>2, <2>4, <2>9, <2>10, <2>11 DEF Orderings!Give, Writes
  <2> QED BY <2>2, <2>12, OpenGiven, OpenGivenNext DEF OpenIs, Orderings!Next, Orderings!Open
<1>8. ASSUME NEW m \in Macs, Answers(m) PROVE Orderings!Next
  <2>1. PICK x : x = <<confirm[m].batch, m, confirm[m].num>>
    OBVIOUS
  <2>2. \A k \in Macs : (confirm[k].pc = "tell" => k = m) /\ confirm[k].pc # "set"
    BY <1>2, <1>8 DEF Answers, Reading
  <2>3. Due = {x} /\ Due' = {} /\ \A k \in Macs : confirm'[k].pc # "set"
    BY <1>8, <2>1, <2>2 DEF Answers, Due, Writing
  <2>4. UNCHANGED <<batch, sessions>>
    BY <1>8 DEF Answers
  <2>5. Open' = Open
    BY <1>1, <2>2, <2>3, <2>4, OpenGiven, OpenGivenNext DEF OpenIs
  <2>6. \A b \in Open : Given'[b] = Given[b]
    BY <1>1, <2>2, <2>4, <2>5, OpenGiven, OpenGivenNext DEF OpenIs
  <2>7. Given' = Given
    BY <1>1, <2>5, <2>6, OpenGiven, OpenGivenNext DEF OpenIs
  <2>8. Orderings!Answer(x)
    BY <1>8, <2>1, <2>3, <2>7 DEF Orderings!Answer, Answers
  <2> QED BY <2>3, <2>8 DEF Orderings!Next
<1> QED BY <1>1, <1>3, <1>4, <1>5, <1>6, <1>7, <1>8, StepKinds

(* Numbers are handed out as if each confirmation were taken in one step: to a
   terminal that has none of the ordering and nobody else the number, answered
   only when it was taken, and never in an ordering that has ended, that is,
   whose session is gone and cannot be brought back by the call with the lock. *)
THEOREM Implements == Spec => ImplementsNumbering
<1>1. Init => Orderings!Init
  <2> SUFFICES ASSUME Init PROVE Orderings!Init
    OBVIOUS
  <2>1. \A m \in Macs : confirm[m].pc = "idle"
    BY DEF Init, IdleCall
  <2>2. Due = {} /\ Open = {} /\ batch = 0 /\ won = {}
    <3>1. Open \subseteq 1..0
      BY DEF Init, Open
    <3> QED BY <2>1, <3>1 DEF Init, Due
  <2>3. Given = [b \in {} |-> {}]
    BY <2>2 DEF Given
  <2> QED BY <2>2, <2>3 DEF Orderings!Init
<1>2. OrderInv /\ [Next]_vars => [Orderings!Next]_<<batch, Given, Due, won>>
  BY OrderingsStep
<1> QED BY <1>1, <1>2, OrderInvInit, OrderInvStep, PTL
        DEF Spec, ImplementsNumbering, Orderings!Spec, Orderings!vars
=============================================================================
