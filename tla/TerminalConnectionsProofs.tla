--------------------- MODULE TerminalConnectionsProofs ---------------------
(***************************************************************************)
(* Proofs about TerminalConnections, for any terminals and tokens: the     *)
(* three threads leave the tables well formed, and a round of              *)
(* do_status_check never disconnects a terminal that pings.                *)
(***************************************************************************)
EXTENDS TerminalConnections, SequenceTheorems, TLAPS

USE NoneAssumption

Terms == [pc : {"off", "wait", "named", "known", "login", "up"}, token : Tokens \cup {None}]
Conns == [state : {"none", "open", "dead", "closed"}, mac : Macs \cup {None}]
Logins == [pc : {"idle", "sent", "row"}, token : Tokens \cup {None}]
Closers == {IdleCloser} \cup [pc : {"pop", "row"}, token : Tokens, mac : Macs]
Checks == [pc : {"idle", "rows", "lost", "each", "row"}, macs : Seq(Macs),
           clients : SUBSET Tokens, lost : SUBSET Macs]

\* The keys of a dictionary differ.
Distinct(s) == \A i, j \in DOMAIN s : s[i] = s[j] => i = j

KeysInv ==
  /\ {m \in Macs : mac_token[m] # None} = Range(keys)
  /\ Distinct(keys) /\ Distinct(check.macs)

HasToken(x, idle) == IF x.pc = idle THEN x.token = None ELSE x.token \in Tokens

Typed ==
  /\ term \in [Macs -> Terms] /\ \A m \in Macs : HasToken(term[m], "off")
  /\ conn \in [Tokens -> Conns]
  /\ events \in Seq({"in", "out"} \X Tokens)
  /\ tmp \subseteq Tokens /\ token_client \subseteq Tokens
  /\ mac_token \in [Macs -> Tokens \cup {None}] /\ keys \in Seq(Macs)
  /\ token_status \in [Tokens -> BOOLEAN \cup {None}]
  /\ row \subseteq Macs
  /\ login \in [Macs -> Logins] /\ \A m \in Macs : HasToken(login[m], "idle")
  /\ closer \in Closers /\ check \in Checks

TypeInv == Typed /\ KeysInv

\* A key that is entered comes last.
LEMMA KeyEntered ==
  ASSUME NEW s \in Seq(Macs), Distinct(s), NEW m \in Macs, m \notin Range(s)
  PROVE /\ Append(s, m) \in Seq(Macs) /\ Distinct(Append(s, m))
        /\ Range(Append(s, m)) = Range(s) \cup {m}
<1>1. /\ Append(s, m) \in Seq(Macs) /\ Len(Append(s, m)) = Len(s) + 1
      /\ \A i \in 1..Len(s) : Append(s, m)[i] = s[i]
      /\ Append(s, m)[Len(s) + 1] = m
  BY AppendProperties
<1>2. /\ Len(s) \in Nat /\ DOMAIN s = 1..Len(s)
      /\ DOMAIN Append(s, m) = 1..(Len(s) + 1)
  BY <1>1, LenProperties
<1> HIDE DEF Distinct
<1>3. Distinct(Append(s, m))
  <2> SUFFICES ASSUME NEW i \in 1..(Len(s) + 1), NEW j \in 1..(Len(s) + 1),
                      Append(s, m)[i] = Append(s, m)[j]
               PROVE i = j
    BY <1>2 DEF Distinct
  <2>1. \A k \in 1..Len(s) : s[k] # m BY <1>2 DEF Range
  <2> QED BY <1>1, <1>2, <2>1 DEF Distinct
<1>4. Range(Append(s, m)) = Range(s) \cup {m}
  <2>1. \A k \in 1..(Len(s) + 1) : k \in 1..Len(s) \/ k = Len(s) + 1 BY <1>2
  <2>2. \A k \in 1..Len(s) : k \in 1..(Len(s) + 1) BY <1>2
  <2>3. Len(s) + 1 \in 1..(Len(s) + 1) BY <1>2
  <2> QED BY <1>1, <1>2, <2>1, <2>2, <2>3 DEF Range
<1> QED BY <1>1, <1>3, <1>4

\* A key that is removed leaves the others in their order.
LEMMA KeyRemoved ==
  ASSUME NEW s \in Seq(Macs), Distinct(s), NEW i \in DOMAIN s, NEW t,
         t = SubSeq(s, 1, i - 1) \o SubSeq(s, i + 1, Len(s))
  PROVE t \in Seq(Macs) /\ Distinct(t) /\ Range(t) = Range(s) \ {s[i]}
<1>1. /\ Len(s) \in Nat /\ DOMAIN s = 1..Len(s) /\ \A k \in 1..Len(s) : s[k] \in Macs
      /\ i \in 1..Len(s)
  BY LenProperties, ElementOfSeq
<1>2. PICK a : a = SubSeq(s, 1, i - 1) OBVIOUS
<1>3. PICK b : b = SubSeq(s, i + 1, Len(s)) OBVIOUS
<1>4. /\ a \in Seq(Macs) /\ Len(a) = i - 1 /\ \A k \in 1..(i - 1) : a[k] = s[k]
  <2>1. \A k \in 1..(i - 1) : s[k] \in Macs BY <1>1
  <2>2. 1 \in Int /\ i - 1 \in Int BY <1>1
  <2>3. /\ a \in Seq(Macs) /\ Len(a) = IF 1 <= i - 1 THEN i - 1 - 1 + 1 ELSE 0
        /\ \A k \in 1..(i - 1 - 1 + 1) : a[k] = s[1 + k - 1]
    BY <1>2, <2>1, <2>2, SubSeqProperties
  <2> QED BY <1>1, <2>3
<1>5. /\ b \in Seq(Macs) /\ Len(b) = Len(s) - i /\ \A k \in 1..(Len(s) - i) : b[k] = s[i + k]
  <2>1. \A k \in (i + 1)..Len(s) : s[k] \in Macs BY <1>1
  <2>2. i + 1 \in Int /\ Len(s) \in Int BY <1>1
  <2>3. /\ b \in Seq(Macs)
        /\ Len(b) = IF i + 1 <= Len(s) THEN Len(s) - (i + 1) + 1 ELSE 0
        /\ \A k \in 1..(Len(s) - (i + 1) + 1) : b[k] = s[i + 1 + k - 1]
    BY <1>3, <2>1, <2>2, SubSeqProperties
  <2>4. Len(b) = Len(s) - i BY <1>1, <2>3
  <2>5. ASSUME NEW k \in 1..(Len(s) - i) PROVE b[k] = s[i + k]
    <3>1. k \in 1..(Len(s) - (i + 1) + 1) /\ i + 1 + k - 1 = i + k BY <1>1
    <3>2. b[k] = s[i + 1 + k - 1] BY <2>3, <3>1
    <3> QED BY <3>1, <3>2
  <2> QED BY <2>3, <2>4, <2>5
<1>6. t \in Seq(Macs) /\ Len(t) = Len(a) + Len(b)
      /\ \A k \in 1..(Len(a) + Len(b)) : t[k] = IF k <= Len(a) THEN a[k] ELSE b[k - Len(a)]
  <2>1. t = a \o b BY <1>2, <1>3
  <2>2. a \in Seq(Macs) /\ b \in Seq(Macs) BY <1>4, <1>5
  <2> QED BY <2>1, <2>2, ConcatProperties
<1>7. Len(t) = Len(s) - 1 /\ DOMAIN t = 1..(Len(s) - 1)
      /\ \A k \in 1..(Len(s) - 1) : t[k] = IF k < i THEN s[k] ELSE s[k + 1]
  <2>1. Len(t) = Len(s) - 1 /\ DOMAIN t = 1..(Len(s) - 1)
    BY <1>1, <1>4, <1>5, <1>6, LenProperties
  <2>2. ASSUME NEW k \in 1..(Len(s) - 1) PROVE t[k] = IF k < i THEN s[k] ELSE s[k + 1]
    <3>a. /\ Len(a) = i - 1 /\ k \in 1..(Len(a) + Len(b)) /\ k \in Int /\ i \in Int
          /\ k <= Len(a) <=> k < i
      BY <1>1, <1>4, <1>5
    <3>b. t[k] = IF k <= Len(a) THEN a[k] ELSE b[k - Len(a)] BY <3>a, <1>6
    <3>1. CASE k < i
      <4>1. k \in 1..(i - 1) BY <3>1, <3>a
      <4> QED BY <3>1, <3>a, <3>b, <4>1, <1>4
    <3>2. CASE ~(k < i)
      <4>1. k - (i - 1) \in 1..(Len(s) - i) BY <3>2, <1>1
      <4>2. t[k] = b[k - (i - 1)] BY <3>2, <3>a, <3>b
      <4>3. b[k - (i - 1)] = s[i + (k - (i - 1))] BY <4>1, <1>5
      <4>4. i + (k - (i - 1)) = k + 1 BY <1>1
      <4> QED BY <3>2, <4>2, <4>3, <4>4
    <3> QED BY <3>1, <3>2
  <2> QED BY <2>1, <2>2
<1>d. \A j, k \in 1..Len(s) : s[j] = s[k] => j = k BY <1>1 DEF Distinct
<1>8. Distinct(t)
  <2> SUFFICES ASSUME NEW j \in 1..(Len(s) - 1), NEW k \in 1..(Len(s) - 1), t[j] = t[k]
               PROVE j = k
    BY <1>7 DEF Distinct
  <2>1. /\ j \in 1..Len(s) /\ k \in 1..Len(s) /\ j \in Int /\ k \in Int /\ i \in Int
        /\ j + 1 \in 1..Len(s) /\ k + 1 \in 1..Len(s)
    BY <1>1
  <2>2. t[j] = s[IF j < i THEN j ELSE j + 1] /\ t[k] = s[IF k < i THEN k ELSE k + 1]
    BY <1>7
  <2>3. (IF j < i THEN j ELSE j + 1) = (IF k < i THEN k ELSE k + 1) BY <1>d, <2>1, <2>2
  <2> QED BY <2>1, <2>3
<1>9. Range(t) = Range(s) \ {s[i]}
  <2>1. ASSUME NEW k \in 1..(Len(s) - 1) PROVE t[k] \in Range(s) \ {s[i]}
    <3>1. k \in 1..Len(s) /\ k + 1 \in 1..Len(s) /\ k \in Int /\ i \in Int BY <1>1
    <3>2. CASE k < i
      <4>1. k # i /\ t[k] = s[k] BY <1>7, <3>1, <3>2
      <4> QED BY <1>1, <1>d, <3>1, <4>1 DEF Range
    <3>3. CASE ~(k < i)
      <4>1. k + 1 # i BY <3>1, <3>3
      <4>2. t[k] = s[k + 1] BY <1>7, <3>3
      <4> QED BY <1>1, <1>d, <3>1, <4>1, <4>2 DEF Range
    <3> QED BY <3>2, <3>3
  <2>2. ASSUME NEW k \in 1..Len(s), s[k] # s[i] PROVE s[k] \in Range(t)
    <3>0. \A j \in DOMAIN t : t[j] \in Range(t) BY DEF Range
    <3>1. CASE k < i
      <4>1. k \in DOMAIN t /\ t[k] = s[k] BY <1>1, <1>7, <3>1
      <4> QED BY <4>1, <3>0
    <3>2. CASE ~(k < i)
      <4>1. k # i BY <2>2
      <4>2. k - 1 \in 1..(Len(s) - 1) /\ ~(k - 1 < i) /\ k - 1 + 1 = k BY <1>1, <3>2, <4>1
      <4>3. PICK j : j = k - 1 OBVIOUS
      <4>4. t[j] = s[k] /\ j \in DOMAIN t BY <1>7, <4>2, <4>3
      <4> QED BY <4>4, <3>0
    <3> QED BY <3>1, <3>2
  <2>3. Range(t) \subseteq Range(s) \ {s[i]}
    <3> SUFFICES ASSUME NEW x \in Range(t) PROVE x \in Range(s) \ {s[i]}
      OBVIOUS
    <3>1. PICK k \in 1..(Len(s) - 1) : x = t[k] BY <1>7 DEF Range
    <3>2. t[k] \in Range(s) \ {s[i]} BY <2>1
    <3> QED BY <3>1, <3>2
  <2>4. Range(s) \ {s[i]} \subseteq Range(t)
    <3>1. \A x \in Range(s) : \E k \in 1..Len(s) : x = s[k] BY <1>1 DEF Range
    <3> QED BY <2>2, <3>1
  <2> QED BY <2>3, <2>4
<1> QED BY <1>6, <1>8, <1>9

\* The first of the keys that a round has listed is done.
LEMMA KeyDone ==
  ASSUME NEW s \in Seq(Macs), Distinct(s), s # <<>>
  PROVE /\ Tail(s) \in Seq(Macs) /\ Distinct(Tail(s)) /\ Head(s) \in Range(s)
        /\ Range(Tail(s)) = Range(s) \ {Head(s)} /\ Head(s) \in Macs
<1>1. /\ Tail(s) \in Seq(Macs) /\ Len(Tail(s)) = Len(s) - 1
      /\ \A i \in 1..Len(Tail(s)) : Tail(s)[i] = s[i + 1]
      /\ Head(s) \in Macs /\ Head(s) = s[1]
  BY HeadTailProperties
<1>2. /\ Len(s) \in Nat \ {0} /\ DOMAIN s = 1..Len(s) /\ DOMAIN Tail(s) = 1..(Len(s) - 1)
  BY <1>1, LenProperties, EmptySeq
<1>3. Distinct(Tail(s))
  <2> SUFFICES ASSUME NEW j \in 1..(Len(s) - 1), NEW k \in 1..(Len(s) - 1),
                      Tail(s)[j] = Tail(s)[k]
               PROVE j = k
    BY <1>2 DEF Distinct
  <2>1. j + 1 \in 1..Len(s) /\ k + 1 \in 1..Len(s) BY <1>2
  <2> QED BY <1>1, <1>2, <2>1 DEF Distinct
<1>4. Range(Tail(s)) = Range(s) \ {Head(s)}
  <2>1. ASSUME NEW k \in 1..(Len(s) - 1) PROVE Tail(s)[k] \in Range(s) \ {Head(s)}
    <3>1. k + 1 \in 1..Len(s) /\ 1 \in 1..Len(s) /\ k + 1 # 1 BY <1>2
    <3> QED BY <1>1, <1>2, <3>1 DEF Distinct, Range
  <2>2. ASSUME NEW k \in 1..Len(s), s[k] # Head(s) PROVE s[k] \in Range(Tail(s))
    <3>1. k # 1 BY <1>1, <2>2
    <3>2. k - 1 \in 1..(Len(s) - 1) /\ k - 1 + 1 = k BY <1>2, <3>1
    <3>3. Tail(s)[k - 1] = s[k] BY <1>1, <1>2, <3>2
    <3> QED BY <1>2, <3>2, <3>3 DEF Range
  <2> QED BY <1>2, <2>1, <2>2 DEF Range
<1>5. Head(s) \in Range(s) BY <1>1, <1>2 DEF Range
<1> QED BY <1>1, <1>3, <1>4, <1>5

LEMMA TypeInvInit == Init => TypeInv
<1> SUFFICES ASSUME Init PROVE TypeInv
  OBVIOUS
<1>1. <<>> \in Seq({"in", "out"} \X Tokens) /\ <<>> \in Seq(Macs) BY EmptySeq
<1>2. Range(<<>>) = {} /\ Distinct(<<>>)
  <2>1. DOMAIN <<>> = {}
    <3>1. <<>> \in Seq(Macs) /\ Len(<<>>) = 0 BY EmptySeq
    <3>2. DOMAIN <<>> = 1..0 BY <3>1, LenProperties
    <3> QED BY <3>2
  <2> QED BY <2>1 DEF Range, Distinct
<1>3. Typed BY <1>1 DEF Init, Typed, Terms, Conns, Logins, Closers, Checks, Off, NoConn,
                        IdleCheck, HasToken
<1>4. check.macs = <<>> BY DEF Init, IdleCheck
<1>5. KeysInv BY <1>2, <1>4 DEF Init, KeysInv
<1> QED BY <1>3, <1>5 DEF TypeInv

LEMMA EventsTyped ==
  ASSUME events \in Seq({"in", "out"} \X Tokens)
  PROVE /\ \A t \in Tokens : /\ Append(events, <<"in", t>>) \in Seq({"in", "out"} \X Tokens)
                             /\ Append(events, <<"out", t>>) \in Seq({"in", "out"} \X Tokens)
        /\ events # <<>> => /\ Tail(events) \in Seq({"in", "out"} \X Tokens)
                            /\ Head(events)[2] \in Tokens
<1>1. \A t \in Tokens : /\ <<"in", t>> \in {"in", "out"} \X Tokens
                        /\ <<"out", t>> \in {"in", "out"} \X Tokens
  OBVIOUS
<1>2. \A e \in {"in", "out"} \X Tokens : Append(events, e) \in Seq({"in", "out"} \X Tokens)
  BY AppendProperties
<1>3. events # <<>> => /\ Tail(events) \in Seq({"in", "out"} \X Tokens)
                       /\ Head(events) \in {"in", "out"} \X Tokens
  BY HeadTailProperties
<1> QED BY <1>1, <1>2, <1>3

LEMMA RemoveTyped ==
  ASSUME Typed, KeysInv, NEW m \in Macs, Remove(m)
  PROVE /\ mac_token' \in [Macs -> Tokens \cup {None}] /\ mac_token'[m] = None
        /\ \A k \in Macs \ {m} : mac_token'[k] = mac_token[k]
        /\ keys' \in Seq(Macs) /\ Distinct(keys')
        /\ {k \in Macs : mac_token'[k] # None} = Range(keys')
<1>1. PICK i \in DOMAIN keys :
        keys[i] = m /\ keys' = SubSeq(keys, 1, i - 1) \o SubSeq(keys, i + 1, Len(keys))
  BY DEF Remove
<1>2. keys \in Seq(Macs) /\ Distinct(keys) BY DEF Typed, KeysInv
<1>3. keys' \in Seq(Macs) /\ Distinct(keys') /\ Range(keys') = Range(keys) \ {m}
  BY <1>1, <1>2, KeyRemoved
<1>4. /\ mac_token' \in [Macs -> Tokens \cup {None}] /\ mac_token'[m] = None
      /\ \A k \in Macs \ {m} : mac_token'[k] = mac_token[k]
  BY DEF Remove, Typed
<1> QED BY <1>3, <1>4 DEF KeysInv

LEMMA EnterTyped ==
  ASSUME Typed, KeysInv, NEW m \in Macs, NEW t \in Tokens, Enter(m, t)
  PROVE /\ mac_token' \in [Macs -> Tokens \cup {None}] /\ mac_token'[m] = t
        /\ \A k \in Macs \ {m} : mac_token'[k] = mac_token[k]
        /\ keys' \in Seq(Macs) /\ Distinct(keys')
        /\ {k \in Macs : mac_token'[k] # None} = Range(keys')
<1>1. /\ mac_token' \in [Macs -> Tokens \cup {None}] /\ mac_token'[m] = t
      /\ \A k \in Macs \ {m} : mac_token'[k] = mac_token[k]
  BY DEF Enter, Typed
<1>2. CASE mac_token[m] # None BY <1>1, <1>2 DEF Enter, Typed, KeysInv
<1>3. CASE mac_token[m] = None
  <2>1. keys' = Append(keys, m) BY <1>3 DEF Enter
  <2>2. keys \in Seq(Macs) /\ Distinct(keys) /\ m \notin Range(keys)
    BY <1>3 DEF Typed, KeysInv
  <2>3. /\ keys' \in Seq(Macs) /\ Distinct(keys') /\ Range(keys') = Range(keys) \cup {m}
    BY <2>1, <2>2, KeyEntered
  <2> QED BY <1>1, <2>3 DEF KeysInv
<1> QED BY <1>2, <1>3

\* A list of the round that is shorter, and what CheckOne does with its first key
LEMMA CheckOneCases ==
  ASSUME TypeInv, CheckOne
  PROVE \E m \in Macs, t \in Tokens \cup {None} :
          /\ check.pc = "each" /\ m \in Range(check.macs) /\ t = mac_token[m]
          /\ UNCHANGED <<tmp, row, login, closer>>
          /\ \/ check' = IdleCheck
             \/ /\ check' \in Checks /\ check'.pc # "idle" /\ Distinct(check'.macs)
                /\ check'.clients = check.clients
                /\ Range(check'.macs) = Range(check.macs) \ {m}
          /\ \/ /\ t = None \/ token_status[t] # FALSE
                /\ UNCHANGED <<term, conn, events, token_client, mac_token, keys>>
                /\ token_status' \in {token_status, [token_status EXCEPT ![t] = FALSE]}
                /\ t = None => token_status' = token_status
             \/ /\ t \in Tokens /\ token_status[t] = FALSE /\ Drop(m, t)
                /\ \/ UNCHANGED <<term, conn, events, token_client>>
                   \/ /\ token_client' = token_client \ {t} /\ check'.pc # "idle"
                      /\ conn' = [conn EXCEPT ![t].state = "closed"]
                      /\ events' \in {events, Append(events, <<"out", t>>)}
                      /\ term' = [k \in Macs |-> IF term[k].token = t THEN Off ELSE term[k]]
<1> DEFINE m == Head(check.macs)
           t == mac_token[m]
           rest == [check EXCEPT !.macs = Tail(@)]
           gone == [rest EXCEPT !.pc = "row", !.lost = {m}]
<1>t. /\ check \in Checks /\ check.macs \in Seq(Macs) /\ Distinct(check.macs)
      /\ mac_token \in [Macs -> Tokens \cup {None}]
      /\ token_status \in [Tokens -> BOOLEAN \cup {None}]
  BY DEF TypeInv, Typed, KeysInv, Checks
<1>1. check.pc = "each" /\ check.macs # <<>> /\ UNCHANGED <<tmp, row, login, closer>>
  BY DEF CheckOne
<1>2. /\ m \in Macs /\ m \in Range(check.macs) /\ Tail(check.macs) \in Seq(Macs)
      /\ Distinct(Tail(check.macs)) /\ Range(Tail(check.macs)) = Range(check.macs) \ {m}
  BY <1>1, <1>t, KeyDone
<1>3. /\ rest \in Checks /\ rest.pc = "each" /\ rest.macs = Tail(check.macs)
      /\ rest.clients = check.clients
      /\ gone \in Checks /\ gone.pc = "row" /\ gone.macs = Tail(check.macs)
      /\ gone.clients = check.clients
  BY <1>1, <1>2, <1>t DEF Checks
<1>4. t \in Tokens \cup {None} BY <1>2, <1>t
<1> DEFINE Round == \/ check' = IdleCheck
                    \/ /\ check' \in Checks /\ check'.pc # "idle" /\ Distinct(check'.macs)
                       /\ check'.clients = check.clients
                       /\ Range(check'.macs) = Range(check.macs) \ {m}
           Effect == \/ /\ t = None \/ token_status[t] # FALSE
                        /\ UNCHANGED <<term, conn, events, token_client, mac_token, keys>>
                        /\ token_status' \in {token_status, [token_status EXCEPT ![t] = FALSE]}
                        /\ t = None => token_status' = token_status
                     \/ /\ t \in Tokens /\ token_status[t] = FALSE /\ Drop(m, t)
                        /\ \/ UNCHANGED <<term, conn, events, token_client>>
                           \/ /\ token_client' = token_client \ {t} /\ check'.pc # "idle"
                              /\ conn' = [conn EXCEPT ![t].state = "closed"]
                              /\ events' \in {events, Append(events, <<"out", t>>)}
                              /\ term' = [k \in Macs |-> IF term[k].token = t THEN Off
                                                         ELSE term[k]]
<1>5. check' \in {IdleCheck, rest, gone}
  <2> HIDE DEF m, t, rest, gone
  <2> QED BY DEF CheckOne, m, t, rest, gone
<1>6. Round
  <2> HIDE DEF m, rest, gone
  <2> QED BY <1>2, <1>3, <1>5
<1>7. Effect
  <2>1. \/ /\ t = None
           /\ UNCHANGED <<term, conn, events, token_client, mac_token, keys, token_status>>
        \/ /\ t # None /\ token_status[t] \in {None, TRUE}
           /\ token_status' = [token_status EXCEPT ![t] = IF @ = TRUE THEN FALSE ELSE @]
           /\ UNCHANGED <<term, conn, events, token_client, mac_token, keys>>
        \/ /\ t # None /\ token_status[t] = FALSE /\ Drop(m, t)
           /\ UNCHANGED <<term, conn, events, token_client>>
        \/ /\ t # None /\ token_status[t] = FALSE /\ Drop(m, t) /\ check' = gone
           /\ token_client' = token_client \ {t}
           /\ conn' = [conn EXCEPT ![t].state = "closed"]
           /\ events' = IF conn[t].state = "closed" THEN events
                        ELSE Append(events, <<"out", t>>)
           /\ term' = [k \in Macs |-> IF term[k].token = t THEN Off ELSE term[k]]
    <3> HIDE DEF Round
    <3> QED BY DEF CheckOne
  <2> HIDE DEF m, t, rest
  <2>2. check' = gone => check'.pc # "idle"
    <3> HIDE DEF gone
    <3> QED BY <1>3
  <2> HIDE DEF gone
  <2>3. ASSUME t # None, token_status[t] \in {None, TRUE},
               token_status' = [token_status EXCEPT ![t] = IF @ = TRUE THEN FALSE ELSE @]
        PROVE /\ token_status' \in {token_status, [token_status EXCEPT ![t] = FALSE]}
              /\ token_status[t] # FALSE
    <3>1. token_status[t] # FALSE BY <2>3
    <3>2. CASE token_status[t] = TRUE BY <2>3, <3>1, <3>2
    <3>3. CASE token_status[t] = None
      <4>1. t \in Tokens BY <2>3, <1>4
      <4>2. (IF token_status[t] = TRUE THEN FALSE ELSE token_status[t]) = token_status[t]
        BY <3>3
      <4> QED BY <2>3, <3>1, <4>1, <4>2, <1>t
    <3> QED BY <2>3, <3>2, <3>3
  <2> QED BY <2>1, <2>2, <2>3, <1>4
<1> HIDE DEF m, t, Round, Effect
<1>8. t = mac_token[m] BY DEF t
<1> QED BY <1>1, <1>2, <1>4, <1>6, <1>7, <1>8 DEF Round, Effect

LEMMA TypedNext == TypeInv /\ [Next]_vars => Typed'
<1> SUFFICES ASSUME TypeInv, [Next]_vars PROVE Typed'
  OBVIOUS
<1>t. Typed /\ KeysInv /\ check.macs \in Seq(Macs) BY DEF TypeInv, Typed, Checks
<1>e. /\ \A t \in Tokens : /\ Append(events, <<"in", t>>) \in Seq({"in", "out"} \X Tokens)
                           /\ Append(events, <<"out", t>>) \in Seq({"in", "out"} \X Tokens)
      /\ events # <<>> => /\ Tail(events) \in Seq({"in", "out"} \X Tokens)
                          /\ Head(events)[2] \in Tokens
  BY <1>t, EventsTyped DEF Typed
<1>m. ASSUME NEW m \in Macs PROVE /\ term[m] \in Terms /\ HasToken(term[m], "off")
                                  /\ login[m] \in Logins /\ HasToken(login[m], "idle")
  BY <1>t DEF Typed
<1>c. ASSUME NEW t \in Tokens, NEW s \in {"dead", "closed"}, conn' = [conn EXCEPT ![t].state = s]
      PROVE conn' \in [Tokens -> Conns]
  <2> DEFINE n == [conn[t] EXCEPT !.state = s]
  <2>0. \A c \in Conns : [c EXCEPT !.state = s] \in Conns BY DEF Conns
  <2>1. conn[t] \in Conns /\ n \in Conns BY <2>0, <1>t DEF Typed
  <2>2. conn' = [conn EXCEPT ![t] = n] BY <1>c, <1>t DEF Typed
  <2> HIDE DEF n
  <2> QED BY <2>1, <2>2, <1>t DEF Typed
<1>o. Off \in Terms /\ HasToken(Off, "off") BY DEF Off, Terms, HasToken
<1>k. IdleCheck \in Checks
  <2> DEFINE e == <<>>
  <2>1. e \in Seq(Macs) BY EmptySeq
  <2>2. IdleCheck = [pc |-> "idle", macs |-> e, clients |-> {}, lost |-> {}] BY DEF IdleCheck
  <2> HIDE DEF e
  <2> QED BY <2>1, <2>2 DEF Checks
<1>1. ASSUME NEW m \in Macs, Connect(m) PROVE Typed'
  <2>1. PICK t \in Tokens :
          /\ conn' = [conn EXCEPT ![t] = [state |-> "open", mac |-> m]]
          /\ events' = Append(events, <<"in", t>>)
          /\ term' = [term EXCEPT ![m] = [pc |-> "wait", token |-> t]]
    BY <1>1 DEF Connect
  <2>2. conn' \in [Tokens -> Conns] BY <2>1, <1>t DEF Typed, Conns
  <2>3. term' \in [Macs -> Terms] /\ \A k \in Macs : HasToken(term'[k], "off")
    BY <2>1, <1>t DEF Typed, Terms, HasToken
  <2> QED BY <1>1, <2>1, <2>2, <2>3, <1>t, <1>e DEF Connect, Typed, tables, HasToken
<1>2. CASE ClientConnected
  <2> DEFINE t == Head(events)[2]
             x(m) == IF term[m] = [pc |-> "wait", token |-> t]
                     THEN [term[m] EXCEPT !.pc = "named"] ELSE term[m]
  <2>1. /\ events # <<>> /\ tmp' = tmp \cup {t} /\ events' = Tail(events)
        /\ term' = [m \in Macs |-> x(m)]
        /\ UNCHANGED <<conn, token_client, mac_token, keys, token_status, row, login, closer,
                       check>>
    BY <1>2 DEF ClientConnected
  <2>2. \A m \in Macs : x(m) \in Terms /\ HasToken(x(m), "off")
    BY <1>m DEF Terms, HasToken
  <2> HIDE DEF x
  <2> QED BY <2>1, <2>2, <1>t, <1>e DEF Typed, HasToken
<1>3. ASSUME NEW m \in Macs, NEW p \in {"known", "login", "up"},
             term' = [term EXCEPT ![m].pc = p], term[m].pc # "off"
      PROVE term' \in [Macs -> Terms] /\ \A k \in Macs : HasToken(term'[k], "off")
  <2> DEFINE n == [term[m] EXCEPT !.pc = p]
  <2>1. n \in Terms /\ HasToken(n, "off") BY <1>3, <1>m DEF Terms, HasToken
  <2>2. term' = [term EXCEPT ![m] = n] BY <1>3, <1>t DEF Typed
  <2> HIDE DEF n
  <2> QED BY <2>1, <2>2, <1>t DEF Typed
<1>4. ASSUME NEW m \in Macs, TokenId(m) PROVE Typed'
  <2>1. term' \in [Macs -> Terms] /\ \A k \in Macs : HasToken(term'[k], "off")
    BY <1>3, <1>4 DEF TokenId
  <2> QED BY <1>4, <2>1, <1>t DEF TokenId, Typed, HasToken
<1>5. ASSUME NEW m \in Macs, SendLogin(m) PROVE Typed'
  <2>1. term' \in [Macs -> Terms] /\ \A k \in Macs : HasToken(term'[k], "off")
    BY <1>3, <1>5 DEF SendLogin
  <2>2. term[m].token \in Tokens BY <1>5, <1>m DEF SendLogin, HasToken
  <2>3. login' \in [Macs -> Logins] /\ \A k \in Macs : HasToken(login'[k], "idle")
    BY <1>5, <2>2, <1>t DEF SendLogin, Typed, Logins, HasToken
  <2> QED BY <1>5, <2>1, <2>3, <1>t DEF SendLogin, Typed, HasToken, tables
<1>6. ASSUME NEW m \in Macs, ClientLogin(m) PROVE Typed'
  <2> DEFINE t == login[m].token
             n == [login[m] EXCEPT !.pc = "row"]
  <2>1. t \in Tokens /\ Enter(m, t) BY <1>6, <1>m DEF ClientLogin, HasToken
  <2>2. mac_token' \in [Macs -> Tokens \cup {None}] /\ keys' \in Seq(Macs)
    BY <2>1, <1>t, EnterTyped
  <2>3. n \in Logins /\ HasToken(n, "idle") BY <2>1, <1>m DEF Logins, HasToken
  <2>4. login' = [login EXCEPT ![m] = n] BY <1>6, <1>t DEF ClientLogin, Typed
  <2> HIDE DEF n
  <2>5. login' \in [Macs -> Logins] /\ \A k \in Macs : HasToken(login'[k], "idle")
    BY <2>3, <2>4, <1>t DEF Typed
  <2>6. token_status' \in [Tokens -> BOOLEAN \cup {None}]
    BY <1>6, <2>1, <1>t DEF ClientLogin, Typed
  <2> QED BY <1>6, <2>2, <2>5, <2>6, <1>t DEF ClientLogin, Typed, HasToken
<1>7. ASSUME NEW m \in Macs, LoginRow(m) PROVE Typed'
  <2> DEFINE n == [term[m] EXCEPT !.pc = IF term[m] = [pc |-> "login", token |-> login[m].token]
                                         THEN "up" ELSE @]
  <2>1. n \in Terms /\ HasToken(n, "off") BY <1>m DEF Terms, HasToken
  <2>2. term' = [term EXCEPT ![m] = n] BY <1>7, <1>t DEF LoginRow, Typed
  <2> HIDE DEF n
  <2>3. term' \in [Macs -> Terms] /\ \A k \in Macs : HasToken(term'[k], "off")
    BY <2>1, <2>2, <1>t DEF Typed
  <2>4. login' \in [Macs -> Logins] /\ \A k \in Macs : HasToken(login'[k], "idle")
    BY <1>7, <1>t DEF LoginRow, Typed, Logins, HasToken
  <2> QED BY <1>7, <2>3, <2>4, <1>t DEF LoginRow, Typed, HasToken, tables
<1>8. ASSUME NEW m \in Macs, Ping(m) PROVE Typed'
  BY <1>8, <1>t DEF Ping, Typed, HasToken
<1>9. ASSUME NEW m \in Macs, Disconnect(m) \/ Vanish(m) PROVE Typed'
  <2>1. PICK t : t = term[m].token OBVIOUS
  <2>2. PICK s \in {"dead", "closed"} :
          /\ conn' = [conn EXCEPT ![t].state = s] /\ term' = [term EXCEPT ![m] = Off]
          /\ events' \in {events, Append(events, <<"out", t>>)} /\ term[m].pc # "off"
          /\ UNCHANGED <<tmp, token_client, mac_token, keys, token_status, row, login, closer,
                         check>>
    BY <1>9, <2>1 DEF Disconnect, Vanish, tables
  <2>3. t \in Tokens BY <2>1, <2>2, <1>m DEF HasToken
  <2>4. conn' \in [Tokens -> Conns] BY <2>2, <2>3, <1>c
  <2>5. term' \in [Macs -> Terms] /\ \A k \in Macs : HasToken(term'[k], "off")
    BY <2>2, <1>o, <1>t DEF Typed
  <2>6. events' \in Seq({"in", "out"} \X Tokens) BY <2>2, <2>3, <1>e, <1>t DEF Typed
  <2> QED BY <2>2, <2>4, <2>5, <2>6, <1>t DEF Typed, HasToken
<1>10. ASSUME NEW t \in Tokens, DeadSeen(t) PROVE Typed'
  <2>1. conn' \in [Tokens -> Conns] BY <1>10, <1>c DEF DeadSeen
  <2> QED BY <1>10, <2>1, <1>t, <1>e DEF DeadSeen, Typed, HasToken, tables
<1>11. CASE ClientClosed
  <2> DEFINE t == Head(events)[2]
  <2>1. events # <<>> /\ t \in Tokens BY <1>11, <1>e DEF ClientClosed
  <2>2. conn' \in [Tokens -> Conns] BY <1>11, <2>1, <1>t DEF ClientClosed, Typed, Conns, NoConn
  <2>3. closer' \in Closers BY <1>11, <2>1, <1>t DEF ClientClosed, Typed, Closers
  <2> QED BY <1>11, <2>1, <2>2, <2>3, <1>t, <1>e DEF ClientClosed, Typed, HasToken
<1>12. CASE ClosedPop
  <2>1. closer \in [pc : {"pop", "row"}, token : Tokens, mac : Macs]
    BY <1>12, <1>t DEF ClosedPop, Typed, Closers, IdleCloser
  <2>2. CASE Remove(closer.mac)
    <3>1. mac_token' \in [Macs -> Tokens \cup {None}] /\ keys' \in Seq(Macs)
      BY <2>1, <2>2, <1>t, RemoveTyped
    <3>2. token_status' \in [Tokens -> BOOLEAN \cup {None}] /\ closer' \in Closers
      BY <1>12, <2>1, <1>t DEF ClosedPop, Typed, Closers
    <3> QED BY <1>12, <3>1, <3>2, <1>t DEF ClosedPop, Typed, HasToken
  <2>3. CASE ~Remove(closer.mac)
    BY <1>12, <2>3, <1>t DEF ClosedPop, Typed, HasToken, Closers
  <2> QED BY <2>2, <2>3
<1>13. CASE ClosedRow
  BY <1>13, <1>t DEF ClosedRow, Typed, HasToken, tables, Closers
<1>14. CASE CheckBegin
  <2>1. check' \in Checks BY <1>14, <1>t DEF CheckBegin, Typed, Checks, IdleCheck
  <2> QED BY <1>14, <2>1, <1>t DEF CheckBegin, Typed, HasToken, tables
<1>15. CASE CheckRows \/ CheckLost \/ CheckRow \/ CheckEnd
  <2>1. \A q \in {"lost", "each"}, l \in SUBSET Macs : [check EXCEPT !.pc = q, !.lost = l] \in Checks
    BY <1>t DEF Typed, Checks
  <2>2. check' \in Checks
    <3>1. row \ Range(check.macs) \in SUBSET Macs /\ {} \in SUBSET Macs BY <1>t DEF Typed
    <3> HIDE DEF Checks
    <3> QED BY <1>15, <1>k, <2>1, <3>1 DEF CheckRows, CheckLost, CheckRow, CheckEnd
  <2> QED BY <1>15, <2>2, <1>t DEF CheckRows, CheckLost, CheckRow, CheckEnd, Typed, HasToken,
                                   tables
<1>16. CASE CheckOne
  <2>1. PICK m \in Macs, t \in Tokens \cup {None} :
          /\ t = mac_token[m] /\ UNCHANGED <<tmp, row, login, closer>>
          /\ check' = IdleCheck \/ check' \in Checks
          /\ \/ /\ UNCHANGED <<term, conn, events, token_client, mac_token, keys>>
                /\ token_status' \in {token_status, [token_status EXCEPT ![t] = FALSE]}
                /\ t = None => token_status' = token_status
             \/ /\ t \in Tokens /\ Drop(m, t)
                /\ \/ UNCHANGED <<term, conn, events, token_client>>
                   \/ /\ token_client' = token_client \ {t}
                      /\ conn' = [conn EXCEPT ![t].state = "closed"]
                      /\ events' \in {events, Append(events, <<"out", t>>)}
                      /\ term' = [k \in Macs |-> IF term[k].token = t THEN Off ELSE term[k]]
    BY <1>16, CheckOneCases
  <2>2. check' \in Checks
    BY <2>1, <1>k
  <2>3. CASE /\ UNCHANGED <<term, conn, events, token_client, mac_token, keys>>
             /\ token_status' \in {token_status, [token_status EXCEPT ![t] = FALSE]}
             /\ t = None => token_status' = token_status
    <3>1. token_status' \in [Tokens -> BOOLEAN \cup {None}] BY <2>1, <2>3, <1>t DEF Typed
    <3> QED BY <2>1, <2>2, <2>3, <3>1, <1>t DEF Typed, HasToken
  <2>4. CASE t \in Tokens /\ Drop(m, t)
    <3>1. mac_token' \in [Macs -> Tokens \cup {None}] /\ keys' \in Seq(Macs)
      BY <2>4, <1>t, RemoveTyped DEF Drop
    <3>2. token_status' \in [Tokens -> BOOLEAN \cup {None}]
      BY <2>4, <1>t DEF Drop, Typed
    <3>3. CASE UNCHANGED <<term, conn, events, token_client>>
      BY <2>1, <2>2, <3>1, <3>2, <3>3, <1>t DEF Typed, HasToken
    <3>4. CASE /\ token_client' = token_client \ {t}
               /\ conn' = [conn EXCEPT ![t].state = "closed"]
               /\ events' \in {events, Append(events, <<"out", t>>)}
               /\ term' = [k \in Macs |-> IF term[k].token = t THEN Off ELSE term[k]]
      <4>1. conn' \in [Tokens -> Conns] BY <2>4, <3>4, <1>c
      <4>2. term' \in [Macs -> Terms] /\ \A k \in Macs : HasToken(term'[k], "off")
        BY <3>4, <1>o, <1>m
      <4>3. events' \in Seq({"in", "out"} \X Tokens)
        <5>1. events \in Seq({"in", "out"} \X Tokens) BY <1>t DEF Typed
        <5>2. Append(events, <<"out", t>>) \in Seq({"in", "out"} \X Tokens) BY <2>4, <1>e
        <5> QED BY <3>4, <5>1, <5>2
      <4> QED BY <2>1, <2>2, <3>1, <3>2, <3>4, <4>1, <4>2, <4>3, <1>t DEF Typed, HasToken
    <3> QED BY <2>1, <2>3, <2>4, <3>3, <3>4
  <2> QED BY <2>1, <2>3, <2>4
<1>17. CASE Restart
  <2>1. <<>> \in Seq({"in", "out"} \X Tokens) /\ <<>> \in Seq(Macs) BY EmptySeq
  <2> QED BY <1>17, <2>1 DEF Restart, Typed, Terms, Conns, Logins, Closers, Checks, Off, NoConn,
                             IdleCheck, HasToken
<1>18. CASE UNCHANGED vars BY <1>18, <1>t DEF vars, tables, Typed, HasToken
<1> QED BY <1>1, <1>2, <1>4, <1>5, <1>6, <1>7, <1>8, <1>9, <1>10, <1>11, <1>12, <1>13, <1>14,
           <1>15, <1>16, <1>17, <1>18
        DEF Next, QueueStep, LoginStep, CheckStep, Environment

LEMMA KeysInvNext == TypeInv /\ [Next]_vars => KeysInv'
<1> SUFFICES ASSUME TypeInv, [Next]_vars PROVE KeysInv'
  OBVIOUS
<1>t. /\ Typed /\ KeysInv
      /\ \A m \in Macs : HasToken(login[m], "idle") /\ login[m] \in Logins
  BY DEF TypeInv, Typed
<1>n. Distinct(<<>>)
  <2> DEFINE e == <<>>
  <2>1. e \in Seq(Macs) /\ Len(e) = 0 BY EmptySeq
  <2>2. DOMAIN e = 1..0 BY <2>1, LenProperties
  <2> HIDE DEF e
  <2>3. Distinct(e) BY <2>2 DEF Distinct
  <2> QED BY <2>3 DEF e
<1>0. CASE UNCHANGED <<mac_token, keys>> /\ check'.macs \in {check.macs, keys, <<>>}
  BY <1>0, <1>t, <1>n DEF KeysInv, Distinct
<1>1. ASSUME NEW m \in Macs, ClientLogin(m) PROVE KeysInv'
  <2>1. login[m].token \in Tokens /\ Enter(m, login[m].token) /\ check' = check
    BY <1>1, <1>t DEF ClientLogin, HasToken
  <2>2. Distinct(keys') /\ {k \in Macs : mac_token'[k] # None} = Range(keys')
    BY <2>1, <1>t, EnterTyped
  <2> QED BY <2>1, <2>2, <1>t DEF KeysInv
<1>2. CASE ClosedPop
  <2>1. closer.mac \in Macs /\ check' = check
    BY <1>2, <1>t DEF ClosedPop, Typed, Closers, IdleCloser
  <2>2. CASE Remove(closer.mac)
    <3>1. Distinct(keys') /\ {k \in Macs : mac_token'[k] # None} = Range(keys')
      BY <2>1, <2>2, <1>t, RemoveTyped
    <3> QED BY <2>1, <3>1, <1>t DEF KeysInv
  <2>3. CASE UNCHANGED <<mac_token, keys>> BY <2>1, <2>3, <1>0
  <2> QED BY <1>2, <2>2, <2>3 DEF ClosedPop
<1>3. CASE CheckBegin
  <2>1. check'.macs = keys /\ UNCHANGED <<mac_token, keys>>
    BY <1>3 DEF CheckBegin, IdleCheck, tables
  <2> QED BY <2>1, <1>0
<1>4. CASE CheckRows \/ CheckLost \/ CheckRow \/ CheckEnd
  <2>0. UNCHANGED <<mac_token, keys>>
    BY <1>4 DEF CheckRows, CheckLost, CheckRow, CheckEnd, tables
  <2>1. IdleCheck.macs = <<>> BY DEF IdleCheck
  <2>2. PICK q, l : check' = [check EXCEPT !.pc = q, !.lost = l] \/ check' = IdleCheck
    BY <1>4 DEF CheckRows, CheckLost, CheckRow, CheckEnd
  <2>3. [check EXCEPT !.pc = q, !.lost = l].macs = check.macs BY <1>t DEF Typed, Checks
  <2> QED BY <2>0, <2>1, <2>2, <2>3, <1>0
<1>5. CASE CheckOne
  <2>1. PICK m \in Macs, t \in Tokens \cup {None} :
          /\ check' = IdleCheck \/ Distinct(check'.macs)
          /\ UNCHANGED <<mac_token, keys>> \/ Drop(m, t)
    BY <1>5, CheckOneCases
  <2>2. Distinct(check'.macs) BY <2>1, <1>n DEF IdleCheck
  <2>3. CASE UNCHANGED <<mac_token, keys>> BY <2>2, <2>3, <1>t DEF KeysInv
  <2>4. CASE Drop(m, t)
    <3>1. Distinct(keys') /\ {k \in Macs : mac_token'[k] # None} = Range(keys')
      BY <2>4, <1>t, RemoveTyped DEF Drop
    <3> QED BY <2>2, <3>1 DEF KeysInv
  <2> QED BY <2>1, <2>3, <2>4
<1>6. CASE Restart
  <2>1. /\ mac_token' = [m \in Macs |-> None] /\ keys' = <<>> /\ check'.macs = <<>>
    BY <1>6 DEF Restart, IdleCheck
  <2>2. Range(<<>>) = {}
    <3> DEFINE e == <<>>
    <3>1. e \in Seq(Macs) /\ Len(e) = 0 BY EmptySeq
    <3>2. DOMAIN e = 1..0 BY <3>1, LenProperties
    <3> HIDE DEF e
    <3>3. Range(e) = {} BY <3>2 DEF Range
    <3> QED BY <3>3 DEF e
  <2> QED BY <2>1, <2>2, <1>n DEF KeysInv
<1>7. ASSUME NEW m \in Macs,
             Connect(m) \/ TokenId(m) \/ SendLogin(m) \/ Disconnect(m) \/ Vanish(m)
               \/ LoginRow(m) \/ Ping(m)
      PROVE UNCHANGED <<mac_token, keys, check>>
  BY <1>7 DEF Connect, TokenId, SendLogin, Disconnect, Vanish, LoginRow, Ping, tables
<1>8. ASSUME ClientConnected \/ ClientClosed \/ ClosedRow \/ (\E t \in Tokens : DeadSeen(t))
               \/ UNCHANGED vars
      PROVE UNCHANGED <<mac_token, keys, check>>
  BY <1>8 DEF ClientConnected, ClientClosed, ClosedRow, DeadSeen, vars, tables
<1>9. CASE UNCHANGED <<mac_token, keys, check>> BY <1>0, <1>9
<1> QED BY <1>1, <1>2, <1>3, <1>4, <1>5, <1>6, <1>7, <1>8, <1>9
        DEF Next, QueueStep, LoginStep, CheckStep, Environment

(***************************************************************************)
(* What the threads leave behind has the type the model gives it, the list *)
(* of the keys of mac_token follows the table through logins, drops and    *)
(* withdrawals, and no key is in it twice.                                 *)
(***************************************************************************)
THEOREM Types == Spec => []TypeOK
<1>1. TypeInv /\ [Next]_vars => TypeInv' BY TypedNext, KeysInvNext DEF TypeInv
<1>2. TypeInv => TypeOK
  BY DEF TypeInv, Typed, KeysInv, TypeOK, Terms, Conns, Logins, Closers, Checks
<1> QED BY <1>1, <1>2, TypeInvInit, PTL DEF Spec

-----------------------------------------------------------------------------
\* The tokens by which a terminal goes, or went when the tables were written
Held(m) == {term[m].token, login[m].token, mac_token[m]} \ {None}

(* No two terminals share a token; a terminal is in mac_token with the token of
   its connection only once it logs in over it.                              *)
Owners == \A m, k \in Macs : m # k => Held(m) \cap Held(k) = {}
LoggedIn ==
  \A m \in Macs : term[m].token # None =>
    /\ mac_token[m] = term[m].token => term[m].pc \in {"login", "up"}
    /\ login[m].token = term[m].token => term[m].pc = "login"

\* A connected terminal the round still has to look at has pinged since it began.
Pending ==
  check.pc # "idle" =>
    \A m \in Range(check.macs) :
      term[m].token # None /\ mac_token[m] = term[m].token
        => token_status[term[m].token] # FALSE

HeartInv == TypeInv /\ Owners /\ LoggedIn /\ Pending

LEMMA HeartInvInit == Init => HeartInv
<1> SUFFICES ASSUME Init PROVE HeartInv
  OBVIOUS
<1>1. \A m \in Macs : Held(m) = {} BY DEF Init, Held, Off
<1> QED BY <1>1, TypeInvInit DEF Init, HeartInv, Owners, LoggedIn, Pending, IdleCheck, Off

(* A connection brings a token nobody has; every other step takes the token a
   terminal logs in with, or is entered with, from the terminal itself.       *)
LEMMA HeldNext ==
  ASSUME TypeInv, [Next]_vars
  PROVE \/ \A k \in Macs : Held(k)' \subseteq Held(k)
        \/ \E m \in Macs, t \in Tokens :
             /\ \A k \in Macs : t \notin Held(k)
             /\ \A k \in Macs \ {m} : Held(k)' = Held(k)
             /\ Held(m)' \subseteq Held(m) \cup {t}
<1>t. /\ Typed /\ KeysInv /\ term \in [Macs -> Terms] /\ login \in [Macs -> Logins]
      /\ mac_token \in [Macs -> Tokens \cup {None}]
  BY DEF TypeInv, Typed
<1>m. ASSUME NEW k \in Macs PROVE /\ term[k] \in Terms /\ HasToken(term[k], "off")
                                  /\ login[k] \in Logins /\ HasToken(login[k], "idle")
  BY <1>t DEF Typed
<1> DEFINE Kept == \A k \in Macs : Held(k)' \subseteq Held(k)
<1>a. ASSUME \A k \in Macs : /\ term'[k].token \in {term[k].token, None}
                             /\ login'[k].token \in {login[k].token, term[k].token, None}
                             /\ mac_token'[k] \in {mac_token[k], login[k].token, None}
      PROVE Kept
  BY <1>a DEF Held
<1>u. ASSUME NEW m \in Macs, NEW p, term' = [term EXCEPT ![m].pc = p]
      PROVE \A k \in Macs : term'[k].token = term[k].token
  <2> DEFINE n == [term[m] EXCEPT !.pc = p]
  <2>1. n.token = term[m].token BY <1>m DEF Terms
  <2>2. term' = [term EXCEPT ![m] = n] BY <1>u, <1>t
  <2> HIDE DEF n
  <2> QED BY <2>1, <2>2, <1>t
<1>o. Off.token = None BY DEF Off
<1> HIDE DEF Kept
<1>1. ASSUME NEW m \in Macs, Connect(m)
      PROVE \E t \in Tokens :
              /\ \A k \in Macs : t \notin Held(k)
              /\ \A k \in Macs \ {m} : Held(k)' = Held(k)
              /\ Held(m)' \subseteq Held(m) \cup {t}
  <2>1. PICK t \in Tokens :
          /\ Fresh(t) /\ term' = [term EXCEPT ![m] = [pc |-> "wait", token |-> t]]
    BY <1>1 DEF Connect
  <2>2. login' = login /\ mac_token' = mac_token BY <1>1 DEF Connect, tables
  <2>3. \A k \in Macs : t \notin Held(k) BY <2>1 DEF Fresh, Held
  <2>4. term'[m].token = t /\ \A k \in Macs \ {m} : term'[k] = term[k] BY <2>1, <1>t
  <2>5. \A k \in Macs \ {m} : Held(k)' = Held(k) BY <2>2, <2>4 DEF Held
  <2>6. Held(m)' \subseteq Held(m) \cup {t} BY <2>2, <2>4 DEF Held
  <2> QED BY <2>3, <2>5, <2>6
<1>2. CASE ClientConnected
  <2> DEFINE t == Head(events)[2]
             x(m) == IF term[m] = [pc |-> "wait", token |-> t]
                     THEN [term[m] EXCEPT !.pc = "named"] ELSE term[m]
  <2>1. \A m \in Macs : x(m).token = term[m].token BY <1>m DEF Terms
  <2>2. term' = [m \in Macs |-> x(m)] /\ UNCHANGED <<login, mac_token>>
    BY <1>2 DEF ClientConnected
  <2> HIDE DEF x
  <2> QED BY <2>1, <2>2, <1>a DEF Kept
<1>3. ASSUME NEW m \in Macs, TokenId(m) PROVE Kept
  <2>1. UNCHANGED <<login, mac_token>> /\ term' = [term EXCEPT ![m].pc = "known"]
    BY <1>3 DEF TokenId
  <2> QED BY <2>1, <1>u, <1>a
<1>4. ASSUME NEW m \in Macs, SendLogin(m) PROVE Kept
  <2>1. /\ UNCHANGED mac_token /\ term' = [term EXCEPT ![m].pc = "login"]
        /\ login' = [login EXCEPT ![m] = [pc |-> "sent", token |-> term[m].token]]
    BY <1>4 DEF SendLogin, tables
  <2>2. \A k \in Macs : login'[k].token \in {login[k].token, term[k].token} BY <2>1, <1>t
  <2> QED BY <2>1, <2>2, <1>u, <1>a
<1>5. ASSUME NEW m \in Macs, ClientLogin(m) PROVE Kept
  <2> DEFINE n == [login[m] EXCEPT !.pc = "row"]
  <2>1. UNCHANGED term /\ Enter(m, login[m].token) /\ login' = [login EXCEPT ![m] = n]
    BY <1>5, <1>t DEF ClientLogin
  <2>2. n.token = login[m].token BY <1>m DEF Logins
  <2> HIDE DEF n
  <2>3. \A k \in Macs : login'[k].token = login[k].token BY <2>1, <2>2, <1>t
  <2>4. \A k \in Macs : mac_token'[k] \in {mac_token[k], login[k].token}
    BY <2>1, <1>t DEF Enter
  <2> QED BY <2>1, <2>3, <2>4, <1>a
<1>6. ASSUME NEW m \in Macs, LoginRow(m) PROVE Kept
  <2>1. PICK p : term' = [term EXCEPT ![m].pc = p]
    <3> DEFINE p == IF term[m] = [pc |-> "login", token |-> login[m].token] THEN "up"
                    ELSE term[m].pc
    <3>1. term' = [term EXCEPT ![m].pc = p] BY <1>6 DEF LoginRow
    <3> QED BY <3>1
  <2>2. /\ UNCHANGED mac_token
        /\ login' = [login EXCEPT ![m] = [pc |-> "idle", token |-> None]]
    BY <1>6 DEF LoginRow, tables
  <2>3. \A k \in Macs : login'[k].token \in {login[k].token, None} BY <2>2, <1>t
  <2> QED BY <2>1, <2>2, <2>3, <1>u, <1>a
<1>7. ASSUME NEW m \in Macs, Disconnect(m) \/ Vanish(m) PROVE Kept
  <2>1. UNCHANGED <<login, mac_token>> /\ term' = [term EXCEPT ![m] = Off]
    BY <1>7 DEF Disconnect, Vanish, tables
  <2>2. \A k \in Macs : term'[k].token \in {term[k].token, None} BY <2>1, <1>t, <1>o
  <2> QED BY <2>1, <2>2, <1>a
<1>8. CASE ClosedPop
  <2>1. closer.mac \in Macs /\ UNCHANGED <<term, login>>
    BY <1>8, <1>t DEF ClosedPop, Typed, Closers, IdleCloser
  <2>2. \A k \in Macs : mac_token'[k] \in {mac_token[k], None}
    BY <1>8, <2>1, <1>t, RemoveTyped DEF ClosedPop
  <2> QED BY <2>1, <2>2, <1>a DEF Kept
<1>9. CASE CheckOne
  <2>1. PICK m \in Macs, t \in Tokens \cup {None} :
          /\ UNCHANGED login
          /\ mac_token' = mac_token \/ Drop(m, t)
          /\ \/ UNCHANGED term
             \/ term' = [k \in Macs |-> IF term[k].token = t THEN Off ELSE term[k]]
    BY <1>9, CheckOneCases
  <2>2. \A k \in Macs : mac_token'[k] \in {mac_token[k], None}
    BY <2>1, <1>t, RemoveTyped DEF Drop
  <2>3. \A k \in Macs : term'[k].token \in {term[k].token, None} BY <2>1, <1>o
  <2> QED BY <2>1, <2>2, <2>3, <1>a DEF Kept
<1>10. CASE Restart
  <2>1. \A k \in Macs : /\ term'[k].token = None /\ login'[k].token = None
                        /\ mac_token'[k] = None
    BY <1>10, <1>o DEF Restart
  <2> QED BY <2>1, <1>a DEF Kept
<1>11. ASSUME UNCHANGED <<term, login, mac_token>> PROVE Kept
  BY <1>11, <1>a
<1>12. ASSUME \/ \E m \in Macs : Ping(m)
              \/ \E t \in Tokens : DeadSeen(t)
              \/ ClientClosed \/ ClosedRow \/ CheckBegin \/ CheckRows \/ CheckLost \/ CheckRow
              \/ CheckEnd \/ UNCHANGED vars
       PROVE UNCHANGED <<term, login, mac_token>>
  BY <1>12 DEF Ping, DeadSeen, ClientClosed, ClosedRow, CheckBegin, CheckRows, CheckLost,
               CheckRow, CheckEnd, vars, tables
<1> QED BY <1>1, <1>2, <1>3, <1>4, <1>5, <1>6, <1>7, <1>8, <1>9, <1>10, <1>11, <1>12
        DEF Next, QueueStep, LoginStep, CheckStep, Environment, Kept

LEMMA OwnersNext == TypeInv /\ Owners /\ [Next]_vars => Owners'
<1> SUFFICES ASSUME TypeInv, Owners, [Next]_vars PROVE Owners'
  OBVIOUS
<1>1. CASE \A k \in Macs : Held(k)' \subseteq Held(k) BY <1>1 DEF Owners
<1>2. ASSUME NEW m \in Macs, NEW t \in Tokens,
             \A k \in Macs : t \notin Held(k),
             \A k \in Macs \ {m} : Held(k)' = Held(k),
             Held(m)' \subseteq Held(m) \cup {t}
      PROVE Owners'
  BY <1>2 DEF Owners
<1> QED BY <1>1, <1>2, HeldNext

LEMMA LoggedInNext == TypeInv /\ LoggedIn /\ [Next]_vars => LoggedIn'
<1> SUFFICES ASSUME TypeInv, LoggedIn, [Next]_vars PROVE LoggedIn'
  OBVIOUS
<1>t. /\ Typed /\ KeysInv /\ term \in [Macs -> Terms] /\ login \in [Macs -> Logins]
      /\ mac_token \in [Macs -> Tokens \cup {None}]
  BY DEF TypeInv, Typed
<1>m. ASSUME NEW k \in Macs PROVE /\ term[k] \in Terms /\ HasToken(term[k], "off")
                                  /\ login[k] \in Logins /\ HasToken(login[k], "idle")
  BY <1>t DEF Typed
<1>o. Off.token = None BY DEF Off
<1>a. ASSUME \A k \in Macs : /\ term'[k] = term[k] \/ term'[k].token = None
                             /\ login'[k].token \in {login[k].token, None}
                             /\ mac_token'[k] \in {mac_token[k], None}
      PROVE LoggedIn'
  BY <1>a DEF LoggedIn
<1>u. ASSUME NEW m \in Macs, NEW p, term' = [term EXCEPT ![m].pc = p]
      PROVE /\ term'[m].token = term[m].token /\ term'[m].pc = p
            /\ \A k \in Macs \ {m} : term'[k] = term[k]
  <2> DEFINE n == [term[m] EXCEPT !.pc = p]
  <2>1. n.token = term[m].token /\ n.pc = p BY <1>m DEF Terms
  <2>2. term' = [term EXCEPT ![m] = n] BY <1>u, <1>t
  <2> HIDE DEF n
  <2> QED BY <2>1, <2>2, <1>t
<1>1. ASSUME NEW m \in Macs, Connect(m) PROVE LoggedIn'
  <2>1. PICK t \in Tokens :
          /\ Fresh(t) /\ term' = [term EXCEPT ![m] = [pc |-> "wait", token |-> t]]
    BY <1>1 DEF Connect
  <2>2. login' = login /\ mac_token' = mac_token BY <1>1 DEF Connect, tables
  <2>3. term'[m].token = t /\ \A k \in Macs \ {m} : term'[k] = term[k] BY <2>1, <1>t
  <2>4. mac_token[m] # t /\ login[m].token # t BY <2>1 DEF Fresh
  <2> QED BY <2>2, <2>3, <2>4 DEF LoggedIn
<1>2. CASE ClientConnected
  <2> DEFINE t == Head(events)[2]
             x(m) == IF term[m] = [pc |-> "wait", token |-> t]
                     THEN [term[m] EXCEPT !.pc = "named"] ELSE term[m]
  <2>1. \A m \in Macs : /\ x(m).token = term[m].token
                        /\ x(m).pc = term[m].pc \/ term[m].pc = "wait"
    BY <1>m DEF Terms
  <2>2. term' = [m \in Macs |-> x(m)] /\ UNCHANGED <<login, mac_token>>
    BY <1>2 DEF ClientConnected
  <2> HIDE DEF x
  <2> QED BY <2>1, <2>2 DEF LoggedIn
<1>3. ASSUME NEW m \in Macs, TokenId(m) PROVE LoggedIn'
  <2>1. /\ UNCHANGED <<login, mac_token>> /\ term' = [term EXCEPT ![m].pc = "known"]
        /\ term[m].pc = "named"
    BY <1>3 DEF TokenId
  <2>2. /\ term'[m].token = term[m].token /\ \A k \in Macs \ {m} : term'[k] = term[k]
    BY <2>1, <1>u
  <2>3. term[m].token # None => mac_token[m] # term[m].token /\ login[m].token # term[m].token
    BY <2>1 DEF LoggedIn
  <2> QED BY <2>1, <2>2, <2>3 DEF LoggedIn
<1>4. ASSUME NEW m \in Macs, SendLogin(m) PROVE LoggedIn'
  <2>1. /\ UNCHANGED mac_token /\ term' = [term EXCEPT ![m].pc = "login"]
        /\ login' = [login EXCEPT ![m] = [pc |-> "sent", token |-> term[m].token]]
    BY <1>4 DEF SendLogin, tables
  <2>2. \A k \in Macs \ {m} : login'[k] = login[k] BY <2>1, <1>t
  <2>3. /\ term'[m].pc = "login" /\ \A k \in Macs \ {m} : term'[k] = term[k] BY <2>1, <1>u
  <2> QED BY <2>1, <2>2, <2>3 DEF LoggedIn
<1>5. ASSUME NEW m \in Macs, ClientLogin(m) PROVE LoggedIn'
  <2> DEFINE n == [login[m] EXCEPT !.pc = "row"]
  <2>1. UNCHANGED term /\ Enter(m, login[m].token) /\ login' = [login EXCEPT ![m] = n]
    BY <1>5, <1>t DEF ClientLogin
  <2>2. n.token = login[m].token BY <1>m DEF Logins
  <2> HIDE DEF n
  <2>3. \A k \in Macs : login'[k].token = login[k].token BY <2>1, <2>2, <1>t
  <2>4. /\ mac_token'[m] = login[m].token
        /\ \A k \in Macs \ {m} : mac_token'[k] = mac_token[k]
    BY <2>1, <1>t DEF Enter
  <2> QED BY <2>1, <2>3, <2>4 DEF LoggedIn
<1>6. ASSUME NEW m \in Macs, LoginRow(m) PROVE LoggedIn'
  <2>1. PICK p : term' = [term EXCEPT ![m].pc = p] /\ p \in {term[m].pc, "up"}
    <3> DEFINE p == IF term[m] = [pc |-> "login", token |-> login[m].token] THEN "up"
                    ELSE term[m].pc
    <3>1. term' = [term EXCEPT ![m].pc = p] BY <1>6 DEF LoginRow
    <3> QED BY <3>1
  <2>2. /\ UNCHANGED mac_token
        /\ login' = [login EXCEPT ![m] = [pc |-> "idle", token |-> None]]
    BY <1>6 DEF LoginRow, tables
  <2>3. login'[m].token = None /\ \A k \in Macs \ {m} : login'[k] = login[k] BY <2>2, <1>t
  <2>4. /\ term'[m].token = term[m].token /\ term'[m].pc = p
        /\ \A k \in Macs \ {m} : term'[k] = term[k]
    BY <2>1, <1>u
  <2> QED BY <2>1, <2>2, <2>3, <2>4 DEF LoggedIn
<1>7. ASSUME NEW m \in Macs, Disconnect(m) \/ Vanish(m) PROVE LoggedIn'
  <2>1. UNCHANGED <<login, mac_token>> /\ term' = [term EXCEPT ![m] = Off]
    BY <1>7 DEF Disconnect, Vanish, tables
  <2>2. \A k \in Macs : term'[k] = term[k] \/ term'[k].token = None BY <2>1, <1>t, <1>o
  <2> QED BY <2>1, <2>2, <1>a
<1>8. CASE ClosedPop
  <2>1. closer.mac \in Macs /\ UNCHANGED <<term, login>>
    BY <1>8, <1>t DEF ClosedPop, Typed, Closers, IdleCloser
  <2>2. \A k \in Macs : mac_token'[k] \in {mac_token[k], None}
    BY <1>8, <2>1, <1>t, RemoveTyped DEF ClosedPop
  <2> QED BY <2>1, <2>2, <1>a
<1>9. CASE CheckOne
  <2>1. PICK m \in Macs, t \in Tokens \cup {None} :
          /\ UNCHANGED login
          /\ mac_token' = mac_token \/ Drop(m, t)
          /\ \/ UNCHANGED term
             \/ term' = [k \in Macs |-> IF term[k].token = t THEN Off ELSE term[k]]
    BY <1>9, CheckOneCases
  <2>2. \A k \in Macs : mac_token'[k] \in {mac_token[k], None}
    BY <2>1, <1>t, RemoveTyped DEF Drop
  <2>3. \A k \in Macs : term'[k] = term[k] \/ term'[k].token = None BY <2>1, <1>o
  <2> QED BY <2>1, <2>2, <2>3, <1>a
<1>10. CASE Restart
  <2>1. \A k \in Macs : term'[k].token = None BY <1>10, <1>o DEF Restart
  <2> QED BY <2>1 DEF LoggedIn
<1>11. ASSUME UNCHANGED <<term, login, mac_token>> PROVE LoggedIn'
  BY <1>11, <1>a
<1>12. ASSUME \/ \E m \in Macs : Ping(m)
              \/ \E t \in Tokens : DeadSeen(t)
              \/ ClientClosed \/ ClosedRow \/ CheckBegin \/ CheckRows \/ CheckLost \/ CheckRow
              \/ CheckEnd \/ UNCHANGED vars
       PROVE UNCHANGED <<term, login, mac_token>>
  BY <1>12 DEF Ping, DeadSeen, ClientClosed, ClosedRow, CheckBegin, CheckRows, CheckLost,
               CheckRow, CheckEnd, vars, tables
<1> QED BY <1>1, <1>2, <1>3, <1>4, <1>5, <1>6, <1>7, <1>8, <1>9, <1>10, <1>11, <1>12
        DEF Next, QueueStep, LoginStep, CheckStep, Environment

LEMMA PendingNext == HeartInv /\ [Next]_vars => Pending'
<1> SUFFICES ASSUME HeartInv, [Next]_vars, check'.pc # "idle", NEW k \in Range(check'.macs),
                    term'[k].token # None, mac_token'[k] = term'[k].token
             PROVE token_status'[term'[k].token] # FALSE
  BY DEF Pending
<1>t. /\ TypeInv /\ Typed /\ KeysInv /\ Owners /\ LoggedIn /\ Pending
      /\ term \in [Macs -> Terms] /\ login \in [Macs -> Logins]
      /\ mac_token \in [Macs -> Tokens \cup {None}]
      /\ token_status \in [Tokens -> BOOLEAN \cup {None}]
      /\ check \in Checks /\ keys \in Seq(Macs)
  BY DEF HeartInv, TypeInv, Typed
<1>m. ASSUME NEW m \in Macs PROVE /\ term[m] \in Terms /\ HasToken(term[m], "off")
                                  /\ login[m] \in Logins /\ HasToken(login[m], "idle")
  BY <1>t DEF Typed
<1>r. ASSUME NEW s \in Seq(Macs) PROVE Range(s) \subseteq Macs
  <2>1. DOMAIN s = 1..Len(s) /\ \A i \in 1..Len(s) : s[i] \in Macs
    BY LenProperties, ElementOfSeq
  <2> QED BY <2>1 DEF Range
<1>k. k \in Macs
  <2>1. check' \in Checks BY <1>t, TypedNext DEF Typed
  <2> QED BY <2>1, <1>r DEF Checks
<1>o. Off.token = None BY DEF Off
<1>a. ASSUME check.pc # "idle", k \in Range(check.macs), term'[k].token = term[k].token,
             mac_token'[k] = mac_token[k],
             token_status'[term[k].token] = FALSE => token_status[term[k].token] = FALSE
      PROVE token_status'[term'[k].token] # FALSE
  BY <1>a, <1>t DEF Pending
<1>u. ASSUME NEW m \in Macs, NEW p, term' = [term EXCEPT ![m].pc = p]
      PROVE term'[k].token = term[k].token
  <2> DEFINE n == [term[m] EXCEPT !.pc = p]
  <2>1. n.token = term[m].token BY <1>m DEF Terms
  <2>2. term' = [term EXCEPT ![m] = n] BY <1>u, <1>t
  <2> HIDE DEF n
  <2> QED BY <2>1, <2>2, <1>t, <1>k
<1> DEFINE Goal == token_status'[term'[k].token] # FALSE
<1>1. ASSUME NEW m \in Macs, Connect(m) PROVE Goal
  <2>1. PICK t \in Tokens :
          /\ Fresh(t) /\ term' = [term EXCEPT ![m] = [pc |-> "wait", token |-> t]]
    BY <1>1 DEF Connect
  <2>2. mac_token' = mac_token /\ check' = check /\ token_status' = token_status
    BY <1>1 DEF Connect, tables
  <2>3. term'[m].token = t /\ \A j \in Macs \ {m} : term'[j] = term[j] BY <2>1, <1>t
  <2>4. mac_token[m] # t BY <2>1 DEF Fresh
  <2>5. k # m BY <2>2, <2>3, <2>4
  <2> QED BY <2>2, <2>3, <2>5, <1>a, <1>k
<1>2. CASE ClientConnected
  <2> DEFINE t == Head(events)[2]
             x(m) == IF term[m] = [pc |-> "wait", token |-> t]
                     THEN [term[m] EXCEPT !.pc = "named"] ELSE term[m]
  <2>1. \A m \in Macs : x(m).token = term[m].token BY <1>m DEF Terms
  <2>2. term' = [m \in Macs |-> x(m)] /\ UNCHANGED <<check, token_status, mac_token>>
    BY <1>2 DEF ClientConnected
  <2> HIDE DEF x
  <2> QED BY <2>1, <2>2, <1>a, <1>k
<1>3. ASSUME NEW m \in Macs, TokenId(m) \/ SendLogin(m) \/ LoginRow(m) PROVE Goal
  <2>1. PICK p : term' = [term EXCEPT ![m].pc = p]
    <3> DEFINE p == IF term[m] = [pc |-> "login", token |-> login[m].token] THEN "up"
                    ELSE term[m].pc
    <3>1. LoginRow(m) => term' = [term EXCEPT ![m].pc = p] BY DEF LoginRow
    <3>2. TokenId(m) => term' = [term EXCEPT ![m].pc = "known"] BY DEF TokenId
    <3>3. SendLogin(m) => term' = [term EXCEPT ![m].pc = "login"] BY DEF SendLogin
    <3> QED BY <1>3, <3>1, <3>2, <3>3
  <2>2. UNCHANGED <<check, token_status, mac_token>>
    BY <1>3 DEF TokenId, SendLogin, LoginRow, tables
  <2>3. term'[k].token = term[k].token BY <2>1, <1>u
  <2> QED BY <2>2, <2>3, <1>a
<1>4. ASSUME NEW m \in Macs, ClientLogin(m) PROVE Goal
  <2> DEFINE t == login[m].token
  <2>1. /\ UNCHANGED <<term, check>> /\ Enter(m, t) /\ t \in Tokens
        /\ token_status' = [token_status EXCEPT ![t] = TRUE]
    BY <1>4, <1>m DEF ClientLogin, HasToken
  <2>2. mac_token'[m] = t /\ \A j \in Macs \ {m} : mac_token'[j] = mac_token[j]
    BY <2>1, <1>t DEF Enter
  <2>3. \A x \in Tokens : token_status'[x] = IF x = t THEN TRUE ELSE token_status[x]
    BY <2>1, <1>t
  <2>4. term[k].token \in Tokens BY <2>1, <1>m, <1>k DEF Terms
  <2>5. CASE k = m BY <2>1, <2>2, <2>3, <2>5
  <2>6. CASE k # m
    <3>1. mac_token'[k] = mac_token[k] BY <2>2, <2>6, <1>k
    <3>2. token_status'[term[k].token] = FALSE => token_status[term[k].token] = FALSE
      BY <2>3, <2>4
    <3> QED BY <2>1, <3>1, <3>2, <1>a
  <2> QED BY <2>5, <2>6
<1>5. ASSUME NEW m \in Macs, Ping(m) PROVE Goal
  <2>1. /\ UNCHANGED <<term, check, mac_token>>
        /\ token_status' = [token_status EXCEPT ![term[m].token] = TRUE]
    BY <1>5 DEF Ping
  <2>2. token_status'[term[k].token] = FALSE => token_status[term[k].token] = FALSE
    BY <2>1, <1>t, <1>k, <1>m DEF Terms
  <2> QED BY <2>1, <2>2, <1>a
<1>6. ASSUME NEW m \in Macs, Disconnect(m) \/ Vanish(m) PROVE Goal
  <2>1. UNCHANGED <<check, token_status, mac_token>> /\ term' = [term EXCEPT ![m] = Off]
    BY <1>6 DEF Disconnect, Vanish, tables
  <2>2. term'[k] = term[k] BY <2>1, <1>t, <1>o, <1>k
  <2> QED BY <2>1, <2>2, <1>a
<1>7. CASE ClosedPop
  <2>1. closer.mac \in Macs /\ UNCHANGED <<term, check>>
    BY <1>7, <1>t DEF ClosedPop, Typed, Closers, IdleCloser
  <2>2. \A j \in Macs : mac_token'[j] \in {mac_token[j], None}
    BY <1>7, <2>1, <1>t, RemoveTyped DEF ClosedPop
  <2>3. token_status' = token_status \/ token_status' = [token_status EXCEPT ![closer.token] = None]
    BY <1>7 DEF ClosedPop
  <2>4. term[k].token \in Tokens BY <2>1, <1>m, <1>k DEF Terms
  <2>5. token_status'[term[k].token] = FALSE => token_status[term[k].token] = FALSE
    BY <2>3, <2>4, <1>t
  <2> QED BY <2>1, <2>2, <2>5, <1>a, <1>k
<1>8. CASE CheckBegin
  <2>1. check'.macs = keys /\ PingsServed /\ UNCHANGED <<term, mac_token, token_status>>
    BY <1>8 DEF CheckBegin, IdleCheck, tables
  <2>2. term[k].pc \in {"login", "up"} BY <2>1, <1>k, <1>t DEF LoggedIn
  <2> QED BY <2>1, <2>2, <1>k DEF PingsServed, Pinging
<1>9. CASE CheckRows \/ CheckLost \/ CheckRow
  <2>1. UNCHANGED <<term, mac_token, token_status>> /\ check.pc # "idle"
    BY <1>9 DEF CheckRows, CheckLost, CheckRow, tables
  <2>2. PICK q, l : check' = [check EXCEPT !.pc = q, !.lost = l]
    BY <1>9 DEF CheckRows, CheckLost, CheckRow
  <2>3. [check EXCEPT !.pc = q, !.lost = l].macs = check.macs BY <1>t DEF Checks
  <2> QED BY <2>1, <2>2, <2>3, <1>a
<1>10. CASE CheckOne
  <2>0. PICK m \in Macs, t \in Tokens \cup {None} :
          /\ check.pc = "each" /\ t = mac_token[m]
          /\ check' = IdleCheck \/ Range(check'.macs) = Range(check.macs) \ {m}
          /\ mac_token' = mac_token \/ Drop(m, t)
          /\ \/ /\ token_status' \in {token_status, [token_status EXCEPT ![t] = FALSE]}
                /\ t = None => token_status' = token_status
             \/ t \in Tokens /\ Drop(m, t)
          /\ \/ UNCHANGED term
             \/ term' = [j \in Macs |-> IF term[j].token = t THEN Off ELSE term[j]]
    BY <1>10, <1>t, CheckOneCases
  <2>1. /\ check.pc = "each" /\ t = mac_token[m]
        /\ check' = IdleCheck \/ Range(check'.macs) = Range(check.macs) \ {m}
        /\ mac_token' = mac_token \/ Drop(m, t)
        /\ \/ token_status' = token_status
           \/ t \in Tokens /\ token_status' = [token_status EXCEPT ![t] = FALSE]
           \/ t \in Tokens /\ token_status' = [token_status EXCEPT ![t] = None]
        /\ \/ UNCHANGED term
           \/ term' = [j \in Macs |-> IF term[j].token = t THEN Off ELSE term[j]]
    BY <2>0 DEF Drop
  <2>2. k \in Range(check.macs) /\ k # m BY <2>1 DEF IdleCheck
  <2>3. mac_token'[k] = mac_token[k] BY <2>1, <2>2, <1>k, <1>t, RemoveTyped DEF Drop
  <2>4. term'[k] = term[k] BY <2>1, <1>k, <1>o
  <2>5. term[k].token # t
    <3>1. term[k].token \in Held(k) BY <2>4 DEF Held
    <3>2. t # None => t \in Held(m) BY <2>1 DEF Held
    <3> QED BY <2>2, <2>4, <3>1, <3>2, <1>t, <1>k DEF Owners
  <2>6. term[k].token \in Tokens BY <2>4, <1>m, <1>k DEF Terms
  <2>7. token_status'[term[k].token] = token_status[term[k].token] BY <2>1, <2>5, <2>6, <1>t
  <2> QED BY <2>1, <2>2, <2>3, <2>4, <2>7, <1>a
<1>11. CASE Restart \/ CheckEnd
  BY <1>11 DEF Restart, CheckEnd, IdleCheck
<1>12. CASE UNCHANGED <<check, term, mac_token, token_status>>
  BY <1>12, <1>a
<1>13. ASSUME \/ \E t \in Tokens : DeadSeen(t)
              \/ ClientClosed \/ ClosedRow \/ UNCHANGED vars
       PROVE UNCHANGED <<check, term, mac_token, token_status>>
  BY <1>13 DEF DeadSeen, ClientClosed, ClosedRow, vars, tables
<1> QED BY <1>1, <1>2, <1>3, <1>4, <1>5, <1>6, <1>7, <1>8, <1>9, <1>10, <1>11, <1>12, <1>13
        DEF Next, QueueStep, LoginStep, CheckStep, Environment

LEMMA HeartInvNext == HeartInv /\ [Next]_vars => HeartInv'
BY TypedNext, KeysInvNext, OwnersNext, LoggedInNext, PendingNext DEF HeartInv, TypeInv

LEMMA HeartbeatStep ==
  ASSUME HeartInv, [Next]_vars, check # check', check'.pc # "idle", NEW k \in Macs,
         term[k].pc # "off"
  PROVE term'[k].pc # "off"
<1>t. /\ TypeInv /\ Owners /\ Pending /\ term[k] \in Terms /\ HasToken(term[k], "off")
      /\ mac_token \in [Macs -> Tokens \cup {None}]
  BY DEF HeartInv, TypeInv, Typed
<1>1. CASE CheckBegin \/ CheckRows \/ CheckLost \/ CheckRow \/ CheckEnd
  BY <1>1 DEF CheckBegin, CheckRows, CheckLost, CheckRow, CheckEnd
<1>2. CASE CheckOne
  <2>1. PICK m \in Macs, t \in Tokens \cup {None} :
          /\ check.pc = "each" /\ m \in Range(check.macs) /\ t = mac_token[m]
          /\ \/ UNCHANGED term
             \/ /\ t \in Tokens /\ token_status[t] = FALSE
                /\ term' = [j \in Macs |-> IF term[j].token = t THEN Off ELSE term[j]]
    BY <1>2, <1>t, CheckOneCases
  <2>2. CASE UNCHANGED term BY <2>2
  <2>3. CASE /\ t \in Tokens /\ token_status[t] = FALSE
             /\ term' = [j \in Macs |-> IF term[j].token = t THEN Off ELSE term[j]]
    <3>1. t # None /\ t \in Held(m) BY <2>1, <2>3 DEF Held
    <3>2. term[k].token = t => t \in Held(k) BY <3>1 DEF Held
    <3>3. term[k].token = t => k = m BY <3>1, <3>2, <1>t DEF Owners
    <3>4. term[k].token # t BY <2>1, <2>3, <3>1, <3>3, <1>t DEF Pending
    <3> QED BY <2>3, <3>4
  <2> QED BY <2>1, <2>2, <2>3
<1>3. CASE Restart BY <1>3 DEF Restart, IdleCheck
<1>4. ASSUME NEW m \in Macs,
             Connect(m) \/ TokenId(m) \/ SendLogin(m) \/ Disconnect(m) \/ Vanish(m)
               \/ ClientLogin(m) \/ LoginRow(m) \/ Ping(m)
      PROVE UNCHANGED check
  BY <1>4 DEF Connect, TokenId, SendLogin, Disconnect, Vanish, ClientLogin, LoginRow, Ping
<1>5. ASSUME QueueStep \/ (\E t \in Tokens : DeadSeen(t)) \/ UNCHANGED vars
      PROVE UNCHANGED check
  BY <1>5 DEF QueueStep, ClientConnected, ClientClosed, ClosedPop, ClosedRow, DeadSeen, vars
<1> QED BY <1>1, <1>2, <1>3, <1>4, <1>5
        DEF Next, QueueStep, LoginStep, CheckStep, Environment

(***************************************************************************)
(* A round of do_status_check never closes the connection of a terminal    *)
(* that pings in time, however the terminals come, log in, go and come     *)
(* back while it runs: the tokens it judges are those of other terminals,  *)
(* or have been entered or confirmed since it began.                       *)
(***************************************************************************)
THEOREM HeartbeatsKeep == Spec => HeartbeatKeeps
<1>1. HeartInv /\ [Next]_vars =>
        [check # check' /\ check'.pc # "idle"
           => \A m \in Macs : term[m].pc # "off" => term'[m].pc # "off"]_vars
  BY HeartbeatStep
<1> QED BY <1>1, HeartInvInit, HeartInvNext, PTL DEF Spec, HeartbeatKeeps
=============================================================================
