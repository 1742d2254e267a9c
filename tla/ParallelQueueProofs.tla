------------------------ MODULE ParallelQueueProofs ------------------------
(***************************************************************************)
(* Proofs about ParallelQueue: its types, the limit on the openings a node *)
(* serves, that it implements BoundedAdmission, and the memory bound of    *)
(* the nodes, for any number of requests, desktops and nodes.  Liveness    *)
(* stays with TLC.                                                         *)
(***************************************************************************)
EXTENDS ParallelQueue, FiniteSetTheorems, WellFoundedInduction, TLAPS

Active(r) == pc[r] # "idle"

(* TypeOK is not inductive: what a handler works on is a desktop only while
   the handler is active, and a retry is left until it is admitted or ends.  *)
ActiveOK ==
  \A r \in Requests :
    /\ Active(r) => target[r] \in Targets
    /\ pc[r] \in {"idle", "announce", "count", "ram", "retreat"} => attempts[r] < MaxAttempts

TypeInv == TypeOK /\ ActiveOK

LEMMA TypeInvInit == Init => TypeInv
<1> SUFFICES ASSUME Init PROVE TypeInv
  OBVIOUS
<1> USE LimitAssumption DEF Init
<1>1. TypeOK
  BY DEF TypeOK, Stages
<1>2. ActiveOK
  BY DEF ActiveOK, Active
<1> QED BY <1>1, <1>2 DEF TypeInv

LEMMA TypeInvStep == TypeInv /\ [Next]_vars => TypeInv'
<1> SUFFICES ASSUME TypeInv, [Next]_vars PROVE TypeInv'
  OBVIOUS
<1> USE LimitAssumption, TargetAssumption DEF TypeInv, TypeOK, ActiveOK, Active, Stages
<1>1. ASSUME NEW r \in Requests, NEW t \in Targets, Arrive(r, t) PROVE TypeInv'
  BY <1>1 DEF Arrive
<1>2. ASSUME NEW r \in Requests, Announce(r) PROVE TypeInv'
  BY <1>2 DEF Announce, Tids
<1>3. ASSUME NEW r \in Requests, Count(r) PROVE TypeInv'
  <2>1. AnnouncedOn(NodeOf[target[r]]) \subseteq Targets
    BY DEF AnnouncedOn, EntriesOn
  <2> QED BY <1>3, <2>1 DEF Count
<1>4. ASSUME NEW r \in Requests, NEW ok \in BOOLEAN, CheckRam(r, ok) PROVE TypeInv'
  BY <1>4 DEF CheckRam
<1>5. ASSUME NEW r \in Requests, Retreat(r) PROVE TypeInv'
  BY <1>5 DEF Retreat, Tids
<1>6. ASSUME NEW r \in Requests, Work(r) PROVE TypeInv'
  BY <1>6 DEF Work
<1>7. ASSUME NEW r \in Requests, Release(r) PROVE TypeInv'
  BY <1>7 DEF Release, Forget, Tids
<1>8. ASSUME NEW t \in Targets, LateStart(t) PROVE TypeInv'
  BY <1>8 DEF LateStart
<1>9. ASSUME NEW t \in Targets, Shutdown(t) PROVE TypeInv'
  BY <1>9 DEF Shutdown
<1>10. ASSUME NEW r \in Requests, Crash(r) PROVE TypeInv'
  BY <1>10 DEF Crash, Forget
<1>11. CASE UNCHANGED vars
  BY <1>11 DEF vars
<1> QED
  BY <1>1, <1>2, <1>3, <1>4, <1>5, <1>6, <1>7, <1>8, <1>9, <1>10, <1>11
     DEF Next, ServerNext, Step

(* The variables of check_concurrency keep their types, whatever requests with
   the same terminal number do to each other's entry.                       *)
THEOREM TypeCorrect == Spec => []TypeOK
<1>1. TypeInv => TypeOK
  BY DEF TypeInv
<1> QED BY <1>1, TypeInvInit, TypeInvStep, PTL DEF Spec

-----------------------------------------------------------------------------
(* The limit.  KeysDistinct and EntryKept make it inductive: the requests
   admitted to a node are as many entries of the queue.                     *)
LimitInv == TypeInv /\ KeysDistinct /\ EntryKept /\ LimitRespected

LEMMA AdmittedFinite ==
  \A n : IsFiniteSet(Admitted(n)) /\ Cardinality(Admitted(n)) \in Nat
BY FiniteAssumption, FS_Subset, FS_CardinalityType DEF Admitted

LEMMA AdmittedShrinks ==
  ASSUME LimitRespected, \A n \in Nodes : Admitted(n)' \subseteq Admitted(n)
  PROVE  LimitRespected'
<1> SUFFICES ASSUME NEW n \in Nodes PROVE Cardinality(Admitted(n)') <= Limit
  BY DEF LimitRespected
<1>1. Cardinality(Admitted(n)') <= Cardinality(Admitted(n))
  BY AdmittedFinite, FS_Subset
<1>2. Cardinality(Admitted(n)') \in Nat
  BY AdmittedFinite, FS_Subset, FS_CardinalityType
<1> QED BY <1>1, <1>2, AdmittedFinite, LimitAssumption DEF LimitRespected

LEMMA EntriesFinite ==
  \A n : IsFiniteSet(EntriesOn(n)) /\ Cardinality(EntriesOn(n)) \in Nat
<1>1. IsFiniteSet(Tids)
  <2> DEFINE f == [t \in Targets |-> Tid[t]]
  <2>1. f \in Surjection(Targets, Tids)
    BY DEF Surjection, Tids
  <2> QED BY <2>1, FiniteAssumption, FS_Surjection
<1> QED BY <1>1, FS_Subset, FS_CardinalityType DEF EntriesOn

(* The requests that a node's limit counts, and one more that has announced
   itself, have an entry of the queue each.                                 *)
LEMMA EntriesCover ==
  ASSUME TypeInv, KeysDistinct, EntryKept, NEW n \in Nodes, NEW r \in Requests,
         pc[r] = "count", NodeOf[target[r]] = n
  PROVE  Cardinality(Admitted(n) \cup {r}) <= Cardinality(EntriesOn(n))
<1> DEFINE S == Admitted(n) \cup {r}
           f == [q \in S |-> Tid[target[q]]]
<1>1. \A q \in S : /\ q \in Requests
                   /\ Active(q)
                   /\ target[q] \in Targets
                   /\ queue[Tid[target[q]]] = target[q]
                   /\ NodeOf[target[q]] = n
  BY DEF Admitted, Active, TypeInv, ActiveOK, EntryKept
<1>2. f \in [S -> EntriesOn(n)]
  BY <1>1, TargetAssumption DEF EntriesOn, Tids
<1>3. \A p, q \in S : f[p] = f[q] => p = q
  BY <1>1 DEF KeysDistinct, Active
<1>4. f \in Injection(S, EntriesOn(n))
  BY <1>2, <1>3 DEF Injection, IsInjective
<1> QED BY <1>4, EntriesFinite, FS_Injection

LEMMA LimitInvStep == LimitInv /\ [NextDistinct]_vars => LimitInv'
<1> SUFFICES ASSUME LimitInv, [NextDistinct]_vars PROVE LimitInv'
  OBVIOUS
<1> USE DEF LimitInv
<1>1. TypeInv'
  BY TypeInvStep DEF NextDistinct
<1>2. KeysDistinct'
  BY DEF NextDistinct, KeysDistinct, vars
<1>3. EntryKept'
  <2> SUFFICES ASSUME NEW r \in Requests, pc'[r] \in {"count", "ram", "admitted"}
               PROVE  queue'[Tid[target'[r]]] = target'[r]
    BY DEF EntryKept
  <2> USE DEF TypeInv, TypeOK, ActiveOK, Active
  <2>1. ASSUME NEW q \in Requests, NEW t \in Targets, Arrive(q, t)
        PROVE  queue'[Tid[target'[r]]] = target'[r]
    BY <2>1 DEF Arrive, EntryKept
  <2>2. ASSUME NEW q \in Requests, Announce(q)
        PROVE  queue'[Tid[target'[r]]] = target'[r]
    BY <2>2 DEF Announce, EntryKept, KeysDistinct, Tids
  <2>3. ASSUME NEW q \in Requests, Retreat(q)
        PROVE  queue'[Tid[target'[r]]] = target'[r]
    BY <2>3 DEF Retreat, EntryKept, KeysDistinct, Tids
  <2>4. ASSUME NEW q \in Requests, Release(q)
        PROVE  queue'[Tid[target'[r]]] = target'[r]
    BY <2>4 DEF Release, Forget, EntryKept, KeysDistinct, Tids
  <2>5. ASSUME NEW q \in Requests, Crash(q)
        PROVE  queue'[Tid[target'[r]]] = target'[r]
    BY <2>5 DEF Crash, Forget, EntryKept
  <2>6. ASSUME NEW q \in Requests, \/ Count(q)
                                   \/ \E ok \in BOOLEAN : CheckRam(q, ok)
                                   \/ Work(q)
        PROVE  queue'[Tid[target'[r]]] = target'[r]
    BY <2>6 DEF Count, CheckRam, Work, EntryKept
  <2>7. ASSUME \E t \in Targets : LateStart(t) \/ Shutdown(t)
        PROVE  queue'[Tid[target'[r]]] = target'[r]
    BY <2>7 DEF LateStart, Shutdown, EntryKept
  <2>8. CASE UNCHANGED vars
    BY <2>8 DEF vars, EntryKept
  <2> QED BY <2>1, <2>2, <2>3, <2>4, <2>5, <2>6, <2>7, <2>8
             DEF NextDistinct, Next, ServerNext, Step
<1>4. LimitRespected'
  <2> USE DEF TypeInv, TypeOK, Admitted
  <2>1. ASSUME NEW r \in Requests, Count(r) PROVE LimitRespected'
    <3> SUFFICES ASSUME NEW n \in Nodes PROVE Cardinality(Admitted(n)') <= Limit
      BY DEF LimitRespected
    <3>1. CASE NodeOf[target[r]] = n /\ Cardinality(EntriesOn(n)) <= Limit
      <4>1. Admitted(n)' \subseteq Admitted(n) \cup {r}
        BY <2>1 DEF Count
      <4>2. IsFiniteSet(Admitted(n) \cup {r})
        BY FiniteAssumption, FS_Subset
      <4>3. Cardinality(Admitted(n)') <= Cardinality(Admitted(n) \cup {r})
        BY <4>1, <4>2, FS_Subset
      <4>4. Cardinality(Admitted(n) \cup {r}) <= Cardinality(EntriesOn(n))
        BY <2>1, <3>1, EntriesCover DEF Count
      <4>5. Cardinality(Admitted(n)') \in Nat /\ Cardinality(Admitted(n) \cup {r}) \in Nat
        BY <4>1, <4>2, FS_Subset, FS_CardinalityType
      <4> HIDE DEF Admitted
      <4> QED BY <3>1, <4>3, <4>4, <4>5, EntriesFinite, LimitAssumption
    <3>2. CASE ~ (NodeOf[target[r]] = n /\ Cardinality(EntriesOn(n)) <= Limit)
      <4>1. Admitted(n)' \subseteq Admitted(n)
        <5>1. Cardinality(EntriesOn(n)) > Limit \/ NodeOf[target[r]] # n
          BY <3>2, EntriesFinite, LimitAssumption
        <5> QED BY <2>1, <5>1 DEF Count
      <4>2. Cardinality(Admitted(n)') <= Cardinality(Admitted(n))
        BY <4>1, AdmittedFinite, FS_Subset
      <4>3. Cardinality(Admitted(n)') \in Nat
        BY ZenonT(60), <4>1, AdmittedFinite, FS_Subset, FS_CardinalityType
      <4> HIDE DEF Admitted
      <4> QED BY <4>2, <4>3, AdmittedFinite, LimitAssumption DEF LimitRespected
    <3> QED BY <3>1, <3>2
  <2>2. ASSUME \A n \in Nodes : Admitted(n)' \subseteq Admitted(n) PROVE LimitRespected'
    BY <2>2, AdmittedShrinks
  <2>3. ASSUME NEW r \in Requests, NEW t \in Targets, Arrive(r, t)
        PROVE  \A n \in Nodes : Admitted(n)' \subseteq Admitted(n)
    BY <2>3 DEF Arrive
  <2>4. ASSUME NEW r \in Requests, Announce(r) \/ Retreat(r) \/ Work(r)
        PROVE  \A n \in Nodes : Admitted(n)' \subseteq Admitted(n)
    BY <2>4 DEF Announce, Retreat, Work
  <2>5. ASSUME NEW r \in Requests, NEW ok \in BOOLEAN, CheckRam(r, ok)
        PROVE  \A n \in Nodes : Admitted(n)' \subseteq Admitted(n)
    BY <2>5 DEF CheckRam
  <2>6. ASSUME NEW r \in Requests, Release(r) \/ Crash(r)
        PROVE  \A n \in Nodes : Admitted(n)' \subseteq Admitted(n)
    BY <2>6 DEF Release, Crash, Forget
  <2>7. ASSUME \/ \E t \in Targets : LateStart(t) \/ Shutdown(t)
               \/ UNCHANGED vars
        PROVE  \A n \in Nodes : Admitted(n)' \subseteq Admitted(n)
    BY <2>7 DEF LateStart, Shutdown, vars
  <2> HIDE DEF Admitted
  <2> QED BY <2>1, <2>2, <2>3, <2>4, <2>5, <2>6, <2>7
             DEF NextDistinct, Next, ServerNext, Step
<1> QED BY <1>1, <1>2, <1>3, <1>4

LEMMA LimitInvInit == Init => LimitInv
<1> SUFFICES ASSUME Init PROVE LimitInv
  OBVIOUS
<1>1. TypeInv
  BY TypeInvInit
<1>2. KeysDistinct /\ EntryKept
  BY DEF Init, KeysDistinct, EntryKept
<1>3. LimitRespected
  <2> SUFFICES ASSUME NEW n \in Nodes PROVE Cardinality(Admitted(n)) <= Limit
    BY DEF LimitRespected
  <2>1. Admitted(n) = {}
    BY DEF Init, Admitted
  <2> QED BY <2>1, FS_EmptySet, LimitAssumption
<1> QED BY <1>1, <1>2, <1>3 DEF LimitInv

(* A node never serves more than PARALELL_NUM openings at once, for any number
   of terminals, as long as no two requests in flight have the same number.  *)
THEOREM LimitHolds == SpecDistinct => []LimitRespected
<1>1. LimitInv => LimitRespected
  BY DEF LimitInv
<1> QED BY <1>1, LimitInvInit, LimitInvStep, PTL DEF SpecDistinct

(* Nor does an opening lose its entry of the queue to another one.            *)
THEOREM EntriesHold == SpecDistinct => []EntryKept
<1>1. LimitInv => EntryKept
  BY DEF LimitInv
<1> QED BY <1>1, LimitInvInit, LimitInvStep, PTL DEF SpecDistinct

-----------------------------------------------------------------------------
(* The refinement: a count that passes takes a place, an answer of no, a
   finished domain start or a crash gives it back, and nothing else shows.   *)
Inside == [n \in Nodes |-> Admitted(n)]

LEMMA PlaceTaken ==
  ASSUME LimitInv, NEW r \in Requests, Count(r)
  PROVE  \/ \E n \in Nodes : Places!Enter(r, n)
         \/ Inside' = Inside
<1> DEFINE n == NodeOf[target[r]]
<1> USE DEF LimitInv, TypeInv, TypeOK
<1>1. target[r] \in Targets /\ n \in Nodes
  BY DEF Count, ActiveOK, Active, Nodes
<1>2. CASE pc'[r] = "ram"
  <2>1. Cardinality(EntriesOn(n)) <= Limit
    BY <1>2, EntriesFinite, LimitAssumption DEF Count
  <2>2. \A m : r \notin Admitted(m)
    BY DEF Count, Admitted
  <2>3. Cardinality(Admitted(n) \cup {r}) = Cardinality(Admitted(n)) + 1
    BY <2>2, AdmittedFinite, FS_AddElement
  <2>4. Cardinality(Admitted(n) \cup {r}) <= Cardinality(EntriesOn(n))
    BY <1>1, EntriesCover DEF Count
  <2>5. Cardinality(Admitted(n)) < Limit
    BY <2>1, <2>3, <2>4, AdmittedFinite, EntriesFinite, LimitAssumption
  <2>6. \A m \in Nodes : Admitted(m)' = IF m = n THEN Admitted(m) \cup {r} ELSE Admitted(m)
    BY <1>2 DEF Count, Admitted
  <2>7. Inside' = [Inside EXCEPT ![n] = @ \cup {r}]
    BY <2>6, <1>1 DEF Inside
  <2>8. Places!Enter(r, n)
    <3>1. \A m \in Nodes : r \notin Inside[m]
      BY <2>2 DEF Inside
    <3>2. Cardinality(Inside[n]) < Limit
      BY <1>1, <2>5 DEF Inside
    <3>3. Places!Cardinality(Inside[n]) = Cardinality(Inside[n])
      BY DEF Places!Cardinality, Cardinality
    <3> QED BY <2>7, <3>1, <3>2, <3>3 DEF Places!Enter, Inside
  <2> HIDE DEF n
  <2> QED BY <1>1, <2>8
<1>3. CASE pc'[r] # "ram"
  <2>1. \A m \in Nodes : Admitted(m)' = Admitted(m)
    BY <1>3 DEF Count, Admitted
  <2> QED BY <2>1 DEF Inside
<1> QED BY <1>2, <1>3

LEMMA PlaceGivenBack ==
  ASSUME LimitInv, NEW r \in Requests,
         pc[r] \in {"ram", "admitted"},
         pc'[r] \notin {"ram", "admitted"},
         \A q \in Requests \ {r} : pc'[q] = pc[q] /\ target'[q] = target[q]
  PROVE  \E n \in Nodes : Places!Leave(r, n)
<1> DEFINE n == NodeOf[target[r]]
<1>1. target[r] \in Targets /\ n \in Nodes /\ r \in Admitted(n)
  BY DEF LimitInv, TypeInv, ActiveOK, Active, Nodes, Admitted
<1>2. \A m \in Nodes : Admitted(m)' = IF m = n THEN Admitted(m) \ {r} ELSE Admitted(m)
  BY DEF Admitted
<1>3. Inside' = [Inside EXCEPT ![n] = @ \ {r}]
  BY <1>1, <1>2 DEF Inside
<1> QED BY <1>1, <1>3 DEF Places!Leave, Inside

LEMMA PlacesStep == LimitInv /\ [NextDistinct]_vars => [Places!Next]_Inside
<1> SUFFICES ASSUME LimitInv, [NextDistinct]_vars PROVE Places!Next \/ Inside' = Inside
  OBVIOUS
<1> USE DEF LimitInv, TypeInv, TypeOK
<1>1. ASSUME NEW r \in Requests, Count(r) PROVE Places!Next \/ Inside' = Inside
  BY <1>1, PlaceTaken DEF Places!Next
<1>2. ASSUME NEW r \in Requests,
             pc[r] \in {"ram", "admitted"}, pc'[r] \notin {"ram", "admitted"},
             \A q \in Requests \ {r} : pc'[q] = pc[q] /\ target'[q] = target[q]
      PROVE  Places!Next \/ Inside' = Inside
  BY <1>2, PlaceGivenBack DEF Places!Next
<1>3. ASSUME \A m \in Nodes : Admitted(m)' = Admitted(m) PROVE Inside' = Inside
  BY <1>3 DEF Inside
<1>4. ASSUME NEW r \in Requests, NEW t \in Targets, Arrive(r, t)
      PROVE  \A m \in Nodes : Admitted(m)' = Admitted(m)
  BY <1>4 DEF Arrive, Admitted
<1>5. ASSUME NEW r \in Requests, Announce(r) \/ Retreat(r) \/ Release(r)
      PROVE  \A m \in Nodes : Admitted(m)' = Admitted(m)
  BY <1>5 DEF Announce, Retreat, Release, Forget, Admitted
<1>6. ASSUME NEW r \in Requests, NEW ok \in BOOLEAN, CheckRam(r, ok)
      PROVE  Places!Next \/ Inside' = Inside
  <2>1. CASE pc'[r] = "admitted"
    <3>1. \A m \in Nodes : Admitted(m)' = Admitted(m)
      BY <1>6, <2>1 DEF CheckRam, Admitted
    <3> QED BY <3>1, <1>3
  <2>2. CASE pc'[r] # "admitted"
    BY <1>6, <2>2, <1>2 DEF CheckRam
  <2> QED BY <2>1, <2>2
<1>7. ASSUME NEW r \in Requests, Work(r) PROVE Places!Next \/ Inside' = Inside
  BY <1>7, <1>2 DEF Work
<1>8. ASSUME NEW r \in Requests, Crash(r) PROVE Places!Next \/ Inside' = Inside
  <2>1. CASE pc[r] \in {"ram", "admitted"}
    BY <1>8, <2>1, <1>2 DEF Crash, Forget
  <2>2. CASE pc[r] \notin {"ram", "admitted"}
    <3>1. \A m \in Nodes : Admitted(m)' = Admitted(m)
      BY <1>8, <2>2 DEF Crash, Forget, Admitted
    <3> QED BY <3>1, <1>3
  <2> QED BY <2>1, <2>2
<1>9. ASSUME (\E t \in Targets : LateStart(t) \/ Shutdown(t)) \/ UNCHANGED vars
      PROVE  \A m \in Nodes : Admitted(m)' = Admitted(m)
  BY <1>9 DEF LateStart, Shutdown, vars, Admitted
<1> QED BY <1>1, <1>3, <1>4, <1>5, <1>6, <1>7, <1>8, <1>9
           DEF NextDistinct, Next, ServerNext, Step

(* check_concurrency implements Limit places per node, taken in one step.     *)
THEOREM Implements == SpecDistinct => ImplementsPlaces
<1>1. Init => Places!Init
  BY DEF Init, Places!Init, Admitted
<1>2. LimitInv /\ [NextDistinct]_vars => [Places!Next]_Inside
  BY PlacesStep
<1> QED BY <1>1, <1>2, LimitInvInit, LimitInvStep, PTL
        DEF SpecDistinct, ImplementsPlaces, Places!Spec, Inside

-----------------------------------------------------------------------------
(* The memory of a set of desktops.  The fold that sums it takes the desktops in
   an order of its own; the lemmas say that the order makes no difference.   *)
Pick(S) == CHOOSE t \in S : TRUE
SumStep(f, S) == IF S = {} THEN 0 ELSE Ram[Pick(S)] + f[S \ {Pick(S)}]
SumFun(S) == CHOOSE f : f = [s \in SUBSET S |-> SumStep(f, s)]

LEMMA RamOfIsSum == \A S : RamOf(S) = SumFun(S)[S]
BY DEF RamOf, MapThenSumSet, MapThenFoldSet, SumFun, SumStep, Pick

\* Complete induction, over a set in place of a predicate
LEMMA AllNumbers ==
  ASSUME NEW Q, \A n \in Nat : (\A m \in 0..(n - 1) : m \in Q) => n \in Q
  PROVE  \A n \in Nat : n \in Q
<1> DEFINE Bad == {n \in Nat : n \notin Q}
<1> SUFFICES ASSUME Bad # {} PROVE FALSE
  OBVIOUS
<1>1. IsWellFoundedOn(OpToRel(<, Nat), Nat)
  BY NatLessThanWellFounded
<1>2. PICK n \in Bad : \A m \in Bad : ~(<<m, n>> \in OpToRel(<, Nat))
  <2>1. Bad \subseteq Nat
    OBVIOUS
  <2> QED BY <1>1, <2>1, WFMin
<1>3. \A m \in 0..(n - 1) : m \in Q
  <2> SUFFICES ASSUME NEW m \in 0..(n - 1), m \notin Q PROVE FALSE
    OBVIOUS
  <2>1. m \in Nat /\ m < n /\ n \in Nat
    OBVIOUS
  <2>2. <<m, n>> \in OpToRel(<, Nat)
    BY <2>1 DEF OpToRel
  <2> QED BY <1>2, <2>1, <2>2
<1> QED BY <1>3

LEMMA TargetSets ==
  ASSUME NEW S \in SUBSET Targets
  PROVE  /\ IsFiniteSet(S) /\ Cardinality(S) \in Nat
         /\ Cardinality(S) = 0 <=> S = {}
         /\ \A t \in S : Cardinality(S \ {t}) = Cardinality(S) - 1
         /\ S # {} => Pick(S) \in S
<1>1. IsFiniteSet(S)
  BY FiniteAssumption, FS_Subset
<1>2. Cardinality(S) \in Nat
  BY <1>1, FS_CardinalityType
<1>3. Cardinality(S) = 0 <=> S = {}
  BY <1>1, FS_EmptySet
<1>4. ASSUME NEW t \in S PROVE Cardinality(S \ {t}) = Cardinality(S) - 1
  BY <1>1, FS_RemoveElement
<1>5. S # {} => Pick(S) \in S
  BY DEF Pick
<1> QED BY <1>1, <1>2, <1>3, <1>4, <1>5

(* A function that sums as the fold does, for all sets of desktops at once     *)
Sums(F) ==
  /\ F \in [SUBSET Targets -> Nat]
  /\ \A S \in SUBSET Targets : F[S] = SumStep(F, S)

LEMMA SumsExist == \E F : Sums(F)
<1> DEFINE Small(k) == {S \in SUBSET Targets : Cardinality(S) <= k}
           Fits(f, k) == /\ f \in [Small(k) -> Nat]
                         /\ \A S \in Small(k) : f[S] = SumStep(f, S)
           Q == {k \in Nat : \E f : Fits(f, k)}
<1>1. 0 \in Q
  <2> DEFINE f == [S \in Small(0) |-> 0]
  <2>1. \A S \in Small(0) : S = {}
    BY TargetSets
  <2>2. Fits(f, 0)
    BY <2>1 DEF SumStep
  <2> HIDE DEF Fits, f
  <2> QED BY <2>2
<1>2. ASSUME NEW k \in Nat \ {0}, k - 1 \in Q PROVE k \in Q
  <2>1. PICK f : Fits(f, k - 1)
    BY <1>2
  <2> DEFINE g == [S \in Small(k) |-> IF Cardinality(S) <= k - 1 THEN f[S] ELSE SumStep(f, S)]
  <2>2. ASSUME NEW S \in Small(k), S # {}
        PROVE  /\ Pick(S) \in S /\ S \ {Pick(S)} \in Small(k - 1)
               /\ S \ {Pick(S)} \in Small(k)
    <3>1. Pick(S) \in S /\ Cardinality(S \ {Pick(S)}) = Cardinality(S) - 1 /\ Cardinality(S) \in Nat
      BY <2>2, TargetSets
    <3> QED BY <3>1
  <2>3. ASSUME NEW S \in Small(k), S # {}
        PROVE  SumStep(f, S) \in Nat /\ g[S \ {Pick(S)}] = f[S \ {Pick(S)}]
    <3>1. Ram[Pick(S)] \in Nat
      BY <2>2, <2>3, TargetAssumption
    <3>2. f[S \ {Pick(S)}] \in Nat
      BY <2>1, <2>2, <2>3
    <3>3. g[S \ {Pick(S)}] = f[S \ {Pick(S)}]
      BY <2>2, <2>3
    <3> QED BY <2>3, <3>1, <3>2, <3>3 DEF SumStep
  <2>4. ASSUME NEW S \in Small(k) PROVE g[S] \in Nat /\ g[S] = SumStep(g, S)
    <3>1. CASE S = {}
      <4>1. S \in Small(k - 1)
        BY <3>1, TargetSets
      <4>2. f[S] = 0
        BY <2>1, <3>1, <4>1 DEF SumStep
      <4> QED BY <3>1, <4>1, <4>2 DEF SumStep
    <3>2. CASE S # {}
      <4>0. g[S \ {Pick(S)}] = f[S \ {Pick(S)}]
        BY <2>3, <3>2
      <4>1. SumStep(g, S) = SumStep(f, S)
        <5> HIDE DEF g, Small
        <5> QED BY <4>0, <3>2 DEF SumStep
      <4>2. Cardinality(S) <= k - 1 => f[S] = SumStep(f, S)
        BY <2>1
      <4>3. g[S] = SumStep(f, S)
        BY <4>2
      <4> QED BY <2>3, <3>2, <4>1, <4>3
    <3> QED BY <3>1, <3>2
  <2>5. Fits(g, k)
    <3>1. g \in [Small(k) -> Nat]
      BY <2>4
    <3> HIDE DEF g, Small
    <3> QED BY <2>4, <3>1
  <2> HIDE DEF g, Fits
  <2> QED BY <2>5
<1>3. \A n \in Nat : n \in Q
  <2>1. ASSUME NEW n \in Nat, \A m \in 0..(n - 1) : m \in Q PROVE n \in Q
    <3> HIDE DEF Q
    <3>1. CASE n = 0
      BY <3>1, <1>1
    <3>2. CASE n # 0
      <4>1. n - 1 \in 0..(n - 1) /\ n \in Nat \ {0}
        BY <3>2
      <4> QED BY <2>1, <4>1, <1>2
    <3> QED BY <3>1, <3>2
  <2> HIDE DEF Q
  <2> QED BY <2>1, AllNumbers
<1>4. PICK k \in Nat : k = Cardinality(Targets)
  BY TargetSets
<1>5. ASSUME NEW S \in SUBSET Targets PROVE S \in Small(k)
  <2>1. Cardinality(S) <= Cardinality(Targets)
    BY FiniteAssumption, FS_Subset
  <2> QED BY <1>4, <2>1
<1>6. Small(k) = SUBSET Targets
  BY <1>5
<1>7. PICK f : Fits(f, k)
  BY <1>3
<1> HIDE DEF Small
<1> QED BY <1>6, <1>7 DEF Sums

LEMMA RamOfIs ==
  ASSUME NEW F, Sums(F), NEW S \in SUBSET Targets
  PROVE  RamOf(S) = F[S]
<1> DEFINE h == [s \in SUBSET S |-> F[s]]
<1>1. ASSUME NEW s \in SUBSET S PROVE h[s] = SumStep(h, s) /\ s \in SUBSET Targets
  <2>1. s \ {Pick(s)} \in SUBSET S /\ s \in SUBSET Targets
    OBVIOUS
  <2>2. h[s \ {Pick(s)}] = F[s \ {Pick(s)}]
    BY <2>1
  <2>3. h[s] = SumStep(F, s)
    BY <2>1 DEF Sums
  <2> QED BY <2>1, <2>2, <2>3 DEF SumStep
<1>2. h = [s \in SUBSET S |-> SumStep(h, s)]
  BY <1>1
<1> DEFINE g == SumFun(S)
<1>3. g = [s \in SUBSET S |-> SumStep(g, s)]
  <2> HIDE DEF h
  <2> QED BY <1>2 DEF SumFun
<1> HIDE DEF g, h
<1> DEFINE Q == {k \in Nat : \A s \in SUBSET S : Cardinality(s) = k => g[s] = F[s]}
<1>4. ASSUME NEW k \in Nat, \A m \in 0..(k - 1) : m \in Q PROVE k \in Q
  <2> SUFFICES ASSUME NEW s \in SUBSET S, Cardinality(s) = k PROVE g[s] = F[s]
    OBVIOUS
  <2>1. g[s] = SumStep(g, s) /\ F[s] = SumStep(F, s)
    BY <1>3, <1>1 DEF Sums
  <2>2. CASE s = {}
    BY <2>1, <2>2 DEF SumStep
  <2>3. CASE s # {}
    <3>1. PICK p : p = Pick(s)
      OBVIOUS
    <3>2. /\ Cardinality(s \ {p}) = k - 1 /\ k # 0
      BY <1>1, <2>3, <3>1, TargetSets
    <3>3. k - 1 \in 0..(k - 1) /\ s \ {p} \in SUBSET S
      BY <3>2
    <3>4. g[s \ {p}] = F[s \ {p}]
      BY <1>4, <3>2, <3>3
    <3> QED BY <2>1, <2>3, <3>1, <3>4 DEF SumStep
  <2> QED BY <2>2, <2>3
<1>5. \A k \in Nat : k \in Q
  <2> HIDE DEF Q
  <2> QED BY <1>4, AllNumbers
<1>6. Cardinality(S) \in Nat
  BY TargetSets
<1>7. g[S] = F[S]
  BY <1>5, <1>6
<1> QED BY <1>7, RamOfIsSum DEF g

LEMMA RamOfSplits ==
  /\ \A S \in SUBSET Targets : RamOf(S) \in Nat
  /\ \A S \in SUBSET Targets : \A t \in S : RamOf(S) = Ram[t] + RamOf(S \ {t})
<1>1. PICK F : Sums(F)
  BY SumsExist
<1>2. \A S \in SUBSET Targets : RamOf(S) = F[S] /\ F[S] \in Nat
  BY <1>1, RamOfIs DEF Sums
<1> DEFINE Q == {k \in Nat : \A S \in SUBSET Targets : Cardinality(S) = k =>
                               \A t \in S : F[S] = Ram[t] + F[S \ {t}]}
<1>3. ASSUME NEW k \in Nat, \A m \in 0..(k - 1) : m \in Q PROVE k \in Q
  <2> SUFFICES ASSUME NEW S \in SUBSET Targets, Cardinality(S) = k, NEW t \in S
               PROVE  F[S] = Ram[t] + F[S \ {t}]
    OBVIOUS
  <2>1. PICK p : p = Pick(S)
    OBVIOUS
  <2>2. p \in S /\ F[S] = Ram[p] + F[S \ {p}]
    BY <1>1, <2>1 DEF Sums, SumStep, Pick
  <2>3. CASE p = t
    BY <2>2, <2>3
  <2>4. CASE p # t
    <3>1. /\ Cardinality(S \ {p}) = k - 1 /\ Cardinality(S \ {t}) = k - 1 /\ k # 0
      BY <2>2, TargetSets
    <3>2. k - 1 \in Q
      <4>1. k - 1 \in 0..(k - 1)
        BY <3>1
      <4> QED BY <1>3, <4>1
    <3>3. F[S \ {p}] = Ram[t] + F[(S \ {p}) \ {t}]
      BY <2>4, <3>1, <3>2
    <3>4. F[S \ {t}] = Ram[p] + F[(S \ {t}) \ {p}]
      BY <2>2, <2>4, <3>1, <3>2
    <3>5. PICK U \in SUBSET Targets : U = (S \ {p}) \ {t} /\ U = (S \ {t}) \ {p}
      OBVIOUS
    <3>6. F[U] \in Nat /\ Ram[p] \in Nat /\ Ram[t] \in Nat
      BY <1>2, <2>2, TargetAssumption
    <3>7. F[S] = Ram[p] + (Ram[t] + F[U])
      BY <2>2, <3>3, <3>5
    <3>8. F[S \ {t}] = Ram[p] + F[U]
      BY <3>4, <3>5
    <3>9. Ram[p] + (Ram[t] + F[U]) = Ram[t] + (Ram[p] + F[U])
      BY <3>6
    <3> QED BY <3>7, <3>8, <3>9
  <2> QED BY <2>3, <2>4
<1>4. \A k \in Nat : k \in Q
  <2> HIDE DEF Q
  <2> QED BY <1>3, AllNumbers
<1>5. ASSUME NEW S \in SUBSET Targets, NEW t \in S PROVE F[S] = Ram[t] + F[S \ {t}]
  BY <1>4, TargetSets
<1> QED BY <1>2, <1>5

LEMMA RamOfGrows ==
  ASSUME NEW T \in SUBSET Targets, NEW S \in SUBSET T
  PROVE  RamOf(S) <= RamOf(T)
<1> DEFINE Q == {k \in Nat : \A U \in SUBSET Targets : Cardinality(U) = k /\ S \subseteq U =>
                               RamOf(S) <= RamOf(U)}
<1>1. ASSUME NEW k \in Nat, \A m \in 0..(k - 1) : m \in Q PROVE k \in Q
  <2> SUFFICES ASSUME NEW U \in SUBSET Targets, Cardinality(U) = k, S \subseteq U
               PROVE  RamOf(S) <= RamOf(U)
    OBVIOUS
  <2>1. RamOf(S) \in Nat /\ RamOf(U) \in Nat
    BY RamOfSplits
  <2>2. CASE S = U
    BY <2>1, <2>2
  <2>3. CASE S # U
    <3>1. PICK t \in U : t \notin S
      BY <2>3
    <3>2. PICK V \in SUBSET Targets : V = U \ {t}
      OBVIOUS
    <3>3. Cardinality(V) = k - 1 /\ k # 0
      BY <3>2, TargetSets
    <3>4. k - 1 \in 0..(k - 1)
      BY <3>3
    <3>5. RamOf(S) <= RamOf(V)
      BY <1>1, <3>1, <3>2, <3>3, <3>4
    <3>6. RamOf(U) = Ram[t] + RamOf(V) /\ RamOf(V) \in Nat /\ Ram[t] \in Nat
      BY <3>2, RamOfSplits, TargetAssumption
    <3> QED BY <2>1, <3>5, <3>6
  <2> QED BY <2>2, <2>3
<1>2. \A k \in Nat : k \in Q
  <2> HIDE DEF Q
  <2> QED BY <1>1, AllNumbers
<1> QED BY <1>2, TargetSets

-----------------------------------------------------------------------------
(* The memory bound.  A request that asks for memory asks for the desktops it
   saw when it counted, and not for those that were announced afterwards; but
   then these have seen it.  What a node has granted fits together with all of
   a set of openings (granted) that the last to be granted had seen, and who asks
   and is not in that set has seen the whole of it.

   The state does not tell which requests were behind the desktops in seen: a
   desktop can be withdrawn and announced again.  MemoryInv says that there is
   an assignment (saw) of requests that makes it so.                         *)
Live(n) == {r \in Requests : pc[r] \in {"count", "ram", "admitted"} /\ NodeOf[target[r]] = n}

TargetsOf(R) == {target[r] : r \in R}
Need(R) == TargetsOf(R) \ running

Asks(r, n) == pc[r] = "ram" /\ NodeOf[target[r]] = n

SawOK(saw) ==
  \A n \in Nodes : \A r \in Requests : Asks(r, n) =>
    /\ r \in saw[r] /\ saw[r] \subseteq Live(n) /\ TargetsOf(saw[r]) \subseteq seen[r]
    /\ \A q \in Requests : Asks(q, n) => q \in saw[r] \/ saw[r] \subseteq saw[q]

GrantedOK(saw, granted) ==
  \A n \in Nodes :
    /\ granted[n] \subseteq Live(n)
    /\ \A r \in Requests : pc[r] = "admitted" /\ NodeOf[target[r]] = n => r \in granted[n]
    /\ \A r \in Requests : Asks(r, n) => r \in granted[n] \/ granted[n] \subseteq saw[r]
    /\ RamOf(Need(granted[n])) <= Available(n)

Remembered(saw, granted) == SawOK(saw) /\ GrantedOK(saw, granted)

Subsets(X) == [X -> SUBSET Requests]
MemoryInv ==
  /\ LimitInv /\ late = {}
  /\ \E saw \in Subsets(Requests), granted \in Subsets(Nodes) : Remembered(saw, granted)

LEMMA MemoryTypes ==
  ASSUME TypeInv
  PROVE  /\ \A R \in SUBSET Requests : (\A r \in R : pc[r] # "idle") => Need(R) \in SUBSET Targets
         /\ \A n : Live(n) \in SUBSET Requests /\ \A r \in Live(n) : pc[r] # "idle"
         /\ \A n \in Nodes : Available(n) \in Int
         /\ \A r \in Requests : pc[r] # "idle" => target[r] \in Targets /\ NodeOf[target[r]] \in Nodes
         /\ \A r \in Requests : seen[r] \in SUBSET Targets
         /\ running \in SUBSET Targets
<1>1. \A r \in Requests : pc[r] # "idle" => target[r] \in Targets
  BY DEF TypeInv, ActiveOK, Active
<1>2. \A R \in SUBSET Requests : (\A r \in R : pc[r] # "idle") => Need(R) \in SUBSET Targets
  BY <1>1 DEF Need, TargetsOf
<1>3. running \in SUBSET Targets /\ \A r \in Requests : seen[r] \in SUBSET Targets
  BY DEF TypeInv, TypeOK
<1>4. ASSUME NEW n \in Nodes PROVE Available(n) \in Int
  <2>1. PICK S \in SUBSET Targets : S = {t \in running : NodeOf[t] = n}
    BY <1>3
  <2>2. RamOf(S) \in Nat /\ Memory[n] \in Nat
    BY RamOfSplits, TargetAssumption
  <2> QED BY <2>1, <2>2 DEF Available
<1>5. \A n : Live(n) \in SUBSET Requests /\ \A r \in Live(n) : pc[r] # "idle"
  BY DEF Live
<1> QED BY <1>1, <1>2, <1>3, <1>4, <1>5 DEF Nodes

(* A request leaves the queue's protocol, or has not entered it: nothing that was
   remembered of the others changes.                                         *)
LEMMA Leaving ==
  ASSUME TypeInv, NEW saw \in Subsets(Requests), NEW granted \in Subsets(Nodes),
         Remembered(saw, granted), NEW x \in Requests,
         pc'[x] \notin {"count", "ram", "admitted"},
         \A r \in Requests \ {x} : pc'[r] = pc[r] /\ target'[r] = target[r] /\ seen'[r] = seen[r],
         \A n \in Nodes : RamOf(Need(granted[n] \ {x})') <= Available(n)'
  PROVE  \E s \in Subsets(Requests), g \in Subsets(Nodes) : Remembered(s, g)'
<1> DEFINE s == [r \in Requests |-> saw[r] \ {x}]
           g == [n \in Nodes |-> granted[n] \ {x}]
<1>1. s \in Subsets(Requests) /\ g \in Subsets(Nodes)
  BY DEF Subsets
<1>2. /\ \A r \in Requests : s[r] = saw[r] \ {x}
      /\ \A n \in Nodes : g[n] = granted[n] \ {x}
  OBVIOUS
<1> HIDE DEF s, g
<1>3. \A n : Live(n)' = Live(n) \ {x}
  BY DEF Live
<1>4. \A n : \A r \in Requests : Asks(r, n)' <=> Asks(r, n) /\ r # x
  BY DEF Asks
<1>5. \A R \in SUBSET Requests : x \notin R => TargetsOf(R)' = TargetsOf(R)
  BY DEF TargetsOf
<1>6. SawOK(s)'
  <2> SUFFICES ASSUME NEW n \in Nodes, NEW r \in Requests, Asks(r, n)'
               PROVE  /\ r \in s[r] /\ s[r] \subseteq Live(n)' /\ TargetsOf(s[r])' \subseteq seen'[r]
                      /\ \A q \in Requests : Asks(q, n)' => q \in s[r] \/ s[r] \subseteq s[q]
    BY DEF SawOK
  <2>1. Asks(r, n) /\ r # x
    BY <1>4
  <2>2. /\ r \in saw[r] /\ saw[r] \subseteq Live(n) /\ TargetsOf(saw[r]) \subseteq seen[r]
        /\ \A q \in Requests : Asks(q, n) => q \in saw[r] \/ saw[r] \subseteq saw[q]
    BY <2>1 DEF Remembered, SawOK
  <2>3. TargetsOf(s[r])' \subseteq seen'[r]
    <3>1. s[r] \in SUBSET Requests /\ x \notin s[r]
      BY <1>1, <1>2 DEF Subsets
    <3>2. TargetsOf(s[r])' = TargetsOf(s[r])
      BY <3>1, <1>5
    <3>3. TargetsOf(s[r]) \subseteq TargetsOf(saw[r])
      BY <1>2 DEF TargetsOf
    <3> QED BY <2>1, <2>2, <3>2, <3>3
  <2>4. \A q \in Requests : Asks(q, n)' => q \in s[r] \/ s[r] \subseteq s[q]
    BY <2>2, <1>2, <1>4
  <2> QED BY <2>1, <2>2, <2>3, <2>4, <1>2, <1>3
<1>7. GrantedOK(s, g)'
  <2> SUFFICES ASSUME NEW n \in Nodes
               PROVE  /\ g[n] \subseteq Live(n)'
                      /\ \A r \in Requests : pc'[r] = "admitted" /\ NodeOf[target'[r]] = n => r \in g[n]
                      /\ \A r \in Requests : Asks(r, n)' => r \in g[n] \/ g[n] \subseteq s[r]
                      /\ RamOf(Need(g[n])') <= Available(n)'
    BY DEF GrantedOK
  <2>1. /\ granted[n] \subseteq Live(n)
        /\ \A r \in Requests : pc[r] = "admitted" /\ NodeOf[target[r]] = n => r \in granted[n]
        /\ \A r \in Requests : Asks(r, n) => r \in granted[n] \/ granted[n] \subseteq saw[r]
    BY DEF Remembered, GrantedOK
  <2>2. RamOf(Need(g[n])') <= Available(n)'
    BY <1>2
  <2>3. g[n] \subseteq Live(n)' /\ \A r \in Requests : Asks(r, n)' => r \in g[n] \/ g[n] \subseteq s[r]
    BY <2>1, <1>2, <1>3, <1>4
  <2>4. \A r \in Requests : pc'[r] = "admitted" /\ NodeOf[target'[r]] = n => r \in g[n]
    BY <2>1, <1>2
  <2> QED BY <2>2, <2>3, <2>4
<1>8. Remembered(s, g)'
  BY <1>6, <1>7 DEF Remembered
<1> QED BY <1>1, <1>8

\* It leaves without a change of the domains.
LEMMA LeavingQuietly ==
  ASSUME TypeInv, NEW saw \in Subsets(Requests), NEW granted \in Subsets(Nodes),
         Remembered(saw, granted), NEW x \in Requests, running' = running,
         pc'[x] \notin {"count", "ram", "admitted"},
         \A r \in Requests \ {x} : pc'[r] = pc[r] /\ target'[r] = target[r] /\ seen'[r] = seen[r]
  PROVE  \E s \in Subsets(Requests), g \in Subsets(Nodes) : Remembered(s, g)'
<1>1. ASSUME NEW n \in Nodes PROVE RamOf(Need(granted[n] \ {x})') <= Available(n)'
  <2>1. granted[n] \subseteq Live(n) /\ RamOf(Need(granted[n])) <= Available(n)
    BY DEF Remembered, GrantedOK
  <2>2. PICK T : T = Need(granted[n])
    OBVIOUS
  <2>3. T \in SUBSET Targets
    <3>1. granted[n] \in SUBSET Requests /\ \A r \in granted[n] : pc[r] # "idle"
      BY <2>1, MemoryTypes
    <3> QED BY <2>2, <3>1, MemoryTypes
  <2>4. PICK S : S = Need(granted[n] \ {x})'
    OBVIOUS
  <2>5. S \in SUBSET T
    <3>1. granted[n] \in SUBSET Requests
      BY DEF Subsets
    <3> QED BY <2>2, <2>4, <3>1 DEF Need, TargetsOf
  <2>6. RamOf(S) <= RamOf(T) /\ RamOf(S) \in Nat /\ RamOf(T) \in Nat
    <3>1. S \in SUBSET Targets
      BY <2>3, <2>5
    <3> QED BY <2>3, <2>5, <3>1, RamOfGrows, RamOfSplits
  <2>7. Available(n)' = Available(n) /\ Available(n) \in Int
    BY MemoryTypes DEF Available
  <2> QED BY <2>1, <2>2, <2>4, <2>6, <2>7
<1> QED BY <1>1, Leaving

\* What the domains of a node take grows with one that starts there.
LEMMA RamOfAdds ==
  ASSUME NEW S \in SUBSET Targets, NEW t \in Targets \ S
  PROVE  RamOf(S \cup {t}) = RamOf(S) + Ram[t]
<1>1. PICK T : T = S \cup {t}
  OBVIOUS
<1>2. T \in SUBSET Targets /\ t \in T /\ T \ {t} = S
  BY <1>1
<1>3. RamOf(T) = Ram[t] + RamOf(T \ {t})
  BY <1>2, RamOfSplits
<1>4. RamOf(T) = Ram[t] + RamOf(S)
  BY Zenon, <1>2, <1>3
<1>5. RamOf(S) \in Nat /\ Ram[t] \in Nat
  BY RamOfSplits, TargetAssumption
<1>6. RamOf(T) = RamOf(S) + Ram[t]
  BY <1>4, <1>5
<1> QED BY <1>1, <1>6

LEMMA MemoryInvInit == Init => MemoryInv
<1> SUFFICES ASSUME Init PROVE MemoryInv
  OBVIOUS
<1> DEFINE s == [r \in Requests |-> {}]
           g == [n \in Nodes |-> {}]
<1>1. LimitInv /\ late = {}
  BY LimitInvInit DEF Init
<1>2. \A r \in Requests : pc[r] = "idle"
  BY DEF Init
<1>3. ASSUME NEW n \in Nodes PROVE RamOf(Need(g[n])) <= Available(n)
  <2>1. g[n] = {} /\ running = {}
    BY DEF Init
  <2>2. PICK S : S = {}
    OBVIOUS
  <2>3. Need(g[n]) = S /\ {t \in running : NodeOf[t] = n} = S
    BY <2>1, <2>2 DEF Need, TargetsOf
  <2>4. RamOf(S) = 0
    <3>1. PICK F : Sums(F)
      BY SumsExist
    <3>2. F[S] = 0
      BY <2>2, <3>1 DEF Sums, SumStep
    <3>3. S \in SUBSET Targets
      BY <2>2
    <3> QED BY <3>1, <3>2, <3>3, RamOfIs
  <2>5. RamOf(Need(g[n])) = 0 /\ Available(n) = Memory[n] - 0
    BY Zenon, <2>3, <2>4 DEF Available
  <2> HIDE DEF g
  <2> QED BY <2>5, TargetAssumption
<1>4. Remembered(s, g)
  BY <1>2, <1>3 DEF Remembered, SawOK, GrantedOK, Asks
<1>5. s \in Subsets(Requests) /\ g \in Subsets(Nodes)
  BY DEF Subsets
<1> HIDE DEF s, g
<1> QED BY <1>1, <1>4, <1>5 DEF MemoryInv

\* A request counts: it has seen all that are in the queue's protocol then.
LEMMA RememberedCount ==
  ASSUME LimitInv, NEW saw \in Subsets(Requests), NEW granted \in Subsets(Nodes),
         Remembered(saw, granted), NEW x \in Requests, Count(x), pc'[x] = "ram"
  PROVE  \E s \in Subsets(Requests), g \in Subsets(Nodes) : Remembered(s, g)'
<1>m. PICK m : m = NodeOf[target[x]]
  OBVIOUS
<1>s. PICK s : s = [saw EXCEPT ![x] = Live(m)]
  OBVIOUS
<1>t. /\ TypeInv /\ pc \in [Requests -> Stages] /\ seen \in [Requests -> SUBSET Targets]
      /\ EntryKept /\ saw \in [Requests -> SUBSET Requests]
  BY DEF LimitInv, TypeInv, TypeOK, Subsets
<1>1. /\ pc[x] = "count" /\ seen'[x] = AnnouncedOn(m)
      /\ \A r \in Requests \ {x} : pc'[r] = pc[r] /\ seen'[r] = seen[r]
      /\ UNCHANGED <<target, running, queue>>
  BY <1>t, <1>m DEF Count
<1>2. \A n : Live(n)' = Live(n)
  BY <1>1 DEF Live
<1>3. x \in Live(m) /\ Live(m) \in SUBSET Requests
  BY <1>1, <1>m DEF Live
<1>4. /\ s \in Subsets(Requests) /\ s[x] = Live(m)
      /\ \A r \in Requests \ {x} : s[r] = saw[r]
  BY <1>t, <1>s, <1>3 DEF Subsets
<1>5. TargetsOf(Live(m)) \subseteq AnnouncedOn(m)
  <2> SUFFICES ASSUME NEW r \in Live(m) PROVE target[r] \in AnnouncedOn(m)
    BY DEF TargetsOf
  <2>1. target[r] \in Targets /\ NodeOf[target[r]] = m /\ queue[Tid[target[r]]] = target[r]
    BY <1>t, MemoryTypes DEF Live, EntryKept
  <2>2. target[r] # None /\ Tid[target[r]] \in Tids
    BY <2>1, TargetAssumption DEF Tids
  <2>3. Tid[target[r]] \in EntriesOn(m)
    BY <2>1, <2>2 DEF EntriesOn
  <2> QED BY <2>1, <2>3 DEF AnnouncedOn
<1>6. \A n : \A r \in Requests : Asks(r, n)' <=> Asks(r, n) \/ (r = x /\ n = m)
  BY <1>1, <1>m DEF Asks
<1>7. \A R : TargetsOf(R)' = TargetsOf(R) /\ Need(R)' = Need(R)
  BY <1>1 DEF TargetsOf, Need
<1>8. SawOK(s)'
  <2> SUFFICES ASSUME NEW n \in Nodes, NEW r \in Requests, Asks(r, n)'
               PROVE  /\ r \in s[r] /\ s[r] \subseteq Live(n)' /\ TargetsOf(s[r])' \subseteq seen'[r]
                      /\ \A q \in Requests : Asks(q, n)' => q \in s[r] \/ s[r] \subseteq s[q]
    BY DEF SawOK
  <2>1. CASE r = x
    <3>1. n = m
      BY <1>1, <1>m, <2>1 DEF Asks
    <3>2. \A q \in Requests : Asks(q, n)' => q \in Live(n)
      BY <1>2 DEF Asks, Live
    <3>3. r \in s[r] /\ s[r] = Live(n)
      BY <1>3, <1>4, <2>1, <3>1
    <3>4. TargetsOf(s[r])' \subseteq seen'[r]
      BY <1>1, <1>5, <1>7, <2>1, <3>1, <3>3
    <3> QED BY <1>2, <3>2, <3>3, <3>4
  <2>2. CASE r # x
    <3>1. Asks(r, n)
      BY <1>6, <2>2
    <3>2. /\ r \in saw[r] /\ saw[r] \subseteq Live(n) /\ TargetsOf(saw[r]) \subseteq seen[r]
          /\ \A q \in Requests : Asks(q, n) => q \in saw[r] \/ saw[r] \subseteq saw[q]
      BY <3>1 DEF Remembered, SawOK
    <3>3. ASSUME NEW q \in Requests, Asks(q, n)' PROVE q \in s[r] \/ s[r] \subseteq s[q]
      <4>1. CASE q = x
        <5>1. n = m
          BY <1>1, <3>3, <1>m, <4>1 DEF Asks
        <5> QED BY <1>4, <2>2, <3>2, <4>1, <5>1
      <4>2. CASE q # x
        BY <1>4, <1>6, <2>2, <3>2, <3>3, <4>2
      <4> QED BY <4>1, <4>2
    <3>4. TargetsOf(s[r])' \subseteq seen'[r]
      BY <1>1, <1>4, <1>7, <2>2, <3>2
    <3> QED BY <1>2, <1>4, <2>2, <3>2, <3>3, <3>4
  <2> QED BY <2>1, <2>2
<1>9. GrantedOK(s, granted)'
  <2> SUFFICES ASSUME NEW n \in Nodes
               PROVE  /\ granted[n] \subseteq Live(n)'
                      /\ \A r \in Requests : pc'[r] = "admitted" /\ NodeOf[target'[r]] = n => r \in granted[n]
                      /\ \A r \in Requests : Asks(r, n)' => r \in granted[n] \/ granted[n] \subseteq s[r]
                      /\ RamOf(Need(granted[n])') <= Available(n)'
    BY DEF GrantedOK
  <2>1. /\ granted[n] \subseteq Live(n)
        /\ \A r \in Requests : pc[r] = "admitted" /\ NodeOf[target[r]] = n => r \in granted[n]
        /\ \A r \in Requests : Asks(r, n) => r \in granted[n] \/ granted[n] \subseteq saw[r]
        /\ RamOf(Need(granted[n])) <= Available(n)
    BY DEF Remembered, GrantedOK
  <2>2. Need(granted[n])' = Need(granted[n]) /\ Available(n)' = Available(n)
    BY <1>1, <1>7 DEF Available
  <2>3. RamOf(Need(granted[n])') <= Available(n)'
    BY Zenon, <2>1, <2>2
  <2>4. \A r \in Requests : pc'[r] = "admitted" /\ NodeOf[target'[r]] = n => r \in granted[n]
    <3>1. pc'[x] # "admitted"
      OBVIOUS
    <3> QED BY <1>1, <2>1, <3>1
  <2>5. ASSUME NEW r \in Requests, Asks(r, n)' PROVE r \in granted[n] \/ granted[n] \subseteq s[r]
    <3>1. CASE r = x
      <4>1. n = m
        BY <1>1, <2>5, <1>m, <3>1 DEF Asks
      <4> QED BY <1>4, <2>1, <3>1, <4>1
    <3>2. CASE r # x
      BY <1>4, <1>6, <2>1, <2>5, <3>2
    <3> QED BY <3>1, <3>2
  <2> QED BY <1>2, <2>1, <2>3, <2>4, <2>5
<1>10. Remembered(s, granted)'
  BY <1>8, <1>9 DEF Remembered
<1> QED BY <1>4, <1>10

(* A request is granted the memory it asked for.  If those granted before had not
   seen it, it has seen them, and all of them fit together with it.          *)
LEMMA RememberedGrant ==
  ASSUME LimitInv, NEW saw \in Subsets(Requests), NEW granted \in Subsets(Nodes),
         Remembered(saw, granted), NEW x \in Requests, CheckRam(x, TRUE), pc'[x] = "admitted"
  PROVE  \E s \in Subsets(Requests), g \in Subsets(Nodes) : Remembered(s, g)'
<1>m. PICK m : m = NodeOf[target[x]]
  OBVIOUS
<1>d. PICK g : g = IF x \in granted[m] THEN granted ELSE [granted EXCEPT ![m] = saw[x]]
  OBVIOUS
<1>t. /\ TypeInv /\ pc \in [Requests -> Stages] /\ seen \in [Requests -> SUBSET Targets]
      /\ saw \in [Requests -> SUBSET Requests] /\ granted \in [Nodes -> SUBSET Requests]
  BY DEF LimitInv, TypeInv, TypeOK, Subsets
<1>1. /\ pc[x] = "ram" /\ RamOf(seen[x]) <= Available(m)
      /\ \A r \in Requests \ {x} : pc'[r] = pc[r] /\ seen'[r] = seen[r]
      /\ UNCHANGED <<target, running>>
  BY <1>t, <1>m DEF CheckRam
<1>2. \A n : Live(n)' = Live(n)
  BY <1>1 DEF Live
<1>3. m \in Nodes /\ Asks(x, m)
  BY <1>t, <1>m, <1>1, MemoryTypes DEF Asks
<1>4. \A n : \A r \in Requests : Asks(r, n)' <=> Asks(r, n) /\ r # x
  BY <1>1 DEF Asks
<1>5. \A R : TargetsOf(R)' = TargetsOf(R) /\ Need(R)' = Need(R)
  BY <1>1 DEF TargetsOf, Need
<1>6. /\ x \in saw[x] /\ saw[x] \subseteq Live(m) /\ TargetsOf(saw[x]) \subseteq seen[x]
      /\ \A q \in Requests : Asks(q, m) => q \in saw[x] \/ saw[x] \subseteq saw[q]
  BY <1>3 DEF Remembered, SawOK
<1>7. /\ g \in Subsets(Nodes) /\ \A n \in Nodes \ {m} : g[n] = granted[n]
      /\ x \in granted[m] => g[m] = granted[m]
      /\ x \notin granted[m] => g[m] = saw[x]
  BY <1>t, <1>d, <1>3 DEF Subsets
<1>8. SawOK(saw)'
  BY <1>1, <1>2, <1>4, <1>5 DEF Remembered, SawOK
<1>g. ASSUME NEW n \in Nodes
      PROVE /\ granted[n] \subseteq Live(n)
            /\ \A r \in Requests : pc[r] = "admitted" /\ NodeOf[target[r]] = n => r \in granted[n]
            /\ \A r \in Requests : Asks(r, n) => r \in granted[n] \/ granted[n] \subseteq saw[r]
            /\ RamOf(Need(granted[n])) <= Available(n)
  BY DEF Remembered, GrantedOK
<1>a. \A n : Available(n)' = Available(n)
  BY <1>1 DEF Available
<1>9. ASSUME NEW n \in Nodes
      PROVE  /\ g[n] \subseteq Live(n)'
             /\ \A r \in Requests : pc'[r] = "admitted" /\ NodeOf[target'[r]] = n => r \in g[n]
             /\ \A r \in Requests : Asks(r, n)' => r \in g[n] \/ g[n] \subseteq saw[r]
             /\ RamOf(Need(g[n])') <= Available(n)'
  <2>1. CASE g[n] = granted[n]
    <3>1. RamOf(Need(g[n])') <= Available(n)'
      BY Zenon, <1>5, <1>a, <1>g, <2>1
    <3>2. n = m => x \in g[n]
      BY <1>6, <1>7, <2>1
    <3>3. NodeOf[target'[x]] = n => n = m
      BY <1>1, <1>m
    <3>4. \A r \in Requests : pc'[r] = "admitted" /\ NodeOf[target'[r]] = n => r \in g[n]
      BY <1>1, <1>g, <2>1, <3>2, <3>3
    <3> QED BY <1>2, <1>4, <1>g, <2>1, <3>1, <3>4
  <2>2. CASE n = m /\ x \notin granted[m]
    <3>1. g[n] = saw[x]
      BY <1>7, <2>2
    <3>2. granted[n] \subseteq saw[x]
      BY <1>3, <1>g, <2>2
    <3>3. \A r \in Requests : pc'[r] = "admitted" /\ NodeOf[target'[r]] = n => r \in g[n]
      BY <1>1, <1>6, <1>g, <3>1, <3>2
    <3>4. \A r \in Requests : Asks(r, n)' => r \in g[n] \/ g[n] \subseteq saw[r]
      BY <1>4, <1>6, <2>2, <3>1
    <3>5. RamOf(Need(g[n])') <= Available(n)'
      <4>1. PICK S : S = Need(g[n])'
        OBVIOUS
      <4>2. S \in SUBSET seen[x] /\ seen[x] \in SUBSET Targets
        BY <1>t, <1>5, <1>6, <3>1, <4>1 DEF Need
      <4>3. RamOf(S) <= RamOf(seen[x]) /\ RamOf(S) \in Nat /\ RamOf(seen[x]) \in Nat
        <5>1. S \in SUBSET Targets
          BY <4>2
        <5> QED BY <4>2, <5>1, RamOfGrows, RamOfSplits
      <4>4. Available(n)' = Available(m) /\ Available(m) \in Int
        BY <1>t, <1>3, <1>a, <2>2, MemoryTypes
      <4>5. RamOf(S) <= Available(n)'
        BY <1>1, <4>3, <4>4
      <4> QED BY <4>1, <4>5
    <3> QED BY <1>2, <1>6, <2>2, <3>1, <3>3, <3>4, <3>5
  <2> QED BY <1>7, <2>1, <2>2
<1>10. GrantedOK(saw, g)'
  BY <1>9 DEF GrantedOK
<1>11. Remembered(saw, g)'
  BY <1>8, <1>10 DEF Remembered
<1> QED BY <1>7, <1>11

\* The domain of a desktop starts: the node has as much less as the opening needed.
LEMMA RememberedStart ==
  ASSUME TypeInv, NEW saw \in Subsets(Requests), NEW granted \in Subsets(Nodes),
         Remembered(saw, granted), NEW x \in Requests, pc[x] = "admitted",
         target[x] \notin running, running' = running \cup {target[x]}, UNCHANGED target
  PROVE  \A n \in Nodes : RamOf(Need(granted[n] \ {x})') <= Available(n)'
<1> SUFFICES ASSUME NEW n \in Nodes PROVE RamOf(Need(granted[n] \ {x})') <= Available(n)'
  OBVIOUS
<1>1. PICK t \in Targets : t = target[x]
  BY MemoryTypes
<1>2. /\ granted[n] \in SUBSET Requests /\ granted[n] \subseteq Live(n)
      /\ NodeOf[t] = n => x \in granted[n]
      /\ RamOf(Need(granted[n])) <= Available(n)
  BY <1>1 DEF Remembered, GrantedOK, Subsets
<1>3. PICK T : T = Need(granted[n])
  OBVIOUS
<1>4. PICK S : S = Need(granted[n] \ {x})'
  OBVIOUS
<1>5. T \in SUBSET Targets
  <2>1. \A r \in granted[n] : pc[r] # "idle"
    BY <1>2, MemoryTypes
  <2> QED BY <1>2, <1>3, <2>1, MemoryTypes
<1>6. S \in SUBSET (T \ {t})
  BY <1>1, <1>3, <1>4 DEF Need, TargetsOf
<1>7. PICK V : V = T \ {t}
  OBVIOUS
<1>8. RamOf(S) <= RamOf(V) /\ RamOf(S) \in Nat /\ RamOf(V) \in Nat /\ RamOf(T) \in Nat
  <2>1. V \in SUBSET Targets /\ S \in SUBSET V
    BY <1>5, <1>6, <1>7
  <2> QED BY <1>5, <2>1, RamOfGrows, RamOfSplits
<1>9. running \in SUBSET Targets /\ t \in Targets \ running /\ Available(n) \in Int /\ Ram[t] \in Nat
  BY <1>1, MemoryTypes, TargetAssumption
<1>10. PICK B : B = {u \in running : NodeOf[u] = n}
  OBVIOUS
<1>11. RamOf(B) \in Nat /\ Memory[n] \in Nat /\ Available(n) = Memory[n] - RamOf(B)
  BY <1>9, <1>10, RamOfSplits, TargetAssumption DEF Available
<1>12. PICK C : C = {u \in running \cup {t} : NodeOf[u] = n}
  OBVIOUS
<1>13. RamOf(C) = IF NodeOf[t] = n THEN RamOf(B) + Ram[t] ELSE RamOf(B)
  <2>1. /\ B \in SUBSET Targets /\ t \in Targets \ B
        /\ C = IF NodeOf[t] = n THEN B \cup {t} ELSE B
    BY <1>9, <1>10, <1>12
  <2>2. RamOf(B \cup {t}) = RamOf(B) + Ram[t]
    BY <2>1, RamOfAdds
  <2> QED BY <2>1, <2>2, Zenon
<1>14. Available(n)' = Memory[n] - RamOf(C)
  BY <1>1, <1>12 DEF Available
<1>15. CASE NodeOf[t] = n
  <2>1. t \in T
    BY <1>1, <1>2, <1>3, <1>15 DEF Need, TargetsOf
  <2>2. RamOf(T) = Ram[t] + RamOf(V)
    BY <1>5, <1>7, <2>1, RamOfSplits
  <2>3. RamOf(S) <= Memory[n] - RamOf(C)
    BY <1>2, <1>3, <1>8, <1>9, <1>11, <1>13, <1>15, <2>2
  <2> QED BY <1>4, <1>14, <2>3
<1>16. CASE NodeOf[t] # n
  <2>1. RamOf(V) <= RamOf(T)
    <3>1. V \in SUBSET T
      BY <1>7
    <3> QED BY <1>5, <3>1, RamOfGrows
  <2>2. RamOf(S) <= Memory[n] - RamOf(C)
    BY <1>2, <1>3, <1>8, <1>11, <1>13, <1>16, <2>1
  <2> QED BY <1>4, <1>14, <2>2
<1> QED BY <1>15, <1>16

\* A domain ends: an opening of its desktop that is pending needs no more than it gave back.
LEMMA RememberedShutdown ==
  ASSUME TypeInv, NEW saw \in Subsets(Requests), NEW granted \in Subsets(Nodes),
         Remembered(saw, granted), NEW t \in Targets, Shutdown(t)
  PROVE  Remembered(saw, granted)'
<1>1. /\ t \in running /\ running' = running \ {t} /\ UNCHANGED <<pc, target, seen>>
  BY DEF Shutdown
<1>2. \A n : Live(n)' = Live(n) /\ \A r \in Requests : Asks(r, n)' <=> Asks(r, n)
  BY <1>1 DEF Live, Asks
<1>3. \A R : TargetsOf(R)' = TargetsOf(R)
  BY <1>1 DEF TargetsOf
<1>4. SawOK(saw)'
  BY <1>1, <1>2, <1>3 DEF Remembered, SawOK
<1>g. ASSUME NEW n \in Nodes
      PROVE  /\ granted[n] \in SUBSET Requests /\ granted[n] \subseteq Live(n)
             /\ \A r \in Requests : pc[r] = "admitted" /\ NodeOf[target[r]] = n => r \in granted[n]
             /\ \A r \in Requests : Asks(r, n) => r \in granted[n] \/ granted[n] \subseteq saw[r]
             /\ RamOf(Need(granted[n])) <= Available(n)
  BY DEF Remembered, GrantedOK, Subsets
<1>5. ASSUME NEW n \in Nodes PROVE RamOf(Need(granted[n])') <= Available(n)'
  <2>1. PICK T : T = Need(granted[n])
    OBVIOUS
  <2>2. PICK S : S = Need(granted[n])'
    OBVIOUS
  <2>3. T \in SUBSET Targets
    <3>1. \A r \in granted[n] : pc[r] # "idle"
      BY <1>g, MemoryTypes
    <3> QED BY <1>g, <2>1, <3>1, MemoryTypes
  <2>4. t \notin T /\ S \subseteq T \cup {t} /\ (t \in S => NodeOf[t] = n)
    <3>1. t \notin T /\ S \subseteq T \cup {t}
      BY <1>1, <2>1, <2>2, <1>3 DEF Need
    <3>2. t \in S => t \in TargetsOf(granted[n])
      BY <1>3, <2>2 DEF Need
    <3>3. \A u \in TargetsOf(granted[n]) : NodeOf[u] = n
      BY <1>g DEF TargetsOf, Live
    <3> QED BY <3>1, <3>2, <3>3
  <2>5. PICK R \in SUBSET Targets : R = running'
    BY <1>1, MemoryTypes
  <2>6. R \cup {t} = running /\ t \in Targets \ R
    BY <1>1, <2>5
  <2>7. PICK B : B = {u \in R : NodeOf[u] = n}
    OBVIOUS
  <2>8. PICK C : C = {u \in R \cup {t} : NodeOf[u] = n}
    OBVIOUS
  <2>9. RamOf(C) = IF NodeOf[t] = n THEN RamOf(B) + Ram[t] ELSE RamOf(B)
    <3>1. /\ B \in SUBSET Targets /\ t \in Targets \ B
          /\ C = IF NodeOf[t] = n THEN B \cup {t} ELSE B
      BY <2>5, <2>6, <2>7, <2>8
    <3>2. RamOf(B \cup {t}) = RamOf(B) + Ram[t]
      BY <3>1, RamOfAdds
    <3> QED BY <3>1, <3>2, Zenon
  <2>10. Available(n) = Memory[n] - RamOf(C) /\ Available(n)' = Memory[n] - RamOf(B)
    BY <2>5, <2>6, <2>7, <2>8 DEF Available
  <2>11. RamOf(B) \in Nat /\ Memory[n] \in Nat /\ Ram[t] \in Nat
    BY <2>7, RamOfSplits, TargetAssumption
  <2>12. RamOf(T) <= Memory[n] - RamOf(C)
    BY Zenon, <1>g, <2>1, <2>10
  <2>13. CASE t \in S
    <3>1. PICK V \in SUBSET Targets : V = T \cup {t}
      BY <2>3
    <3>2. t \in V /\ V \ {t} = T /\ S \in SUBSET V
      BY <2>4, <3>1
    <3>3. RamOf(V) = Ram[t] + RamOf(V \ {t})
      BY <3>2, RamOfSplits
    <3>4. RamOf(V) = Ram[t] + RamOf(T)
      BY Zenon, <3>2, <3>3
    <3>5. RamOf(S) <= RamOf(V) /\ RamOf(S) \in Nat /\ RamOf(T) \in Nat
      <4>1. S \in SUBSET Targets
        BY <3>2
      <4> QED BY <2>3, <3>2, <4>1, RamOfGrows, RamOfSplits
    <3>6. RamOf(S) <= Memory[n] - RamOf(B)
      BY <2>4, <2>9, <2>11, <2>12, <2>13, <3>4, <3>5
    <3> QED BY <2>2, <2>10, <3>6
  <2>14. CASE t \notin S
    <3>1. S \in SUBSET T
      BY <2>4, <2>14
    <3>2. RamOf(S) <= RamOf(T) /\ RamOf(S) \in Nat /\ RamOf(T) \in Nat
      <4>1. S \in SUBSET Targets
        BY <2>3, <3>1
      <4> QED BY <2>3, <3>1, <4>1, RamOfGrows, RamOfSplits
    <3>3. RamOf(S) <= Memory[n] - RamOf(B)
      BY <2>9, <2>11, <2>12, <3>2
    <3> QED BY <2>2, <2>10, <3>3
  <2> QED BY <2>13, <2>14
<1>6. GrantedOK(saw, granted)'
  BY <1>1, <1>2, <1>5, <1>g DEF GrantedOK
<1> QED BY <1>4, <1>6 DEF Remembered

\* A request announces itself; nobody has seen it yet.
LEMMA RememberedAnnounce ==
  ASSUME TypeInv, NEW saw \in Subsets(Requests), NEW granted \in Subsets(Nodes),
         Remembered(saw, granted), NEW x \in Requests, Announce(x)
  PROVE  Remembered(saw, granted)'
<1>1. /\ pc[x] = "announce" /\ pc'[x] = "count" /\ \A r \in Requests \ {x} : pc'[r] = pc[r]
      /\ UNCHANGED <<target, seen, running>>
  BY DEF Announce, TypeInv, TypeOK
<1>2. \A n : Live(n) \subseteq Live(n)' /\ \A r \in Requests : Asks(r, n)' <=> Asks(r, n)
  BY <1>1 DEF Live, Asks
<1>3. \A R : TargetsOf(R)' = TargetsOf(R) /\ Need(R)' = Need(R)
  BY <1>1 DEF TargetsOf, Need
<1>4. SawOK(saw)'
  <2> SUFFICES ASSUME NEW n \in Nodes, NEW r \in Requests, Asks(r, n)'
               PROVE  /\ r \in saw[r] /\ saw[r] \subseteq Live(n)' /\ TargetsOf(saw[r])' \subseteq seen'[r]
                      /\ \A q \in Requests : Asks(q, n)' => q \in saw[r] \/ saw[r] \subseteq saw[q]
    BY DEF SawOK
  <2>1. /\ r \in saw[r] /\ saw[r] \subseteq Live(n) /\ TargetsOf(saw[r]) \subseteq seen[r]
        /\ \A q \in Requests : Asks(q, n) => q \in saw[r] \/ saw[r] \subseteq saw[q]
    BY <1>2 DEF Remembered, SawOK
  <2>2. TargetsOf(saw[r])' \subseteq seen'[r]
    BY <1>1, <1>3, <2>1
  <2> QED BY <1>2, <2>1, <2>2
<1>5. ASSUME NEW n \in Nodes
      PROVE  /\ granted[n] \subseteq Live(n)'
             /\ \A r \in Requests : pc'[r] = "admitted" /\ NodeOf[target'[r]] = n => r \in granted[n]
             /\ \A r \in Requests : Asks(r, n)' => r \in granted[n] \/ granted[n] \subseteq saw[r]
             /\ RamOf(Need(granted[n])') <= Available(n)'
  <2>1. /\ granted[n] \subseteq Live(n)
        /\ \A r \in Requests : pc[r] = "admitted" /\ NodeOf[target[r]] = n => r \in granted[n]
        /\ \A r \in Requests : Asks(r, n) => r \in granted[n] \/ granted[n] \subseteq saw[r]
        /\ RamOf(Need(granted[n])) <= Available(n)
    BY DEF Remembered, GrantedOK
  <2>2. Need(granted[n])' = Need(granted[n]) /\ Available(n)' = Available(n)
    BY <1>1, <1>3 DEF Available
  <2>3. RamOf(Need(granted[n])') <= Available(n)'
    BY Zenon, <2>1, <2>2
  <2> QED BY <1>1, <1>2, <2>1, <2>3
<1>6. GrantedOK(saw, granted)'
  BY <1>5 DEF GrantedOK
<1> QED BY <1>4, <1>6 DEF Remembered

LEMMA MemoryInvNext == Timeouts = FALSE /\ MemoryInv /\ [NextDistinct]_vars => MemoryInv'
<1> SUFFICES ASSUME Timeouts = FALSE, MemoryInv, [NextDistinct]_vars PROVE MemoryInv'
  OBVIOUS
<1>t. TypeInv /\ LimitInv /\ late = {} /\ pc \in [Requests -> Stages]
      /\ target \in [Requests -> Targets \cup {None}] /\ seen \in [Requests -> SUBSET Targets]
  BY DEF MemoryInv, LimitInv, TypeInv, TypeOK
<1>1. LimitInv'
  BY <1>t, LimitInvStep
<1>2. late' = {}
  BY <1>t DEF NextDistinct, Next, ServerNext, Step, Arrive, Announce, Count, CheckRam, Retreat, Work,
              Release, LateStart, Shutdown, Crash, Forget, vars
<1>3. PICK saw \in Subsets(Requests), granted \in Subsets(Nodes) : Remembered(saw, granted)
  BY DEF MemoryInv
<1> DEFINE Goal == \E s \in Subsets(Requests), g \in Subsets(Nodes) : Remembered(s, g)'
<1>l. ASSUME NEW x \in Requests, running' = running,
             pc'[x] \notin {"count", "ram", "admitted"},
             \A r \in Requests \ {x} : pc'[r] = pc[r] /\ target'[r] = target[r] /\ seen'[r] = seen[r]
      PROVE  Goal
  BY <1>l, <1>t, <1>3, LeavingQuietly
<1>k. Remembered(saw, granted)' => Goal
  BY <1>3
<1> HIDE DEF Goal
<1>4. ASSUME NEW x \in Requests, NEW t \in Targets, Arrive(x, t) PROVE Goal
  BY <1>4, <1>l, <1>t DEF Arrive
<1>5. ASSUME NEW x \in Requests, Announce(x) PROVE Goal
  BY <1>5, <1>k, <1>t, <1>3, RememberedAnnounce
<1>6. ASSUME NEW x \in Requests, Count(x) PROVE Goal
  <2>1. CASE pc'[x] = "ram"
    BY <1>6, <2>1, <1>t, <1>3, RememberedCount DEF Goal
  <2>2. CASE pc'[x] # "ram"
    BY <1>6, <2>2, <1>l, <1>t DEF Count
  <2> QED BY <2>1, <2>2
<1>7. ASSUME NEW x \in Requests, NEW ok \in BOOLEAN, CheckRam(x, ok) PROVE Goal
  <2>1. CASE pc'[x] = "admitted"
    <3>1. CheckRam(x, TRUE)
      <4>1. ok = TRUE
        BY <1>7, <2>1, <1>t DEF CheckRam
      <4> QED BY <1>7, <4>1
    <3> QED BY <2>1, <3>1, <1>t, <1>3, RememberedGrant DEF Goal
  <2>2. CASE pc'[x] # "admitted"
    BY <1>7, <2>2, <1>l, <1>t DEF CheckRam
  <2> QED BY <2>1, <2>2
<1>8. ASSUME NEW x \in Requests, Retreat(x) PROVE Goal
  BY <1>8, <1>l, <1>t DEF Retreat
<1>9. ASSUME NEW x \in Requests, Work(x) PROVE Goal
  <2>1. /\ pc[x] = "admitted" /\ pc'[x] = "release" /\ UNCHANGED <<target, seen>>
        /\ \A r \in Requests \ {x} : pc'[r] = pc[r]
        /\ running' = running \/ running' = running \cup {target[x]}
    BY <1>9, <1>t DEF Work
  <2>2. CASE running' = running
    BY <2>1, <2>2, <1>l
  <2>3. CASE running' # running
    <3>1. target[x] \notin running /\ running' = running \cup {target[x]}
      BY <2>1, <2>3
    <3>2. \A n \in Nodes : RamOf(Need(granted[n] \ {x})') <= Available(n)'
      BY <2>1, <3>1, <1>t, <1>3, RememberedStart
    <3> QED BY <2>1, <3>2, <1>t, <1>3, Leaving DEF Goal
  <2> QED BY <2>2, <2>3
<1>10. ASSUME NEW x \in Requests, Release(x) \/ Crash(x) PROVE Goal
  BY <1>10, <1>l, <1>t DEF Release, Crash, Forget
<1>11. ASSUME NEW t \in Targets, LateStart(t) PROVE Goal
  BY <1>11, <1>t DEF LateStart
<1>12. ASSUME NEW t \in Targets, Shutdown(t) PROVE Goal
  BY <1>12, <1>k, <1>t, <1>3, RememberedShutdown
<1>13. ASSUME UNCHANGED vars PROVE Goal
  BY <1>13, <1>k, <1>3 DEF vars, Remembered, SawOK, GrantedOK, Asks, Live, Need, TargetsOf, Available
<1>14. Goal
  BY <1>4, <1>5, <1>6, <1>7, <1>8, <1>9, <1>10, <1>11, <1>12, <1>13
     DEF NextDistinct, Next, ServerNext, Step
<1> QED BY <1>1, <1>2, <1>14 DEF MemoryInv, Goal

LEMMA MemoryInvImplies == MemoryInv => MemoryRespected
<1> SUFFICES ASSUME MemoryInv, NEW n \in Nodes PROVE RamOf(Pending(n)) <= Available(n)
  BY DEF MemoryRespected
<1>t. TypeInv
  BY DEF MemoryInv, LimitInv
<1>1. PICK saw \in Subsets(Requests), granted \in Subsets(Nodes) : Remembered(saw, granted)
  BY DEF MemoryInv
<1>2. PICK T : T = Need(granted[n])
  OBVIOUS
<1>3. PICK S : S = Pending(n)
  OBVIOUS
<1>4. /\ granted[n] \in SUBSET Requests /\ granted[n] \subseteq Live(n)
      /\ \A r \in Requests : pc[r] = "admitted" /\ NodeOf[target[r]] = n => r \in granted[n]
      /\ RamOf(Need(granted[n])) <= Available(n)
  BY <1>1 DEF Remembered, GrantedOK, Subsets
<1>5. T \in SUBSET Targets
  <2>1. \A r \in granted[n] : pc[r] # "idle"
    BY <1>4, <1>t, MemoryTypes
  <2> QED BY <1>2, <1>4, <2>1, <1>t, MemoryTypes
<1>6. S \in SUBSET T
  BY <1>2, <1>3, <1>4 DEF Pending, Need, TargetsOf
<1>7. RamOf(S) <= RamOf(T) /\ RamOf(S) \in Nat /\ RamOf(T) \in Nat
  <2>1. S \in SUBSET Targets
    BY <1>5, <1>6
  <2> QED BY <1>5, <1>6, <2>1, RamOfGrows, RamOfSplits
<1>8. RamOf(T) <= Available(n) /\ Available(n) \in Int
  BY <1>2, <1>4, <1>t, MemoryTypes
<1> QED BY <1>3, <1>7, <1>8

(* check_ram asks for all that was announced when the request counted.  The
   openings that a node has granted and not yet served fit together in what it
   has left, although each is asked for on its own and others are announced in
   between; when no call outlasts the server's patience (Timeouts), and no two
   requests in flight have one terminal number.                              *)
THEOREM MemoryHolds == Timeouts = FALSE /\ SpecDistinct => []MemoryRespected
<1>1. Timeouts = FALSE /\ MemoryInv /\ [NextDistinct]_vars => MemoryInv'
  BY MemoryInvNext
<1> SUFFICES ASSUME Timeouts = FALSE PROVE SpecDistinct => []MemoryRespected
  OBVIOUS
<1>2. MemoryInv /\ [NextDistinct]_vars => MemoryInv'
  BY <1>1
<1> QED BY <1>2, MemoryInvInit, MemoryInvImplies, PTL DEF SpecDistinct
=============================================================================
