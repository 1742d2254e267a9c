------------------------- MODULE ChunkedUploadProofs ------------------------
(***************************************************************************)
(* Proofs about ChunkedUpload, for any files, chunks, threads and repeated *)
(* requests: its types, the count of the chunks that are still to be       *)
(* answered, and that a file merged while no other is about is whole.      *)
(***************************************************************************)
EXTENDS ChunkedUpload, FiniteSetTheorems, SequenceTheorems, TLAPS

LEMMA BlockFacts ==
  /\ \A f, c : File(<<f, c>>) = f /\ Chunk(<<f, c>>) = c
  /\ \A f \in Files : Chunks[f] \in Nat \ {0} /\ Chunks[f] \in Numbers /\ 0 \in Numbers
  /\ \A f \in Files : \A c \in 0..(Chunks[f] - 1) : <<f, c>> \in Blocks
  /\ \A b \in Blocks : /\ File(b) \in Files /\ Chunk(b) \in 0..(Chunks[File(b)] - 1)
                       /\ b = <<File(b), Chunk(b)>>
                       /\ Chunk(b) \in Numbers /\ Chunk(b) + 1 \in Numbers
  /\ Numbers \subseteq Nat /\ None \notin Blocks
<1>1. \A f, c : File(<<f, c>>) = f /\ Chunk(<<f, c>>) = c BY DEF File, Chunk
<1>2. \A f \in Files : Chunks[f] \in Nat \ {0} BY ChunksAssumption
<1>3. \A f \in Files : \A c \in 0..(Chunks[f] - 1) : <<f, c>> \in Blocks BY DEF Blocks
<1>4. ASSUME NEW b \in Blocks
      PROVE /\ File(b) \in Files /\ Chunk(b) \in 0..(Chunks[File(b)] - 1)
            /\ b = <<File(b), Chunk(b)>>
  <2>1. PICK f \in Files : b \in {f} \X (0..(Chunks[f] - 1)) BY DEF Blocks
  <2>2. PICK c \in 0..(Chunks[f] - 1) : b = <<f, c>> BY <2>1
  <2> QED BY <2>2 DEF File, Chunk
<1>5. \A b \in Blocks : Chunk(b) \in Numbers BY DEF Numbers
<1>6. \A f \in Files : Chunks[f] \in Numbers BY DEF Numbers
<1>7. ASSUME NEW b \in Blocks PROVE Chunk(b) + 1 \in Numbers
  <2> DEFINE f == File(b)
             c == Chunk(b)
  <2>1. f \in Files /\ c \in 0..(Chunks[f] - 1) /\ Chunks[f] \in Nat \ {0} BY <1>4, <1>2
  <2> HIDE DEF f, c
  <2>2. CASE c + 1 = Chunks[f] BY <2>1, <2>2, <1>6 DEF c
  <2>3. CASE c + 1 # Chunks[f]
    <3>1. c + 1 \in 0..(Chunks[f] - 1) BY <2>1, <2>3
    <3>2. <<f, c + 1>> \in Blocks BY <3>1, <2>1, <1>3
    <3>3. Chunk(<<f, c + 1>>) = c + 1 BY <1>1
    <3> QED BY <3>2, <3>3, <1>5 DEF c
  <2> QED BY <2>2, <2>3
<1>8. ASSUME NEW f \in Files PROVE 0 \in Numbers
  <2>1. <<f, 0>> \in Blocks
    <3>1. 0 \in 0..(Chunks[f] - 1) BY <1>2
    <3> QED BY <3>1, <1>3
  <2>2. Chunk(<<f, 0>>) = 0 BY <1>1
  <2> QED BY <2>1, <2>2, <1>5
<1>9. Numbers \subseteq Nat
  <2>1. \A b \in Blocks : Chunk(b) \in Nat
    <3>1. \A f \in Files : \A c \in 0..(Chunks[f] - 1) : c \in Nat BY <1>2
    <3> QED BY <3>1, <1>4
  <2> QED BY <2>1, <1>2 DEF Numbers
<1>10. None \notin Blocks BY ChunksAssumption
<1> QED BY <1>1, <1>2, <1>3, <1>4, <1>5, <1>6, <1>7, <1>8, <1>9, <1>10

-----------------------------------------------------------------------------
MergeRecords == [pc : Merges, pos : Numbers \cup {0}]

Typed ==
  /\ status \in [Files -> Statuses] /\ queue \in Seq(Files)
  /\ running \in BOOLEAN /\ timer \in BOOLEAN /\ tick \in BOOLEAN
  /\ promise \in Files \cup {None}
  /\ next \in [Files -> Nat] /\ left \in [Files -> Int]
  /\ pool \in [Blocks -> States]
  /\ retried \in [Blocks -> 0..Retries]
  /\ late \subseteq Blocks \X (0..Retries)
  /\ disk \in [Numbers -> Blocks \cup {None}]
  /\ merge \in [Files -> MergeRecords] /\ target \in [Files -> Seq(Blocks)]
  /\ mixed \in BOOLEAN

\* The files of the page are in its queue.
Queued == \A f \in Files : status[f] # "away" => \E i \in DOMAIN queue : queue[i] = f

\* A chunk is saved under its number.
Named == \A n \in Numbers : disk[n] # None => Chunk(disk[n]) = n

TypeInv == Typed /\ Queued /\ Named /\ IsFiniteSet(InPool)

\* Of files of the page, the first in the queue is one.
LEMMA FirstIn ==
  ASSUME Typed, Queued, NEW S \in SUBSET Files, S # {}, \A f \in S : status[f] # "away"
  PROVE First(S) \in S
<1> DEFINE T == {i \in DOMAIN queue : queue[i] \in S}
<1>0. queue \in Seq(Files) BY DEF Typed
<1>1. DOMAIN queue = 1..Len(queue) /\ Len(queue) \in Nat BY <1>0, LenProperties
<1>2. T \subseteq Nat /\ T # {}
  <2>1. PICK f \in S : TRUE OBVIOUS
  <2>2. PICK i \in DOMAIN queue : queue[i] = f BY <2>1 DEF Queued
  <2> QED BY <1>1, <2>1, <2>2
<1>3. IsWellFoundedOn(OpToRel(<, Nat), Nat) BY NatLessThanWellFounded
<1>4. PICK i \in T : \A j \in T : ~(<<j, i>> \in OpToRel(<, Nat)) BY <1>2, <1>3, WFMin
<1>5. ASSUME NEW j \in 1..(i - 1) PROVE queue[j] \notin S
  <2>0. i \in 1..Len(queue) BY <1>1
  <2>1. j \in DOMAIN queue /\ j \in Nat /\ i \in Nat /\ j < i BY <1>1, <2>0
  <2>2. <<j, i>> \in OpToRel(<, Nat) BY <2>1 DEF OpToRel
  <2> QED BY <1>4, <2>1, <2>2
<1>6. queue[i] \in S /\ i \in DOMAIN queue BY <1>4
<1>7. \E f \in S : \E k \in DOMAIN queue :
        queue[k] = f /\ \A j \in 1..(k - 1) : queue[j] \notin S
  BY <1>5, <1>6
<1> QED BY <1>7 DEF First

LEMMA TypeInvInit == Init => TypeInv
<1> SUFFICES ASSUME Init PROVE TypeInv
  OBVIOUS
<1>1. <<>> \in Seq(Files) /\ <<>> \in Seq(Blocks) BY EmptySeq
<1>2. 0 \in 0..Retries /\ "out" \in States /\ "away" \in Statuses /\ "none" \in Merges
  BY ChunksAssumption DEF States, Statuses, Merges
<1>3. [pc |-> "none", pos |-> 0] \in MergeRecords BY <1>2 DEF MergeRecords
<1>5. /\ merge \in [Files -> MergeRecords] /\ status \in [Files -> Statuses]
      /\ pool \in [Blocks -> States] /\ retried \in [Blocks -> 0..Retries]
      /\ target \in [Files -> Seq(Blocks)] /\ queue \in Seq(Files)
  BY <1>1, <1>2, <1>3 DEF Init
<1>6. /\ next \in [Files -> Nat] /\ left \in [Files -> Int] /\ late \subseteq Blocks \X (0..Retries)
      /\ disk \in [Numbers -> Blocks \cup {None}] /\ promise \in Files \cup {None}
  BY DEF Init
<1>8. running \in BOOLEAN /\ timer \in BOOLEAN /\ tick \in BOOLEAN /\ mixed \in BOOLEAN
  BY DEF Init
<1>4. Typed BY <1>5, <1>6, <1>8 DEF Typed
<1>7. Queued /\ Named BY DEF Init, Queued, Named
<1>9. IsFiniteSet(InPool)
  <2>1. InPool = {} BY DEF Init, InPool
  <2> QED BY <2>1, FS_EmptySet
<1> QED BY <1>4, <1>7, <1>9 DEF TypeInv

\* A file whose chunks the page hands out is on the page.
LEMMA ReadyFiles ==
  ASSUME TypeInv
  PROVE /\ Ready # {} => First(Ready) \in Ready
        /\ Of("queued") # {} => First(Of("queued")) \in Of("queued")
        /\ Ready \subseteq Files /\ Of("queued") \subseteq Files
<1>1. Ready \in SUBSET Files /\ \A f \in Ready : status[f] # "away" BY DEF Ready, Of
<1>2. Of("queued") \in SUBSET Files /\ \A f \in Of("queued") : status[f] # "away" BY DEF Of
<1> QED BY <1>1, <1>2, FirstIn DEF TypeInv


\* Popping blocks
LEMMA PopsTyped ==
  ASSUME TypeInv, NEW bs \in SUBSET InPool, Pops(bs)
  PROVE /\ pool' \in [Blocks -> States] /\ left' \in [Files -> Int] /\ tick' \in BOOLEAN
        /\ InPool' = InPool \ bs /\ IsFiniteSet(bs)
        /\ \A b \in Blocks : pool'[b] = IF b \in bs THEN "out" ELSE pool[b]
        /\ \A f \in Files : left'[f] = left[f] - Cardinality({b \in bs : File(b) = f})
<1>t. /\ pool \in [Blocks -> States] /\ left \in [Files -> Int] /\ IsFiniteSet(InPool)
      /\ InPool \subseteq Blocks
  BY DEF TypeInv, Typed, InPool
<1>1. /\ pool' = [b \in Blocks |-> IF b \in bs THEN "out" ELSE pool[b]]
      /\ left' = [f \in Files |-> left[f] - Cardinality({b \in bs : File(b) = f})]
      /\ tick' = TRUE
  BY DEF Pops
<1>2. IsFiniteSet(bs) BY <1>t, FS_Subset
<1>3. ASSUME NEW f \in Files PROVE Cardinality({b \in bs : File(b) = f}) \in Int
  <2>1. PICK S : S = {b \in bs : File(b) = f} OBVIOUS
  <2>2. S \in SUBSET bs BY <2>1
  <2>3. IsFiniteSet(S) BY <2>2, <1>2, FS_Subset
  <2>4. Cardinality(S) \in Nat BY <2>3, FS_CardinalityType
  <2> QED BY <2>1, <2>4
<1>4. "out" \in States BY DEF States
<1>5. /\ pool' \in [Blocks -> States]
      /\ \A b \in Blocks : pool'[b] = IF b \in bs THEN "out" ELSE pool[b]
  BY <1>1, <1>4, <1>t
<1>6. left' \in [Files -> Int] BY <1>1, <1>3, <1>t
<1>7. InPool' = InPool \ bs BY <1>1, <1>t DEF InPool
<1> QED BY <1>1, <1>2, <1>5, <1>6, <1>7

\* The state of a block in the pool changes.
LEMMA MoveTyped ==
  ASSUME TypeInv, NEW b \in InPool, NEW s \in States \ {"out"}, pool' = [pool EXCEPT ![b] = s]
  PROVE pool' \in [Blocks -> States] /\ InPool' = InPool /\ pool'[b] = s
        /\ \A c \in Blocks \ {b} : pool'[c] = pool[c]
<1>t. pool \in [Blocks -> States] /\ InPool \subseteq Blocks BY DEF TypeInv, Typed, InPool
<1> QED BY <1>t DEF InPool

\* A block of a file starts.
LEMMA StartTyped ==
  ASSUME TypeInv, NEW f \in Files, NEW c \in 0..(Chunks[f] - 1), StartSend(f, c)
  PROVE /\ pool' \in [Blocks -> States] /\ next' \in [Files -> Nat] /\ tick' \in BOOLEAN
        /\ InPool' = InPool \cup {<<f, c>>}
        /\ next'[f] = c + 1 /\ \A g \in Files \ {f} : next'[g] = next[g]
        /\ pool'[<<f, c>>] = "before" /\ \A b \in Blocks \ {<<f, c>>} : pool'[b] = pool[b]
<1>t. /\ pool \in [Blocks -> States] /\ next \in [Files -> Nat] /\ Chunks[f] \in Nat
      /\ <<f, c>> \in Blocks
  BY BlockFacts DEF TypeInv, Typed
<1>1. PICK b : b = <<f, c>> OBVIOUS
<1>2. /\ b \in Blocks /\ pool' = [pool EXCEPT ![b] = "before"] /\ tick' = TRUE
      /\ next' = [next EXCEPT ![f] = c + 1] /\ c + 1 \in Nat
  BY <1>1, <1>t DEF StartSend
<1>3. /\ pool' \in [Blocks -> States] /\ InPool' = InPool \cup {b}
      /\ pool'[b] = "before" /\ \A a \in Blocks \ {b} : pool'[a] = pool[a]
  BY <1>2, <1>t DEF States, InPool
<1>4. /\ next' \in [Files -> Nat] /\ next'[f] = c + 1 /\ \A g \in Files \ {f} : next'[g] = next[g]
  BY <1>2, <1>t
<1> QED BY <1>1, <1>2, <1>3, <1>4

LEMMA TypedNext == TypeInv /\ [Next]_vars => Typed' /\ IsFiniteSet(InPool)'
<1> SUFFICES ASSUME TypeInv, [Next]_vars PROVE Typed' /\ IsFiniteSet(InPool)'
  OBVIOUS
<1>t. Typed /\ IsFiniteSet(InPool) /\ InPool \subseteq Blocks BY DEF TypeInv, InPool
<1>s. /\ \A b \in Blocks : File(b) \in Files /\ Chunk(b) \in Numbers /\ Chunk(b) + 1 \in Numbers
      /\ \A f \in Files : Chunks[f] \in Nat \ {0} /\ 0 \in Numbers
      /\ None \notin Blocks /\ Retries \in Nat
  BY BlockFacts, ChunksAssumption
<1>f. pool' = pool => IsFiniteSet(InPool)' BY <1>t DEF InPool
<1>l. ASSUME NEW bs \in SUBSET Blocks, NEW lost \in SUBSET Sends(bs), late' = late \cup lost
      PROVE late' \subseteq Blocks \X (0..Retries)
  <2>1. Sends(bs) \subseteq Blocks \X (0..Retries)
    <3>1. \A b \in bs : <<b, retried[b]>> \in Blocks \X (0..Retries) BY <1>t DEF Typed
    <3> QED BY <3>1 DEF Sends
  <2> QED BY <1>l, <2>1, <1>t DEF Typed
<1>m. ASSUME NEW f \in Files, NEW r \in MergeRecords, merge' = [merge EXCEPT ![f] = r]
      PROVE merge' \in [Files -> MergeRecords]
  BY <1>m, <1>t DEF Typed
<1>r. ASSUME NEW f \in Files, NEW p \in Merges, merge' = [merge EXCEPT ![f].pc = p]
      PROVE merge' \in [Files -> MergeRecords]
  <2> DEFINE r == [merge[f] EXCEPT !.pc = p]
  <2>1. \A x \in MergeRecords : [x EXCEPT !.pc = p] \in MergeRecords BY DEF MergeRecords
  <2>2. r \in MergeRecords BY <2>1, <1>t DEF Typed
  <2>3. merge' = [merge EXCEPT ![f] = r] BY <1>r, <1>t DEF Typed
  <2> HIDE DEF r
  <2> QED BY <2>2, <2>3, <1>m
<1>1. ASSUME NEW f \in Files, Choose(f) PROVE Typed' /\ IsFiniteSet(InPool)'
  <2>1. /\ status' = [status EXCEPT ![f] = "inited"] /\ queue' = Append(queue, f)
        /\ timer' = TRUE
        /\ UNCHANGED <<running, tick, promise, next, left, pool, retried, late, disk, merge, target>>
    BY <1>1 DEF Choose, server
  <2>2. queue' \in Seq(Files) BY <2>1, <1>t, AppendProperties DEF Typed
  <2>3. status' \in [Files -> Statuses] BY <2>1, <1>t DEF Typed, Statuses
  <2>4. mixed' \in BOOLEAN BY <1>1 DEF Choose
  <2> QED BY <2>1, <2>2, <2>3, <2>4, <1>t, <1>f DEF Typed
<1>2. CASE Start
  <2>1. /\ status' = [f \in Files |-> IF status[f] = "inited" THEN "queued" ELSE status[f]]
        /\ timer' = FALSE /\ running' = TRUE
        /\ UNCHANGED <<queue, promise, next, left, pool, retried, late, disk, merge, target, mixed>>
    BY <1>2 DEF Start, server
  <2>2. status' \in [Files -> Statuses] BY <2>1, <1>t DEF Typed, Statuses
  <2>3. tick' \in BOOLEAN BY <1>2 DEF Start
  <2> QED BY <2>1, <2>2, <2>3, <1>t, <1>f DEF Typed
<1>3. CASE Tick
  <2>1. UNCHANGED <<queue, timer, left, retried, late, disk, merge, target, mixed>>
    BY <1>3 DEF Tick, server
  <2>2. CASE NextBlock
    <3>1. PICK f \in Ready : /\ StartSend(f, next[f]) /\ UNCHANGED <<status, running, promise>>
      BY <2>2, ReadyFiles DEF NextBlock
    <3>2. f \in Files /\ next[f] \in 0..(Chunks[f] - 1) BY <1>s, <1>t DEF Ready, Of, Typed
    <3>3. /\ pool' \in [Blocks -> States] /\ next' \in [Files -> Nat] /\ tick' \in BOOLEAN
          /\ InPool' = InPool \cup {<<f, next[f]>>}
      BY <3>1, <3>2, StartTyped
    <3>4. IsFiniteSet(InPool)' BY <3>3, <1>t, FS_AddElement
    <3> QED BY <2>1, <3>1, <3>3, <3>4, <1>t DEF Typed
  <2>3. CASE PrepareNextFile
    <3>1. PICK f \in Files : /\ status' = [status EXCEPT ![f] = "progress"] /\ promise' = f
                             /\ tick' = FALSE /\ UNCHANGED <<running, next, pool>>
      BY <2>3, ReadyFiles DEF PrepareNextFile
    <3>2. status' \in [Files -> Statuses] BY <3>1, <1>t DEF Typed, Statuses
    <3> QED BY <2>1, <3>1, <3>2, <1>t, <1>f DEF Typed
  <2>4. CASE NothingToDo
    <3>1. tick' = FALSE /\ UNCHANGED <<status, promise, next, pool>> BY <2>4 DEF NothingToDo
    <3>2. running' \in BOOLEAN BY <2>4 DEF NothingToDo
    <3> QED BY <2>1, <3>1, <3>2, <1>t, <1>f DEF Typed
  <2> QED BY <1>3, <2>2, <2>3, <2>4 DEF Tick
<1>4. CASE Prepared
  <2>1. /\ promise \in Files /\ promise' = None /\ StartSend(promise, 0)
        /\ left' = [left EXCEPT ![promise] = Chunks[promise]]
        /\ UNCHANGED <<status, queue, running, timer, retried, late, disk, merge, target, mixed>>
    BY <1>4, <1>t DEF Prepared, server, Typed
  <2>2. 0 \in 0..(Chunks[promise] - 1) BY <2>1, <1>s
  <2>3. /\ pool' \in [Blocks -> States] /\ next' \in [Files -> Nat] /\ tick' \in BOOLEAN
        /\ InPool' = InPool \cup {<<promise, 0>>}
    BY <2>1, <2>2, StartTyped
  <2>4. IsFiniteSet(InPool)' BY <2>3, <1>t, FS_AddElement
  <2>5. left' \in [Files -> Int] BY <2>1, <1>s, <1>t DEF Typed
  <2> QED BY <2>1, <2>3, <2>4, <2>5, <1>t DEF Typed
<1>5. ASSUME NEW b \in Blocks, BeforeSend(b) \/ Load(b) PROVE Typed' /\ IsFiniteSet(InPool)'
  <2>1. /\ b \in InPool
        /\ UNCHANGED <<status, queue, running, timer, promise, next, retried, late, disk, merge,
                       target, mixed>>
    BY <1>5 DEF BeforeSend, Load, InPool, server
  <2>2. CASE Pops({b})
    <3>1. {b} \in SUBSET InPool BY <2>1
    <3>2. /\ pool' \in [Blocks -> States] /\ left' \in [Files -> Int] /\ tick' \in BOOLEAN
          /\ InPool' \subseteq InPool
      BY <3>1, <2>2, PopsTyped
    <3>3. IsFiniteSet(InPool)' BY <3>2, <1>t, FS_Subset
    <3> QED BY <2>1, <3>2, <3>3, <1>t DEF Typed
  <2>3. CASE ~Pops({b})
    <3>1. /\ UNCHANGED <<left, tick>>
          /\ \E s \in States \ {"out"} : pool' = [pool EXCEPT ![b] = s]
      BY <1>5, <2>3 DEF BeforeSend, Load, States
    <3>2. pool' \in [Blocks -> States] /\ InPool' = InPool BY <2>1, <3>1, MoveTyped
    <3> QED BY <2>1, <3>1, <3>2, <1>t DEF Typed
  <2> QED BY <2>2, <2>3
<1>6. ASSUME NEW b \in Blocks, FinishFile(b) PROVE Typed' /\ IsFiniteSet(InPool)'
  <2>1. PICK bs \in SUBSET InPool, f \in Files :
          /\ Pops(bs) /\ status' = [status EXCEPT ![f] = "complete"]
          /\ merge' = [merge EXCEPT ![f].pc = "asked"]
          /\ UNCHANGED <<queue, running, timer, promise, next, retried, late, disk, target, mixed>>
    BY <1>6, <1>s DEF FinishFile
  <2>2. /\ pool' \in [Blocks -> States] /\ left' \in [Files -> Int] /\ tick' \in BOOLEAN
        /\ InPool' \subseteq InPool
    BY <2>1, PopsTyped
  <2>3. IsFiniteSet(InPool)' BY <2>2, <1>t, FS_Subset
  <2>4. status' \in [Files -> Statuses] BY <2>1, <1>t DEF Typed, Statuses
  <2>5. merge' \in [Files -> MergeRecords] BY <2>1, <1>r DEF Merges
  <2> QED BY <2>1, <2>2, <2>3, <2>4, <2>5, <1>t DEF Typed
<1>7. ASSUME NEW b \in Blocks, Again(b) PROVE Typed' /\ IsFiniteSet(InPool)'
  <2>1. PICK lost \in SUBSET Sends({b}) : late' = late \cup lost BY <1>7 DEF Again
  <2>2. late' \subseteq Blocks \X (0..Retries) BY <2>1, <1>l
  <2>3. /\ b \in InPool /\ pool' = [pool EXCEPT ![b] = "sent"]
        /\ retried[b] < Retries /\ retried' = [retried EXCEPT ![b] = @ + 1]
        /\ UNCHANGED <<status, queue, running, timer, tick, promise, next, left, disk, merge,
                       target, mixed>>
    BY <1>7 DEF Again, InPool, server
  <2>4. "sent" \in States \ {"out"} BY DEF States
  <2>5. pool' \in [Blocks -> States] /\ InPool' = InPool BY <2>3, <2>4, MoveTyped
  <2>6. retried' \in [Blocks -> 0..Retries]
    <3>1. retried[b] \in 0..Retries BY <1>t DEF Typed
    <3>2. retried[b] + 1 \in 0..Retries BY <2>3, <3>1, <1>s
    <3> QED BY <2>3, <3>2, <1>t DEF Typed
  <2> QED BY <2>2, <2>3, <2>5, <2>6, <1>t DEF Typed
<1>8. ASSUME NEW b \in Blocks, Fail(b) PROVE Typed' /\ IsFiniteSet(InPool)'
  <2>0. PICK bs \in SUBSET InPool : \E lost \in SUBSET Sends(bs), f \in Files :
          /\ Pops(bs) /\ late' = late \cup lost /\ status' = [status EXCEPT ![f] = "error"]
          /\ UNCHANGED <<queue, running, timer, promise, next, retried, disk, merge, target, mixed>>
    <3> DEFINE bs == {c \in InPool : File(c) = File(b) /\ pool[c] # "before"}
    <3>1. bs \in SUBSET InPool OBVIOUS
    <3>2. /\ Pops(bs) /\ status' = [status EXCEPT ![File(b)] = "error"]
          /\ \E lost \in SUBSET Sends(bs) : late' = late \cup lost
          /\ UNCHANGED <<queue, running, timer, promise, next, retried, disk, merge, target, mixed>>
      BY <1>8 DEF Fail, server
    <3> HIDE DEF bs
    <3> QED BY <3>1, <3>2, <1>s
  <2>1. PICK lost \in SUBSET Sends(bs), f \in Files :
           /\ Pops(bs) /\ late' = late \cup lost /\ status' = [status EXCEPT ![f] = "error"]
           /\ UNCHANGED <<queue, running, timer, promise, next, retried, disk, merge, target,
                          mixed>>
    BY <2>0
  <2>2. /\ pool' \in [Blocks -> States] /\ left' \in [Files -> Int] /\ tick' \in BOOLEAN
        /\ InPool' \subseteq InPool
    BY <2>1, PopsTyped
  <2>3. IsFiniteSet(InPool)' BY <2>2, <1>t, FS_Subset
  <2>4. status' \in [Files -> Statuses] BY <2>1, <1>t DEF Typed, Statuses
  <2>5. late' \subseteq Blocks \X (0..Retries)
    <3>1. bs \in SUBSET Blocks BY <1>t
    <3> QED BY <2>1, <3>1, <1>l
  <2> QED BY <2>1, <2>2, <2>3, <2>4, <2>5, <1>t DEF Typed
<1>9. CASE Reload
  <2>1. /\ late' = {} /\ disk' = [n \in Numbers |-> None]
        /\ UNCHANGED <<page, merge, target, mixed>>
    BY <1>9 DEF Reload
  <2>2. disk' \in [Numbers -> Blocks \cup {None}] BY <2>1
  <2> QED BY <2>1, <2>2, <1>t, <1>f DEF Typed, page
<1>d. ASSUME NEW b \in Blocks, Saved(b) PROVE disk' \in [Numbers -> Blocks \cup {None}]
  BY <1>d, <1>t DEF Saved, Typed
<1>10. ASSUME NEW b \in Blocks, Accept(b) PROVE Typed' /\ IsFiniteSet(InPool)'
  <2>1. /\ b \in InPool /\ pool' = [pool EXCEPT ![b] = "saved"] /\ Saved(b)
        /\ UNCHANGED <<status, queue, running, timer, tick, promise, next, left, retried,
                       late, merge, target, mixed>>
    BY <1>10 DEF Accept, InPool
  <2>2. "saved" \in States \ {"out"} BY DEF States
  <2>3. pool' \in [Blocks -> States] /\ InPool' = InPool BY <2>1, <2>2, MoveTyped
  <2> QED BY <2>1, <2>3, <1>d, <1>t DEF Typed
<1>11. ASSUME NEW b \in Blocks, NEW k \in 0..Retries, AcceptLate(b, k)
       PROVE Typed' /\ IsFiniteSet(InPool)'
  <2>1. late' \subseteq late /\ Saved(b) /\ UNCHANGED <<page, merge, target, mixed>>
    BY <1>11 DEF AcceptLate
  <2> QED BY <2>1, <1>d, <1>t, <1>f DEF Typed, page
<1>12. ASSUME NEW f \in Files, Complete(f) PROVE Typed' /\ IsFiniteSet(InPool)'
  <2>1. PICK p \in Merges : merge' = [merge EXCEPT ![f].pc = p]
    BY <1>12 DEF Complete, Merges
  <2>2. UNCHANGED <<page, late, disk, target, mixed>> BY <1>12 DEF Complete
  <2> QED BY <2>1, <2>2, <1>r, <1>t, <1>f DEF Typed, page
<1>13. ASSUME NEW f \in Files, MergeChunk(f) PROVE Typed' /\ IsFiniteSet(InPool)'
  <2>1. PICK p \in Merges : merge' = [merge EXCEPT ![f].pc = p]
    BY <1>13 DEF MergeChunk, Merges
  <2>2. UNCHANGED <<page, late, disk, mixed>> BY <1>13 DEF MergeChunk
  <2>3. PICK b : b = disk[merge[f].pos] OBVIOUS
  <2>4. target' = target \/ (b # None /\ target' = [target EXCEPT ![f] = Append(@, b)])
    BY <1>13, <2>3 DEF MergeChunk
  <2>5. b # None => b \in Blocks
    <3>1. merge[f].pos \in Numbers BY <1>s, <1>t DEF Typed, MergeRecords
    <3> QED BY <2>3, <3>1, <1>t DEF Typed
  <2>6. target' \in [Files -> Seq(Blocks)]
    <3>1. target[f] \in Seq(Blocks) BY <1>t DEF Typed
    <3>2. b # None => Append(target[f], b) \in Seq(Blocks) BY <3>1, <2>5, AppendProperties
    <3>3. PICK s : s = Append(target[f], b) OBVIOUS
    <3> QED BY <2>4, <3>2, <3>3, <1>t DEF Typed
  <2> QED BY <2>1, <2>2, <2>6, <1>r, <1>t, <1>f DEF Typed, page
<1>14. ASSUME NEW f \in Files, RemoveChunk(f) PROVE Typed' /\ IsFiniteSet(InPool)'
  <2>1. PICK n : n = merge[f].pos OBVIOUS
  <2>2. n \in Numbers BY <2>1, <1>s, <1>t DEF Typed, MergeRecords
  <2>3. UNCHANGED <<page, late, target, mixed>> BY <1>14 DEF RemoveChunk
  <2>4. CASE disk[n] = None
    <3>1. merge' = [merge EXCEPT ![f].pc = "broken"] /\ disk' = disk
      BY <1>14, <2>1, <2>4 DEF RemoveChunk
    <3>2. "broken" \in Merges BY DEF Merges
    <3> QED BY <2>3, <3>1, <3>2, <1>r, <1>t, <1>f DEF Typed, page
  <2>5. CASE disk[n] # None
    <3>1. /\ merge' = [merge EXCEPT ![f] = [pc |-> "read", pos |-> n + 1]]
          /\ disk' = [disk EXCEPT ![n] = None]
      BY <1>14, <2>1, <2>5 DEF RemoveChunk
    <3>2. disk[n] \in Blocks /\ Chunk(disk[n]) = n BY <2>2, <2>5, <1>t DEF Typed, TypeInv, Named
    <3>3. n + 1 \in Numbers BY <3>2, <1>s
    <3>4. [pc |-> "read", pos |-> n + 1] \in MergeRecords BY <3>3 DEF MergeRecords, Merges
    <3>5. merge' \in [Files -> MergeRecords] BY <3>1, <3>4, <1>m
    <3>6. disk' \in [Numbers -> Blocks \cup {None}] BY <3>1, <1>t DEF Typed
    <3> QED BY <2>3, <3>5, <3>6, <1>t, <1>f DEF Typed, page
  <2> QED BY <2>4, <2>5
<1>15. CASE UNCHANGED vars
  BY <1>15, <1>t, <1>f DEF vars, page, server, Typed
<1> QED BY <1>1, <1>2, <1>3, <1>4, <1>5, <1>6, <1>7, <1>8, <1>9, <1>10, <1>11, <1>12, <1>13,
           <1>14, <1>15
        DEF Next, PageStep, BlockStep, MergeStep

-----------------------------------------------------------------------------
Mine(f) == {b \in InPool : File(b) = f}

\* The file has been cut into its chunks.
Cut(f) == status[f] \in {"progress", "complete", "error"} /\ f # promise

(* left[f] counts the chunks of a file that are in the pool or still to come,
   however the file ends; those in the pool have been handed out before.     *)
FileCounted(f) ==
  \/ /\ Cut(f) /\ next[f] \in 1..Chunks[f] /\ Cardinality(Mine(f)) <= next[f]
     /\ left[f] = Chunks[f] - next[f] + Cardinality(Mine(f))
  \/ ~Cut(f) /\ next[f] = 0 /\ left[f] = 0 /\ Mine(f) = {}

(* A file is prepared only while there is room for its first chunk, and no
   other chunk takes that room.                                              *)
Counted ==
  /\ \A f \in Files : FileCounted(f)
  /\ \A b \in InPool : Chunk(b) < next[File(b)]
  /\ Cardinality(InPool) <= Threads
  /\ promise # None => status[promise] = "progress" /\ Cardinality(InPool) < Threads

LEMMA QueuedNext == TypeInv /\ Counted /\ [Next]_vars => Queued'
<1> SUFFICES ASSUME TypeInv, Counted, [Next]_vars PROVE Queued'
  OBVIOUS
<1>t. Typed /\ Queued /\ \A b \in Blocks : File(b) \in Files BY BlockFacts DEF TypeInv
<1>a. ASSUME queue' = queue, \A f \in Files : status'[f] # "away" => status[f] # "away"
      PROVE Queued'
  BY <1>a, <1>t DEF Queued
<1>u. ASSUME NEW f \in Files, NEW x, status[f] # "away", status' = [status EXCEPT ![f] = x],
             queue' = queue
      PROVE Queued'
  BY <1>u, <1>a, <1>t DEF Typed
<1>1. ASSUME NEW f \in Files, Choose(f) PROVE Queued'
  <2>1. /\ status' = [status EXCEPT ![f] = "inited"] /\ queue' = Append(queue, f)
        /\ queue \in Seq(Files)
    BY <1>1, <1>t DEF Choose, Typed
  <2>2. /\ Len(queue') = Len(queue) + 1 /\ queue' \in Seq(Files)
        /\ \A i \in 1..Len(queue) : queue'[i] = queue[i]
        /\ queue'[Len(queue) + 1] = f
    BY <2>1, AppendProperties
  <2>3. /\ Len(queue) \in Nat /\ DOMAIN queue = 1..Len(queue)
        /\ DOMAIN queue' = 1..(Len(queue) + 1)
    BY <2>1, <2>2, LenProperties
  <2>4. /\ DOMAIN queue \subseteq DOMAIN queue' /\ Len(queue) + 1 \in DOMAIN queue' BY <2>3
  <2>5. ASSUME NEW g \in Files, status'[g] # "away" PROVE \E i \in DOMAIN queue' : queue'[i] = g
    <3>1. CASE g = f BY <2>2, <2>4, <3>1
    <3>2. CASE g # f
      <4>1. status[g] # "away" BY <2>1, <2>5, <3>2, <1>t DEF Typed
      <4>2. PICK i \in DOMAIN queue : queue[i] = g BY <4>1, <1>t DEF Queued
      <4> QED BY <2>2, <2>3, <2>4, <4>2
    <3> QED BY <3>1, <3>2
  <2> QED BY <2>5 DEF Queued
<1>2. CASE Start
  BY <1>2, <1>a, <1>t DEF Start, Typed
<1>3. CASE Tick
  <2>1. queue' = queue BY <1>3 DEF Tick
  <2>2. status' = status \/ \E f \in Of("queued") : status' = [status EXCEPT ![f] = "progress"]
    BY <1>3, ReadyFiles DEF Tick, NextBlock, PrepareNextFile, NothingToDo
  <2>3. \A f \in Of("queued") : f \in Files /\ status[f] # "away" BY DEF Of
  <2> QED BY <2>1, <2>2, <2>3, <1>a, <1>u
<1>4. ASSUME NEW b \in Blocks, FinishFile(b) \/ Fail(b) PROVE Queued'
  <2>1. PICK x \in {"complete", "error"} : status' = [status EXCEPT ![File(b)] = x]
    BY <1>4 DEF FinishFile, Fail
  <2>2. queue' = queue /\ b \in InPool BY <1>4 DEF FinishFile, Fail, InPool
  <2>3. status[File(b)] # "away"
    <3>1. File(b) \in Files /\ b \in Mine(File(b)) BY <2>2, <1>t DEF Mine
    <3> QED BY <3>1 DEF Counted, FileCounted, Cut
  <2> QED BY <2>1, <2>2, <2>3, <1>t, <1>u
<1>5. ASSUME \/ Prepared \/ Reload
             \/ \E b \in Blocks : \/ BeforeSend(b) \/ Load(b) \/ Again(b) \/ Accept(b)
                                  \/ \E k \in 0..Retries : AcceptLate(b, k)
             \/ \E f \in Files : MergeStep(f)
             \/ UNCHANGED vars
      PROVE Queued'
  <2>1. queue' = queue /\ status' = status
    BY <1>5 DEF Prepared, Reload, BeforeSend, Load, Again, Accept, AcceptLate, MergeStep,
                Complete, MergeChunk, RemoveChunk, page, vars
  <2> QED BY <2>1, <1>a
<1> QED BY <1>1, <1>2, <1>3, <1>4, <1>5 DEF Next, PageStep, BlockStep

LEMMA NamedNext == TypeInv /\ [Next]_vars => Named'
<1> SUFFICES ASSUME TypeInv, [Next]_vars PROVE Named'
  OBVIOUS
<1>t. Typed /\ Named /\ \A b \in Blocks : Chunk(b) \in Numbers BY BlockFacts DEF TypeInv
<1>1. ASSUME NEW b \in Blocks, Saved(b) PROVE Named'
  <2>1. \A n \in Numbers : disk'[n] = IF n = Chunk(b) THEN b ELSE disk[n]
    BY <1>1, <1>t DEF Saved, Typed
  <2> QED BY <2>1, <1>t DEF Named
<1>2. ASSUME \A n \in Numbers : disk'[n] \in {disk[n], None} PROVE Named'
  BY <1>2, <1>t DEF Named
<1>3. CASE Reload BY <1>2, <1>3 DEF Reload
<1>4. ASSUME NEW f \in Files, RemoveChunk(f) PROVE Named'
  <2>1. disk' = disk \/ disk' = [disk EXCEPT ![merge[f].pos] = None]
    BY <1>4 DEF RemoveChunk
  <2> QED BY <2>1, <1>2, <1>t DEF Typed
<1>5. ASSUME \/ PageStep
             \/ \E b \in Blocks : BlockStep(b)
             \/ \E f \in Files : Choose(f) \/ Complete(f) \/ MergeChunk(f)
             \/ UNCHANGED vars
      PROVE Named'
  <2>1. disk' = disk
    BY <1>5 DEF PageStep, Start, Tick, Prepared, BlockStep, BeforeSend, Load, FinishFile, Again,
                Fail, Choose, Complete, MergeChunk, server, vars
  <2> QED BY <2>1, <1>2
<1>6. ASSUME NEW b \in Blocks, NEW k \in 0..Retries, Accept(b) \/ AcceptLate(b, k)
      PROVE Saved(b)
  BY <1>6 DEF Accept, AcceptLate
<1> QED BY <1>1, <1>3, <1>4, <1>5, <1>6, <1>t DEF Next, MergeStep, Accept

LEMMA CountedInit == Init => Counted
<1> SUFFICES ASSUME Init PROVE Counted
  OBVIOUS
<1>1. InPool = {} BY DEF Init, InPool
<1>2. Cardinality(InPool) = 0 BY <1>1, FS_EmptySet
<1>3. \A f \in Files : FileCounted(f) BY <1>1 DEF Init, FileCounted, Cut, Mine
<1> QED BY <1>1, <1>2, <1>3, ChunksAssumption DEF Init, Counted

LEMMA MineFacts ==
  ASSUME TypeInv, NEW f \in Files
  PROVE /\ IsFiniteSet(Mine(f)) /\ Cardinality(Mine(f)) \in Nat
        /\ Mine(f) = {} <=> Cardinality(Mine(f)) = 0
<1>1. Mine(f) \in SUBSET InPool /\ IsFiniteSet(InPool) BY DEF Mine, TypeInv
<1>2. IsFiniteSet(Mine(f)) BY <1>1, FS_Subset
<1> QED BY <1>2, FS_CardinalityType, FS_EmptySet

\* Blocks that leave the pool are no longer counted.
LEMMA CountedPops ==
  ASSUME TypeInv, Counted, NEW bs \in SUBSET InPool, Pops(bs),
         UNCHANGED <<next, promise>>, \A f \in Files : Cut(f)' <=> Cut(f),
         promise # None => status'[promise] = "progress"
  PROVE Counted'
<1>t. /\ Typed /\ IsFiniteSet(InPool) /\ InPool \subseteq Blocks
      /\ next \in [Files -> Nat] /\ left \in [Files -> Int]
      /\ \A f \in Files : Chunks[f] \in Nat \ {0}
      /\ Threads \in Nat
  BY BlockFacts, ChunksAssumption DEF TypeInv, Typed, InPool
<1>1. /\ InPool' = InPool \ bs /\ IsFiniteSet(bs)
      /\ \A f \in Files : left'[f] = left[f] - Cardinality({b \in bs : File(b) = f})
  BY PopsTyped
<1>2. ASSUME NEW f \in Files PROVE FileCounted(f)'
  <2>1. PICK S : S = {b \in bs : File(b) = f} OBVIOUS
  <2>2. PICK M : M = Mine(f) OBVIOUS
  <2>3. Mine(f)' = M \ S BY <1>1, <2>1, <2>2 DEF Mine
  <2>4. S \in SUBSET M BY <2>1, <2>2 DEF Mine
  <2>5. IsFiniteSet(M) /\ Cardinality(M) \in Nat BY <2>2, MineFacts
  <2>6. Cardinality(M \ S) = Cardinality(M) - Cardinality(S)
    <3>1. M \cap S = S BY <2>4
    <3>2. Cardinality(M \ S) = Cardinality(M) - Cardinality(M \cap S) BY <2>5, FS_Difference
    <3> QED BY <3>1, <3>2
  <2>7. IsFiniteSet(S) /\ Cardinality(S) \in Nat BY <2>4, <2>5, FS_Subset, FS_CardinalityType
  <2>8. left'[f] = left[f] - Cardinality(S) BY <1>1, <2>1
  <2>9. FileCounted(f) BY DEF Counted
  <2>10. CASE Cut(f)
    <3>1. /\ next[f] \in 1..Chunks[f] /\ Cardinality(M) <= next[f]
          /\ left[f] = Chunks[f] - next[f] + Cardinality(M)
      BY <2>2, <2>9, <2>10 DEF FileCounted
    <3>2. Cardinality(Mine(f)') = Cardinality(M) - Cardinality(S) BY <2>3, <2>6
    <3>3. /\ next'[f] \in 1..Chunks[f] /\ Cardinality(Mine(f)') <= next'[f]
          /\ left'[f] = Chunks[f] - next'[f] + Cardinality(Mine(f)')
      BY <3>1, <3>2, <2>5, <2>7, <2>8, <1>t
    <3>4. Cut(f)' BY <2>10
    <3> QED BY <3>3, <3>4 DEF FileCounted
  <2>11. CASE ~Cut(f)
    <3>1. next[f] = 0 /\ left[f] = 0 /\ M = {} BY <2>2, <2>9, <2>11 DEF FileCounted
    <3>2. S = {} /\ Mine(f)' = {} BY <3>1, <2>3, <2>4
    <3>3. left'[f] = 0 BY <3>1, <3>2, <2>8, FS_EmptySet
    <3>4. ~Cut(f)' BY <2>11
    <3> QED BY <3>1, <3>2, <3>3, <3>4 DEF FileCounted
  <2> QED BY <2>10, <2>11
<1>3. /\ Cardinality(InPool') <= Cardinality(InPool)
      /\ Cardinality(InPool) \in Nat /\ Cardinality(InPool') \in Nat
  <2>1. InPool' \in SUBSET InPool BY <1>1
  <2> QED BY <2>1, <1>t, FS_Subset, FS_CardinalityType
<1>4. \A b \in InPool' : Chunk(b) < next'[File(b)] BY <1>1 DEF Counted
<1>5. Cardinality(InPool') <= Threads /\ (promise # None => Cardinality(InPool') < Threads)
  BY <1>3, <1>t DEF Counted
<1> QED BY <1>2, <1>4, <1>5 DEF Counted

\* A block that starts is counted from then on.
LEMMA CountedStart ==
  ASSUME TypeInv, Counted, NEW f \in Files, NEW c \in 0..(Chunks[f] - 1), StartSend(f, c),
         c = next[f], promise' = None, status' = status, status[f] = "progress",
         Cardinality(InPool) < Threads,
         \A g \in Files \ {f} : left'[g] = left[g] /\ g # promise,
         left'[f] = IF f = promise THEN Chunks[f] ELSE left[f]
  PROVE Counted'
<1>t. /\ Typed /\ IsFiniteSet(InPool) /\ InPool \subseteq Blocks
      /\ next \in [Files -> Nat] /\ Chunks[f] \in Nat \ {0}
      /\ Threads \in Nat /\ None \notin Files
      /\ File(<<f, c>>) = f /\ Chunk(<<f, c>>) = c /\ \A b \in Blocks : File(b) \in Files
  BY BlockFacts, ChunksAssumption DEF TypeInv, Typed, InPool
<1>1. PICK a : a = <<f, c>> OBVIOUS
<1>2. /\ InPool' = InPool \cup {a} /\ next'[f] = c + 1
      /\ \A g \in Files \ {f} : next'[g] = next[g]
  BY <1>1, StartTyped
<1>3. a \notin InPool /\ File(a) = f /\ Chunk(a) = c BY <1>1, <1>t DEF Counted
<1>4. \A g \in Files \ {f} : FileCounted(g)'
  <2> SUFFICES ASSUME NEW g \in Files \ {f} PROVE FileCounted(g)'
    OBVIOUS
  <2>1. Mine(g)' = Mine(g) BY <1>2, <1>3 DEF Mine
  <2>2. Cut(g)' <=> Cut(g) BY <1>t DEF Cut
  <2>3. FileCounted(g) BY DEF Counted
  <2> QED BY <1>2, <2>1, <2>2, <2>3 DEF FileCounted
<1>5. FileCounted(f)'
  <2>1. Mine(f)' = Mine(f) \cup {a} BY <1>2, <1>3 DEF Mine
  <2>2. IsFiniteSet(Mine(f)) /\ Cardinality(Mine(f)) \in Nat /\ a \notin Mine(f)
    BY <1>3, MineFacts DEF Mine
  <2>3. Cardinality(Mine(f)') = Cardinality(Mine(f)) + 1 BY <2>1, <2>2, FS_AddElement
  <2>4. Cut(f)' BY <1>t DEF Cut
  <2>5. FileCounted(f) BY DEF Counted
  <2>6. CASE f = promise
    <3>1. ~Cut(f) BY <2>6 DEF Cut
    <3>2. next[f] = 0 /\ Mine(f) = {} BY <3>1, <2>5 DEF FileCounted
    <3>3. Cardinality(Mine(f)) = 0 BY <3>2, FS_EmptySet
    <3>4. /\ next'[f] \in 1..Chunks[f] /\ Cardinality(Mine(f)') <= next'[f]
          /\ left'[f] = Chunks[f] - next'[f] + Cardinality(Mine(f)')
      BY <3>2, <3>3, <2>3, <2>6, <1>2, <1>t
    <3> QED BY <3>4, <2>4 DEF FileCounted
  <2>7. CASE f # promise
    <3>1. Cut(f) BY <2>7 DEF Cut
    <3>2. /\ Cardinality(Mine(f)) <= next[f]
          /\ left[f] = Chunks[f] - next[f] + Cardinality(Mine(f))
      BY <3>1, <2>5 DEF FileCounted
    <3>3. /\ next'[f] \in 1..Chunks[f] /\ Cardinality(Mine(f)') <= next'[f]
          /\ left'[f] = Chunks[f] - next'[f] + Cardinality(Mine(f)')
      BY <3>2, <2>2, <2>3, <2>7, <1>2, <1>t
    <3> QED BY <3>3, <2>4 DEF FileCounted
  <2> QED BY <2>6, <2>7
<1>6. \A b \in InPool' : Chunk(b) < next'[File(b)]
  <2> SUFFICES ASSUME NEW b \in InPool' PROVE Chunk(b) < next'[File(b)]
    OBVIOUS
  <2>1. CASE b = a BY <2>1, <1>2, <1>3, <1>t
  <2>2. CASE b # a
    <3>1. b \in InPool /\ Chunk(b) < next[File(b)] BY <2>2, <1>2 DEF Counted
    <3>2. File(b) \in Files /\ Chunk(b) \in Nat
      <4>1. b \in Blocks BY <3>1, <1>t
      <4> QED BY <4>1, BlockFacts
    <3> QED BY <3>1, <3>2, <1>2, <1>t
  <2> QED BY <2>1, <2>2
<1>7. Cardinality(InPool') <= Threads
  <2>1. Cardinality(InPool') = Cardinality(InPool) + 1 BY <1>2, <1>3, <1>t, FS_AddElement
  <2>2. Cardinality(InPool) \in Nat BY <1>t, FS_CardinalityType
  <2> QED BY <2>1, <2>2, <1>t
<1> QED BY <1>4, <1>5, <1>6, <1>7 DEF Counted

LEMMA CountedNext == TypeInv /\ Counted /\ [Next]_vars => Counted'
<1> SUFFICES ASSUME TypeInv, Counted, [Next]_vars PROVE Counted'
  OBVIOUS
<1>t. /\ Typed /\ InPool \subseteq Blocks /\ status \in [Files -> Statuses]
      /\ None \notin Files
      /\ \A b \in Blocks : File(b) \in Files
      /\ \A f \in Files : Chunks[f] \in Nat \ {0}
  BY BlockFacts, ChunksAssumption DEF TypeInv, Typed, InPool
<1>p. ASSUME NEW b \in InPool
      PROVE File(b) \in Files /\ status[File(b)] \in {"progress", "complete", "error"}
            /\ File(b) # promise
  <2>1. File(b) \in Files /\ b \in Mine(File(b)) BY <1>t DEF Mine
  <2> QED BY <2>1 DEF Counted, FileCounted, Cut
<1>a. ASSUME UNCHANGED <<next, left, promise>>, InPool' = InPool,
             \A f \in Files : Cut(f)' <=> Cut(f), promise # None => status'[promise] = "progress"
      PROVE Counted'
  <2>1. \A f \in Files : Mine(f)' = Mine(f) BY <1>a DEF Mine
  <2>2. \A f \in Files : FileCounted(f)' BY <1>a, <2>1 DEF FileCounted, Counted
  <2> QED BY <1>a, <2>2 DEF Counted
<1>b. ASSUME UNCHANGED <<next, left, promise, status>>, InPool' = InPool PROVE Counted'
  BY <1>a, <1>b DEF Cut, Counted
<1>u. ASSUME NEW f \in Files, NEW x, status' = [status EXCEPT ![f] = x]
      PROVE status'[f] = x /\ \A g \in Files \ {f} : status'[g] = status[g]
  BY <1>u, <1>t
<1>1. ASSUME NEW f \in Files, Choose(f) PROVE Counted'
  <2>1. /\ status[f] = "away" /\ status' = [status EXCEPT ![f] = "inited"]
        /\ UNCHANGED <<next, left, promise, pool>>
    BY <1>1 DEF Choose
  <2>2. \A g \in Files : Cut(g)' <=> Cut(g) BY <2>1, <1>u DEF Cut
  <2>3. promise # None => promise \in Files /\ promise # f BY <2>1, <1>t DEF Counted, Typed
  <2> QED BY <2>1, <2>2, <2>3, <1>a, <1>u DEF Counted, InPool
<1>2. CASE Start
  <2>1. /\ \A g \in Files : status'[g] = status[g] \/ (status[g] = "inited" /\ status'[g] = "queued")
        /\ UNCHANGED <<next, left, promise, pool>>
    BY <1>2 DEF Start
  <2>2. \A g \in Files : Cut(g)' <=> Cut(g) BY <2>1 DEF Cut
  <2>3. promise # None => promise \in Files BY <1>t DEF Typed
  <2> QED BY <2>1, <2>2, <2>3, <1>a DEF Counted, InPool
<1>3. CASE Tick
  <2>0. promise = None /\ left' = left BY <1>3 DEF Tick
  <2>1. CASE NextBlock
    <3>1. PICK f \in Ready : /\ StartSend(f, next[f]) /\ UNCHANGED <<status, promise>>
      BY <2>1, ReadyFiles DEF NextBlock
    <3>2. /\ f \in Files /\ next[f] \in 0..(Chunks[f] - 1) /\ status[f] = "progress"
      BY <1>t DEF Ready, Of, Typed
    <3>3. Cardinality(InPool) < Threads BY <2>1 DEF NextBlock, Room
    <3>4. \A g \in Files : g # promise BY <2>0, <1>t
    <3> QED BY <2>0, <3>1, <3>2, <3>3, <3>4, CountedStart
  <2>2. CASE PrepareNextFile
    <3>1. PICK f \in Of("queued") : /\ status' = [status EXCEPT ![f] = "progress"]
                                    /\ promise' = f /\ UNCHANGED <<next, pool>>
      BY <2>2, ReadyFiles DEF PrepareNextFile
    <3>2. f \in Files /\ status[f] = "queued" BY DEF Of
    <3>3. status'[f] = "progress" /\ \A g \in Files \ {f} : status'[g] = status[g]
      BY <3>1, <3>2, <1>u
    <3>4. \A g \in Files : Cut(g)' <=> Cut(g)
      <4>1. ~Cut(f) /\ ~Cut(f)' BY <3>1, <3>2 DEF Cut
      <4>2. \A g \in Files \ {f} : Cut(g)' <=> Cut(g) BY <2>0, <3>1, <3>3, <1>t DEF Cut
      <4> QED BY <4>1, <4>2
    <3>5. InPool' = InPool /\ \A g \in Files : Mine(g)' = Mine(g) BY <3>1 DEF InPool, Mine
    <3>6. \A g \in Files : FileCounted(g)' BY <2>0, <3>1, <3>4, <3>5 DEF FileCounted, Counted
    <3>7. Cardinality(InPool) < Threads BY <2>2 DEF PrepareNextFile, Room
    <3> QED BY <3>1, <3>3, <3>5, <3>6, <3>7 DEF Counted
  <2>3. CASE NothingToDo
    BY <2>0, <2>3, <1>b DEF NothingToDo, InPool
  <2> QED BY <1>3, <2>1, <2>2, <2>3 DEF Tick
<1>4. CASE Prepared
  <2>1. /\ promise \in Files /\ promise' = None /\ StartSend(promise, 0) /\ status' = status
        /\ left' = [left EXCEPT ![promise] = Chunks[promise]]
    BY <1>4, <1>t DEF Prepared, Typed
  <2>2. /\ status[promise] = "progress" /\ Cardinality(InPool) < Threads
    BY <2>1, <1>t DEF Counted
  <2>3. next[promise] = 0
    <3>1. ~Cut(promise) BY DEF Cut
    <3> QED BY <2>1, <3>1 DEF Counted, FileCounted
  <2>4. 0 \in 0..(Chunks[promise] - 1) BY <2>1, <1>t
  <2>5. left'[promise] = Chunks[promise] /\ \A g \in Files \ {promise} : left'[g] = left[g]
    BY <2>1, <1>t DEF Typed
  <2> QED BY <2>1, <2>2, <2>3, <2>4, <2>5, CountedStart
<1>5. ASSUME NEW b \in Blocks, BeforeSend(b) \/ Load(b) PROVE Counted'
  <2>1. b \in InPool /\ UNCHANGED <<status, promise, next>>
    BY <1>5 DEF BeforeSend, Load, InPool
  <2>2. CASE Pops({b})
    <3>1. {b} \in SUBSET InPool BY <2>1
    <3>2. \A f \in Files : Cut(f)' <=> Cut(f) BY <2>1 DEF Cut
    <3> QED BY <2>1, <2>2, <3>1, <3>2, CountedPops DEF Counted
  <2>3. CASE ~Pops({b})
    <3>1. /\ left' = left /\ \E s \in States \ {"out"} : pool' = [pool EXCEPT ![b] = s]
      BY <1>5, <2>3 DEF BeforeSend, Load, States
    <3>2. InPool' = InPool BY <2>1, <3>1, MoveTyped
    <3> QED BY <2>1, <3>1, <3>2, <1>b
  <2> QED BY <2>2, <2>3
<1>6. ASSUME NEW b \in Blocks, FinishFile(b) \/ Fail(b) PROVE Counted'
  <2>1. PICK bs \in SUBSET InPool, x \in {"complete", "error"} :
          /\ Pops(bs) /\ status' = [status EXCEPT ![File(b)] = x] /\ UNCHANGED <<promise, next>>
    <3>1. FinishFile(b) => /\ Pops({c \in InPool : File(c) = File(b)})
                           /\ status' = [status EXCEPT ![File(b)] = "complete"]
                           /\ UNCHANGED <<promise, next>>
      BY DEF FinishFile
    <3>2. Fail(b) => /\ Pops({c \in InPool : File(c) = File(b) /\ pool[c] # "before"})
                     /\ status' = [status EXCEPT ![File(b)] = "error"]
                     /\ UNCHANGED <<promise, next>>
      BY DEF Fail
    <3>3. /\ {c \in InPool : File(c) = File(b)} \in SUBSET InPool
          /\ {c \in InPool : File(c) = File(b) /\ pool[c] # "before"} \in SUBSET InPool
      OBVIOUS
    <3> QED BY <1>6, <3>1, <3>2, <3>3
  <2>2. b \in InPool BY <1>6 DEF FinishFile, Fail, InPool
  <2>3. /\ File(b) \in Files /\ status[File(b)] \in {"progress", "complete", "error"}
        /\ File(b) # promise
    BY <2>2, <1>p
  <2>4. status'[File(b)] = x /\ \A g \in Files \ {File(b)} : status'[g] = status[g]
    BY <2>1, <2>3, <1>u
  <2>5. \A g \in Files : Cut(g)' <=> Cut(g) BY <2>1, <2>3, <2>4 DEF Cut
  <2>6. promise # None => status'[promise] = "progress"
    BY <2>3, <2>4, <1>t DEF Counted, Typed
  <2> QED BY <2>1, <2>5, <2>6, CountedPops
<1>7. ASSUME NEW b \in Blocks, Again(b) \/ Accept(b) PROVE Counted'
  <2>1. /\ b \in InPool /\ UNCHANGED <<next, left, promise, status>>
        /\ \E s \in States \ {"out"} : pool' = [pool EXCEPT ![b] = s]
    BY <1>7 DEF Again, Accept, InPool, States
  <2>2. InPool' = InPool BY <2>1, MoveTyped
  <2> QED BY <2>1, <2>2, <1>b
<1>8. ASSUME \/ Reload
             \/ \E b \in Blocks, k \in 0..Retries : AcceptLate(b, k)
             \/ \E f \in Files : MergeStep(f)
             \/ UNCHANGED vars
      PROVE Counted'
  <2>1. UNCHANGED page
    BY <1>8 DEF Reload, AcceptLate, MergeStep, Complete, MergeChunk, RemoveChunk, vars
  <2> QED BY <2>1, <1>b DEF page, InPool
<1> QED BY <1>1, <1>2, <1>3, <1>4, <1>5, <1>6, <1>7, <1>8 DEF Next, PageStep, BlockStep

PoolInv == TypeInv /\ Counted

LEMMA PoolInvInit == Init => PoolInv
BY TypeInvInit, CountedInit DEF PoolInv

LEMMA PoolInvNext == PoolInv /\ [Next]_vars => PoolInv'
BY TypedNext, QueuedNext, NamedNext, CountedNext DEF PoolInv, TypeInv

LEMMA PoolInvImplies == PoolInv => TypeOK /\ CountersRight
<1> SUFFICES ASSUME PoolInv PROVE TypeOK /\ CountersRight
  OBVIOUS
<1>1. Typed /\ Counted /\ TypeInv BY DEF PoolInv, TypeInv
<1>2. ASSUME NEW f \in Files PROVE next[f] \in 0..Chunks[f] /\ left[f] \in 0..Chunks[f]
  <2>1. Chunks[f] \in Nat \ {0} /\ Cardinality(Mine(f)) \in Nat BY <1>1, BlockFacts, MineFacts
  <2> QED BY <1>1, <2>1 DEF Counted, FileCounted
<1>3. \A f \in Files : merge[f].pc \in Merges /\ merge[f].pos \in Numbers \cup {0}
  BY <1>1 DEF Typed, MergeRecords
<1>4. Cardinality({b \in Blocks : pool[b] # "out"}) <= Threads BY <1>1 DEF Counted, InPool
<1>5. TypeOK BY <1>1, <1>2, <1>3, <1>4 DEF TypeOK, Typed
<1>6. CountersRight
  <2> SUFFICES ASSUME NEW f \in Files, status[f] = "progress", f # promise
               PROVE left[f] = Chunks[f] - next[f] + Cardinality({b \in InPool : File(b) = f})
    BY DEF CountersRight
  <2>1. Cut(f) BY DEF Cut
  <2> QED BY <1>1, <2>1 DEF Counted, FileCounted, Mine
<1> QED BY <1>5, <1>6

(***************************************************************************)
(* What the page, the requests and the merges leave behind has the type    *)
(* the model gives it; in particular the pool never holds more blocks than *)
(* there are threads, and no merge reads beyond the numbers of the chunks. *)
(***************************************************************************)
THEOREM Types == Spec => []TypeOK
<1>1. PoolInv => TypeOK BY PoolInvImplies
<1> QED BY <1>1, PoolInvInit, PoolInvNext, PTL DEF Spec

(***************************************************************************)
(* file.remaning counts the blocks of a file that are not answered yet,    *)
(* whatever is repeated, fails or is still to be cut: the answer that      *)
(* finds it at one is the last.                                            *)
(***************************************************************************)
THEOREM CountersAreRight == Spec => []CountersRight
<1>1. PoolInv => CountersRight BY PoolInvImplies
<1> QED BY <1>1, PoolInvInit, PoolInvNext, PTL DEF Spec

-----------------------------------------------------------------------------
(* A block that waits for its file to be finished is the last of the file, and
   nothing of a file is sent once it has ended.                              *)
PoolEnds(f) ==
  /\ \A b \in Mine(f) :
       /\ pool[b] # "before" => status[f] = "progress"
       /\ pool[b] = "finishing" => next[f] = Chunks[f] /\ Mine(f) = {b}
  /\ status[f] = "complete" => Mine(f) = {}

\* A merge is asked for once, and begins with an empty target.
MergeEnds(f) ==
  /\ status[f] # "complete" => merge[f].pc = "none"
  /\ merge[f].pc \in {"none", "asked"} => merge[f].pos = 0 /\ target[f] = <<>>

Ending == \A f \in Files : PoolEnds(f) /\ MergeEnds(f)

LEMMA EndingInit == Init => Ending
<1> SUFFICES ASSUME Init PROVE Ending
  OBVIOUS
<1>1. InPool = {} BY DEF Init, InPool
<1> QED BY <1>1 DEF Init, Ending, PoolEnds, MergeEnds, Mine

LEMMA PoolEndsNext == PoolInv /\ Ending /\ [Next]_vars => \A f \in Files : PoolEnds(f)'
<1> SUFFICES ASSUME PoolInv, Ending, [Next]_vars PROVE \A f \in Files : PoolEnds(f)'
  OBVIOUS
<1> DEFINE Goal == \A f \in Files : PoolEnds(f)'
<1>t. /\ TypeInv /\ Counted /\ Typed /\ InPool \subseteq Blocks
      /\ status \in [Files -> Statuses]
      /\ \A b \in Blocks : File(b) \in Files /\ b = <<File(b), Chunk(b)>>
      /\ \A f, c : File(<<f, c>>) = f /\ Chunk(<<f, c>>) = c
      /\ \A f \in Files : Chunks[f] \in Nat \ {0} /\ PoolEnds(f)
  BY BlockFacts DEF PoolInv, TypeInv, Typed, InPool, Ending
<1>c. ASSUME NEW f \in Files, Mine(f) # {}
      PROVE status[f] \in {"progress", "complete", "error"}
  BY <1>c, <1>t DEF Counted, FileCounted, Cut
<1>k. ASSUME UNCHANGED <<pool, next>>,
             \A f \in Files : status'[f] = status[f] \/ (Mine(f) = {} /\ status'[f] # "complete")
      PROVE Goal
  <2>1. \A f \in Files : Mine(f)' = Mine(f) BY <1>k DEF Mine, InPool
  <2> QED BY <1>k, <1>t, <2>1 DEF PoolEnds
<1>v. ASSUME NEW b \in InPool, NEW s \in {"sent", "saved"}, pool' = [pool EXCEPT ![b] = s],
             UNCHANGED <<status, next>>, status[File(b)] = "progress"
      PROVE Goal
  <2>1. s \in States \ {"out"} BY DEF States
  <2>2. InPool' = InPool /\ pool'[b] = s /\ \A c \in Blocks \ {b} : pool'[c] = pool[c]
    BY <1>v, <1>t, <2>1, MoveTyped
  <2>3. \A f \in Files : Mine(f)' = Mine(f) BY <2>2 DEF Mine
  <2> SUFFICES ASSUME NEW f \in Files PROVE PoolEnds(f)'
    OBVIOUS
  <2>4. ASSUME NEW c \in Mine(f)
        PROVE /\ pool'[c] # "before" => status'[f] = "progress"
              /\ pool'[c] = "finishing" => next'[f] = Chunks[f] /\ Mine(f)' = {c}
    <3>1. CASE c = b BY <1>v, <2>2, <3>1 DEF Mine
    <3>2. CASE c # b
      <4>1. pool'[c] = pool[c] BY <2>2, <3>2, <1>t DEF Mine
      <4> QED BY <4>1, <1>v, <1>t, <2>3 DEF PoolEnds
    <3> QED BY <3>1, <3>2
  <2>5. status'[f] = "complete" => Mine(f)' = {} BY <1>v, <1>t, <2>3 DEF PoolEnds
  <2> QED BY <2>3, <2>4, <2>5 DEF PoolEnds
<1>w. ASSUME NEW bs \in SUBSET InPool, Pops(bs), next' = next,
             \A f \in Files : \/ status'[f] = status[f]
                              \/ /\ \A b \in Mine(f) \ bs : pool[b] = "before"
                                 /\ status'[f] = "complete" => Mine(f) \subseteq bs
      PROVE Goal
  <2>1. InPool' = InPool \ bs /\ \A b \in Blocks : pool'[b] = IF b \in bs THEN "out" ELSE pool[b]
    BY <1>w, <1>t, PopsTyped
  <2> SUFFICES ASSUME NEW f \in Files PROVE PoolEnds(f)'
    OBVIOUS
  <2>2. Mine(f)' = Mine(f) \ bs /\ \A b \in Mine(f) \ bs : pool'[b] = pool[b]
    BY <2>1, <1>t DEF Mine
  <2>3. CASE status'[f] = status[f] BY <1>w, <1>t, <2>2, <2>3 DEF PoolEnds
  <2>4. CASE /\ \A b \in Mine(f) \ bs : pool[b] = "before"
             /\ status'[f] = "complete" => Mine(f) \subseteq bs
    BY <2>2, <2>4 DEF PoolEnds
  <2> QED BY <1>w, <2>3, <2>4
<1>s. ASSUME NEW f \in Files, NEW c \in 0..(Chunks[f] - 1), StartSend(f, c), c = next[f],
             status' = status, status[f] = "progress"
      PROVE Goal
  <2>1. PICK a : a = <<f, c>> OBVIOUS
  <2>2. /\ InPool' = InPool \cup {a} /\ pool'[a] = "before"
        /\ \A b \in Blocks \ {a} : pool'[b] = pool[b]
        /\ \A g \in Files \ {f} : next'[g] = next[g]
    BY <1>s, <1>t, <2>1, StartTyped
  <2>3. ASSUME NEW g \in Files \ {f} PROVE PoolEnds(g)'
    <3>1. Mine(g)' = Mine(g) /\ a \notin Mine(g) BY <2>1, <2>2, <1>t DEF Mine
    <3>2. \A b \in Mine(g) : pool'[b] = pool[b] BY <3>1, <2>2, <1>t DEF Mine
    <3> QED BY <1>s, <1>t, <2>2, <3>1, <3>2 DEF PoolEnds
  <2>4. PoolEnds(f)'
    <3>1. Mine(f)' = Mine(f) \cup {a} BY <2>1, <2>2, <1>t DEF Mine
    <3>2. \A b \in Mine(f) : pool[b] # "finishing" BY <1>s, <1>t DEF PoolEnds
    <3>3. \A b \in Mine(f)' : pool'[b] # "finishing" BY <2>2, <3>1, <3>2, <1>t DEF Mine
    <3> QED BY <1>s, <3>3 DEF PoolEnds
  <2> QED BY <2>3, <2>4
<1>n. ASSUME NEW f \in Files, ~Cut(f) PROVE Mine(f) = {}
  BY <1>n, <1>t DEF Counted, FileCounted
<1> HIDE DEF Goal
<1>1. ASSUME NEW f \in Files, Choose(f) PROVE Goal
  <2>1. /\ status[f] = "away" /\ status' = [status EXCEPT ![f] = "inited"]
        /\ UNCHANGED <<next, pool>>
    BY <1>1 DEF Choose
  <2>2. Mine(f) = {} BY <2>1, <1>n DEF Cut
  <2>3. \A g \in Files : status'[g] = status[g] \/ (Mine(g) = {} /\ status'[g] # "complete")
    BY <2>1, <2>2, <1>t
  <2> QED BY <2>1, <2>3, <1>k
<1>2. ASSUME Start PROVE Goal
  <2>1. /\ \A g \in Files : status'[g] = status[g] \/ (status[g] = "inited" /\ status'[g] = "queued")
        /\ UNCHANGED <<next, pool>>
    BY <1>2 DEF Start
  <2>2. \A g \in Files : status[g] = "inited" => Mine(g) = {} BY <1>n DEF Cut
  <2> QED BY <2>1, <2>2, <1>k
<1>3. ASSUME Tick PROVE Goal
  <2>1. CASE NextBlock
    <3>1. PICK f \in Ready : StartSend(f, next[f]) /\ UNCHANGED status
      BY <2>1, <1>t, ReadyFiles DEF NextBlock
    <3>2. /\ f \in Files /\ next[f] \in 0..(Chunks[f] - 1) /\ status[f] = "progress"
      BY <1>t DEF Ready, Of, Typed
    <3> QED BY <3>1, <3>2, <1>s
  <2>2. CASE PrepareNextFile
    <3>1. PICK f \in Of("queued") : /\ status' = [status EXCEPT ![f] = "progress"]
                                    /\ UNCHANGED <<next, pool>>
      BY <2>2, <1>t, ReadyFiles DEF PrepareNextFile
    <3>2. f \in Files /\ Mine(f) = {} BY <1>n DEF Of, Cut
    <3>3. \A g \in Files : status'[g] = status[g] \/ (Mine(g) = {} /\ status'[g] # "complete")
      BY <3>1, <3>2, <1>t
    <3> QED BY <3>1, <3>3, <1>k
  <2>3. CASE NothingToDo BY <2>3, <1>k DEF NothingToDo
  <2> QED BY <1>3, <2>1, <2>2, <2>3 DEF Tick
<1>4. ASSUME Prepared PROVE Goal
  <2>1. /\ promise \in Files /\ StartSend(promise, 0) /\ status' = status
    BY <1>4, <1>t DEF Prepared, Typed
  <2>2. status[promise] = "progress" /\ next[promise] = 0
    <3>1. promise # None /\ ~Cut(promise) BY <1>4 DEF Prepared, Cut
    <3> QED BY <2>1, <3>1, <1>t DEF Counted, FileCounted
  <2>3. 0 \in 0..(Chunks[promise] - 1) BY <2>1, <1>t
  <2> QED BY <2>1, <2>2, <2>3, <1>s
<1>5. ASSUME NEW b \in Blocks, BeforeSend(b) \/ Load(b) PROVE Goal
  <2>1. b \in InPool /\ UNCHANGED <<status, next>> /\ File(b) \in Files
    BY <1>5, <1>t DEF BeforeSend, Load, InPool
  <2>2. CASE Pops({b})
    <3>1. {b} \in SUBSET InPool BY <2>1
    <3> QED BY <2>1, <2>2, <3>1, <1>w
  <2>3. CASE BeforeSend(b) /\ ~Pops({b})
    <3>1. pool' = [pool EXCEPT ![b] = "sent"] /\ status[File(b)] = "progress"
      BY <2>3 DEF BeforeSend
    <3> QED BY <2>1, <3>1, <1>v
  <2>4. CASE Load(b) /\ ~Pops({b})
    <3>1. pool' = [pool EXCEPT ![b] = "finishing"] /\ pool[b] = "saved" /\ left[File(b)] = 1
      BY <2>4 DEF Load
    <3>2. PICK f \in Files : f = File(b) BY <2>1
    <3>3. b \in Mine(f) /\ status[f] = "progress" BY <2>1, <3>1, <3>2, <1>t DEF Mine, PoolEnds
    <3>4. /\ next[f] \in 1..Chunks[f] /\ 1 = Chunks[f] - next[f] + Cardinality(Mine(f))
      BY <3>1, <3>2, <3>3, <1>t DEF Counted, FileCounted
    <3>5. IsFiniteSet(Mine(f)) /\ Cardinality(Mine(f)) \in Nat \ {0} BY <3>3, <1>t, MineFacts
    <3>6. next[f] = Chunks[f] /\ Cardinality(Mine(f)) = 1 BY <3>4, <3>5, <1>t
    <3>7. Mine(f) = {b} BY <3>3, <3>5, <3>6, FS_Singleton
    <3>8. "finishing" \in States \ {"out"} BY DEF States
    <3>9. /\ InPool' = InPool /\ pool'[b] = "finishing"
          /\ \A c \in Blocks \ {b} : pool'[c] = pool[c]
      BY <2>1, <3>1, <3>8, <1>t, MoveTyped
    <3>10. \A g \in Files : Mine(g)' = Mine(g) BY <3>9 DEF Mine
    <3>11. \A g \in Files \ {f} : \A c \in Mine(g) : pool'[c] = pool[c]
      BY <3>2, <3>9, <1>t DEF Mine
    <3>12. PoolEnds(f)' BY <2>1, <3>3, <3>6, <3>7, <3>9, <3>10 DEF PoolEnds
    <3>13. \A g \in Files \ {f} : PoolEnds(g)' BY <2>1, <3>10, <3>11, <1>t DEF PoolEnds
    <3> QED BY <3>12, <3>13 DEF Goal
  <2> QED BY <1>5, <2>2, <2>3, <2>4
<1>6. ASSUME NEW b \in Blocks, FinishFile(b) PROVE Goal
  <2>1. PICK f \in Files : f = File(b) BY <1>t
  <2>2. /\ status' = [status EXCEPT ![f] = "complete"] /\ Pops(Mine(f)) /\ next' = next
    BY <1>6, <2>1 DEF FinishFile, Mine
  <2>3. Mine(f) \in SUBSET InPool BY DEF Mine
  <2>4. \A g \in Files : \/ status'[g] = status[g]
                         \/ /\ \A c \in Mine(g) \ Mine(f) : pool[c] = "before"
                            /\ status'[g] = "complete" => Mine(g) \subseteq Mine(f)
    BY <2>2, <1>t
  <2> QED BY <2>2, <2>3, <2>4, <1>w
<1>7. ASSUME NEW b \in Blocks, Fail(b) PROVE Goal
  <2>1. PICK f \in Files : f = File(b) BY <1>t
  <2>2. PICK bs : bs = {c \in InPool : File(c) = f /\ pool[c] # "before"} OBVIOUS
  <2>3. /\ status' = [status EXCEPT ![f] = "error"] /\ Pops(bs) /\ next' = next
    BY <1>7, <2>1, <2>2 DEF Fail
  <2>4. bs \in SUBSET InPool BY <2>2
  <2>5. \A c \in Mine(f) \ bs : pool[c] = "before" BY <2>2 DEF Mine
  <2>6. \A g \in Files : \/ status'[g] = status[g]
                         \/ /\ \A c \in Mine(g) \ bs : pool[c] = "before"
                            /\ status'[g] = "complete" => Mine(g) \subseteq bs
    BY <2>3, <2>5, <1>t
  <2> QED BY <2>3, <2>4, <2>6, <1>w
<1>8. ASSUME NEW b \in Blocks, Again(b) \/ Accept(b) PROVE Goal
  <2>1. /\ b \in InPool /\ pool[b] # "before" /\ UNCHANGED <<next, status>>
        /\ \E s \in {"sent", "saved"} : pool' = [pool EXCEPT ![b] = s]
    BY <1>8 DEF Again, Accept, InPool
  <2>2. File(b) \in Files /\ b \in Mine(File(b)) BY <2>1, <1>t DEF Mine
  <2>3. status[File(b)] = "progress" BY <2>1, <2>2, <1>t DEF PoolEnds
  <2> QED BY <2>1, <2>3, <1>v
<1>9. ASSUME \/ Reload
             \/ \E b \in Blocks, k \in 0..Retries : AcceptLate(b, k)
             \/ \E f \in Files : MergeStep(f)
             \/ UNCHANGED vars
      PROVE Goal
  <2>1. UNCHANGED page
    BY <1>9 DEF Reload, AcceptLate, MergeStep, Complete, MergeChunk, RemoveChunk, vars
  <2> QED BY <2>1, <1>k DEF page
<1> QED BY <1>1, <1>2, <1>3, <1>4, <1>5, <1>6, <1>7, <1>8, <1>9
        DEF Next, PageStep, BlockStep, Goal

LEMMA MergeEndsNext == PoolInv /\ Ending /\ [Next]_vars => \A f \in Files : MergeEnds(f)'
<1> SUFFICES ASSUME PoolInv, Ending, [Next]_vars PROVE \A f \in Files : MergeEnds(f)'
  OBVIOUS
<1> DEFINE Goal == \A f \in Files : MergeEnds(f)'
<1>t. /\ TypeInv /\ Counted /\ Typed /\ InPool \subseteq Blocks
      /\ status \in [Files -> Statuses] /\ merge \in [Files -> MergeRecords]
      /\ target \in [Files -> Seq(Blocks)]
      /\ \A b \in Blocks : File(b) \in Files
      /\ \A f \in Files : PoolEnds(f) /\ MergeEnds(f)
  BY BlockFacts DEF PoolInv, TypeInv, Typed, InPool, Ending
<1>k. ASSUME UNCHANGED <<merge, target>>,
             \A f \in Files : status'[f] = status[f] \/ status[f] # "complete"
      PROVE Goal
  BY <1>k, <1>t DEF MergeEnds
<1>r. ASSUME NEW f \in Files, NEW p, merge' = [merge EXCEPT ![f].pc = p]
      PROVE /\ merge'[f].pc = p /\ merge'[f].pos = merge[f].pos
            /\ \A g \in Files \ {f} : merge'[g] = merge[g]
  <2> DEFINE r == [merge[f] EXCEPT !.pc = p]
  <2>1. \A x \in MergeRecords : [x EXCEPT !.pc = p].pc = p /\ [x EXCEPT !.pc = p].pos = x.pos
    BY DEF MergeRecords
  <2>2. r.pc = p /\ r.pos = merge[f].pos BY <2>1, <1>t
  <2>3. merge' = [merge EXCEPT ![f] = r] BY <1>r, <1>t
  <2> HIDE DEF r
  <2> QED BY <2>2, <2>3, <1>t
<1>m. ASSUME NEW f \in Files, status' = status, merge[f].pc # "none",
             merge'[f].pc \notin {"none", "asked"},
             \A g \in Files \ {f} : merge'[g] = merge[g] /\ target'[g] = target[g]
      PROVE Goal
  <2>1. MergeEnds(f)' BY <1>m, <1>t DEF MergeEnds
  <2>2. \A g \in Files \ {f} : MergeEnds(g)' BY <1>m, <1>t DEF MergeEnds
  <2> QED BY <2>1, <2>2
<1> HIDE DEF Goal
<1>1. ASSUME NEW f \in Files, Choose(f) PROVE Goal
  <2>1. /\ status[f] = "away" /\ status' = [status EXCEPT ![f] = "inited"]
        /\ UNCHANGED <<merge, target>>
    BY <1>1 DEF Choose, server
  <2> QED BY <2>1, <1>k, <1>t
<1>2. ASSUME Start PROVE Goal
  <2>1. /\ \A f \in Files : status'[f] = status[f] \/ status[f] = "inited"
        /\ UNCHANGED <<merge, target>>
    BY <1>2 DEF Start, server
  <2> QED BY <2>1, <1>k
<1>3. ASSUME Tick PROVE Goal
  <2>1. UNCHANGED <<merge, target>> BY <1>3 DEF Tick, server
  <2>2. status' = status \/ \E f \in Of("queued") : status' = [status EXCEPT ![f] = "progress"]
    BY <1>3, <1>t, ReadyFiles DEF Tick, NextBlock, PrepareNextFile, NothingToDo
  <2>3. \A f \in Files : status'[f] = status[f] \/ status[f] # "complete"
    BY <2>2, <1>t DEF Of
  <2> QED BY <2>1, <2>3, <1>k
<1>4. ASSUME NEW b \in Blocks, FinishFile(b) PROVE Goal
  <2>1. PICK f \in Files : f = File(b) BY <1>t
  <2>2. /\ status' = [status EXCEPT ![f] = "complete"] /\ target' = target
        /\ merge' = [merge EXCEPT ![f].pc = "asked"] /\ b \in InPool /\ pool[b] = "finishing"
    BY <1>4, <2>1 DEF FinishFile, InPool
  <2>3. status[f] = "progress" BY <2>1, <2>2, <1>t DEF PoolEnds, Mine
  <2>4. merge[f].pos = 0 /\ target[f] = <<>> BY <2>3, <1>t DEF MergeEnds
  <2>5. /\ merge'[f].pc = "asked" /\ merge'[f].pos = merge[f].pos
        /\ \A g \in Files \ {f} : merge'[g] = merge[g]
    BY <2>2, <1>r
  <2>6. status'[f] = "complete" /\ \A g \in Files \ {f} : status'[g] = status[g] BY <2>2, <1>t
  <2>7. MergeEnds(f)' BY <2>2, <2>4, <2>5, <2>6 DEF MergeEnds
  <2>8. \A g \in Files \ {f} : MergeEnds(g)' BY <2>2, <2>5, <2>6, <1>t DEF MergeEnds
  <2> QED BY <2>7, <2>8 DEF Goal
<1>5. ASSUME NEW b \in Blocks, Fail(b) PROVE Goal
  <2>1. PICK f \in Files : f = File(b) BY <1>t
  <2>2. /\ status' = [status EXCEPT ![f] = "error"] /\ UNCHANGED <<merge, target>>
        /\ b \in InPool /\ pool[b] # "before"
    BY <1>5, <2>1 DEF Fail, InPool, server
  <2>3. status[f] = "progress" BY <2>1, <2>2, <1>t DEF PoolEnds, Mine
  <2>4. \A g \in Files : status'[g] = status[g] \/ status[g] # "complete" BY <2>2, <2>3, <1>t
  <2> QED BY <2>2, <2>4, <1>k
<1>6. ASSUME NEW f \in Files, MergeStep(f) PROVE Goal
  <2>1. status' = status BY <1>6 DEF MergeStep, Complete, MergeChunk, RemoveChunk, page
  <2>2. merge[f].pc # "none" BY <1>6 DEF MergeStep, Complete, MergeChunk, RemoveChunk
  <2>3. \A g \in Files \ {f} : target'[g] = target[g]
    BY <1>6, <1>t DEF MergeStep, Complete, MergeChunk, RemoveChunk
  <2>4. /\ merge'[f].pc \notin {"none", "asked"}
        /\ \A g \in Files \ {f} : merge'[g] = merge[g]
    <3>1. \/ \E p \in {"read", "lost", "done", "remove", "broken"} :
               merge' = [merge EXCEPT ![f].pc = p]
          \/ \E n : merge' = [merge EXCEPT ![f] = [pc |-> "read", pos |-> n]]
      BY <1>6 DEF MergeStep, Complete, MergeChunk, RemoveChunk
    <3>2. CASE \E p \in {"read", "lost", "done", "remove", "broken"} :
                 merge' = [merge EXCEPT ![f].pc = p]
      BY <3>2, <1>r
    <3>3. CASE \E n : merge' = [merge EXCEPT ![f] = [pc |-> "read", pos |-> n]]
      BY <3>3, <1>t
    <3> QED BY <3>1, <3>2, <3>3
  <2> QED BY <2>1, <2>2, <2>3, <2>4, <1>m
<1>7. ASSUME \/ Prepared \/ Reload
             \/ \E b \in Blocks : \/ BeforeSend(b) \/ Load(b) \/ Again(b) \/ Accept(b)
                                  \/ \E k \in 0..Retries : AcceptLate(b, k)
             \/ UNCHANGED vars
      PROVE Goal
  <2>1. UNCHANGED <<status, merge, target>>
    BY <1>7 DEF Prepared, Reload, BeforeSend, Load, Again, Accept, AcceptLate, page, server, vars
  <2> QED BY <2>1, <1>k
<1> QED BY <1>1, <1>2, <1>3, <1>4, <1>5, <1>6, <1>7 DEF Next, PageStep, BlockStep, Goal

EndInv == PoolInv /\ Ending

LEMMA EndInvNext == EndInv /\ [Next]_vars => EndInv'
BY PoolInvNext, PoolEndsNext, MergeEndsNext DEF EndInv, Ending

-----------------------------------------------------------------------------
Merging(f) == merge[f].pc \in {"asked", "read", "remove"}

\* Something of the file is about.
Active(f) ==
  \/ status[f] \in {"inited", "queued", "progress"} \/ Merging(f) \/ Mine(f) # {}
  \/ \E e \in late : File(e[1]) = f
  \/ \E n \in Numbers : disk[n] # None /\ File(disk[n]) = f

OneActive == \A f, g \in Files : Active(f) /\ Active(g) => f = g

\* Only a file that is chosen becomes active, and no file is when all is settled.
LEMMA ActiveNext ==
  ASSUME EndInv, [Next]_vars
  PROVE \/ \A f \in Files : Active(f)' => Active(f)
        \/ \E f \in Files : /\ mixed' = (mixed \/ ~Settled)
                            /\ \A g \in Files \ {f} : Active(g)' => Active(g)
<1>t. /\ TypeInv /\ Counted /\ Typed /\ InPool \subseteq Blocks
      /\ status \in [Files -> Statuses] /\ merge \in [Files -> MergeRecords]
      /\ disk \in [Numbers -> Blocks \cup {None}]
      /\ \A b \in Blocks : File(b) \in Files /\ Chunk(b) \in Numbers
      /\ \A f, c : File(<<f, c>>) = f
      /\ \A f \in Files : Chunks[f] \in Nat \ {0}
      /\ None \notin Files
  BY BlockFacts, ChunksAssumption DEF EndInv, PoolInv, TypeInv, Typed, InPool
<1> DEFINE Kept == \A f \in Files : Active(f)' => Active(f)
<1>p. \A b \in InPool : File(b) \in Files /\ Active(File(b)) BY <1>t DEF Active, Mine
<1>k. ASSUME \A f \in Files : /\ status'[f] \in {"inited", "queued", "progress"} => Active(f)
                              /\ Merging(f)' => Active(f)
                              /\ Mine(f)' # {} => Active(f),
             \A e \in late' : e \in late \/ e[1] \in InPool,
             \A n \in Numbers : \/ disk'[n] \in {disk[n], None}
                                \/ disk'[n] \in Blocks /\ Active(File(disk'[n]))
      PROVE Kept
  <2> SUFFICES ASSUME NEW f \in Files, Active(f)' PROVE Active(f)
    OBVIOUS
  <2>1. CASE \E e \in late' : File(e[1]) = f BY <2>1, <1>k, <1>p DEF Active
  <2>2. CASE \E n \in Numbers : disk'[n] # None /\ File(disk'[n]) = f BY <2>2, <1>k DEF Active
  <2>3. CASE \/ status'[f] \in {"inited", "queued", "progress"} \/ Merging(f)' \/ Mine(f)' # {}
    BY <2>3, <1>k
  <2> QED BY <2>1, <2>2, <2>3 DEF Active
<1> HIDE DEF Kept
<1>1. ASSUME NEW f \in Files, Choose(f)
      PROVE /\ mixed' = (mixed \/ ~Settled)
            /\ \A g \in Files \ {f} : Active(g)' => Active(g)
  <2>1. /\ mixed' = (mixed \/ ~Settled) /\ status' = [status EXCEPT ![f] = "inited"]
        /\ UNCHANGED <<pool, merge, late, disk>>
    BY <1>1 DEF Choose, server
  <2>2. \A g \in Files \ {f} : status'[g] = status[g] BY <2>1, <1>t
  <2> QED BY <2>1, <2>2 DEF Active, Merging, Mine, InPool
\* The server's tables are left alone, and the pool is, or loses blocks.
<1>u. ASSUME UNCHANGED <<merge, late, disk>>, InPool' \subseteq InPool,
             \A f \in Files : status'[f] \in {"inited", "queued", "progress"} => Active(f)
      PROVE Kept
  BY <1>u, <1>k DEF Active, Merging, Mine
<1>2. ASSUME Start PROVE Kept
  <2>1. UNCHANGED <<merge, late, disk, pool>> BY <1>2 DEF Start, server
  <2>2. \A f \in Files : status'[f] = status[f] \/ status[f] = "inited" BY <1>2 DEF Start
  <2> QED BY <2>1, <2>2, <1>u DEF Active, InPool
<1>s. ASSUME NEW f \in Files, NEW c \in 0..(Chunks[f] - 1), StartSend(f, c), status' = status,
             status[f] = "progress", UNCHANGED <<merge, late, disk>>
      PROVE Kept
  <2>1. PICK a : a = <<f, c>> OBVIOUS
  <2>2. InPool' = InPool \cup {a} /\ File(a) = f BY <1>s, <1>t, <2>1, StartTyped
  <2>3. \A g \in Files : Mine(g)' # {} => Mine(g) # {} \/ g = f BY <2>2 DEF Mine
  <2> QED BY <1>s, <1>k, <2>3 DEF Active, Merging
<1>3. ASSUME Tick PROVE Kept
  <2>0. UNCHANGED <<merge, late, disk>> BY <1>3 DEF Tick, server
  <2>1. CASE NextBlock
    <3>1. PICK f \in Ready : StartSend(f, next[f]) /\ UNCHANGED status
      BY <2>1, <1>t, ReadyFiles DEF NextBlock
    <3>2. /\ f \in Files /\ next[f] \in 0..(Chunks[f] - 1) /\ status[f] = "progress"
      BY <1>t DEF Ready, Of, Typed
    <3> QED BY <2>0, <3>1, <3>2, <1>s
  <2>2. CASE PrepareNextFile
    <3>1. PICK f \in Of("queued") : /\ status' = [status EXCEPT ![f] = "progress"]
                                    /\ UNCHANGED pool
      BY <2>2, <1>t, ReadyFiles DEF PrepareNextFile
    <3>2. status[f] = "queued" BY DEF Of
    <3>3. \A g \in Files : status'[g] \in {"inited", "queued", "progress"} => Active(g)
      BY <3>1, <3>2, <1>t DEF Active
    <3> QED BY <2>0, <3>1, <3>3, <1>u DEF InPool
  <2>3. CASE NothingToDo BY <2>0, <2>3, <1>u DEF NothingToDo, Active, InPool
  <2> QED BY <1>3, <2>1, <2>2, <2>3 DEF Tick
<1>4. ASSUME Prepared PROVE Kept
  <2>1. /\ promise \in Files /\ StartSend(promise, 0) /\ UNCHANGED <<status, merge, late, disk>>
    BY <1>4, <1>t DEF Prepared, Typed, server
  <2>2. status[promise] = "progress" BY <1>4, <1>t DEF Counted, Prepared
  <2>3. 0 \in 0..(Chunks[promise] - 1) BY <2>1, <1>t
  <2> QED BY <2>1, <2>2, <2>3, <1>s
<1>5. ASSUME NEW b \in Blocks, BeforeSend(b) \/ Load(b) PROVE Kept
  <2>1. b \in InPool /\ UNCHANGED <<status, merge, late, disk>>
    BY <1>5 DEF BeforeSend, Load, InPool, server
  <2>2. InPool' \subseteq InPool
    <3>1. CASE Pops({b})
      <4>1. {b} \in SUBSET InPool BY <2>1
      <4> QED BY <3>1, <4>1, <1>t, PopsTyped
    <3>2. CASE ~Pops({b})
      <4>1. \E s \in States \ {"out"} : pool' = [pool EXCEPT ![b] = s]
        BY <1>5, <3>2 DEF BeforeSend, Load, States
      <4> QED BY <2>1, <4>1, <1>t, MoveTyped
    <3> QED BY <3>1, <3>2
  <2> QED BY <2>1, <2>2, <1>u DEF Active
<1>6. ASSUME NEW b \in Blocks, FinishFile(b) PROVE Kept
  <2>1. PICK f \in Files : f = File(b) BY <1>t
  <2>2. /\ status' = [status EXCEPT ![f] = "complete"] /\ Pops(Mine(f)) /\ b \in InPool
        /\ merge' = [merge EXCEPT ![f].pc = "asked"] /\ UNCHANGED <<late, disk>>
    BY <1>6, <2>1 DEF FinishFile, InPool, Mine
  <2>3. Mine(f) \in SUBSET InPool BY DEF Mine
  <2>4. InPool' \subseteq InPool BY <2>2, <2>3, <1>t, PopsTyped
  <2>5. Active(f) BY <2>1, <2>2, <1>p
  <2>6. \A g \in Files \ {f} : status'[g] = status[g] /\ merge'[g] = merge[g] BY <2>2, <1>t
  <2>7. \A g \in Files : Mine(g)' # {} => Active(g) BY <2>4 DEF Mine, Active
  <2> QED BY <2>2, <2>5, <2>6, <2>7, <1>k DEF Active, Merging
<1>l. ASSUME NEW bs \in SUBSET InPool, NEW lost \in SUBSET Sends(bs), late' = late \cup lost
      PROVE \A e \in late' : e \in late \/ e[1] \in InPool
  BY <1>l DEF Sends
<1>7. ASSUME NEW b \in Blocks, Again(b) PROVE Kept
  <2>1. /\ b \in InPool /\ pool' = [pool EXCEPT ![b] = "sent"]
        /\ UNCHANGED <<status, merge, disk>>
        /\ \E lost \in SUBSET Sends({b}) : late' = late \cup lost
    BY <1>7 DEF Again, InPool, server
  <2>2. {b} \in SUBSET InPool BY <2>1
  <2>3. \A e \in late' : e \in late \/ e[1] \in InPool BY <2>1, <2>2, <1>l
  <2>4. "sent" \in States \ {"out"} BY DEF States
  <2>5. InPool' = InPool BY <2>1, <2>4, <1>t, MoveTyped
  <2> QED BY <2>1, <2>3, <2>5, <1>k DEF Active, Merging, Mine
<1>8. ASSUME NEW b \in Blocks, Fail(b) PROVE Kept
  <2>1. PICK f \in Files : f = File(b) BY <1>t
  <2>2. PICK bs : bs = {c \in InPool : File(c) = f /\ pool[c] # "before"} OBVIOUS
  <2>3. /\ status' = [status EXCEPT ![f] = "error"] /\ Pops(bs) /\ UNCHANGED <<merge, disk>>
        /\ \E lost \in SUBSET Sends(bs) : late' = late \cup lost
    BY <1>8, <2>1, <2>2 DEF Fail, server
  <2>4. bs \in SUBSET InPool BY <2>2
  <2>5. \A e \in late' : e \in late \/ e[1] \in InPool BY <2>3, <2>4, <1>l
  <2>6. InPool' \subseteq InPool BY <2>3, <2>4, <1>t, PopsTyped
  <2>7. \A g \in Files : status'[g] \in {"inited", "queued", "progress"} => Active(g)
    BY <2>3, <1>t DEF Active
  <2> QED BY <2>3, <2>5, <2>6, <2>7, <1>k DEF Active, Merging, Mine
<1>9. ASSUME Reload PROVE Kept
  <2>1. late' = {} /\ disk' = [n \in Numbers |-> None] /\ UNCHANGED <<page, merge>>
    BY <1>9 DEF Reload
  <2> QED BY <2>1, <1>k DEF Active, Merging, Mine, InPool, page
<1>d. ASSUME NEW b \in Blocks, Saved(b)
      PROVE \A n \in Numbers : disk'[n] = IF n = Chunk(b) THEN b ELSE disk[n]
  BY <1>d, <1>t DEF Saved
<1>10. ASSUME NEW b \in Blocks, Accept(b) PROVE Kept
  <2>1. /\ b \in InPool /\ Saved(b) /\ pool' = [pool EXCEPT ![b] = "saved"]
        /\ UNCHANGED <<status, merge, late>>
    BY <1>10 DEF Accept, InPool
  <2>2. "saved" \in States \ {"out"} BY DEF States
  <2>3. InPool' = InPool BY <2>1, <2>2, <1>t, MoveTyped
  <2>4. \A n \in Numbers : \/ disk'[n] \in {disk[n], None}
                           \/ disk'[n] \in Blocks /\ Active(File(disk'[n]))
    BY <2>1, <1>d, <1>p
  <2> QED BY <2>1, <2>3, <2>4, <1>k DEF Active, Merging, Mine
<1>11. ASSUME NEW b \in Blocks, NEW k \in 0..Retries, AcceptLate(b, k) PROVE Kept
  <2>1. <<b, k>> \in late /\ late' \subseteq late /\ Saved(b) /\ UNCHANGED <<page, merge>>
    BY <1>11 DEF AcceptLate
  <2>2. Active(File(b))
    <3>1. PICK e : e = <<b, k>> OBVIOUS
    <3>2. e \in late /\ e[1] = b BY <2>1, <3>1
    <3> QED BY <3>2 DEF Active
  <2>3. \A n \in Numbers : \/ disk'[n] \in {disk[n], None}
                           \/ disk'[n] \in Blocks /\ Active(File(disk'[n]))
    BY <2>1, <2>2, <1>d
  <2>4. UNCHANGED <<status, pool>> BY <2>1 DEF page
  <2> QED BY <2>1, <2>3, <2>4, <1>k DEF Active, Merging, Mine, InPool
<1>12. ASSUME NEW f \in Files, MergeStep(f) PROVE Kept
  <2>1. UNCHANGED <<status, pool, late>> /\ Merging(f)
    BY <1>12 DEF MergeStep, Complete, MergeChunk, RemoveChunk, page, Merging
  <2>2. \A g \in Files \ {f} : merge'[g] = merge[g]
    BY <1>12, <1>t DEF MergeStep, Complete, MergeChunk, RemoveChunk
  <2>3. \A n \in Numbers : disk'[n] \in {disk[n], None}
    BY <1>12, <1>t DEF MergeStep, Complete, MergeChunk, RemoveChunk
  <2> QED BY <2>1, <2>2, <2>3, <1>k DEF Active, Merging, Mine, InPool
<1>13. ASSUME UNCHANGED vars PROVE Kept
  BY <1>13, <1>u DEF vars, page, server, Active, InPool
<1> QED BY <1>1, <1>2, <1>3, <1>4, <1>5, <1>6, <1>7, <1>8, <1>9, <1>10, <1>11, <1>12, <1>13
        DEF Next, PageStep, BlockStep, Kept

-----------------------------------------------------------------------------
OnDisk(f, c) == disk[c] = <<f, c>>
Written(f, n) ==
  /\ n \in 0..Chunks[f] /\ Len(target[f]) = n
  /\ \A i \in 1..n : target[f][i] = <<f, i - 1>>

Answered == {"out", "saved", "finishing"}

\* What is answered of a file is on the disk until it is merged.
Uploaded(f) ==
  status[f] = "progress" =>
    \A c \in 0..(next[f] - 1) : pool[<<f, c>>] \in Answered => OnDisk(f, c)
Unmerged(f) == Merging(f) => \A c \in merge[f].pos..(Chunks[f] - 1) : OnDisk(f, c)
Merged(f) ==
  /\ merge[f].pc = "read" => Written(f, merge[f].pos)
  /\ merge[f].pc = "remove" => Written(f, merge[f].pos + 1)
  /\ merge[f].pc = "done" => Written(f, Chunks[f])

Whole == \A f \in Files : Uploaded(f) /\ Unmerged(f) /\ Merged(f)

LEMMA OneActiveNext ==
  ASSUME EndInv, OneActive, [Next]_vars, ~mixed'
  PROVE OneActive'
<1>1. Settled => \A f \in Files : ~Active(f)
  BY DEF Settled, Active, Merging, Mine
<1>2. CASE \A f \in Files : Active(f)' => Active(f) BY <1>2 DEF OneActive
<1>3. ASSUME NEW f \in Files, mixed' = (mixed \/ ~Settled),
             \A g \in Files \ {f} : Active(g)' => Active(g)
      PROVE OneActive'
  <2>1. \A g \in Files \ {f} : ~Active(g)' BY <1>1, <1>3
  <2> QED BY <2>1 DEF OneActive
<1> QED BY <1>2, <1>3, ActiveNext

LEMMA MixedStays == [Next]_vars /\ mixed => mixed'
BY DEF Next, PageStep, BlockStep, MergeStep, Choose, Start, Tick, Prepared, BeforeSend, Load,
       FinishFile, Again, Fail, Reload, Accept, AcceptLate, Complete, MergeChunk, RemoveChunk, vars

(* While one file is about, no number of a chunk holds another file's chunk,
   and no merge meets a number whose chunk is still to come.                 *)
LEMMA WholeNext == EndInv /\ OneActive /\ Whole /\ [Next]_vars => Whole'
<1> SUFFICES ASSUME EndInv, OneActive, Whole, [Next]_vars PROVE Whole'
  OBVIOUS
<1> DEFINE Goal == Whole'
<1>t. /\ TypeInv /\ Counted /\ Typed /\ Named /\ InPool \subseteq Blocks
      /\ status \in [Files -> Statuses] /\ merge \in [Files -> MergeRecords]
      /\ next \in [Files -> Nat] /\ target \in [Files -> Seq(Blocks)]
      /\ pool \in [Blocks -> States] /\ disk \in [Numbers -> Blocks \cup {None}]
      /\ \A f \in Files : PoolEnds(f) /\ MergeEnds(f)
      /\ \A f \in Files : Uploaded(f) /\ Unmerged(f) /\ Merged(f)
  BY DEF EndInv, PoolInv, TypeInv, Typed, InPool, Ending, Whole
<1>b. /\ \A b \in Blocks : /\ File(b) \in Files /\ Chunk(b) \in 0..(Chunks[File(b)] - 1)
                           /\ b = <<File(b), Chunk(b)>> /\ Chunk(b) \in Numbers
      /\ \A f \in Files : \A c \in 0..(Chunks[f] - 1) : <<f, c>> \in Blocks
      /\ \A f, c : File(<<f, c>>) = f /\ Chunk(<<f, c>>) = c
      /\ \A f \in Files : Chunks[f] \in Nat \ {0} /\ 0 \in Numbers
      /\ Numbers \subseteq Nat /\ None \notin Blocks
  BY BlockFacts
\* A chunk that was handed out is a block.
<1>n. ASSUME NEW f \in Files PROVE next[f] \in 0..Chunks[f]
  BY <1>b, <1>t DEF Counted, FileCounted
\* The page goes on: nothing becomes answered that was not.
<1>a. ASSUME UNCHANGED <<disk, merge, target>>,
             \A f \in Files : status'[f] = "progress" => \A c \in 0..(next'[f] - 1) :
               pool'[<<f, c>>] \in Answered =>
                 status[f] = "progress" /\ c \in 0..(next[f] - 1) /\ pool[<<f, c>>] \in Answered
      PROVE Goal
  <2> SUFFICES ASSUME NEW f \in Files PROVE Uploaded(f)' /\ Unmerged(f)' /\ Merged(f)'
    BY DEF Whole
  <2>1. Uploaded(f)' BY <1>a, <1>t DEF Uploaded, OnDisk
  <2>2. Unmerged(f)' BY <1>a, <1>t DEF Unmerged, Merging, OnDisk
  <2>3. Merged(f)' BY <1>a, <1>t DEF Merged, Written
  <2> QED BY <2>1, <2>2, <2>3
\* A file of which nothing is about.
<1>o. ASSUME NEW g \in Files, ~Active(g), status'[g] = status[g],
             merge'[g] = merge[g], target'[g] = target[g]
      PROVE Uploaded(g)' /\ Unmerged(g)' /\ Merged(g)'
  <2>1. status'[g] # "progress" /\ ~Merging(g)' BY <1>o DEF Active, Merging
  <2>2. merge'[g].pc \notin {"read", "remove"} BY <2>1 DEF Merging
  <2>3. Merged(g)' BY <1>o, <2>2, <1>t DEF Merged, Written
  <2> QED BY <2>1, <2>3 DEF Uploaded, Unmerged
\* The blocks that move stay unanswered, or their file is no more in progress.
<1>p. ASSUME UNCHANGED <<disk, merge, target, next>>,
             \A f \in Files : status'[f] = "progress" => status[f] = "progress",
             \A b \in Blocks : status'[File(b)] = "progress" /\ pool'[b] \in Answered
                                 => pool[b] \in Answered
      PROVE Goal
  <2>1. ASSUME NEW f \in Files, status'[f] = "progress", NEW c \in 0..(next'[f] - 1),
               pool'[<<f, c>>] \in Answered
        PROVE status[f] = "progress" /\ c \in 0..(next[f] - 1) /\ pool[<<f, c>>] \in Answered
    <3>1. c \in 0..(next[f] - 1) BY <2>1, <1>p
    <3>2. c \in 0..(Chunks[f] - 1) BY <3>1, <1>n, <1>b
    <3>3. PICK b : b = <<f, c>> OBVIOUS
    <3>4. b \in Blocks /\ File(b) = f BY <3>2, <3>3, <1>b
    <3>5. pool[b] \in Answered BY <2>1, <3>3, <3>4, <1>p
    <3> QED BY <2>1, <3>1, <3>3, <3>5, <1>p
  <2> QED BY <2>1, <1>p, <1>a
\* The next block of a file that is in progress starts.
<1>s. ASSUME NEW f \in Files, NEW c \in 0..(Chunks[f] - 1), c = next[f], StartSend(f, c),
             UNCHANGED <<status, disk, merge, target>>
      PROVE Goal
  <2>1. /\ next'[f] = c + 1 /\ \A g \in Files \ {f} : next'[g] = next[g]
        /\ pool'[<<f, c>>] = "before" /\ \A b \in Blocks \ {<<f, c>>} : pool'[b] = pool[b]
    BY <1>s, <1>t, StartTyped
  <2>2. ASSUME NEW g \in Files, status'[g] = "progress", NEW d \in 0..(next'[g] - 1),
               pool'[<<g, d>>] \in Answered
        PROVE status[g] = "progress" /\ d \in 0..(next[g] - 1) /\ pool[<<g, d>>] \in Answered
    <3>1. PICK a : a = <<g, d>> OBVIOUS
    <3>2. a # <<f, c>> BY <2>1, <2>2, <3>1 DEF Answered
    <3>3. g = f => d # c BY <3>1, <3>2
    <3>4. next[g] \in Nat /\ d \in Nat BY <1>t, <2>2
    <3>5. d \in 0..(next[g] - 1)
      <4>1. CASE g # f BY <4>1, <2>1, <2>2
      <4>2. CASE g = f
        <5>1. d \in 0..((c + 1) - 1) BY <4>2, <2>1, <2>2
        <5> QED BY <4>2, <5>1, <3>3, <3>4, <1>s
      <4> QED BY <4>1, <4>2
    <3>6. d \in 0..(Chunks[g] - 1) BY <3>5, <1>n, <1>b
    <3>7. a \in Blocks BY <3>1, <3>6, <1>b
    <3>8. pool'[a] = pool[a] BY <3>2, <3>7, <2>1
    <3> QED BY <2>2, <3>1, <3>5, <3>8, <1>s
  <2> QED BY <2>2, <1>s, <1>a
<1>1. ASSUME NEW f \in Files, Choose(f) PROVE Goal
  <2>1. status' = [status EXCEPT ![f] = "inited"] /\ UNCHANGED <<pool, next, disk, merge, target>>
    BY <1>1 DEF Choose, server
  <2>2. \A g \in Files : status'[g] = "progress" => status[g] = "progress" BY <2>1, <1>t
  <2> QED BY <2>1, <2>2, <1>p
<1>2. ASSUME Start PROVE Goal
  <2>1. /\ UNCHANGED <<pool, next, disk, merge, target>>
        /\ \A g \in Files : status'[g] = "progress" => status[g] = "progress"
    BY <1>2 DEF Start, server
  <2> QED BY <2>1, <1>p
<1>3. ASSUME Tick PROVE Goal
  <2>0. UNCHANGED <<disk, merge, target>> BY <1>3 DEF Tick, server
  <2>1. CASE NextBlock
    <3>1. PICK f \in Ready : StartSend(f, next[f]) /\ UNCHANGED status
      BY <2>1, <1>t, ReadyFiles DEF NextBlock
    <3>2. f \in Files /\ next[f] \in 0..(Chunks[f] - 1) BY <1>t, <1>b DEF Ready, Of
    <3> QED BY <2>0, <3>1, <3>2, <1>s
  <2>2. CASE PrepareNextFile
    <3>1. PICK f \in Of("queued") : /\ status' = [status EXCEPT ![f] = "progress"]
                                    /\ UNCHANGED <<pool, next>>
      BY <2>2, <1>t, ReadyFiles DEF PrepareNextFile
    <3>2. f \in Files /\ status[f] = "queued" BY DEF Of
    <3>3. next[f] = 0 BY <3>2, <1>t DEF Counted, FileCounted, Cut
    <3>4. ASSUME NEW g \in Files, status'[g] = "progress", NEW d \in 0..(next'[g] - 1)
          PROVE status[g] = "progress" /\ d \in 0..(next[g] - 1) /\ pool'[<<g, d>>] = pool[<<g, d>>]
      <4>1. g # f BY <3>1, <3>3, <3>4
      <4> QED BY <4>1, <3>1, <3>2, <3>4, <1>t
    <3> QED BY <2>0, <3>4, <1>a
  <2>3. CASE NothingToDo BY <2>0, <2>3, <1>p DEF NothingToDo
  <2> QED BY <1>3, <2>1, <2>2, <2>3 DEF Tick
<1>4. ASSUME Prepared PROVE Goal
  <2>1. /\ promise \in Files /\ StartSend(promise, 0)
        /\ UNCHANGED <<status, disk, merge, target>>
    BY <1>4, <1>t DEF Prepared, Typed, server
  <2>2. next[promise] = 0 BY <2>1, <1>t DEF Counted, FileCounted, Cut
  <2>3. 0 \in 0..(Chunks[promise] - 1) BY <2>1, <1>b
  <2> QED BY <2>1, <2>2, <2>3, <1>s
<1>m. ASSUME NEW b \in InPool, NEW s \in States \ {"out"}, pool' = [pool EXCEPT ![b] = s],
             s \in Answered => pool[b] \in Answered,
             UNCHANGED <<status, disk, merge, target, next>>
      PROVE Goal
  <2>1. pool'[b] = s /\ \A c \in Blocks \ {b} : pool'[c] = pool[c] BY <1>m, <1>t, MoveTyped
  <2> QED BY <2>1, <1>m, <1>p
<1>5. ASSUME NEW b \in Blocks, BeforeSend(b) PROVE Goal
  <2>1. b \in InPool /\ UNCHANGED <<status, next, disk, merge, target>>
    BY <1>5 DEF BeforeSend, InPool, server
  <2>2. CASE pool' = [pool EXCEPT ![b] = "sent"] BY <2>1, <2>2, <1>m DEF States, Answered
  <2>3. CASE status[File(b)] # "progress" /\ Pops({b})
    <3>1. {b} \in SUBSET InPool BY <2>1
    <3>2. \A c \in Blocks : pool'[c] = IF c \in {b} THEN "out" ELSE pool[c]
      BY <2>3, <3>1, <1>t, PopsTyped
    <3> QED BY <2>1, <2>3, <3>2, <1>p
  <2> QED BY <1>5, <2>2, <2>3 DEF BeforeSend
<1>6. ASSUME NEW b \in Blocks, Load(b) PROVE Goal
  <2>1. b \in InPool /\ pool[b] = "saved" /\ UNCHANGED <<status, next, disk, merge, target>>
    BY <1>6 DEF Load, InPool, server
  <2>2. CASE pool' = [pool EXCEPT ![b] = "finishing"] BY <2>1, <2>2, <1>m DEF States, Answered
  <2>3. CASE Pops({b})
    <3>1. {b} \in SUBSET InPool BY <2>1
    <3>2. \A c \in Blocks : pool'[c] = IF c \in {b} THEN "out" ELSE pool[c]
      BY <2>3, <3>1, <1>t, PopsTyped
    <3> QED BY <2>1, <3>2, <1>p DEF Answered
  <2> QED BY <1>6, <2>2, <2>3 DEF Load
<1>7. ASSUME NEW b \in Blocks, Again(b) PROVE Goal
  <2>1. /\ b \in InPool /\ pool' = [pool EXCEPT ![b] = "sent"]
        /\ UNCHANGED <<status, next, disk, merge, target>>
    BY <1>7 DEF Again, InPool, server
  <2> QED BY <2>1, <1>m DEF States, Answered
<1>8. ASSUME NEW b \in Blocks, Fail(b) PROVE Goal
  <2>1. PICK f \in Files : f = File(b) BY <1>b
  <2>2. PICK bs : bs = {c \in InPool : File(c) = f /\ pool[c] # "before"} OBVIOUS
  <2>3. /\ status' = [status EXCEPT ![f] = "error"] /\ Pops(bs)
        /\ UNCHANGED <<next, disk, merge, target>>
    BY <1>8, <2>1, <2>2 DEF Fail, server
  <2>4. bs \in SUBSET InPool BY <2>2
  <2>5. \A c \in Blocks : pool'[c] = IF c \in bs THEN "out" ELSE pool[c]
    BY <2>3, <2>4, <1>t, PopsTyped
  <2>6. status'[f] = "error" /\ \A g \in Files \ {f} : status'[g] = status[g] BY <2>3, <1>t
  <2>7. \A c \in Blocks : status'[File(c)] = "progress" => c \notin bs BY <2>2, <2>6
  <2> QED BY <2>3, <2>5, <2>6, <2>7, <1>p
<1>q. ASSUME NEW f \in Files, NEW p, merge' = [merge EXCEPT ![f].pc = p]
      PROVE /\ merge'[f].pc = p /\ merge'[f].pos = merge[f].pos
            /\ \A g \in Files \ {f} : merge'[g] = merge[g]
  <2> DEFINE r == [merge[f] EXCEPT !.pc = p]
  <2>1. \A x \in MergeRecords : [x EXCEPT !.pc = p].pc = p /\ [x EXCEPT !.pc = p].pos = x.pos
    BY DEF MergeRecords
  <2>2. r.pc = p /\ r.pos = merge[f].pos BY <2>1, <1>t
  <2>3. merge' = [merge EXCEPT ![f] = r] BY <1>q, <1>t
  <2> HIDE DEF r
  <2> QED BY <2>2, <2>3, <1>t
<1>9. ASSUME NEW b \in Blocks, FinishFile(b) PROVE Goal
  <2>1. PICK f \in Files : f = File(b) BY <1>b
  <2>2. /\ status' = [status EXCEPT ![f] = "complete"] /\ Pops(Mine(f))
        /\ merge' = [merge EXCEPT ![f].pc = "asked"] /\ UNCHANGED <<next, disk, target>>
        /\ b \in Mine(f) /\ pool[b] = "finishing"
    BY <1>9, <2>1 DEF FinishFile, InPool, Mine
  <2>3. Mine(f) \in SUBSET InPool BY DEF Mine
  <2>4. \A c \in Blocks : pool'[c] = IF c \in Mine(f) THEN "out" ELSE pool[c]
    BY <2>2, <2>3, <1>t, PopsTyped
  <2>5. status'[f] = "complete" /\ \A g \in Files \ {f} : status'[g] = status[g] BY <2>2, <1>t
  <2>6. /\ merge'[f].pc = "asked" /\ merge'[f].pos = merge[f].pos
        /\ \A g \in Files \ {f} : merge'[g] = merge[g]
    BY <2>2, <1>q
  <2>7. status[f] = "progress" /\ next[f] = Chunks[f] /\ Mine(f) = {b}
    BY <2>2, <1>t DEF PoolEnds
  <2>8. merge[f].pos = 0 BY <2>7, <1>t DEF MergeEnds
  <2>9. \A c \in 0..(Chunks[f] - 1) : OnDisk(f, c)
    <3> SUFFICES ASSUME NEW c \in 0..(Chunks[f] - 1) PROVE OnDisk(f, c)
      OBVIOUS
    <3>1. PICK a : a = <<f, c>> OBVIOUS
    <3>2. a \in Blocks /\ File(a) = f BY <3>1, <1>b
    <3>3. pool[a] = "out" \/ a \in Mine(f) BY <3>2 DEF Mine, InPool
    <3>4. pool[a] \in Answered BY <3>3, <2>7, <2>2 DEF Answered
    <3> QED BY <3>1, <3>4, <2>7, <1>t DEF Uploaded
  <2>10. Uploaded(f)' /\ Unmerged(f)' /\ Merged(f)'
    <3>1. Uploaded(f)' BY <2>5 DEF Uploaded
    <3>2. Unmerged(f)' BY <2>2, <2>6, <2>8, <2>9 DEF Unmerged, OnDisk
    <3>3. Merged(f)' BY <2>6 DEF Merged
    <3> QED BY <3>1, <3>2, <3>3
  <2>11. ASSUME NEW g \in Files \ {f} PROVE Uploaded(g)' /\ Unmerged(g)' /\ Merged(g)'
    <3>1. Uploaded(g)'
      <4> SUFFICES ASSUME status'[g] = "progress", NEW c \in 0..(next'[g] - 1),
                          pool'[<<g, c>>] \in Answered
                   PROVE OnDisk(g, c)'
        BY DEF Uploaded
      <4>1. PICK a : a = <<g, c>> OBVIOUS
      <4>2. c \in 0..(next[g] - 1) /\ status[g] = "progress" BY <2>2, <2>5
      <4>3. c \in 0..(Chunks[g] - 1) BY <4>2, <1>n, <1>b
      <4>4. a \in Blocks /\ File(a) = g BY <4>1, <4>3, <1>b
      <4>5. pool'[a] = pool[a] BY <4>4, <2>4 DEF Mine
      <4> QED BY <4>1, <4>2, <4>5, <2>2, <1>t DEF Uploaded, OnDisk
    <3>2. Unmerged(g)' /\ Merged(g)'
      BY <2>2, <2>6, <1>t DEF Unmerged, Merging, Merged, Written, OnDisk
    <3> QED BY <3>1, <3>2
  <2> QED BY <2>10, <2>11 DEF Whole
\* A chunk is saved: its file is the one that is about.
<1>d. ASSUME NEW b \in Blocks, Saved(b), Active(File(b)),
             UNCHANGED <<status, next, merge, target>>,
             \A c \in Blocks \ {b} : pool'[c] = pool[c]
      PROVE Goal
  <2>1. PICK f \in Files : f = File(b) BY <1>b
  <2>2. \A n \in Numbers : disk'[n] = IF n = Chunk(b) THEN b ELSE disk[n] BY <1>d, <1>t DEF Saved
  <2>3. \A g \in Files \ {f} : ~Active(g) BY <1>d, <2>1 DEF OneActive
  <2>4. \A g \in Files \ {f} : Uploaded(g)' /\ Unmerged(g)' /\ Merged(g)' BY <2>3, <1>d, <1>o
  <2>5. ASSUME NEW c \in 0..(Chunks[f] - 1), c # Chunk(b) => OnDisk(f, c) PROVE OnDisk(f, c)'
    <3>1. c \in Numbers
      <4>1. PICK a : a = <<f, c>> OBVIOUS
      <4>2. a \in Blocks /\ Chunk(a) = c BY <4>1, <1>b
      <4> QED BY <4>2, <1>b
    <3>2. CASE c = Chunk(b) BY <3>1, <3>2, <2>1, <2>2, <1>b DEF OnDisk
    <3>3. CASE c # Chunk(b) BY <3>1, <3>3, <2>2, <2>5 DEF OnDisk
    <3> QED BY <3>2, <3>3
  <2>6. Uploaded(f)'
    <3> SUFFICES ASSUME status'[f] = "progress", NEW c \in 0..(next'[f] - 1),
                        pool'[<<f, c>>] \in Answered
                 PROVE OnDisk(f, c)'
      BY DEF Uploaded
    <3>1. c \in 0..(next[f] - 1) /\ status[f] = "progress" BY <1>d
    <3>2. c \in 0..(Chunks[f] - 1) BY <3>1, <1>n, <1>b
    <3>3. ASSUME c # Chunk(b) PROVE OnDisk(f, c)
      <4>1. PICK a : a = <<f, c>> OBVIOUS
      <4>2. a \in Blocks \ {b} BY <4>1, <3>2, <3>3, <1>b
      <4>3. pool'[a] = pool[a] BY <4>2, <1>d
      <4> QED BY <4>1, <4>3, <3>1, <1>t DEF Uploaded
    <3> QED BY <3>2, <3>3, <2>5
  <2>7. Unmerged(f)'
    <3> SUFFICES ASSUME Merging(f)', NEW c \in merge'[f].pos..(Chunks[f] - 1)
                 PROVE OnDisk(f, c)'
      BY DEF Unmerged
    <3>1. Merging(f) /\ c \in merge[f].pos..(Chunks[f] - 1) BY <1>d DEF Merging
    <3>2. merge[f].pos \in Nat BY <1>b, <1>t DEF MergeRecords
    <3>3. c \in 0..(Chunks[f] - 1) BY <3>1, <3>2, <1>b
    <3> QED BY <3>1, <3>3, <2>5, <1>t DEF Unmerged
  <2>8. Merged(f)' BY <1>d, <1>t DEF Merged, Written
  <2> QED BY <2>4, <2>6, <2>7, <2>8 DEF Whole
<1>10. ASSUME NEW b \in Blocks, Accept(b) PROVE Goal
  <2>1. /\ b \in InPool /\ Saved(b) /\ pool' = [pool EXCEPT ![b] = "saved"]
        /\ UNCHANGED <<status, next, merge, target>>
    BY <1>10 DEF Accept, InPool
  <2>2. Active(File(b)) BY <2>1 DEF Active, Mine
  <2>3. \A c \in Blocks \ {b} : pool'[c] = pool[c] BY <2>1, <1>t
  <2> QED BY <2>1, <2>2, <2>3, <1>d
<1>11. ASSUME NEW b \in Blocks, NEW k \in 0..Retries, AcceptLate(b, k) PROVE Goal
  <2>1. <<b, k>> \in late /\ Saved(b) /\ UNCHANGED <<page, merge, target>>
    BY <1>11 DEF AcceptLate
  <2>2. Active(File(b))
    <3>1. PICK e : e = <<b, k>> OBVIOUS
    <3>2. e \in late /\ e[1] = b BY <2>1, <3>1
    <3> QED BY <3>2 DEF Active
  <2>3. UNCHANGED <<status, next, pool>> BY <2>1 DEF page
  <2> QED BY <2>1, <2>2, <2>3, <1>d
\* A step of the merge of a file: the file is complete, and the others stay.
<1>g. ASSUME NEW f \in Files, Merging(f), UNCHANGED <<page>>,
             \A g \in Files \ {f} : merge'[g] = merge[g] /\ target'[g] = target[g],
             Unmerged(f)', Merged(f)'
      PROVE Goal
  <2>1. Active(f) BY <1>g DEF Active
  <2>2. \A g \in Files \ {f} : ~Active(g) BY <2>1 DEF OneActive
  <2>3. status' = status BY <1>g DEF page
  <2>4. \A g \in Files \ {f} : Uploaded(g)' /\ Unmerged(g)' /\ Merged(g)' BY <2>2, <2>3, <1>g, <1>o
  <2>5. status[f] # "progress" BY <1>g, <1>t DEF MergeEnds, Merging
  <2>6. Uploaded(f)' BY <2>3, <2>5 DEF Uploaded
  <2> QED BY <2>4, <2>6, <1>g DEF Whole
<1>12. ASSUME NEW f \in Files, Complete(f) PROVE Goal
  <2>1. /\ merge[f].pc = "asked" /\ UNCHANGED <<page, disk, target>>
    BY <1>12 DEF Complete
  <2>2. PICK p \in {"read", "lost"} : merge' = [merge EXCEPT ![f].pc = p] BY <1>12 DEF Complete
  <2>3. /\ merge'[f].pc = p /\ merge'[f].pos = merge[f].pos
        /\ \A g \in Files \ {f} : merge'[g] = merge[g]
    BY <2>2, <1>q
  <2>4. merge[f].pos = 0 /\ target[f] = <<>> BY <2>1, <1>t DEF MergeEnds
  <2>5. Merging(f) BY <2>1 DEF Merging
  <2>6. Unmerged(f)' BY <2>1, <2>3, <2>5, <1>t DEF Unmerged, OnDisk
  <2>7. Written(f, 0)
    <3>1. Len(target[f]) = 0 BY <2>4, EmptySeq
    <3> QED BY <3>1, <1>b DEF Written
  <2>8. Merged(f)' BY <2>1, <2>3, <2>4, <2>7 DEF Merged, Written
  <2> QED BY <2>1, <2>3, <2>5, <2>6, <2>8, <1>g
<1>13. ASSUME NEW f \in Files, MergeChunk(f) PROVE Goal
  <2>1. PICK n : n = merge[f].pos OBVIOUS
  <2>2. PICK b : b = disk[n] OBVIOUS
  <2>3. /\ merge[f].pc = "read" /\ UNCHANGED <<page, disk>> /\ Merging(f) /\ Written(f, n)
    BY <1>13, <2>1, <1>t DEF MergeChunk, Merging, Merged
  <2>4. n \in 0..Chunks[f] /\ n \in Nat /\ Chunks[f] \in Nat /\ n \in Numbers
    BY <2>1, <2>3, <1>b, <1>t DEF Written, MergeRecords
  <2>5. \A c \in n..(Chunks[f] - 1) : OnDisk(f, c) BY <2>1, <2>3, <1>t DEF Unmerged
  <2>6. CASE b = None
    <3>1. merge' = [merge EXCEPT ![f].pc = "done"] /\ target' = target
      BY <1>13, <2>1, <2>2, <2>6 DEF MergeChunk
    <3>2. merge'[f].pc = "done" /\ \A g \in Files \ {f} : merge'[g] = merge[g] BY <3>1, <1>q
    <3>3. n = Chunks[f]
      <4> SUFFICES ASSUME n # Chunks[f] PROVE FALSE
        OBVIOUS
      <4>1. n \in n..(Chunks[f] - 1) /\ n \in 0..(Chunks[f] - 1) BY <2>4
      <4>2. PICK a : a = <<f, n>> OBVIOUS
      <4>3. a = None /\ a \in Blocks BY <4>1, <4>2, <2>2, <2>5, <2>6, <1>b DEF OnDisk
      <4> QED BY <4>3, <1>b
    <3>4. Merged(f)' BY <3>1, <3>2, <3>3, <2>3 DEF Merged, Written
    <3>5. Unmerged(f)' BY <3>2 DEF Unmerged, Merging
    <3> QED BY <3>1, <3>2, <3>4, <3>5, <2>3, <1>g
  <2>7. CASE b # None
    <3>1. /\ merge' = [merge EXCEPT ![f].pc = "remove"]
          /\ target' = [target EXCEPT ![f] = Append(@, b)]
      BY <1>13, <2>1, <2>2, <2>7 DEF MergeChunk
    <3>2. /\ merge'[f].pc = "remove" /\ merge'[f].pos = n
          /\ \A g \in Files \ {f} : merge'[g] = merge[g]
      BY <3>1, <2>1, <1>q
    <3>3. b \in Blocks /\ Chunk(b) = n BY <2>2, <2>4, <2>7, <1>t DEF Named
    <3>4. File(b) = f
      <4>1. Active(f) BY <2>3 DEF Active
      <4>2. Active(File(b)) BY <2>2, <2>4, <2>7 DEF Active
      <4> QED BY <4>1, <4>2, <3>3, <1>b DEF OneActive
    <3>5. b = <<f, n>> /\ n \in 0..(Chunks[f] - 1) BY <3>3, <3>4, <1>b
    <3>6. PICK s : s = Append(target[f], b) OBVIOUS
    <3>7. target'[f] = s /\ \A g \in Files \ {f} : target'[g] = target[g] BY <3>1, <3>6, <1>t
    <3>8. Written(f, n + 1)'
      <4>1. /\ Len(s) = Len(target[f]) + 1 /\ s[Len(target[f]) + 1] = b
            /\ \A i \in 1..Len(target[f]) : s[i] = target[f][i]
        BY <3>3, <3>6, <1>t, AppendProperties
      <4>2. Len(target[f]) = n /\ \A i \in 1..n : target[f][i] = <<f, i - 1>>
        BY <2>3 DEF Written
      <4>3. Len(s) = n + 1 /\ s[n + 1] = <<f, n>> /\ \A i \in 1..n : s[i] = <<f, i - 1>>
        BY <4>1, <4>2, <3>5
      <4>4. ASSUME NEW i \in 1..(n + 1) PROVE s[i] = <<f, i - 1>>
        <5>1. CASE i = n + 1
          <6>1. i - 1 = n BY <5>1, <2>4
          <6> QED BY <5>1, <6>1, <4>3
        <5>2. CASE i # n + 1
          <6>1. i \in 1..n BY <5>2, <2>4
          <6> QED BY <6>1, <4>3
        <5> QED BY <5>1, <5>2
      <4>5. n + 1 \in 0..Chunks[f] BY <3>5, <2>4
      <4> QED BY <4>3, <4>4, <4>5, <3>7 DEF Written
    <3>9. Merged(f)' BY <3>2, <3>8 DEF Merged
    <3>10. Unmerged(f)' BY <3>2, <2>3, <2>5 DEF Unmerged, OnDisk
    <3> QED BY <3>2, <3>7, <3>9, <3>10, <2>3, <1>g
  <2> QED BY <2>6, <2>7
<1>14. ASSUME NEW f \in Files, RemoveChunk(f) PROVE Goal
  <2>1. PICK n : n = merge[f].pos OBVIOUS
  <2>2. /\ merge[f].pc = "remove" /\ UNCHANGED <<page, target>> /\ Merging(f) /\ Written(f, n + 1)
    BY <1>14, <2>1, <1>t DEF RemoveChunk, Merging, Merged
  <2>3. n \in Nat /\ n \in Numbers /\ Chunks[f] \in Nat BY <2>1, <1>b, <1>t DEF MergeRecords
  <2>4. n \in 0..(Chunks[f] - 1) /\ n \in n..(Chunks[f] - 1) BY <2>2, <2>3 DEF Written
  <2>5. \A c \in n..(Chunks[f] - 1) : OnDisk(f, c) BY <2>1, <2>2, <1>t DEF Unmerged
  <2>6. disk[n] # None
    <3>1. PICK a : a = <<f, n>> OBVIOUS
    <3>2. disk[n] = a /\ a \in Blocks BY <3>1, <2>4, <2>5, <1>b DEF OnDisk
    <3> QED BY <3>2, <1>b
  <2>7. /\ disk' = [disk EXCEPT ![n] = None]
        /\ merge' = [merge EXCEPT ![f] = [pc |-> "read", pos |-> n + 1]]
    BY <1>14, <2>1, <2>6 DEF RemoveChunk
  <2>8. /\ merge'[f].pc = "read" /\ merge'[f].pos = n + 1
        /\ \A g \in Files \ {f} : merge'[g] = merge[g]
    BY <2>7, <1>t
  <2>9. Merged(f)' BY <2>2, <2>8 DEF Merged, Written
  <2>10. ASSUME NEW c \in (n + 1)..(Chunks[f] - 1) PROVE OnDisk(f, c)'
    <3>1. c \in n..(Chunks[f] - 1) /\ c # n BY <2>3
    <3>2. disk'[c] = disk[c] BY <3>1, <2>7, <1>t
    <3> QED BY <3>1, <3>2, <2>5 DEF OnDisk
  <2>11. Unmerged(f)' BY <2>8, <2>10 DEF Unmerged
  <2> QED BY <2>2, <2>8, <2>9, <2>11, <1>g
<1>15. ASSUME Reload PROVE Goal
  <2>1. /\ UNCHANGED <<page, merge, target>>
        /\ \A f \in Files : /\ status[f] # "progress"
                            /\ merge[f].pc \notin {"asked", "read", "remove"}
    BY <1>15, <1>t DEF Reload
  <2>2. status' = status BY <2>1 DEF page
  <2>3. \A f \in Files : Uploaded(f)' /\ Unmerged(f)' BY <2>1, <2>2 DEF Uploaded, Unmerged, Merging
  <2>4. \A f \in Files : Merged(f)' BY <2>1, <1>t DEF Merged, Written
  <2> QED BY <2>3, <2>4 DEF Whole
<1>16. ASSUME UNCHANGED vars PROVE Goal
  <2>1. UNCHANGED <<status, pool, next, disk, merge, target>> BY <1>16 DEF vars, page, server
  <2> QED BY <2>1, <1>p
<1> QED BY <1>1, <1>2, <1>3, <1>4, <1>5, <1>6, <1>7, <1>8, <1>9, <1>10, <1>11, <1>12, <1>13,
           <1>14, <1>15, <1>16
        DEF Next, PageStep, BlockStep, MergeStep

-----------------------------------------------------------------------------
Alone == ~mixed => OneActive /\ Whole

WholeInv == EndInv /\ Alone

LEMMA WholeInvInit == Init => WholeInv
<1> SUFFICES ASSUME Init PROVE WholeInv
  OBVIOUS
<1>1. EndInv BY PoolInvInit, EndingInit DEF EndInv
<1>2. \A f \in Files : status[f] = "away" /\ merge[f].pc = "none" BY DEF Init
<1>3. late = {} /\ \A n \in Numbers : disk[n] = None BY DEF Init
<1>4. InPool = {} BY DEF Init, InPool
<1>5. \A f \in Files : ~Active(f) BY <1>2, <1>3, <1>4 DEF Active, Merging, Mine
<1>6. Whole BY <1>2 DEF Whole, Uploaded, Unmerged, Merged, Merging
<1> QED BY <1>1, <1>5, <1>6 DEF WholeInv, Alone, OneActive

LEMMA WholeInvNext == WholeInv /\ [Next]_vars => WholeInv'
<1> SUFFICES ASSUME WholeInv, [Next]_vars PROVE WholeInv'
  OBVIOUS
<1>1. EndInv' BY EndInvNext DEF WholeInv
<1>2. ASSUME ~mixed' PROVE OneActive' /\ Whole'
  <2>1. EndInv /\ OneActive /\ Whole BY <1>2, MixedStays DEF WholeInv, Alone
  <2>2. OneActive' BY <1>2, <2>1, OneActiveNext
  <2>3. Whole' BY <2>1, WholeNext
  <2> QED BY <2>2, <2>3
<1> QED BY <1>1, <1>2 DEF WholeInv, Alone

LEMMA WholeInvImplies == WholeInv => MergedIsFile
<1> SUFFICES ASSUME WholeInv, NEW f \in Files, merge[f].pc = "done", ~mixed
             PROVE target[f] = [i \in 1..Chunks[f] |-> <<f, i - 1>>]
  BY DEF MergedIsFile
<1>1. PICK s : s = target[f] OBVIOUS
<1>2. Len(s) = Chunks[f] /\ \A i \in 1..Chunks[f] : s[i] = <<f, i - 1>>
  BY <1>1 DEF WholeInv, Alone, Whole, Merged, Written
<1>3. s \in Seq(Blocks) BY <1>1 DEF WholeInv, EndInv, PoolInv, TypeInv, Typed
<1>4. s \in [1..Len(s) -> Blocks] BY <1>3, LenProperties
<1> QED BY <1>1, <1>2, <1>4

(* A file that was merged while nothing of another file of the page was about
   has its chunks in their order: "/iso/complete" ends at the first number
   without a file, and no chunk is late or another file's then.              *)
THEOREM MergedIsWhole == Spec => []MergedIsFile
<1>1. Init => WholeInv BY WholeInvInit
<1>2. WholeInv /\ [Next]_vars => WholeInv' BY WholeInvNext
<1>3. WholeInv => MergedIsFile BY WholeInvImplies
<1> QED BY <1>1, <1>2, <1>3, PTL DEF Spec
=============================================================================
