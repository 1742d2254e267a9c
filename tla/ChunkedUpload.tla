---------------------------- MODULE ChunkedUpload ---------------------------
(***************************************************************************)
(* Uploading images from the page bigfile_upload.html: WebUploader cuts a  *)
(* file into chunks and posts each to /iso/accept, which saves it as       *)
(* upload/<task_id><number>; when all are answered the page gets           *)
(* /iso/complete, which appends chunk after chunk to the target.           *)
(*                                                                         *)
(* task_id is made once for a page, so that all its files share the names  *)
(* of the chunks.  An event of the page, a request served and a chunk      *)
(* merged are steps of their own.  The page has no button to stop, cancel, *)
(* skip or repeat an upload: those parts of WebUploader are left out, and  *)
(* so are progress events and what the page shows.                         *)
(***************************************************************************)
EXTENDS Integers, Sequences, FiniteSets

CONSTANTS
  Files,
  Chunks,   \* Chunks[f]: number of chunks of file f
  Threads,  \* option threads
  Retries,  \* option chunkRetry
  None

Blocks == UNION {{f} \X (0..(Chunks[f] - 1)) : f \in Files}

ASSUME ChunksAssumption ==
  /\ Chunks \in [Files -> Nat \ {0}] /\ None \notin Files \cup Blocks
  /\ Threads \in Nat \ {0} /\ Retries \in Nat

File(b) == b[1]
Chunk(b) == b[2]
Numbers == {Chunk(b) : b \in Blocks} \cup {Chunks[f] : f \in Files}

VARIABLES
  status,   \* the status of each file
  queue,    \* the files in the order they were added
  running, timer, tick,  \* runing; start-upload set by a timer; _tick in line
  promise,  \* the file that waits for before-send-file
  next,     \* the first chunk of a file that is still in its CuteFile
  left,     \* file.remaning
  pool,     \* the state of each block; "out": not in the pool
  retried,  \* block.retried
  late,     \* sends that the page has given up and that may still be served
  disk,     \* upload/<task_id><number>
  merge, target,  \* what /iso/complete is doing for a file, and the file it writes
  mixed     \* a file was chosen while something of another was about

page == <<status, queue, running, timer, tick, promise, next, left, pool, retried>>
server == <<disk, merge, target>>
vars == <<page, late, server, mixed>>

Statuses == {"away", "inited", "queued", "progress", "complete", "error"}
States == {"out", "before", "sent", "saved", "finishing"}
Merges == {"none", "asked", "lost", "read", "remove", "done", "broken"}

TypeOK ==
  /\ status \in [Files -> Statuses]
  /\ running \in BOOLEAN /\ timer \in BOOLEAN /\ tick \in BOOLEAN
  /\ promise \in Files \cup {None}
  /\ \A f \in Files : next[f] \in 0..Chunks[f] /\ left[f] \in 0..Chunks[f]
  /\ pool \in [Blocks -> States]
  /\ Cardinality({b \in Blocks : pool[b] # "out"}) <= Threads
  /\ retried \in [Blocks -> 0..Retries]
  /\ late \subseteq Blocks \X (0..Retries)
  /\ disk \in [Numbers -> Blocks \cup {None}]
  /\ \A f \in Files : merge[f].pc \in Merges /\ merge[f].pos \in Numbers \cup {0}
  /\ mixed \in BOOLEAN

Init ==
  /\ status = [f \in Files |-> "away"] /\ queue = <<>>
  /\ running = FALSE /\ timer = FALSE /\ tick = FALSE /\ promise = None
  /\ next = [f \in Files |-> 0] /\ left = [f \in Files |-> 0]
  /\ pool = [b \in Blocks |-> "out"] /\ retried = [b \in Blocks |-> 0]
  /\ late = {} /\ disk = [n \in Numbers |-> None]
  /\ merge = [f \in Files |-> [pc |-> "none", pos |-> 0]]
  /\ target = [f \in Files |-> <<>>]
  /\ mixed = FALSE

-----------------------------------------------------------------------------
\* The page
Of(stat) == {f \in Files : status[f] = stat}
InPool == {b \in Blocks : pool[b] # "out"}
First(S) == CHOOSE f \in S : \E i \in DOMAIN queue :
              queue[i] = f /\ \A j \in 1..(i - 1) : queue[j] \notin S

Settled ==
  /\ \A f \in Files : /\ status[f] \in {"away", "complete", "error"}
                      /\ merge[f].pc \notin {"asked", "read", "remove"}
  /\ InPool = {} /\ late = {} /\ \A n \in Numbers : disk[n] = None

\* addFile with the option auto
Choose(f) ==
  /\ status[f] = "away"
  /\ status' = [status EXCEPT ![f] = "inited"]
  /\ queue' = Append(queue, f)
  /\ timer' = TRUE
  /\ mixed' = (mixed \/ ~Settled)
  /\ UNCHANGED <<running, tick, promise, next, left, pool, retried, late, server>>

\* startUpload
Start ==
  /\ timer /\ timer' = FALSE
  /\ status' = [f \in Files |-> IF status[f] = "inited" THEN "queued" ELSE status[f]]
  /\ running' = TRUE
  /\ tick' = (tick \/ ~running)
  /\ UNCHANGED <<queue, promise, next, left, pool, retried, late, server, mixed>>

\* _startSend: the next block of f goes into the pool, to be sent when before-send is over.
StartSend(f, c) ==
  /\ pool' = [pool EXCEPT ![<<f, c>>] = "before"]
  /\ next' = [next EXCEPT ![f] = c + 1]
  /\ tick' = TRUE

Ready == {f \in Of("progress") : f # promise /\ next[f] < Chunks[f]}
Room == Cardinality(InPool) < Threads

NextBlock ==
  /\ Room /\ Ready # {}
  /\ LET f == First(Ready) IN StartSend(f, next[f])
  /\ UNCHANGED <<status, running, promise>>

PrepareNextFile ==
  /\ Room /\ Ready = {} /\ running /\ Of("queued") # {}
  /\ LET f == First(Of("queued")) IN
     /\ status' = [status EXCEPT ![f] = "progress"]
     /\ promise' = f
  /\ tick' = FALSE
  /\ UNCHANGED <<running, next, pool>>

NothingToDo ==
  /\ ~Room \/ (Ready = {} /\ (~running \/ Of("queued") = {}))
  /\ tick' = FALSE
  /\ running' = (running /\ (InPool # {} \/ Of("queued") # {}))
  /\ UNCHANGED <<status, promise, next, pool>>

\* _tick; it waits for the file that is being prepared.
Tick ==
  /\ tick /\ promise = None
  /\ NextBlock \/ PrepareNextFile \/ NothingToDo
  /\ UNCHANGED <<queue, timer, left, retried, late, server, mixed>>

\* The file is cut, and its first block starts.
Prepared ==
  /\ promise # None /\ promise' = None
  /\ left' = [left EXCEPT ![promise] = Chunks[promise]]
  /\ StartSend(promise, 0)
  /\ UNCHANGED <<status, queue, running, timer, retried, late, server, mixed>>

\* _popBlock, and a tick
Pops(bs) ==
  /\ pool' = [b \in Blocks |-> IF b \in bs THEN "out" ELSE pool[b]]
  /\ left' = [f \in Files |-> left[f] - Cardinality({b \in bs : File(b) = f})]
  /\ tick' = TRUE

\* _doSend, unless the file has failed meanwhile
BeforeSend(b) ==
  /\ pool[b] = "before"
  /\ \/ /\ status[File(b)] = "progress"
        /\ pool' = [pool EXCEPT ![b] = "sent"]
        /\ UNCHANGED <<left, tick>>
     \/ status[File(b)] # "progress" /\ Pops({b})
  /\ UNCHANGED <<status, queue, running, timer, promise, next, retried, late, server, mixed>>

\* Mutant: the last chunk to be sent is taken for the last to be answered.
LoadLast(b) ==
  /\ pool[b] = "saved"
  /\ \/ /\ next[File(b)] = Chunks[File(b)]
        /\ pool' = [pool EXCEPT ![b] = "finishing"]
        /\ UNCHANGED <<left, tick>>
     \/ next[File(b)] # Chunks[File(b)] /\ Pops({b})
  /\ UNCHANGED <<status, queue, running, timer, promise, next, retried, late, server, mixed>>

\* The answer: the last block of its file to be answered stays until the file is finished.
Load(b) ==
  /\ pool[b] = "saved"
  /\ \/ /\ left[File(b)] = 1
        /\ pool' = [pool EXCEPT ![b] = "finishing"]
        /\ UNCHANGED <<left, tick>>
     \/ left[File(b)] # 1 /\ Pops({b})
  /\ UNCHANGED <<status, queue, running, timer, promise, next, retried, late, server, mixed>>

\* uploadSuccess: the page asks for the merge and does not wait for the answer.
FinishFile(b) ==
  /\ pool[b] = "finishing"
  /\ status' = [status EXCEPT ![File(b)] = "complete"]
  /\ merge' = [merge EXCEPT ![File(b)].pc = "asked"]
  /\ Pops({c \in InPool : File(c) = File(b)})
  /\ UNCHANGED <<queue, running, timer, promise, next, retried, late, disk, target, mixed>>

\* A send that ends for the page before it was served may be served later.
Sends(bs) == {<<b, retried[b]>> : b \in {c \in bs : pool[c] = "sent"}}

\* Mutant: a chunk is sent again however often it failed.
AgainForEver(b) ==
  /\ pool[b] \in {"sent", "saved"} /\ Chunks[File(b)] > 1
  /\ \E lost \in SUBSET Sends({b}) : late' = late \cup lost
  /\ retried' = [retried EXCEPT ![b] = @ + 1]
  /\ pool' = [pool EXCEPT ![b] = "sent"]
  /\ UNCHANGED <<status, queue, running, timer, tick, promise, next, left, server, mixed>>

\* Mutant: the attempts of a chunk are not counted.
AgainUncounted(b) ==
  /\ pool[b] \in {"sent", "saved"} /\ Chunks[File(b)] > 1
  /\ \E lost \in SUBSET Sends({b}) : late' = late \cup lost
  /\ pool' = [pool EXCEPT ![b] = "sent"]
  /\ UNCHANGED <<status, queue, running, timer, tick, promise, next, left, retried,
                 server, mixed>>

\* Mutant: a chunk that is sent again is counted as if it was answered.
AgainCounted(b) ==
  /\ pool[b] \in {"sent", "saved"} /\ Chunks[File(b)] > 1 /\ retried[b] < Retries
  /\ \E lost \in SUBSET Sends({b}) : late' = late \cup lost
  /\ retried' = [retried EXCEPT ![b] = @ + 1]
  /\ pool' = [pool EXCEPT ![b] = "sent"]
  /\ left' = [left EXCEPT ![File(b)] = IF @ > 1 THEN @ - 1 ELSE @]
  /\ UNCHANGED <<status, queue, running, timer, tick, promise, next, server, mixed>>

\* The connection breaks, or the answer is an error below 500: a chunk is sent again.
Again(b) ==
  /\ pool[b] \in {"sent", "saved"} /\ Chunks[File(b)] > 1 /\ retried[b] < Retries
  /\ \E lost \in SUBSET Sends({b}) : late' = late \cup lost
  /\ retried' = [retried EXCEPT ![b] = @ + 1]
  /\ pool' = [pool EXCEPT ![b] = "sent"]
  /\ UNCHANGED <<status, queue, running, timer, tick, promise, next, left, server, mixed>>

(* The same once too often, an error of the server, or two minutes without an
   answer: the file fails, and its other requests are aborted.               *)
Fail(b) ==
  /\ pool[b] \in {"sent", "saved"}
  /\ status' = [status EXCEPT ![File(b)] = "error"]
  /\ LET bs == {c \in InPool : File(c) = File(b) /\ pool[c] # "before"} IN
     /\ \E lost \in SUBSET Sends(bs) : late' = late \cup lost
     /\ Pops(bs)
  /\ UNCHANGED <<queue, running, timer, promise, next, retried, server, mixed>>

\* The page is loaded again: a new task_id, and none of the old names is looked at.
Reload ==
  /\ \A f \in Files : /\ status[f] \in {"away", "complete", "error"}
                      /\ merge[f].pc \notin {"asked", "read", "remove"}
  /\ InPool = {} /\ ~tick
  /\ late' = {} /\ disk' = [n \in Numbers |-> None]
  /\ UNCHANGED <<page, merge, target, mixed>>

-----------------------------------------------------------------------------
\* /iso/accept
Saved(b) == disk' = [disk EXCEPT ![Chunk(b)] = b]

Accept(b) ==
  /\ pool[b] = "sent"
  /\ pool' = [pool EXCEPT ![b] = "saved"]
  /\ Saved(b)
  /\ UNCHANGED <<status, queue, running, timer, tick, promise, next, left, retried,
                 late, merge, target, mixed>>

AcceptLate(b, k) ==
  /\ <<b, k>> \in late
  /\ late' = late \ {<<b, k>>}
  /\ Saved(b)
  /\ UNCHANGED <<page, merge, target, mixed>>

\* /iso/complete; nobody notices when the request is lost.
Complete(f) ==
  /\ merge[f].pc = "asked"
  /\ \E pc \in {"read", "lost"} : merge' = [merge EXCEPT ![f].pc = pc]
  /\ UNCHANGED <<page, late, disk, target, mixed>>

\* The first number without a file ends the merge, with Success.
MergeChunk(f) ==
  /\ merge[f].pc = "read"
  /\ LET b == disk[merge[f].pos] IN
     IF b = None THEN merge' = [merge EXCEPT ![f].pc = "done"] /\ UNCHANGED target
     ELSE /\ merge' = [merge EXCEPT ![f].pc = "remove"]
          /\ target' = [target EXCEPT ![f] = Append(@, b)]
  /\ UNCHANGED <<page, late, disk, mixed>>

RemoveChunk(f) ==
  /\ merge[f].pc = "remove"
  /\ LET n == merge[f].pos IN
     IF disk[n] = None THEN merge' = [merge EXCEPT ![f].pc = "broken"] /\ UNCHANGED disk
     ELSE /\ disk' = [disk EXCEPT ![n] = None]
          /\ merge' = [merge EXCEPT ![f] = [pc |-> "read", pos |-> n + 1]]
  /\ UNCHANGED <<page, late, target, mixed>>

-----------------------------------------------------------------------------
PageStep == Start \/ Tick \/ Prepared
BlockStep(b) == BeforeSend(b) \/ Load(b) \/ FinishFile(b) \/ Again(b) \/ Fail(b)
MergeStep(f) == Complete(f) \/ MergeChunk(f) \/ RemoveChunk(f)

Next ==
  \/ PageStep
  \/ \E b \in Blocks : BlockStep(b) \/ Accept(b) \/ \E k \in 0..Retries : AcceptLate(b, k)
  \/ \E f \in Files : Choose(f) \/ MergeStep(f)
  \/ Reload

Spec == Init /\ [][Next]_vars
FairSpec ==
  /\ Spec /\ WF_vars(PageStep)
  /\ \A b \in Blocks : WF_vars(BlockStep(b))
  /\ \A f \in Files : WF_vars(MergeStep(f))

-----------------------------------------------------------------------------
(* file.remaning counts the blocks that are not answered yet, in the pool or still
   to come: on it depends that a file is finished by its last answer and by no
   other, whichever thread gets it.                                          *)
CountersRight ==
  \A f \in Files : status[f] = "progress" /\ f # promise =>
    left[f] = Chunks[f] - next[f] + Cardinality({b \in InPool : File(b) = f})

(* A merged file has its chunks in their order, although requests are repeated,
   lost or served late and the merge stops without an error at the first number
   that is missing: as long as nothing of another file of the page is about.  *)
MergedIsFile ==
  \A f \in Files : merge[f].pc = "done" /\ ~mixed =>
    target[f] = [i \in 1..Chunks[f] |-> <<f, i - 1>>]

\* Every file that is chosen is uploaded or fails, whatever was chosen before and after it.
UploadEnds ==
  \A f \in Files : status[f] = "inited" ~> status[f] \in {"complete", "error"}

=============================================================================
