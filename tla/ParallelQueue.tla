--------------------------- MODULE ParallelQueue ---------------------------
(***************************************************************************)
(* Admission of desktop openings to a compute node.                        *)
(*                                                                         *)
(* Every opening of an education desktop by a terminal goes through        *)
(* TerminalController.check_concurrency (yzy_server/apis/v1/controllers/   *)
(* terminal_ctl.py): it announces itself in the redis hash                 *)
(* yzy_parallel_queue under the number of the terminal, counts the entries *)
(* of its node, asks the node whether the announced memory fits, and       *)
(* withdraws the entry and tries again when either answer is no.  The      *)
(* handler that called it withdraws the entry when it ends.  No lock is    *)
(* taken anywhere: the requests are greenlets of several gunicorn workers  *)
(* and each redis command and each HTTP call is a point of interleaving.   *)
(*                                                                         *)
(* What the handler does between admission and release is modelled in      *)
(* EduDesktop; here it only starts the domain, which takes its memory, or  *)
(* fails to.                                                               *)
(***************************************************************************)
EXTENDS Integers, FiniteSets, FiniteSetsExt

CONSTANTS
  Requests,     \* request slots of the server's workers
  Targets,      \* desktops that can be opened
  Tid,          \* Tid[t]: terminal number of the desktop, the key of the queue
  NodeOf,       \* NodeOf[t]: node of the desktop (instance.host.ip)
  Ram,          \* Ram[t]: memory of its desktop group
  Memory,       \* Memory[n]: memory of node n
  Limit,        \* PARALELL_NUM
  MaxAttempts,  \* stop_max_attempt_number of the retry decorator
  Timeouts,     \* whether a create call may outlast the server's HTTP timeout
  None

Tids == {Tid[t] : t \in Targets}
Nodes == {NodeOf[t] : t \in Targets}

ASSUME FiniteAssumption == IsFiniteSet(Requests) /\ IsFiniteSet(Targets)
ASSUME LimitAssumption == Limit \in Nat \ {0} /\ MaxAttempts \in Nat \ {0}
ASSUME TargetAssumption ==
  /\ \A t \in Targets : Ram[t] \in Nat
  /\ \A n \in Nodes : Memory[n] \in Nat
  /\ None \notin Targets
  /\ Timeouts \in BOOLEAN

VARIABLES
  pc,        \* where each request stands
  target,    \* the desktop it opens
  attempts,  \* failed attempts of check_concurrency so far
  seen,      \* the desktops of its node it read in the queue, whose memory it adds up
  queue,     \* yzy_parallel_queue: terminal number -> announced desktop
  running,   \* desktops whose domain runs on its node
  late       \* desktops a node is still starting although the server gave up waiting

vars == <<pc, target, attempts, seen, queue, running, late>>

Stages == {"idle", "announce", "count", "ram", "retreat", "admitted", "release"}

TypeOK ==
  /\ pc \in [Requests -> Stages]
  /\ target \in [Requests -> Targets \cup {None}]
  /\ attempts \in [Requests -> 0..MaxAttempts]
  /\ seen \in [Requests -> SUBSET Targets]
  /\ queue \in [Tids -> Targets \cup {None}]
  /\ running \subseteq Targets
  /\ late \subseteq Targets

-----------------------------------------------------------------------------
RamOf(S) == MapThenSumSet(LAMBDA t : Ram[t], S)

\* The entries of the queue that name node n, by terminal number.
EntriesOn(n) == {k \in Tids : queue[k] # None /\ NodeOf[queue[k]] = n}

AnnouncedOn(n) == {queue[k] : k \in EntriesOn(n)}

\* math.floor(psutil.virtual_memory().available) of the node
Available(n) == Memory[n] - RamOf({t \in running : NodeOf[t] = n})

-----------------------------------------------------------------------------
Init ==
  /\ pc = [r \in Requests |-> "idle"]
  /\ target = [r \in Requests |-> None]
  /\ attempts = [r \in Requests |-> 0]
  /\ seen = [r \in Requests |-> {}]
  /\ queue = [k \in Tids |-> None]
  /\ running = {}
  /\ late = {}

\* The checks of licence, instance and subnet passed; check_concurrency is called.
Arrive(r, t) ==
  /\ pc[r] = "idle"
  /\ pc' = [pc EXCEPT ![r] = "announce"]
  /\ target' = [target EXCEPT ![r] = t]
  /\ UNCHANGED <<attempts, seen, queue, running, late>>

\* hset: an entry of the same terminal number, for whatever desktop, is overwritten.
Announce(r) ==
  /\ pc[r] = "announce"
  /\ queue' = [queue EXCEPT ![Tid[target[r]]] = target[r]]
  /\ pc' = [pc EXCEPT ![r] = "count"]
  /\ UNCHANGED <<target, attempts, seen, running, late>>

\* Mutant: the limit is compared with the entries of the others.
CountOthers(r) ==
  LET n == NodeOf[target[r]] IN
  /\ pc[r] = "count"
  /\ seen' = [seen EXCEPT ![r] = AnnouncedOn(n)]
  /\ pc' = [pc EXCEPT ![r] = IF Cardinality(EntriesOn(n) \ {Tid[target[r]]}) > Limit
                              THEN "retreat" ELSE "ram"]
  /\ UNCHANGED <<target, attempts, queue, running, late>>

\* Mutant: only the memory of the request's own desktop is asked for.
CountOwnRam(r) ==
  LET n == NodeOf[target[r]] IN
  /\ pc[r] = "count"
  /\ seen' = [seen EXCEPT ![r] = {target[r]}]
  /\ pc' = [pc EXCEPT ![r] = IF Cardinality(EntriesOn(n)) > Limit
                              THEN "retreat" ELSE "ram"]
  /\ UNCHANGED <<target, attempts, queue, running, late>>

\* hvals: the entries of the node are counted and their memory summed.
Count(r) ==
  LET n == NodeOf[target[r]] IN
  /\ pc[r] = "count"
  /\ seen' = [seen EXCEPT ![r] = AnnouncedOn(n)]
  /\ pc' = [pc EXCEPT ![r] = IF Cardinality(EntriesOn(n)) > Limit
                              THEN "retreat" ELSE "ram"]
  /\ UNCHANGED <<target, attempts, queue, running, late>>

\* check_ram on the node; a call that fails (ok = FALSE) counts as no memory.
CheckRam(r, ok) ==
  /\ pc[r] = "ram"
  /\ pc' = [pc EXCEPT ![r] = IF ok /\ RamOf(seen[r]) <= Available(NodeOf[target[r]])
                              THEN "admitted" ELSE "retreat"]
  /\ seen' = [seen EXCEPT ![r] = {}]
  /\ UNCHANGED <<target, attempts, queue, running, late>>

\* Mutant: one retry too many.
RetreatOnceMore(r) ==
  /\ pc[r] = "retreat"
  /\ queue' = [queue EXCEPT ![Tid[target[r]]] = None]
  /\ attempts' = [attempts EXCEPT ![r] = @ + 1]
  /\ pc' = [pc EXCEPT ![r] = IF attempts[r] + 1 <= MaxAttempts
                              THEN "announce" ELSE "release"]
  /\ seen' = [seen EXCEPT ![r] = {}]
  /\ UNCHANGED <<target, running, late>>

\* Mutant: a retry decorator without stop_max_attempt_number.
RetreatForEver(r) ==
  /\ pc[r] = "retreat"
  /\ queue' = [queue EXCEPT ![Tid[target[r]]] = None]
  /\ pc' = [pc EXCEPT ![r] = "announce"]
  /\ seen' = [seen EXCEPT ![r] = {}]
  /\ UNCHANGED <<target, attempts, running, late>>

\* hdel in the except clause, then the decorator tries again or gives up.
Retreat(r) ==
  /\ pc[r] = "retreat"
  /\ queue' = [queue EXCEPT ![Tid[target[r]]] = None]
  /\ attempts' = [attempts EXCEPT ![r] = @ + 1]
  /\ pc' = [pc EXCEPT ![r] = IF attempts[r] + 1 < MaxAttempts
                              THEN "announce" ELSE "release"]
  /\ seen' = [seen EXCEPT ![r] = {}]
  /\ UNCHANGED <<target, running, late>>

\* The handler starts the domain, fails to, or stops waiting for the node.
Work(r) ==
  /\ pc[r] = "admitted"
  /\ pc' = [pc EXCEPT ![r] = "release"]
  /\ \/ /\ running' = running \cup {target[r]}
        /\ UNCHANGED late
     \/ UNCHANGED <<running, late>>
     \/ /\ Timeouts
        /\ late' = late \cup {target[r]}
        /\ UNCHANGED running
  /\ UNCHANGED <<target, attempts, seen, queue>>

\* A node finishes a create call nobody waits for any more.
LateStart(t) ==
  /\ t \in late
  /\ late' = late \ {t}
  /\ running' = running \cup {t}
  /\ UNCHANGED <<pc, target, attempts, seen, queue>>

\* The handler is gone, its local variables with it.
Forget(r) ==
  /\ pc' = [pc EXCEPT ![r] = "idle"]
  /\ target' = [target EXCEPT ![r] = None]
  /\ attempts' = [attempts EXCEPT ![r] = 0]
  /\ seen' = [seen EXCEPT ![r] = {}]

\* Mutant: no finally clause.
ReleaseKeeping(r) ==
  /\ pc[r] = "release"
  /\ Forget(r)
  /\ UNCHANGED <<queue, running, late>>

\* hdel in the finally clause of the handler
Release(r) ==
  /\ pc[r] = "release"
  /\ queue' = [queue EXCEPT ![Tid[target[r]]] = None]
  /\ Forget(r)
  /\ UNCHANGED <<running, late>>

\* A desktop is shut down, by its user or by the administrator.
Shutdown(t) ==
  /\ t \in running
  /\ running' = running \ {t}
  /\ UNCHANGED <<pc, target, attempts, seen, queue, late>>

\* A gunicorn worker dies: its request is gone, its entry stays in redis.
Crash(r) ==
  /\ pc[r] # "idle"
  /\ Forget(r)
  /\ UNCHANGED <<queue, running, late>>

Step(r) ==
  \/ Announce(r)
  \/ Count(r)
  \/ \E ok \in BOOLEAN : CheckRam(r, ok)
  \/ Retreat(r)
  \/ Work(r)
  \/ Release(r)

ServerNext ==
  \/ \E r \in Requests : Step(r)
  \/ \E r \in Requests, t \in Targets : Arrive(r, t)
  \/ \E t \in Targets : LateStart(t) \/ Shutdown(t)

Next == ServerNext \/ \E r \in Requests : Crash(r)

Spec == Init /\ [][Next]_vars

-----------------------------------------------------------------------------
(* The queue is keyed by the terminal number alone.  Two requests in flight
   with the same number (one terminal asking twice, or the terminals with that
   number of two classrooms) share one entry.                               *)
KeysDistinct ==
  \A r, s \in Requests :
    r # s /\ pc[r] # "idle" /\ pc[s] # "idle" => Tid[target[r]] # Tid[target[s]]

\* The system when no two requests in flight have the same terminal number.
NextDistinct == Next /\ KeysDistinct'
SpecDistinct == Init /\ [][NextDistinct]_vars

\* No worker dies, and every handler that is running goes on to its end.
FairServer == Init /\ [][ServerNext]_vars /\ \A r \in Requests : WF_vars(Step(r))

-----------------------------------------------------------------------------
\* requests the node's limit counts: past the count, entry not yet withdrawn
Admitted(n) == {r \in Requests : pc[r] \in {"ram", "admitted"} /\ NodeOf[target[r]] = n}

(* check_concurrency: a node never serves more than PARALELL_NUM openings at
   a time, although each request announces itself before it counts and none
   holds a lock between the two.                                            *)
LimitRespected == \A n \in Nodes : Cardinality(Admitted(n)) <= Limit

\* desktops admitted to node n whose domain is not up yet
Pending(n) == {target[r] : r \in {q \in Requests : pc[q] = "admitted"
                                        /\ NodeOf[target[q]] = n}} \ running

(* check_ram asks for the memory of all announced openings at once, so the
   openings a node has granted together always fit in what is left of it.    *)
MemoryRespected == \A n \in Nodes : RamOf(Pending(n)) <= Available(n)

\* A request past its announcement finds its own entry in the queue.
EntryKept ==
  \A r \in Requests :
    pc[r] \in {"count", "ram", "admitted"} => queue[Tid[target[r]]] = target[r]

(* The whole protocol of queue, count and withdrawal implements a set of
   Limit places per node that are taken and given back in one step.         *)
Places == INSTANCE BoundedAdmission WITH inside <- [n \in Nodes |-> Admitted(n)]
ImplementsPlaces == Places!Spec

(* The retries are bounded and the finally clause always runs: every handler
   ends, whatever the node answers and however the others interleave.       *)
RequestEnds == \A r \in Requests : pc[r] # "idle" ~> pc[r] = "idle"

(* No announcement stays in yzy_parallel_queue for ever, even when requests
   with one terminal number overwrite and withdraw each other's entry.      *)
EntryWithdrawn == \A k \in Tids : queue[k] # None ~> queue[k] = None
=============================================================================
