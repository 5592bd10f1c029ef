--------------------------- MODULE RequestQueues ---------------------------
(***************************************************************************)
(* How the app-server runs the requests of its clients                     *)
(* (codex-rs/app-server/src/request_serialization.rs and                   *)
(* connection_rpc_gate.rs, with their use in message_processor.rs).        *)
(*                                                                         *)
(* A request that touches a shared resource has a key and an access; the   *)
(* requests of a key wait in a queue of the map under one mutex.  Whoever  *)
(* creates a queue spawns the task that drains it; the task removes the    *)
(* queue when it finds it empty and ends.  It runs an exclusive request to *)
(* its end; a batch of shared reads it polls together, and while they run  *)
(* a Notify tells it of requests that came later, so that reads at the     *)
(* front of the queue can join.  A request without a key runs in a task of *)
(* its own.  A request of a connection passes the connection's gate just   *)
(* before it runs; closing the connection closes the gate and waits for    *)
(* the handlers that passed it.                                            *)
(*                                                                         *)
(* A request is a number, in the order of arrival.  A drain task and the   *)
(* Notify of its queue carry the number of the request that created the    *)
(* queue.  What is done under the mutex is one action; every await at      *)
(* which the task can be suspended separates two.                          *)
(***************************************************************************)
EXTENDS Naturals, Sequences, FiniteSets

CONSTANTS
    Keys,           \* RequestSerializationQueueKey
    Conns,          \* connections
    Background,     \* work of the app-server itself: no gate
    NoKey,          \* serialization: None
    ConfigKey,      \* Global("config"), where plugin/reconcile enqueues
    Accesses,       \* the accesses the clients use
    MayPanic,       \* whether handlers may panic
    MaxRequests     \* bound: requests in one behaviour

Ids == 1..MaxRequests

ASSUME QueuesAssumption ==
    /\ MaxRequests \in Nat
    /\ ConfigKey \in Keys /\ NoKey \notin Keys
    /\ Background \notin Conns
    /\ Accesses \subseteq {"exclusive", "read"}
    /\ MayPanic \in BOOLEAN

VARIABLES
    req,      \* the requests: Ids -> what each is and how far it has come
    last,     \* the number of requests that have arrived
    map,      \* inner: key -> its queue; owner 0 if the key is absent
    permit,   \* Notify of a queue: Ids -> whether a notification is stored
    drain,    \* the drain tasks: Ids -> pc and the requests it is running
    gate      \* connection -> its gate and what closing it has come to

vars == <<req, last, map, permit, drain, gate>>

Ended == {"done", "skipped", "lost"}
ReqPcs == {"free", "spawned", "queued", "taken", "running"} \cup Ended
DrainPcs == {"none", "loop", "exclusive", "reads", "admit", "ended", "panicked"}
GatePcs == {"open", "closed", "drained", "timedOut"}

Absent == [owner |-> 0, requests |-> <<>>]
Idle == [pc |-> "none", batch |-> {}]
Free == [conn |-> Background, key |-> NoKey, access |-> "exclusive",
         pc |-> "free", awaits |-> 0]

Init ==
    /\ req = [r \in Ids |-> Free]
    /\ last = 0
    /\ map = [k \in Keys |-> Absent]
    /\ permit = [d \in Ids |-> FALSE]
    /\ drain = [d \in Ids |-> Idle]
    /\ gate = [c \in Conns |-> "open"]

(***************************************************************************)
(* Arrivals                                                                *)
(***************************************************************************)

Request(c, k, a, pc) ==
    [conn |-> c, key |-> k, access |-> a, pc |-> pc, awaits |-> 0]

(* The queue part of enqueue: to an existing queue the request is added    *)
(* and its Notify rung; otherwise a queue is made and its drain spawned.   *)
PushAndNotify(k, r) ==
    /\ map[k].owner # 0
    /\ map' = [map EXCEPT ![k].requests = Append(@, r)]
    /\ permit' = [permit EXCEPT ![map[k].owner] = TRUE]
    /\ UNCHANGED drain

InsertAndSpawn(k, r) ==
    /\ map[k].owner = 0
    /\ map' = [map EXCEPT ![k] = [owner |-> r, requests |-> <<r>>]]
    /\ drain' = [drain EXCEPT ![r].pc = "loop"]
    /\ UNCHANGED permit

enqueue(k, r) == PushAndNotify(k, r) \/ InsertAndSpawn(k, r)

(* The main loop takes a request of an open connection.  It is the task    *)
(* that also closes connections, so none arrives after the close.          *)
Receive(c, k, a) ==
    /\ last < MaxRequests
    /\ gate[c] = "open"
    /\ last' = last + 1
    /\ req' = [req EXCEPT ![last + 1] = Request(c, k, a, "queued")]
    /\ enqueue(k, last + 1)
    /\ UNCHANGED gate

ReceiveUnserialized(c) ==
    /\ last < MaxRequests
    /\ gate[c] = "open"
    /\ last' = last + 1
    /\ req' = [req EXCEPT ![last + 1] = Request(c, NoKey, "exclusive", "spawned")]
    /\ UNCHANGED <<map, permit, drain, gate>>

(* The plugin-change callback queues work of the app-server itself.        *)
EffectivePluginsChange ==
    /\ last < MaxRequests
    /\ last' = last + 1
    /\ req' = [req EXCEPT ![last + 1] =
                   Request(Background, ConfigKey, "exclusive", "queued")]
    /\ enqueue(ConfigKey, last + 1)
    /\ UNCHANGED gate

(* plugin/reconcile, a handler without a key, queues such work and awaits  *)
(* its completion.                                                         *)
PluginReconcile(r) ==
    /\ last < MaxRequests
    /\ req[r].pc = "running" /\ req[r].key = NoKey /\ req[r].awaits = 0
    /\ last' = last + 1
    /\ req' = [req EXCEPT
                   ![r].awaits = last + 1,
                   ![last + 1] =
                       Request(Background, ConfigKey, "exclusive", "queued")]
    /\ enqueue(ConfigKey, last + 1)
    /\ UNCHANGED gate

(***************************************************************************)
(* drain                                                                   *)
(***************************************************************************)

KeyOf(d) == req[d].key

(* How many requests at the head of a queue are shared reads.              *)
LeadingReads(q) ==
    CHOOSE n \in 0..Len(q) :
        /\ \A i \in 1..n : req[q[i]].access = "read"
        /\ n < Len(q) => req[q[n + 1]].access # "read"

\* Mutant: a batch of reads takes the writes behind it along.
BatchLengthWholeQueue(q) == IF req[Head(q)].access = "read" THEN Len(q) ELSE 1

(* How many requests the top of the loop takes.                            *)
BatchLength(q) == IF req[Head(q)].access = "read" THEN LeadingReads(q) ELSE 1

Taken(q, n) == {q[i] : i \in 1..n}

MarkTaken(S) ==
    req' = [r \in Ids |-> IF r \in S THEN [req[r] EXCEPT !.pc = "taken"] ELSE req[r]]

TakeBatch(d) ==
    LET q == map[KeyOf(d)].requests
        n == BatchLength(q)
    IN
    /\ drain[d].pc = "loop"
    /\ q # <<>>
    /\ map' = [map EXCEPT ![KeyOf(d)].requests = SubSeq(q, n + 1, Len(q))]
    /\ drain' = [drain EXCEPT ![d] =
                     [pc |-> IF req[Head(q)].access = "read" THEN "reads" ELSE "exclusive",
                      batch |-> Taken(q, n)]]
    /\ MarkTaken(Taken(q, n))
    /\ UNCHANGED <<last, permit, gate>>

\* Mutant: the task returns and leaves the empty queue in the map.
RemoveQueueNot(d) ==
    /\ drain[d].pc = "loop"
    /\ map[KeyOf(d)].requests = <<>>
    /\ drain' = [drain EXCEPT ![d].pc = "ended"]
    /\ permit' = [permit EXCEPT ![d] = FALSE]
    /\ UNCHANGED <<req, last, map, gate>>

(* An absent queue is as empty: the task returns.  With the queue its      *)
(* Notify goes.                                                            *)
RemoveQueue(d) ==
    /\ drain[d].pc = "loop"
    /\ map[KeyOf(d)].requests = <<>>
    /\ map' = [map EXCEPT ![KeyOf(d)] = Absent]
    /\ drain' = [drain EXCEPT ![d].pc = "ended"]
    /\ permit' = [permit EXCEPT ![d] = FALSE]
    /\ UNCHANGED <<req, last, gate>>

(* changed.notified() wins the select.  Until the queue has been looked at *)
(* the running reads are not polled.                                       *)
Notified(d) ==
    /\ drain[d].pc = "reads" /\ permit[d]
    /\ permit' = [permit EXCEPT ![d] = FALSE]
    /\ drain' = [drain EXCEPT ![d].pc = "admit"]
    /\ UNCHANGED <<req, last, map, gate>>

AdmitReads(d) ==
    LET q == map[KeyOf(d)].requests
        n == LeadingReads(q)
    IN
    /\ drain[d].pc = "admit"
    /\ map' = [map EXCEPT ![KeyOf(d)].requests = SubSeq(q, n + 1, Len(q))]
    /\ drain' = [drain EXCEPT ![d].pc = "reads", ![d].batch = @ \cup Taken(q, n)]
    /\ MarkTaken(Taken(q, n))
    /\ UNCHANGED <<last, permit, gate>>

(***************************************************************************)
(* Running a request                                                       *)
(***************************************************************************)

(* The task that polls request r, if r has been taken from its queue.      *)
PolledBy(r, d) == r \in drain[d].batch /\ drain[d].pc \in {"exclusive", "reads"}

CanRun(r) ==
    \/ req[r].pc = "spawned"
    \/ req[r].pc = "taken" /\ \E d \in Ids : PolledBy(r, d)

\* Mutant: a request taken from its queue does not look at the gate.
AcceptingAlways(c) == TRUE

Accepting(c) == c \in Conns => gate[c] = "open"

\* Mutant: a drain task whose requests have all returned does not go on.
ReturnedAndStays(r) ==
    drain' = [d \in Ids |-> [drain[d] EXCEPT !.batch = @ \ {r}]]

(* The request's future has returned: a drain task drops it from what it   *)
(* runs, and is back at the top of its loop when nothing is left.          *)
Returned(r) ==
    drain' = [d \in Ids |->
                 IF r \in drain[d].batch
                 THEN [pc |-> IF drain[d].batch = {r} THEN "loop" ELSE drain[d].pc,
                       batch |-> drain[d].batch \ {r}]
                 ELSE drain[d]]

PassGate(r) ==
    /\ CanRun(r) /\ Accepting(req[r].conn)
    /\ req' = [req EXCEPT ![r].pc = "running"]
    /\ UNCHANGED <<last, map, permit, drain, gate>>

StoppedAtGate(r) ==
    /\ CanRun(r) /\ ~Accepting(req[r].conn)
    /\ req' = [req EXCEPT ![r].pc = "skipped"]
    /\ Returned(r)
    /\ UNCHANGED <<last, map, permit, gate>>

(* A handler that awaits other work ends after it.                         *)
Finish(r) ==
    /\ req[r].pc = "running"
    /\ req[r].key = NoKey \/ \E d \in Ids : PolledBy(r, d)
    /\ req[r].awaits # 0 => req[req[r].awaits].pc \in Ended
    /\ req' = [req EXCEPT ![r].pc = "done"]
    /\ Returned(r)
    /\ UNCHANGED <<last, map, permit, gate>>

(* A handler that panics unwinds the task that polls it: every request the *)
(* task was running is dropped, and its queue stays in the map.            *)
Panic(r) ==
    /\ MayPanic /\ req[r].pc = "running"
    /\ req[r].key = NoKey \/ \E d \in Ids : PolledBy(r, d)
    /\ LET task == {d \in Ids : r \in drain[d].batch}
           dropped == {r} \cup UNION {drain[d].batch : d \in task}
       IN /\ req' = [s \in Ids |-> IF s \in dropped
                                   THEN [req[s] EXCEPT !.pc = "lost"] ELSE req[s]]
          /\ drain' = [d \in Ids |-> IF d \in task
                                     THEN [pc |-> "panicked", batch |-> {}]
                                     ELSE drain[d]]
    /\ UNCHANGED <<last, map, permit, gate>>

(***************************************************************************)
(* Closing a connection                                                    *)
(***************************************************************************)

\* Mutant: the early return at a closed gate keeps its token.
TokensLeaked(c) == {r \in Ids : req[r].conn = c /\ req[r].pc \in {"running", "skipped"}}

Tokens(c) == {r \in Ids : req[r].conn = c /\ req[r].pc = "running"}

Close(c) ==
    /\ gate[c] = "open"
    /\ gate' = [gate EXCEPT ![c] = "closed"]
    /\ UNCHANGED <<req, last, map, permit, drain>>

Shutdown(c) ==
    /\ gate[c] = "closed"
    /\ Tokens(c) = {}
    /\ gate' = [gate EXCEPT ![c] = "drained"]
    /\ UNCHANGED <<req, last, map, permit, drain>>

DrainTimeout(c) ==
    /\ gate[c] = "closed"
    /\ Tokens(c) # {}
    /\ gate' = [gate EXCEPT ![c] = "timedOut"]
    /\ UNCHANGED <<req, last, map, permit, drain>>

(***************************************************************************)
(* The specification                                                       *)
(***************************************************************************)

DrainStep(d) == TakeBatch(d) \/ RemoveQueue(d) \/ Notified(d) \/ AdmitReads(d)
RunStep(r) == PassGate(r) \/ StoppedAtGate(r) \/ Finish(r)

Next ==
    \/ \E c \in Conns :
           \/ \E k \in Keys, a \in Accesses : Receive(c, k, a)
           \/ ReceiveUnserialized(c)
           \/ Close(c) \/ Shutdown(c) \/ DrainTimeout(c)
    \/ EffectivePluginsChange
    \/ \E r \in Ids : PluginReconcile(r) \/ RunStep(r) \/ Panic(r)
    \/ \E d \in Ids : DrainStep(d)

(* The runtime polls every task that can go on, and handlers end.  Nothing *)
(* makes requests arrive, connections close or the timeout strike.         *)
Fairness ==
    /\ \A d \in Ids : WF_vars(DrainStep(d))
    /\ \A r \in Ids : WF_vars(RunStep(r))
    /\ \A c \in Conns : WF_vars(Shutdown(c))

Spec == Init /\ [][Next]_vars /\ Fairness

(***************************************************************************)
(* Properties                                                              *)
(***************************************************************************)

TypeOK ==
    /\ req \in [Ids -> [conn : Conns \cup {Background}, key : Keys \cup {NoKey},
                        access : {"exclusive", "read"}, pc : ReqPcs, awaits : 0..MaxRequests]]
    /\ last \in 0..MaxRequests
    /\ \A k \in Keys : /\ DOMAIN map[k] = {"owner", "requests"}
                       /\ map[k].owner \in 0..MaxRequests
                       /\ map[k].requests \in Seq(Ids)
    /\ permit \in [Ids -> BOOLEAN]
    /\ drain \in [Ids -> [pc : DrainPcs, batch : SUBSET Ids]]
    /\ gate \in [Conns -> GatePcs]

(* Enqueue against removal: whatever the order of a drain that finds its   *)
(* queue empty and a request that arrives, every queue in the map has one  *)
(* drain task, the one its creation spawned, and a key not in the map has  *)
(* none.  Two tasks of one key would run exclusive requests side by side;  *)
(* none would leave requests for ever.                                     *)
OneDrainPerQueue ==
    \A k \in Keys :
        {d \in Ids : KeyOf(d) = k /\ drain[d].pc \notin {"none", "ended"}}
            = {map[k].owner} \ {0}

(* No request is forgotten or run twice: one that has been queued and not  *)
(* been taken is in its key's queue, once and in the order of arrival, and *)
(* one that has been taken and not ended is polled by one task.            *)
EachRequestHeldOnce ==
    /\ \A k \in Keys :
           LET q == map[k].requests IN
           /\ {q[i] : i \in DOMAIN q}
                  = {r \in Ids : req[r].key = k /\ req[r].pc = "queued"}
           /\ \A i, j \in DOMAIN q : i < j => q[i] < q[j]
    /\ \A r \in Ids :
           (req[r].key # NoKey /\ req[r].pc \in {"taken", "running"})
               <=> Cardinality({d \in Ids : r \in drain[d].batch}) = 1
    /\ \A r \in Ids, d, e \in Ids :
           r \in drain[d].batch /\ r \in drain[e].batch => d = e

(* Once the shutdown of a gate has returned, no handler of its connection  *)
(* runs, so the clean-up that follows it cannot be undone by one: also not *)
(* by a request that was queued before and is taken from its queue later.  *)
NoHandlerAfterShutdown ==
    \A c \in Conns : gate[c] = "drained" => Tokens(c) = {}

(* A key whose drain task a panic has ended, with the queue left behind.   *)
Stuck(k) == \E d \in Ids : KeyOf(d) = k /\ drain[d].pc = "panicked"

(* Waiting for a request of a key that is stuck.                           *)
Hangs(r) ==
    \/ req[r].key # NoKey /\ Stuck(req[r].key)
    \/ req[r].awaits # 0 /\ Stuck(ConfigKey)

Open == {r \in Ids : req[r].pc \notin {"free"} \cup Ended /\ ~Hangs(r)}

(* No wake-up is lost: every request that arrives is run to its end or     *)
(* skipped, unless a handler of its key panicked and took the drain task   *)
(* with it.  (The arrivals are bounded, so requests that all end are at    *)
(* some time all over.)                                                    *)
RequestsEnd == Open # {} ~> Open = {}

(* A closed connection drains without the help of the timeout: what its    *)
(* handlers wait for does not wait behind the closed gate.                 *)
ShutdownReturns ==
    \A c \in Conns :
        gate[c] = "closed" ~> (gate[c] # "closed" \/ \E k \in Keys : Stuck(k))

(* A late read joins the reads that run: while a batch of reads runs and   *)
(* a read is at the front of the queue, the task has a notification to     *)
(* look at, however many requests and batches one stored permit stood for. *)
LateReadJoins ==
    \A d \in Ids :
        LET q == map[KeyOf(d)].requests IN
        drain[d].pc = "reads" /\ q # <<>> /\ req[Head(q)].access = "read"
            => permit[d]

(* The invariant of the map, the tasks and the permits: between any two    *)
(* awaits of the drain tasks they agree on who runs what.                  *)
QueueInv == TypeOK /\ OneDrainPerQueue /\ EachRequestHeldOnce /\ LateReadJoins

(***************************************************************************)
(* The abstract specification: the queues, tasks and wake-ups implement    *)
(* access to each key in the order of arrival.                             *)
(***************************************************************************)
Serialized == INSTANCE SerializedAccess WITH
    arrived <- {r \in Ids : req[r].key # NoKey},
    exclusive <- {r \in Ids : req[r].key # NoKey /\ req[r].access = "exclusive"},
    waiting <- [k \in Keys |-> {r \in Ids : req[r].key = k /\ req[r].pc \in {"queued", "taken"}}],
    active <- [k \in Keys |-> {r \in Ids : req[r].key = k /\ req[r].pc = "running"}]

(* A request runs only when every earlier one it conflicts with has ended: *)
(* a read that joins a running batch has not overtaken a waiting write.    *)
ImplementsSerializedAccess == Serialized!Spec
=============================================================================
