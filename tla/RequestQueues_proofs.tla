------------------------ MODULE RequestQueues_proofs ------------------------
(***************************************************************************)
(* Proofs about RequestQueues, for any keys, connections and number of     *)
(* requests: what a closed gate guarantees, and that every queue has one   *)
(* drain task (neither rests on how many requests a batch takes); that the *)
(* queues, the tasks and the stored notifications always agree (QueueInv); *)
(* and that the whole implements SerializedAccess.                         *)
(***************************************************************************)
EXTENDS RequestQueues, FiniteSetTheorems, SequenceTheorems, TLAPS

(***************************************************************************)
(* The gate.                                                               *)
(***************************************************************************)

Requests == [conn : Conns \cup {Background}, key : Keys \cup {NoKey},
             access : {"exclusive", "read"}, pc : ReqPcs, awaits : 0..MaxRequests]

RequestsOK ==
    /\ req \in [Ids -> Requests]
    /\ last \in 0..MaxRequests
    /\ gate \in [Conns -> GatePcs]

\* The next number of an arrival is a request's number.
LEMMA NextId == ASSUME RequestsOK, last < MaxRequests PROVE last + 1 \in Ids
  BY QueuesAssumption DEF RequestsOK, Ids

\* The records that arrivals write are requests.
LEMMA RequestOK ==
  ASSUME NEW c \in Conns \cup {Background}, NEW k \in Keys \cup {NoKey},
         NEW a \in {"exclusive", "read"}, NEW p \in ReqPcs
  PROVE  Request(c, k, a, p) \in Requests
  BY QueuesAssumption DEF Request, Requests

\* A step that only moves requests on keeps them requests.
LEMMA MarkTakenOK ==
  ASSUME RequestsOK, NEW S, MarkTaken(S)
  PROVE  req' \in [Ids -> Requests]
  BY DEF RequestsOK, MarkTaken, Requests, ReqPcs

\* Every step keeps requests, their count and the gates well typed.
LEMMA RequestsTyped == RequestsOK /\ [Next]_vars => RequestsOK'
<1> SUFFICES ASSUME RequestsOK, [Next]_vars PROVE RequestsOK'
  OBVIOUS
<1>1. ASSUME NEW c \in Conns, NEW k \in Keys, NEW a \in Accesses, Receive(c, k, a)
      PROVE  RequestsOK'
  <2>1. Request(c, k, a, "queued") \in Requests
    BY RequestOK, QueuesAssumption DEF ReqPcs
  <2> QED
    BY <1>1, <2>1, NextId DEF Receive, RequestsOK, Ids
<1>2. ASSUME NEW c \in Conns, ReceiveUnserialized(c) PROVE RequestsOK'
  <2>1. Request(c, NoKey, "exclusive", "spawned") \in Requests
    BY RequestOK DEF ReqPcs
  <2> QED
    BY <1>2, <2>1, NextId DEF ReceiveUnserialized, RequestsOK, Ids
<1>3. ASSUME NEW c \in Conns, Close(c) \/ Shutdown(c) \/ DrainTimeout(c)
      PROVE  RequestsOK'
  BY <1>3 DEF Close, Shutdown, DrainTimeout, RequestsOK, GatePcs
<1>4. Request(Background, ConfigKey, "exclusive", "queued") \in Requests
  BY RequestOK, QueuesAssumption DEF ReqPcs
<1>5. CASE EffectivePluginsChange
  BY <1>4, <1>5, NextId DEF EffectivePluginsChange, RequestsOK, Ids
<1>6. ASSUME NEW r \in Ids, PluginReconcile(r) PROVE RequestsOK'
  <2> DEFINE n == last + 1
  <2>1. n \in Ids /\ n \in 0..MaxRequests
    BY <1>6, NextId DEF PluginReconcile, Ids
  <2>2. req' \in [Ids -> Requests]
    BY <1>4, <1>6, <2>1 DEF PluginReconcile, RequestsOK, Requests
  <2> QED
    BY <1>6, <2>1, <2>2 DEF PluginReconcile, RequestsOK
<1>7. ASSUME NEW r \in Ids, PassGate(r) \/ StoppedAtGate(r) \/ Finish(r)
      PROVE  RequestsOK'
  BY <1>7 DEF PassGate, StoppedAtGate, Finish, RequestsOK, Requests, ReqPcs, Ended
<1>8. ASSUME NEW r \in Ids, Panic(r) PROVE RequestsOK'
  BY <1>8 DEF Panic, RequestsOK, Requests, ReqPcs, Ended
<1>9. ASSUME NEW d \in Ids, DrainStep(d) PROVE RequestsOK'
  <2>1. CASE TakeBatch(d)
    BY <2>1, MarkTakenOK DEF TakeBatch, RequestsOK
  <2>2. CASE AdmitReads(d)
    BY <2>2, MarkTakenOK DEF AdmitReads, RequestsOK
  <2>3. CASE RemoveQueue(d) \/ Notified(d)
    BY <2>3 DEF RemoveQueue, Notified, RequestsOK
  <2> QED
    BY <1>9, <2>1, <2>2, <2>3 DEF DrainStep
<1>10. CASE UNCHANGED vars
  BY <1>10 DEF vars, RequestsOK
<1> QED
  BY <1>1, <1>2, <1>3, <1>5, <1>6, <1>7, <1>8, <1>9, <1>10 DEF Next, RunStep

\* No step lets a handler through a gate whose shutdown has returned.
LEMMA GateKeepsShut ==
  RequestsOK /\ NoHandlerAfterShutdown /\ [Next]_vars => NoHandlerAfterShutdown'
<1> SUFFICES ASSUME RequestsOK, NoHandlerAfterShutdown, [Next]_vars,
                    NEW c \in Conns, gate'[c] = "drained",
                    NEW s \in Ids, req'[s].conn = c, req'[s].pc = "running"
             PROVE  FALSE
  BY DEF NoHandlerAfterShutdown, Tokens
<1> USE DEF RequestsOK
<1>0. gate[c] = "drained" => ~(req[s].conn = c /\ req[s].pc = "running")
  BY DEF NoHandlerAfterShutdown, Tokens
<1>1. CASE \E e \in Conns, k \in Keys, a \in Accesses : Receive(e, k, a)
  BY <1>0, <1>1, NextId DEF Receive, Request
<1>2. CASE \E e \in Conns : ReceiveUnserialized(e)
  BY <1>0, <1>2, NextId DEF ReceiveUnserialized, Request
<1>3. CASE \E e \in Conns : Close(e) \/ Shutdown(e) \/ DrainTimeout(e)
  BY <1>0, <1>3 DEF Close, Shutdown, DrainTimeout, Tokens
<1>4. CASE EffectivePluginsChange
  BY <1>0, <1>4, NextId DEF EffectivePluginsChange, Request
<1>5. ASSUME NEW r \in Ids, PluginReconcile(r) PROVE FALSE
  <2>1. req'[s].pc = "running" => req[s].pc = "running" /\ req'[s].conn = req[s].conn
    BY <1>5, NextId DEF PluginReconcile, Request, Requests
  <2> QED
    BY <1>0, <1>5, <2>1 DEF PluginReconcile
<1>6. ASSUME NEW r \in Ids, PassGate(r) PROVE FALSE
  <2>1. s = r /\ req[r].conn = c
    BY <1>0, <1>6 DEF PassGate, Requests
  <2> QED
    BY <1>6, <2>1 DEF PassGate, Accepting
<1>7. ASSUME NEW r \in Ids, StoppedAtGate(r) \/ Finish(r) PROVE FALSE
  BY <1>0, <1>7 DEF StoppedAtGate, Finish, Requests
<1>8. ASSUME NEW r \in Ids, Panic(r) PROVE FALSE
  BY <1>0, <1>8 DEF Panic, Requests
<1>9. ASSUME NEW d \in Ids, DrainStep(d) PROVE FALSE
  BY <1>0, <1>9 DEF DrainStep, TakeBatch, AdmitReads, RemoveQueue, Notified,
                    MarkTaken, Requests
<1>10. CASE UNCHANGED vars
  BY <1>0, <1>10 DEF vars
<1> QED
  BY <1>1, <1>2, <1>3, <1>4, <1>5, <1>6, <1>7, <1>8, <1>9, <1>10 DEF Next, RunStep

\* ConnectionRpcGate: once shutdown has returned, no handler of the connection
\* runs, also not one of a request that waited in a queue when the gate closed.
THEOREM ShutdownIsFinal == Spec => []NoHandlerAfterShutdown
<1>1. Init => RequestsOK /\ NoHandlerAfterShutdown
  BY QueuesAssumption DEF Init, Free, RequestsOK, Requests, ReqPcs, GatePcs,
                          NoHandlerAfterShutdown
<1> QED
  BY <1>1, RequestsTyped, GateKeepsShut, PTL DEF Spec

(***************************************************************************)
(* The drain tasks.                                                        *)
(***************************************************************************)

Resting == {"none", "loop", "ended", "panicked"}

\* The shape of the map and of the tasks; what the queues hold is left open.
ShapesOK ==
    /\ DOMAIN map = Keys
    /\ \A k \in Keys : DOMAIN map[k] = {"owner", "requests"}
    /\ DOMAIN drain = Ids
    /\ \A d \in Ids : DOMAIN drain[d] = {"pc", "batch"}

\* A number that has not arrived has no task; a task belongs to a key, and
\* only a task that polls requests holds any.
TasksOK ==
    /\ \A d \in Ids : d > last => drain[d].pc = "none"
    /\ \A d \in Ids : drain[d].pc # "none" => req[d].key \in Keys
    /\ \A d \in Ids : drain[d].pc \in Resting => drain[d].batch = {}

Live(d) == drain[d].pc \notin {"none", "ended"}

\* OneDrainPerQueue, element by element.
OwnerOK ==
    \A k \in Keys :
        /\ map[k].owner # 0 =>
               /\ map[k].owner \in Ids
               /\ req[map[k].owner].key = k /\ Live(map[k].owner)
        /\ \A d \in Ids : req[d].key = k /\ Live(d) => map[k].owner = d

DrainInv == RequestsOK /\ ShapesOK /\ TasksOK /\ OwnerOK

\* A step that leaves the keys of requests, the owners of queues and the
\* life of tasks as they are.
Calm ==
    /\ ShapesOK'
    /\ last' = last
    /\ \A r \in Ids : req'[r].key = req[r].key
    /\ \A k \in Keys : map'[k].owner = map[k].owner
    /\ \A d \in Ids : /\ drain'[d].pc \in {"none", "ended"} <=> ~Live(d)
                      /\ drain'[d].pc = "none" <=> drain[d].pc = "none"
                      /\ drain'[d].pc \in Resting => drain'[d].batch = {}

\* Such a step keeps the invariant of the tasks.
LEMMA CalmKeeps ==
  ASSUME DrainInv, RequestsOK', Calm
  PROVE  DrainInv'
  BY DEF DrainInv, Calm, TasksOK, OwnerOK, Live

\* What enqueue does to map and tasks when request r, of key k, has just been
\* given the next number.
LEMMA EnqueueKeeps ==
  ASSUME DrainInv, RequestsOK', NEW k \in Keys, last < MaxRequests,
         last' = last + 1, req'[last + 1].key = k,
         \A s \in Ids : s # last + 1 => req'[s].key = req[s].key,
         enqueue(k, last + 1)
  PROVE  DrainInv'
<1> DEFINE r == last + 1
<1>0. r \in Ids /\ r # 0 /\ drain[r].pc = "none" /\ drain[r].batch = {}
  BY NextId, QueuesAssumption DEF DrainInv, RequestsOK, TasksOK, Resting, Ids
<1>1. \A d \in Ids : d # 0 /\ (d > r => d > last /\ d # r)
  BY QueuesAssumption DEF DrainInv, RequestsOK, Ids
<1>2. CASE PushAndNotify(k, r)
  <2>1. ShapesOK'
    BY <1>2 DEF PushAndNotify, DrainInv, ShapesOK
  <2>2. \A j \in Keys : map'[j].owner = map[j].owner
    BY <1>2 DEF PushAndNotify, DrainInv, ShapesOK
  <2>3. drain' = drain
    BY <1>2 DEF PushAndNotify
  <2>4. TasksOK'
    BY <1>0, <1>1, <2>3 DEF DrainInv, TasksOK
  <2>5. OwnerOK'
    BY <1>0, <2>2, <2>3 DEF DrainInv, OwnerOK, Live
  <2> QED
    BY <2>1, <2>4, <2>5 DEF DrainInv
<1>3. CASE InsertAndSpawn(k, r)
  <2>1. ShapesOK'
    BY <1>0, <1>3 DEF InsertAndSpawn, DrainInv, ShapesOK
  <2>2. /\ map'[k].owner = r /\ map[k].owner = 0
        /\ \A j \in Keys : j # k => map'[j].owner = map[j].owner
    BY <1>3 DEF InsertAndSpawn, DrainInv, ShapesOK
  <2>3. /\ drain'[r].pc = "loop" /\ drain'[r].batch = {}
        /\ \A d \in Ids : d # r => drain'[d] = drain[d]
    BY <1>0, <1>3 DEF InsertAndSpawn, DrainInv, ShapesOK
  <2>4. TasksOK'
    BY <1>0, <1>1, <2>3 DEF DrainInv, TasksOK
  <2>5. OwnerOK'
    BY <1>0, <1>1, <2>2, <2>3 DEF DrainInv, OwnerOK, Live
  <2> QED
    BY <2>1, <2>4, <2>5 DEF DrainInv
<1> QED
  BY <1>2, <1>3 DEF enqueue

\* The end of a request takes a task at most back to the top of its loop.
LEMMA ReturnedIsCalm ==
  ASSUME DrainInv, NEW r \in Ids, Returned(r),
         last' = last, map' = map, \A s \in Ids : req'[s].key = req[s].key
  PROVE  Calm
<1>1. ShapesOK'
  BY DEF Returned, DrainInv, ShapesOK
<1>2. ASSUME NEW d \in Ids
      PROVE  /\ drain'[d].pc \in {"none", "ended"} <=> ~Live(d)
             /\ drain'[d].pc = "none" <=> drain[d].pc = "none"
             /\ drain'[d].pc \in Resting => drain'[d].batch = {}
  <2>1. CASE r \notin drain[d].batch
    BY <2>1 DEF Returned, DrainInv, TasksOK, Live
  <2>2. CASE r \in drain[d].batch
    <3>1. drain[d].pc \notin Resting
      BY <2>2 DEF DrainInv, TasksOK
    <3> QED
      BY <2>2, <3>1 DEF Returned, Live, Resting
  <2> QED
    BY <2>1, <2>2
<1> QED
  BY <1>1, <1>2 DEF Calm

\* Every step keeps the invariant of the tasks.
LEMMA DrainInvKept == DrainInv /\ [Next]_vars => DrainInv'
<1> SUFFICES ASSUME DrainInv, [Next]_vars PROVE DrainInv'
  OBVIOUS
<1>0. RequestsOK'
  BY RequestsTyped DEF DrainInv
<1>1. ASSUME NEW c \in Conns, NEW k \in Keys, NEW a \in Accesses, Receive(c, k, a)
      PROVE  DrainInv'
  BY <1>0, <1>1, NextId, EnqueueKeeps DEF Receive, Request, DrainInv, RequestsOK
<1>2. ASSUME NEW c \in Conns, ReceiveUnserialized(c) PROVE DrainInv'
  <2>1. last + 1 \in Ids /\ drain[last + 1].pc = "none"
    BY <1>2, NextId DEF ReceiveUnserialized, DrainInv, RequestsOK, TasksOK, Ids
  <2>2. \A s \in Ids : s # last + 1 => req'[s] = req[s]
    BY <1>2, <2>1 DEF ReceiveUnserialized, DrainInv, RequestsOK
  <2>3. last' = last + 1 /\ map' = map /\ drain' = drain
    BY <1>2 DEF ReceiveUnserialized
  <2>4. \A d \in Ids : d > last + 1 => d > last
    BY DEF DrainInv, RequestsOK, Ids
  <2>5. TasksOK'
    BY <2>1, <2>2, <2>3, <2>4 DEF DrainInv, TasksOK
  <2>6. OwnerOK'
    BY <2>1, <2>2, <2>3 DEF DrainInv, OwnerOK, Live
  <2> QED
    BY <1>0, <2>3, <2>5, <2>6 DEF DrainInv, ShapesOK
<1>3. ASSUME NEW c \in Conns, Close(c) \/ Shutdown(c) \/ DrainTimeout(c)
      PROVE  DrainInv'
  <2>1. Calm
    BY <1>3 DEF Close, Shutdown, DrainTimeout, Calm, DrainInv, ShapesOK, TasksOK, Live
  <2> QED
    BY <1>0, <2>1, CalmKeeps
<1>4. CASE EffectivePluginsChange
  BY <1>0, <1>4, NextId, EnqueueKeeps, QueuesAssumption
     DEF EffectivePluginsChange, Request, DrainInv, RequestsOK
<1>5. ASSUME NEW r \in Ids, PluginReconcile(r) PROVE DrainInv'
  <2>1. req[r].key = NoKey /\ last + 1 \in Ids /\ last < MaxRequests
    BY <1>5, NextId DEF PluginReconcile, DrainInv
  <2>2. req'[last + 1].key = ConfigKey
    BY <1>5, <2>1 DEF PluginReconcile, Request, DrainInv, RequestsOK, Requests
  <2>3. \A s \in Ids : s # last + 1 => req'[s].key = req[s].key
    BY <1>5, <2>1 DEF PluginReconcile, DrainInv, RequestsOK, Requests
  <2> QED
    BY <1>0, <1>5, <2>1, <2>2, <2>3, EnqueueKeeps, QueuesAssumption DEF PluginReconcile
<1>6. ASSUME NEW r \in Ids, PassGate(r) PROVE DrainInv'
  <2>1. \A s \in Ids : req'[s].key = req[s].key
    BY <1>6 DEF PassGate, DrainInv, RequestsOK, Requests
  <2>2. Calm
    BY <1>6, <2>1 DEF PassGate, Calm, DrainInv, ShapesOK, TasksOK, Live
  <2> QED
    BY <1>0, <2>2, CalmKeeps
<1>7. ASSUME NEW r \in Ids, StoppedAtGate(r) \/ Finish(r) PROVE DrainInv'
  <2>1. \A s \in Ids : req'[s].key = req[s].key
    BY <1>7 DEF StoppedAtGate, Finish, DrainInv, RequestsOK, Requests
  <2> QED
    BY <1>0, <1>7, <2>1, ReturnedIsCalm, CalmKeeps DEF StoppedAtGate, Finish
<1>8. ASSUME NEW r \in Ids, Panic(r) PROVE DrainInv'
  <2>1. \A s \in Ids : req'[s].key = req[s].key
    BY <1>8 DEF Panic, DrainInv, RequestsOK, Requests
  <2>2. ASSUME NEW d \in Ids
        PROVE  /\ DOMAIN drain'[d] = {"pc", "batch"}
               /\ drain'[d].pc \in {"none", "ended"} <=> ~Live(d)
               /\ drain'[d].pc = "none" <=> drain[d].pc = "none"
               /\ drain'[d].pc \in Resting => drain'[d].batch = {}
    <3>1. CASE r \in drain[d].batch
      <4>1. drain[d].pc \notin Resting
        BY <3>1 DEF DrainInv, TasksOK
      <4>2. drain'[d] = [pc |-> "panicked", batch |-> {}]
        BY <1>8, <3>1 DEF Panic
      <4> QED
        BY <4>1, <4>2 DEF Live, Resting
    <3>2. CASE r \notin drain[d].batch
      <4>1. drain'[d] = drain[d]
        BY <1>8, <3>2 DEF Panic
      <4> QED
        BY <4>1 DEF DrainInv, ShapesOK, TasksOK, Live
    <3> QED
      BY <3>1, <3>2
  <2>3. DOMAIN drain' = Ids
    BY <1>8 DEF Panic
  <2>4. Calm
    BY <1>8, <2>1, <2>2, <2>3 DEF Panic, Calm, DrainInv, ShapesOK
  <2> QED
    BY <1>0, <2>4, CalmKeeps
<1>9. ASSUME NEW d \in Ids, DrainStep(d) PROVE DrainInv'
  <2> DEFINE k == req[d].key
  <2>1. k \in Keys
    BY <1>9 DEF DrainStep, TakeBatch, RemoveQueue, Notified, AdmitReads,
                DrainInv, TasksOK
  <2>2. CASE TakeBatch(d)
    <3>1. \A s \in Ids : req'[s].key = req[s].key
      BY <2>2 DEF TakeBatch, MarkTaken, DrainInv, RequestsOK, Requests
    <3>2. PICK e : map' = [map EXCEPT ![k].requests = e]
      BY <2>2 DEF TakeBatch, KeyOf
    <3>3. PICK p \in {"reads", "exclusive"} :
             \E b : drain' = [drain EXCEPT ![d] = [pc |-> p, batch |-> b]]
      BY <2>2 DEF TakeBatch
    <3>4. drain[d].pc = "loop" /\ last' = last
      BY <2>2 DEF TakeBatch
    <3>5. Calm
      BY <2>1, <3>1, <3>2, <3>3, <3>4
         DEF Calm, DrainInv, ShapesOK, TasksOK, Live, Resting
    <3> QED
      BY <1>0, <3>5, CalmKeeps
  <2>3. CASE RemoveQueue(d)
    <3>1. /\ map'[k].owner = 0
          /\ \A j \in Keys : j # k => map'[j] = map[j]
      BY <2>1, <2>3 DEF RemoveQueue, KeyOf, Absent, DrainInv, ShapesOK
    <3>2. /\ drain'[d].pc = "ended" /\ drain'[d].batch = {}
          /\ \A e \in Ids : e # d => drain'[e] = drain[e]
      BY <2>3 DEF RemoveQueue, DrainInv, ShapesOK, TasksOK, Resting
    <3>3. ShapesOK'
      BY <2>1, <2>3 DEF RemoveQueue, KeyOf, Absent, DrainInv, ShapesOK
    <3>4. drain[d].pc = "loop" /\ req' = req /\ last' = last
      BY <2>3 DEF RemoveQueue
    <3>5. TasksOK'
      BY <3>2, <3>4 DEF DrainInv, TasksOK
    <3>6. map[k].owner = d
      BY <2>1, <3>4 DEF DrainInv, OwnerOK, Live
    <3>7. OwnerOK'
      BY <2>1, <3>1, <3>2, <3>4, <3>6 DEF DrainInv, OwnerOK, Live
    <3> QED
      BY <1>0, <3>3, <3>5, <3>7 DEF DrainInv
  <2>4. CASE Notified(d)
    <3>1. Calm
      BY <2>4 DEF Notified, Calm, DrainInv, ShapesOK, TasksOK, Live, Resting
    <3> QED
      BY <1>0, <3>1, CalmKeeps
  <2>5. CASE AdmitReads(d)
    <3>1. \A s \in Ids : req'[s].key = req[s].key
      BY <2>5 DEF AdmitReads, MarkTaken, DrainInv, RequestsOK, Requests
    <3>2. PICK e : map' = [map EXCEPT ![k].requests = e]
      BY <2>5 DEF AdmitReads, KeyOf
    <3>3. PICK b : drain' = [drain EXCEPT ![d].pc = "reads", ![d].batch = @ \cup b]
      BY <2>5 DEF AdmitReads
    <3>4. drain[d].pc = "admit" /\ last' = last
      BY <2>5 DEF AdmitReads
    <3>5. Calm
      BY <2>1, <3>1, <3>2, <3>3, <3>4
         DEF Calm, DrainInv, ShapesOK, TasksOK, Live, Resting
    <3> QED
      BY <1>0, <3>5, CalmKeeps
  <2> QED
    BY <1>9, <2>2, <2>3, <2>4, <2>5 DEF DrainStep
<1>10. CASE UNCHANGED vars
  <2>1. Calm
    BY <1>10 DEF vars, Calm, DrainInv, ShapesOK, TasksOK, Live
  <2> QED
    BY <1>0, <2>1, CalmKeeps
<1> QED
  BY <1>1, <1>2, <1>3, <1>4, <1>5, <1>6, <1>7, <1>8, <1>9, <1>10 DEF Next, RunStep

\* It holds initially.
LEMMA DrainInvInit == Init => DrainInv
<1> SUFFICES ASSUME Init PROVE DrainInv
  OBVIOUS
<1>1. RequestsOK
  BY QueuesAssumption DEF Init, Free, RequestsOK, Requests, ReqPcs, GatePcs
<1>2. ShapesOK /\ TasksOK /\ OwnerOK
  BY DEF Init, Absent, Idle, ShapesOK, TasksOK, OwnerOK, Live
<1> QED
  BY <1>1, <1>2 DEF DrainInv

\* OneDrainPerQueue follows from it.
LEMMA DrainInvOneDrain == DrainInv => OneDrainPerQueue
<1> SUFFICES ASSUME DrainInv, NEW k \in Keys
             PROVE  {d \in Ids : KeyOf(d) = k /\ drain[d].pc \notin {"none", "ended"}}
                        = {map[k].owner} \ {0}
  BY DEF OneDrainPerQueue
<1>1. 0 \notin Ids
  BY DEF Ids
<1> QED
  BY <1>1 DEF DrainInv, OwnerOK, Live, KeyOf

\* RequestSerializationQueues: every queue in the map has exactly one drain
\* task and a key without a queue has none, whatever the order of arrivals,
\* ends, panics and removals.
THEOREM OneDrainTask == Spec => []OneDrainPerQueue
  BY DrainInvInit, DrainInvOneDrain, DrainInvKept, PTL DEF Spec

(***************************************************************************)
(* Prefixes of a queue.                                                    *)
(***************************************************************************)

\* A set of natural numbers has a least one.
LEMMA Least ==
  ASSUME NEW T, T \subseteq Nat, T # {}
  PROVE  \E x \in T : \A y \in T : x <= y
<1> DEFINE R == {ss \in Nat \X Nat : ss[1] < ss[2]}
<1>1. IsWellFoundedOn(R, Nat)
  BY NatLessThanWellFounded, Zenon DEF OpToRel
<1> HIDE DEF R
<1>2. PICK x \in T : \A y \in T : ~ (<<y, x>> \in R)
  BY <1>1, WFMin, Zenon
<1>3. \A y \in T : ~ (y < x)
  BY <1>2 DEF R
<1> QED
  BY <1>2, <1>3

\* q, n: the first n of q are reads, and the next one, if there is one, is not.
ReadsEnd(q, n) ==
    /\ n \in 0..Len(q)
    /\ \A i \in 1..n : req[q[i]].access = "read"
    /\ n < Len(q) => req[q[n + 1]].access # "read"

\* The loops of drain that pop shared reads from the front of a queue stop.
LEMMA LeadingReadsEnd ==
  ASSUME NEW q \in Seq(Ids) PROVE ReadsEnd(q, LeadingReads(q))
<1> DEFINE T == {i \in 1..Len(q) : req[q[i]].access # "read"}
<1>0. Len(q) \in Nat
  OBVIOUS
<1>1. \E n \in 0..Len(q) : /\ \A i \in 1..n : req[q[i]].access = "read"
                           /\ n < Len(q) => req[q[n + 1]].access # "read"
  <2>1. CASE T = {}
    BY <1>0, <2>1
  <2>2. CASE T # {}
    <3>0. T \subseteq Nat
      BY <1>0
    <3> HIDE DEF T
    <3>1. PICK x \in T : \A y \in T : x <= y
      BY <2>2, <3>0, Least
    <3> USE DEF T
    <3>2. x - 1 \in 0..Len(q) /\ x \in 1..Len(q) /\ (x - 1) + 1 = x
      BY <1>0, <3>1
    <3>3. \A i \in 1..(x - 1) : i \in 1..Len(q) /\ ~(x <= i)
      BY <1>0, <3>2
    <3>4. \A i \in 1..(x - 1) : req[q[i]].access = "read"
      BY <3>1, <3>3
    <3>5. req[q[(x - 1) + 1]].access # "read"
      BY <3>1, <3>2
    <3> QED
      BY <3>2, <3>4, <3>5
  <2> QED
    BY <2>1, <2>2
<1> QED
  BY <1>1 DEF LeadingReads, ReadsEnd

\* What is left of a queue when its first n are taken.
LEMMA Rest ==
  ASSUME NEW q \in Seq(Ids), NEW n \in 0..Len(q)
  PROVE  LET p == SubSeq(q, n + 1, Len(q)) IN
         /\ p \in Seq(Ids)
         /\ Len(p) = Len(q) - n
         /\ \A i \in 1..Len(p) : i + n \in 1..Len(q) /\ p[i] = q[i + n]
<1> DEFINE p == SubSeq(q, n + 1, Len(q))
<1>0. Len(q) \in Nat /\ n \in Nat
  OBVIOUS
<1>1. p \in Seq(Ids) /\ Len(p) = Len(q) - n
  BY <1>0
<1>2. \A i \in 1..Len(p) : i + n \in 1..Len(q) /\ p[i] = q[i + n]
  BY <1>0, <1>1
<1> QED
  BY <1>1, <1>2

(***************************************************************************)
(* The invariant.                                                          *)
(***************************************************************************)

Q(k) == map[k].requests

\* Queues hold requests; a key that is absent from the map has none.
SeqOK == \A k \in Keys : Q(k) \in Seq(Ids) /\ (map[k].owner = 0 => Q(k) = <<>>)

\* Numbers that have not arrived name no request of a key, and requests
\* without a key are the ones in tasks of their own.
FreshOK == \A r \in Ids : /\ r > last => req[r].key = NoKey
                          /\ req[r].pc = "spawned" => req[r].key = NoKey

\* A queue holds the queued requests of its key, in the order of arrival.
QueuedOK ==
    \A k \in Keys : \A i \in 1..Len(Q(k)) :
        /\ req[Q(k)[i]].key = k
        /\ req[Q(k)[i]].pc = "queued"
        /\ \A j \in 1..Len(Q(k)) : i < j => Q(k)[i] < Q(k)[j]

CompleteOK ==
    \A k \in Keys, r \in Ids :
        req[r].key = k /\ req[r].pc = "queued" => \E i \in 1..Len(Q(k)) : Q(k)[i] = r

\* A task holds requests of its key that came before all that are queued.
BatchOK ==
    \A d \in Ids : \A r \in drain[d].batch :
        /\ r \in Ids
        /\ req[r].key = req[d].key
        /\ req[r].pc \in {"taken", "running"}
        /\ \A i \in 1..Len(Q(req[d].key)) : r < Q(req[d].key)[i]

HeldOK ==
    \A r \in Ids :
        req[r].key \in Keys /\ req[r].pc \in {"taken", "running"}
            => \E d \in Ids : r \in drain[d].batch

\* One exclusive request, or reads.
AccessOK ==
    \A d \in Ids :
        /\ drain[d].pc \in DrainPcs
        /\ drain[d].pc = "exclusive" => \A r, s \in drain[d].batch : r = s
        /\ drain[d].pc \in {"reads", "admit"} =>
               \A r \in drain[d].batch : req[r].access = "read"

PermitOK ==
    /\ permit \in [Ids -> BOOLEAN]
    /\ \A k \in Keys, d \in Ids :
           /\ drain[d].pc = "reads" /\ req[d].key = k
           /\ Len(Q(k)) > 0 /\ req[Q(k)[1]].access = "read"
           => permit[d]

OrderInv ==
    /\ SeqOK /\ FreshOK /\ QueuedOK /\ CompleteOK
    /\ BatchOK /\ HeldOK /\ AccessOK /\ PermitOK

\* A task that holds a request is the one of the request's key.
LEMMA HolderIsOwner ==
  ASSUME DrainInv, OrderInv, NEW d \in Ids, NEW r \in drain[d].batch
  PROVE  /\ drain[d].pc \notin Resting
         /\ req[d].key \in Keys /\ map[req[d].key].owner = d
<1>1. drain[d].pc \notin Resting
  BY DEF DrainInv, TasksOK
<1> QED
  BY <1>1 DEF DrainInv, TasksOK, OwnerOK, Live, Resting

\* No two tasks hold the same request.
LEMMA OneHolder ==
  ASSUME DrainInv, OrderInv, NEW d \in Ids, NEW e \in Ids,
         NEW r \in drain[d].batch, r \in drain[e].batch
  PROVE  d = e
<1>1. req[d].key = req[e].key
  BY DEF OrderInv, BatchOK
<1> QED
  BY <1>1, HolderIsOwner

(***************************************************************************)
(* Arrivals.                                                               *)
(***************************************************************************)

\* A request that arrives, with the next number and key k, goes to the end of
\* the queue of k.
LEMMA ArrivalOrdered ==
  ASSUME DrainInv, OrderInv, NEW k \in Keys, last < MaxRequests,
         last' = last + 1, enqueue(k, last + 1),
         req'[last + 1].key = k, req'[last + 1].pc = "queued",
         \A s \in Ids : s # last + 1 =>
             /\ req'[s].key = req[s].key
             /\ req'[s].pc = req[s].pc
             /\ req'[s].access = req[s].access
  PROVE  OrderInv'
<1> DEFINE r == last + 1
<1>0. /\ r \in Ids /\ last \in Nat
      /\ \A d \in Ids : d \in Nat /\ d # 0 /\ (d # r => (d > r <=> d > last))
  BY NextId, QueuesAssumption DEF DrainInv, RequestsOK, Ids
<1>1. req[r].key = NoKey /\ NoKey \notin Keys
  BY <1>0, QueuesAssumption DEF OrderInv, FreshOK
<1>2. drain[r].pc = "none" /\ drain[r].batch = {}
  BY <1>0 DEF DrainInv, TasksOK, Resting
<1>3. /\ Q(k)' = Append(Q(k), r)
      /\ \A j \in Keys : j # k => Q(j)' = Q(j)
      /\ map'[k].owner # 0
      /\ \A j \in Keys : j # k => map'[j].owner = map[j].owner
  <2>1. CASE PushAndNotify(k, r)
    BY <2>1 DEF PushAndNotify, Q, DrainInv, ShapesOK
  <2>2. CASE InsertAndSpawn(k, r)
    <3>1. Q(k) = <<>>
      BY <2>2 DEF InsertAndSpawn, OrderInv, SeqOK
    <3>2. Append(<<>>, r) = <<r>>
      OBVIOUS
    <3> QED
      BY <1>0, <2>2, <3>1, <3>2 DEF InsertAndSpawn, Q, DrainInv, ShapesOK
  <2> QED
    BY <2>1, <2>2 DEF enqueue
<1>4. /\ Q(k) \in Seq(Ids) /\ Q(k)' \in Seq(Ids) /\ Len(Q(k)) \in Nat
      /\ Len(Q(k)') = Len(Q(k)) + 1
      /\ \A i \in 1..Len(Q(k)) : Q(k)'[i] = Q(k)[i] /\ Q(k)[i] \in Ids
      /\ Q(k)'[Len(Q(k)) + 1] = r
  BY <1>0, <1>3 DEF OrderInv, SeqOK
<1>5. \A s \in Ids : req[s].key \in Keys => s < r /\ s # r
  BY <1>0, <1>1 DEF OrderInv, FreshOK
<1>6. SeqOK'
  BY <1>3, <1>4 DEF OrderInv, SeqOK
<1>7. FreshOK'
  BY <1>0 DEF OrderInv, FreshOK
<1>8. QueuedOK'
  <2> SUFFICES ASSUME NEW j \in Keys, NEW i \in 1..Len(Q(j)')
               PROVE  /\ req'[Q(j)'[i]].key = j
                      /\ req'[Q(j)'[i]].pc = "queued"
                      /\ \A h \in 1..Len(Q(j)') : i < h => Q(j)'[i] < Q(j)'[h]
    BY DEF QueuedOK
  <2>1. CASE j # k
    <3>1. Q(j)' = Q(j) /\ Q(j)[i] \in Ids
      BY <1>3, <2>1 DEF OrderInv, SeqOK
    <3>2. req[Q(j)[i]].key = j /\ req[Q(j)[i]].pc = "queued"
      BY <3>1 DEF OrderInv, QueuedOK
    <3> QED
      BY <1>5, <3>1, <3>2 DEF OrderInv, QueuedOK
  <2>2. CASE j = k /\ i = Len(Q(k)) + 1
    BY <1>4, <2>2
  <2>3. CASE j = k /\ i \in 1..Len(Q(k))
    <3>1. req[Q(k)[i]].key = k /\ req[Q(k)[i]].pc = "queued"
      BY <2>3 DEF OrderInv, QueuedOK
    <3>2. Q(k)[i] \in Ids /\ Q(k)[i] < r /\ Q(k)[i] # r
      BY <1>4, <1>5, <2>3, <3>1
    <3>3. ASSUME NEW h \in 1..Len(Q(k)'), i < h PROVE Q(k)'[i] < Q(k)'[h]
      <4>1. h \in 1..Len(Q(k)) \/ h = Len(Q(k)) + 1
        BY <1>4
      <4> QED
        BY <1>4, <2>3, <3>2, <3>3, <4>1 DEF OrderInv, QueuedOK
    <3> QED
      BY <1>4, <2>3, <3>1, <3>2, <3>3
  <2> QED
    BY <1>4, <2>1, <2>2, <2>3
<1>9. CompleteOK'
  <2> SUFFICES ASSUME NEW j \in Keys, NEW s \in Ids,
                      req'[s].key = j, req'[s].pc = "queued"
               PROVE  \E i \in 1..Len(Q(j)') : Q(j)'[i] = s
    BY DEF CompleteOK
  <2>1. CASE s = r
    BY <1>4, <2>1
  <2>2. CASE s # r
    <3>1. PICK i \in 1..Len(Q(j)) : Q(j)[i] = s
      BY <2>2 DEF OrderInv, CompleteOK
    <3> QED
      BY <1>3, <1>4, <3>1
  <2> QED
    BY <2>1, <2>2
<1>10. /\ \A d \in Ids : drain'[d].batch = drain[d].batch
       /\ \A d \in Ids : d # r => drain'[d].pc = drain[d].pc
       /\ drain'[r].pc \in {"none", "loop"}
  BY <1>0, <1>2 DEF enqueue, PushAndNotify, InsertAndSpawn, DrainInv, ShapesOK
<1>11. \A d \in Ids : \A s \in drain[d].batch :
          /\ s \in Ids /\ s # r /\ d # r /\ s < r
          /\ req[d].key \in Keys /\ req[s].key = req[d].key
  BY <1>2, <1>5, HolderIsOwner DEF OrderInv, BatchOK
<1>12. BatchOK'
  <2> SUFFICES ASSUME NEW d \in Ids, NEW s \in drain[d].batch
               PROVE  /\ s \in Ids
                      /\ req'[s].key = req'[d].key
                      /\ req'[s].pc \in {"taken", "running"}
                      /\ \A i \in 1..Len(Q(req[d].key)') : s < Q(req[d].key)'[i]
    BY <1>10, <1>11 DEF BatchOK
  <2>1. \A i \in 1..Len(Q(req[d].key)) : s < Q(req[d].key)[i]
    BY DEF OrderInv, BatchOK
  <2>2. \A i \in 1..Len(Q(req[d].key)') : s < Q(req[d].key)'[i]
    BY <1>3, <1>4, <1>11, <2>1
  <2> QED
    BY <1>11, <2>2 DEF OrderInv, BatchOK
<1>13. HeldOK'
  BY <1>10 DEF OrderInv, HeldOK
<1>14. AccessOK'
  BY <1>0, <1>2, <1>10, <1>11 DEF OrderInv, AccessOK, DrainPcs
<1>15. PermitOK'
  <2>1. permit' \in [Ids -> BOOLEAN]
    BY DEF enqueue, PushAndNotify, InsertAndSpawn, OrderInv, PermitOK
  <2> SUFFICES ASSUME NEW j \in Keys, NEW d \in Ids,
                      drain'[d].pc = "reads", req'[d].key = j,
                      Len(Q(j)') > 0, req'[Q(j)'[1]].access = "read"
               PROVE  permit'[d]
    BY <2>1 DEF PermitOK
  <2>2. d # r /\ drain[d].pc = "reads" /\ req[d].key = j
    BY <1>10
  <2>3. map[j].owner = d /\ d # 0
    BY <1>0, <2>2 DEF DrainInv, OwnerOK, Live
  <2>4. CASE j = k
    BY <1>0, <2>3, <2>4 DEF enqueue, PushAndNotify, InsertAndSpawn, OrderInv, PermitOK
  <2>5. CASE j # k
    <3>1. Q(j)' = Q(j) /\ Q(j) \in Seq(Ids)
      BY <1>3, <2>5 DEF OrderInv, SeqOK
    <3>2. Q(j)[1] \in Ids /\ 1 \in 1..Len(Q(j))
      BY <3>1
    <3>3. req[Q(j)[1]].key = j
      BY <3>2 DEF OrderInv, QueuedOK
    <3>4. permit[d]
      BY <1>5, <2>2, <3>1, <3>2, <3>3 DEF OrderInv, PermitOK
    <3> QED
      BY <3>4 DEF enqueue, PushAndNotify, InsertAndSpawn, OrderInv, PermitOK
  <2> QED
    BY <2>4, <2>5
<1> QED
  BY <1>6, <1>7, <1>8, <1>9, <1>12, <1>13, <1>14, <1>15 DEF OrderInv

(***************************************************************************)
(* Taking requests.                                                        *)
(***************************************************************************)

\* The first n requests of the queue of task d's key k go to the task: one
\* exclusive request, or reads up to the first request that is none.
LEMMA TakeOrdered ==
  ASSUME DrainInv, OrderInv, NEW d \in Ids, Live(d),
         NEW k \in Keys, req[d].key = k, NEW n \in 0..Len(Q(k)),
         map' = [map EXCEPT ![k].requests = SubSeq(Q(k), n + 1, Len(Q(k)))],
         MarkTaken(Taken(Q(k), n)), last' = last, permit' = permit,
         NEW p,
         drain'[d].pc = p, drain'[d].batch = drain[d].batch \cup Taken(Q(k), n),
         \A e \in Ids : e # d => drain'[e] = drain[e],
         \/ p = "exclusive" /\ n = 1 /\ drain[d].batch = {}
         \/ /\ p = "reads" /\ ReadsEnd(Q(k), n)
            /\ \A r \in drain[d].batch : req[r].access = "read"
  PROVE  OrderInv'
<1> DEFINE T == Taken(Q(k), n)
<1>0. Q(k) \in Seq(Ids) /\ Len(Q(k)) \in Nat /\ n \in Nat
  BY DEF OrderInv, SeqOK
<1>1. /\ Q(k)' = SubSeq(Q(k), n + 1, Len(Q(k)))
      /\ \A j \in Keys : j # k => Q(j)' = Q(j)
      /\ \A j \in Keys : map'[j].owner = map[j].owner
  BY DEF Q, DrainInv, ShapesOK
<1>2. /\ Q(k)' \in Seq(Ids)
      /\ Len(Q(k)') = Len(Q(k)) - n /\ Len(Q(k)') \in Nat
      /\ \A i \in 1..Len(Q(k)') : i + n \in 1..Len(Q(k)) /\ Q(k)'[i] = Q(k)[i + n]
  BY <1>0, <1>1, Rest
<1>3. /\ \A s \in Ids : /\ req'[s].key = req[s].key
                        /\ req'[s].access = req[s].access
                        /\ req'[s].pc = IF s \in T THEN "taken" ELSE req[s].pc
  BY DEF MarkTaken, DrainInv, RequestsOK, Requests
<1>4. /\ drain'[d].pc = p /\ drain'[d].batch = drain[d].batch \cup T
      /\ \A e \in Ids : e # d => drain'[e] = drain[e]
  OBVIOUS
<1>5. ASSUME NEW s PROVE s \in T <=> \E i \in 1..n : Q(k)[i] = s
  BY DEF Taken
<1>6. \A i \in 1..n : i \in 1..Len(Q(k)) /\ Q(k)[i] \in T /\ Q(k)[i] \in Ids
  BY <1>0, <1>5
<1>7. \A s \in T : s \in Ids /\ req[s].key = k /\ req[s].pc = "queued"
  BY <1>5, <1>6 DEF OrderInv, QueuedOK
<1>8. \A s \in T : \A i \in 1..Len(Q(k)') : s < Q(k)'[i]
  <2> SUFFICES ASSUME NEW h \in 1..n, NEW i \in 1..Len(Q(k)')
               PROVE  Q(k)[h] < Q(k)'[i]
    BY <1>5
  <2>1. h \in 1..Len(Q(k)) /\ i + n \in 1..Len(Q(k)) /\ h < i + n
    BY <1>0, <1>2
  <2> QED
    BY <1>2, <2>1 DEF OrderInv, QueuedOK
<1> HIDE DEF T
<1>9. SeqOK'
  <2>1. map[k].owner = 0 => Q(k)' = <<>>
    <3>1. map[k].owner = d /\ d # 0
      BY DEF DrainInv, OwnerOK, Ids
    <3> QED
      BY <3>1
  <2> QED
    BY <1>1, <1>2, <2>1 DEF OrderInv, SeqOK
<1>10. FreshOK'
  BY <1>3, <1>7 DEF OrderInv, FreshOK
<1>11. QueuedOK'
  <2> SUFFICES ASSUME NEW j \in Keys, NEW i \in 1..Len(Q(j)')
               PROVE  /\ req'[Q(j)'[i]].key = j
                      /\ req'[Q(j)'[i]].pc = "queued"
                      /\ \A h \in 1..Len(Q(j)') : i < h => Q(j)'[i] < Q(j)'[h]
    BY DEF QueuedOK
  <2>1. CASE j # k
    <3>1. Q(j)' = Q(j) /\ Q(j)[i] \in Ids
      BY <1>1, <2>1 DEF OrderInv, SeqOK
    <3>2. req[Q(j)[i]].key = j /\ req[Q(j)[i]].pc = "queued"
      BY <3>1 DEF OrderInv, QueuedOK
    <3>3. Q(j)[i] \notin T
      BY <1>7, <2>1, <3>2
    <3> QED
      BY <1>3, <3>1, <3>2, <3>3 DEF OrderInv, QueuedOK
  <2>2. CASE j = k
    <3>1. i + n \in 1..Len(Q(k)) /\ Q(k)'[i] = Q(k)[i + n] /\ Q(k)'[i] \in Ids
      BY <1>0, <1>2, <2>2
    <3>2. Q(k)'[i] \notin T
      BY <1>8, <2>2, <3>1 DEF Ids
    <3>3. req[Q(k)[i + n]].key = k /\ req[Q(k)[i + n]].pc = "queued"
      BY <3>1 DEF OrderInv, QueuedOK
    <3>4. ASSUME NEW h \in 1..Len(Q(k)'), i < h PROVE Q(k)'[i] < Q(k)'[h]
      <4>1. h + n \in 1..Len(Q(k)) /\ i + n < h + n
        BY <1>0, <1>2, <2>2, <3>4
      <4>2. Q(k)'[i] = Q(k)[i + n] /\ Q(k)'[h] = Q(k)[h + n]
        BY <1>2, <3>1, <3>4
      <4>3. Q(k)[i + n] < Q(k)[h + n]
        BY <3>1, <4>1 DEF OrderInv, QueuedOK
      <4> QED
        BY <4>2, <4>3
    <3> QED
      BY <1>3, <2>2, <3>1, <3>2, <3>3, <3>4
  <2> QED
    BY <2>1, <2>2
<1>12. CompleteOK'
  <2> SUFFICES ASSUME NEW j \in Keys, NEW s \in Ids,
                      req'[s].key = j, req'[s].pc = "queued"
               PROVE  \E i \in 1..Len(Q(j)') : Q(j)'[i] = s
    BY DEF CompleteOK
  <2>1. s \notin T /\ req[s].key = j /\ req[s].pc = "queued"
    BY <1>3
  <2>2. PICK i \in 1..Len(Q(j)) : Q(j)[i] = s
    BY <2>1 DEF OrderInv, CompleteOK
  <2>3. CASE j # k
    BY <1>1, <2>2, <2>3
  <2>4. CASE j = k
    <3>1. ~(i \in 1..n)
      BY <1>5, <2>1, <2>2, <2>4
    <3>2. i - n \in 1..Len(Q(k)') /\ (i - n) + n = i
      BY <1>0, <1>2, <2>4, <3>1
    <3> QED
      BY <1>2, <2>2, <2>4, <3>2
  <2> QED
    BY <2>3, <2>4
<1>13. BatchOK'
  <2> SUFFICES ASSUME NEW e \in Ids, NEW s \in drain'[e].batch,
                      NEW j, req[e].key = j
               PROVE  /\ s \in Ids
                      /\ req'[s].key = j
                      /\ req'[s].pc \in {"taken", "running"}
                      /\ \A i \in 1..Len(Q(j)') : s < Q(j)'[i]
    BY <1>3 DEF BatchOK, Q
  <2>1. CASE s \in drain[e].batch
    <3>1. /\ s \in Ids /\ req[s].key = j
          /\ req[s].pc \in {"taken", "running"} /\ j \in Keys
          /\ \A i \in 1..Len(Q(j)) : s < Q(j)[i]
      BY <2>1, HolderIsOwner DEF OrderInv, BatchOK
    <3>2. ASSUME NEW i \in 1..Len(Q(j)') PROVE s < Q(j)'[i]
      <4>1. CASE j = k
        BY <1>2, <3>1, <4>1
      <4>2. CASE j # k
        BY <1>1, <3>1, <4>2
      <4> QED
        BY <4>1, <4>2
    <3>3. s \notin T
      BY <1>7, <3>1
    <3> QED
      BY <1>3, <3>1, <3>2, <3>3
  <2>2. CASE s \notin drain[e].batch
    <3>1. e = d /\ s \in T
      BY <1>4, <2>2
    <3> QED
      BY <1>3, <1>7, <1>8, <3>1
  <2> QED
    BY <2>1, <2>2
<1>14. HeldOK'
  BY <1>3, <1>4 DEF OrderInv, HeldOK
<1>15. AccessOK'
  <2>1. \A e \in Ids : drain'[e].pc \in DrainPcs
    BY <1>4 DEF OrderInv, AccessOK, DrainPcs
  <2>2. \A e \in Ids : e # d => \A r \in drain[e].batch : r \in Ids
    BY DEF OrderInv, BatchOK
  <2>3. p = "exclusive" => \A r, s \in drain'[d].batch : r = s
    BY <1>4, <1>5
  <2>4. p = "reads" => \A r \in drain'[d].batch : req[r].access = "read" /\ r \in Ids
    BY <1>4, <1>5, <1>6 DEF ReadsEnd, OrderInv, BatchOK
  <2> QED
    BY <1>3, <1>4, <2>1, <2>2, <2>3, <2>4 DEF OrderInv, AccessOK
<1>16. PermitOK'
  <2>1. permit' \in [Ids -> BOOLEAN]
    BY DEF OrderInv, PermitOK
  <2> SUFFICES ASSUME NEW j \in Keys, NEW e \in Ids,
                      drain'[e].pc = "reads", req'[e].key = j,
                      Len(Q(j)') > 0, req'[Q(j)'[1]].access = "read"
               PROVE  permit'[e]
    BY <2>1 DEF PermitOK
  <2>2. CASE e = d
    <3>1. j = k /\ ReadsEnd(Q(k), n)
      BY <1>3, <1>4, <2>2
    <3>2. n < Len(Q(k)) /\ Q(k)'[1] = Q(k)[n + 1] /\ Q(k)'[1] \in Ids
      BY <1>0, <1>2, <3>1
    <3> QED
      BY <1>3, <3>1, <3>2 DEF ReadsEnd
  <2>3. CASE e # d
    <3>1. drain[e].pc = "reads" /\ req[e].key = j
      BY <1>3, <1>4, <2>3
    <3>2. j # k
      BY <2>3, <3>1 DEF DrainInv, OwnerOK, Live
    <3>3. Q(j)' = Q(j) /\ Q(j) \in Seq(Ids)
      BY <1>1, <3>2 DEF OrderInv, SeqOK
    <3>4. Q(j)[1] \in Ids
      BY <3>3
    <3> QED
      BY <1>3, <3>1, <3>3, <3>4 DEF OrderInv, PermitOK
  <2> QED
    BY <2>2, <2>3
<1> QED
  BY <1>9, <1>10, <1>11, <1>12, <1>13, <1>14, <1>15, <1>16 DEF OrderInv

(***************************************************************************)
(* Everything else: no queue changes what it holds.                        *)
(***************************************************************************)

\* Requests of a key move on or end; tasks lose the ones that end.
Moves ==
    /\ last' \in {last, last + 1}
    /\ \A s \in Ids :
           /\ req'[s].key = req[s].key
           /\ req'[s].pc = "spawned" => req[s].key = NoKey
           /\ req[s].key \in Keys =>
                  /\ req'[s].access = req[s].access
                  /\ req'[s].pc = "queued" <=> req[s].pc = "queued"
                  /\ req'[s].pc \in {"taken", "running"}
                         => \E d \in Ids : s \in drain'[d].batch
    /\ \A d \in Ids :
           /\ drain'[d].batch \subseteq drain[d].batch
           /\ \A s \in drain'[d].batch : req'[s].pc \in {"taken", "running"}
           /\ \/ drain'[d].pc \in {drain[d].pc, "loop", "ended", "panicked"}
              \/ drain[d].pc = "reads" /\ drain'[d].pc = "admit"
           /\ drain'[d].pc = "reads" => permit'[d] = permit[d]
    /\ permit' \in [Ids -> BOOLEAN]
    /\ \A k \in Keys :
           /\ Q(k)' = Q(k)
           /\ map'[k].owner = 0 => Q(k) = <<>>

\* Such a step keeps the invariant.
LEMMA MovesKeep == ASSUME DrainInv, OrderInv, Moves PROVE OrderInv'
<1>1. /\ \A s \in Ids : req'[s].key = req[s].key
      /\ \A k \in Keys : Q(k)' = Q(k)
      /\ \A s \in Ids : req[s].key \in Keys => req'[s].access = req[s].access
      /\ \A d \in Ids : drain'[d].batch \subseteq drain[d].batch
  BY DEF Moves
<1>2. \A k \in Keys : \A i \in 1..Len(Q(k)) : Q(k)[i] \in Ids /\ req[Q(k)[i]].key = k
  BY DEF OrderInv, SeqOK, QueuedOK
<1>3. \A d \in Ids : \A s \in drain[d].batch :
          s \in Ids /\ req[d].key \in Keys /\ req[s].key = req[d].key
  BY HolderIsOwner DEF OrderInv, BatchOK
<1>4. SeqOK'
  BY DEF Moves, OrderInv, SeqOK
<1>5. FreshOK'
  <2>1. \A r \in Ids : r > last' => r > last
    BY DEF Moves, DrainInv, RequestsOK, Ids
  <2> QED
    BY <2>1 DEF Moves, OrderInv, FreshOK
<1>6. QueuedOK'
  BY <1>1, <1>2 DEF Moves, OrderInv, QueuedOK
<1>7. CompleteOK'
  BY <1>1 DEF Moves, OrderInv, CompleteOK
<1>8. BatchOK'
  <2> SUFFICES ASSUME NEW d \in Ids, NEW s \in drain'[d].batch, NEW k, req[d].key = k
               PROVE  /\ s \in Ids
                      /\ req'[s].key = k
                      /\ req'[s].pc \in {"taken", "running"}
                      /\ \A i \in 1..Len(Q(k)') : s < Q(k)'[i]
    BY <1>1 DEF BatchOK, Q
  <2>1. s \in drain[d].batch /\ k \in Keys /\ s \in Ids /\ req[s].key = k
    BY <1>1, <1>3
  <2>2. \A i \in 1..Len(Q(k)) : s < Q(k)[i]
    BY <2>1 DEF OrderInv, BatchOK
  <2> QED
    BY <1>1, <2>1, <2>2 DEF Moves
<1>9. HeldOK'
  BY DEF Moves, HeldOK
<1>10. AccessOK'
  <2>1. \A d \in Ids : drain'[d].pc \in DrainPcs
    BY DEF Moves, OrderInv, AccessOK, DrainPcs
  <2>2. \A d \in Ids : drain'[d].pc = "exclusive" => drain[d].pc = "exclusive"
    BY DEF Moves
  <2>3. \A d \in Ids : drain'[d].pc \in {"reads", "admit"} => drain[d].pc \in {"reads", "admit"}
    BY DEF Moves
  <2> QED
    BY <1>1, <1>3, <2>1, <2>2, <2>3 DEF OrderInv, AccessOK
<1>11. PermitOK'
  <2> SUFFICES ASSUME NEW k \in Keys, NEW d \in Ids,
                      drain'[d].pc = "reads", req'[d].key = k,
                      Len(Q(k)') > 0, req'[Q(k)'[1]].access = "read"
               PROVE  permit'[d]
    BY DEF PermitOK, Moves
  <2>1. drain[d].pc = "reads" /\ permit'[d] = permit[d] /\ req[d].key = k
    BY DEF Moves
  <2>2. Q(k) \in Seq(Ids) /\ Q(k)' = Q(k)
    BY <1>1 DEF OrderInv, SeqOK
  <2>3. Q(k)[1] \in Ids /\ req[Q(k)[1]].key = k
    BY <1>2, <2>2
  <2> QED
    BY <1>1, <2>1, <2>2, <2>3 DEF OrderInv, PermitOK
<1> QED
  BY <1>4, <1>5, <1>6, <1>7, <1>8, <1>9, <1>10, <1>11 DEF OrderInv

\* Requests S, held by tasks or without a key, end; tasks drop them.
LEMMA LeavingMoves ==
  ASSUME DrainInv, OrderInv, NEW S, UNCHANGED <<last, map, permit>>,
         \A s \in Ids : /\ req'[s].key = req[s].key
                        /\ req'[s].access = req[s].access
                        /\ s \notin S => req'[s].pc = req[s].pc
                        /\ s \in S => req[s].pc # "queued" /\ req'[s].pc \in Ended,
         \A d \in Ids : /\ drain'[d].batch = drain[d].batch \ S
                        /\ drain'[d].pc \in {drain[d].pc, "loop", "panicked"}
  PROVE  Moves
<1>1. \A k \in Keys : Q(k)' = Q(k) /\ (map[k].owner = 0 => Q(k) = <<>>)
  BY DEF Q, OrderInv, SeqOK
<1>2. ASSUME NEW s \in Ids
      PROVE  /\ req'[s].pc = "spawned" => req[s].key = NoKey
             /\ req[s].key \in Keys =>
                  /\ req'[s].pc = "queued" <=> req[s].pc = "queued"
                  /\ req'[s].pc \in {"taken", "running"}
                         => \E d \in Ids : s \in drain'[d].batch
  BY DEF OrderInv, FreshOK, HeldOK, Ended
<1>3. ASSUME NEW d \in Ids, NEW s \in drain'[d].batch
      PROVE  req'[s].pc \in {"taken", "running"}
  BY DEF OrderInv, BatchOK
<1>4. permit' \in [Ids -> BOOLEAN]
  BY DEF OrderInv, PermitOK
<1> QED
  BY <1>1, <1>2, <1>3, <1>4 DEF Moves

(***************************************************************************)
(* The steps.                                                              *)
(***************************************************************************)

\* Passing the gate.
LEMMA PassGateMoves ==
  ASSUME DrainInv, OrderInv, NEW r \in Ids, PassGate(r) PROVE Moves
<1>1. /\ \A s \in Ids : req'[s].key = req[s].key /\ req'[s].access = req[s].access
      /\ req'[r].pc = "running"
      /\ \A s \in Ids : s # r => req'[s].pc = req[s].pc
  BY DEF PassGate, DrainInv, RequestsOK, Requests
<1>2. UNCHANGED <<last, map, permit, drain>>
  BY DEF PassGate
<1>3. req[r].key \in Keys => req[r].pc = "taken" /\ \E d \in Ids : r \in drain[d].batch
  BY QueuesAssumption DEF PassGate, CanRun, PolledBy, OrderInv, FreshOK
<1>4. \A k \in Keys : Q(k)' = Q(k) /\ (map[k].owner = 0 => Q(k) = <<>>)
  BY <1>2 DEF Q, OrderInv, SeqOK
<1>5. ASSUME NEW s \in Ids
      PROVE  /\ req'[s].pc = "spawned" => req[s].key = NoKey
             /\ req[s].key \in Keys =>
                  /\ req'[s].pc = "queued" <=> req[s].pc = "queued"
                  /\ req'[s].pc \in {"taken", "running"}
                         => \E d \in Ids : s \in drain'[d].batch
  BY <1>1, <1>2, <1>3 DEF OrderInv, FreshOK, HeldOK
<1>6. ASSUME NEW d \in Ids, NEW s \in drain'[d].batch
      PROVE  req'[s].pc \in {"taken", "running"}
  BY <1>1, <1>2 DEF OrderInv, BatchOK
<1>7. permit' \in [Ids -> BOOLEAN]
  BY <1>2 DEF OrderInv, PermitOK
<1> QED
  BY <1>1, <1>2, <1>4, <1>5, <1>6, <1>7 DEF Moves

\* A request that returns, or is stopped at the gate.
LEMMA ReturnMoves ==
  ASSUME DrainInv, OrderInv, NEW r \in Ids, StoppedAtGate(r) \/ Finish(r)
  PROVE  Moves
<1>1. /\ \A s \in Ids : req'[s].key = req[s].key /\ req'[s].access = req[s].access
      /\ req'[r].pc \in Ended
      /\ \A s \in Ids : s # r => req'[s].pc = req[s].pc
  BY DEF StoppedAtGate, Finish, Ended, DrainInv, RequestsOK, Requests
<1>2. UNCHANGED <<last, map, permit>> /\ req[r].pc # "queued"
  BY DEF StoppedAtGate, Finish, CanRun
<1>3. Returned(r)
  BY DEF StoppedAtGate, Finish
<1>4. \A d \in Ids : /\ drain'[d].batch = drain[d].batch \ {r}
                     /\ drain'[d].pc \in {drain[d].pc, "loop", "panicked"}
  BY <1>3 DEF Returned
<1> QED
  BY <1>1, <1>2, <1>4, LeavingMoves

\* The requests that a panic of r drops.
Dropped(r) == {r} \cup UNION {drain[d].batch : d \in {e \in Ids : r \in drain[e].batch}}

\* They are what the task of r holds.
LEMMA DroppedAre ==
  ASSUME DrainInv, OrderInv, NEW r \in Ids, Panic(r)
  PROVE  /\ \A s \in Ids : /\ req'[s].key = req[s].key
                           /\ req'[s].access = req[s].access
                           /\ s \notin Dropped(r) => req'[s].pc = req[s].pc
                           /\ s \in Dropped(r) =>
                                  /\ req[s].pc # "queued" /\ req'[s].pc \in Ended
                                  /\ req[s].key = req[r].key
         /\ \A d \in Ids : /\ drain'[d].batch = drain[d].batch \ Dropped(r)
                           /\ drain'[d].pc \in {drain[d].pc, "loop", "panicked"}
<1> DEFINE S == Dropped(r)
<1>1. /\ req' = [s \in Ids |-> IF s \in S THEN [req[s] EXCEPT !.pc = "lost"] ELSE req[s]]
      /\ drain' = [d \in Ids |-> IF r \in drain[d].batch
                                 THEN [pc |-> "panicked", batch |-> {}]
                                 ELSE drain[d]]
      /\ req[r].pc = "running"
  BY DEF Panic, Dropped
<1>2. ASSUME NEW s, s \in S
      PROVE  s = r \/ \E e \in Ids : r \in drain[e].batch /\ s \in drain[e].batch
  BY <1>2 DEF Dropped
<1>3. ASSUME NEW s \in Ids, s \in S PROVE req[s].pc # "queued" /\ req[s].key = req[r].key
  BY <1>1, <1>2, <1>3 DEF OrderInv, BatchOK
<1>4. r \in S /\ \A d \in Ids : r \in drain[d].batch => drain[d].batch \subseteq S
  BY DEF Dropped
<1>5. ASSUME NEW d \in Ids, NEW s \in drain[d].batch, s \in S PROVE r \in drain[d].batch
  BY <1>2, <1>5, OneHolder
<1> HIDE DEF S
<1>6. ASSUME NEW d \in Ids
      PROVE  /\ drain'[d].batch = drain[d].batch \ S
             /\ drain'[d].pc \in {drain[d].pc, "loop", "panicked"}
  <2>1. CASE r \in drain[d].batch
    BY <1>1, <1>4, <2>1
  <2>2. CASE r \notin drain[d].batch
    BY <1>1, <1>5, <2>2
  <2> QED
    BY <2>1, <2>2
<1>7. ASSUME NEW s \in Ids
      PROVE  /\ req'[s].key = req[s].key /\ req'[s].access = req[s].access
             /\ s \notin S => req'[s].pc = req[s].pc
             /\ s \in S => req'[s].pc \in Ended
  BY <1>1 DEF DrainInv, RequestsOK, Requests, Ended
<1> QED
  BY <1>3, <1>6, <1>7 DEF S

\* Every step keeps the invariant.
LEMMA OrderInvKept == DrainInv /\ OrderInv /\ [Next]_vars => OrderInv'
<1> SUFFICES ASSUME DrainInv, OrderInv, [Next]_vars PROVE OrderInv'
  OBVIOUS
<1> USE DEF DrainInv, RequestsOK
<1>1. ASSUME NEW c \in Conns, NEW k \in Keys, NEW a \in Accesses, Receive(c, k, a)
      PROVE  OrderInv'
  BY <1>1, NextId, ArrivalOrdered DEF Receive, Request
<1>2. ASSUME NEW c \in Conns, ReceiveUnserialized(c) PROVE OrderInv'
  <2>1. /\ last + 1 \in Ids /\ req[last + 1].key = NoKey /\ last' = last + 1
        /\ UNCHANGED <<map, permit, drain>>
    BY <1>2, NextId DEF ReceiveUnserialized, OrderInv, FreshOK, Ids
  <2>2. /\ req'[last + 1].key = NoKey
        /\ \A s \in Ids : s # last + 1 => req'[s] = req[s]
    BY <1>2, <2>1 DEF ReceiveUnserialized, Request
  <2>3. \A d \in Ids : \A s \in drain[d].batch : s \in Ids /\ s # last + 1
    BY <2>1, HolderIsOwner, QueuesAssumption DEF OrderInv, BatchOK
  <2>4. \A k \in Keys : Q(k)' = Q(k) /\ (map[k].owner = 0 => Q(k) = <<>>)
    BY <2>1 DEF Q, OrderInv, SeqOK
  <2>5. ASSUME NEW s \in Ids
        PROVE  /\ req'[s].key = req[s].key
               /\ req'[s].pc = "spawned" => req[s].key = NoKey
               /\ req[s].key \in Keys => s # last + 1
    BY <2>1, <2>2, QueuesAssumption DEF OrderInv, FreshOK
  <2>6. Moves
    BY <2>1, <2>2, <2>3, <2>4, <2>5
       DEF Moves, OrderInv, HeldOK, BatchOK, PermitOK
  <2> QED
    BY <2>6, MovesKeep
<1>3. ASSUME UNCHANGED <<req, last, map, permit, drain>> PROVE OrderInv'
  <2>1. Moves
    BY <1>3 DEF Moves, Q, OrderInv, SeqOK, FreshOK, HeldOK, BatchOK, PermitOK
  <2> QED
    BY <2>1, MovesKeep
<1>4. CASE EffectivePluginsChange
  BY <1>4, NextId, ArrivalOrdered, QueuesAssumption DEF EffectivePluginsChange, Request
<1>5. ASSUME NEW r \in Ids, PluginReconcile(r) PROVE OrderInv'
  <2>1. last + 1 \in Ids /\ last < MaxRequests
    BY <1>5, NextId DEF PluginReconcile
  <2>2. req'[last + 1].key = ConfigKey /\ req'[last + 1].pc = "queued"
    <3>1. CASE r = last + 1
      BY <1>5, <2>1, <3>1 DEF PluginReconcile, Request, Requests
    <3>2. CASE r # last + 1
      BY <1>5, <2>1, <3>2 DEF PluginReconcile, Request, Requests
    <3> QED
      BY <3>1, <3>2
  <2>3. \A s \in Ids : s # last + 1 => /\ req'[s].key = req[s].key
                                       /\ req'[s].pc = req[s].pc
                                       /\ req'[s].access = req[s].access
    BY <1>5, <2>1 DEF PluginReconcile, Requests
  <2> QED
    BY <1>5, <2>1, <2>2, <2>3, ArrivalOrdered, QueuesAssumption DEF PluginReconcile
<1>6. ASSUME NEW r \in Ids, PassGate(r) \/ StoppedAtGate(r) \/ Finish(r) PROVE OrderInv'
  BY <1>6, PassGateMoves, ReturnMoves, MovesKeep
<1>7. ASSUME NEW r \in Ids, Panic(r) PROVE OrderInv'
  <2>1. Moves
    <3>1. UNCHANGED <<last, map, permit>>
      BY <1>7 DEF Panic
    <3>2. PICK S : S = Dropped(r)
      OBVIOUS
    <3> QED
      BY <1>7, <3>1, <3>2, DroppedAre, LeavingMoves
  <2> QED
    BY <2>1, MovesKeep
<1>8. ASSUME NEW d \in Ids, DrainStep(d) PROVE OrderInv'
  <2>1. PICK k \in Keys : req[d].key = k
    BY <1>8 DEF DrainStep, TakeBatch, RemoveQueue, Notified, AdmitReads, TasksOK
  <2>2. Q(k) \in Seq(Ids) /\ map[k].requests = Q(k)
    BY DEF OrderInv, SeqOK, Q
  <2>3. CASE TakeBatch(d)
    <3>0. /\ drain[d].pc = "loop" /\ drain[d].batch = {} /\ Q(k) # <<>>
          /\ Live(d)
      BY <2>1, <2>2, <2>3 DEF TakeBatch, KeyOf, TasksOK, Resting, Live
    <3>1. PICK n : n = BatchLength(Q(k))
      OBVIOUS
    <3>2. PICK p : p = IF req[Head(Q(k))].access = "read" THEN "reads" ELSE "exclusive"
      OBVIOUS
    <3>3. n \in 0..Len(Q(k)) /\ (p = "exclusive" => n = 1)
          /\ (p = "reads" => ReadsEnd(Q(k), n)) /\ p \in {"reads", "exclusive"}
      BY <2>2, <3>0, <3>1, <3>2, LeadingReadsEnd DEF BatchLength, ReadsEnd
    <3>4. /\ map' = [map EXCEPT ![k].requests = SubSeq(Q(k), n + 1, Len(Q(k)))]
          /\ MarkTaken(Taken(Q(k), n)) /\ last' = last /\ permit' = permit
      BY <2>1, <2>2, <2>3, <3>1 DEF TakeBatch, KeyOf
    <3>5. /\ drain'[d].pc = p /\ drain'[d].batch = drain[d].batch \cup Taken(Q(k), n)
          /\ \A e \in Ids : e # d => drain'[e] = drain[e]
      BY <2>1, <2>2, <2>3, <3>0, <3>1, <3>2 DEF TakeBatch, KeyOf, ShapesOK
    <3> QED
      BY <2>1, <3>0, <3>3, <3>4, <3>5, TakeOrdered
  <2>4. CASE AdmitReads(d)
    <3>0. drain[d].pc = "admit" /\ Live(d)
      BY <2>4 DEF AdmitReads, Live
    <3>1. PICK n : n = LeadingReads(Q(k))
      OBVIOUS
    <3>2. ReadsEnd(Q(k), n) /\ n \in 0..Len(Q(k))
      BY <2>2, <3>1, LeadingReadsEnd DEF ReadsEnd
    <3>3. /\ map' = [map EXCEPT ![k].requests = SubSeq(Q(k), n + 1, Len(Q(k)))]
          /\ MarkTaken(Taken(Q(k), n)) /\ last' = last /\ permit' = permit
      BY <2>1, <2>2, <2>4, <3>1 DEF AdmitReads, KeyOf
    <3>4. /\ drain'[d].pc = "reads" /\ drain'[d].batch = drain[d].batch \cup Taken(Q(k), n)
          /\ \A e \in Ids : e # d => drain'[e] = drain[e]
      BY <2>1, <2>2, <2>4, <3>1 DEF AdmitReads, KeyOf, ShapesOK
    <3>5. \A r \in drain[d].batch : req[r].access = "read"
      BY <3>0 DEF OrderInv, AccessOK
    <3> QED
      BY <2>1, <3>0, <3>2, <3>3, <3>4, <3>5, TakeOrdered
  <2>5. CASE RemoveQueue(d)
    <3>1. Moves
      <4>1. drain[d].pc = "loop" /\ drain[d].batch = {} /\ Q(k) = <<>>
        BY <2>1, <2>2, <2>5 DEF RemoveQueue, KeyOf, TasksOK, Resting
      <4>2. \A j \in Keys : Q(j)' = Q(j) /\ (map'[j].owner = 0 => Q(j) = <<>>)
        BY <2>1, <2>5, <4>1 DEF RemoveQueue, KeyOf, Absent, Q, ShapesOK, OrderInv, SeqOK
      <4>3. \A e \in Ids : /\ drain'[e].batch = drain[e].batch
                           /\ drain'[e].pc \in {drain[e].pc, "ended"}
                           /\ drain'[e].pc = "reads" => permit'[e] = permit[e]
        BY <2>5 DEF RemoveQueue, ShapesOK, OrderInv, PermitOK
      <4>4. permit' \in [Ids -> BOOLEAN] /\ req' = req /\ last' = last
        BY <2>5 DEF RemoveQueue, OrderInv, PermitOK
      <4> QED
        BY <4>2, <4>3, <4>4 DEF Moves, OrderInv, FreshOK, HeldOK, BatchOK
    <3> QED
      BY <3>1, MovesKeep
  <2>6. CASE Notified(d)
    <3>1. Moves
      <4>1. \A j \in Keys : Q(j)' = Q(j) /\ (map'[j].owner = 0 => Q(j) = <<>>)
        BY <2>6 DEF Notified, Q, OrderInv, SeqOK
      <4>2. \A e \in Ids : /\ drain'[e].batch = drain[e].batch
                           /\ \/ drain'[e].pc = drain[e].pc
                              \/ drain[e].pc = "reads" /\ drain'[e].pc = "admit"
                           /\ drain'[e].pc = "reads" => permit'[e] = permit[e]
        BY <2>6 DEF Notified, ShapesOK, OrderInv, PermitOK
      <4>3. permit' \in [Ids -> BOOLEAN] /\ req' = req /\ last' = last
        BY <2>6 DEF Notified, OrderInv, PermitOK
      <4> QED
        BY <4>1, <4>2, <4>3 DEF Moves, OrderInv, FreshOK, HeldOK, BatchOK
    <3> QED
      BY <3>1, MovesKeep
  <2> QED
    BY <1>8, <2>3, <2>4, <2>5, <2>6 DEF DrainStep
<1>9. ASSUME NEW c \in Conns, Close(c) \/ Shutdown(c) \/ DrainTimeout(c)
      PROVE  OrderInv'
  BY <1>3, <1>9 DEF Close, Shutdown, DrainTimeout
<1>10. CASE UNCHANGED vars
  BY <1>3, <1>10 DEF vars
<1> QED
  BY <1>1, <1>2, <1>4, <1>5, <1>6, <1>7, <1>8, <1>9, <1>10 DEF Next, RunStep

\* It holds initially.
LEMMA OrderInvInit == Init => OrderInv
<1> SUFFICES ASSUME Init PROVE OrderInv
  OBVIOUS
<1>1. \A k \in Keys : Q(k) = <<>> /\ map[k].owner = 0
  BY DEF Init, Absent, Q
<1>2. \A r \in Ids : /\ req[r].key = NoKey /\ req[r].pc = "free"
                     /\ drain[r].pc = "none" /\ drain[r].batch = {}
  BY DEF Init, Free, Idle
<1>3. SeqOK /\ FreshOK /\ QueuedOK /\ CompleteOK
  <2>1. <<>> \in Seq(Ids) /\ Len(<<>>) = 0 /\ 1..0 = {}
    OBVIOUS
  <2>2. SeqOK
    BY <1>1, <2>1 DEF SeqOK
  <2>3. QueuedOK
    BY <1>1, <2>1 DEF QueuedOK
  <2> QED
    BY <1>2, <2>2, <2>3 DEF FreshOK, CompleteOK
<1>4. BatchOK /\ HeldOK /\ AccessOK /\ PermitOK
  BY <1>2 DEF BatchOK, HeldOK, AccessOK, PermitOK, DrainPcs, Init
<1> QED
  BY <1>3, <1>4 DEF OrderInv

\* The tasks are records of a state and a set of requests.
TasksTyped == drain \in [Ids -> [pc : DrainPcs, batch : SUBSET Ids]]

\* Every step keeps them so.
LEMMA TasksStayTyped == DrainInv /\ OrderInv /\ TasksTyped /\ [Next]_vars => TasksTyped'
<1> SUFFICES ASSUME DrainInv, OrderInv, TasksTyped, [Next]_vars PROVE TasksTyped'
  OBVIOUS
<1>1. ASSUME NEW k, NEW r \in Ids, enqueue(k, r) PROVE TasksTyped'
  BY <1>1 DEF enqueue, PushAndNotify, InsertAndSpawn, TasksTyped, DrainPcs
<1>2. ASSUME NEW r \in Ids, Returned(r) PROVE TasksTyped'
  BY <1>2 DEF Returned, TasksTyped, DrainPcs
<1>3. ASSUME drain' = drain PROVE TasksTyped'
  BY <1>3 DEF TasksTyped
<1>4. ASSUME NEW r \in Ids, Panic(r) PROVE TasksTyped'
  BY <1>4 DEF Panic, TasksTyped, DrainPcs
<1>5. ASSUME NEW d \in Ids, DrainStep(d) PROVE TasksTyped'
  <2>1. PICK k \in Keys : req[d].key = k
    BY <1>5 DEF DrainStep, TakeBatch, RemoveQueue, Notified, AdmitReads, DrainInv, TasksOK
  <2>2. Q(k) \in Seq(Ids) /\ map[k].requests = Q(k)
    BY DEF OrderInv, SeqOK, Q
  <2>3. \A n \in 0..Len(Q(k)) : Taken(Q(k), n) \in SUBSET Ids
    BY <2>2 DEF Taken
  <2>4. LeadingReads(Q(k)) \in 0..Len(Q(k))
    BY <2>2, LeadingReadsEnd DEF ReadsEnd
  <2>5. CASE TakeBatch(d)
    <3>1. BatchLength(Q(k)) \in 0..Len(Q(k))
      BY <2>1, <2>2, <2>4, <2>5 DEF TakeBatch, BatchLength, KeyOf
    <3>2. Taken(Q(k), BatchLength(Q(k))) \in SUBSET Ids
      BY <2>3, <3>1
    <3>3. PICK p \in DrainPcs :
             drain' = [drain EXCEPT ![d] =
                           [pc |-> p, batch |-> Taken(Q(k), BatchLength(Q(k)))]]
      BY <2>1, <2>2, <2>5 DEF TakeBatch, KeyOf, DrainPcs
    <3> QED
      BY <3>2, <3>3 DEF TasksTyped
  <2>6. CASE AdmitReads(d)
    <3>1. Taken(Q(k), LeadingReads(Q(k))) \in SUBSET Ids
      BY <2>3, <2>4
    <3>2. PICK T \in SUBSET Ids :
             drain' = [drain EXCEPT ![d].pc = "reads", ![d].batch = @ \cup T]
      BY <2>1, <2>2, <2>6, <3>1 DEF AdmitReads, KeyOf
    <3>3. PICK U \in SUBSET Ids :
             drain' = [drain EXCEPT ![d].pc = "reads", ![d].batch = U]
      BY <3>2 DEF TasksTyped
    <3> DEFINE R == [pc : DrainPcs, batch : SUBSET Ids]
    <3>4. drain'[d] = [drain[d] EXCEPT !.pc = "reads", !.batch = U]
      BY <3>3 DEF TasksTyped
    <3>5. drain[d] \in R /\ "reads" \in DrainPcs
      BY DEF TasksTyped, DrainPcs
    <3>6. drain'[d] \in R
      BY <3>4, <3>5
    <3>7. drain' = [e \in Ids |-> drain'[e]] /\ \A e \in Ids : e # d => drain'[e] = drain[e]
      BY <3>3 DEF TasksTyped
    <3> QED
      BY <3>6, <3>7 DEF TasksTyped
  <2>7. CASE RemoveQueue(d) \/ Notified(d)
    BY <2>7 DEF RemoveQueue, Notified, TasksTyped, DrainPcs
  <2> QED
    BY <1>5, <2>5, <2>6, <2>7 DEF DrainStep
<1>6. last < MaxRequests => last + 1 \in Ids
  BY NextId DEF DrainInv
<1>7. CASE \E c \in Conns, k \in Keys, a \in Accesses : Receive(c, k, a)
  BY <1>1, <1>6, <1>7 DEF Receive
<1>8. CASE EffectivePluginsChange \/ \E r \in Ids : PluginReconcile(r)
  BY <1>1, <1>6, <1>8 DEF EffectivePluginsChange, PluginReconcile
<1>9. CASE \E c \in Conns : \/ ReceiveUnserialized(c)
                            \/ Close(c) \/ Shutdown(c) \/ DrainTimeout(c)
  BY <1>3, <1>9 DEF ReceiveUnserialized, Close, Shutdown, DrainTimeout
<1>10. ASSUME NEW r \in Ids, RunStep(r) PROVE TasksTyped'
  BY <1>2, <1>3, <1>10 DEF RunStep, PassGate, StoppedAtGate, Finish
<1>11. CASE UNCHANGED vars
  BY <1>3, <1>11 DEF vars
<1> QED
  BY <1>4, <1>5, <1>7, <1>8, <1>9, <1>10, <1>11 DEF Next

\* What the invariants say together.
LEMMA InvImpliesQueueInv == DrainInv /\ OrderInv /\ TasksTyped => QueueInv
<1> SUFFICES ASSUME DrainInv, OrderInv, TasksTyped PROVE QueueInv
  OBVIOUS
<1>1. TypeOK
  <2>1. \A k \in Keys : map[k].owner \in 0..MaxRequests
    BY QueuesAssumption DEF DrainInv, OwnerOK, Ids
  <2> QED
    BY <2>1 DEF TypeOK, DrainInv, RequestsOK, Requests, ShapesOK, TasksTyped,
                OrderInv, SeqOK, PermitOK, Q
<1>2. OneDrainPerQueue
  BY DrainInvOneDrain
<1>3. EachRequestHeldOnce
  <2>1. ASSUME NEW k \in Keys, NEW q, q = map[k].requests
        PROVE  /\ {q[i] : i \in DOMAIN q}
                      = {r \in Ids : req[r].key = k /\ req[r].pc = "queued"}
               /\ \A i, j \in DOMAIN q : i < j => q[i] < q[j]
    <3>1. q = Q(k) /\ q \in Seq(Ids) /\ DOMAIN q = 1..Len(q)
      BY <2>1 DEF OrderInv, SeqOK, Q
    <3>2. \A i \in DOMAIN q : q[i] \in Ids /\ req[q[i]].key = k /\ req[q[i]].pc = "queued"
      BY <3>1 DEF OrderInv, QueuedOK
    <3>3. \A r \in Ids : req[r].key = k /\ req[r].pc = "queued"
                             => \E i \in DOMAIN q : q[i] = r
      BY <3>1 DEF OrderInv, CompleteOK
    <3>4. \A i, j \in DOMAIN q : i < j => q[i] < q[j]
      BY <3>1 DEF OrderInv, QueuedOK
    <3> QED
      BY <3>2, <3>3, <3>4
  <2>2. ASSUME NEW r \in Ids
        PROVE  (req[r].key # NoKey /\ req[r].pc \in {"taken", "running"})
                   <=> Cardinality({d \in Ids : r \in drain[d].batch}) = 1
    <3>1. ASSUME req[r].key # NoKey, req[r].pc \in {"taken", "running"}
          PROVE  Cardinality({d \in Ids : r \in drain[d].batch}) = 1
      <4>1. req[r].key \in Keys
        BY <3>1 DEF DrainInv, RequestsOK, Requests
      <4>2. PICK d \in Ids : r \in drain[d].batch
        BY <3>1, <4>1 DEF OrderInv, HeldOK
      <4>3. {e \in Ids : r \in drain[e].batch} = {d}
        BY <4>2, OneHolder
      <4> QED
        BY <4>3, FS_Singleton
    <3>2. ASSUME Cardinality({d \in Ids : r \in drain[d].batch}) = 1
          PROVE  req[r].key # NoKey /\ req[r].pc \in {"taken", "running"}
      <4>1. {d \in Ids : r \in drain[d].batch} # {}
        BY <3>2, FS_EmptySet
      <4>2. PICK d \in Ids : r \in drain[d].batch
        BY <4>1
      <4> QED
        BY <4>2, HolderIsOwner, QueuesAssumption DEF OrderInv, BatchOK
    <3> QED
      BY <3>1, <3>2
  <2>3. \A r \in Ids, d, e \in Ids : r \in drain[d].batch /\ r \in drain[e].batch => d = e
    BY OneHolder
  <2> QED
    BY <2>1, <2>2, <2>3 DEF EachRequestHeldOnce
<1>4. LateReadJoins
  <2> SUFFICES ASSUME NEW d \in Ids, drain[d].pc = "reads",
                      map[KeyOf(d)].requests # <<>>,
                      req[Head(map[KeyOf(d)].requests)].access = "read"
               PROVE  permit[d]
    BY DEF LateReadJoins
  <2>1. PICK k \in Keys : k = req[d].key
    BY DEF DrainInv, TasksOK
  <2>2. Q(k) \in Seq(Ids) /\ Q(k) # <<>> /\ req[Head(Q(k))].access = "read"
    BY <2>1 DEF OrderInv, SeqOK, Q, KeyOf
  <2>3. Len(Q(k)) > 0 /\ Head(Q(k)) = Q(k)[1]
    BY <2>2
  <2> QED
    BY <2>1, <2>2, <2>3 DEF OrderInv, PermitOK
<1> QED
  BY <1>1, <1>2, <1>3, <1>4 DEF QueueInv

\* RequestSerializationQueues: between any two awaits of the drain tasks every
\* request that waits or runs is in one place, queues are in the order of
\* arrival, and no read that could join a running batch has lost its wake-up.
THEOREM QueuesAgree == Spec => []QueueInv
<1>1. Init => TasksTyped
  BY DEF Init, Idle, TasksTyped, DrainPcs
<1> QED
  BY <1>1, DrainInvInit, OrderInvInit, DrainInvKept, OrderInvKept, TasksStayTyped,
     InvImpliesQueueInv, PTL DEF Spec

(***************************************************************************)
(* The refinement.                                                         *)
(***************************************************************************)

\* The variables of SerializedAccess.
Arrived == {r \in Ids : req[r].key # NoKey}
Exclusive == {r \in Ids : req[r].key # NoKey /\ req[r].access = "exclusive"}
Waiting == [k \in Keys |-> {r \in Ids : req[r].key = k /\ req[r].pc \in {"queued", "taken"}}]
Active == [k \in Keys |-> {r \in Ids : req[r].key = k /\ req[r].pc = "running"}]

\* Functions on D that differ at x only.
LEMMA ChangedAt ==
  ASSUME NEW D, NEW f, NEW g, NEW x \in D, NEW v,
         f = [y \in D |-> f[y]], g = [y \in D |-> g[y]],
         \A y \in D : g[y] = IF y = x THEN v ELSE f[y]
  PROVE  g = [f EXCEPT ![x] = v]
  OBVIOUS

\* Waiting and Active are functions on the keys.
LEMMA OnKeys ==
  /\ Waiting = [k \in Keys |-> Waiting[k]] /\ Waiting' = [k \in Keys |-> Waiting'[k]]
  /\ Active = [k \in Keys |-> Active[k]] /\ Active' = [k \in Keys |-> Active'[k]]
  BY DEF Waiting, Active

\* A step that none of them sees.
LEMMA Stutters ==
  ASSUME \A s \in Ids :
             /\ req'[s].key = req[s].key
             /\ req[s].key # NoKey =>
                    /\ req'[s].access = req[s].access
                    /\ req'[s].pc \in {"queued", "taken"} <=> req[s].pc \in {"queued", "taken"}
                    /\ req'[s].pc = "running" <=> req[s].pc = "running"
  PROVE  UNCHANGED Serialized!vars
<1>1. Arrived' = Arrived /\ Exclusive' = Exclusive
  BY DEF Arrived, Exclusive
<1>2. ASSUME NEW k \in Keys
      PROVE  Waiting'[k] = Waiting[k] /\ Active'[k] = Active[k]
  BY QueuesAssumption DEF Waiting, Active
<1>3. Waiting' = Waiting /\ Active' = Active
  BY <1>2 DEF Waiting, Active
<1> QED
  BY <1>1, <1>3 DEF Serialized!vars, Arrived, Exclusive, Waiting, Active

\* An arrival.
LEMMA ArrivalRefines ==
  ASSUME DrainInv, OrderInv, NEW k \in Keys, last < MaxRequests,
         req'[last + 1].key = k, req'[last + 1].pc = "queued",
         \A s \in Ids : s # last + 1 =>
             /\ req'[s].key = req[s].key
             /\ req'[s].pc = req[s].pc
             /\ req'[s].access = req[s].access
  PROVE  Serialized!Next
<1>0. PICK r \in Ids : r = last + 1
  BY NextId DEF DrainInv
<1>1. req[r].key = NoKey /\ \A s \in Arrived : s < r
  BY <1>0 DEF DrainInv, RequestsOK, OrderInv, FreshOK, Arrived, Ids
<1>2. /\ req'[r].key = k /\ req'[r].pc = "queued" /\ k # NoKey
      /\ \A s \in Ids : s # r => /\ req'[s].key = req[s].key
                                 /\ req'[s].pc = req[s].pc
                                 /\ req'[s].access = req[s].access
  BY <1>0, QueuesAssumption
<1>3. Arrived' = Arrived \cup {r}
  BY <1>2 DEF Arrived
<1>4. Exclusive' \in {Exclusive, Exclusive \cup {r}}
  <2>1. CASE req'[r].access = "exclusive"
    <3>1. Exclusive' = Exclusive \cup {r}
      BY <1>2, <2>1 DEF Exclusive
    <3> QED
      BY <3>1
  <2>2. CASE req'[r].access # "exclusive"
    <3>1. Exclusive' = Exclusive
      BY <1>1, <1>2, <2>2 DEF Exclusive
    <3> QED
      BY <3>1
  <2> QED
    BY <2>1, <2>2
<1>5. ASSUME NEW j \in Keys
      PROVE  /\ Waiting'[j] = IF j = k THEN Waiting[k] \cup {r} ELSE Waiting[j]
             /\ Active'[j] = Active[j]
  <2>1. j # NoKey
    BY QueuesAssumption
  <2>2. Active'[j] = Active[j]
    BY <1>1, <1>2, <2>1 DEF Active
  <2>3. Waiting'[j] = IF j = k THEN Waiting[k] \cup {r} ELSE Waiting[j]
    BY <1>1, <1>2, <2>1 DEF Waiting
  <2> QED
    BY <2>2, <2>3
<1>6. Waiting' = [Waiting EXCEPT ![k] = Waiting[k] \cup {r}]
  BY <1>5, OnKeys, ChangedAt
<1>7. Active' = Active
  BY <1>5 DEF Active
<1>8. Serialized!Arrive(k, r)
  BY <1>1, <1>3, <1>4, <1>6, <1>7 DEF Serialized!Arrive, Arrived, Exclusive, Waiting, Active
<1> QED
  BY <1>8 DEF Serialized!Next

\* A request of a key that passes the gate begins: nothing it must wait for
\* is there.
LEMMA PassGateRefines ==
  ASSUME DrainInv, OrderInv, NEW r \in Ids, PassGate(r), NEW k \in Keys, req[r].key = k
  PROVE  Serialized!Next
<1>1. /\ \A s \in Ids : req'[s].key = req[s].key /\ req'[s].access = req[s].access
      /\ req'[r].pc = "running"
      /\ \A s \in Ids : s # r => req'[s].pc = req[s].pc
  BY DEF PassGate, DrainInv, RequestsOK, Requests
<1>2. PICK d \in Ids : PolledBy(r, d) /\ req[r].pc = "taken"
  BY QueuesAssumption DEF PassGate, CanRun, OrderInv, FreshOK
<1>3. r \in Waiting[k]
  BY <1>2 DEF Waiting
<1>4. Arrived' = Arrived /\ Exclusive' = Exclusive
  BY <1>1 DEF Arrived, Exclusive
<1>5. ASSUME NEW j \in Keys
      PROVE  /\ Waiting'[j] = IF j = k THEN Waiting[k] \ {r} ELSE Waiting[j]
             /\ Active'[j] = IF j = k THEN Active[k] \cup {r} ELSE Active[j]
  BY <1>1, <1>2 DEF Waiting, Active
<1>6. /\ Waiting' = [Waiting EXCEPT ![k] = Waiting[k] \ {r}]
      /\ Active' = [Active EXCEPT ![k] = Active[k] \cup {r}]
  BY <1>5, OnKeys, ChangedAt
<1>7. req[d].key = k
  BY <1>2 DEF PolledBy, OrderInv, BatchOK
<1>8. ASSUME NEW s \in Waiting[k] \cup Active[k], s # r,
             r \in Exclusive \/ s \in Exclusive
      PROVE  r < s
  <2>1. s \in Ids /\ req[s].key = k /\ req[s].pc \in {"queued", "taken", "running"}
    BY DEF Waiting, Active
  <2>2. CASE req[s].pc = "queued"
    <3>1. PICK i \in 1..Len(Q(k)) : Q(k)[i] = s
      BY <2>1, <2>2 DEF OrderInv, CompleteOK
    <3> QED
      BY <1>2, <1>7, <3>1 DEF PolledBy, OrderInv, BatchOK
  <2>3. CASE req[s].pc # "queued"
    <3>1. PICK e \in Ids : s \in drain[e].batch
      BY <2>1, <2>3 DEF OrderInv, HeldOK
    <3>2. req[e].key = k /\ map[k].owner = e /\ map[k].owner = d
      BY <1>2, <1>7, <2>1, <3>1, HolderIsOwner DEF OrderInv, BatchOK, PolledBy
    <3>3. s \in drain[d].batch /\ r \in drain[d].batch
      BY <1>2, <3>1, <3>2 DEF PolledBy
    <3>4. drain[d].pc = "reads" => req[r].access = "read" /\ req[s].access = "read"
      BY <3>3 DEF OrderInv, AccessOK
    <3>5. drain[d].pc = "reads"
      BY <1>2, <1>8, <3>3 DEF PolledBy, OrderInv, AccessOK
    <3> QED
      BY <1>8, <3>4, <3>5 DEF Exclusive
  <2> QED
    BY <2>2, <2>3
<1>9. r \notin Exclusive => \A s \in Exclusive : s # r
  OBVIOUS
<1>10. \A s \in Serialized!Blockers(k, r) : r < s
  BY <1>8, <1>9 DEF Serialized!Blockers, Serialized!Present, Waiting, Active, Exclusive
<1>11. Serialized!Begin(k, r)
  BY <1>3, <1>4, <1>6, <1>10 DEF Serialized!Begin, Arrived, Exclusive, Waiting, Active
<1> QED
  BY <1>11 DEF Serialized!Next

\* Requests S of one key that have been taken leave.
LEMMA LeavingRefines ==
  ASSUME NEW S, S \subseteq Ids, NEW k \in Keys,
         \A s \in Ids : /\ req'[s].key = req[s].key
                        /\ req'[s].access = req[s].access
                        /\ s \notin S => req'[s].pc = req[s].pc
                        /\ s \in S => /\ req[s].key = k
                                      /\ req[s].pc \in {"taken", "running"}
                                      /\ req'[s].pc \in Ended
  PROVE  Serialized!Next
<1>1. Arrived' = Arrived /\ Exclusive' = Exclusive
  BY DEF Arrived, Exclusive
<1>2. ASSUME NEW j \in Keys
      PROVE  /\ Waiting'[j] = IF j = k THEN Waiting[k] \ S ELSE Waiting[j]
             /\ Active'[j] = IF j = k THEN Active[k] \ S ELSE Active[j]
  BY DEF Waiting, Active, Ended
<1>3. /\ Waiting' = [Waiting EXCEPT ![k] = Waiting[k] \ S]
      /\ Active' = [Active EXCEPT ![k] = Active[k] \ S]
  BY <1>2, OnKeys, ChangedAt
<1>4. S \in SUBSET (Waiting[k] \cup Active[k])
  BY DEF Waiting, Active
<1>5. S \in SUBSET Serialized!Present(k)
  BY <1>4 DEF Serialized!Present, Waiting, Active
<1>6. Serialized!Leave(k, S)
  BY <1>1, <1>3 DEF Serialized!Leave, Arrived, Exclusive, Waiting, Active
<1> QED
  BY <1>5, <1>6 DEF Serialized!Next

\* Every step is a step of SerializedAccess or one it does not see.
LEMMA StepRefines ==
  DrainInv /\ OrderInv /\ [Next]_vars => [Serialized!Next]_(Serialized!vars)
<1> SUFFICES ASSUME DrainInv, OrderInv, [Next]_vars
             PROVE  Serialized!Next \/ UNCHANGED Serialized!vars
  OBVIOUS
<1> DEFINE Goal == Serialized!Next \/ UNCHANGED Serialized!vars
<1> USE DEF DrainInv, RequestsOK
<1> HIDE DEF Goal
<1>1. ASSUME NEW c \in Conns, NEW k \in Keys, NEW a \in Accesses, Receive(c, k, a)
      PROVE  Goal
  BY <1>1, NextId, ArrivalRefines DEF Goal, Receive, Request
<1>2. ASSUME NEW c \in Conns, ReceiveUnserialized(c) PROVE Goal
  <2>1. last + 1 \in Ids /\ req[last + 1].key = NoKey
    BY <1>2, NextId DEF ReceiveUnserialized, OrderInv, FreshOK, Ids
  <2>2. /\ req'[last + 1].key = NoKey
        /\ \A s \in Ids : s # last + 1 => req'[s] = req[s]
    BY <1>2, <2>1 DEF ReceiveUnserialized, Request
  <2> QED
    BY <2>1, <2>2, Stutters DEF Goal
<1>3. ASSUME req' = req PROVE Goal
  BY <1>3, Stutters DEF Goal
<1>4. ASSUME EffectivePluginsChange PROVE Goal
  BY <1>4, NextId, ArrivalRefines, QueuesAssumption DEF Goal, EffectivePluginsChange, Request
<1>5. ASSUME NEW r \in Ids, PluginReconcile(r) PROVE Goal
  <2>1. last + 1 \in Ids /\ last < MaxRequests
    BY <1>5, NextId DEF PluginReconcile
  <2>2. req'[last + 1].key = ConfigKey /\ req'[last + 1].pc = "queued"
    <3>1. CASE r = last + 1
      BY <1>5, <2>1, <3>1 DEF PluginReconcile, Request, Requests
    <3>2. CASE r # last + 1
      BY <1>5, <2>1, <3>2 DEF PluginReconcile, Request, Requests
    <3> QED
      BY <3>1, <3>2
  <2>3. \A s \in Ids : s # last + 1 => /\ req'[s].key = req[s].key
                                       /\ req'[s].pc = req[s].pc
                                       /\ req'[s].access = req[s].access
    BY <1>5, <2>1 DEF PluginReconcile, Requests
  <2> QED
    BY <2>1, <2>2, <2>3, ArrivalRefines, QueuesAssumption DEF Goal
<1>6. ASSUME NEW r \in Ids, PassGate(r) PROVE Goal
  <2>1. CASE req[r].key \in Keys
    BY <1>6, <2>1, PassGateRefines DEF Goal
  <2>2. CASE req[r].key = NoKey
    <3>1. \A s \in Ids : /\ req'[s].key = req[s].key
                         /\ s # r => req'[s] = req[s]
      BY <1>6 DEF PassGate, Requests
    <3> QED
      BY <2>2, <3>1, Stutters DEF Goal
  <2> QED
    BY <2>1, <2>2 DEF Requests
<1>7. ASSUME NEW r \in Ids, StoppedAtGate(r) \/ Finish(r) PROVE Goal
  <2>1. /\ \A s \in Ids : req'[s].key = req[s].key /\ req'[s].access = req[s].access
        /\ req'[r].pc \in Ended
        /\ \A s \in Ids : s # r => req'[s].pc = req[s].pc
    BY <1>7 DEF StoppedAtGate, Finish, Ended, Requests
  <2>2. CASE req[r].key \in Keys
    <3>1. req[r].pc \in {"taken", "running"}
      BY <1>7, <2>2, QueuesAssumption DEF StoppedAtGate, Finish, CanRun, OrderInv, FreshOK
    <3>2. PICK k \in Keys, S \in SUBSET Ids :
             req[r].key = k /\ \A s \in Ids : s \in S <=> s = r
      <4>1. {r} \in SUBSET Ids /\ \A s \in Ids : s \in {r} <=> s = r
        OBVIOUS
      <4> QED
        BY <2>2, <4>1
    <3> QED
      BY <2>1, <3>1, <3>2, LeavingRefines DEF Goal
  <2>3. CASE req[r].key = NoKey
    BY <2>1, <2>3, Stutters DEF Goal
  <2> QED
    BY <2>2, <2>3 DEF Requests
<1>8. ASSUME NEW r \in Ids, Panic(r) PROVE Goal
  <2>1. PICK S : S = Dropped(r)
    OBVIOUS
  <2>2. /\ \A s \in Ids : /\ req'[s].key = req[s].key
                          /\ req'[s].access = req[s].access
                          /\ s \notin S => req'[s].pc = req[s].pc
                          /\ s \in S => req'[s].pc \in Ended /\ req[s].key = req[r].key
    BY <1>8, <2>1, DroppedAre
  <2>3. \A s \in S : s \in Ids /\ req[s].pc \in {"taken", "running"}
    BY <1>8, <2>1 DEF Panic, Dropped, OrderInv, BatchOK
  <2>4. CASE req[r].key \in Keys
    BY <2>2, <2>3, <2>4, LeavingRefines DEF Goal
  <2>5. CASE req[r].key = NoKey
    BY <2>2, <2>5, Stutters DEF Goal
  <2> QED
    BY <2>4, <2>5 DEF Requests
<1>9. ASSUME NEW d \in Ids, DrainStep(d) PROVE Goal
  <2>1. ASSUME NEW k \in Keys, NEW n \in 0..Len(Q(k)), MarkTaken(Taken(Q(k), n))
        PROVE  Goal
    <3>1. Q(k) \in Seq(Ids)
      BY DEF OrderInv, SeqOK
    <3>2. \A s \in Taken(Q(k), n) : s \in Ids /\ req[s].pc = "queued"
      BY <3>1 DEF Taken, OrderInv, QueuedOK
    <3>3. ASSUME NEW s \in Ids
          PROVE  /\ req'[s].key = req[s].key /\ req'[s].access = req[s].access
                 /\ req'[s].pc \in {"queued", "taken"} <=> req[s].pc \in {"queued", "taken"}
                 /\ req'[s].pc = "running" <=> req[s].pc = "running"
      BY <2>1, <3>2 DEF MarkTaken, Requests
    <3> QED
      BY <3>3, Stutters DEF Goal
  <2>2. CASE RemoveQueue(d) \/ Notified(d)
    BY <1>3, <2>2 DEF RemoveQueue, Notified
  <2>3. CASE TakeBatch(d) \/ AdmitReads(d)
    <3>1. PICK k \in Keys : req[d].key = k
      BY <2>3 DEF TakeBatch, AdmitReads, TasksOK
    <3>2. Q(k) \in Seq(Ids) /\ map[k].requests = Q(k)
      BY DEF OrderInv, SeqOK, Q
    <3>3. LeadingReads(Q(k)) \in 0..Len(Q(k))
      BY <3>2, LeadingReadsEnd DEF ReadsEnd
    <3>4. CASE TakeBatch(d)
      <4>1. BatchLength(Q(k)) \in 0..Len(Q(k))
        BY <3>1, <3>2, <3>3, <3>4 DEF TakeBatch, BatchLength, KeyOf
      <4> QED
        BY <2>1, <3>1, <3>2, <3>4, <4>1 DEF TakeBatch, KeyOf
    <3>5. CASE AdmitReads(d)
      BY <2>1, <3>1, <3>2, <3>3, <3>5 DEF AdmitReads, KeyOf
    <3> QED
      BY <2>3, <3>4, <3>5
  <2> QED
    BY <1>9, <2>2, <2>3 DEF DrainStep
<1>10. ASSUME NEW c \in Conns, Close(c) \/ Shutdown(c) \/ DrainTimeout(c) PROVE Goal
  BY <1>3, <1>10 DEF Close, Shutdown, DrainTimeout
<1>11. ASSUME UNCHANGED vars PROVE Goal
  BY <1>3, <1>11 DEF vars
<1>12. Goal
  BY <1>1, <1>2, <1>4, <1>5, <1>6, <1>7, <1>8, <1>9, <1>10, <1>11 DEF Next, RunStep
<1> QED
  BY <1>12 DEF Goal

\* RequestSerializationQueues and ConnectionRpcGate: a request of a key runs
\* only when every earlier one of the key that it conflicts with has ended,
\* for any number of keys, connections and requests, with panics or without.
THEOREM QueuesSerializeAccess == Spec => ImplementsSerializedAccess
<1>1. Init => Serialized!Init
  <2> SUFFICES ASSUME Init PROVE Serialized!Init
    OBVIOUS
  <2>1. \A r \in Ids : req[r].key = NoKey
    BY DEF Init, Free
  <2>2. Arrived = {} /\ Exclusive = {}
    BY <2>1 DEF Arrived, Exclusive
  <2>3. \A k \in Keys : Waiting[k] = {} /\ Active[k] = {}
    BY <2>1, QueuesAssumption DEF Waiting, Active
  <2>4. Waiting = [k \in Keys |-> {}] /\ Active = [k \in Keys |-> {}]
    BY <2>3 DEF Waiting, Active
  <2> QED
    BY <2>2, <2>4 DEF Serialized!Init, Arrived, Exclusive, Waiting, Active
<1> QED
  BY <1>1, DrainInvInit, OrderInvInit, DrainInvKept, OrderInvKept, StepRefines, PTL
     DEF Spec, ImplementsSerializedAccess, Serialized!Spec
=============================================================================
