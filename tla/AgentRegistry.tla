--------------------------- MODULE AgentRegistry ---------------------------
(***************************************************************************)
(* The registry of sub-agents that all the agents of one user session      *)
(* share (codex-rs/core/src/agent/registry.rs), with the operations of     *)
(* AgentControl that use it: spawn, resume, close, sending to an agent,    *)
(* and the app-server's unloading of an idle thread, which does not know   *)
(* the registry.  The registry keeps                                       *)
(*                                                                         *)
(*   tree         agent_tree: a key is an agent path, or the thread        *)
(*                itself ("thread:<id>") for an agent without a path;      *)
(*   threadPaths  the index from a thread to its key;                      *)
(*   total        total_count, an atomic outside the mutex of the two.     *)
(*                                                                         *)
(* The manager's map from a thread id to its running session is loaded.    *)
(* A session that is shut down and resumed has the same thread id and is   *)
(* another session, so a session is a number, taken in the order in which  *)
(* the calls that start them begin.  A caller is a tool call of some agent *)
(* (or a task of the app-server); one action is what it does between two   *)
(* points at which another caller can see the registry or the map.         *)
(*                                                                         *)
(* The root agent is left out: it is registered before any sub-agent, is   *)
(* not counted, and its key is never reserved (register_root_thread in     *)
(* prepare_thread_spawn then changes nothing).  Nicknames are left out.    *)
(***************************************************************************)
EXTENDS Naturals, FiniteSets

CONSTANTS
    Callers,
    Threads,        \* ids of sub-agent threads
    Paths,          \* agent paths
    None,
    Reserved,       \* metadata without an agent_id: a path held for a spawn
    SpawnKinds,     \* {"path"} for V2 spawns, {"bare"} for V1 spawns
    SpawnLimited,   \* whether a spawn passes max_threads (V1) or None (V2)
    MaxThreads,     \* effective_agent_max_threads
    Ops,            \* the operations the environment issues
    MaxSessions     \* bound: sessions started in one behaviour

Keys == Paths \cup Threads
AllOps == {"spawn", "resume", "close", "send", "unload"}

ASSUME RegistryAssumption ==
    /\ IsFiniteSet(Threads) /\ IsFiniteSet(Callers)
    /\ Threads \cap Callers = {} /\ Threads \cap Paths = {}
    /\ None \notin Keys /\ Reserved \notin Keys /\ None # Reserved
    /\ SpawnKinds \subseteq {"path", "bare"}
    /\ SpawnLimited \in BOOLEAN
    /\ MaxThreads \in Nat /\ MaxSessions \in Nat
    /\ Ops \subseteq AllOps

VARIABLES
    tree,         \* agent_tree: key -> thread, Reserved, or None if absent
    threadPaths,  \* thread -> key, or None
    total,        \* total_count
    stored,       \* the key a persisted thread was created under, or None
    loaded,       \* the manager's map: thread -> session, 0 if absent
    alive,        \* sessions whose submission loop runs
    asked,        \* sessions that were asked to shut down
    call,         \* what each caller is doing
    sessions      \* sessions begun

registry == <<tree, threadPaths>>
manager == <<loaded, alive, asked, stored>>
vars == <<tree, threadPaths, total, stored, loaded, alive, asked, call,
          sessions>>

Starting == {"slot", "prepared", "created"}
At == {"idle", "uncount", "tell", "send", "close", "ask", "wait",
       "remove", "release", "unload"} \cup Starting
Calls == [at: At, op: AllOps \cup {None}, thread: Threads \cup {None},
          key: Keys \cup {None}, session: Nat]
Idle == [at |-> "idle", op |-> None, thread |-> None, key |-> None,
         session |-> 0]

\* A call that is under way has a thread; one that is starting an agent has
\* the agent's path or the thread itself for its key.
CallShape ==
    \A c \in Callers :
       /\ call[c].at # "idle" => call[c].thread \in Threads
       /\ call[c].at \in Starting => call[c].key \in Paths \cup {call[c].thread}

TypeOK ==
    /\ tree \in [Keys -> Threads \cup {Reserved, None}]
    /\ threadPaths \in [Threads -> Keys \cup {None}]
    /\ total \in Nat
    /\ stored \in [Threads -> Keys \cup {None}]
    /\ \A t \in Threads : stored[t] \in Paths \cup {t, None}
    /\ loaded \in [Threads -> Nat]
    /\ alive \subseteq Nat /\ asked \subseteq Nat
    /\ call \in [Callers -> Calls] /\ CallShape
    /\ sessions \in Nat

Init ==
    /\ tree = [k \in Keys |-> None]
    /\ threadPaths = [t \in Threads |-> None]
    /\ total = 0
    /\ stored = [t \in Threads |-> None]
    /\ loaded = [t \in Threads |-> 0]
    /\ alive = {} /\ asked = {}
    /\ call = [c \in Callers |-> Idle]
    /\ sessions = 0

Goto(c, at) == call' = [call EXCEPT ![c].at = at]
Return(c) == call' = [call EXCEPT ![c] = Idle]

(***************************************************************************)
(* The registry's own operations, each one critical section of its mutex.  *)
(***************************************************************************)
HoldsPath(c) == call[c].at \in {"prepared", "created"} /\ call[c].key \in Paths

\* register_spawned_thread: t takes key k, gives up the key it had, and the
\* thread that had k loses its index entry.
TreeWith(t, k) ==
    LET moved == IF threadPaths[t] \notin {None, k}
                 THEN [tree EXCEPT ![threadPaths[t]] = None] ELSE tree
    IN  [moved EXCEPT ![k] = t]
PathsWith(t, k) ==
    LET displaced == tree[k] \in Threads \ {t}
    IN  [u \in Threads |-> IF u = t THEN k
                           ELSE IF displaced /\ u = tree[k] THEN None
                           ELSE threadPaths[u]]
RegisterSpawned(t, k) ==
    /\ tree' = TreeWith(t, k)
    /\ threadPaths' = PathsWith(t, k)

\* Mutant: a dropped reservation keeps its path.
ReleaseReservedPathNot(c) == UNCHANGED registry

\* release_reserved_agent_path: only a path without an agent is released.
ReleaseReservedPath(c) ==
    /\ tree' = IF HoldsPath(c) /\ tree[call[c].key] = Reserved
               THEN [tree EXCEPT ![call[c].key] = None] ELSE tree
    /\ UNCHANGED threadPaths

\* Mutant: the limit is off by one.
SlotFreeOffByOne(limited) == limited => total <= MaxThreads

\* reserve_spawn_slot with its compare-and-swap loop try_increment_spawned.
SlotFree(limited) == limited => total < MaxThreads

(***************************************************************************)
(* Starting an agent: spawn_agent_internal and                             *)
(* resume_single_agent_from_rollout.                                       *)
(***************************************************************************)
Begin(c, op, t, k) ==
    /\ call' = [call EXCEPT ![c] = [at |-> "slot", op |-> op, thread |-> t,
                                    key |-> k, session |-> sessions + 1]]
    /\ sessions' = sessions + 1
    /\ total' = total + 1
    /\ UNCHANGED <<registry, manager>>

\* A spawn draws a new thread id; a V2 spawn comes with an agent path.
Spawn(c, t, k) ==
    /\ "spawn" \in Ops /\ call[c] = Idle /\ sessions < MaxSessions
    /\ stored[t] = None /\ \A d \in Callers : call[d].thread # t
    /\ \/ k \in Paths /\ "path" \in SpawnKinds
       \/ k = t /\ "bare" \in SpawnKinds
    /\ SlotFree(SpawnLimited)
    /\ Begin(c, "spawn", t, k)

\* resume_agent resumes a thread whose status is NotFound.
Resume(c, t) ==
    /\ "resume" \in Ops /\ call[c] = Idle /\ sessions < MaxSessions
    /\ stored[t] # None /\ loaded[t] = 0
    /\ SlotFree(TRUE)
    /\ Begin(c, "resume", t, stored[t])

\* Mutant: the path is checked and not held.
PrepareCheckOnly(c) ==
    /\ call[c].at = "slot"
    /\ call[c].key \in Paths => tree[call[c].key] = None
    /\ Goto(c, "prepared")
    /\ UNCHANGED <<registry, total, manager, sessions>>

\* prepare_agent_metadata: an agent path must be vacant, and is then held;
\* otherwise the reservation is dropped.
Prepare(c) ==
    /\ call[c].at = "slot"
    /\ \/ /\ call[c].key \in Paths => tree[call[c].key] = None
          /\ tree' = IF call[c].key \in Paths
                     THEN [tree EXCEPT ![call[c].key] = Reserved] ELSE tree
          /\ Goto(c, "prepared")
       \/ /\ call[c].key \in Paths /\ tree[call[c].key] # None
          /\ Goto(c, "uncount")
          /\ UNCHANGED tree
    /\ UNCHANGED <<threadPaths, total, manager, sessions>>

\* finalize_thread_spawn enters the new session in the manager's map, unless
\* the thread is there already.
Create(c) ==
    LET t == call[c].thread IN
    /\ call[c].at = "prepared" /\ loaded[t] = 0
    /\ loaded' = [loaded EXCEPT ![t] = call[c].session]
    /\ alive' = alive \cup {call[c].session}
    /\ stored' = [stored EXCEPT ![t] = call[c].key]
    /\ Goto(c, "created")
    /\ UNCHANGED <<registry, total, asked, sessions>>

\* "thread is already running", or any other failure to start a session:
\* the reservation is dropped.
CreateFails(c) ==
    /\ call[c].at = "prepared"
    /\ ReleaseReservedPath(c)
    /\ Goto(c, "uncount")
    /\ UNCHANGED <<total, manager, sessions>>

\* SpawnReservation::commit; a spawn goes on to send the first input.
Commit(c) ==
    /\ call[c].at = "created"
    /\ RegisterSpawned(call[c].thread, call[c].key)
    /\ IF call[c].op = "spawn" THEN Goto(c, "tell") ELSE Return(c)
    /\ UNCHANGED <<total, manager, sessions>>

\* The fetch_sub of a dropped reservation or of a released agent, outside
\* the mutex.
Uncount(c) ==
    /\ call[c].at = "uncount"
    /\ total' = total - 1
    /\ Return(c)
    /\ UNCHANGED <<registry, manager, sessions>>

(***************************************************************************)
(* Ending an agent.                                                        *)
(***************************************************************************)
Target(c, at, op, t, s) ==
    call' = [call EXCEPT ![c] = [at |-> at, op |-> op, thread |-> t,
                                 key |-> None, session |-> s]]

\* close_agent takes an agent that is known or loaded.
Close(c, t) ==
    /\ "close" \in Ops /\ call[c] = Idle
    /\ threadPaths[t] # None \/ loaded[t] # 0
    /\ Target(c, "close", "close", t, 0)
    /\ UNCHANGED <<registry, total, manager, sessions>>

\* shutdown_live_agent looks the thread up and flushes its rollout; a flush
\* that fails ends the call at once.
CloseFind(c) ==
    LET t == call[c].thread IN
    /\ call[c].at = "close"
    /\ \/ Target(c, "ask", "close", t, loaded[t])
       \/ loaded[t] # 0 /\ Return(c)
    /\ UNCHANGED <<registry, total, manager, sessions>>

\* Mutant: the thread is awaited without having been asked to shut down.
CloseAskSilent(c) ==
    /\ call[c].at = "ask"
    /\ Goto(c, "wait")
    /\ UNCHANGED <<registry, total, manager, sessions>>

\* send_op looks the thread id up again, so the Shutdown goes to the session
\* the id has by now, if any; it is not sent when the session that was found
\* has shut down.  The session that was found is awaited either way.
CloseAsk(c) ==
    LET s == call[c].session
        now == loaded[call[c].thread]
    IN  /\ call[c].at = "ask"
        /\ asked' = IF now # 0 /\ (s = 0 \/ s \in alive)
                    THEN asked \cup {now} ELSE asked
        /\ Goto(c, "wait")
        /\ UNCHANGED <<registry, total, stored, loaded, alive, sessions>>

\* wait_until_terminated; a close that found no session has none to await.
CloseWait(c) ==
    /\ call[c].at = "wait" /\ call[c].session \notin alive
    /\ Goto(c, "remove")
    /\ UNCHANGED <<registry, total, manager, sessions>>

\* The submission loop of a session ends after its Shutdown.
Terminate(s) ==
    /\ s \in alive \cap asked
    /\ alive' = alive \ {s}
    /\ UNCHANGED <<registry, total, stored, loaded, asked, call, sessions>>

\* remove_thread takes out whatever session the thread id has now.
Remove(c) ==
    /\ call[c].at = "remove"
    /\ loaded' = [loaded EXCEPT ![call[c].thread] = 0]
    /\ Goto(c, "release")
    /\ UNCHANGED <<registry, total, stored, alive, asked, sessions>>

\* Mutant: a thread that is not registered gives a slot back as well.
ReleaseUnknown(c) ==
    LET t == call[c].thread
        k == threadPaths[t]
    IN  /\ call[c].at = "release"
        /\ threadPaths' = [threadPaths EXCEPT ![t] = None]
        /\ tree' = IF k = None THEN tree ELSE [tree EXCEPT ![k] = None]
        /\ Goto(c, "uncount")
        /\ UNCHANGED <<total, manager, sessions>>
\* Mutant: the index entry goes and the tree entry stays.
ReleaseIndexOnly(c) ==
    LET t == call[c].thread IN
    /\ call[c].at = "release"
    /\ threadPaths' = [threadPaths EXCEPT ![t] = None]
    /\ IF threadPaths[t] # None THEN Goto(c, "uncount") ELSE Return(c)
    /\ UNCHANGED <<tree, total, manager, sessions>>

\* release_spawned_thread: the entries go under the mutex, the count after.
Release(c) ==
    LET t == call[c].thread
        k == threadPaths[t]
    IN  /\ call[c].at = "release"
        /\ threadPaths' = [threadPaths EXCEPT ![t] = None]
        /\ tree' = IF k = None THEN tree ELSE [tree EXCEPT ![k] = None]
        /\ IF k # None /\ tree[k] # None THEN Goto(c, "uncount")
           ELSE Return(c)
        /\ UNCHANGED <<total, manager, sessions>>

(***************************************************************************)
(* Sending to an agent, and unloading it from outside.                     *)
(***************************************************************************)
Send(c, t) ==
    /\ "send" \in Ops /\ call[c] = Idle /\ loaded[t] # 0
    /\ Target(c, "send", "send", t, loaded[t])
    /\ UNCHANGED <<registry, total, manager, sessions>>

\* The first input of a spawned agent looks the thread up again.
Tell(c) ==
    LET t == call[c].thread IN
    /\ call[c].at = "tell"
    /\ IF loaded[t] # 0 THEN Target(c, "send", "send", t, loaded[t])
       ELSE Return(c)
    /\ UNCHANGED <<registry, total, manager, sessions>>

\* handle_thread_request_result: a submission to a session that has ended
\* (InternalAgentDied) cleans the agent up.
SendDone(c) ==
    /\ call[c].at = "send"
    /\ IF call[c].session \in alive THEN Return(c) ELSE Goto(c, "remove")
    /\ UNCHANGED <<registry, total, manager, sessions>>

\* The app-server shuts an idle thread without subscribers down and removes
\* it if the map still has that session; the registry keeps its entry.
Unload(c, t) ==
    /\ "unload" \in Ops /\ call[c] = Idle /\ loaded[t] # 0
    /\ asked' = asked \cup {loaded[t]}
    /\ Target(c, "unload", "unload", t, loaded[t])
    /\ UNCHANGED <<registry, total, stored, loaded, alive, sessions>>

\* The session has ended, or ten seconds have passed and the thread stays
\* loaded.
UnloadDone(c) ==
    LET t == call[c].thread IN
    /\ call[c].at = "unload"
    /\ \/ /\ call[c].session \notin alive
          /\ loaded' = IF loaded[t] = call[c].session
                       THEN [loaded EXCEPT ![t] = 0] ELSE loaded
       \/ call[c].session \in alive /\ UNCHANGED loaded
    /\ Return(c)
    /\ UNCHANGED <<registry, total, stored, alive, asked, sessions>>

CallerStep(c) ==
    \/ Prepare(c) \/ Create(c) \/ CreateFails(c) \/ Commit(c) \/ Uncount(c)
    \/ CloseFind(c) \/ CloseAsk(c) \/ CloseWait(c) \/ Remove(c)
    \/ Release(c) \/ Tell(c) \/ SendDone(c) \/ UnloadDone(c)

NewCall(c) ==
    \E t \in Threads :
       \/ \E k \in Keys : Spawn(c, t, k)
       \/ Resume(c, t) \/ Close(c, t) \/ Send(c, t) \/ Unload(c, t)

Next == \/ \E c \in Callers : NewCall(c) \/ CallerStep(c)
        \/ \E s \in alive : Terminate(s)

Spec == Init /\ [][Next]_vars

\* Every call goes on (its awaits are answered), and a session asked to shut
\* down ends.
FairSpec == /\ Spec
            /\ \A c \in Callers : WF_vars(CallerStep(c))
            /\ \A s \in 1 .. MaxSessions : WF_vars(Terminate(s))

(***************************************************************************)
(* Properties.                                                             *)
(***************************************************************************)

\* The index and the tree say the same: a thread is indexed under a key
\* exactly if the tree has that thread there.  release_spawned_thread
\* removes the tree entry it finds through the index without looking whose
\* it is, so it relies on this across every interleaving of resumes and
\* closes.
IndexMatchesTree ==
    \A t \in Threads, k \in Keys : threadPaths[t] = k <=> tree[k] = t

\* Every agent path that is held is held by exactly one call that is
\* starting an agent, and such a call never loses the path it holds:
\* dropping or committing a reservation cannot touch another's, and no path
\* stays taken after the spawn that took it has failed.
PathsHeldOnce ==
    /\ \A c \in Callers : HoldsPath(c) => tree[call[c].key] = Reserved
    /\ \A c, d \in Callers :
          HoldsPath(c) /\ HoldsPath(d) /\ call[c].key = call[d].key => c = d
    /\ \A k \in Keys : tree[k] = Reserved =>
          \E c \in Callers : HoldsPath(c) /\ call[c].key = k

\* What total_count has to cover: the registered agents, the calls that
\* hold a reservation, and those that have yet to give their slot back.
Registered == {t \in Threads : threadPaths[t] # None}
Owing == {c \in Callers : call[c].at \in Starting \cup {"uncount"}}

\* The counter never falls below that, so the fetch_sub outside the mutex
\* never wraps the AtomicUsize around and no slot is given away twice,
\* whichever of two closes and a resume of one agent comes first.
NeverUndercounts == total >= Cardinality(Registered \cup Owing)

\* Where every start passes the limit (V1), the agents that are registered
\* or starting are never more than max_threads.
RegisteredWithinLimit ==
    SpawnLimited => Cardinality(Registered \cup Owing) <= MaxThreads

\* The counter is exact: what was closed or failed to start has given its
\* slot back.
SlotsAccounted == total = Cardinality(Registered \cup Owing)

\* An agent path never passes from one agent to another in one step: a
\* message addressed to a path cannot reach an agent that took the path
\* over from one that still had it.
PathNeverRebound ==
    [][\A k \in Paths : tree[k] \in Threads /\ tree'[k] \in Threads
                           => tree'[k] = tree[k]]_vars

\* A close that awaits a session which was never asked to shut down, because
\* another call's removal by thread id took it out of the map between the
\* lookup and send_op.
Stranded(c) ==
    /\ call[c].at = "wait" /\ call[c].session \in alive \ asked
    /\ loaded[call[c].thread] # call[c].session

\* Every call returns, the stranded closes excepted: no start, send or unload
\* and no other close waits for ever, whatever else removes, resumes or ends
\* the session, and with the calls the paths they hold are set free.
CallsReturn == \A c \in Callers : []<>(call[c] = Idle \/ Stranded(c))
=============================================================================
