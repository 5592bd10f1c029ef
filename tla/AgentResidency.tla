--------------------------- MODULE AgentResidency ---------------------------
(***************************************************************************)
(* Which V2 sub-agents of a user session are loaded, and how many of them  *)
(* run a turn (codex-rs/core/src/agent/control: residency.rs,              *)
(* execution.rs, and the calls in spawn.rs and control.rs that use them).  *)
(* Spawning an agent, or sending to one that is not loaded, takes a        *)
(* residency slot.  When the slots are used up the caller unloads the      *)
(* least recently used agent that is idle; a later message loads it again. *)
(*                                                                         *)
(* A caller is a tool call of some agent, or a task of the app-server that *)
(* unloads an idle thread without subscribers.  An agent's session is a    *)
(* number: the thread id stays the same across unloading and reloading.    *)
(* A session is reduced to what the callers can tell: the channel of its   *)
(* submission loop, its mailbox, and whether it runs a turn (SessionTurns  *)
(* has the rest).  Config, history and environments are left out, except   *)
(* that loading may fail.                                                  *)
(***************************************************************************)
EXTENDS Naturals, Sequences, FiniteSets, SequencesExt

CONSTANTS
    Callers,
    Threads,       \* ids of sub-agent threads
    Tasks,         \* messages with trigger_turn, each sent at most once
    Notes,         \* messages without it
    Capacity,      \* effective_agent_max_threads of V2
    Ops,           \* the operations the environment issues
    None, Shutdown,
    MaxSessions,   \* bound: sessions started in one behaviour
    MaxStrays      \* bound: threads that aborted calls leave behind

Messages == Tasks \cup Notes
AllOps == {"spawn", "message", "unload"}
Sessions == 1 .. MaxSessions

ASSUME ResidencyAssumption ==
    /\ IsFiniteSet(Callers) /\ Callers # {}
    /\ Tasks \cap Notes = {}
    /\ None \notin Threads \cup Messages /\ Shutdown \notin Messages
    /\ Capacity \in Nat /\ MaxSessions \in Nat /\ MaxStrays \in Nat
    /\ Ops \subseteq AllOps

VARIABLES
    residents,  \* V2ResidencyState.residents, least recently used first
    pending,    \* V2ResidencyState.pending_slots
    active,     \* AgentExecutionLimiter.active
    loaded,     \* the manager's map: thread -> session, 0 if absent
    owner,      \* the thread of each session started
    known,      \* threads with metadata in the registry
    alive,      \* sessions whose submission loop runs
    channel,    \* submissions each session has yet to handle
    mailbox,    \* mail each session has queued
    phase,      \* "fresh" (PendingInit), "turn", "done" (a status that
                \* allows unloading) or "closed" (Shutdown)
    halted,     \* threads whose recorded history ends with an interruption
    seen,       \* messages a turn has taken up
    sent,       \* messages a submission has accepted
    call,       \* what each caller is doing
    begun,      \* sessions started so far
    strayed     \* ghost: threads an aborted call had in its hands

agents == <<loaded, owner, known>>
work == <<alive, channel, mailbox, phase, halted, active, seen>>
vars == <<residents, pending, active, loaded, owner, known, alive, channel,
          mailbox, phase, halted, seen, sent, call, begun, strayed>>

At == {"idle", "reserve", "scan", "check", "ask", "stop", "drop", "load", "commit",
       "touch", "send", "submit", "remove", "forget", "release", "unload"}
Calls == [at: At, thread: Threads \cup {None}, hand: Threads \cup {None},
          msg: Messages \cup {None}, session: Nat, left: Nat,
          spawn: BOOLEAN]
Idle == [at |-> "idle", thread |-> None, hand |-> None, msg |-> None,
         session |-> 0, left |-> 0, spawn |-> FALSE]

TypeOK ==
    /\ residents \in Seq(Threads) /\ pending \in Nat /\ active \in Nat
    /\ loaded \in [Threads -> {0} \cup Sessions] /\ known \subseteq Threads
    /\ owner \in [Sessions -> Threads \cup {None}]
    /\ alive \subseteq Sessions
    /\ channel \in [Sessions -> Seq(Messages \cup {Shutdown})]
    /\ mailbox \in [Sessions -> SUBSET Messages]
    /\ phase \in [Sessions -> {"fresh", "turn", "done", "closed"}]
    /\ halted \subseteq Threads
    /\ seen \subseteq Messages /\ sent \subseteq Messages
    /\ call \in [Callers -> Calls]
    /\ begun \in 0 .. MaxSessions
    /\ strayed \subseteq Threads

Init ==
    /\ residents = <<>> /\ pending = 0 /\ active = 0
    /\ loaded = [t \in Threads |-> 0] /\ known = {} /\ alive = {}
    /\ owner = [s \in Sessions |-> None]
    /\ channel = [s \in Sessions |-> <<>>]
    /\ mailbox = [s \in Sessions |-> {}]
    /\ phase = [s \in Sessions |-> "fresh"]
    /\ halted = {} /\ seen = {} /\ sent = {}
    /\ call = [c \in Callers |-> Idle] /\ begun = 0
    /\ strayed = {}

Goto(c, at) == call' = [call EXCEPT ![c].at = at]
Return(c) == call' = [call EXCEPT ![c] = Idle]
Submitted(s, x) == channel' = [channel EXCEPT ![s] = Append(@, x)]

(***************************************************************************)
(* V2Residency.                                                            *)
(***************************************************************************)
\* VecDeque::retain: the k-th entry that stays is the k-th one that is not t.
Without(rs, t) ==
    LET kept == {i \in DOMAIN rs : rs[i] # t} IN
    [k \in 1 .. Cardinality(kept) |->
        rs[CHOOSE i \in kept : Cardinality({j \in kept : j <= i}) = k]]

Touched(rs, t) == Append(Without(rs, t), t)

\* pop_lru_candidate: the first resident that is not the protected thread,
\* which goes to the back if it was in front.
Candidates(protected) == Without(residents, protected)
AfterPop(protected) ==
    IF residents[1] = protected THEN Append(Tail(Tail(residents)), protected)
    ELSE Tail(residents)
Protected(c) == IF call[c].spawn THEN None ELSE call[c].thread

\* try_reserve_pending_slot
HasRoom == Len(residents) + pending < Capacity

\* reserve_slot: a slot, or a scan over as many residents as there are.
Reserve(c) ==
    /\ call[c].at = "reserve"
    /\ IF HasRoom
       THEN pending' = pending + 1 /\ Goto(c, "load")
       ELSE /\ call' = [call EXCEPT ![c].at = "scan",
                                    ![c].left = Len(residents)]
            /\ UNCHANGED pending
    /\ UNCHANGED <<residents, agents, work, sent, begun, strayed>>

\* try_unload_one_resident: take the next candidate, or give up with
\* AgentLimitReached.
Scan(c) ==
    /\ call[c].at = "scan"
    /\ IF call[c].left = 0 \/ Candidates(Protected(c)) = <<>>
       THEN Return(c) /\ UNCHANGED residents
       ELSE /\ call' = [call EXCEPT ![c].at = "check", ![c].left = @ - 1,
                                    ![c].hand = Candidates(Protected(c))[1]]
            /\ residents' = AfterPop(Protected(c))
    /\ UNCHANGED <<pending, agents, work, sent, begun, strayed>>

\* is_unloadable: a final status, no active turn, no pending mailbox items.
Unloadable(s) == phase[s] = "done" /\ mailbox[s] = {}

\* The candidate is dropped if it is not loaded, put back if it is not
\* unloadable, and shut down otherwise.
Check(c) ==
    LET t == call[c].hand
        s == loaded[t]
    IN  /\ call[c].at = "check"
        /\ \/ s = 0 /\ Goto(c, "scan") /\ UNCHANGED residents
           \/ /\ s # 0 /\ ~Unloadable(s)
              /\ residents' = Touched(residents, t)
              /\ Goto(c, "scan")
           \/ /\ s # 0 /\ Unloadable(s)
              /\ call' = [call EXCEPT ![c].at = "ask", ![c].session = s]
              /\ UNCHANGED residents
        /\ UNCHANGED <<pending, agents, work, sent, begun, strayed>>

\* Mutant: the session is awaited without having been asked to shut down.
AskSilent(c) ==
    /\ call[c].at = "ask"
    /\ Goto(c, "stop")
    /\ UNCHANGED <<residents, pending, agents, work, sent, begun, strayed>>

\* shutdown_and_wait, after the rollout is materialized: a session that has
\* ended meanwhile counts as shut down.  The loop ends at the first Shutdown,
\* so one behind it is left out.
Ask(c) ==
    LET s == call[c].session IN
    /\ call[c].at = "ask"
    /\ channel' = IF s \in alive /\ Shutdown \notin ToSet(channel[s])
                  THEN [channel EXCEPT ![s] = Append(@, Shutdown)] ELSE channel
    /\ Goto(c, "stop")
    /\ UNCHANGED <<residents, pending, agents, alive, mailbox, phase, halted,
                   active, seen, sent, begun, strayed>>

\* shutdown_and_wait returns.
Stop(c) ==
    /\ call[c].at = "stop" /\ call[c].session \notin alive
    /\ Goto(c, "drop")
    /\ UNCHANGED <<residents, pending, agents, work, sent, begun, strayed>>

\* remove_thread, and back to the loop of reserve_slot.
Drop(c) ==
    /\ call[c].at = "drop"
    /\ loaded' = [loaded EXCEPT ![call[c].hand] = 0]
    /\ Goto(c, "reserve")
    /\ UNCHANGED <<residents, pending, owner, known, work, sent, begun, strayed>>

(***************************************************************************)
(* Loading: spawn_agent_internal and ensure_v2_agent_loaded.               *)
(***************************************************************************)
Begin(c, at, t, m, spawn) ==
    /\ call' = [call EXCEPT ![c] = [Idle EXCEPT !.at = at, !.thread = t,
                                                !.msg = m, !.spawn = spawn]]
    /\ UNCHANGED <<residents, pending, agents, work, sent, begun, strayed>>

\* Bound: a call that may start a session is made while there is a number
\* left for it.
Loading == {"reserve", "scan", "check", "ask", "stop", "drop", "load"}
SessionLeft ==
    begun + Cardinality({c \in Callers : call[c].at \in Loading}) < MaxSessions

Unused(m) == m \notin sent /\ \A d \in Callers : call[d].msg # m

\* ensure_execution_capacity, then the slot, for a thread id nobody has used.
HasCapacity == active < Capacity
Spawn(c, t, m) ==
    /\ "spawn" \in Ops /\ call[c] = Idle /\ Unused(m) /\ m \in Tasks
    /\ \A s \in Sessions : owner[s] # t
    /\ \A d \in Callers : call[d].thread # t
    /\ SessionLeft
    /\ HasCapacity
    /\ Begin(c, "reserve", t, m, TRUE)

\* A message to a known agent: touch it if it is loaded, else load it.
Message(c, t, m) ==
    /\ "message" \in Ops /\ call[c] = Idle /\ Unused(m) /\ t \in known
    /\ \/ loaded[t] # 0 /\ Begin(c, "touch", t, m, FALSE)
       \/ loaded[t] = 0 /\ SessionLeft /\ Begin(c, "reserve", t, m, FALSE)

\* touch_loaded_v2_residency
Touch(c) ==
    /\ call[c].at = "touch"
    /\ residents' = IF loaded[call[c].thread] # 0
                    THEN Touched(residents, call[c].thread) ELSE residents
    /\ Goto(c, "send")
    /\ UNCHANGED <<pending, agents, work, sent, begun, strayed>>

\* finalize_thread_spawn enters the session in the map.  A session that is
\* loaded again has status PendingInit, unless its last turn was interrupted.
Load(c) ==
    LET t == call[c].thread
        s == begun + 1
    IN  /\ call[c].at = "load" /\ loaded[t] = 0
        /\ loaded' = [loaded EXCEPT ![t] = s]
        /\ owner' = [owner EXCEPT ![s] = t]
        /\ alive' = alive \cup {s} /\ begun' = s
        /\ phase' = [phase EXCEPT ![s] = IF t \in halted THEN "done"
                                         ELSE "fresh"]
        /\ Goto(c, "commit")
        /\ UNCHANGED <<residents, pending, known, channel, mailbox, halted,
                       active, seen, sent, strayed>>

\* Loading fails and the slot is dropped; if another call has loaded the
\* thread meanwhile, that one is touched and used.
LoadFails(c) ==
    /\ call[c].at = "load"
    /\ pending' = pending - 1
    /\ IF loaded[call[c].thread] # 0 THEN Goto(c, "touch") ELSE Return(c)
    /\ UNCHANGED <<residents, agents, work, sent, begun, strayed>>

\* The registry entry of a spawned agent, and V2ResidencySlot::commit.
Commit(c) ==
    LET t == call[c].thread IN
    /\ call[c].at = "commit"
    /\ known' = IF call[c].spawn THEN known \cup {t} ELSE known
    /\ pending' = pending - 1
    /\ residents' = Touched(residents, t)
    /\ Goto(c, IF call[c].spawn THEN "submit" ELSE "send")
    /\ UNCHANGED <<loaded, owner, work, sent, begun, strayed>>

(***************************************************************************)
(* send_inter_agent_communication.                                         *)
(***************************************************************************)
\* A message that starts a turn is refused at the execution limit.
Send(c) ==
    LET s == loaded[call[c].thread] IN
    /\ call[c].at = "send"
    /\ IF \/ call[c].msg \in Notes
          \/ s # 0 /\ (phase[s] = "turn" \/ HasCapacity)
       THEN Goto(c, "submit") ELSE Return(c)
    /\ UNCHANGED <<residents, pending, agents, work, sent, begun, strayed>>

\* send_op; a session that has ended (InternalAgentDied) is cleaned up.
Submit(c) ==
    LET s == loaded[call[c].thread] IN
    /\ call[c].at = "submit"
    /\ \/ s = 0 /\ Return(c) /\ UNCHANGED <<channel, sent>>
       \/ /\ s \in alive
          /\ Submitted(s, call[c].msg) /\ sent' = sent \cup {call[c].msg}
          /\ Return(c)
       \/ /\ s # 0 /\ s \notin alive
          /\ Goto(c, "remove") /\ UNCHANGED <<channel, sent>>
    /\ UNCHANGED <<residents, pending, agents, alive, mailbox, phase, halted,
                   active, seen, begun, strayed>>

RemoveDead(c) ==
    /\ call[c].at = "remove"
    /\ loaded' = [loaded EXCEPT ![call[c].thread] = 0]
    /\ Goto(c, "forget")
    /\ UNCHANGED <<residents, pending, owner, known, work, sent, begun, strayed>>

Forget(c) ==
    /\ call[c].at = "forget"
    /\ residents' = Without(residents, call[c].thread)
    /\ Goto(c, "release")
    /\ UNCHANGED <<pending, agents, work, sent, begun, strayed>>

Release(c) ==
    /\ call[c].at = "release"
    /\ known' = known \ {call[c].thread}
    /\ Return(c)
    /\ UNCHANGED <<residents, pending, loaded, owner, work, sent, begun, strayed>>

\* The turn that made the tool call is cancelled, and the call is dropped at
\* the await where it is: a slot is given back by its Drop, nothing else is.
Awaits == At \ {"idle", "scan", "forget", "release", "unload"}
LetGo(c) ==
    {t \in Threads :
       \/ t = call[c].hand /\ call[c].at \in {"check", "ask", "stop", "drop"}
       \/ t = call[c].thread /\ call[c].at = "commit"}
Abort(c) ==
    /\ call[c].at \in Awaits
    /\ Cardinality(strayed \cup LetGo(c)) <= MaxStrays
    /\ pending' = IF call[c].at \in {"load", "commit"} THEN pending - 1
                  ELSE pending
    /\ strayed' = strayed \cup LetGo(c)
    /\ Return(c)
    /\ UNCHANGED <<residents, agents, work, sent, begun>>

(***************************************************************************)
(* The app-server unloads a thread; neither residency nor registry hears.  *)
(***************************************************************************)
Unload(c, t) ==
    LET s == loaded[t] IN
    /\ "unload" \in Ops /\ call[c] = Idle
    /\ s \in alive /\ phase[s] # "turn"
    /\ Shutdown \notin ToSet(channel[s])  \* bound: one Shutdown at a time
    /\ Submitted(s, Shutdown)
    /\ call' = [call EXCEPT ![c] = [Idle EXCEPT !.at = "unload",
                                    !.hand = t, !.session = s]]
    /\ UNCHANGED <<residents, pending, agents, alive, mailbox, phase, halted,
                   active, seen, sent, begun, strayed>>

\* The session has ended, or ten seconds have passed and the thread stays
\* loaded.
UnloadDone(c) ==
    LET t == call[c].hand IN
    /\ call[c].at = "unload"
    /\ \/ /\ call[c].session \notin alive
          /\ loaded' = IF loaded[t] = call[c].session
                       THEN [loaded EXCEPT ![t] = 0] ELSE loaded
       \/ call[c].session \in alive /\ UNCHANGED loaded
    /\ Return(c)
    /\ UNCHANGED <<residents, pending, owner, known, work, sent, begun, strayed>>

(***************************************************************************)
(* The sessions.                                                           *)
(***************************************************************************)
\* A turn takes the mailbox and an AgentExecutionGuard.
StartTurn(s, box) ==
    /\ phase' = [phase EXCEPT ![s] = "turn"]
    /\ active' = active + 1
    /\ seen' = seen \cup box
    /\ mailbox' = [mailbox EXCEPT ![s] = {}]

\* The loop queues a message as mail; a task starts a turn on an idle session.
Deliver(s) ==
    LET m == Head(channel[s])
        box == mailbox[s] \cup {m}
    IN  /\ s \in alive /\ channel[s] # <<>> /\ m # Shutdown
        /\ channel' = [channel EXCEPT ![s] = Tail(@)]
        /\ IF m \in Tasks /\ phase[s] # "turn" THEN StartTurn(s, box)
           ELSE /\ mailbox' = [mailbox EXCEPT ![s] = box]
                /\ UNCHANGED <<phase, active, seen>>
        /\ UNCHANGED <<residents, pending, agents, alive, halted, sent, call,
                       begun, strayed>>

\* Mutant: the mail a turn takes up stays in the mailbox.
DrainCopy(s) ==
    /\ phase[s] = "turn" /\ mailbox[s] # {}
    /\ seen' = seen \cup mailbox[s]
    /\ UNCHANGED <<residents, pending, agents, alive, channel, mailbox, phase,
                   halted, active, sent, call, begun, strayed>>

\* A running turn takes up mail between two samplings.
Drain(s) ==
    /\ phase[s] = "turn" /\ mailbox[s] # {}
    /\ seen' = seen \cup mailbox[s]
    /\ mailbox' = [mailbox EXCEPT ![s] = {}]
    /\ UNCHANGED <<residents, pending, agents, alive, channel, phase, halted,
                   active, sent, call, begun, strayed>>

\* What the recorded history of t says of its last turn.
Recorded(t, interrupted) ==
    halted' = IF interrupted THEN halted \cup {t} ELSE halted \ {t}

\* The turn completes or is interrupted, and its guard is dropped.  A turn of
\* an ended session may come too late for the history, and its last event
\* before or after ShutdownComplete.
EndTurn(s, interrupted) ==
    /\ phase[s] = "turn"
    /\ \/ /\ s \in alive
          /\ phase' = [phase EXCEPT ![s] = "done"]
          /\ Recorded(owner[s], interrupted)
       \/ /\ s \notin alive
          /\ phase' = [phase EXCEPT ![s] = "closed"]
          /\ Recorded(owner[s], interrupted)
       \/ /\ s \notin alive
          /\ \E last \in {"done", "closed"} : phase' = [phase EXCEPT ![s] = last]
          /\ UNCHANGED halted
    /\ active' = active - 1
    /\ UNCHANGED <<residents, pending, agents, alive, channel, mailbox, seen,
                   sent, call, begun, strayed>>

\* After a turn, mail that asks for one starts the next.
Wake(s) ==
    /\ phase[s] # "turn" /\ mailbox[s] \cap Tasks # {}
    /\ StartTurn(s, mailbox[s])
    /\ UNCHANGED <<residents, pending, agents, alive, channel, halted, sent,
                   call, begun, strayed>>

\* Mutant: the aborted turn keeps its guard.
TerminateKeepsGuard(s) ==
    /\ s \in alive /\ channel[s] # <<>> /\ Head(channel[s]) = Shutdown
    /\ alive' = alive \ {s}
    /\ phase' = [phase EXCEPT ![s] = "closed"]
    /\ UNCHANGED <<residents, pending, agents, channel, mailbox, halted, seen,
                   sent, call, begun, active, strayed>>

\* Shutdown interrupts a running turn and ends the loop; what is behind it
\* in the channel is never read.  The interruption drops the guard and, like
\* any other, starts a turn with a guard of its own if the mail asks for one;
\* that turn outlives the loop, and its start may still be recorded.
Terminate(s) ==
    LET woken == phase[s] = "turn" /\ mailbox[s] \cap Tasks # {} IN
    /\ s \in alive /\ channel[s] # <<>> /\ Head(channel[s]) = Shutdown
    /\ alive' = alive \ {s}
    /\ \/ /\ woken
          /\ seen' = seen \cup mailbox[s]
          /\ mailbox' = [mailbox EXCEPT ![s] = {}]
          /\ \E interrupted \in BOOLEAN : Recorded(owner[s], interrupted)
          /\ UNCHANGED <<phase, active>>
       \/ /\ phase[s] = "turn" /\ ~woken
          /\ phase' = [phase EXCEPT ![s] = "closed"]
          /\ active' = active - 1
          /\ Recorded(owner[s], TRUE)
          /\ UNCHANGED <<mailbox, seen>>
       \/ /\ phase[s] # "turn"
          /\ phase' = [phase EXCEPT ![s] = "closed"]
          /\ UNCHANGED <<mailbox, seen, active, halted>>
    /\ UNCHANGED <<residents, pending, agents, channel, sent, call, begun,
                   strayed>>

CallerStep(c) ==
    \/ Reserve(c) \/ Scan(c) \/ Check(c) \/ Ask(c) \/ Stop(c) \/ Drop(c)
    \/ Touch(c) \/ Load(c) \/ LoadFails(c) \/ Commit(c)
    \/ Send(c) \/ Submit(c) \/ RemoveDead(c) \/ Forget(c) \/ Release(c)
    \/ UnloadDone(c)

NewCall(c) ==
    \E t \in Threads :
       \/ \E m \in Messages : Spawn(c, t, m) \/ Message(c, t, m)
       \/ Unload(c, t)

SessionStep(s) ==
    \/ Deliver(s) \/ Drain(s) \/ Wake(s) \/ Terminate(s)
    \/ \E interrupted \in BOOLEAN : EndTurn(s, interrupted)

Next == \/ \E c \in Callers : NewCall(c) \/ CallerStep(c) \/ Abort(c)
        \/ \E s \in Sessions : SessionStep(s)

Spec == Init /\ [][Next]_vars

\* Awaits are answered: every call goes on, and every session goes on
\* handling its channel and its turn until its loop has ended.  No call has
\* to be aborted.
FairSpec == /\ Spec
            /\ \A c \in Callers : WF_vars(CallerStep(c))
            /\ \A s \in Sessions : WF_vars(s \in alive /\ SessionStep(s))

(***************************************************************************)
(* Properties.                                                             *)
(***************************************************************************)

\* The pending slots are exactly the calls that hold one: whether loading
\* succeeds, fails or finds the agent loaded by another call, the slot is
\* given back once, and a resident is listed once, however many calls touch,
\* scan and commit it.
SlotsMatchHolders ==
    /\ pending = Cardinality({c \in Callers : call[c].at \in {"load", "commit"}})
    /\ IsInjective(residents)

\* The limiter counts the turns that run: a turn that ends by itself, is
\* followed by the next or is aborted by a shutdown gives its guard back
\* once.
GuardsMatchTurns ==
    active = Cardinality({s \in Sessions : phase[s] = "turn"})

\* Every loaded agent that messages can reach can be found by a scan: it is
\* resident, or a call is about to enter it, to put it back or to remove it.
\* Only a call that is aborted at that point loses it.
\* That holds for a session that has ended and is still in the map, too.  An
\* agent that were loaded and not tracked would never be unloaded and never
\* counted.
Tracked(t) ==
    \/ \E i \in 1 .. Len(residents) : residents[i] = t
    \/ \E c \in Callers :
          \/ /\ call[c].hand = t
             /\ call[c].at \in {"check", "ask", "stop", "drop"}
          \/ /\ call[c].thread = t
             /\ call[c].at \in {"commit", "forget", "release"}

LoadedIsTracked == \A t \in known \ strayed : loaded[t] # 0 => Tracked(t)

\* A candidate in the hands of a scan is not counted, so calls that scan at
\* the same time can push the agents over the capacity: by one for each
\* other call, and not more, however they are touched and put back.
OvershootBounded ==
    Cardinality((ToSet(residents) \cup
                 {call[c].thread : c \in {d \in Callers :
                                            call[d].at \in {"load", "commit"}}})
                \ strayed)
       < Capacity + Cardinality(Callers)

\* The invariant of residency.rs and execution.rs: pending slots and their
\* holders, guards and running turns, loaded and listed agents agree at every
\* await of every call, within the capacity and its overshoot.
ResidencyInv ==
    /\ TypeOK /\ SlotsMatchHolders /\ GuardsMatchTurns /\ LoadedIsTracked
    /\ OvershootBounded

Holders(m) == {s \in Sessions : m \in mailbox[s] \/ m \in ToSet(channel[s])}

\* An accepted message is in one place: a turn has taken it up, or one
\* session holds it, as mail or in its channel.  So it is lost only with a
\* session that ends with the message unread, and no agent that is loaded
\* again, or reached by two calls at once, reads it twice.
MessageHeldOnce ==
    /\ \A m \in sent \ seen : Cardinality(Holders(m)) = 1
    /\ \A m \in seen : Holders(m) = {}

\* Every call returns: the loop of reserve_slot ends.
CallsReturn == \A c \in Callers : []<>(call[c] = Idle)
=============================================================================
