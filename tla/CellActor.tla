----------------------------- MODULE CellActor -----------------------------
(***************************************************************************)
(* A code-mode cell (codex-rs/code-mode-runtime/src/cell_actor/,           *)
(* session_runtime/mod.rs, runtime/mod.rs).                                *)
(*                                                                         *)
(* A cell is a script run by V8 on a thread of its own, and an actor task  *)
(* that takes the thread's events and answers the clients.  A client       *)
(* observes a cell, until a deadline or until the script has nothing left  *)
(* to run (the pending frontier), or terminates it; the session can shut   *)
(* down.  CellState is a phase under a mutex: the one place where          *)
(* completion and termination meet.  The script's thread stops at each     *)
(* frontier until the actor sends it a control command.                    *)
(*                                                                         *)
(* The module follows one cell of a session.  Output items are numbered in *)
(* the order the script emits them.  The ids of pending tool calls, which  *)
(* are only reported, and pending_initial_yield_items, which the actor     *)
(* always passes as None, are left out.                                    *)
(***************************************************************************)
EXTENDS Naturals, Sequences, FiniteSets

CONSTANTS
    Observations,   \* the calls that observe a cell
    First,          \* among them the one execute begins with
    Terminations,   \* the calls of terminate
    NoOne,          \* no call
    MaxItems,       \* bound: output items
    MaxCalls        \* bound: yield_control, notify and tool calls

ASSUME CellAssumption ==
    /\ First \in Observations /\ Observations \cap Terminations = {}
    /\ NoOne \notin Observations \cup Terminations
    /\ IsFiniteSet(Observations)
    /\ MaxItems \in Nat /\ MaxCalls \in Nat

Calls == Observations \cup Terminations
Modes == {"YieldAfter", "PendingFrontier"}

VARIABLES
    ask,        \* the calls: call -> how far it is and its answer
    session,    \* the session: shutdown token, whether the cell is in cells
    phase,      \* CellState.phase
    cancelled,  \* CellState.cancellation_token
    committed,  \* whether the cell's stored values went to the session
    inbox,      \* the command channel of the actor
    actor,      \* the local state of run_cell
    tasks,      \* callbacks in flight, and whether their token is cancelled
    js,         \* the script's thread
    events,     \* from the thread to the actor
    control,    \* control_rx of the thread
    commands,   \* command_rx of the thread
    emitted,    \* how many items and calls the script has produced
    handed      \* ghost: the items answers that end nothing have carried

client == <<ask, session>>
cell == <<phase, cancelled, committed>>
thread == <<js, events, control, commands, emitted>>
vars == <<client, cell, inbox, actor, tasks, thread, handed>>

Message(is, item) == [is |-> is, item |-> item]
Event(kind, items) == [kind |-> kind, items |-> items]
Nothing == Event("none", <<>>)
Phase(is) == [is |-> is, tx |-> NoOne, event |-> Nothing]

Init ==
    /\ ask = [c \in Calls |-> [st |-> "idle", mode |-> "YieldAfter",
                               answer |-> Nothing]]
    /\ session = [shutdown |-> FALSE, registered |-> FALSE]
    /\ phase = Phase("Running")
    /\ cancelled = FALSE /\ committed = FALSE
    /\ inbox = [open |-> TRUE, queue |-> <<>>]
    /\ actor = [pc |-> "none", observer |-> NoOne, termination |-> FALSE,
                runtime_closed |-> FALSE, runtime_paused |-> FALSE,
                pending_frontier_ready |-> FALSE, yield_timer |-> "off",
                content_items |-> <<>>]
    /\ tasks = [notes |-> 0, tools |-> 0, cancelled |-> FALSE]
    /\ js = [pc |-> "none", killed |-> FALSE]
    /\ events = <<>> /\ control = <<>> /\ commands = <<>>
    /\ emitted = [items |-> 0, calls |-> 0]
    /\ handed = <<>>

(***************************************************************************)
(* Answers: a oneshot channel whose receiver may be gone                   *)
(***************************************************************************)

IsWaiting(c) == c # NoOne /\ ask[c].st = "waiting"

\* The calls of C are answered with e, those that still wait.
Answered(C, e) ==
    [c \in Calls |-> IF c \in C /\ IsWaiting(c)
                     THEN [ask[c] EXCEPT !.st = "answered", !.answer = e]
                     ELSE ask[c]]

Started == actor.pc # "none"

\* A call answered at once.
Refuse(c, error) ==
    ask' = [ask EXCEPT ![c].st = "answered", ![c].answer = Event(error, <<>>)]

(***************************************************************************)
(* The session                                                             *)
(***************************************************************************)

(* execute and start_cell: under the cells lock the shutdown token is      *)
(* checked, the cell registered and its task spawned.                      *)
Execute(m) ==
    /\ ~Started /\ ~session.shutdown
    /\ ask' = [ask EXCEPT ![First].st = "waiting", ![First].mode = m]
    /\ session' = [session EXCEPT !.registered = TRUE]
    /\ actor' = [actor EXCEPT !.pc = "poll", !.observer = First]
    /\ js' = [js EXCEPT !.pc = "init"]
    /\ UNCHANGED <<cell, inbox, tasks, events, control, commands, emitted, handed>>

accepting_observations == phase.is \in {"Running", "Completed"} /\ ~cancelled

\* begin_observe, with the handle's observe
Observe(o, m) ==
    /\ Started /\ ask[o].st = "idle"
    /\ session.registered /\ accepting_observations /\ inbox.open
    /\ ask' = [ask EXCEPT ![o].st = "waiting", ![o].mode = m]
    /\ inbox' = [inbox EXCEPT !.queue = Append(@, o)]
    /\ UNCHANGED <<session, cell, actor, tasks, thread, handed>>

ObserveRefused(o) ==
    /\ Started /\ ask[o].st = "idle"
    /\ ~(session.registered /\ accepting_observations /\ inbox.open)
    /\ Refuse(o, IF session.registered THEN "closed" ELSE "missing")
    /\ UNCHANGED <<session, cell, inbox, actor, tasks, thread, handed>>

\* The client of an observation goes away.
DropObservation(o) ==
    /\ ask[o].st = "waiting"
    /\ ask' = [ask EXCEPT ![o].st = "dropped"]
    /\ UNCHANGED <<session, cell, inbox, actor, tasks, thread, handed>>

\* terminate, with request_termination
Terminate(t) ==
    /\ Started /\ ask[t].st = "idle"
    /\ session.registered /\ phase.is = "Running"
    /\ ask' = [ask EXCEPT ![t].st = "waiting"]
    /\ phase' = [phase EXCEPT !.is = "Terminating", !.tx = t]
    /\ cancelled' = TRUE
    /\ UNCHANGED <<session, committed, inbox, actor, tasks, thread, handed>>

TerminateCompleted(t) ==
    /\ Started /\ ask[t].st = "idle"
    /\ session.registered /\ phase.is = "Completed"
    /\ ask' = [ask EXCEPT ![t].st = "answered", ![t].answer = phase.event]
    /\ phase' = [phase EXCEPT !.is = "CompletionClaimed"]
    /\ cancelled' = TRUE
    /\ UNCHANGED <<session, committed, inbox, actor, tasks, thread, handed>>

TerminateRefused(t) ==
    /\ Started /\ ask[t].st = "idle"
    /\ ~session.registered \/ phase.is \notin {"Running", "Completed"}
    /\ Refuse(t, IF ~session.registered THEN "missing"
                 ELSE IF phase.is = "Tombstone" THEN "closed"
                 ELSE "already")
    /\ UNCHANGED <<session, cell, inbox, actor, tasks, thread, handed>>

\* shutdown: cancels the token the cell's token is a child of
Shutdown ==
    /\ ~session.shutdown
    /\ session' = [session EXCEPT !.shutdown = TRUE]
    /\ cancelled' = (Started \/ cancelled)
    /\ UNCHANGED <<ask, phase, committed, inbox, actor, tasks, thread, handed>>

(***************************************************************************)
(* The script's thread                                                     *)
(***************************************************************************)

Send(e) == events' = Append(events, Message(e, 0))

\* To a thread that has ended nothing can be sent.
ToThread(channel, c) == IF js.pc = "ended" THEN channel ELSE Append(channel, c)

others == <<client, cell, inbox, actor, tasks, handed>>

JsStart ==
    /\ js.pc = "init"
    /\ js' = [js EXCEPT !.pc = "run"] /\ Send("Started")
    /\ UNCHANGED <<others, control, commands, emitted>>

JsOutput ==
    /\ js.pc = "run" /\ emitted.items < MaxItems
    /\ emitted' = [emitted EXCEPT !.items = @ + 1]
    /\ events' = Append(events, Message("ContentItem", emitted.items + 1))
    /\ UNCHANGED <<others, js, control, commands>>

JsCall(call) ==
    /\ js.pc = "run" /\ emitted.calls < MaxCalls
    /\ emitted' = [emitted EXCEPT !.calls = @ + 1]
    /\ Send(call)
    /\ UNCHANGED <<others, js, control, commands>>

tool_callback == JsCall("ToolCall")
notify_callback == JsCall("Notify")
yield_control_callback == JsCall("YieldRequested")

(* The script ends, by itself or by terminate_execution; install_globals   *)
(* may have failed before it began.                                        *)
JsResult ==
    /\ js.pc \in {"init", "run"}
    /\ js' = [js EXCEPT !.pc = "ended"] /\ Send("Result")
    /\ UNCHANGED <<others, control, commands, emitted>>

\* The script waits for a promise: next_runtime_command.
JsAwait ==
    /\ js.pc = "run"
    /\ js' = [js EXCEPT !.pc = "next"]
    /\ UNCHANGED <<others, events, control, commands, emitted>>

JsPanic ==
    /\ js.pc \in {"init", "run"}
    /\ js' = [js EXCEPT !.pc = "ended"] /\ Send("ThreadPanicked")
    /\ UNCHANGED <<others, control, commands, emitted>>

(* A command is taken without waiting at "next", waited for at "command".  *)
(* A response lets the script run again; ObservePendingFrontier has        *)
(* nothing to run and asks for the next command.                           *)
JsCommand ==
    /\ js.pc \in {"next", "command"} /\ commands # <<>>
    /\ commands' = Tail(commands)
    /\ js' = [js EXCEPT !.pc = CASE Head(commands) = "Terminate" -> "ended"
                                 [] Head(commands) = "ToolResponse" -> "run"
                                 [] OTHER -> "next"]
    /\ UNCHANGED <<others, events, control, emitted>>

JsPending ==
    /\ js.pc = "next" /\ commands = <<>>
    /\ js' = [js EXCEPT !.pc = "control"] /\ Send("Pending")
    /\ UNCHANGED <<others, control, commands, emitted>>

JsControl ==
    /\ js.pc = "control" /\ control # <<>>
    /\ control' = Tail(control)
    /\ js' = [js EXCEPT !.pc = CASE Head(control) = "Continue" -> "command"
                                 [] Head(control) = "Resume" -> "next"
                                 [] OTHER -> "ended"]
    /\ UNCHANGED <<others, events, commands, emitted>>

(***************************************************************************)
(* Callbacks: tasks of the actor, in the delegate's hands                  *)
(***************************************************************************)

CallbacksCancelled == tasks.cancelled \/ cancelled

NotifyEnds ==
    /\ tasks.notes > 0
    /\ tasks' = [tasks EXCEPT !.notes = @ - 1]
    /\ UNCHANGED <<client, cell, inbox, actor, thread, handed>>

ToolEnds ==
    /\ tasks.tools > 0
    /\ tasks' = [tasks EXCEPT !.tools = @ - 1]
    /\ commands' = ToThread(commands, "ToolResponse")
    /\ UNCHANGED <<client, cell, inbox, actor, js, events, control, emitted, handed>>

(***************************************************************************)
(* The actor                                                               *)
(***************************************************************************)

DropInbox ==
    /\ inbox' = [open |-> FALSE, queue |-> <<>>]
    /\ ask' = Answered({inbox.queue[i] : i \in DOMAIN inbox.queue},
                       Event("closed", <<>>))

\* Mutant: a thread that waits for a control command is not told.
begin_termination_no_control ==
    /\ cancelled' = TRUE
    /\ commands' = ToThread(commands, "Terminate")
    /\ js' = [js EXCEPT !.killed = TRUE]
    /\ UNCHANGED control

begin_termination ==
    /\ cancelled' = TRUE
    /\ commands' = ToThread(commands, "Terminate")
    /\ control' = ToThread(control, "Terminate")
    /\ js' = [js EXCEPT !.killed = TRUE]

(* The select is biased: an iteration looks at the cancellation, then at   *)
(* the command channel, then at the timer; when none is ready it waits at  *)
(* "select" for whichever branch comes first.                              *)
Poll ==
    /\ actor.pc = "poll" /\ (~cancelled \/ actor.termination)
    /\ actor' = [actor EXCEPT !.pc =
                     IF inbox.queue # <<>> THEN "command"
                     ELSE IF actor.yield_timer = "elapsed" THEN "timer"
                     ELSE "select"]
    /\ UNCHANGED <<client, cell, inbox, tasks, thread, handed>>

SeeCancelled ==
    /\ actor.pc \in {"poll", "select"} /\ cancelled /\ ~actor.termination
    /\ DropInbox /\ begin_termination
    /\ actor' = [actor EXCEPT !.termination = TRUE, !.yield_timer = "off",
                     !.pc = IF actor.runtime_closed THEN "cancelling" ELSE "poll"]
    /\ tasks' = [tasks EXCEPT !.cancelled = @ \/ actor.runtime_closed]
    /\ UNCHANGED <<session, phase, committed, events, emitted, handed>>

\* observer_timer
Timer(m) == IF m = "YieldAfter" THEN "armed" ELSE "off"

(* A command.                                                              *)
TakesCommand(o) ==
    /\ actor.pc \in {"command", "select"} /\ inbox.queue # <<>>
    /\ o = Head(inbox.queue)
    /\ inbox' = [inbox EXCEPT !.queue = Tail(@)]

Back == [actor EXCEPT !.pc = "poll"]

SkipDropped(o) ==
    /\ TakesCommand(o) /\ ask[o].st = "dropped"
    /\ actor' = Back
    /\ UNCHANGED <<client, cell, tasks, thread, handed>>

\* route_observation, when there is an outcome already
RouteToCompleted(o) ==
    /\ TakesCommand(o) /\ IsWaiting(o) /\ phase.is = "Completed"
    /\ ask' = Answered({o}, phase.event)
    /\ phase' = Phase("Tombstone") /\ cancelled' = TRUE
    /\ actor' = [actor EXCEPT !.pc = "leave"]
    /\ UNCHANGED <<session, committed, tasks, thread, handed>>

RouteClosed(o) ==
    /\ TakesCommand(o) /\ IsWaiting(o)
    /\ phase.is \notin {"Running", "Completed"}
    /\ ask' = Answered({o}, Event("closed", <<>>))
    /\ actor' = Back
    /\ UNCHANGED <<session, cell, tasks, thread, handed>>

\* The observer, unless its client has gone away
LiveObserver == IF IsWaiting(actor.observer) THEN actor.observer ELSE NoOne

ObserverBusy(o) ==
    /\ TakesCommand(o) /\ IsWaiting(o) /\ phase.is = "Running"
    /\ LiveObserver # NoOne \/ actor.termination
    /\ ask' = Answered({o}, Event("busy", <<>>))
    /\ actor' = [Back EXCEPT !.observer = LiveObserver]
    /\ UNCHANGED <<session, cell, tasks, thread, handed>>

\* A frontier whose observer had gone is handed to the next one.
ObserveReadyFrontier(o) ==
    /\ TakesCommand(o) /\ IsWaiting(o) /\ phase.is = "Running"
    /\ LiveObserver = NoOne /\ ~actor.termination
    /\ ask[o].mode = "PendingFrontier" /\ actor.pending_frontier_ready
    /\ ask' = Answered({o}, Event("pending", actor.content_items))
    /\ handed' = handed \o actor.content_items
    /\ actor' = [Back EXCEPT !.observer = NoOne, !.content_items = <<>>,
                             !.pending_frontier_ready = FALSE,
                             !.yield_timer = IF actor.observer = NoOne THEN @
                                             ELSE "off"]
    /\ UNCHANGED <<session, cell, tasks, thread>>

\* Mutant: a paused thread is asked for its frontier over the channel it is
\* not reading.
resume_not_when_paused(m) ==
    /\ commands' = IF m = "PendingFrontier"
                   THEN ToThread(commands, "ObservePendingFrontier") ELSE commands
    /\ UNCHANGED control

\* Mutant: a thread that is not paused is not asked for its frontier.
resume_only_when_paused(m) ==
    /\ control' = IF actor.runtime_paused
                  THEN ToThread(control, IF m = "YieldAfter" THEN "Continue"
                                                             ELSE "Resume")
                  ELSE control
    /\ UNCHANGED commands

resume_for_observation(m) ==
    IF actor.runtime_paused
    THEN /\ control' = ToThread(control, IF m = "YieldAfter" THEN "Continue"
                                                           ELSE "Resume")
         /\ UNCHANGED commands
    ELSE /\ commands' = IF m = "PendingFrontier"
                        THEN ToThread(commands, "ObservePendingFrontier")
                        ELSE commands
         /\ UNCHANGED control

BecomeObserver(o) ==
    LET m == ask[o].mode IN
    /\ TakesCommand(o) /\ IsWaiting(o) /\ phase.is = "Running"
    /\ LiveObserver = NoOne /\ ~actor.termination
    /\ ~(m = "PendingFrontier" /\ actor.pending_frontier_ready)
    /\ resume_for_observation(m)
    /\ actor' = [Back EXCEPT !.observer = o, !.yield_timer = Timer(m),
                             !.runtime_paused = FALSE,
                             !.pending_frontier_ready =
                                 @ /\ ~(actor.runtime_paused /\ m = "YieldAfter")]
    /\ UNCHANGED <<client, cell, tasks, js, events, emitted, handed>>

\* Mutant: output whose observer has gone is not put back.
ToObserver_lost(kind, next) ==
    /\ ask' = Answered({actor.observer}, Event(kind, actor.content_items))
    /\ handed' = IF IsWaiting(actor.observer)
                 THEN handed \o actor.content_items ELSE handed
    /\ actor' = [next EXCEPT !.observer = NoOne, !.content_items = <<>>]

(* send_observer_event with the restoring of what it could not deliver.    *)
ToObserver(kind, next) ==
    LET live == IsWaiting(actor.observer) IN
    /\ ask' = Answered({actor.observer}, Event(kind, actor.content_items))
    /\ handed' = IF live THEN handed \o actor.content_items ELSE handed
    /\ actor' = [next EXCEPT !.observer = NoOne,
                             !.content_items = IF live THEN <<>> ELSE @]

Elapse ==
    /\ actor.yield_timer = "armed"
    /\ actor' = [actor EXCEPT !.yield_timer = "elapsed"]
    /\ UNCHANGED <<client, cell, inbox, tasks, thread, handed>>

YieldTimer ==
    /\ actor.pc \in {"timer", "select"} /\ actor.yield_timer = "elapsed"
    /\ ToObserver("yielded", [Back EXCEPT !.yield_timer = "off"])
    /\ UNCHANGED <<session, cell, inbox, tasks, thread>>

(* An event of the script's thread.                                        *)
TakesEvent(e) ==
    /\ actor.pc = "select" /\ ~actor.runtime_closed
    /\ events # <<>> /\ Head(events).is = e
    /\ events' = Tail(events)

ObserverMode(m) == actor.observer # NoOne /\ ask[actor.observer].mode = m

OnStarted ==
    /\ TakesEvent("Started")
    /\ actor' = [Back EXCEPT !.yield_timer =
                     IF actor.observer = NoOne THEN "off"
                     ELSE Timer(ask[actor.observer].mode)]
    /\ UNCHANGED <<client, cell, inbox, tasks, js, control, commands, emitted, handed>>

OnPending ==
    /\ TakesEvent("Pending")
    /\ IF ObserverMode("PendingFrontier")
       THEN /\ ToObserver("pending",
                   [Back EXCEPT !.runtime_paused = TRUE, !.yield_timer = "off",
                                !.pending_frontier_ready =
                                    ~IsWaiting(actor.observer)])
            /\ UNCHANGED control
       ELSE /\ control' = ToThread(control, "Continue")
            /\ actor' = [Back EXCEPT !.runtime_paused = FALSE]
            /\ UNCHANGED <<ask, handed>>
    /\ UNCHANGED <<session, cell, inbox, tasks, js, commands, emitted>>

OnContentItem ==
    /\ TakesEvent("ContentItem")
    /\ actor' = [Back EXCEPT !.content_items = Append(@, Head(events).item)]
    /\ UNCHANGED <<client, cell, inbox, tasks, js, control, commands, emitted, handed>>

OnYieldRequested ==
    /\ TakesEvent("YieldRequested")
    /\ IF ObserverMode("YieldAfter")
       THEN ToObserver("yielded", [Back EXCEPT !.yield_timer = "off"])
       ELSE actor' = Back /\ UNCHANGED <<ask, handed>>
    /\ UNCHANGED <<session, cell, inbox, tasks, js, control, commands, emitted>>

OnNotify ==
    /\ TakesEvent("Notify")
    /\ actor' = Back /\ tasks' = [tasks EXCEPT !.notes = @ + 1]
    /\ UNCHANGED <<client, cell, inbox, js, control, commands, emitted, handed>>

OnToolCall ==
    /\ TakesEvent("ToolCall")
    /\ actor' = Back /\ tasks' = [tasks EXCEPT !.tools = @ + 1]
    /\ UNCHANGED <<client, cell, inbox, js, control, commands, emitted, handed>>

OnThreadPanicked ==
    /\ TakesEvent("ThreadPanicked")
    /\ actor' = Back
    /\ UNCHANGED <<client, cell, inbox, tasks, js, control, commands, emitted, handed>>

\* What follows the script's end: the callbacks are cancelled or drained.
RuntimeClosed(next) ==
    LET stop == actor.termination \/ cancelled IN
    /\ actor' = [next EXCEPT !.runtime_closed = TRUE,
                             !.pc = IF stop THEN "cancelling" ELSE "draining"]
    /\ tasks' = [tasks EXCEPT !.cancelled = @ \/ stop]

OnResult ==
    /\ TakesEvent("Result")
    /\ RuntimeClosed([actor EXCEPT !.yield_timer = "off"])
    /\ UNCHANGED <<client, cell, inbox, js, control, commands, emitted, handed>>

\* The channel is closed and no Result came: a completion with an error.
OnChannelClosed ==
    /\ actor.pc = "select" /\ ~actor.runtime_closed
    /\ events = <<>> /\ js.pc = "ended"
    /\ RuntimeClosed(actor)
    /\ UNCHANGED <<client, cell, inbox, thread, handed>>

\* finish_callbacks(DrainNotifications): notifications first, then tools
NotificationsDrained ==
    /\ actor.pc = "draining" /\ tasks.notes = 0
    /\ tasks' = [tasks EXCEPT !.cancelled = TRUE]
    /\ actor' = [actor EXCEPT !.pc = "drainTools"]
    /\ UNCHANGED <<client, cell, inbox, thread, handed>>

ToolsDrained ==
    /\ actor.pc = "drainTools" /\ tasks.tools = 0
    /\ actor' = [actor EXCEPT !.pc = "commit"]
    /\ UNCHANGED <<client, cell, inbox, tasks, thread, handed>>

\* finish_callbacks(Cancel)
CallbacksGone ==
    /\ actor.pc = "cancelling" /\ tasks.notes = 0 /\ tasks.tools = 0
    /\ actor' = [actor EXCEPT !.pc = "finish"]
    /\ UNCHANGED <<client, cell, inbox, tasks, thread, handed>>

MayCommit == phase.is = "Running" /\ ~cancelled

\* Mutant: the stored values are written before the phase is looked at.
CommitCompletion_writes_first ==
    /\ actor.pc = "commit"
    /\ committed' = TRUE
    /\ phase' = IF MayCommit
                THEN [phase EXCEPT !.is = "Completed",
                          !.event = Event("completed", actor.content_items)]
                ELSE phase
    /\ actor' = [actor EXCEPT !.pc = "deliver",
                     !.content_items = IF MayCommit THEN <<>> ELSE @]
    /\ UNCHANGED <<client, cancelled, inbox, tasks, thread, handed>>

(* commit_completion: the stored values and the phase, or the event back.  *)
CommitCompletion ==
    /\ actor.pc = "commit"
    /\ committed' = MayCommit
    /\ phase' = IF MayCommit
                THEN [phase EXCEPT !.is = "Completed",
                          !.event = Event("completed", actor.content_items)]
                ELSE phase
    /\ actor' = [actor EXCEPT !.pc = "deliver",
                     !.content_items = IF MayCommit THEN <<>> ELSE @]
    /\ UNCHANGED <<client, cancelled, inbox, tasks, thread, handed>>

DeliverCompletion ==
    LET delivered == IsWaiting(actor.observer) IN
    /\ actor.pc = "deliver" /\ phase.is = "Completed"
    /\ ask' = Answered({actor.observer}, phase.event)
    /\ phase' = IF delivered THEN Phase("Tombstone") ELSE phase
    /\ cancelled' = (cancelled \/ delivered)
    /\ actor' = [actor EXCEPT !.observer = NoOne,
                              !.pc = IF delivered THEN "leave" ELSE "poll"]
    /\ UNCHANGED <<session, committed, inbox, tasks, thread, handed>>

DeliverRejected ==
    /\ actor.pc = "deliver" /\ phase.is # "Completed"
    /\ actor' = [actor EXCEPT !.pc = "finish"]
    /\ UNCHANGED <<client, cell, inbox, tasks, thread, handed>>

TerminalEvent ==
    IF phase.is \in {"Completed", "CompletionClaimed"} THEN phase.event
    ELSE Event("terminated", actor.content_items)

FinishTermination ==
    /\ actor.pc = "finish"
    /\ ask' = Answered({phase.tx, actor.observer}, TerminalEvent)
    /\ phase' = Phase("Tombstone") /\ cancelled' = TRUE
    /\ actor' = [actor EXCEPT !.pc = "leave", !.observer = NoOne]
    /\ UNCHANGED <<session, committed, inbox, tasks, thread, handed>>

\* After the loop: tombstone, the inbox dropped, the callbacks cancelled
Leave ==
    /\ actor.pc = "leave"
    /\ phase' = Phase("Tombstone")
    /\ DropInbox /\ begin_termination
    /\ tasks' = [tasks EXCEPT !.cancelled = TRUE]
    /\ actor' = [actor EXCEPT !.pc = "closing"]
    /\ UNCHANGED <<session, committed, events, emitted, handed>>

Closed ==
    /\ actor.pc = "closing" /\ tasks.notes = 0 /\ tasks.tools = 0
    /\ session' = [session EXCEPT !.registered = FALSE]
    /\ actor' = [actor EXCEPT !.pc = "done"]
    /\ UNCHANGED <<ask, cell, inbox, tasks, thread, handed>>

(***************************************************************************)
(* The specification                                                       *)
(***************************************************************************)

ClientStep ==
    \/ \E m \in Modes : Execute(m) \/ \E o \in Observations : Observe(o, m)
    \/ \E o \in Observations : ObserveRefused(o) \/ DropObservation(o)
    \/ \E t \in Terminations :
           Terminate(t) \/ TerminateCompleted(t) \/ TerminateRefused(t)
    \/ Shutdown

(* What the script does of its own accord; next to it, what the thread     *)
(* does whatever the script is.                                            *)
Script ==
    \/ JsOutput \/ JsAwait \/ JsResult \/ JsPanic
    \/ tool_callback \/ notify_callback \/ yield_control_callback

ThreadLoop == JsStart \/ JsCommand \/ JsPending \/ JsControl

TakeCommand ==
    \E o \in Observations :
        \/ SkipDropped(o) \/ RouteToCompleted(o) \/ RouteClosed(o)
        \/ ObserverBusy(o) \/ ObserveReadyFrontier(o) \/ BecomeObserver(o)

TakeEvent ==
    \/ OnStarted \/ OnPending \/ OnContentItem \/ OnYieldRequested \/ OnNotify
    \/ OnToolCall \/ OnThreadPanicked \/ OnResult \/ OnChannelClosed

ActorStep ==
    \/ Poll \/ SeeCancelled \/ TakeCommand \/ YieldTimer \/ TakeEvent
    \/ NotificationsDrained \/ ToolsDrained \/ CallbacksGone
    \/ CommitCompletion \/ DeliverCompletion \/ DeliverRejected
    \/ FinishTermination \/ Leave \/ Closed

Next ==
    \/ ClientStep \/ Script \/ ThreadLoop \/ NotifyEnds \/ ToolEnds
    \/ ActorStep \/ Elapse

(* The actor and the thread go on when they can; a timer fires; a killed   *)
(* script stops; the delegate honours the cancellation of a callback, as   *)
(* SessionRuntimeDelegate asks of it.  Nothing else is promised of script, *)
(* callbacks or clients.                                                   *)
Fairness ==
    /\ WF_vars(ActorStep) /\ WF_vars(Elapse)
    /\ WF_vars(ThreadLoop)
    /\ WF_vars(js.killed /\ JsResult)
    /\ WF_vars(CallbacksCancelled /\ (NotifyEnds \/ ToolEnds))

Spec == Init /\ [][Next]_vars /\ Fairness

(***************************************************************************)
(* Properties                                                              *)
(***************************************************************************)

Errors == {"closed", "missing", "busy", "already"}
Kinds == {"none", "yielded", "pending", "completed", "terminated"} \cup Errors
Upto(n) == [i \in 1..n |-> i]

\* What the variables hold; the thread's channels never hold more than the
\* script's calls, the observations and two terminations can send.
TypeOK ==
    /\ \A c \in Calls :
           /\ ask[c].st \in {"idle", "waiting", "dropped", "answered"}
           /\ ask[c].mode \in Modes /\ ask[c].answer.kind \in Kinds
           /\ (ask[c].answer.kind = "none") <=> (ask[c].st # "answered")
    /\ session \in [shutdown : BOOLEAN, registered : BOOLEAN]
    /\ phase.is \in {"Running", "Terminating", "Completed",
                     "CompletionClaimed", "Tombstone"}
    /\ (phase.tx \in Terminations) <=> (phase.is = "Terminating")
    /\ (phase.event # Nothing) <=> (phase.is \in {"Completed", "CompletionClaimed"})
    /\ cancelled \in BOOLEAN /\ committed \in BOOLEAN
    /\ inbox.queue \in Seq(Observations) /\ (~inbox.open => inbox.queue = <<>>)
    /\ actor.observer \in Observations \cup {NoOne}
    /\ tasks.notes + tasks.tools \in 0..MaxCalls
    /\ Len(control) <= 2
    /\ Len(commands) <= MaxCalls + Cardinality(Observations) + 1

Outcome(kind) == \E c \in Calls : ask[c].answer.kind = kind

\* CellState is "the single linearization point for a cell's terminal
\* outcome": no two calls are told different outcomes, and the session has
\* the cell's stored values exactly when they are told, or the phase holds,
\* a completion.  Of several terminations at most one is told an outcome.
OneOutcome ==
    /\ ~(Outcome("completed") /\ Outcome("terminated"))
    /\ Outcome("completed") => committed
    /\ Outcome("terminated") => ~committed
    /\ phase.is \in {"Completed", "CompletionClaimed"} => committed
    /\ phase.is \in {"Running", "Terminating"} => ~committed
    /\ \A t, u \in Terminations :
           {ask[t].answer.kind, ask[u].answer.kind}
               \subseteq {"completed", "terminated"} => t = u

Held == handed \o phase.event.items \o actor.content_items
InTransit == {i \in DOMAIN events : events[i].is = "ContentItem"}

\* No output is lost, repeated or reordered, whoever goes away: what was
\* handed out and what the cell holds are the first of the script's output,
\* and what is on its way are all the others, in order; and an answer that
\* ends the cell carries all the rest.
OutputConserved ==
    /\ actor.pc \notin {"leave", "closing", "done"} =>
           /\ Held = Upto(Len(Held)) /\ Len(Held) <= emitted.items
           /\ {events[i].item : i \in InTransit} = (Len(Held) + 1)..emitted.items
           /\ \A i, j \in InTransit : i < j => events[i].item < events[j].item
    /\ \A c \in Calls :
           ask[c].answer.kind \in {"completed", "terminated"} =>
               handed \o ask[c].answer.items = Upto(emitted.items)

\* runtime_paused says where the thread is: while it is set the thread waits
\* for a control command and none is on its way; and a thread that waits
\* with none on its way is known to be paused, or its Pending has yet to be
\* seen.  A frontier kept for the next observer is that of a paused thread.
PauseAgrees ==
    actor.pc \in {"poll", "command", "timer", "select"} /\ ~actor.termination =>
        /\ actor.runtime_paused => js.pc = "control" /\ control = <<>>
        /\ js.pc = "control" /\ control = <<>> =>
               \/ actor.runtime_paused
               \/ \E i \in DOMAIN events : events[i].is = "Pending"
        /\ actor.pending_frontier_ready => actor.runtime_paused

\* When the session can no longer route to the cell (closed), everything of
\* it is over: its thread has ended, no callback runs, every call has its
\* answer.
QuietWhenClosed ==
    actor.pc = "done" =>
        /\ js.pc = "ended" /\ tasks.notes = 0 /\ tasks.tools = 0
        /\ \A c \in Calls : ~IsWaiting(c)

\* What the actor believes of thread, callbacks and clients is so: over two
\* channels to a thread that pauses, with clients that come and go.
ActorInv == TypeOK /\ PauseAgrees /\ QuietWhenClosed

\* A cell that is terminated, or whose session shuts down, closes, whatever
\* the script does; with QuietWhenClosed, the termination is answered and
\* shutdown, which waits for the cells' tasks, returns.
ClosesWhenCancelled == cancelled ~> actor.pc = "done"

Settles(o, m) ==
    ask[o].st = "waiting" /\ ask[o].mode = m ~> ask[o].st # "waiting"

NotificationsEnd == []<>(tasks.notes = 0)
ScriptPauses == []<>(js.pc # "run")

\* An observation with a deadline is answered even if the script never
\* pauses, provided notifications end: a script that has ended is not
\* reported before they have.
YieldAnswered ==
    NotificationsEnd => \A o \in Observations : Settles(o, "YieldAfter")

\* No frontier is missed: if the script does not run for ever and the
\* notifications end, every observation of the pending frontier is answered.
FrontierAnswered ==
    NotificationsEnd /\ ScriptPauses =>
        \A o \in Observations : Settles(o, "PendingFrontier")

\* Both: no client waits for ever on a cell that could answer it.
ObservationsAnswered == YieldAnswered /\ FrontierAnswered

=============================================================================
