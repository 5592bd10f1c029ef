-------------------------- MODULE CellActor_proofs --------------------------
(***************************************************************************)
(* Proofs about CellActor, for any calls and any bounds on what the script *)
(* does: a cell has one outcome, the actor's picture of thread, callbacks  *)
(* and clients is right, and no output is lost.                            *)
(***************************************************************************)
EXTENDS CellActor, FiniteSetTheorems, FunctionTheorems, SequenceTheorems, TLAPS

(***************************************************************************)
(* The inductive invariant.  First the types of all values.                *)
(***************************************************************************)

Answers == [kind : Kinds, items : Seq(Nat)]
AskStates == [st : {"idle", "waiting", "dropped", "answered"}, mode : Modes, answer : Answers]
PhaseNames == {"Running", "Terminating", "Completed", "CompletionClaimed", "Tombstone"}
Phases == [is : PhaseNames, tx : Terminations \cup {NoOne}, event : Answers]
InLoop == {"poll", "command", "timer", "select"}
Gone == {"leave", "closing", "done"}
Ending == {"cancelling", "draining", "drainTools", "commit", "deliver", "finish"} \cup Gone
ActorStates == [pc : {"none"} \cup InLoop \cup Ending, observer : Observations \cup {NoOne},
                termination : BOOLEAN, runtime_closed : BOOLEAN, runtime_paused : BOOLEAN,
                pending_frontier_ready : BOOLEAN, yield_timer : {"off", "armed", "elapsed"},
                content_items : Seq(Nat)]
CallNames == {"YieldRequested", "Notify", "ToolCall"}
Messages == [is : {"Started", "ContentItem", "Pending", "Result", "ThreadPanicked"} \cup CallNames,
             item : Nat]
JsStates == [pc : {"none", "init", "run", "next", "command", "control", "ended"}, killed : BOOLEAN]
Controls == {"Continue", "Resume", "Terminate"}
Commands == {"ToolResponse", "ObservePendingFrontier", "Terminate"}

TypeInv ==
    /\ ask \in [Calls -> AskStates]
    /\ session \in [shutdown : BOOLEAN, registered : BOOLEAN]
    /\ phase \in Phases
    /\ cancelled \in BOOLEAN /\ committed \in BOOLEAN
    /\ inbox \in [open : BOOLEAN, queue : Seq(Observations)]
    /\ actor \in ActorStates
    /\ tasks \in [notes : Nat, tools : Nat, cancelled : BOOLEAN]
    /\ js \in JsStates
    /\ events \in Seq(Messages) /\ control \in Seq(Controls) /\ commands \in Seq(Commands)
    /\ emitted \in [items : Nat, calls : 0..MaxCalls]
    /\ handed \in Seq(Nat)

(***************************************************************************)
(* The outcome.                                                            *)
(***************************************************************************)

Outcomes == {"completed", "terminated"}
HasOutcome(c) == ask[c].answer.kind \in Outcomes
Kept == phase.is \in {"Completed", "CompletionClaimed"}

\* A call has an answer when it is answered.
AnswersOK == \A c \in Calls : (ask[c].answer.kind = "none") <=> (ask[c].st # "answered")

\* The phase holds a termination's channel, a completion, or nothing.
PhaseOK ==
    /\ (phase.tx \in Terminations) <=> (phase.is = "Terminating")
    /\ Kept => phase.event.kind = "completed" /\ committed
    /\ ~Kept => phase.event = Nothing
    /\ phase.is \in {"Running", "Terminating"} => ~committed

\* What the place of the actor says of the phase and of the thread.
PlaceOK ==
    /\ (phase.is = "Tombstone") <=> (actor.pc \in Gone)
    /\ actor.pc \in Ending => actor.runtime_closed
    /\ Kept => actor.runtime_closed /\ actor.pc \notin {"draining", "drainTools", "commit"}

OutcomesOK ==
    /\ \A c \in Calls : ask[c].answer.kind = "completed" => committed
    /\ \A c \in Calls : ask[c].answer.kind = "terminated" => ~committed /\ phase.is = "Tombstone"
    /\ \A t \in Terminations : HasOutcome(t) => phase.is \in {"CompletionClaimed", "Tombstone"}
    /\ \A t, u \in Terminations : HasOutcome(t) /\ HasOutcome(u) => t = u

\* Before execute nobody has called.
BeginOK == actor.pc = "none" => \A c \in Calls : ask[c].st = "idle"

OutcomeInv == AnswersOK /\ PhaseOK /\ PlaceOK /\ OutcomesOK /\ BeginOK

(***************************************************************************)
(* Who waits, and where.                                                   *)
(***************************************************************************)

Queued == {inbox.queue[i] : i \in DOMAIN inbox.queue}

\* A call that waits is in the inbox, the observer or the termination.
Placed == \A c \in Calls : IsWaiting(c) => c \in Queued \/ c = actor.observer \/ c = phase.tx

\* When nobody is left there, and when no callback is.
SlotsOK ==
    /\ Kept /\ actor.pc \notin {"deliver", "finish"} => actor.observer = NoOne
    /\ actor.pc \in Gone => actor.observer = NoOne
    /\ actor.pc \in {"closing", "done"} => ~inbox.open
    /\ ~inbox.open => inbox.queue = <<>>
    /\ actor.pc = "done" => tasks.notes = 0 /\ tasks.tools = 0

\* A call is in the inbox once, and has begun.
QueueOK ==
    /\ \A i, j \in DOMAIN inbox.queue : i # j => inbox.queue[i] # inbox.queue[j]
    /\ \A o \in Queued : ask[o].st # "idle"

(***************************************************************************)
(* The script's thread.                                                    *)
(***************************************************************************)

Last(i) == i = Len(events)

\* The thread's last message is its last; nothing comes from one not begun.
ThreadOK ==
    /\ (js.pc = "none") <=> (actor.pc = "none")
    /\ actor.runtime_closed => js.pc = "ended" /\ events = <<>>
    /\ \A i \in DOMAIN events :
           /\ events[i].is \in {"Result", "ThreadPanicked"} => Last(i) /\ js.pc = "ended"
           /\ events[i].is = "Pending" => Last(i) /\ js.pc \in {"control", "ended"}

PendingSeen == \A i \in DOMAIN events : events[i].is # "Pending"

\* Before a termination: exactly one of Pending, runtime_paused and a control
\* command belongs to a thread at the frontier, and none to another.
PauseOK ==
    ~actor.termination =>
        /\ control # <<>> => /\ js.pc = "control" /\ Len(control) = 1
                             /\ control[1] # "Terminate"
                             /\ ~actor.runtime_paused /\ PendingSeen
        /\ actor.runtime_paused => js.pc = "control" /\ PendingSeen
        /\ js.pc = "control" /\ control = <<>> => actor.runtime_paused \/ ~PendingSeen
        /\ ~PendingSeen => js.pc = "control"
        /\ actor.pending_frontier_ready => actor.runtime_paused

\* After it the thread ends before it asks for a frontier again.
StopOK ==
    /\ Len(control) <= 2
    /\ actor.termination /\ js.pc # "ended" =>
           /\ \E i \in DOMAIN commands : commands[i] = "Terminate"
           /\ ~PendingSeen => Len(control) = 1 /\ control[1] = "Terminate"

(***************************************************************************)
(* How much is on its way.                                                 *)
(***************************************************************************)

CallEvents == {i \in DOMAIN events : events[i].is \in {"Notify", "ToolCall"}}
Taken == {o \in Observations : ask[o].st # "idle"} \ Queued

CallsSent == Cardinality(CallEvents)
CallsTaken == Cardinality(Taken)
Stops == IF actor.termination THEN 1 ELSE 0

\* A callback was a message, a response was a callback; a request for the
\* frontier stands for an observation taken from the inbox.
CountOK ==
    /\ tasks.notes + tasks.tools + CallsSent <= emitted.calls
    /\ Len(commands) + tasks.notes + tasks.tools + CallsSent <= emitted.calls + CallsTaken + Stops

(***************************************************************************)
(* The output.                                                             *)
(***************************************************************************)

Transit == {events[i].item : i \in InTransit}
InOrder == \A i, j \in InTransit : i < j => events[i].item < events[j].item

\* What the cell has and what is on its way to it, until it has told the rest.
HeldOK ==
    actor.pc \notin Gone => /\ Held = Upto(Len(Held)) /\ Len(Held) <= emitted.items
                            /\ Transit = (Len(Held) + 1)..emitted.items /\ InOrder

\* An outcome comes with all the rest; the script's end is seen by then.
ToldAll ==
    \A c \in Calls : HasOutcome(c) =>
        /\ handed \o ask[c].answer.items = Upto(emitted.items)
        /\ actor.runtime_closed /\ phase.is \in {"CompletionClaimed", "Tombstone"}

\* A completion that is kept has taken all items with it.
NoneKept == Kept => actor.content_items = <<>>

OutputInv == HeldOK /\ ToldAll /\ NoneKept

(***************************************************************************)
(* Types.                                                                  *)
(***************************************************************************)

\* The constant values.
LEMMA ValuesTyped ==
  /\ Nothing \in Answers /\ Nothing.kind = "none" /\ Nothing.items = <<>>
  /\ \A k \in Kinds, s \in Seq(Nat) : /\ Event(k, s) \in Answers
                                      /\ Event(k, s).kind = k /\ Event(k, s).items = s
  /\ \A n \in PhaseNames : /\ Phase(n) \in Phases /\ Phase(n).is = n
                           /\ Phase(n).tx = NoOne /\ Phase(n).event = Nothing
<1>1. <<>> \in Seq(Nat)
  OBVIOUS
<1>2. Nothing \in Answers /\ Nothing.kind = "none" /\ Nothing.items = <<>>
  BY <1>1 DEF Nothing, Event, Answers, Kinds
<1>3. \A k \in Kinds, s \in Seq(Nat) : /\ Event(k, s) \in Answers
                                       /\ Event(k, s).kind = k /\ Event(k, s).items = s
  BY DEF Event, Answers
<1>4. \A n \in PhaseNames : /\ Phase(n) \in Phases /\ Phase(n).is = n
                            /\ Phase(n).tx = NoOne /\ Phase(n).event = Nothing
  BY <1>2 DEF Phase, Phases
<1> QED
  BY <1>2, <1>3, <1>4

\* The calls are told apart.
LEMMA CallsDiffer ==
  /\ First \in Observations /\ Observations \subseteq Calls /\ Terminations \subseteq Calls
  /\ NoOne \notin Calls /\ \A o \in Observations : o \notin Terminations
  BY CellAssumption DEF Calls

\* The channel to a thread stays a channel.
LEMMA ToThreadTyped ==
  /\ \A s \in Seq(Controls), c \in Controls :
         /\ ToThread(s, c) \in Seq(Controls)
         /\ js.pc = "ended" => ToThread(s, c) = s
         /\ js.pc # "ended" => ToThread(s, c) = Append(s, c)
  /\ \A s \in Seq(Commands), c \in Commands :
         /\ ToThread(s, c) \in Seq(Commands)
         /\ js.pc = "ended" => ToThread(s, c) = s
         /\ js.pc # "ended" => ToThread(s, c) = Append(s, c)
  BY DEF ToThread

\* Answering: the calls of C that wait get e, the others are left alone.
Answering(C, e) ==
    /\ ask' \in [Calls -> AskStates]
    /\ \A c \in Calls :
           /\ c \in C /\ IsWaiting(c) => /\ ask'[c].st = "answered" /\ ask'[c].answer = e
                                         /\ ask'[c].mode = ask[c].mode
           /\ ~(c \in C /\ IsWaiting(c)) => ask'[c] = ask[c]

\* Answered answers.
LEMMA AnsweredIs ==
  ASSUME TypeInv, NEW C, NEW e \in Answers, ask' = Answered(C, e)
  PROVE  Answering(C, e)
<1>1. ask \in [Calls -> AskStates]
  BY DEF TypeInv
<1>2. ask' = [c \in Calls |-> ask'[c]]
  BY DEF Answered
<1>3. ASSUME NEW c \in Calls
      PROVE  /\ c \in C /\ IsWaiting(c) => /\ ask'[c].st = "answered" /\ ask'[c].answer = e
                                           /\ ask'[c].mode = ask[c].mode
             /\ ~(c \in C /\ IsWaiting(c)) => ask'[c] = ask[c]
             /\ ask'[c] \in AskStates
  <2>1. ask[c] \in AskStates
    BY <1>1
  <2>2. CASE c \in C /\ IsWaiting(c)
    <3>1. ask'[c] = [ask[c] EXCEPT !.st = "answered", !.answer = e]
      BY <2>2 DEF Answered
    <3> QED
      BY <2>1, <2>2, <3>1 DEF AskStates
  <2>3. CASE ~(c \in C /\ IsWaiting(c))
    <3>1. ask'[c] = ask[c]
      BY <2>3 DEF Answered
    <3> QED
      BY <2>1, <2>3, <3>1
  <2> QED
    BY <2>2, <2>3
<1> QED
  BY <1>2, <1>3 DEF Answering

\* A step of one call.
OneCall(c) ==
    /\ ask' \in [Calls -> AskStates]
    /\ \A d \in Calls \ {c} : ask'[d] = ask[d]

\* A step that rewrites one call.
LEMMA AskUpdate ==
  ASSUME TypeInv, NEW c \in Calls, NEW r \in AskStates, ask' = [ask EXCEPT ![c] = r]
  PROVE  OneCall(c) /\ ask'[c] = r
  BY DEF TypeInv, OneCall

\* A call that begins to wait, is refused, or is dropped.
LEMMA CallUpdate ==
  ASSUME TypeInv, NEW c \in Calls
  PROVE  /\ \A m \in Modes : ask' = [ask EXCEPT ![c].st = "waiting", ![c].mode = m]
              => /\ OneCall(c) /\ ask'[c].st = "waiting" /\ ask'[c].mode = m
                 /\ ask'[c].answer = ask[c].answer
         /\ \A s \in {"waiting", "dropped"} : ask' = [ask EXCEPT ![c].st = s]
              => /\ OneCall(c) /\ ask'[c].st = s /\ ask'[c].mode = ask[c].mode
                 /\ ask'[c].answer = ask[c].answer
         /\ \A e \in Answers : ask' = [ask EXCEPT ![c].st = "answered", ![c].answer = e]
              => /\ OneCall(c) /\ ask'[c].st = "answered" /\ ask'[c].mode = ask[c].mode
                 /\ ask'[c].answer = e
<1>1. ask \in [Calls -> AskStates] /\ ask[c] \in AskStates
  BY DEF TypeInv
<1>2. ASSUME NEW m \in Modes, ask' = [ask EXCEPT ![c].st = "waiting", ![c].mode = m]
      PROVE  /\ OneCall(c) /\ ask'[c].st = "waiting" /\ ask'[c].mode = m
             /\ ask'[c].answer = ask[c].answer
  <2> DEFINE r == [ask[c] EXCEPT !.st = "waiting", !.mode = m]
  <2>1. r \in AskStates /\ r.st = "waiting" /\ r.mode = m /\ r.answer = ask[c].answer
    BY <1>1 DEF AskStates
  <2>2. ask' = [ask EXCEPT ![c] = r]
    BY <1>1, <1>2
  <2> HIDE DEF r
  <2> QED
    BY <2>1, <2>2, AskUpdate
<1>3. ASSUME NEW s \in {"waiting", "dropped"}, ask' = [ask EXCEPT ![c].st = s]
      PROVE  /\ OneCall(c) /\ ask'[c].st = s /\ ask'[c].mode = ask[c].mode
             /\ ask'[c].answer = ask[c].answer
  <2> DEFINE r == [ask[c] EXCEPT !.st = s]
  <2>1. r \in AskStates /\ r.st = s /\ r.mode = ask[c].mode /\ r.answer = ask[c].answer
    BY <1>1 DEF AskStates
  <2>2. ask' = [ask EXCEPT ![c] = r]
    BY <1>1, <1>3
  <2> HIDE DEF r
  <2> QED
    BY <2>1, <2>2, AskUpdate
<1>4. ASSUME NEW e \in Answers, ask' = [ask EXCEPT ![c].st = "answered", ![c].answer = e]
      PROVE  /\ OneCall(c) /\ ask'[c].st = "answered" /\ ask'[c].mode = ask[c].mode
             /\ ask'[c].answer = e
  <2> DEFINE r == [ask[c] EXCEPT !.st = "answered", !.answer = e]
  <2>1. r \in AskStates /\ r.st = "answered" /\ r.mode = ask[c].mode /\ r.answer = e
    BY <1>1 DEF AskStates
  <2>2. ask' = [ask EXCEPT ![c] = r]
    BY <1>1, <1>4
  <2> HIDE DEF r
  <2> QED
    BY <2>1, <2>2, AskUpdate
<1> QED
  BY <1>2, <1>3, <1>4

\* A refused call has its error.
LEMMA RefuseIs ==
  ASSUME TypeInv, NEW c \in Calls, NEW k \in Errors, Refuse(c, k)
  PROVE  /\ OneCall(c) /\ ask'[c].st = "answered" /\ ask'[c].answer = Event(k, <<>>)
         /\ ask'[c].answer.kind = k
<1>1. k \in Kinds /\ <<>> \in Seq(Nat)
  BY DEF Kinds
<1>2. Event(k, <<>>) \in Answers /\ Event(k, <<>>).kind = k
  BY <1>1, ValuesTyped
<1>3. PICK e \in Answers : e = Event(k, <<>>)
  BY <1>2, Zenon
<1>4. ask' = [ask EXCEPT ![c].st = "answered", ![c].answer = e]
  BY <1>3 DEF Refuse
<1> QED
  BY <1>2, <1>3, <1>4, CallUpdate

\* Calls of clients.
LEMMA ClientTyped ==
  ASSUME TypeInv, ClientStep PROVE TypeInv'
<1>0. \A o \in Observations : Append(inbox.queue, o) \in Seq(Observations)
  <2>1. inbox.queue \in Seq(Observations)
    BY DEF TypeInv
  <2> QED
    BY <2>1
<1> USE CallsDiffer, ValuesTyped
<1>1. ASSUME NEW m \in Modes, Execute(m) PROVE TypeInv'
  <2>1. ask' \in [Calls -> AskStates]
    BY <1>1, CallUpdate DEF Execute, OneCall
  <2>2. actor' \in ActorStates
    BY <1>1 DEF TypeInv, Execute, ActorStates, InLoop
  <2>3. js' \in JsStates
    BY <1>1 DEF TypeInv, Execute, JsStates
  <2> QED
    BY <1>1, <2>1, <2>2, <2>3 DEF TypeInv, Execute, cell
<1>2. ASSUME NEW m \in Modes, NEW o \in Observations, Observe(o, m) PROVE TypeInv'
  <2>1. ask' \in [Calls -> AskStates]
    BY <1>2, CallUpdate DEF Observe, OneCall
  <2>2. inbox' \in [open : BOOLEAN, queue : Seq(Observations)]
    <3>1. PICK q \in Seq(Observations) : q = Append(inbox.queue, o)
      BY <1>0
    <3>2. inbox' = [inbox EXCEPT !.queue = q]
      BY <1>2, <3>1 DEF Observe
    <3> QED
      BY <3>2 DEF TypeInv
  <2> QED
    BY <1>2, <2>1, <2>2 DEF TypeInv, Observe, cell, thread
<1>3. ASSUME NEW o \in Observations, ObserveRefused(o) PROVE TypeInv'
  <2>1. PICK e \in Answers : ask' = [ask EXCEPT ![o].st = "answered", ![o].answer = e]
    <3>1. PICK k : /\ k \in {"closed", "missing", "already"}
                   /\ ask' = [ask EXCEPT ![o].st = "answered", ![o].answer = Event(k, <<>>)]
      BY <1>3 DEF ObserveRefused, Refuse
    <3>2. k \in Kinds /\ <<>> \in Seq(Nat)
      BY <3>1 DEF Kinds, Errors
    <3> QED
      BY <3>1, <3>2
  <2>2. ask' \in [Calls -> AskStates]
    BY <2>1, CallUpdate DEF OneCall
  <2> QED
    BY <1>3, <2>2 DEF TypeInv, ObserveRefused, cell, thread
<1>4. ASSUME NEW o \in Observations, DropObservation(o) PROVE TypeInv'
  <2>1. ask' \in [Calls -> AskStates]
    BY <1>4, CallUpdate DEF DropObservation, OneCall
  <2> QED
    BY <1>4, <2>1 DEF TypeInv, DropObservation, cell, thread
<1>5. ASSUME NEW t \in Terminations, Terminate(t) PROVE TypeInv'
  <2>1. ask' \in [Calls -> AskStates]
    BY <1>5, CallUpdate DEF Terminate, OneCall
  <2>2. phase' \in Phases
    BY <1>5 DEF TypeInv, Terminate, Phases, PhaseNames
  <2> QED
    BY <1>5, <2>1, <2>2 DEF TypeInv, Terminate, thread
<1>6. ASSUME NEW t \in Terminations, TerminateCompleted(t) PROVE TypeInv'
  <2>1. phase.event \in Answers
    BY DEF TypeInv, Phases
  <2>2. ask' \in [Calls -> AskStates]
    BY <1>6, <2>1, CallUpdate DEF TerminateCompleted, OneCall
  <2>3. phase' \in Phases
    BY <1>6 DEF TypeInv, TerminateCompleted, Phases, PhaseNames
  <2> QED
    BY <1>6, <2>2, <2>3 DEF TypeInv, TerminateCompleted, thread
<1>7. ASSUME NEW t \in Terminations, TerminateRefused(t) PROVE TypeInv'
  <2>1. PICK e \in Answers : ask' = [ask EXCEPT ![t].st = "answered", ![t].answer = e]
    <3>1. PICK k : /\ k \in {"closed", "missing", "already"}
                   /\ ask' = [ask EXCEPT ![t].st = "answered", ![t].answer = Event(k, <<>>)]
      BY <1>7 DEF TerminateRefused, Refuse
    <3>2. k \in Kinds /\ <<>> \in Seq(Nat)
      BY <3>1 DEF Kinds, Errors
    <3> QED
      BY <3>1, <3>2
  <2>2. ask' \in [Calls -> AskStates]
    BY <2>1, CallUpdate DEF OneCall
  <2> QED
    BY <1>7, <2>2 DEF TypeInv, TerminateRefused, cell, thread
<1>8. ASSUME Shutdown PROVE TypeInv'
  BY <1>8 DEF TypeInv, Shutdown, thread, Started
<1> QED
  BY <1>1, <1>2, <1>3, <1>4, <1>5, <1>6, <1>7, <1>8 DEF ClientStep

\* Steps of the thread and of the callbacks.
LEMMA ThreadTyped ==
  ASSUME TypeInv, Script \/ ThreadLoop \/ NotifyEnds \/ ToolEnds \/ Elapse PROVE TypeInv'
<1>0. \A e \in CallNames \cup {"Started", "Pending", "Result", "ThreadPanicked"} :
          Append(events, Message(e, 0)) \in Seq(Messages)
  <2>1. events \in Seq(Messages)
    BY DEF TypeInv
  <2>2. \A e \in CallNames \cup {"Started", "Pending", "Result", "ThreadPanicked"} :
            Message(e, 0) \in Messages
    BY DEF Message, Messages
  <2> QED
    BY <2>1, <2>2
<1>1. ASSUME Script PROVE TypeInv'
  <2>1. CASE JsOutput
    <3>1. events \in Seq(Messages) /\ emitted \in [items : Nat, calls : 0..MaxCalls]
      BY DEF TypeInv
    <3>2. Message("ContentItem", emitted.items + 1) \in Messages
      BY <3>1 DEF Message, Messages
    <3>3. events' \in Seq(Messages)
      BY <2>1, <3>1, <3>2 DEF JsOutput
    <3>4. emitted' \in [items : Nat, calls : 0..MaxCalls]
      BY <2>1, <3>1 DEF JsOutput
    <3> QED
      BY <2>1, <3>3, <3>4 DEF TypeInv, JsOutput, others, client, cell
  <2>2. ASSUME NEW call \in CallNames, JsCall(call) PROVE TypeInv'
    <3>1. events' \in Seq(Messages)
      BY <1>0, <2>2 DEF JsCall, Send
    <3>2. emitted' \in [items : Nat, calls : 0..MaxCalls]
      BY <2>2, CellAssumption DEF TypeInv, JsCall
    <3> QED
      BY <2>2, <3>1, <3>2 DEF TypeInv, JsCall, others, client, cell
  <2>3. CASE JsResult \/ JsPanic
    <3>1. events' \in Seq(Messages)
      BY <1>0, <2>3 DEF JsResult, JsPanic, Send
    <3>2. js' \in JsStates
      BY <2>3 DEF TypeInv, JsResult, JsPanic, JsStates
    <3> QED
      BY <2>3, <3>1, <3>2 DEF TypeInv, JsResult, JsPanic, others, client, cell
  <2>4. CASE JsAwait
    <3>1. js' \in JsStates
      BY <2>4 DEF TypeInv, JsAwait, JsStates
    <3> QED
      BY <2>4, <3>1 DEF TypeInv, JsAwait, others, client, cell
  <2> QED
    BY <1>1, <2>1, <2>2, <2>3, <2>4
       DEF Script, tool_callback, notify_callback, yield_control_callback, CallNames
<1>2. ASSUME ThreadLoop PROVE TypeInv'
  <2>1. CASE JsStart \/ JsPending
    <3>1. events' \in Seq(Messages)
      BY <1>0, <2>1 DEF JsStart, JsPending, Send
    <3>2. js' \in JsStates
      BY <2>1 DEF TypeInv, JsStart, JsPending, JsStates
    <3> QED
      BY <2>1, <3>1, <3>2 DEF TypeInv, JsStart, JsPending, others, client, cell
  <2>2. CASE JsCommand
    <3>1. commands' \in Seq(Commands)
      BY <2>2 DEF TypeInv, JsCommand
    <3>2. js' \in JsStates
      BY <2>2 DEF TypeInv, JsCommand, JsStates
    <3> QED
      BY <2>2, <3>1, <3>2 DEF TypeInv, JsCommand, others, client, cell
  <2>3. CASE JsControl
    <3>1. control' \in Seq(Controls)
      BY <2>3 DEF TypeInv, JsControl
    <3>2. js' \in JsStates
      BY <2>3 DEF TypeInv, JsControl, JsStates
    <3> QED
      BY <2>3, <3>1, <3>2 DEF TypeInv, JsControl, others, client, cell
  <2> QED
    BY <1>2, <2>1, <2>2, <2>3 DEF ThreadLoop
<1>3. ASSUME NotifyEnds PROVE TypeInv'
  <2>1. tasks' \in [notes : Nat, tools : Nat, cancelled : BOOLEAN]
    <3>1. PICK n \in Nat : n = tasks.notes - 1
      BY <1>3 DEF TypeInv, NotifyEnds
    <3> QED
      BY <1>3, <3>1 DEF TypeInv, NotifyEnds
  <2> QED
    BY <1>3, <2>1 DEF TypeInv, NotifyEnds, client, cell, thread
<1>4. ASSUME ToolEnds PROVE TypeInv'
  <2>1. tasks' \in [notes : Nat, tools : Nat, cancelled : BOOLEAN]
    <3>1. PICK n \in Nat : n = tasks.tools - 1
      BY <1>4 DEF TypeInv, ToolEnds
    <3> QED
      BY <1>4, <3>1 DEF TypeInv, ToolEnds
  <2>2. commands' \in Seq(Commands)
    BY <1>4, ToThreadTyped DEF TypeInv, ToolEnds, Commands
  <2> QED
    BY <1>4, <2>1, <2>2 DEF TypeInv, ToolEnds, client, cell
<1>5. ASSUME Elapse PROVE TypeInv'
  <2>1. actor' \in ActorStates
    BY <1>5 DEF TypeInv, Elapse, ActorStates
  <2> QED
    BY <1>5, <2>1 DEF TypeInv, Elapse, client, cell, thread
<1> QED
  BY <1>1, <1>2, <1>3, <1>4, <1>5

\* send_observer_event: the observer's answer, or the items put back.
LEMMA ToObserverIs ==
  ASSUME TypeInv, NEW k \in Kinds, NEW n \in ActorStates,
         n.content_items = actor.content_items, ToObserver(k, n)
  PROVE  /\ Answering({actor.observer}, Event(k, actor.content_items))
         /\ handed' \in Seq(Nat) /\ actor' \in ActorStates
         /\ handed' = IF IsWaiting(actor.observer) THEN handed \o actor.content_items ELSE handed
         /\ actor'.content_items = IF IsWaiting(actor.observer) THEN <<>> ELSE actor.content_items
         /\ actor'.observer = NoOne /\ actor'.pc = n.pc
         /\ actor'.termination = n.termination /\ actor'.runtime_closed = n.runtime_closed
         /\ actor'.runtime_paused = n.runtime_paused
         /\ actor'.pending_frontier_ready = n.pending_frontier_ready
<1>1. actor.content_items \in Seq(Nat) /\ handed \in Seq(Nat)
  BY DEF TypeInv, ActorStates
<1>2. Event(k, actor.content_items) \in Answers
  BY <1>1, ValuesTyped
<1>3. Answering({actor.observer}, Event(k, actor.content_items))
  BY <1>2, AnsweredIs DEF ToObserver
<1>4. handed' = IF IsWaiting(actor.observer) THEN handed \o actor.content_items ELSE handed
  BY DEF ToObserver
<1>5. handed' \in Seq(Nat)
  BY <1>1, <1>4
<1>6. PICK s \in Seq(Nat) : s = IF IsWaiting(actor.observer) THEN <<>> ELSE actor.content_items
  <2>1. (IF IsWaiting(actor.observer) THEN <<>> ELSE actor.content_items) \in Seq(Nat)
    BY <1>1
  <2> QED
    BY <2>1, Zenon
<1>7. actor' = [n EXCEPT !.observer = NoOne, !.content_items = s]
  BY <1>6 DEF ToObserver
<1>8. /\ actor' \in ActorStates /\ actor'.content_items = s
      /\ actor'.observer = NoOne /\ actor'.pc = n.pc
      /\ actor'.termination = n.termination /\ actor'.runtime_closed = n.runtime_closed
      /\ actor'.runtime_paused = n.runtime_paused
      /\ actor'.pending_frontier_ready = n.pending_frontier_ready
  BY <1>7 DEF ActorStates
<1> QED
  BY <1>3, <1>4, <1>5, <1>6, <1>8

\* The receiver of the commands is dropped, and with it what it holds.
LEMMA DropInboxIs ==
  ASSUME TypeInv, DropInbox
  PROVE  /\ Answering(Queued, Event("closed", <<>>))
         /\ inbox' \in [open : BOOLEAN, queue : Seq(Observations)]
         /\ inbox'.open = FALSE /\ inbox'.queue = <<>>
<1>1. "closed" \in Kinds /\ <<>> \in Seq(Nat) /\ <<>> \in Seq(Observations)
  BY DEF Kinds, Errors
<1>2. Event("closed", <<>>) \in Answers
  BY <1>1, ValuesTyped
<1>3. Answering(Queued, Event("closed", <<>>))
  BY <1>2, AnsweredIs DEF DropInbox, Queued
<1> QED
  BY <1>1, <1>3 DEF DropInbox

\* begin_termination over the two channels.
LEMMA BeginIs ==
  ASSUME TypeInv, begin_termination
  PROVE  /\ cancelled' = TRUE
         /\ commands' \in Seq(Commands) /\ control' \in Seq(Controls) /\ js' \in JsStates
         /\ js'.pc = js.pc
         /\ js.pc = "ended" => UNCHANGED <<commands, control>>
         /\ js.pc # "ended" => /\ commands' = Append(commands, "Terminate")
                               /\ control' = Append(control, "Terminate")
<1>1. commands \in Seq(Commands) /\ control \in Seq(Controls) /\ js \in JsStates
  BY DEF TypeInv
<1>2. js' \in JsStates /\ js'.pc = js.pc
  BY <1>1 DEF begin_termination, JsStates
<1>3. "Terminate" \in Commands /\ "Terminate" \in Controls
  BY DEF Commands, Controls
<1> QED
  BY <1>1, <1>2, <1>3, ToThreadTyped DEF begin_termination

\* A command taken from the inbox.
LEMMA TakesIs ==
  ASSUME TypeInv, NEW o \in Observations, TakesCommand(o)
  PROVE  /\ inbox' \in [open : BOOLEAN, queue : Seq(Observations)]
         /\ inbox.queue \in Seq(Observations) /\ inbox.queue # <<>> /\ o = inbox.queue[1]
         /\ inbox'.queue = Tail(inbox.queue) /\ inbox'.open = inbox.open
         /\ actor.pc \in {"command", "select"}
<1>1. inbox.queue \in Seq(Observations) /\ inbox.queue # <<>> /\ o = Head(inbox.queue)
      /\ actor.pc \in {"command", "select"}
  BY DEF TypeInv, TakesCommand
<1>2. PICK q \in Seq(Observations) : q = Tail(inbox.queue)
  <2>1. Tail(inbox.queue) \in Seq(Observations)
    BY <1>1
  <2> QED
    BY <2>1, Zenon
<1>3. inbox' = [inbox EXCEPT !.queue = q]
  BY <1>2 DEF TakesCommand
<1>4. inbox' \in [open : BOOLEAN, queue : Seq(Observations)] /\ inbox'.queue = q
      /\ inbox'.open = inbox.open
  BY <1>3 DEF TypeInv
<1> QED
  BY <1>1, <1>2, <1>4

\* An event taken from the thread's channel.
LEMMA EventIs ==
  ASSUME TypeInv, NEW e, TakesEvent(e)
  PROVE  /\ events \in Seq(Messages) /\ events # <<>> /\ events[1].is = e
         /\ events' = Tail(events) /\ events' \in Seq(Messages)
         /\ actor.pc = "select" /\ ~actor.runtime_closed
         /\ events[1] \in Messages
<1>1. events \in Seq(Messages) /\ events # <<>> /\ Head(events).is = e
      /\ events' = Tail(events) /\ actor.pc = "select" /\ ~actor.runtime_closed
  BY DEF TypeInv, TakesEvent
<1> QED
  BY <1>1

\* Back to the head of the loop.
LEMMA BackIs ==
  ASSUME TypeInv
  PROVE  /\ actor \in ActorStates /\ Back \in ActorStates /\ Back.pc = "poll"
         /\ Back.observer = actor.observer /\ Back.content_items = actor.content_items
         /\ Back.termination = actor.termination /\ Back.runtime_closed = actor.runtime_closed
         /\ Back.runtime_paused = actor.runtime_paused /\ Back.yield_timer = actor.yield_timer
         /\ Back.pending_frontier_ready = actor.pending_frontier_ready
  BY DEF TypeInv, Back, ActorStates, InLoop

\* What the three uses of send_observer_event have in common.
HandsOver(kind) ==
    /\ Answering({actor.observer}, Event(kind, actor.content_items))
    /\ handed' \in Seq(Nat) /\ actor' \in ActorStates
    /\ handed' = IF IsWaiting(actor.observer) THEN handed \o actor.content_items ELSE handed
    /\ actor'.content_items = IF IsWaiting(actor.observer) THEN <<>> ELSE actor.content_items
    /\ actor'.observer = NoOne /\ actor'.pc = "poll"
    /\ actor'.termination = actor.termination /\ actor'.runtime_closed = actor.runtime_closed

\* Output for an observer with a deadline.
LEMMA YieldIs ==
  ASSUME TypeInv, ToObserver("yielded", [Back EXCEPT !.yield_timer = "off"])
  PROVE  /\ HandsOver("yielded")
         /\ actor'.runtime_paused = actor.runtime_paused
         /\ actor'.pending_frontier_ready = actor.pending_frontier_ready
<1> DEFINE r == [Back EXCEPT !.yield_timer = "off"]
<1>1. /\ r \in ActorStates /\ r.content_items = actor.content_items /\ r.pc = "poll"
      /\ r.termination = actor.termination /\ r.runtime_closed = actor.runtime_closed
      /\ r.runtime_paused = actor.runtime_paused
      /\ r.pending_frontier_ready = actor.pending_frontier_ready
  BY BackIs DEF ActorStates
<1> HIDE DEF r
<1>2. PICK n : n = r
  OBVIOUS
<1>3. ToObserver("yielded", n)
  BY <1>2 DEF r
<1>4. "yielded" \in Kinds
  BY DEF Kinds
<1> QED
  BY <1>1, <1>2, <1>3, <1>4, ToObserverIs DEF HandsOver

\* The frontier for an observer that waits for it.
LEMMA PendingIs ==
  ASSUME TypeInv,
         ToObserver("pending", [Back EXCEPT !.runtime_paused = TRUE, !.yield_timer = "off",
                                    !.pending_frontier_ready = ~IsWaiting(actor.observer)])
  PROVE  /\ HandsOver("pending")
         /\ actor'.runtime_paused = TRUE
         /\ actor'.pending_frontier_ready = ~IsWaiting(actor.observer)
<1>0. PICK b \in BOOLEAN : b = ~IsWaiting(actor.observer)
  BY Zenon
<1> DEFINE r == [Back EXCEPT !.runtime_paused = TRUE, !.yield_timer = "off",
                     !.pending_frontier_ready = b]
<1>1. /\ r \in ActorStates /\ r.content_items = actor.content_items /\ r.pc = "poll"
      /\ r.termination = actor.termination /\ r.runtime_closed = actor.runtime_closed
      /\ r.runtime_paused = TRUE /\ r.pending_frontier_ready = b
  BY BackIs DEF ActorStates
<1> HIDE DEF r
<1>2. PICK n : n = r
  OBVIOUS
<1>3. ToObserver("pending", n)
  BY <1>0, <1>2 DEF r
<1>4. "pending" \in Kinds
  BY DEF Kinds
<1> QED
  BY <1>0, <1>1, <1>2, <1>3, <1>4, ToObserverIs DEF HandsOver

\* Steps that only move the actor, or that answer a command.
LEMMA CommandTyped ==
  ASSUME TypeInv, Poll \/ SeeCancelled \/ TakeCommand \/ YieldTimer PROVE TypeInv'
<1>0. /\ phase.event \in Answers /\ actor \in ActorStates /\ ask \in [Calls -> AskStates]
      /\ actor.content_items \in Seq(Nat) /\ handed \in Seq(Nat) /\ <<>> \in Seq(Nat)
      /\ {"closed", "busy", "pending", "yielded"} \subseteq Kinds
  BY DEF TypeInv, Phases, ActorStates, Kinds, Errors
<1>1. ASSUME Poll PROVE TypeInv'
  <2>1. actor' \in ActorStates
    BY <1>0, <1>1 DEF Poll, ActorStates, InLoop
  <2> QED
    BY <1>1, <2>1 DEF TypeInv, Poll, client, cell, thread
<1>2. ASSUME SeeCancelled PROVE TypeInv'
  <2>1. actor' \in ActorStates
    BY <1>0, <1>2 DEF SeeCancelled, ActorStates, InLoop, Ending
  <2>2. tasks' \in [notes : Nat, tools : Nat, cancelled : BOOLEAN]
    BY <1>2 DEF SeeCancelled, TypeInv
  <2>3. /\ ask' \in [Calls -> AskStates]
        /\ inbox' \in [open : BOOLEAN, queue : Seq(Observations)]
    BY <1>2, DropInboxIs DEF SeeCancelled, Answering
  <2>4. /\ cancelled' \in BOOLEAN /\ commands' \in Seq(Commands) /\ control' \in Seq(Controls)
        /\ js' \in JsStates
    BY <1>2, BeginIs DEF SeeCancelled
  <2> QED
    BY <1>2, <2>1, <2>2, <2>3, <2>4 DEF TypeInv, SeeCancelled
<1>3. ASSUME YieldTimer PROVE TypeInv'
  <2>2. ask' \in [Calls -> AskStates] /\ handed' \in Seq(Nat) /\ actor' \in ActorStates
    BY <1>3, YieldIs DEF YieldTimer, Answering, HandsOver
  <2> QED
    BY <1>3, <2>2 DEF TypeInv, YieldTimer, cell, thread
<1>4. ASSUME NEW o \in Observations, SkipDropped(o) \/ RouteClosed(o) PROVE TypeInv'
  <2>1. ask' \in [Calls -> AskStates]
    <3>1. CASE SkipDropped(o)
      BY <1>0, <3>1 DEF SkipDropped, client
    <3>2. CASE RouteClosed(o)
      BY <1>0, <3>2, ValuesTyped, AnsweredIs DEF RouteClosed, Answering
    <3> QED
      BY <1>4, <3>1, <3>2
  <2>2. inbox' \in [open : BOOLEAN, queue : Seq(Observations)] /\ actor' \in ActorStates
    BY <1>4, TakesIs, BackIs DEF SkipDropped, RouteClosed
  <2> QED
    BY <1>4, <2>1, <2>2 DEF TypeInv, SkipDropped, RouteClosed, client, cell, thread
<1>5. ASSUME NEW o \in Observations, RouteToCompleted(o) PROVE TypeInv'
  <2>1. ask' \in [Calls -> AskStates]
    BY <1>0, <1>5, AnsweredIs DEF RouteToCompleted, Answering
  <2>2. inbox' \in [open : BOOLEAN, queue : Seq(Observations)]
    BY <1>5, TakesIs DEF RouteToCompleted
  <2>3. actor' \in ActorStates
    BY <1>0, <1>5 DEF RouteToCompleted, ActorStates, Ending, Gone
  <2>4. phase' \in Phases /\ cancelled' \in BOOLEAN
    BY <1>5, ValuesTyped DEF RouteToCompleted, PhaseNames
  <2> QED
    BY <1>5, <2>1, <2>2, <2>3, <2>4 DEF TypeInv, RouteToCompleted, thread
<1>6. ASSUME NEW o \in Observations, ObserverBusy(o) PROVE TypeInv'
  <2>1. ask' \in [Calls -> AskStates]
    BY <1>0, <1>6, ValuesTyped, AnsweredIs DEF ObserverBusy, Answering
  <2>2. inbox' \in [open : BOOLEAN, queue : Seq(Observations)]
    BY <1>6, TakesIs DEF ObserverBusy
  <2>3. LiveObserver \in Observations \cup {NoOne}
    BY <1>0 DEF LiveObserver, ActorStates
  <2>4. actor' \in ActorStates
    BY <1>6, <2>3, BackIs DEF ObserverBusy, ActorStates
  <2> QED
    BY <1>6, <2>1, <2>2, <2>4 DEF TypeInv, ObserverBusy, cell, thread
<1>7. ASSUME NEW o \in Observations, ObserveReadyFrontier(o) PROVE TypeInv'
  <2>1. ask' \in [Calls -> AskStates]
    BY <1>0, <1>7, ValuesTyped, AnsweredIs DEF ObserveReadyFrontier, Answering
  <2>2. inbox' \in [open : BOOLEAN, queue : Seq(Observations)]
    BY <1>7, TakesIs DEF ObserveReadyFrontier
  <2>3. actor' \in ActorStates
    BY <1>0, <1>7, BackIs DEF ObserveReadyFrontier, ActorStates
  <2>4. handed' \in Seq(Nat)
    BY <1>0, <1>7 DEF ObserveReadyFrontier
  <2> QED
    BY <1>7, <2>1, <2>2, <2>3, <2>4 DEF TypeInv, ObserveReadyFrontier, cell, thread
<1>8. ASSUME NEW o \in Observations, BecomeObserver(o) PROVE TypeInv'
  <2>1. inbox' \in [open : BOOLEAN, queue : Seq(Observations)]
    BY <1>8, TakesIs DEF BecomeObserver
  <2>2. PICK b \in BOOLEAN : b = (actor.pending_frontier_ready
                                   /\ ~(actor.runtime_paused /\ ask[o].mode = "YieldAfter"))
    BY Zenon
  <2>3. actor' = [Back EXCEPT !.observer = o, !.yield_timer = Timer(ask[o].mode),
                              !.runtime_paused = FALSE, !.pending_frontier_ready = b]
    BY <1>8, <2>2, BackIs DEF BecomeObserver
  <2>4. Timer(ask[o].mode) \in {"off", "armed", "elapsed"}
    BY DEF Timer
  <2>5. actor' \in ActorStates
    BY <2>3, <2>4, BackIs DEF ActorStates
  <2>6. commands' \in Seq(Commands) /\ control' \in Seq(Controls)
    <3>1. /\ "ObservePendingFrontier" \in Commands /\ "Continue" \in Controls /\ "Resume" \in Controls
          /\ commands \in Seq(Commands) /\ control \in Seq(Controls)
      BY DEF Commands, Controls, TypeInv
    <3> QED
      BY <1>8, <3>1, ToThreadTyped DEF BecomeObserver, resume_for_observation
  <2> QED
    BY <1>8, <2>1, <2>5, <2>6 DEF TypeInv, BecomeObserver, client, cell
<1> QED
  BY <1>1, <1>2, <1>3, <1>4, <1>5, <1>6, <1>7, <1>8 DEF TakeCommand

\* RuntimeClosed with the actor's record n.
LEMMA ClosedIs ==
  ASSUME TypeInv, NEW n \in ActorStates, RuntimeClosed(n),
         n.observer = actor.observer, n.content_items = actor.content_items,
         n.termination = actor.termination, n.runtime_paused = actor.runtime_paused,
         n.pending_frontier_ready = actor.pending_frontier_ready
  PROVE  /\ actor' \in ActorStates /\ actor'.runtime_closed = TRUE
         /\ actor'.pc \in {"cancelling", "draining"}
         /\ actor'.observer = actor.observer /\ actor'.content_items = actor.content_items
         /\ actor'.termination = actor.termination
         /\ actor'.runtime_paused = actor.runtime_paused
         /\ actor'.pending_frontier_ready = actor.pending_frontier_ready
         /\ tasks' \in [notes : Nat, tools : Nat, cancelled : BOOLEAN]
         /\ tasks'.notes = tasks.notes /\ tasks'.tools = tasks.tools
<1>1. PICK x \in {"cancelling", "draining"} : actor' = [n EXCEPT !.runtime_closed = TRUE, !.pc = x]
  BY DEF RuntimeClosed
<1>2. PICK b \in BOOLEAN : b = (tasks.cancelled \/ (actor.termination \/ cancelled))
  BY Zenon
<1>3. tasks' = [tasks EXCEPT !.cancelled = b]
  BY <1>2 DEF RuntimeClosed
<1>4. /\ tasks' \in [notes : Nat, tools : Nat, cancelled : BOOLEAN]
      /\ tasks'.notes = tasks.notes /\ tasks'.tools = tasks.tools
  BY <1>3 DEF TypeInv
<1> QED
  BY <1>1, <1>4 DEF ActorStates, Ending

\* The end of the script, reported or seen by the closed channel.
ClosesRuntime ==
    /\ actor.pc = "select" /\ ~actor.runtime_closed
    /\ actor' \in ActorStates /\ actor'.runtime_closed = TRUE
    /\ actor'.pc \in {"cancelling", "draining"}
    /\ actor'.observer = actor.observer /\ actor'.content_items = actor.content_items
    /\ actor'.termination = actor.termination
    /\ actor'.runtime_paused = actor.runtime_paused
    /\ actor'.pending_frontier_ready = actor.pending_frontier_ready
    /\ tasks' \in [notes : Nat, tools : Nat, cancelled : BOOLEAN]
    /\ tasks'.notes = tasks.notes /\ tasks'.tools = tasks.tools

\* Both actions do that.
LEMMA ResultIs ==
  ASSUME TypeInv, OnResult \/ OnChannelClosed PROVE ClosesRuntime
<1>1. CASE OnResult
  <2> DEFINE r == [actor EXCEPT !.yield_timer = "off"]
  <2>1. /\ r \in ActorStates
        /\ r.observer = actor.observer /\ r.content_items = actor.content_items
        /\ r.termination = actor.termination /\ r.runtime_paused = actor.runtime_paused
        /\ r.pending_frontier_ready = actor.pending_frontier_ready
    BY DEF TypeInv, ActorStates
  <2> HIDE DEF r
  <2>2. PICK n : n = r
    OBVIOUS
  <2>3. RuntimeClosed(n)
    BY <1>1, <2>2 DEF OnResult, r
  <2>4. actor.pc = "select" /\ ~actor.runtime_closed
    BY <1>1, EventIs DEF OnResult
  <2> QED
    BY <2>1, <2>2, <2>3, <2>4, ClosedIs DEF ClosesRuntime
<1>2. CASE OnChannelClosed
  <2>1. PICK n : n = actor
    OBVIOUS
  <2>2. n \in ActorStates /\ RuntimeClosed(n) /\ actor.pc = "select" /\ ~actor.runtime_closed
    BY <1>2, <2>1 DEF OnChannelClosed, TypeInv
  <2> QED
    BY <2>1, <2>2, ClosedIs DEF ClosesRuntime
<1> QED
  BY <1>1, <1>2

\* Events of the thread.
LEMMA EventTyped ==
  ASSUME TypeInv, TakeEvent PROVE TypeInv'
<1>0. actor \in ActorStates /\ actor.content_items \in Seq(Nat)
      /\ tasks \in [notes : Nat, tools : Nat, cancelled : BOOLEAN]
  BY DEF TypeInv, ActorStates
<1>1. ASSUME OnStarted PROVE TypeInv'
  <2>1. events' \in Seq(Messages)
    BY <1>1, EventIs DEF OnStarted
  <2>2. PICK x \in {"off", "armed", "elapsed"} : actor' = [Back EXCEPT !.yield_timer = x]
    BY <1>1 DEF OnStarted, Timer
  <2>3. actor' \in ActorStates
    BY <2>2, BackIs DEF ActorStates
  <2> QED
    BY <1>1, <2>1, <2>3 DEF TypeInv, OnStarted, client, cell
<1>2. ASSUME OnPending PROVE TypeInv'
  <2>1. events' \in Seq(Messages)
    BY <1>2, EventIs DEF OnPending
  <2>2. CASE ObserverMode("PendingFrontier")
    <3>1. ask' \in [Calls -> AskStates] /\ handed' \in Seq(Nat) /\ actor' \in ActorStates
      BY <1>2, <2>2, PendingIs DEF OnPending, HandsOver, Answering
    <3> QED
      BY <1>2, <2>1, <2>2, <3>1 DEF TypeInv, OnPending, cell
  <2>3. CASE ~ObserverMode("PendingFrontier")
    <3>1. actor' \in ActorStates
      BY <1>2, <2>3, BackIs DEF OnPending, ActorStates
    <3>2. control' \in Seq(Controls)
      <4>1. control \in Seq(Controls) /\ "Continue" \in Controls
        BY DEF TypeInv, Controls
      <4> QED
        BY <1>2, <2>3, <4>1, ToThreadTyped DEF OnPending
    <3> QED
      BY <1>2, <2>1, <2>3, <3>1, <3>2 DEF TypeInv, OnPending, cell
  <2> QED
    BY <2>2, <2>3
<1>3. ASSUME OnContentItem PROVE TypeInv'
  <2>1. events' \in Seq(Messages) /\ events[1] \in Messages /\ Head(events) = events[1]
    BY <1>3, EventIs DEF OnContentItem
  <2>2. PICK s \in Seq(Nat) : s = Append(actor.content_items, Head(events).item)
    <3>1. Head(events).item \in Nat
      BY <2>1 DEF Messages
    <3>2. Append(actor.content_items, Head(events).item) \in Seq(Nat)
      BY <1>0, <3>1
    <3> QED
      BY <3>2, Zenon
  <2>3. actor' = [Back EXCEPT !.content_items = s]
    BY <1>3, <2>2, BackIs DEF OnContentItem
  <2>4. actor' \in ActorStates
    BY <2>3, BackIs DEF ActorStates
  <2> QED
    BY <1>3, <2>1, <2>4 DEF TypeInv, OnContentItem, client, cell
<1>4. ASSUME OnYieldRequested PROVE TypeInv'
  <2>1. events' \in Seq(Messages)
    BY <1>4, EventIs DEF OnYieldRequested
  <2>2. ask' \in [Calls -> AskStates] /\ handed' \in Seq(Nat) /\ actor' \in ActorStates
    <3>1. CASE ObserverMode("YieldAfter")
      BY <1>4, <3>1, YieldIs DEF OnYieldRequested, HandsOver, Answering
    <3>2. CASE ~ObserverMode("YieldAfter")
      BY <1>4, <3>2, BackIs DEF OnYieldRequested, TypeInv
    <3> QED
      BY <3>1, <3>2
  <2> QED
    BY <1>4, <2>1, <2>2 DEF TypeInv, OnYieldRequested, cell
<1>5. ASSUME OnNotify \/ OnToolCall PROVE TypeInv'
  <2>1. events' \in Seq(Messages)
    BY <1>5, EventIs DEF OnNotify, OnToolCall
  <2>2. tasks' \in [notes : Nat, tools : Nat, cancelled : BOOLEAN]
    BY <1>0, <1>5 DEF OnNotify, OnToolCall
  <2>3. actor' \in ActorStates
    BY <1>5, BackIs DEF OnNotify, OnToolCall
  <2> QED
    BY <1>5, <2>1, <2>2, <2>3 DEF TypeInv, OnNotify, OnToolCall, client, cell
<1>6. ASSUME OnThreadPanicked PROVE TypeInv'
  <2>1. events' \in Seq(Messages) /\ actor' \in ActorStates
    BY <1>6, EventIs, BackIs DEF OnThreadPanicked
  <2> QED
    BY <1>6, <2>1 DEF TypeInv, OnThreadPanicked, client, cell
<1>7. ASSUME OnResult \/ OnChannelClosed PROVE TypeInv'
  <2>1. ClosesRuntime
    BY <1>7, ResultIs
  <2>2. events' \in Seq(Messages)
    <3>1. CASE OnResult
      BY <3>1, EventIs DEF OnResult
    <3>2. CASE OnChannelClosed
      BY <3>2 DEF OnChannelClosed, thread, TypeInv
    <3> QED
      BY <1>7, <3>1, <3>2
  <2> QED
    BY <1>7, <2>1, <2>2 DEF TypeInv, ClosesRuntime, OnResult, OnChannelClosed, client, cell, thread
<1> QED
  BY <1>1, <1>2, <1>3, <1>4, <1>5, <1>6, <1>7 DEF TakeEvent

\* What the end of the cell does to the actor's record: its place, and the
\* observer or the items.
EndMove ==
    /\ actor' \in ActorStates
    /\ actor'.termination = actor.termination /\ actor'.runtime_closed = actor.runtime_closed
    /\ actor'.runtime_paused = actor.runtime_paused
    /\ actor'.pending_frontier_ready = actor.pending_frontier_ready

\* A step from one place to the next.
LEMMA MoveIs ==
  ASSUME TypeInv, NEW x \in Ending \cup InLoop, actor' = [actor EXCEPT !.pc = x]
  PROVE  /\ EndMove /\ actor'.pc = x
         /\ actor'.observer = actor.observer /\ actor'.content_items = actor.content_items
  BY DEF TypeInv, ActorStates, EndMove

\* The steps after the script has ended.
LEMMA EndTyped ==
  ASSUME TypeInv,
         \/ NotificationsDrained \/ ToolsDrained \/ CallbacksGone
         \/ CommitCompletion \/ DeliverCompletion \/ DeliverRejected
         \/ FinishTermination \/ Leave \/ Closed
  PROVE  TypeInv' /\ EndMove
<1>0. /\ {"drainTools", "commit", "finish", "deliver", "leave", "closing", "done"} \subseteq Ending
      /\ tasks \in [notes : Nat, tools : Nat, cancelled : BOOLEAN]
      /\ actor \in ActorStates /\ actor.content_items \in Seq(Nat) /\ phase \in Phases
      /\ phase.event \in Answers
  BY DEF Ending, Gone, TypeInv, ActorStates, Phases
<1>1. ASSUME NotificationsDrained PROVE TypeInv' /\ EndMove
  <2>1. EndMove
    BY <1>0, <1>1, MoveIs DEF NotificationsDrained
  <2>2. tasks' \in [notes : Nat, tools : Nat, cancelled : BOOLEAN]
    BY <1>0, <1>1 DEF NotificationsDrained
  <2> QED
    BY <1>1, <2>1, <2>2 DEF TypeInv, EndMove, NotificationsDrained, client, cell, thread
<1>2. ASSUME ToolsDrained \/ CallbacksGone \/ DeliverRejected PROVE TypeInv' /\ EndMove
  <2>1. EndMove
    BY <1>0, <1>2, MoveIs DEF ToolsDrained, CallbacksGone, DeliverRejected
  <2> QED
    BY <1>2, <2>1 DEF TypeInv, EndMove, ToolsDrained, CallbacksGone, DeliverRejected,
                      client, cell, thread
<1>3. ASSUME CommitCompletion PROVE TypeInv' /\ EndMove
  <2>1. Event("completed", actor.content_items) \in Answers
    BY <1>0, ValuesTyped DEF Kinds
  <2>2. phase' \in Phases
    <3>1. CASE MayCommit
      BY <1>0, <1>3, <2>1, <3>1 DEF CommitCompletion, Phases, PhaseNames
    <3>2. CASE ~MayCommit
      BY <1>0, <1>3, <3>2 DEF CommitCompletion
    <3> QED
      BY <3>1, <3>2
  <2>3. PICK s \in Seq(Nat) : s = IF MayCommit THEN <<>> ELSE actor.content_items
    <3>1. (IF MayCommit THEN <<>> ELSE actor.content_items) \in Seq(Nat)
      BY <1>0
    <3> QED
      BY <3>1, Zenon
  <2>4. actor' = [actor EXCEPT !.pc = "deliver", !.content_items = s]
    BY <1>3, <2>3 DEF CommitCompletion
  <2>5. EndMove
    BY <1>0, <2>4 DEF EndMove, ActorStates
  <2>6. committed' \in BOOLEAN
    BY <1>3 DEF CommitCompletion, MayCommit
  <2> QED
    BY <1>3, <2>2, <2>5, <2>6 DEF TypeInv, EndMove, CommitCompletion, client, thread
<1>4. ASSUME DeliverCompletion PROVE TypeInv' /\ EndMove
  <2>1. ask' \in [Calls -> AskStates]
    BY <1>0, <1>4, AnsweredIs DEF DeliverCompletion, Answering
  <2>2. phase' \in Phases
    BY <1>0, <1>4, ValuesTyped DEF DeliverCompletion, PhaseNames
  <2>3. PICK x \in {"leave", "poll"} : actor' = [actor EXCEPT !.observer = NoOne, !.pc = x]
    BY <1>4 DEF DeliverCompletion
  <2>4. EndMove
    BY <1>0, <2>3 DEF EndMove, ActorStates, InLoop
  <2>5. cancelled' \in BOOLEAN
    BY <1>4 DEF DeliverCompletion, TypeInv, IsWaiting
  <2> QED
    BY <1>4, <2>1, <2>2, <2>4, <2>5 DEF TypeInv, EndMove, DeliverCompletion, thread
<1>5. ASSUME FinishTermination PROVE TypeInv' /\ EndMove
  <2>1. TerminalEvent \in Answers
    BY <1>0, ValuesTyped DEF TerminalEvent, Kinds
  <2>2. ask' \in [Calls -> AskStates]
    BY <1>5, <2>1, AnsweredIs DEF FinishTermination, Answering
  <2>3. phase' \in Phases
    BY <1>5, ValuesTyped DEF FinishTermination, PhaseNames
  <2>4. EndMove
    BY <1>0, <1>5 DEF FinishTermination, EndMove, ActorStates
  <2> QED
    BY <1>5, <2>2, <2>3, <2>4 DEF TypeInv, EndMove, FinishTermination, thread
<1>6. ASSUME Leave PROVE TypeInv' /\ EndMove
  <2>1. /\ ask' \in [Calls -> AskStates]
        /\ inbox' \in [open : BOOLEAN, queue : Seq(Observations)]
    BY <1>6, DropInboxIs DEF Leave, Answering
  <2>2. /\ cancelled' \in BOOLEAN /\ commands' \in Seq(Commands) /\ control' \in Seq(Controls)
        /\ js' \in JsStates
    BY <1>6, BeginIs DEF Leave
  <2>3. phase' \in Phases
    BY <1>6, ValuesTyped DEF Leave, PhaseNames
  <2>4. EndMove
    BY <1>0, <1>6, MoveIs DEF Leave
  <2>5. tasks' \in [notes : Nat, tools : Nat, cancelled : BOOLEAN]
    BY <1>0, <1>6 DEF Leave
  <2> QED
    BY <1>6, <2>1, <2>2, <2>3, <2>4, <2>5 DEF TypeInv, EndMove, Leave
<1>7. ASSUME Closed PROVE TypeInv' /\ EndMove
  <2>1. EndMove
    BY <1>0, <1>7, MoveIs DEF Closed
  <2>2. session' \in [shutdown : BOOLEAN, registered : BOOLEAN]
    BY <1>7 DEF Closed, TypeInv
  <2> QED
    BY <1>7, <2>1, <2>2 DEF TypeInv, EndMove, Closed, cell, thread
<1> QED
  BY <1>1, <1>2, <1>3, <1>4, <1>5, <1>6, <1>7

\* The types are kept.
LEMMA TypeStep ==
  ASSUME TypeInv, [Next]_vars PROVE TypeInv'
<1>1. UNCHANGED vars => TypeInv'
  BY DEF TypeInv, vars, client, cell, thread
<1> QED
  BY <1>1, ClientTyped, ThreadTyped, CommandTyped, EventTyped, EndTyped DEF Next, ActorStep

\* The initial state has them.
LEMMA TypeInit == Init => TypeInv
<1> SUFFICES ASSUME Init PROVE TypeInv
  OBVIOUS
<1>1. ask \in [Calls -> AskStates]
  BY ValuesTyped DEF Init, AskStates, Modes
<1>2. phase \in Phases
  BY ValuesTyped DEF Init, PhaseNames
<1>3. actor \in ActorStates
  BY DEF Init, ActorStates
<1>4. /\ inbox \in [open : BOOLEAN, queue : Seq(Observations)]
      /\ events \in Seq(Messages) /\ control \in Seq(Controls) /\ commands \in Seq(Commands)
      /\ handed \in Seq(Nat)
  BY DEF Init
<1>5. js \in JsStates
  BY DEF Init, JsStates
<1>6. /\ emitted \in [items : Nat, calls : 0..MaxCalls]
      /\ tasks \in [notes : Nat, tools : Nat, cancelled : BOOLEAN]
      /\ session \in [shutdown : BOOLEAN, registered : BOOLEAN]
  BY CellAssumption DEF Init
<1> QED
  BY <1>1, <1>2, <1>3, <1>4, <1>5, <1>6 DEF Init, TypeInv

(***************************************************************************)
(* One outcome.                                                            *)
(***************************************************************************)

\* No call is told an outcome in this step.
Untold ==
    /\ AnswersOK'
    /\ \A c \in Calls : ask'[c].answer.kind \in Outcomes => ask'[c].answer = ask[c].answer

\* A step that leaves phase and stored values alone and tells no outcome.
LEMMA OutcomeKept ==
  ASSUME OutcomeInv, UNCHANGED <<phase, committed>>, Untold, PlaceOK', BeginOK'
  PROVE  OutcomeInv'
<1>1. PhaseOK'
  BY DEF OutcomeInv, PhaseOK, Kept
<1>2. OutcomesOK'
  BY CallsDiffer DEF OutcomeInv, OutcomesOK, Untold, Outcomes, HasOutcome
<1> QED
  BY <1>1, <1>2 DEF OutcomeInv, Untold

\* A step that tells nobody anything.
LEMMA SameUntold ==
  ASSUME OutcomeInv, UNCHANGED ask PROVE Untold
  BY DEF OutcomeInv, AnswersOK, Untold

\* A step that answers, but with no outcome.
LEMMA AnswerUntold ==
  ASSUME OutcomeInv, NEW C, NEW e, e.kind \notin Outcomes \cup {"none"}, Answering(C, e)
  PROVE  Untold
  BY DEF OutcomeInv, AnswersOK, Untold, Answering, Outcomes, IsWaiting

\* A step of one call that tells it no outcome.
LEMMA OneUntold ==
  ASSUME OutcomeInv, NEW c \in Calls, OneCall(c),
         \/ /\ ask'[c].answer = ask[c].answer
            /\ ask[c].st # "answered" /\ ask'[c].st # "answered"
         \/ /\ ask'[c].answer.kind \notin Outcomes \cup {"none"}
            /\ ask'[c].st = "answered"
  PROVE  Untold
  BY DEF OutcomeInv, AnswersOK, Untold, OneCall, Outcomes

\* An actor that stays where it is, or within the loop.
LEMMA SamePlace ==
  ASSUME PlaceOK, UNCHANGED phase, actor'.runtime_closed = actor.runtime_closed,
         actor'.pc = actor.pc \/ (actor.pc \notin Ending /\ actor'.pc \in InLoop)
  PROVE  PlaceOK'
  BY DEF PlaceOK, Kept, InLoop, Ending, Gone

\* Calls of clients that leave the phase alone.
LEMMA ClientUntold ==
  ASSUME TypeInv, OutcomeInv
  PROVE  /\ \A m \in Modes : Execute(m) => OutcomeInv'
         /\ \A m \in Modes, o \in Observations : Observe(o, m) => OutcomeInv'
         /\ \A o \in Observations : ObserveRefused(o) \/ DropObservation(o) => OutcomeInv'
         /\ \A t \in Terminations : TerminateRefused(t) => OutcomeInv'
         /\ Shutdown => OutcomeInv'
<1>0. PlaceOK /\ BeginOK
  BY DEF OutcomeInv
<1>1. ASSUME NEW m \in Modes, Execute(m) PROVE OutcomeInv'
  <2>1. OneCall(First) /\ ask'[First].st = "waiting" /\ ask'[First].answer = ask[First].answer
    BY <1>1, CallUpdate, CallsDiffer DEF Execute
  <2>2. actor'.pc = "poll" /\ actor'.runtime_closed = actor.runtime_closed /\ actor.pc = "none"
    BY <1>1 DEF Execute, Started, TypeInv, ActorStates
  <2>3. PlaceOK' /\ BeginOK'
    BY <1>0, <1>1, <2>2, SamePlace DEF Execute, cell, Ending, Gone, InLoop, BeginOK
  <2>4. Untold
    BY <1>0, <2>1, <2>2, OneUntold, CallsDiffer DEF BeginOK
  <2> QED
    BY <1>1, <2>3, <2>4, OutcomeKept DEF Execute, cell
<1>2. ASSUME NEW m \in Modes, NEW o \in Observations, Observe(o, m) PROVE OutcomeInv'
  <2>1. OneCall(o) /\ ask'[o].st = "waiting" /\ ask'[o].answer = ask[o].answer /\ ask[o].st = "idle"
    BY <1>2, CallUpdate, CallsDiffer DEF Observe
  <2>2. Untold
    BY <2>1, OneUntold, CallsDiffer
  <2>3. PlaceOK' /\ BeginOK'
    BY <1>0, <1>2, SamePlace DEF Observe, cell, BeginOK, Started
  <2> QED
    BY <1>2, <2>2, <2>3, OutcomeKept DEF Observe, cell
<1>3. ASSUME NEW c \in Calls, NEW k \in Errors, Refuse(c, k), Started,
             UNCHANGED <<phase, committed, actor>>
      PROVE  OutcomeInv'
  <2>1. k \notin Outcomes \cup {"none"}
    BY DEF Errors, Outcomes
  <2>2. OneCall(c) /\ ask'[c].st = "answered" /\ ask'[c].answer.kind = k
    BY <1>3, RefuseIs
  <2>4. Untold
    BY <2>1, <2>2, OneUntold
  <2>5. PlaceOK' /\ BeginOK'
    BY <1>0, <1>3, SamePlace DEF BeginOK, Started
  <2> QED
    BY <1>3, <2>4, <2>5, OutcomeKept
<1>4. ASSUME NEW o \in Observations, ObserveRefused(o) PROVE OutcomeInv'
  <2>1. Refuse(o, "closed") \/ Refuse(o, "missing")
    BY <1>4 DEF ObserveRefused
  <2> QED
    BY <1>3, <1>4, <2>1, CallsDiffer DEF ObserveRefused, cell, Errors
<1>5. ASSUME NEW o \in Observations, DropObservation(o) PROVE OutcomeInv'
  <2>1. OneCall(o) /\ ask'[o].st = "dropped" /\ ask'[o].answer = ask[o].answer /\ ask[o].st = "waiting"
    BY <1>5, CallUpdate, CallsDiffer DEF DropObservation
  <2>2. Untold
    BY <2>1, OneUntold, CallsDiffer
  <2>3. actor.pc # "none"
    BY <1>0, <2>1, CallsDiffer DEF BeginOK
  <2>4. PlaceOK' /\ BeginOK'
    BY <1>0, <1>5, <2>3, SamePlace DEF DropObservation, cell, BeginOK
  <2> QED
    BY <1>5, <2>2, <2>4, OutcomeKept DEF DropObservation, cell
<1>6. ASSUME NEW t \in Terminations, TerminateRefused(t) PROVE OutcomeInv'
  <2>1. Refuse(t, "missing") \/ Refuse(t, "closed") \/ Refuse(t, "already")
    BY <1>6 DEF TerminateRefused
  <2> QED
    BY <1>3, <1>6, <2>1, CallsDiffer DEF TerminateRefused, cell, Errors
<1>7. ASSUME Shutdown PROVE OutcomeInv'
  <2>1. PlaceOK' /\ BeginOK' /\ Untold
    BY <1>0, <1>7, SamePlace, SameUntold DEF Shutdown, BeginOK
  <2> QED
    BY <1>7, <2>1, OutcomeKept DEF Shutdown
<1> QED
  BY <1>1, <1>2, <1>4, <1>5, <1>6, <1>7

\* A termination takes the phase, or a completion that nobody has taken.
LEMMA TerminateOutcome ==
  ASSUME TypeInv, OutcomeInv, NEW t \in Terminations, Terminate(t) \/ TerminateCompleted(t)
  PROVE  OutcomeInv'
<1>0. /\ AnswersOK /\ PhaseOK /\ PlaceOK /\ OutcomesOK /\ BeginOK
      /\ phase \in Phases /\ actor.pc # "none" /\ t \in Calls /\ ask[t].st = "idle"
  BY CallsDiffer DEF OutcomeInv, TypeInv, Terminate, TerminateCompleted, Started
<1>1. CASE Terminate(t)
  <2>1. OneCall(t) /\ ask'[t].st = "waiting" /\ ask'[t].answer = ask[t].answer
    BY <1>0, <1>1, CallUpdate DEF Terminate
  <2>2. /\ phase'.is = "Terminating" /\ phase'.tx = t /\ phase'.event = phase.event
        /\ phase.is = "Running" /\ UNCHANGED <<committed, actor>>
    BY <1>0, <1>1 DEF Terminate, Phases
  <2>3. Untold
    BY <1>0, <2>1, OneUntold
  <2>4. PhaseOK'
    BY <1>0, <2>2 DEF PhaseOK, Kept
  <2>5. PlaceOK' /\ BeginOK'
    BY <1>0, <2>2 DEF PlaceOK, BeginOK, Kept
  <2>6. OutcomesOK'
    BY <1>0, <2>2, <2>3, CallsDiffer DEF OutcomesOK, Untold, HasOutcome, Outcomes
  <2> QED
    BY <2>3, <2>4, <2>5, <2>6 DEF OutcomeInv, Untold
<1>2. CASE TerminateCompleted(t)
  <2>1. phase.event \in Answers /\ phase.event.kind = "completed" /\ committed /\ phase.is = "Completed"
    BY <1>0, <1>2 DEF Phases, PhaseOK, Kept, TerminateCompleted
  <2>2. OneCall(t) /\ ask'[t].st = "answered" /\ ask'[t].answer = phase.event
    BY <1>0, <1>2, <2>1, CallUpdate DEF TerminateCompleted
  <2>3. /\ phase'.is = "CompletionClaimed" /\ phase'.tx = phase.tx /\ phase'.event = phase.event
        /\ UNCHANGED <<committed, actor>>
    BY <1>0, <1>2 DEF TerminateCompleted, Phases
  <2>4. AnswersOK'
    BY <1>0, <2>1, <2>2 DEF AnswersOK, OneCall
  <2>5. PhaseOK'
    BY <1>0, <2>1, <2>3 DEF PhaseOK, Kept
  <2>6. PlaceOK' /\ BeginOK'
    BY <1>0, <2>1, <2>3 DEF PlaceOK, BeginOK, Kept
  <2>7. \A c \in Calls \ {t} : ask'[c] = ask[c]
    BY <2>2 DEF OneCall
  <2>8. OutcomesOK'
    <3>1. \A c \in Calls : ask'[c].answer.kind = "completed" => committed'
      BY <2>1, <2>3
    <3>2. \A c \in Calls : ask'[c].answer.kind # "terminated"
      BY <1>0, <2>1, <2>2, <2>7 DEF OutcomesOK
    <3>3. \A u \in Terminations : u # t => ~HasOutcome(u)'
      BY <1>0, <2>1, <2>7, CallsDiffer DEF OutcomesOK, HasOutcome
    <3> QED
      BY <2>3, <3>1, <3>2, <3>3 DEF OutcomesOK
  <2> QED
    BY <2>4, <2>5, <2>6, <2>8 DEF OutcomeInv
<1> QED
  BY <1>1, <1>2

\* A step within the loop that leaves the phase alone and tells no outcome.
LEMMA LoopOutcome ==
  ASSUME OutcomeInv, UNCHANGED <<phase, committed>>, Untold,
         actor.pc \in InLoop, actor'.pc \in InLoop, actor'.runtime_closed = actor.runtime_closed
  PROVE  OutcomeInv'
<1>1. PlaceOK'
  BY SamePlace DEF OutcomeInv, InLoop, Ending, Gone
<1>2. BeginOK'
  BY DEF BeginOK, InLoop
<1> QED
  BY <1>1, <1>2, OutcomeKept

\* Neither the thread, nor a callback, nor the timer touches the outcome.
LEMMA ThreadOutcome ==
  ASSUME TypeInv, OutcomeInv, Script \/ ThreadLoop \/ NotifyEnds \/ ToolEnds \/ Elapse
  PROVE  OutcomeInv'
<1>1. UNCHANGED <<ask, phase, committed>>
  BY DEF Script, tool_callback, notify_callback, yield_control_callback,
         ThreadLoop, NotifyEnds, ToolEnds, Elapse, JsOutput, JsAwait, JsResult, JsPanic,
         JsCall, JsStart, JsCommand, JsPending, JsControl, others, client, cell
<1>2. actor'.pc = actor.pc /\ actor'.runtime_closed = actor.runtime_closed
  BY DEF Script, tool_callback, notify_callback, yield_control_callback,
         ThreadLoop, NotifyEnds, ToolEnds, Elapse, JsOutput, JsAwait, JsResult, JsPanic,
         JsCall, JsStart, JsCommand, JsPending, JsControl, others, TypeInv, ActorStates
<1>3. PlaceOK' /\ BeginOK'
  BY <1>1, <1>2, SamePlace DEF OutcomeInv, BeginOK
<1> QED
  BY <1>1, <1>3, SameUntold, OutcomeKept

\* Answers of the loop that are no outcome.
LEMMA EventUntold ==
  ASSUME TypeInv, OutcomeInv, NEW C, NEW s \in Seq(Nat),
         NEW k \in {"closed", "busy", "pending", "yielded"}, Answering(C, Event(k, s))
  PROVE  Untold
<1>1. k \in Kinds /\ k \notin Outcomes \cup {"none"}
  BY DEF Kinds, Errors, Outcomes
<1>2. Event(k, s).kind = k
  BY <1>1, ValuesTyped
<1> QED
  BY <1>1, <1>2, AnswerUntold

\* So is what send_observer_event sends.
LEMMA HandsOverOutcome ==
  ASSUME TypeInv, OutcomeInv, NEW k \in {"pending", "yielded"}, HandsOver(k),
         UNCHANGED <<phase, committed>>, actor.pc \in InLoop
  PROVE  OutcomeInv'
<1>1. actor.content_items \in Seq(Nat)
  BY DEF TypeInv, ActorStates
<1>2. Untold
  BY <1>1, EventUntold DEF HandsOver
<1>3. actor'.pc \in InLoop /\ actor'.runtime_closed = actor.runtime_closed
  BY DEF HandsOver, InLoop
<1> QED
  BY <1>2, <1>3, LoopOutcome

\* Cancellation seen, the timer, and commands that end nothing.
LEMMA CommandOutcome ==
  ASSUME TypeInv, OutcomeInv
  PROVE  /\ Poll \/ SeeCancelled \/ YieldTimer => OutcomeInv'
         /\ \A o \in Observations :
                (\/ SkipDropped(o) \/ RouteClosed(o) \/ ObserverBusy(o)
                 \/ ObserveReadyFrontier(o) \/ BecomeObserver(o)) => OutcomeInv'
<1>0. /\ actor \in ActorStates /\ <<>> \in Seq(Nat) /\ actor.content_items \in Seq(Nat)
      /\ PlaceOK /\ BeginOK
      /\ {"closed", "busy", "pending"} \subseteq Kinds
  BY DEF TypeInv, OutcomeInv, ActorStates, Kinds, Errors
<1>1. ASSUME Poll PROVE OutcomeInv'
  <2>1. actor'.pc \in InLoop /\ actor.pc \in InLoop /\ actor'.runtime_closed = actor.runtime_closed
    BY <1>0, <1>1 DEF Poll, ActorStates, InLoop
  <2> QED
    BY <1>1, <2>1, SameUntold, LoopOutcome DEF Poll, client, cell
<1>2. ASSUME SeeCancelled PROVE OutcomeInv'
  <2>1. Untold
    BY <1>0, <1>2, DropInboxIs, EventUntold DEF SeeCancelled
  <2>2. /\ actor'.runtime_closed = actor.runtime_closed /\ actor.pc \in {"poll", "select"}
        /\ actor'.pc = IF actor.runtime_closed THEN "cancelling" ELSE "poll"
    BY <1>0, <1>2 DEF SeeCancelled, ActorStates
  <2>3. UNCHANGED <<phase, committed>>
    BY <1>2 DEF SeeCancelled
  <2>4. PlaceOK'
    BY <1>0, <2>2, <2>3 DEF PlaceOK, Kept, Ending, Gone
  <2>5. BeginOK'
    BY <2>2 DEF BeginOK
  <2> QED
    BY <2>1, <2>3, <2>4, <2>5, OutcomeKept
<1>3. ASSUME YieldTimer PROVE OutcomeInv'
  <2>1. HandsOver("yielded")
    BY <1>3, YieldIs DEF YieldTimer
  <2> QED
    BY <1>3, <2>1, HandsOverOutcome DEF YieldTimer, cell, InLoop
<1>4. ASSUME NEW o \in Observations, SkipDropped(o) PROVE OutcomeInv'
  <2>1. actor'.pc \in InLoop /\ actor.pc \in InLoop /\ actor'.runtime_closed = actor.runtime_closed
    BY <1>4, BackIs, TakesIs DEF SkipDropped, InLoop
  <2> QED
    BY <1>4, <2>1, SameUntold, LoopOutcome DEF SkipDropped, client, cell
<1>5. ASSUME NEW o \in Observations, RouteClosed(o) PROVE OutcomeInv'
  <2>1. actor'.pc \in InLoop /\ actor.pc \in InLoop /\ actor'.runtime_closed = actor.runtime_closed
    BY <1>5, BackIs, TakesIs DEF RouteClosed, InLoop
  <2>2. Event("closed", <<>>) \in Answers
    BY <1>0, ValuesTyped
  <2>3. Untold
    BY <1>0, <1>5, <2>2, AnsweredIs, EventUntold DEF RouteClosed
  <2> QED
    BY <1>5, <2>1, <2>3, LoopOutcome DEF RouteClosed, cell
<1>6. ASSUME NEW o \in Observations, ObserverBusy(o) PROVE OutcomeInv'
  <2>1. actor'.pc \in InLoop /\ actor.pc \in InLoop /\ actor'.runtime_closed = actor.runtime_closed
    BY <1>6, BackIs, TakesIs DEF ObserverBusy, InLoop, ActorStates
  <2>2. Event("busy", <<>>) \in Answers
    BY <1>0, ValuesTyped
  <2>3. Untold
    BY <1>0, <1>6, <2>2, AnsweredIs, EventUntold DEF ObserverBusy
  <2> QED
    BY <1>6, <2>1, <2>3, LoopOutcome DEF ObserverBusy, cell
<1>7. ASSUME NEW o \in Observations, ObserveReadyFrontier(o) PROVE OutcomeInv'
  <2>1. actor'.pc \in InLoop /\ actor.pc \in InLoop /\ actor'.runtime_closed = actor.runtime_closed
    BY <1>7, BackIs, TakesIs DEF ObserveReadyFrontier, InLoop, ActorStates
  <2>2. Event("pending", actor.content_items) \in Answers
    BY <1>0, ValuesTyped
  <2>3. Untold
    BY <1>0, <1>7, <2>2, AnsweredIs, EventUntold DEF ObserveReadyFrontier
  <2> QED
    BY <1>7, <2>1, <2>3, LoopOutcome DEF ObserveReadyFrontier, cell
<1>8. ASSUME NEW o \in Observations, BecomeObserver(o) PROVE OutcomeInv'
  <2>1. actor'.pc \in InLoop /\ actor.pc \in InLoop /\ actor'.runtime_closed = actor.runtime_closed
    BY <1>8, BackIs, TakesIs DEF BecomeObserver, InLoop, ActorStates
  <2> QED
    BY <1>8, <2>1, SameUntold, LoopOutcome DEF BecomeObserver, client, cell
<1> QED
  BY <1>1, <1>2, <1>3, <1>4, <1>5, <1>6, <1>7, <1>8

\* Events of the thread: the last of them closes the runtime, which a cell
\* with an outcome has behind it.
LEMMA EventOutcome ==
  ASSUME TypeInv, OutcomeInv, TakeEvent PROVE OutcomeInv'
<1>0. actor \in ActorStates /\ actor.content_items \in Seq(Nat) /\ PlaceOK
  BY DEF TypeInv, OutcomeInv, ActorStates
<1>1. ASSUME OnStarted \/ OnContentItem \/ OnNotify \/ OnToolCall \/ OnThreadPanicked PROVE OutcomeInv'
  <2>1. actor.pc \in InLoop
    BY <1>1, EventIs DEF OnStarted, OnContentItem, OnNotify, OnToolCall, OnThreadPanicked, InLoop
  <2>2. actor'.pc = "poll" /\ actor'.runtime_closed = actor.runtime_closed
    BY <1>1, BackIs DEF OnStarted, OnContentItem, OnNotify, OnToolCall, OnThreadPanicked, ActorStates
  <2>3. UNCHANGED <<ask, phase, committed>>
    BY <1>1 DEF OnStarted, OnContentItem, OnNotify, OnToolCall, OnThreadPanicked, client, cell
  <2> QED
    BY <2>1, <2>2, <2>3, SameUntold, LoopOutcome DEF InLoop
<1>2. ASSUME OnPending PROVE OutcomeInv'
  <2>1. actor.pc \in InLoop /\ UNCHANGED <<phase, committed>>
    BY <1>2, EventIs DEF OnPending, InLoop, cell
  <2>2. CASE ObserverMode("PendingFrontier")
    BY <1>2, <2>1, <2>2, PendingIs, HandsOverOutcome DEF OnPending
  <2>3. CASE ~ObserverMode("PendingFrontier")
    <3>1. actor'.pc = "poll" /\ actor'.runtime_closed = actor.runtime_closed /\ UNCHANGED ask
      BY <1>2, <2>3, BackIs DEF OnPending, ActorStates
    <3> QED
      BY <2>1, <3>1, SameUntold, LoopOutcome DEF InLoop
  <2> QED
    BY <2>2, <2>3
<1>3. ASSUME OnYieldRequested PROVE OutcomeInv'
  <2>1. actor.pc \in InLoop /\ UNCHANGED <<phase, committed>>
    BY <1>3, EventIs DEF OnYieldRequested, InLoop, cell
  <2>2. CASE ObserverMode("YieldAfter")
    BY <1>3, <2>1, <2>2, YieldIs, HandsOverOutcome DEF OnYieldRequested
  <2>3. CASE ~ObserverMode("YieldAfter")
    <3>1. actor'.pc = "poll" /\ actor'.runtime_closed = actor.runtime_closed /\ UNCHANGED ask
      BY <1>3, <2>3, BackIs DEF OnYieldRequested
    <3> QED
      BY <2>1, <3>1, SameUntold, LoopOutcome DEF InLoop
  <2> QED
    BY <2>2, <2>3
<1>4. ASSUME OnResult \/ OnChannelClosed PROVE OutcomeInv'
  <2>1. /\ actor.pc = "select" /\ ~actor.runtime_closed
        /\ actor'.runtime_closed = TRUE /\ actor'.pc \in {"cancelling", "draining"}
    BY <1>4, ResultIs DEF ClosesRuntime
  <2>2. UNCHANGED <<ask, phase, committed>>
    BY <1>4 DEF OnResult, OnChannelClosed, client, cell
  <2>3. PlaceOK'
    BY <1>0, <2>1, <2>2 DEF PlaceOK, Kept, Gone, Ending
  <2>4. BeginOK'
    BY <2>1 DEF BeginOK
  <2> QED
    BY <2>2, <2>3, <2>4, SameUntold, OutcomeKept
<1> QED
  BY <1>1, <1>2, <1>3, <1>4 DEF TakeEvent

\* The end of the cell, as far as nobody is told an outcome.
LEMMA EndUntold ==
  ASSUME TypeInv, OutcomeInv,
         NotificationsDrained \/ ToolsDrained \/ CallbacksGone \/ DeliverRejected \/ Closed
  PROVE  OutcomeInv'
<1>0. PlaceOK /\ PhaseOK /\ phase \in Phases
  BY DEF OutcomeInv, TypeInv
<1>1. UNCHANGED <<ask, phase, committed>>
  BY DEF NotificationsDrained, ToolsDrained, CallbacksGone, DeliverRejected, Closed, client, cell
<1>2. /\ actor'.runtime_closed = actor.runtime_closed
      /\ \/ actor.pc = "draining" /\ actor'.pc = "drainTools"
         \/ actor.pc = "drainTools" /\ actor'.pc = "commit"
         \/ actor.pc = "cancelling" /\ actor'.pc = "finish"
         \/ actor.pc = "deliver" /\ actor'.pc = "finish"
         \/ actor.pc = "closing" /\ actor'.pc = "done"
  BY DEF NotificationsDrained, ToolsDrained, CallbacksGone, DeliverRejected, Closed, TypeInv, ActorStates
<1>3. PlaceOK'
  BY <1>0, <1>1, <1>2 DEF PlaceOK, Kept, Gone, Ending
<1>4. BeginOK'
  BY <1>2 DEF BeginOK
<1> QED
  BY <1>1, <1>3, <1>4, SameUntold, OutcomeKept

\* A step to the tombstone: the calls of C are told e, which says whether the
\* stored values were written, and no termination was told an outcome before
\* or none is told one now.
LEMMA TombOutcome ==
  ASSUME TypeInv, OutcomeInv, NEW C, NEW e, Answering(C, e),
         \/ e.kind = "completed" /\ committed
         \/ e.kind = "terminated" /\ ~committed
         \/ e.kind = "closed",
         phase' = Phase("Tombstone"), UNCHANGED committed,
         actor'.pc \in Gone, actor'.runtime_closed,
         \A t \in C \cap Terminations, u \in Terminations :
             t = u \/ (u \notin C /\ ~HasOutcome(u)),
         e.kind = "closed" => C \cap Terminations = {}
  PROVE  OutcomeInv'
<1>0. /\ AnswersOK /\ PhaseOK /\ OutcomesOK
  BY DEF OutcomeInv
<1>1. phase'.is = "Tombstone" /\ phase'.tx = NoOne /\ phase'.event = Nothing
  BY ValuesTyped DEF PhaseNames
<1>2. PhaseOK'
  BY <1>1, CallsDiffer DEF PhaseOK, Kept
<1>3. PlaceOK' /\ BeginOK'
  BY <1>1 DEF PlaceOK, Kept, Gone, Ending, BeginOK
<1>4. \A c \in Calls : \/ ask'[c].st = "answered" /\ ask'[c].answer = e /\ c \in C
                      \/ ask'[c] = ask[c]
  BY DEF Answering
<1>5. AnswersOK'
  BY <1>0, <1>4 DEF AnswersOK
<1>6. OutcomesOK'
  <2>1. \A c \in Calls : ask'[c].answer.kind = "completed" => committed
    BY <1>0, <1>4 DEF OutcomesOK
  <2>2. \A c \in Calls : ask'[c].answer.kind = "terminated" => ~committed
    BY <1>0, <1>4 DEF OutcomesOK
  <2>3. ASSUME NEW t \in Terminations, NEW u \in Terminations,
               ask'[t].answer.kind \in Outcomes, ask'[u].answer.kind \in Outcomes
        PROVE  t = u
    <3>1. t \in Calls /\ u \in Calls
      BY CallsDiffer
    <3>2. CASE t \in C
      <4>1. u \notin C /\ ~HasOutcome(u) => t = u
        BY <1>4, <2>3, <3>1, <3>2 DEF HasOutcome
      <4> QED
        BY <3>2, <4>1
    <3>3. CASE u \in C
      <4>1. t \notin C /\ ~HasOutcome(t) => t = u
        BY <1>4, <2>3, <3>1, <3>3 DEF HasOutcome
      <4> QED
        BY <3>3, <4>1
    <3>4. CASE t \notin C /\ u \notin C
      BY <1>0, <1>4, <2>3, <3>1, <3>4 DEF OutcomesOK, HasOutcome
    <3> QED
      BY <3>2, <3>3, <3>4
  <2> QED
    BY <1>1, <2>1, <2>2, <2>3 DEF OutcomesOK, HasOutcome
<1> QED
  BY <1>2, <1>3, <1>5, <1>6 DEF OutcomeInv

\* The completion goes to the next observation.
LEMMA RouteOutcome ==
  ASSUME TypeInv, OutcomeInv, NEW o \in Observations, RouteToCompleted(o)
  PROVE  OutcomeInv'
<1>1. phase.event \in Answers /\ phase.event.kind = "completed" /\ committed /\ actor.runtime_closed
  BY DEF OutcomeInv, PhaseOK, PlaceOK, Kept, RouteToCompleted, TypeInv, Phases
<1>2. PICK e \in Answers : e = phase.event
  BY <1>1, Zenon
<1>3. Answering({o}, e)
  BY <1>2, AnsweredIs DEF RouteToCompleted
<1>4. {o} \cap Terminations = {}
  BY CallsDiffer
<1>5. actor'.pc \in Gone /\ actor'.runtime_closed
  BY <1>1 DEF RouteToCompleted, TypeInv, ActorStates, Gone
<1> QED
  BY <1>1, <1>2, <1>3, <1>4, <1>5, TombOutcome DEF RouteToCompleted

\* Or to the observer, when the cell completes.
LEMMA DeliverOutcome ==
  ASSUME TypeInv, OutcomeInv, DeliverCompletion PROVE OutcomeInv'
<1>1. /\ phase.event \in Answers /\ phase.event.kind = "completed" /\ committed
      /\ actor.runtime_closed /\ actor.pc = "deliver" /\ phase.is = "Completed"
      /\ actor.observer \in Observations \cup {NoOne} /\ PlaceOK
  BY DEF OutcomeInv, PhaseOK, PlaceOK, Kept, DeliverCompletion, TypeInv, Phases, ActorStates
<1>2. PICK e \in Answers : e = phase.event
  BY <1>1, Zenon
<1>3. Answering({actor.observer}, e)
  BY <1>2, AnsweredIs DEF DeliverCompletion
<1>4. {actor.observer} \cap Terminations = {}
  BY <1>1, CallsDiffer
<1>5. CASE IsWaiting(actor.observer)
  <2>1. actor'.pc \in Gone /\ actor'.runtime_closed /\ phase' = Phase("Tombstone")
        /\ UNCHANGED committed
    BY <1>1, <1>5 DEF DeliverCompletion, TypeInv, ActorStates, Gone
  <2> QED
    BY <1>1, <1>2, <1>3, <1>4, <2>1, TombOutcome
<1>6. CASE ~IsWaiting(actor.observer)
  <2>1. actor'.pc = "poll" /\ actor'.runtime_closed = actor.runtime_closed
        /\ UNCHANGED <<phase, committed>>
    BY <1>6 DEF DeliverCompletion, TypeInv, ActorStates
  <2>2. Untold
    BY <1>3, <1>6 DEF Answering, Untold, OutcomeInv, AnswersOK
  <2>3. PlaceOK'
    BY <1>1, <2>1 DEF PlaceOK, Kept, Gone, Ending
  <2>4. BeginOK'
    BY <2>1 DEF BeginOK
  <2> QED
    BY <2>1, <2>2, <2>3, <2>4, OutcomeKept
<1> QED
  BY <1>5, <1>6

\* commit_completion decides, under the lock of the phase.
LEMMA CommitOutcome ==
  ASSUME TypeInv, OutcomeInv, CommitCompletion PROVE OutcomeInv'
<1>1. /\ actor.pc = "commit" /\ actor.runtime_closed /\ ~Kept /\ ~committed
      /\ phase.is \in {"Running", "Terminating"} /\ phase \in Phases
      /\ PlaceOK /\ PhaseOK /\ OutcomesOK /\ AnswersOK
  BY DEF OutcomeInv, PlaceOK, PhaseOK, Kept, CommitCompletion, TypeInv, Phases, PhaseNames, Ending, Gone
<1>2. actor'.pc = "deliver" /\ actor'.runtime_closed /\ UNCHANGED ask
  BY <1>1 DEF CommitCompletion, TypeInv, ActorStates, client
<1>3. BeginOK'
  BY <1>2 DEF BeginOK
<1>4. CASE MayCommit
  <2>1. phase'.is = "Completed" /\ phase'.tx = phase.tx /\ phase'.event.kind = "completed"
        /\ committed' = TRUE /\ phase.is = "Running"
    BY <1>1, <1>4 DEF CommitCompletion, MayCommit, Phases, Event
  <2>2. PhaseOK'
    BY <1>1, <2>1 DEF PhaseOK, Kept
  <2>3. PlaceOK'
    BY <1>1, <1>2, <2>1 DEF PlaceOK, Kept, Gone
  <2>4. AnswersOK' /\ OutcomesOK'
    BY <1>1, <1>2, <2>1 DEF AnswersOK, OutcomesOK, HasOutcome
  <2> QED
    BY <1>3, <2>2, <2>3, <2>4 DEF OutcomeInv
<1>5. CASE ~MayCommit
  <2>0. committed = FALSE /\ committed' = FALSE
    <3>1. committed \in BOOLEAN /\ MayCommit = FALSE
      BY <1>5 DEF TypeInv, MayCommit
    <3> QED
      BY <1>1, <3>1 DEF CommitCompletion
  <2>1. UNCHANGED <<phase, committed>>
    BY <1>5, <2>0 DEF CommitCompletion
  <2>2. PlaceOK'
    BY <1>1, <1>2, <2>1 DEF PlaceOK, Kept, Gone
  <2> QED
    BY <1>2, <1>3, <2>1, <2>2, SameUntold, OutcomeKept
<1> QED
  BY <1>4, <1>5

\* finish_termination: to the termination's channel and to the observer goes
\* the completion that was kept, or that the cell was terminated.
LEMMA FinishOutcome ==
  ASSUME TypeInv, OutcomeInv, FinishTermination PROVE OutcomeInv'
<1>0. /\ actor.pc = "finish" /\ actor.runtime_closed /\ phase \in Phases
      /\ phase.is \in PhaseNames \ {"Tombstone"}
      /\ actor.content_items \in Seq(Nat) /\ actor.observer \in Observations \cup {NoOne}
      /\ PhaseOK /\ OutcomesOK
  BY DEF OutcomeInv, PlaceOK, FinishTermination, TypeInv, Phases, ActorStates, Ending, Gone
<1>1. /\ TerminalEvent \in Answers
      /\ Kept => TerminalEvent.kind = "completed" /\ committed
      /\ ~Kept => TerminalEvent.kind = "terminated" /\ ~committed
  <2>1. CASE Kept
    BY <1>0, <2>1 DEF Kept, TerminalEvent, PhaseOK, Phases
  <2>2. CASE ~Kept
    <3>1. TerminalEvent = Event("terminated", actor.content_items)
      BY <2>2 DEF Kept, TerminalEvent
    <3>2. "terminated" \in Kinds
      BY DEF Kinds
    <3>3. TerminalEvent \in Answers /\ TerminalEvent.kind = "terminated"
      BY <1>0, <3>1, <3>2, ValuesTyped
    <3>4. ~committed
      BY <1>0, <2>2 DEF Kept, PhaseNames, PhaseOK
    <3> QED
      BY <2>2, <3>3, <3>4
  <2> QED
    BY <2>1, <2>2
<1>2. PICK e \in Answers : e = TerminalEvent
  BY <1>1, Zenon
<1>3. Answering({phase.tx, actor.observer}, e)
  BY <1>2, AnsweredIs DEF FinishTermination
<1>4. actor'.pc \in Gone /\ actor'.runtime_closed
  BY <1>0 DEF FinishTermination, TypeInv, ActorStates, Gone
<1>5. ASSUME NEW t \in {phase.tx, actor.observer} \cap Terminations, NEW u \in Terminations
      PROVE  t = u \/ (u \notin {phase.tx, actor.observer} /\ ~HasOutcome(u))
  <2>1. actor.observer \notin Terminations
    BY <1>0, CallsDiffer
  <2>2. t = phase.tx /\ phase.is = "Terminating"
    BY <1>0, <2>1 DEF PhaseOK
  <2>3. ~HasOutcome(u)
    BY <1>0, <2>2 DEF OutcomesOK
  <2> QED
    BY <2>1, <2>2, <2>3
<1> QED
  BY <1>1, <1>2, <1>3, <1>4, <1>5, TombOutcome DEF FinishTermination

\* Leaving the loop.
LEMMA LeaveOutcome ==
  ASSUME TypeInv, OutcomeInv, Leave PROVE OutcomeInv'
<1>1. Answering(Queued, Event("closed", <<>>))
  BY DropInboxIs DEF Leave
<1>2. "closed" \in Kinds /\ <<>> \in Seq(Nat)
  BY DEF Kinds, Errors
<1>3. PICK e : e = Event("closed", <<>>) /\ e.kind = "closed"
  BY <1>2, ValuesTyped
<1>4. Queued \cap Terminations = {}
  BY CallsDiffer DEF Queued, TypeInv
<1>5. actor'.pc \in Gone /\ actor'.runtime_closed
  BY DEF Leave, TypeInv, ActorStates, Gone, OutcomeInv, PlaceOK, Ending
<1> QED
  BY <1>1, <1>3, <1>4, <1>5, TombOutcome DEF Leave

\* Every step keeps the invariant of the outcome.
LEMMA OutcomeStep ==
  ASSUME TypeInv, OutcomeInv, [Next]_vars PROVE OutcomeInv'
<1>1. ASSUME UNCHANGED vars PROVE OutcomeInv'
  BY <1>1 DEF OutcomeInv, AnswersOK, PhaseOK, PlaceOK, OutcomesOK, BeginOK, Kept, HasOutcome,
              vars, client, cell
<1>2. ASSUME ClientStep PROVE OutcomeInv'
  BY <1>2, ClientUntold, TerminateOutcome DEF ClientStep
<1>3. ASSUME ActorStep PROVE OutcomeInv'
  <2>1. ASSUME TakeCommand PROVE OutcomeInv'
    <3>1. PICK o \in Observations :
              \/ SkipDropped(o) \/ RouteToCompleted(o) \/ RouteClosed(o)
              \/ ObserverBusy(o) \/ ObserveReadyFrontier(o) \/ BecomeObserver(o)
      BY <2>1 DEF TakeCommand
    <3>2. CASE RouteToCompleted(o)
      BY <3>2, RouteOutcome
    <3>3. CASE ~RouteToCompleted(o)
      BY <3>1, <3>3, CommandOutcome
    <3> QED
      BY <3>2, <3>3
  <2> QED
    BY <1>3, <2>1, CommandOutcome, EventOutcome, EndUntold, DeliverOutcome, CommitOutcome,
       FinishOutcome, LeaveOutcome DEF ActorStep
<1> QED
  BY <1>1, <1>2, <1>3, ThreadOutcome DEF Next

\* It holds at first.
LEMMA OutcomeInit == Init => OutcomeInv
<1> SUFFICES ASSUME Init PROVE OutcomeInv
  OBVIOUS
<1>1. AnswersOK /\ OutcomesOK /\ BeginOK
  BY ValuesTyped, CallsDiffer DEF Init, AnswersOK, OutcomesOK, BeginOK, HasOutcome, Outcomes
<1>2. phase.is = "Running" /\ phase.tx = NoOne /\ phase.event = Nothing
  BY ValuesTyped DEF Init, PhaseNames
<1>3. PhaseOK /\ PlaceOK
  BY <1>2, CallsDiffer DEF Init, PhaseOK, PlaceOK, Kept, Gone, Ending
<1> QED
  BY <1>1, <1>3 DEF OutcomeInv

\* It says that there is one outcome.
LEMMA OutcomeIsOne == TypeInv /\ OutcomeInv => OneOutcome
<1> SUFFICES ASSUME TypeInv, OutcomeInv PROVE OneOutcome
  OBVIOUS
<1>1. OutcomesOK /\ PhaseOK
  BY DEF OutcomeInv
<1>2. /\ Outcome("completed") => committed
      /\ Outcome("terminated") => ~committed
  BY <1>1 DEF Outcome, OutcomesOK
<1>3. \A t, u \in Terminations :
          {ask[t].answer.kind, ask[u].answer.kind} \subseteq {"completed", "terminated"} => t = u
  BY <1>1 DEF OutcomesOK, HasOutcome, Outcomes
<1> QED
  BY <1>1, <1>2, <1>3 DEF OneOutcome, PhaseOK, Kept

\* For any number of observations and terminations, however completion,
\* termination and shutdown race: no two calls are told different outcomes,
\* the stored values are written exactly for a completion, and of several
\* terminations at most one is told an outcome.
THEOREM CellHasOneOutcome == Spec => []OneOutcome
<1>1. Init => TypeInv /\ OutcomeInv
  BY TypeInit, OutcomeInit
<1>2. TypeInv /\ OutcomeInv /\ [Next]_vars => (TypeInv /\ OutcomeInv)'
  BY TypeStep, OutcomeStep
<1> QED
  BY <1>1, <1>2, OutcomeIsOne, PTL DEF Spec

(***************************************************************************)
(* The thread, its frontier and its end.                                   *)
(***************************************************************************)

ThreadInv == ThreadOK /\ PauseOK /\ StopOK

\* A sequence without its first element.
LEMMA TailIs ==
  ASSUME NEW S, NEW s \in Seq(S), s # <<>>
  PROVE  /\ Tail(s) \in Seq(S) /\ Len(Tail(s)) = Len(s) - 1 /\ Len(s) \in Nat /\ Len(s) >= 1
         /\ DOMAIN s = 1..Len(s) /\ DOMAIN Tail(s) = 1..(Len(s) - 1)
         /\ \A i \in DOMAIN Tail(s) : Tail(s)[i] = s[i + 1] /\ i + 1 \in DOMAIN s
         /\ \A i \in DOMAIN s : i # 1 => i - 1 \in DOMAIN Tail(s) /\ Tail(s)[i - 1] = s[i]
  OBVIOUS

\* A sequence with one more element.
LEMMA AppendIs ==
  ASSUME NEW S, NEW s \in Seq(S), NEW e \in S
  PROVE  /\ Append(s, e) \in Seq(S) /\ Len(Append(s, e)) = Len(s) + 1 /\ Len(s) \in Nat
         /\ DOMAIN s = 1..Len(s) /\ DOMAIN Append(s, e) = 1..(Len(s) + 1)
         /\ \A i \in DOMAIN s : Append(s, e)[i] = s[i] /\ i # Len(s) + 1 /\ i \in DOMAIN Append(s, e)
         /\ Append(s, e)[Len(s) + 1] = e /\ Len(s) + 1 \in DOMAIN Append(s, e)
         /\ \A i \in DOMAIN Append(s, e) : i \in DOMAIN s \/ i = Len(s) + 1
  OBVIOUS

\* A step that does not touch the thread and what the actor knows of it.
ThreadFrame ==
    /\ js'.pc = js.pc /\ UNCHANGED <<events, control, commands>>
    /\ actor'.termination = actor.termination /\ actor'.runtime_closed = actor.runtime_closed
    /\ actor'.runtime_paused = actor.runtime_paused
    /\ actor'.pending_frontier_ready => actor.pending_frontier_ready
    /\ (actor'.pc = "none") <=> (actor.pc = "none")

\* Such a step keeps the invariant.
LEMMA FrameThread ==
  ASSUME ThreadInv, ThreadFrame PROVE ThreadInv'
<1>1. PendingSeen' <=> PendingSeen
  BY DEF ThreadFrame, PendingSeen
<1>2. ThreadOK'
  BY DEF ThreadInv, ThreadOK, ThreadFrame, Last
<1>3. PauseOK'
  BY <1>1 DEF ThreadInv, PauseOK, ThreadFrame
<1>4. StopOK'
  BY <1>1 DEF ThreadInv, StopOK, ThreadFrame
<1> QED
  BY <1>2, <1>3, <1>4 DEF ThreadInv

\* Which steps those are.
LEMMA ClientFrame ==
  ASSUME TypeInv
  PROVE  /\ \A m \in Modes, o \in Observations : Observe(o, m) => ThreadFrame
         /\ \A o \in Observations : ObserveRefused(o) \/ DropObservation(o) => ThreadFrame
         /\ \A t \in Terminations :
                Terminate(t) \/ TerminateCompleted(t) \/ TerminateRefused(t) => ThreadFrame
         /\ Shutdown \/ NotifyEnds \/ Elapse \/ Poll => ThreadFrame
<1>1. UNCHANGED <<actor, thread>> => ThreadFrame
  BY DEF ThreadFrame, thread
<1>2. Elapse => ThreadFrame
  BY DEF Elapse, ThreadFrame, thread, TypeInv, ActorStates
<1>3. Poll => ThreadFrame
  BY DEF Poll, ThreadFrame, thread, TypeInv, ActorStates
<1> QED
  BY <1>1, <1>2, <1>3 DEF Observe, ObserveRefused, DropObservation, Terminate, TerminateCompleted,
                          TerminateRefused, Shutdown, NotifyEnds

\* And of the actor.
LEMMA ActorFrame ==
  ASSUME TypeInv, OutcomeInv, ThreadInv
  PROVE  /\ \A o \in Observations :
                (\/ SkipDropped(o) \/ RouteToCompleted(o) \/ RouteClosed(o)
                 \/ ObserverBusy(o) \/ ObserveReadyFrontier(o)) => ThreadFrame
         /\ YieldTimer => ThreadFrame
         /\ (\/ NotificationsDrained \/ ToolsDrained \/ CallbacksGone
             \/ CommitCompletion \/ DeliverCompletion \/ DeliverRejected
             \/ FinishTermination \/ Leave \/ Closed) => ThreadFrame
<1>1. ASSUME NEW o \in Observations, SkipDropped(o) \/ RouteClosed(o) PROVE ThreadFrame
  BY <1>1, BackIs, TakesIs DEF SkipDropped, RouteClosed, ThreadFrame, thread
<1>2. ASSUME NEW o \in Observations, RouteToCompleted(o) PROVE ThreadFrame
  BY <1>2, TakesIs DEF RouteToCompleted, ThreadFrame, thread, TypeInv, ActorStates
<1>3. ASSUME NEW o \in Observations, ObserverBusy(o) PROVE ThreadFrame
  BY <1>3, BackIs, TakesIs DEF ObserverBusy, ThreadFrame, thread, ActorStates
<1>4. ASSUME NEW o \in Observations, ObserveReadyFrontier(o) PROVE ThreadFrame
  BY <1>4, BackIs, TakesIs DEF ObserveReadyFrontier, ThreadFrame, thread, ActorStates
<1>5. ASSUME YieldTimer PROVE ThreadFrame
  BY <1>5, YieldIs DEF YieldTimer, HandsOver, ThreadFrame, thread
<1>6. ASSUME \/ NotificationsDrained \/ ToolsDrained \/ CallbacksGone
             \/ CommitCompletion \/ DeliverCompletion \/ DeliverRejected
             \/ FinishTermination \/ Closed
      PROVE  ThreadFrame
  <2>1. EndMove
    BY <1>6, EndTyped
  <2>2. actor.pc # "none" /\ actor'.pc # "none" /\ UNCHANGED thread
    BY <1>6 DEF NotificationsDrained, ToolsDrained, CallbacksGone, CommitCompletion,
                DeliverCompletion, DeliverRejected, FinishTermination, Closed, TypeInv, ActorStates
  <2> QED
    BY <2>1, <2>2 DEF EndMove, ThreadFrame, thread
<1>7. ASSUME Leave PROVE ThreadFrame
  <2>1. EndMove
    BY <1>7, EndTyped
  <2>2. actor.pc = "leave" /\ actor'.pc = "closing" /\ UNCHANGED events
    BY <1>7 DEF Leave, TypeInv, ActorStates
  <2>3. js.pc = "ended"
    BY <2>2 DEF OutcomeInv, PlaceOK, ThreadInv, ThreadOK, Ending, Gone
  <2>4. js'.pc = js.pc /\ UNCHANGED <<commands, control>>
    BY <1>7, <2>3, BeginIs DEF Leave
  <2> QED
    BY <2>1, <2>2, <2>4 DEF EndMove, ThreadFrame
<1> QED
  BY <1>1, <1>2, <1>3, <1>4, <1>5, <1>6, <1>7

\* What the invariant says of a thread that is neither at a frontier nor
\* at its end.
LEMMA Running ==
  ASSUME TypeInv, ThreadInv, js.pc \notin {"control", "ended"}
  PROVE  /\ PendingSeen /\ Len(control) <= 2
         /\ \A i \in DOMAIN events : events[i].is \notin {"Result", "ThreadPanicked", "Pending"}
         /\ ~actor.termination => /\ control = <<>> /\ ~actor.runtime_paused
                                  /\ ~actor.pending_frontier_ready
         /\ ~actor.runtime_closed
  BY DEF ThreadInv, ThreadOK, PauseOK, StopOK, PendingSeen

\* A message of a running thread, which may end it or bring it to a frontier.
LEMMA SendThread ==
  ASSUME TypeInv, ThreadInv, js.pc \in {"init", "run", "next"},
         NEW m \in Messages, events' = Append(events, m), UNCHANGED <<control, commands, actor>>,
         js'.pc \in {"run", "control", "ended"},
         m.is \in {"Result", "ThreadPanicked"} => js'.pc = "ended",
         m.is = "Pending" => js'.pc = "control" /\ commands = <<>>,
         js'.pc = "control" => m.is = "Pending"
  PROVE  ThreadInv'
<1>0. events \in Seq(Messages) /\ commands \in Seq(Commands)
  BY DEF TypeInv
<1>1. /\ PendingSeen /\ Len(control) <= 2 /\ ~actor.runtime_closed /\ actor.pc # "none"
      /\ \A i \in DOMAIN events : events[i].is \notin {"Result", "ThreadPanicked", "Pending"}
      /\ ~actor.termination => /\ control = <<>> /\ ~actor.runtime_paused
                               /\ ~actor.pending_frontier_ready
  BY Running DEF ThreadInv, ThreadOK
<1>2. /\ Len(events') = Len(events) + 1 /\ events'[Len(events')] = m /\ Len(events') \in DOMAIN events'
      /\ \A i \in DOMAIN events' : i = Len(events') \/ (i \in DOMAIN events /\ events'[i] = events[i])
  <2>1. PICK ev \in Seq(Messages) : ev = events
    BY <1>0, Zenon
  <2>2. events' = Append(ev, m)
    BY <2>1
  <2> QED
    BY <2>1, <2>2, AppendIs
<1>3. ThreadOK'
  BY <1>1, <1>2 DEF ThreadOK, Last
<1>4. PendingSeen' <=> m.is # "Pending"
  BY <1>1, <1>2 DEF PendingSeen
<1>5. PauseOK'
  BY <1>1, <1>4 DEF PauseOK
<1>6. m.is = "Pending" => ~actor.termination
  BY <1>0, <1>1 DEF ThreadInv, StopOK
<1>7. StopOK'
  BY <1>1, <1>4, <1>6 DEF ThreadInv, StopOK
<1> QED
  BY <1>3, <1>5, <1>7 DEF ThreadInv

\* What the script does, and the frontier it reaches.
LEMMA ScriptThread ==
  ASSUME TypeInv, ThreadInv, Script \/ JsStart \/ JsPending PROVE ThreadInv'
<1>0. js \in JsStates /\ emitted.items \in Nat
  BY DEF TypeInv
<1>1. \A e \in CallNames \cup {"Started", "Pending", "Result", "ThreadPanicked"} :
          Message(e, 0) \in Messages /\ Message(e, 0).is = e
  BY DEF Message, Messages
<1>2. CASE JsOutput
  <2>1. /\ Message("ContentItem", emitted.items + 1) \in Messages
        /\ Message("ContentItem", emitted.items + 1).is = "ContentItem"
    BY <1>0 DEF Message, Messages
  <2>2. PICK m \in Messages : m = Message("ContentItem", emitted.items + 1)
    BY <2>1, Zenon
  <2> QED
    BY <1>2, <2>1, <2>2, SendThread DEF JsOutput, others
<1>3. ASSUME NEW call \in CallNames, JsCall(call) PROVE ThreadInv'
  <2>1. PICK m \in Messages : m = Message(call, 0)
    BY <1>1, Zenon
  <2>2. m.is \in CallNames
    BY <1>1, <2>1
  <2> QED
    BY <1>3, <2>1, <2>2, SendThread DEF JsCall, Send, others, CallNames
<1>4. CASE JsResult \/ JsPanic
  <2>1. PICK m \in Messages : m.is \in {"Result", "ThreadPanicked"} /\ events' = Append(events, m)
    BY <1>1, <1>4 DEF JsResult, JsPanic, Send
  <2>2. js'.pc = "ended" /\ js.pc \in {"init", "run"} /\ UNCHANGED <<control, commands, actor>>
    BY <1>0, <1>4 DEF JsResult, JsPanic, others, JsStates
  <2> QED
    BY <2>1, <2>2, SendThread
<1>5. CASE JsStart
  <2>1. PICK m \in Messages : m.is = "Started" /\ events' = Append(events, m)
    BY <1>1, <1>5 DEF JsStart, Send
  <2>2. js'.pc = "run" /\ js.pc = "init" /\ UNCHANGED <<control, commands, actor>>
    BY <1>0, <1>5 DEF JsStart, others, JsStates
  <2> QED
    BY <2>1, <2>2, SendThread
<1>6. CASE JsPending
  <2>1. PICK m \in Messages : m.is = "Pending" /\ events' = Append(events, m)
    BY <1>1, <1>6 DEF JsPending, Send
  <2>2. js'.pc = "control" /\ js.pc = "next" /\ commands = <<>> /\ UNCHANGED <<control, commands, actor>>
    BY <1>0, <1>6 DEF JsPending, others, JsStates
  <2> QED
    BY <2>1, <2>2, SendThread
<1>7. CASE JsAwait
  <2>1. js'.pc = "next" /\ js.pc = "run" /\ UNCHANGED <<events, control, commands, actor>>
    BY <1>0, <1>7 DEF JsAwait, others, JsStates
  <2>2. PendingSeen' <=> PendingSeen
    BY <2>1 DEF PendingSeen
  <2>3. ThreadOK'
    BY <2>1, Running DEF ThreadInv, ThreadOK, Last
  <2>4. PauseOK' /\ StopOK'
    BY <2>1, <2>2, Running DEF ThreadInv, PauseOK, StopOK
  <2> QED
    BY <2>3, <2>4 DEF ThreadInv
<1> QED
  BY <1>2, <1>3, <1>4, <1>5, <1>6, <1>7
     DEF Script, tool_callback, notify_callback, yield_control_callback, CallNames

\* A command lets the thread go on; past a termination only until it reads
\* Terminate.
LEMMA CommandThread ==
  ASSUME TypeInv, ThreadInv, JsCommand PROVE ThreadInv'
<1>1. /\ js.pc \in {"next", "command"} /\ commands \in Seq(Commands) /\ commands # <<>>
      /\ commands' = Tail(commands) /\ UNCHANGED <<events, control, actor>>
  BY DEF JsCommand, TypeInv, others
<1>2. js'.pc \in {"ended", "run", "next"} /\ (Head(commands) = "Terminate" <=> js'.pc = "ended")
  BY <1>1 DEF JsCommand, TypeInv, JsStates
<1>3. PendingSeen' <=> PendingSeen
  BY <1>1 DEF PendingSeen
<1>4. ThreadOK'
  BY <1>1, <1>2, Running DEF ThreadInv, ThreadOK, Last
<1>5. PauseOK'
  BY <1>1, <1>2, <1>3, Running DEF PauseOK
<1>6. ASSUME actor.termination, js'.pc # "ended"
      PROVE  \E i \in DOMAIN commands' : commands'[i] = "Terminate"
  <2>1. PICK i \in DOMAIN commands : commands[i] = "Terminate"
    BY <1>1, <1>6 DEF ThreadInv, StopOK
  <2>2. i # 1
    BY <1>1, <1>2, <1>6, <2>1
  <2> QED
    BY <1>1, <2>1, <2>2, TailIs
<1>7. StopOK'
  BY <1>1, <1>3, <1>6, Running DEF StopOK
<1> QED
  BY <1>4, <1>5, <1>7 DEF ThreadInv

\* A control command takes the thread from its frontier.
LEMMA ControlThread ==
  ASSUME TypeInv, ThreadInv, JsControl PROVE ThreadInv'
<1>1. /\ js.pc = "control" /\ control \in Seq(Controls) /\ control # <<>>
      /\ control' = Tail(control) /\ UNCHANGED <<events, commands, actor>>
  BY DEF JsControl, TypeInv, others
<1>2. /\ js'.pc \in {"command", "next", "ended"} /\ Head(control) = control[1]
      /\ Head(control) = "Terminate" => js'.pc = "ended"
      /\ Head(control) \in {"Continue", "Resume"} => js'.pc # "ended"
  BY <1>1 DEF JsControl, TypeInv, JsStates
<1>3. control[1] \in Controls
  BY <1>1
<1>4. PendingSeen' <=> PendingSeen
  BY <1>1 DEF PendingSeen
<1>5. ~PendingSeen => js'.pc = "ended"
  BY <1>1, <1>2 DEF ThreadInv, PauseOK, StopOK
<1>6. ThreadOK'
  BY <1>1, <1>2, <1>5 DEF ThreadInv, ThreadOK, Last, PendingSeen
<1>7. Len(control') = Len(control) - 1 /\ Len(control) \in Nat
  BY <1>1, TailIs
<1>8. PauseOK'
  <2> SUFFICES ASSUME ~actor.termination PROVE PauseOK'
    BY <1>1 DEF PauseOK
  <2>1. Len(control) = 1 /\ ~actor.runtime_paused /\ PendingSeen /\ ~actor.pending_frontier_ready
    BY <1>1 DEF ThreadInv, PauseOK
  <2>2. control' = <<>>
    BY <1>1, <2>1
  <2> QED
    BY <1>1, <1>2, <1>4, <2>1, <2>2 DEF PauseOK
<1>9. StopOK'
  BY <1>1, <1>4, <1>5, <1>7 DEF ThreadInv, StopOK
<1> QED
  BY <1>6, <1>8, <1>9 DEF ThreadInv

\* The thread is started; a tool answers.
LEMMA OtherThread ==
  ASSUME TypeInv, ThreadInv, (\E m \in Modes : Execute(m)) \/ ToolEnds PROVE ThreadInv'
<1>1. ASSUME NEW m \in Modes, Execute(m) PROVE ThreadInv'
  <2>1. /\ actor.pc = "none" /\ actor'.pc = "poll" /\ actor'.runtime_closed = actor.runtime_closed
        /\ actor'.termination = actor.termination /\ actor'.runtime_paused = actor.runtime_paused
        /\ actor'.pending_frontier_ready = actor.pending_frontier_ready
        /\ UNCHANGED <<events, control, commands>>
    BY <1>1 DEF Execute, Started, TypeInv, ActorStates
  <2>2. js'.pc = "init" /\ js.pc = "none"
    BY <1>1, <2>1 DEF Execute, TypeInv, JsStates, ThreadInv, ThreadOK
  <2>3. PendingSeen' <=> PendingSeen
    BY <2>1 DEF PendingSeen
  <2>4. ThreadOK'
    BY <2>1, <2>2, Running DEF ThreadInv, ThreadOK, Last
  <2>5. PauseOK' /\ StopOK'
    BY <2>1, <2>2, <2>3, Running DEF ThreadInv, PauseOK, StopOK
  <2> QED
    BY <2>4, <2>5 DEF ThreadInv
<1>2. ASSUME ToolEnds PROVE ThreadInv'
  <2>1. UNCHANGED <<js, events, control, actor>> /\ commands \in Seq(Commands)
    BY <1>2 DEF ToolEnds, TypeInv
  <2>2. PendingSeen' <=> PendingSeen
    BY <2>1 DEF PendingSeen
  <2>3. ThreadOK' /\ PauseOK'
    BY <2>1, <2>2 DEF ThreadInv, ThreadOK, PauseOK, Last
  <2>4. ASSUME NEW i \in DOMAIN commands, commands[i] = "Terminate"
        PROVE  i \in DOMAIN commands' /\ commands'[i] = "Terminate"
    <3>1. "ToolResponse" \in Commands
      BY DEF Commands
    <3>2. commands' = commands \/ commands' = Append(commands, "ToolResponse")
      BY <1>2 DEF ToolEnds, ToThread
    <3> QED
      BY <2>1, <2>4, <3>1, <3>2, AppendIs
  <2>5. StopOK'
    BY <2>1, <2>2, <2>4 DEF ThreadInv, StopOK
  <2> QED
    BY <2>3, <2>5 DEF ThreadInv
<1> QED
  BY <1>1, <1>2

\* The actor tells the thread to stop, over both channels.
LEMMA CancelThread ==
  ASSUME TypeInv, ThreadInv, SeeCancelled PROVE ThreadInv'
<1>1. /\ js'.pc = js.pc
      /\ js.pc = "ended" => UNCHANGED <<commands, control>>
      /\ js.pc # "ended" => /\ commands' = Append(commands, "Terminate")
                            /\ control' = Append(control, "Terminate")
  BY BeginIs DEF SeeCancelled
<1>2. /\ actor'.termination = TRUE /\ ~actor.termination /\ UNCHANGED events
      /\ actor'.runtime_closed = actor.runtime_closed /\ actor.pc # "none" /\ actor'.pc # "none"
  BY DEF SeeCancelled, TypeInv, ActorStates
<1>3. /\ commands \in Seq(Commands) /\ control \in Seq(Controls)
      /\ "Terminate" \in Commands /\ "Terminate" \in Controls
  BY DEF TypeInv, Commands, Controls
<1>4. PendingSeen' <=> PendingSeen
  BY <1>2 DEF PendingSeen
<1>5. ThreadOK'
  BY <1>1, <1>2 DEF ThreadInv, ThreadOK, Last
<1>6. PauseOK'
  BY <1>2 DEF PauseOK
<1>7. StopOK'
  <2>1. CASE js.pc = "ended"
    BY <1>1, <2>1 DEF ThreadInv, StopOK
  <2>2. CASE js.pc # "ended"
    <3>1. \E i \in DOMAIN commands' : commands'[i] = "Terminate"
      BY <1>1, <1>3, <2>2, AppendIs
    <3>2. /\ Len(control') = Len(control) + 1 /\ control'[Len(control) + 1] = "Terminate"
          /\ Len(control) \in Nat
      BY <1>1, <1>3, <2>2, AppendIs
    <3>3. control = <<>> \/ (Len(control) = 1 /\ PendingSeen)
      BY <1>2 DEF ThreadInv, PauseOK
    <3>4. control = <<>> => Len(control) = 0
      OBVIOUS
    <3>5. PICK n \in Nat : n = Len(control) /\ Len(control') = n + 1 /\ control'[n + 1] = "Terminate"
      BY <3>2, Zenon
    <3>6. n = 0 \/ (n = 1 /\ PendingSeen)
      BY <3>3, <3>4, <3>5
    <3>7. Len(control') <= 2
      <4>1. Len(control') = n + 1 /\ (n = 0 \/ n = 1)
        BY <3>5, <3>6
      <4>2. Len(control') = 1 \/ Len(control') = 2
        BY <4>1
      <4> QED
        BY <4>2
    <3>8. ~PendingSeen => Len(control') = 1 /\ control'[1] = "Terminate"
      BY <3>5, <3>6
    <3> QED
      BY <1>4, <3>1, <3>7, <3>8 DEF StopOK
  <2> QED
    BY <2>1, <2>2
<1> QED
  BY <1>5, <1>6, <1>7 DEF ThreadInv

\* resume_for_observation: a paused thread gets one control command, another
\* one a request for its frontier.
LEMMA ResumeThread ==
  ASSUME TypeInv, ThreadInv, NEW o \in Observations, BecomeObserver(o) PROVE ThreadInv'
<1>0. ask[o].mode \in Modes /\ control \in Seq(Controls) /\ actor \in ActorStates
  BY CallsDiffer DEF TypeInv, AskStates
<1>1. /\ UNCHANGED <<js, events>> /\ actor'.termination = actor.termination /\ ~actor.termination
      /\ actor'.runtime_closed = actor.runtime_closed /\ actor'.runtime_paused = FALSE
      /\ actor.pc # "none" /\ actor'.pc # "none"
      /\ ~(ask[o].mode = "PendingFrontier" /\ actor.pending_frontier_ready)
  BY <1>0, BackIs, TakesIs DEF BecomeObserver, ActorStates
<1>2. actor'.pending_frontier_ready => actor.pending_frontier_ready
                                        /\ ~(actor.runtime_paused /\ ask[o].mode = "YieldAfter")
  BY BackIs DEF BecomeObserver, ActorStates
<1>3. ~actor'.pending_frontier_ready
  BY <1>0, <1>1, <1>2 DEF ThreadInv, PauseOK, Modes
<1>4. PendingSeen' <=> PendingSeen
  BY <1>1 DEF PendingSeen
<1>5. ThreadOK'
  BY <1>1 DEF ThreadInv, ThreadOK, Last
<1>6. CASE actor.runtime_paused
  <2>1. js.pc = "control" /\ PendingSeen /\ control = <<>>
    BY <1>1, <1>6 DEF ThreadInv, PauseOK
  <2>2. PICK x \in {"Continue", "Resume"} : control' = Append(control, x)
    BY <1>6, <2>1 DEF BecomeObserver, resume_for_observation, ToThread
  <2>3. Len(control') = 1 /\ control'[1] = x /\ control' # <<>>
    BY <2>1, <2>2
  <2>4. PauseOK'
    BY <1>1, <1>3, <1>4, <2>1, <2>2, <2>3 DEF PauseOK
  <2>5. StopOK'
    BY <1>1, <2>3 DEF StopOK
  <2> QED
    BY <1>5, <2>4, <2>5 DEF ThreadInv
<1>7. CASE ~actor.runtime_paused
  <2>1. UNCHANGED control
    BY <1>7 DEF BecomeObserver, resume_for_observation
  <2>2. PauseOK'
    BY <1>1, <1>3, <1>4, <1>7, <2>1 DEF ThreadInv, PauseOK
  <2>3. StopOK'
    BY <1>1, <2>1 DEF ThreadInv, StopOK
  <2> QED
    BY <1>5, <2>2, <2>3 DEF ThreadInv
<1> QED
  BY <1>6, <1>7

\* An event is taken: what is left, and whether a Pending is among it.
LEMMA TakenEvent ==
  ASSUME TypeInv, ThreadInv, NEW e, TakesEvent(e)
  PROVE  /\ events \in Seq(Messages) /\ events' \in Seq(Messages)
         /\ events # <<>> /\ events[1].is = e /\ 1 \in DOMAIN events
         /\ Len(events') = Len(events) - 1 /\ Len(events) \in Nat
         /\ \A i \in DOMAIN events' : events'[i] = events[i + 1] /\ i + 1 \in DOMAIN events
         /\ e # "Pending" => (PendingSeen' <=> PendingSeen)
         /\ e \in {"Pending", "Result", "ThreadPanicked"} => events' = <<>> /\ PendingSeen'
         /\ e = "Pending" => ~PendingSeen
<1>1. events \in Seq(Messages) /\ events # <<>> /\ events[1].is = e /\ events' = Tail(events)
      /\ events' \in Seq(Messages)
  BY EventIs
<1>2. PICK ev \in Seq(Messages) : ev = events
  BY <1>1, Zenon
<1>3. /\ Len(events') = Len(events) - 1 /\ Len(events) \in Nat
      /\ 1 \in DOMAIN events
      /\ \A i \in DOMAIN events' : events'[i] = events[i + 1] /\ i + 1 \in DOMAIN events
      /\ \A i \in DOMAIN events : i # 1 => i - 1 \in DOMAIN events' /\ events'[i - 1] = events[i]
  BY <1>1, <1>2, TailIs
<1>4. ASSUME e # "Pending" PROVE PendingSeen' <=> PendingSeen
  <2>1. ASSUME PendingSeen, NEW i \in DOMAIN events' PROVE events'[i].is # "Pending"
    BY <1>3, <2>1 DEF PendingSeen
  <2>2. ASSUME PendingSeen', NEW i \in DOMAIN events PROVE events[i].is # "Pending"
    <3>1. CASE i = 1
      BY <1>1, <1>4, <3>1
    <3>2. CASE i # 1
      <4>1. i - 1 \in DOMAIN events' /\ events'[i - 1] = events[i]
        BY <1>3, <3>2
      <4> QED
        BY <2>2, <4>1 DEF PendingSeen
    <3> QED
      BY <3>1, <3>2
  <2> QED
    BY <2>1, <2>2 DEF PendingSeen
<1>5. e = "Pending" => ~PendingSeen
  BY <1>1, <1>3 DEF PendingSeen
<1>6. ASSUME e \in {"Pending", "Result", "ThreadPanicked"} PROVE events' = <<>> /\ PendingSeen'
  <2>1. Len(events) = 1
    BY <1>1, <1>3, <1>6 DEF ThreadInv, ThreadOK, Last
  <2>2. events' = <<>>
    BY <1>1, <2>1
  <2> QED
    BY <2>2 DEF PendingSeen
<1> QED
  BY <1>1, <1>3, <1>4, <1>5, <1>6

\* An event that is neither a frontier nor the end.
LEMMA PlainEventThread ==
  ASSUME TypeInv, ThreadInv, NEW e, TakesEvent(e), e # "Pending",
         UNCHANGED <<js, control, commands>>,
         actor'.termination = actor.termination, actor'.runtime_closed = actor.runtime_closed,
         actor'.runtime_paused = actor.runtime_paused,
         actor'.pending_frontier_ready = actor.pending_frontier_ready, actor'.pc # "none"
  PROVE  ThreadInv'
<1>1. /\ Len(events') = Len(events) - 1 /\ Len(events) \in Nat
      /\ \A i \in DOMAIN events' : events'[i] = events[i + 1] /\ i + 1 \in DOMAIN events
      /\ PendingSeen' <=> PendingSeen
  BY TakenEvent
<1>2. actor.pc = "select" /\ ~actor.runtime_closed
  BY EventIs
<1>3. ASSUME NEW i \in DOMAIN events', Last(i + 1) PROVE Last(i)'
  <2>1. events' \in Seq(Messages)
    BY TakenEvent
  <2>2. i \in Nat
    BY <2>1
  <2> QED
    BY <1>1, <1>3, <2>2 DEF Last
<1>4. ThreadOK'
  BY <1>1, <1>2, <1>3 DEF ThreadInv, ThreadOK
<1>5. PauseOK' /\ StopOK'
  BY <1>1 DEF ThreadInv, PauseOK, StopOK
<1> QED
  BY <1>4, <1>5 DEF ThreadInv

\* The frontier: the thread is paused for an observer that waits for it, and
\* is sent on otherwise.
LEMMA PendingThread ==
  ASSUME TypeInv, ThreadInv, OnPending PROVE ThreadInv'
<1>1. TakesEvent("Pending")
  BY DEF OnPending
<1>2. events' = <<>> /\ PendingSeen' /\ ~PendingSeen /\ events[1].is = "Pending" /\ 1 \in DOMAIN events
  BY <1>1, TakenEvent
<1>3. actor.pc = "select" /\ ~actor.runtime_closed /\ UNCHANGED <<js, commands>>
  BY <1>1, EventIs DEF OnPending
<1>4. js.pc \in {"control", "ended"} /\ js.pc # "none"
  BY <1>2 DEF ThreadInv, ThreadOK
<1>5. /\ ~actor.termination => /\ js.pc = "control" /\ control = <<>> /\ ~actor.runtime_paused
                               /\ ~actor.pending_frontier_ready
      /\ actor.termination /\ js.pc # "ended" =>
             (\E i \in DOMAIN commands : commands[i] = "Terminate") /\ Len(control) = 1
      /\ Len(control) <= 2
  BY <1>2 DEF ThreadInv, PauseOK, StopOK
<1>6. control \in Seq(Controls) /\ "Continue" \in Controls
  BY DEF TypeInv, Controls
<1>7. CASE ObserverMode("PendingFrontier")
  <2>1. /\ actor'.termination = actor.termination /\ actor'.runtime_closed = actor.runtime_closed
        /\ actor'.runtime_paused = TRUE /\ actor'.pc = "poll" /\ UNCHANGED control
    BY <1>7, PendingIs DEF OnPending, HandsOver
  <2>2. ThreadOK'
    BY <1>2, <1>3, <1>4, <2>1 DEF ThreadOK
  <2>3. PauseOK'
    BY <1>2, <1>3, <1>5, <2>1 DEF PauseOK
  <2>4. StopOK'
    BY <1>2, <1>3, <1>5, <2>1 DEF StopOK
  <2> QED
    BY <2>2, <2>3, <2>4 DEF ThreadInv
<1>8. CASE ~ObserverMode("PendingFrontier")
  <2>1. /\ actor'.termination = actor.termination /\ actor'.runtime_closed = actor.runtime_closed
        /\ actor'.runtime_paused = FALSE /\ actor'.pc = "poll"
        /\ actor'.pending_frontier_ready = actor.pending_frontier_ready
    BY <1>8, BackIs DEF OnPending, ActorStates
  <2>2. /\ js.pc = "ended" => control' = control
        /\ js.pc # "ended" => control' = Append(control, "Continue")
    BY <1>6, <1>8, ToThreadTyped DEF OnPending
  <2>3. ThreadOK'
    BY <1>2, <1>3, <1>4, <2>1 DEF ThreadOK
  <2>4. ASSUME ~actor.termination
        PROVE  Len(control') = 1 /\ control'[1] = "Continue" /\ control' # <<>>
    <3>1. control' = Append(<<>>, "Continue")
      BY <1>5, <2>2, <2>4
    <3> QED
      BY <3>1
  <2>5. PauseOK'
    BY <1>2, <1>3, <1>5, <2>1, <2>4 DEF PauseOK
  <2>6. Len(control') <= 2
    <3>1. CASE js.pc = "ended"
      BY <1>5, <2>2, <3>1
    <3>2. CASE js.pc # "ended"
      <4>1. Len(control) \in Nat /\ Len(control') = Len(control) + 1
        BY <1>6, <2>2, <3>2, AppendIs
      <4>2. PICK n \in Nat : n = Len(control) /\ Len(control') = n + 1
        BY <4>1, Zenon
      <4>3. n = 0 \/ n = 1
        <5>1. control = <<>> => Len(control) = 0
          OBVIOUS
        <5>2. control = <<>> \/ Len(control) = 1
          BY <1>5, <3>2
        <5> QED
          BY <4>2, <5>1, <5>2
      <4>4. Len(control') = 1 \/ Len(control') = 2
        BY <4>2, <4>3
      <4> QED
        BY <4>4
    <3> QED
      BY <3>1, <3>2
  <2>7. StopOK'
    BY <1>2, <1>3, <1>5, <2>1, <2>6 DEF StopOK
  <2> QED
    BY <2>3, <2>5, <2>7 DEF ThreadInv
<1> QED
  BY <1>7, <1>8

\* The end of the script.
LEMMA ResultThread ==
  ASSUME TypeInv, ThreadInv, OnResult \/ OnChannelClosed PROVE ThreadInv'
<1>1. ClosesRuntime
  BY ResultIs
<1>2. events' = <<>> /\ PendingSeen' /\ js.pc = "ended" /\ UNCHANGED <<js, control, commands>>
  <2>1. CASE OnResult
    <3>1. TakesEvent("Result")
      BY <2>1 DEF OnResult
    <3>2. events' = <<>> /\ PendingSeen' /\ events[1].is = "Result" /\ 1 \in DOMAIN events
      BY <3>1, TakenEvent
    <3> QED
      BY <2>1, <3>2 DEF OnResult, ThreadInv, ThreadOK
  <2>2. CASE OnChannelClosed
    BY <2>2 DEF OnChannelClosed, thread, PendingSeen
  <2> QED
    BY <2>1, <2>2
<1>3. ThreadOK'
  BY <1>1, <1>2 DEF ClosesRuntime, ThreadOK
<1>4. PauseOK' /\ StopOK'
  BY <1>1, <1>2 DEF ClosesRuntime, ThreadInv, PauseOK, StopOK
<1> QED
  BY <1>3, <1>4 DEF ThreadInv

\* All events.
LEMMA EventThread ==
  ASSUME TypeInv, ThreadInv, TakeEvent PROVE ThreadInv'
<1>1. ASSUME OnStarted \/ OnContentItem \/ OnNotify \/ OnToolCall \/ OnThreadPanicked PROVE ThreadInv'
  <2>1. PICK e : TakesEvent(e) /\ e # "Pending"
    BY <1>1 DEF OnStarted, OnContentItem, OnNotify, OnToolCall, OnThreadPanicked
  <2>2. /\ actor'.pc = "poll" /\ actor'.runtime_closed = actor.runtime_closed
        /\ actor'.termination = actor.termination /\ actor'.runtime_paused = actor.runtime_paused
        /\ actor'.pending_frontier_ready = actor.pending_frontier_ready
        /\ UNCHANGED <<js, control, commands>>
    BY <1>1, BackIs DEF OnStarted, OnContentItem, OnNotify, OnToolCall, OnThreadPanicked, ActorStates
  <2> QED
    BY <2>1, <2>2, PlainEventThread
<1>2. ASSUME OnYieldRequested PROVE ThreadInv'
  <2>1. TakesEvent("YieldRequested") /\ UNCHANGED <<js, control, commands>>
    BY <1>2 DEF OnYieldRequested
  <2>2. /\ actor'.pc = "poll" /\ actor'.runtime_closed = actor.runtime_closed
        /\ actor'.termination = actor.termination /\ actor'.runtime_paused = actor.runtime_paused
        /\ actor'.pending_frontier_ready = actor.pending_frontier_ready
    BY <1>2, BackIs, YieldIs DEF OnYieldRequested, HandsOver
  <2> QED
    BY <2>1, <2>2, PlainEventThread
<1> QED
  BY <1>1, <1>2, PendingThread, ResultThread DEF TakeEvent

\* Every step keeps the invariant of the thread.
LEMMA ThreadStep ==
  ASSUME TypeInv, OutcomeInv, ThreadInv, [Next]_vars PROVE ThreadInv'
<1>1. ASSUME UNCHANGED vars PROVE ThreadInv'
  <2>1. ThreadFrame
    BY <1>1 DEF ThreadFrame, vars, thread
  <2> QED
    BY <2>1, FrameThread
<1>2. ASSUME ClientStep \/ NotifyEnds \/ Elapse PROVE ThreadInv'
  <2>1. ThreadFrame \/ \E m \in Modes : Execute(m)
    BY <1>2, ClientFrame DEF ClientStep
  <2> QED
    BY <2>1, FrameThread, OtherThread
<1>3. ASSUME ActorStep PROVE ThreadInv'
  <2>1. ASSUME TakeCommand PROVE ThreadInv'
    <3>1. PICK o \in Observations :
              \/ SkipDropped(o) \/ RouteToCompleted(o) \/ RouteClosed(o)
              \/ ObserverBusy(o) \/ ObserveReadyFrontier(o) \/ BecomeObserver(o)
      BY <2>1 DEF TakeCommand
    <3>2. ThreadFrame \/ BecomeObserver(o)
      BY <3>1, ActorFrame
    <3> QED
      BY <3>2, FrameThread, ResumeThread
  <2>2. ASSUME Poll \/ YieldTimer PROVE ThreadInv'
    BY <2>2, ClientFrame, ActorFrame, FrameThread
  <2>3. ASSUME \/ NotificationsDrained \/ ToolsDrained \/ CallbacksGone
               \/ CommitCompletion \/ DeliverCompletion \/ DeliverRejected
               \/ FinishTermination \/ Leave \/ Closed
        PROVE  ThreadInv'
    BY <2>3, ActorFrame, FrameThread
  <2> QED
    BY <1>3, <2>1, <2>2, <2>3, EventThread, CancelThread DEF ActorStep
<1>4. ASSUME Script \/ ThreadLoop PROVE ThreadInv'
  BY <1>4, ScriptThread, CommandThread, ControlThread DEF ThreadLoop
<1> QED
  BY <1>1, <1>2, <1>3, <1>4, OtherThread DEF Next

\* It holds at first.
LEMMA ThreadInit == Init => ThreadInv
  BY DEF Init, ThreadInv, ThreadOK, PauseOK, StopOK, PendingSeen

(***************************************************************************)
(* Who waits.                                                              *)
(***************************************************************************)

WaitInv == Placed /\ SlotsOK /\ QueueOK

\* No call begins in this step.
NoneBegins ==
    \A c \in Calls : /\ ask'[c].st = "waiting" => ask[c].st = "waiting"
                     /\ ask'[c].st = "idle" => ask[c].st = "idle"

\* To answer is not to begin, and who is answered waits no longer.
LEMMA AnswerNoneBegins ==
  ASSUME NEW C, NEW e, Answering(C, e)
  PROVE  NoneBegins /\ \A c \in Calls : c \in C => ask'[c].st # "waiting"
  BY CallsDiffer DEF Answering, NoneBegins, IsWaiting

\* The inbox without its first call.
LEMMA QueueTail ==
  ASSUME TypeInv, WaitInv, NEW o \in Observations, TakesCommand(o)
  PROVE  /\ Queued = Queued' \cup {o} /\ o \notin Queued'
         /\ \A i, j \in DOMAIN inbox'.queue : i # j => inbox'.queue[i] # inbox'.queue[j]
<1>1. /\ inbox.queue \in Seq(Observations) /\ inbox.queue # <<>> /\ o = inbox.queue[1]
      /\ inbox'.queue = Tail(inbox.queue)
  BY TakesIs
<1>2. PICK q \in Seq(Observations) : q = inbox.queue
  BY <1>1, Zenon
<1>3. /\ \A i \in DOMAIN inbox'.queue :
            inbox'.queue[i] = inbox.queue[i + 1] /\ i + 1 \in DOMAIN inbox.queue /\ i \in Nat
                /\ i + 1 # 1
      /\ \A i \in DOMAIN inbox.queue :
            i # 1 => i - 1 \in DOMAIN inbox'.queue /\ inbox'.queue[i - 1] = inbox.queue[i]
      /\ 1 \in DOMAIN inbox.queue
  BY <1>1, <1>2, TailIs
<1>4. \A i, j \in DOMAIN inbox.queue : i # j => inbox.queue[i] # inbox.queue[j]
  BY DEF WaitInv, QueueOK
<1>5. \A i, j \in DOMAIN inbox'.queue : i # j => inbox'.queue[i] # inbox'.queue[j]
  <2> TAKE i, j \in DOMAIN inbox'.queue
  <2> HAVE i # j
  <2>1. i \in Nat /\ j \in Nat /\ i + 1 \in DOMAIN inbox.queue /\ j + 1 \in DOMAIN inbox.queue
    BY <1>3
  <2>2. i + 1 # j + 1
    BY <2>1
  <2>3. inbox.queue[i + 1] # inbox.queue[j + 1]
    BY <1>4, <2>1, <2>2
  <2> QED
    BY <1>3, <2>3
<1>6. o \notin Queued'
  BY <1>1, <1>3, <1>4 DEF Queued
<1>7. Queued = Queued' \cup {o}
  <2>1. ASSUME NEW c \in Queued PROVE c \in Queued' \cup {o}
    <3>1. PICK i \in DOMAIN inbox.queue : c = inbox.queue[i]
      BY <2>1 DEF Queued
    <3> QED
      BY <1>1, <1>3, <3>1 DEF Queued
  <2>2. ASSUME NEW c \in Queued' PROVE c \in Queued
    BY <1>3, <2>2 DEF Queued
  <2> QED
    BY <1>1, <1>3, <2>1, <2>2 DEF Queued
<1> QED
  BY <1>5, <1>6, <1>7

\* A step that puts no call into the inbox.
LEMMA QueueKept ==
  ASSUME TypeInv, WaitInv, NoneBegins,
         \/ inbox'.queue = inbox.queue
         \/ inbox'.queue = <<>>
         \/ \E o \in Observations : TakesCommand(o)
  PROVE  QueueOK'
<1>0. QueueOK /\ Queued \subseteq Calls
  BY CallsDiffer DEF WaitInv, TypeInv, Queued
<1>1. CASE inbox'.queue = inbox.queue
  BY <1>0, <1>1 DEF QueueOK, Queued, NoneBegins
<1>2. CASE inbox'.queue = <<>>
  BY <1>2 DEF QueueOK, Queued
<1>3. CASE \E o \in Observations : TakesCommand(o)
  <2>1. PICK o \in Observations : TakesCommand(o)
    BY <1>3
  <2>2. /\ Queued = Queued' \cup {o}
        /\ \A i, j \in DOMAIN inbox'.queue : i # j => inbox'.queue[i] # inbox'.queue[j]
    BY <2>1, QueueTail
  <2> QED
    BY <1>0, <2>2 DEF QueueOK, NoneBegins
<1> QED
  BY <1>1, <1>2, <1>3

\* A step that lets nobody fall out of the three places.
LEMMA PlacedKept ==
  ASSUME WaitInv, NoneBegins,
         \A c \in Calls : ask'[c].st = "waiting" =>
             /\ c \in Queued => c \in Queued' \/ c = actor'.observer
             /\ c = actor.observer => c = actor'.observer
             /\ c = phase.tx => c = phase'.tx
  PROVE  Placed'
  BY CallsDiffer DEF WaitInv, Placed, NoneBegins, IsWaiting

\* Steps that touch neither calls, nor inbox, nor observer.
LEMMA StillWaits ==
  ASSUME TypeInv, WaitInv, UNCHANGED <<ask, inbox>>, actor'.observer = actor.observer,
         phase'.tx = phase.tx, SlotsOK'
  PROVE  WaitInv'
<1>1. NoneBegins
  BY DEF NoneBegins
<1>2. QueueOK'
  BY <1>1, QueueKept
<1>3. Placed'
  BY <1>1, PlacedKept DEF Queued
<1> QED
  BY <1>2, <1>3 DEF WaitInv

\* A step of one call that does not make it wait.
LEMMA OneNoneBegins ==
  ASSUME NEW c \in Calls, OneCall(c), ask'[c].st \in {"answered", "dropped"}
  PROVE  NoneBegins /\ ask'[c].st # "waiting"
  BY DEF OneCall, NoneBegins

\* An observation goes into the inbox.
LEMMA ObserveWaits ==
  ASSUME TypeInv, WaitInv, NEW o \in Observations, NEW m \in Modes, Observe(o, m)
  PROVE  WaitInv'
<1>1. /\ OneCall(o) /\ ask'[o].st = "waiting" /\ ask[o].st = "idle"
      /\ inbox.open /\ o \in Calls /\ UNCHANGED <<phase, actor, tasks>>
  BY CallUpdate, CallsDiffer DEF Observe, cell
<1>2. inbox.queue \in Seq(Observations)
  BY DEF TypeInv
<1>3. PICK q \in Seq(Observations) : q = inbox.queue
  BY <1>2, Zenon
<1>4. inbox'.queue = Append(q, o) /\ inbox'.open = inbox.open
  BY <1>3 DEF Observe, TypeInv
<1>5. /\ DOMAIN inbox.queue \subseteq DOMAIN inbox'.queue
      /\ \A i \in DOMAIN inbox.queue : inbox'.queue[i] = inbox.queue[i]
      /\ Len(q) + 1 \in DOMAIN inbox'.queue /\ inbox'.queue[Len(q) + 1] = o
      /\ \A i \in DOMAIN inbox'.queue : i \in DOMAIN inbox.queue \/ i = Len(q) + 1
  BY <1>3, <1>4, AppendIs
<1>6. Queued' = Queued \cup {o}
  <2>1. Queued' \subseteq Queued \cup {o}
    BY <1>5 DEF Queued
  <2>2. Queued \subseteq Queued' /\ o \in Queued'
    BY <1>5 DEF Queued
  <2> QED
    BY <2>1, <2>2
<1>7. o \notin Queued
  BY <1>1 DEF WaitInv, QueueOK
<1>8. \A i, j \in DOMAIN inbox'.queue : i # j => inbox'.queue[i] # inbox'.queue[j]
  <2>1. \A i \in DOMAIN inbox.queue : inbox.queue[i] # o
    BY <1>7 DEF Queued
  <2> QED
    BY <1>5, <2>1 DEF WaitInv, QueueOK
<1>9. QueueOK'
  <2>1. Queued \subseteq Calls
    BY CallsDiffer DEF Queued, TypeInv
  <2>2. \A c \in Queued : ask[c].st # "idle"
    BY DEF WaitInv, QueueOK
  <2>3. \A c \in Queued' : ask'[c].st # "idle"
    BY <1>1, <1>6, <2>1, <2>2 DEF OneCall
  <2> QED
    BY <1>8, <2>3 DEF QueueOK
<1>10. Placed'
  BY <1>1, <1>6, CallsDiffer DEF WaitInv, Placed, OneCall, IsWaiting
<1>11. SlotsOK'
  BY <1>1, <1>4 DEF WaitInv, SlotsOK, Kept
<1> QED
  BY <1>9, <1>10, <1>11 DEF WaitInv

\* The other calls of clients.
LEMMA ClientWaits ==
  ASSUME TypeInv, OutcomeInv, ThreadInv, WaitInv, ClientStep PROVE WaitInv'
<1>0. Placed /\ SlotsOK /\ QueueOK /\ phase \in Phases
  BY DEF WaitInv, TypeInv
<1>1. ASSUME NEW m \in Modes, Execute(m) PROVE WaitInv'
  <2>1. /\ OneCall(First) /\ ask'[First].st = "waiting" /\ First \in Calls
        /\ UNCHANGED <<phase, inbox, tasks>>
    BY <1>1, CallUpdate, CallsDiffer DEF Execute, cell
  <2>2. actor'.pc = "poll" /\ actor'.observer = First /\ actor.pc = "none"
    BY <1>1, CallsDiffer DEF Execute, Started, TypeInv, ActorStates
  <2>3. \A c \in Calls : ask[c].st = "idle"
    BY <2>2 DEF OutcomeInv, BeginOK
  <2>4. ~Kept
    BY <2>2 DEF OutcomeInv, PlaceOK, ThreadInv, ThreadOK
  <2>5. Placed'
    BY <2>1, <2>2, <2>3, CallsDiffer DEF Placed, OneCall, IsWaiting
  <2>6. Queued = {} /\ Queued' = Queued
    <3>1. Queued \subseteq Calls
      BY CallsDiffer DEF Queued, TypeInv
    <3> QED
      BY <1>0, <2>1, <2>3, <3>1 DEF QueueOK, Queued
  <2>7. QueueOK'
    BY <1>0, <2>1, <2>6 DEF QueueOK
  <2>8. SlotsOK'
    BY <1>0, <2>1, <2>2, <2>4 DEF SlotsOK, Kept, Gone
  <2> QED
    BY <2>5, <2>7, <2>8 DEF WaitInv
<1>2. ASSUME NEW c \in Calls, OneCall(c), ask'[c].st \in {"answered", "dropped"},
             UNCHANGED <<inbox, actor, tasks>>, phase'.tx = phase.tx, Kept' <=> Kept
      PROVE  WaitInv'
  <2>1. NoneBegins
    BY <1>2, OneNoneBegins
  <2>2. QueueOK'
    BY <1>2, <2>1, QueueKept
  <2>3. Placed'
    BY <1>2, <2>1, PlacedKept DEF Queued
  <2>4. SlotsOK'
    BY <1>0, <1>2 DEF SlotsOK
  <2> QED
    BY <2>2, <2>3, <2>4 DEF WaitInv
<1>3. ASSUME NEW o \in Observations, ObserveRefused(o) \/ DropObservation(o) PROVE WaitInv'
  <2>1. /\ o \in Calls /\ UNCHANGED <<inbox, actor, tasks, phase>>
    BY <1>3, CallsDiffer DEF ObserveRefused, DropObservation, cell
  <2>2. OneCall(o) /\ ask'[o].st \in {"answered", "dropped"}
    <3>1. CASE DropObservation(o)
      BY <2>1, <3>1, CallUpdate DEF DropObservation
    <3>2. CASE ObserveRefused(o)
      BY <2>1, <3>2, RefuseIs DEF ObserveRefused, Errors
    <3> QED
      BY <1>3, <3>1, <3>2
  <2> QED
    BY <1>2, <2>1, <2>2 DEF Kept
<1>4. ASSUME NEW t \in Terminations, TerminateRefused(t) PROVE WaitInv'
  <2>1. /\ t \in Calls /\ UNCHANGED <<inbox, actor, tasks, phase>>
    BY <1>4, CallsDiffer DEF TerminateRefused, cell
  <2>2. OneCall(t) /\ ask'[t].st = "answered"
    BY <1>4, <2>1, RefuseIs DEF TerminateRefused, Errors
  <2> QED
    BY <1>2, <2>1, <2>2 DEF Kept
<1>5. ASSUME NEW t \in Terminations, Terminate(t) PROVE WaitInv'
  <2>1. /\ OneCall(t) /\ ask'[t].st = "waiting" /\ t \in Calls
        /\ UNCHANGED <<inbox, actor, tasks>>
    BY <1>5, CallUpdate, CallsDiffer DEF Terminate
  <2>2. /\ phase'.is = "Terminating" /\ phase'.tx = t /\ phase.is = "Running" /\ phase.tx = NoOne
    BY <1>0, <1>5 DEF Terminate, Phases, OutcomeInv, PhaseOK
  <2>3. Placed'
    BY <1>0, <2>1, <2>2, CallsDiffer DEF Placed, OneCall, IsWaiting, Queued
  <2>4. Queued \subseteq Calls
    BY CallsDiffer DEF Queued, TypeInv
  <2>5. QueueOK'
    BY <1>0, <2>1, <2>4 DEF QueueOK, OneCall, Queued
  <2>6. SlotsOK'
    BY <1>0, <2>1, <2>2 DEF SlotsOK, Kept
  <2> QED
    BY <2>3, <2>5, <2>6 DEF WaitInv
<1>6. ASSUME NEW t \in Terminations, TerminateCompleted(t) PROVE WaitInv'
  <2>1. phase.event \in Answers /\ t \in Calls /\ UNCHANGED <<inbox, actor, tasks>>
    BY <1>0, <1>6, CallsDiffer DEF Phases, TerminateCompleted
  <2>2. OneCall(t) /\ ask'[t].st = "answered"
    BY <1>6, <2>1, CallUpdate DEF TerminateCompleted
  <2>3. phase'.tx = phase.tx /\ (Kept' <=> Kept)
    BY <1>0, <1>6 DEF TerminateCompleted, Phases, Kept
  <2> QED
    BY <1>2, <2>1, <2>2, <2>3
<1>7. ASSUME Shutdown PROVE WaitInv'
  BY <1>0, <1>7, StillWaits DEF Shutdown, SlotsOK, Kept
<1> QED
  BY <1>1, <1>3, <1>4, <1>5, <1>6, <1>7, ObserveWaits DEF ClientStep

\* Thread, callbacks and timer.
LEMMA ThreadWaits ==
  ASSUME TypeInv, WaitInv, Script \/ ThreadLoop \/ NotifyEnds \/ ToolEnds \/ Elapse PROVE WaitInv'
<1>1. UNCHANGED <<ask, inbox, phase>>
  BY DEF Script, tool_callback, notify_callback, yield_control_callback,
         ThreadLoop, NotifyEnds, ToolEnds, Elapse, JsOutput, JsAwait, JsResult, JsPanic,
         JsCall, JsStart, JsCommand, JsPending, JsControl, others, client, cell
<1>2. actor'.pc = actor.pc /\ actor'.observer = actor.observer
  BY DEF Script, tool_callback, notify_callback, yield_control_callback,
         ThreadLoop, NotifyEnds, ToolEnds, Elapse, JsOutput, JsAwait, JsResult, JsPanic,
         JsCall, JsStart, JsCommand, JsPending, JsControl, others, TypeInv, ActorStates
<1>3. tasks.notes = 0 /\ tasks.tools = 0 => UNCHANGED tasks
  BY DEF Script, tool_callback, notify_callback, yield_control_callback,
         ThreadLoop, NotifyEnds, ToolEnds, Elapse, JsOutput, JsAwait, JsResult, JsPanic,
         JsCall, JsStart, JsCommand, JsPending, JsControl, others
<1>4. SlotsOK'
  BY <1>1, <1>2, <1>3 DEF WaitInv, SlotsOK, Kept
<1> QED
  BY <1>1, <1>2, <1>4, StillWaits

\* Slots within the loop.
LEMMA LoopSlots ==
  ASSUME SlotsOK, actor.pc \in InLoop, actor'.pc \in InLoop, UNCHANGED phase,
         inbox'.open = inbox.open, inbox'.queue = inbox.queue \/ inbox.queue # <<>>,
         actor'.observer = actor.observer \/ actor'.observer = NoOne \/ ~Kept
  PROVE  SlotsOK'
  BY DEF SlotsOK, Kept, InLoop, Gone

\* A command taken: its call goes to the observer or waits no longer, and the
\* observer stays, unless it has gone away.
LEMMA CommandWaits ==
  ASSUME TypeInv, WaitInv, NEW o \in Observations, TakesCommand(o), NoneBegins,
         ask'[o].st = "waiting" => o = actor'.observer,
         \A c \in Calls : ask'[c].st = "waiting" =>
             /\ c = actor.observer => c = actor'.observer
             /\ c = phase.tx => c = phase'.tx,
         SlotsOK'
  PROVE  WaitInv'
<1>1. QueueOK'
  BY QueueKept
<1>2. Queued = Queued' \cup {o}
  BY QueueTail
<1>3. Placed'
  BY <1>2, PlacedKept
<1> QED
  BY <1>1, <1>3 DEF WaitInv

\* Every command does that.
LEMMA TakeCommandWaits ==
  ASSUME TypeInv, OutcomeInv, WaitInv, TakeCommand PROVE WaitInv'
<1>0. /\ SlotsOK /\ actor \in ActorStates /\ <<>> \in Seq(Nat) /\ actor.content_items \in Seq(Nat)
      /\ phase.event \in Answers /\ {"closed", "busy", "pending"} \subseteq Kinds
  BY DEF WaitInv, TypeInv, ActorStates, Kinds, Errors, Phases
<1>1. PICK o \in Observations :
          \/ SkipDropped(o) \/ RouteToCompleted(o) \/ RouteClosed(o)
          \/ ObserverBusy(o) \/ ObserveReadyFrontier(o) \/ BecomeObserver(o)
  BY DEF TakeCommand
<1>2. o \in Calls /\ TakesCommand(o)
  BY <1>1, CallsDiffer DEF SkipDropped, RouteToCompleted, RouteClosed, ObserverBusy,
                           ObserveReadyFrontier, BecomeObserver
<1>3. /\ inbox'.open = inbox.open /\ inbox.queue # <<>> /\ actor.pc \in InLoop
  BY <1>2, TakesIs DEF InLoop
<1>4. CASE SkipDropped(o)
  <2>1. actor'.observer = actor.observer /\ actor'.pc \in InLoop /\ UNCHANGED <<ask, phase>>
        /\ ask[o].st = "dropped"
    BY <1>4, BackIs DEF SkipDropped, InLoop, client, cell
  <2>2. SlotsOK'
    BY <1>0, <1>3, <2>1, LoopSlots
  <2>3. NoneBegins
    BY <2>1 DEF NoneBegins
  <2> QED
    BY <1>2, <2>1, <2>2, <2>3, CommandWaits
<1>5. CASE RouteToCompleted(o)
  <2>1. NoneBegins /\ ask'[o].st # "waiting"
    BY <1>0, <1>2, <1>5, AnsweredIs, AnswerNoneBegins DEF RouteToCompleted
  <2>2. /\ actor'.observer = actor.observer /\ actor'.pc = "leave"
        /\ phase.is = "Completed" /\ phase' = Phase("Tombstone")
    BY <1>0, <1>5 DEF RouteToCompleted, ActorStates
  <2>3. phase'.is = "Tombstone" /\ phase.tx \notin Terminations
    BY <2>2, ValuesTyped DEF PhaseNames, OutcomeInv, PhaseOK
  <2>4. phase.tx = NoOne
    BY <2>3 DEF TypeInv, Phases
  <2>5. SlotsOK'
    BY <1>0, <1>3, <2>2, <2>3 DEF SlotsOK, Kept, Gone, InLoop
  <2> QED
    BY <1>2, <2>1, <2>2, <2>4, <2>5, CommandWaits, CallsDiffer
<1>6. CASE RouteClosed(o)
  <2>1. Event("closed", <<>>) \in Answers
    BY <1>0, ValuesTyped
  <2>2. NoneBegins /\ ask'[o].st # "waiting"
    BY <1>2, <1>6, <2>1, AnsweredIs, AnswerNoneBegins DEF RouteClosed
  <2>3. actor'.observer = actor.observer /\ actor'.pc \in InLoop /\ UNCHANGED phase
    BY <1>6, BackIs DEF RouteClosed, InLoop, cell
  <2>4. SlotsOK'
    BY <1>0, <1>3, <2>3, LoopSlots
  <2> QED
    BY <1>2, <2>2, <2>3, <2>4, CommandWaits
<1>7. CASE ObserverBusy(o)
  <2>1. Event("busy", <<>>) \in Answers
    BY <1>0, ValuesTyped
  <2>2. NoneBegins /\ ask'[o].st # "waiting"
    BY <1>2, <1>7, <2>1, AnsweredIs, AnswerNoneBegins DEF ObserverBusy
  <2>3. /\ actor'.observer = LiveObserver /\ actor'.pc \in InLoop /\ UNCHANGED phase
    BY <1>7, BackIs DEF ObserverBusy, InLoop, cell, ActorStates
  <2>4. actor'.observer = actor.observer \/ (actor'.observer = NoOne /\ ~IsWaiting(actor.observer))
    BY <2>3 DEF LiveObserver
  <2>5. SlotsOK'
    BY <1>0, <1>3, <2>3, <2>4, LoopSlots
  <2> QED
    BY <1>2, <2>2, <2>3, <2>4, <2>5, CommandWaits, CallsDiffer DEF NoneBegins, IsWaiting
<1>8. CASE ObserveReadyFrontier(o)
  <2>1. Event("pending", actor.content_items) \in Answers
    BY <1>0, ValuesTyped
  <2>2. NoneBegins /\ ask'[o].st # "waiting"
    BY <1>2, <1>8, <2>1, AnsweredIs, AnswerNoneBegins DEF ObserveReadyFrontier
  <2>3. /\ actor'.observer = NoOne /\ actor'.pc \in InLoop /\ UNCHANGED phase
    BY <1>8, BackIs DEF ObserveReadyFrontier, InLoop, cell, ActorStates
  <2>4. \A c \in Calls : ask[c].st = "waiting" => c # actor.observer
    BY <1>8, CallsDiffer DEF ObserveReadyFrontier, LiveObserver, IsWaiting
  <2>5. SlotsOK'
    BY <1>0, <1>3, <2>3, LoopSlots
  <2> QED
    BY <1>2, <2>2, <2>3, <2>4, <2>5, CommandWaits DEF NoneBegins
<1>9. CASE BecomeObserver(o)
  <2>1. /\ actor'.observer = o /\ actor'.pc \in InLoop /\ UNCHANGED <<ask, phase>>
        /\ phase.is = "Running"
    BY <1>9, BackIs DEF BecomeObserver, InLoop, client, cell, ActorStates
  <2>2. \A c \in Calls : ask[c].st = "waiting" => c # actor.observer
    BY <1>9, CallsDiffer DEF BecomeObserver, LiveObserver, IsWaiting
  <2>3. SlotsOK'
    BY <1>0, <1>3, <2>1, LoopSlots DEF Kept
  <2>4. NoneBegins
    BY <2>1 DEF NoneBegins
  <2> QED
    BY <1>2, <2>1, <2>2, <2>3, <2>4, CommandWaits
<1> QED
  BY <1>1, <1>4, <1>5, <1>6, <1>7, <1>8, <1>9

\* Output for the observer.
LEMMA HandsOverWaits ==
  ASSUME TypeInv, WaitInv, NEW k, HandsOver(k), UNCHANGED <<phase, inbox>>, actor.pc \in InLoop
  PROVE  WaitInv'
<1>1. NoneBegins /\ \A c \in Calls : ask'[c].st = "waiting" => c # actor.observer
  BY AnswerNoneBegins DEF HandsOver
<1>2. actor'.observer = NoOne /\ actor'.pc \in InLoop
  BY DEF HandsOver, InLoop
<1>3. SlotsOK'
  BY <1>2, LoopSlots DEF WaitInv
<1>4. QueueOK'
  BY <1>1, QueueKept
<1>5. Placed'
  BY <1>1, PlacedKept DEF Queued
<1> QED
  BY <1>3, <1>4, <1>5 DEF WaitInv

\* A step of the loop without an answer.
LEMMA LoopWaits ==
  ASSUME TypeInv, WaitInv, UNCHANGED <<ask, phase, inbox>>, actor.pc \in InLoop, actor'.pc \in InLoop,
         actor'.observer = actor.observer
  PROVE  WaitInv'
<1>1. SlotsOK'
  BY LoopSlots DEF WaitInv
<1> QED
  BY <1>1, StillWaits

\* The rest of the loop.
LEMMA EventWaits ==
  ASSUME TypeInv, OutcomeInv, WaitInv, Poll \/ SeeCancelled \/ YieldTimer \/ TakeEvent PROVE WaitInv'
<1>0. actor \in ActorStates
  BY DEF TypeInv
<1>1. ASSUME Poll PROVE WaitInv'
  <2>1. actor'.pc \in InLoop /\ actor.pc \in InLoop /\ actor'.observer = actor.observer
        /\ UNCHANGED <<ask, phase, inbox>>
    BY <1>0, <1>1 DEF Poll, ActorStates, InLoop, client, cell
  <2> QED
    BY <2>1, LoopWaits
<1>2. ASSUME SeeCancelled PROVE WaitInv'
  <2>1. /\ Answering(Queued, Event("closed", <<>>))
        /\ inbox'.open = FALSE /\ inbox'.queue = <<>>
    BY <1>2, DropInboxIs DEF SeeCancelled
  <2>2. /\ actor'.observer = actor.observer /\ actor.pc \in InLoop
        /\ actor'.pc \in {"poll", "cancelling"} /\ UNCHANGED phase
    BY <1>0, <1>2 DEF SeeCancelled, ActorStates, InLoop
  <2>3. NoneBegins /\ \A c \in Calls : ask'[c].st = "waiting" => c \notin Queued
    BY <2>1, AnswerNoneBegins
  <2>4. QueueOK'
    BY <2>1, <2>3, QueueKept
  <2>5. Placed'
    BY <2>2, <2>3, PlacedKept
  <2>6. SlotsOK'
    BY <2>1, <2>2 DEF WaitInv, SlotsOK, Kept, InLoop, Gone
  <2> QED
    BY <2>4, <2>5, <2>6 DEF WaitInv
<1>3. ASSUME YieldTimer PROVE WaitInv'
  <2>1. HandsOver("yielded") /\ UNCHANGED <<phase, inbox>> /\ actor.pc \in InLoop
    BY <1>3, YieldIs DEF YieldTimer, cell, InLoop
  <2> QED
    BY <2>1, HandsOverWaits
<1>4. ASSUME OnStarted \/ OnContentItem \/ OnNotify \/ OnToolCall \/ OnThreadPanicked PROVE WaitInv'
  <2>1. actor.pc \in InLoop
    BY <1>4, EventIs DEF OnStarted, OnContentItem, OnNotify, OnToolCall, OnThreadPanicked, InLoop
  <2>2. actor'.pc \in InLoop /\ actor'.observer = actor.observer
    BY <1>4, BackIs DEF OnStarted, OnContentItem, OnNotify, OnToolCall, OnThreadPanicked, ActorStates, InLoop
  <2>3. UNCHANGED <<ask, phase, inbox>>
    BY <1>4 DEF OnStarted, OnContentItem, OnNotify, OnToolCall, OnThreadPanicked, client, cell
  <2> QED
    BY <2>1, <2>2, <2>3, LoopWaits
<1>5. ASSUME OnPending PROVE WaitInv'
  <2>1. actor.pc \in InLoop /\ UNCHANGED <<phase, inbox>>
    BY <1>5, EventIs DEF OnPending, InLoop, cell
  <2>2. CASE ObserverMode("PendingFrontier")
    <3>1. HandsOver("pending")
      BY <1>5, <2>2, PendingIs DEF OnPending
    <3> QED
      BY <2>1, <3>1, HandsOverWaits
  <2>3. CASE ~ObserverMode("PendingFrontier")
    <3>1. actor'.pc \in InLoop /\ actor'.observer = actor.observer /\ UNCHANGED ask
      BY <1>5, <2>3, BackIs DEF OnPending, ActorStates, InLoop
    <3> QED
      BY <2>1, <3>1, LoopWaits
  <2> QED
    BY <2>2, <2>3
<1>6. ASSUME OnYieldRequested PROVE WaitInv'
  <2>1. actor.pc \in InLoop /\ UNCHANGED <<phase, inbox>>
    BY <1>6, EventIs DEF OnYieldRequested, InLoop, cell
  <2>2. CASE ObserverMode("YieldAfter")
    <3>1. HandsOver("yielded")
      BY <1>6, <2>2, YieldIs DEF OnYieldRequested
    <3> QED
      BY <2>1, <3>1, HandsOverWaits
  <2>3. CASE ~ObserverMode("YieldAfter")
    <3>1. actor'.pc \in InLoop /\ actor'.observer = actor.observer /\ UNCHANGED ask
      BY <1>6, <2>3, BackIs DEF OnYieldRequested, InLoop
    <3> QED
      BY <2>1, <3>1, LoopWaits
  <2> QED
    BY <2>2, <2>3
<1>7. ASSUME OnResult \/ OnChannelClosed PROVE WaitInv'
  <2>1. ClosesRuntime
    BY <1>7, ResultIs
  <2>2. UNCHANGED <<ask, phase, inbox>>
    BY <1>7 DEF OnResult, OnChannelClosed, client, cell
  <2>3. SlotsOK'
    BY <2>1, <2>2 DEF ClosesRuntime, OutcomeInv, PlaceOK, WaitInv, SlotsOK, Kept, Gone
  <2> QED
    BY <2>1, <2>2, <2>3, StillWaits DEF ClosesRuntime
<1> QED
  BY <1>1, <1>2, <1>3, <1>4, <1>5, <1>6, <1>7 DEF TakeEvent

\* The end of the cell: the completion, or the termination, is told; what is
\* left in the inbox is answered before the cell is gone.
LEMMA EndWaits ==
  ASSUME TypeInv, OutcomeInv, WaitInv,
         \/ NotificationsDrained \/ ToolsDrained \/ CallbacksGone
         \/ CommitCompletion \/ DeliverCompletion \/ DeliverRejected
         \/ FinishTermination \/ Leave \/ Closed
  PROVE  WaitInv'
<1>0. /\ SlotsOK /\ actor \in ActorStates /\ phase \in Phases /\ phase.event \in Answers
      /\ actor.content_items \in Seq(Nat)
  BY DEF WaitInv, TypeInv, Phases, ActorStates
<1>1. ASSUME NotificationsDrained \/ ToolsDrained \/ CallbacksGone \/ DeliverRejected \/ Closed
      PROVE  WaitInv'
  <2>1. UNCHANGED <<ask, phase, inbox>>
    BY <1>1 DEF NotificationsDrained, ToolsDrained, CallbacksGone, DeliverRejected, Closed, client, cell
  <2>2. /\ actor'.observer = actor.observer
        /\ \/ actor.pc = "draining" /\ actor'.pc = "drainTools"
           \/ actor.pc = "drainTools" /\ actor'.pc = "commit"
           \/ actor.pc = "cancelling" /\ actor'.pc = "finish"
           \/ actor.pc = "deliver" /\ actor'.pc = "finish"
           \/ /\ actor.pc = "closing" /\ actor'.pc = "done"
              /\ tasks.notes = 0 /\ tasks.tools = 0 /\ UNCHANGED tasks
    BY <1>0, <1>1 DEF NotificationsDrained, ToolsDrained, CallbacksGone, DeliverRejected, Closed, ActorStates
  <2>3. SlotsOK'
    BY <1>0, <2>1, <2>2 DEF SlotsOK, Kept, Gone
  <2> QED
    BY <2>1, <2>2, <2>3, StillWaits
<1>2. ASSUME CommitCompletion PROVE WaitInv'
  <2>1. /\ UNCHANGED <<ask, inbox>> /\ actor'.observer = actor.observer /\ actor'.pc = "deliver"
    BY <1>0, <1>2 DEF CommitCompletion, client, ActorStates
  <2>2. phase'.tx = phase.tx
    BY <1>0, <1>2 DEF CommitCompletion, Phases
  <2>3. SlotsOK'
    BY <1>0, <2>1 DEF SlotsOK, Gone
  <2> QED
    BY <2>1, <2>2, <2>3, StillWaits
<1>3. ASSUME DeliverCompletion PROVE WaitInv'
  <2>1. NoneBegins /\ \A c \in Calls : ask'[c].st = "waiting" => c # actor.observer
    BY <1>0, <1>3, AnsweredIs, AnswerNoneBegins DEF DeliverCompletion
  <2>2. /\ actor'.observer = NoOne /\ actor'.pc \in {"leave", "poll"} /\ actor.pc = "deliver"
        /\ UNCHANGED inbox /\ phase.is = "Completed"
    BY <1>0, <1>3 DEF DeliverCompletion, ActorStates
  <2>3. phase.tx = NoOne
    BY <1>0, <2>2 DEF OutcomeInv, PhaseOK, Phases
  <2>4. QueueOK'
    BY <2>1, <2>2, QueueKept
  <2>5. Placed'
    BY <2>1, <2>2, <2>3, PlacedKept, CallsDiffer DEF Queued
  <2>6. SlotsOK'
    BY <1>0, <2>2 DEF SlotsOK
  <2> QED
    BY <2>4, <2>5, <2>6 DEF WaitInv
<1>4. ASSUME FinishTermination PROVE WaitInv'
  <2>1. TerminalEvent \in Answers
    BY <1>0, ValuesTyped DEF TerminalEvent, Kinds
  <2>2. NoneBegins /\ \A c \in Calls : ask'[c].st = "waiting" => c # actor.observer /\ c # phase.tx
    BY <1>4, <2>1, AnsweredIs, AnswerNoneBegins DEF FinishTermination
  <2>3. actor'.observer = NoOne /\ actor'.pc = "leave" /\ UNCHANGED inbox
    BY <1>0, <1>4 DEF FinishTermination, ActorStates
  <2>4. QueueOK'
    BY <2>2, <2>3, QueueKept
  <2>5. Placed'
    BY <2>2, <2>3, PlacedKept DEF Queued
  <2>6. SlotsOK'
    BY <1>0, <2>3 DEF SlotsOK
  <2> QED
    BY <2>4, <2>5, <2>6 DEF WaitInv
<1>5. ASSUME Leave PROVE WaitInv'
  <2>1. /\ Answering(Queued, Event("closed", <<>>))
        /\ inbox'.open = FALSE /\ inbox'.queue = <<>>
    BY <1>5, DropInboxIs DEF Leave
  <2>2. NoneBegins /\ \A c \in Calls : ask'[c].st = "waiting" => c \notin Queued
    BY <2>1, AnswerNoneBegins
  <2>3. actor'.observer = actor.observer /\ actor.pc = "leave" /\ actor'.pc = "closing"
    BY <1>0, <1>5 DEF Leave, ActorStates
  <2>4. phase.is = "Tombstone" /\ phase.tx = NoOne
    BY <1>0, <2>3 DEF OutcomeInv, PlaceOK, PhaseOK, Phases, Gone
  <2>5. QueueOK'
    BY <2>1, <2>2, QueueKept
  <2>6. Placed'
    BY <2>2, <2>3, <2>4, PlacedKept, CallsDiffer
  <2>7. SlotsOK'
    BY <1>0, <2>1, <2>3 DEF SlotsOK, Gone
  <2> QED
    BY <2>5, <2>6, <2>7 DEF WaitInv
<1> QED
  BY <1>1, <1>2, <1>3, <1>4, <1>5

\* Every step keeps the invariant of the calls.
LEMMA WaitStep ==
  ASSUME TypeInv, OutcomeInv, ThreadInv, WaitInv, [Next]_vars PROVE WaitInv'
<1>1. ASSUME UNCHANGED vars PROVE WaitInv'
  <2>1. SlotsOK'
    BY <1>1 DEF WaitInv, SlotsOK, Kept, vars, client, cell
  <2> QED
    BY <1>1, <2>1, StillWaits DEF vars, client, cell
<1> QED
  BY <1>1, ClientWaits, ThreadWaits, TakeCommandWaits, EventWaits, EndWaits DEF Next, ActorStep

\* It holds at first.
LEMMA WaitInit == Init => WaitInv
  BY DEF Init, WaitInv, Placed, SlotsOK, QueueOK, Queued, IsWaiting, Kept, Phase, Gone

(***************************************************************************)
(* How much is on its way.                                                 *)
(***************************************************************************)

\* What is counted is finite.
LEMMA CountTyped ==
  TypeInv =>
       /\ IsFiniteSet(CallEvents) /\ CallsSent \in Nat
       /\ IsFiniteSet(Taken) /\ CallsTaken \in Nat /\ CallsTaken <= Cardinality(Observations)
       /\ Cardinality(Observations) \in Nat
       /\ Stops \in Nat /\ Stops <= 1 /\ Len(commands) \in Nat /\ emitted.calls \in 0..MaxCalls
       /\ emitted.calls \in Nat /\ tasks.notes \in Nat /\ tasks.tools \in Nat
<1> SUFFICES ASSUME TypeInv
             PROVE  /\ IsFiniteSet(CallEvents) /\ CallsSent \in Nat
                    /\ IsFiniteSet(Taken) /\ CallsTaken \in Nat /\ CallsTaken <= Cardinality(Observations)
                    /\ Cardinality(Observations) \in Nat
                    /\ Stops \in Nat /\ Stops <= 1 /\ Len(commands) \in Nat /\ emitted.calls \in 0..MaxCalls
                    /\ emitted.calls \in Nat /\ tasks.notes \in Nat /\ tasks.tools \in Nat
  OBVIOUS
<1>1. events \in Seq(Messages) /\ Len(commands) \in Nat /\ emitted.calls \in 0..MaxCalls
      /\ emitted.calls \in Nat /\ tasks.notes \in Nat /\ tasks.tools \in Nat
  BY CellAssumption DEF TypeInv
<1>2. IsFiniteSet(1..Len(events))
  BY <1>1, FS_Interval
<1>3. CallEvents \in SUBSET (1..Len(events))
  BY <1>1 DEF CallEvents
<1>4. IsFiniteSet(CallEvents) /\ CallsSent \in Nat
  BY <1>2, <1>3, FS_Subset, FS_CardinalityType DEF CallsSent
<1>5. IsFiniteSet(Observations) /\ Cardinality(Observations) \in Nat
  BY CellAssumption, FS_CardinalityType
<1>6. Taken \in SUBSET Observations
  BY DEF Taken
<1>7. IsFiniteSet(Taken) /\ CallsTaken \in Nat /\ CallsTaken <= Cardinality(Observations)
  BY <1>5, <1>6, FS_Subset, FS_CardinalityType DEF CallsTaken
<1>8. Stops \in Nat /\ Stops <= 1
  BY DEF Stops
<1> QED
  BY <1>1, <1>4, <1>5, <1>7, <1>8

\* A message of the thread.
LEMMA SentCount ==
  ASSUME TypeInv, NEW m \in Messages, events' = Append(events, m)
  PROVE  /\ CallsSent' <= CallsSent + 1
         /\ m.is \notin {"Notify", "ToolCall"} => CallsSent' = CallsSent
<1>1. PICK ev \in Seq(Messages) : ev = events
  <2>1. events \in Seq(Messages)
    BY DEF TypeInv
  <2> QED
    BY <2>1, Zenon
<1>2. events' = Append(ev, m)
  BY <1>1
<1>3. /\ \A i \in DOMAIN events : i \in DOMAIN events' /\ events'[i] = events[i]
      /\ \A i \in DOMAIN events' : i \in DOMAIN events \/ i = Len(ev) + 1
      /\ Len(ev) + 1 \in DOMAIN events' /\ events'[Len(ev) + 1] = m
      /\ \A i \in DOMAIN events : i # Len(ev) + 1
  BY <1>1, <1>2, AppendIs
<1>4. CASE m.is \notin {"Notify", "ToolCall"}
  <2>1. CallEvents' = CallEvents
    BY <1>3, <1>4 DEF CallEvents
  <2> QED
    BY <1>4, <2>1, CountTyped DEF CallsSent
<1>5. CASE m.is \in {"Notify", "ToolCall"}
  <2>1. CallEvents' = CallEvents \cup {Len(ev) + 1}
    BY <1>3, <1>5 DEF CallEvents
  <2>2. Cardinality(CallEvents \cup {Len(ev) + 1}) \in {CallsSent, CallsSent + 1}
    BY CountTyped, FS_AddElement DEF CallsSent
  <2>3. CallsSent' \in {CallsSent, CallsSent + 1}
    BY <2>1, <2>2 DEF CallsSent
  <2> QED
    BY <1>5, <2>3, CountTyped
<1> QED
  BY <1>4, <1>5

\* An event taken.
LEMMA TakenCount ==
  ASSUME TypeInv, ThreadInv, NEW e, TakesEvent(e)
  PROVE  /\ CallsSent' \in Nat /\ CallsSent' <= CallsSent
         /\ e \in {"Notify", "ToolCall"} => CallsSent' + 1 <= CallsSent
<1>1. /\ events' \in Seq(Messages) /\ events[1].is = e /\ 1 \in DOMAIN events
      /\ \A i \in DOMAIN events' : events'[i] = events[i + 1] /\ i + 1 \in DOMAIN events
  BY TakenEvent
<1>2. \A i \in DOMAIN events' : i \in Nat /\ i >= 1
  BY <1>1
<1> DEFINE f == [i \in CallEvents' |-> i + 1]
<1>3. \A i \in CallEvents' : i \in Nat /\ i + 1 \in CallEvents /\ i + 1 # 1
  BY <1>1, <1>2 DEF CallEvents
<1>4. f \in Injection(CallEvents', CallEvents \ {1})
  <2>1. f \in [CallEvents' -> CallEvents \ {1}]
    BY <1>3
  <2>2. \A i, j \in CallEvents' : f[i] = f[j] => i = j
    BY <1>3
  <2> HIDE DEF f
  <2> QED
    BY <2>1, <2>2, Fun_IsInj
<1>5. /\ IsFiniteSet(CallEvents \ {1})
      /\ Cardinality(CallEvents \ {1}) = IF 1 \in CallEvents THEN CallsSent - 1 ELSE CallsSent
  BY CountTyped, FS_RemoveElement DEF CallsSent
<1> HIDE DEF f
<1>6. IsFiniteSet(CallEvents') /\ Cardinality(CallEvents') <= Cardinality(CallEvents \ {1})
  BY <1>4, <1>5, FS_Injection
<1>7. CallsSent' = Cardinality(CallEvents') /\ Cardinality(CallEvents') \in Nat
  BY <1>6, FS_CardinalityType DEF CallsSent
<1>8. e \in {"Notify", "ToolCall"} => 1 \in CallEvents
  BY <1>1 DEF CallEvents
<1> QED
  BY <1>5, <1>6, <1>7, <1>8, CountTyped

\* What has begun stays begun.
Begun == \A c \in Calls : ask[c].st # "idle" => ask'[c].st # "idle"

\* A step that does not put into the inbox what had begun.
LEMMA TakenGrows ==
  ASSUME TypeInv, TypeInv', Begun, \A c \in Queued' : c \in Queued \/ ask[c].st = "idle"
  PROVE  CallsTaken <= CallsTaken'
<1>1. Taken \in SUBSET (Taken')
  BY CallsDiffer DEF Taken, Begun
<1>2. IsFiniteSet(Taken')
  <2>1. IsFiniteSet(Observations) /\ Taken' \in SUBSET Observations
    BY CellAssumption DEF Taken
  <2> QED
    BY <2>1, FS_Subset
<1> QED
  BY <1>1, <1>2, FS_Subset DEF CallsTaken

\* Clients, thread, callbacks and timer.
LEMMA ClientTaken ==
  ASSUME TypeInv, TypeInv', WaitInv,
         ClientStep \/ Script \/ ThreadLoop \/ NotifyEnds \/ ToolEnds \/ Elapse
  PROVE  CallsTaken <= CallsTaken'
<1>1. ASSUME UNCHANGED <<ask, inbox>> PROVE CallsTaken <= CallsTaken'
  BY <1>1, TakenGrows DEF Begun, Queued
<1>2. ASSUME Script \/ ThreadLoop \/ NotifyEnds \/ ToolEnds \/ Elapse \/ Shutdown PROVE CallsTaken <= CallsTaken'
  BY <1>1, <1>2
     DEF Script, tool_callback, notify_callback, yield_control_callback,
         ThreadLoop, NotifyEnds, ToolEnds, Elapse, JsOutput, JsAwait, JsResult, JsPanic,
         JsCall, JsStart, JsCommand, JsPending, JsControl, others, client, Shutdown
<1>3. ASSUME NEW c \in Calls, OneCall(c), ask'[c].st # "idle", UNCHANGED inbox PROVE CallsTaken <= CallsTaken'
  <2>1. Begun
    BY <1>3 DEF Begun, OneCall
  <2> QED
    BY <1>3, <2>1, TakenGrows DEF Queued
<1>4. ASSUME NEW m \in Modes, Execute(m) PROVE CallsTaken <= CallsTaken'
  BY <1>3, <1>4, CallUpdate, CallsDiffer DEF Execute
<1>5. ASSUME NEW o \in Observations, ObserveRefused(o) \/ DropObservation(o) PROVE CallsTaken <= CallsTaken'
  <2>1. CASE ObserveRefused(o)
    BY <1>3, <2>1, RefuseIs, CallsDiffer DEF ObserveRefused, Errors
  <2>2. CASE DropObservation(o)
    BY <1>3, <2>2, CallUpdate, CallsDiffer DEF DropObservation
  <2> QED
    BY <1>5, <2>1, <2>2
<1>6. ASSUME NEW t \in Terminations, Terminate(t) \/ TerminateCompleted(t) \/ TerminateRefused(t)
      PROVE  CallsTaken <= CallsTaken'
  <2>1. CASE TerminateRefused(t)
    BY <1>3, <2>1, RefuseIs, CallsDiffer DEF TerminateRefused, Errors
  <2>2. CASE Terminate(t)
    BY <1>3, <2>2, CallUpdate, CallsDiffer DEF Terminate
  <2>3. CASE TerminateCompleted(t)
    <3>1. phase.event \in Answers
      BY DEF TypeInv, Phases
    <3> QED
      BY <1>3, <2>3, <3>1, CallUpdate, CallsDiffer DEF TerminateCompleted
  <2> QED
    BY <1>6, <2>1, <2>2, <2>3
<1>7. ASSUME NEW o \in Observations, NEW m \in Modes, Observe(o, m) PROVE CallsTaken <= CallsTaken'
  <2>1. OneCall(o) /\ ask'[o].st = "waiting" /\ ask[o].st = "idle"
    BY <1>7, CallUpdate, CallsDiffer DEF Observe
  <2>2. Begun
    BY <2>1 DEF Begun, OneCall
  <2>3. \A c \in Queued' : c \in Queued \/ ask[c].st = "idle"
    <3>1. PICK q \in Seq(Observations) : q = inbox.queue
      <4>1. inbox.queue \in Seq(Observations)
        BY DEF TypeInv
      <4> QED
        BY <4>1, Zenon
    <3>2. inbox'.queue = Append(q, o)
      BY <1>7, <3>1 DEF Observe, TypeInv
    <3>3. \A i \in DOMAIN inbox'.queue :
              (i \in DOMAIN inbox.queue /\ inbox'.queue[i] = inbox.queue[i]) \/ inbox'.queue[i] = o
      BY <3>1, <3>2, AppendIs
    <3> QED
      BY <2>1, <3>3 DEF Queued
  <2> QED
    BY <2>2, <2>3, TakenGrows
<1> QED
  BY <1>2, <1>4, <1>5, <1>6, <1>7 DEF ClientStep

\* An answer is to a call that had begun.
LEMMA AnswerBegun ==
  ASSUME TypeInv, NEW C, NEW e, ask' = Answered(C, e) PROVE Begun
<1>1. ASSUME NEW c \in Calls, ask[c].st # "idle" PROVE ask'[c].st # "idle"
  <2>1. ask[c] \in AskStates
    BY DEF TypeInv
  <2>2. ask'[c] = IF c \in C /\ IsWaiting(c)
                  THEN [ask[c] EXCEPT !.st = "answered", !.answer = e] ELSE ask[c]
    BY DEF Answered
  <2> QED
    BY <1>1, <2>1, <2>2 DEF AskStates
<1> QED
  BY <1>1 DEF Begun

\* Steps of the actor.
LEMMA ActorTaken ==
  ASSUME TypeInv, TypeInv', WaitInv, ActorStep PROVE CallsTaken <= CallsTaken'
<1>0. UNCHANGED ask => Begun
  BY DEF Begun
<1>1. ASSUME TakeCommand PROVE CallsTaken <= CallsTaken'
  <2>1. PICK o \in Observations :
            \/ SkipDropped(o) \/ RouteToCompleted(o) \/ RouteClosed(o)
            \/ ObserverBusy(o) \/ ObserveReadyFrontier(o) \/ BecomeObserver(o)
    BY <1>1 DEF TakeCommand
  <2>2. Begun
    <3>1. CASE SkipDropped(o) \/ BecomeObserver(o)
      BY <1>0, <3>1 DEF SkipDropped, BecomeObserver, client
    <3>2. CASE RouteToCompleted(o)
      BY <3>2, AnswerBegun DEF RouteToCompleted
    <3>3. CASE RouteClosed(o)
      BY <3>3, AnswerBegun DEF RouteClosed
    <3>4. CASE ObserverBusy(o)
      BY <3>4, AnswerBegun DEF ObserverBusy
    <3>5. CASE ObserveReadyFrontier(o)
      BY <3>5, AnswerBegun DEF ObserveReadyFrontier
    <3> QED
      BY <2>1, <3>1, <3>2, <3>3, <3>4, <3>5
  <2>3. TakesCommand(o)
    BY <2>1 DEF SkipDropped, RouteToCompleted, RouteClosed, ObserverBusy,
                ObserveReadyFrontier, BecomeObserver
  <2>4. Queued = Queued' \cup {o}
    BY <2>3, QueueTail
  <2> QED
    BY <2>2, <2>4, TakenGrows
<1>2. ASSUME SeeCancelled \/ Leave PROVE CallsTaken <= CallsTaken'
  <2>1. DropInbox
    BY <1>2 DEF SeeCancelled, Leave
  <2>2. Begun
    BY <2>1, AnswerBegun DEF DropInbox
  <2>3. Queued' = {}
    BY <2>1, DropInboxIs DEF Queued
  <2> QED
    BY <2>2, <2>3, TakenGrows
<1>3. ASSUME Begun, UNCHANGED inbox PROVE CallsTaken <= CallsTaken'
  BY <1>3, TakenGrows DEF Queued
<1>4. ASSUME YieldTimer PROVE CallsTaken <= CallsTaken'
  <2>1. Begun
    BY <1>4, AnswerBegun DEF YieldTimer, ToObserver
  <2> QED
    BY <1>3, <1>4, <2>1 DEF YieldTimer
<1>5. ASSUME TakeEvent PROVE CallsTaken <= CallsTaken'
  <2>1. UNCHANGED inbox
    BY <1>5 DEF TakeEvent, OnStarted, OnPending, OnContentItem, OnYieldRequested, OnNotify,
                OnToolCall, OnThreadPanicked, OnResult, OnChannelClosed
  <2>2. CASE OnPending
    <3>1. UNCHANGED ask \/ ask' = Answered({actor.observer}, Event("pending", actor.content_items))
      BY <2>2 DEF OnPending, ToObserver
    <3> QED
      BY <1>0, <1>3, <2>1, <3>1, AnswerBegun
  <2>3. CASE OnYieldRequested
    <3>1. UNCHANGED ask \/ ask' = Answered({actor.observer}, Event("yielded", actor.content_items))
      BY <2>3 DEF OnYieldRequested, ToObserver
    <3> QED
      BY <1>0, <1>3, <2>1, <3>1, AnswerBegun
  <2>4. CASE ~OnPending /\ ~OnYieldRequested
    <3>1. UNCHANGED ask
      BY <1>5, <2>4 DEF TakeEvent, OnStarted, OnContentItem, OnNotify,
                OnToolCall, OnThreadPanicked, OnResult, OnChannelClosed, client
    <3> QED
      BY <1>0, <1>3, <2>1, <3>1
  <2> QED
    BY <2>2, <2>3, <2>4
<1>6. ASSUME \/ Poll \/ NotificationsDrained \/ ToolsDrained \/ CallbacksGone
             \/ CommitCompletion \/ DeliverRejected \/ Closed
      PROVE  CallsTaken <= CallsTaken'
  BY <1>0, <1>3, <1>6 DEF Poll, NotificationsDrained, ToolsDrained, CallbacksGone,
                          CommitCompletion, DeliverRejected, Closed, client
<1>7. ASSUME DeliverCompletion PROVE CallsTaken <= CallsTaken'
  BY <1>3, <1>7, AnswerBegun DEF DeliverCompletion
<1>8. ASSUME FinishTermination PROVE CallsTaken <= CallsTaken'
  BY <1>3, <1>8, AnswerBegun DEF FinishTermination
<1> QED
  BY <1>1, <1>2, <1>4, <1>5, <1>6, <1>7, <1>8 DEF ActorStep

\* Nothing is counted more; or the script calls, a call becomes a callback,
\* a callback a response, or the actor asks for a frontier or the end.
SameCount == /\ tasks'.notes <= tasks.notes /\ tasks'.tools = tasks.tools /\ CallsSent' <= CallsSent
             /\ emitted'.calls = emitted.calls /\ Len(commands') <= Len(commands) /\ Stops' = Stops
ScriptCalls == /\ tasks' = tasks /\ CallsSent' <= CallsSent + 1 /\ Len(commands') = Len(commands)
               /\ emitted'.calls = emitted.calls + 1 /\ Stops' = Stops
CallbackBegins == /\ \/ tasks'.notes = tasks.notes + 1 /\ tasks'.tools = tasks.tools
                     \/ tasks'.notes = tasks.notes /\ tasks'.tools = tasks.tools + 1
                  /\ CallsSent' + 1 <= CallsSent /\ Len(commands') = Len(commands)
                  /\ emitted'.calls = emitted.calls /\ Stops' = Stops
ToolResponds == /\ tasks'.notes = tasks.notes /\ tasks'.tools + 1 = tasks.tools
                /\ Len(commands') <= Len(commands) + 1 /\ CallsSent' = CallsSent
                /\ emitted'.calls = emitted.calls /\ Stops' = Stops
ActorAsks == /\ tasks'.notes = tasks.notes /\ tasks'.tools = tasks.tools
             /\ Len(commands') <= Len(commands) + 1 /\ CallsSent' = CallsSent
             /\ emitted'.calls = emitted.calls
             /\ Stops' = Stops + 1 \/ (Stops' = Stops /\ CallsTaken + 1 <= CallsTaken')

\* The sums, in one place.
LEMMA CountKept ==
  ASSUME TypeInv, TypeInv', CountOK, CallsTaken <= CallsTaken',
         SameCount \/ ScriptCalls \/ CallbackBegins \/ ToolResponds \/ ActorAsks
  PROVE  CountOK'
<1>1. /\ CallsSent \in Nat /\ CallsTaken \in Nat /\ Stops \in Nat /\ Len(commands) \in Nat
      /\ emitted.calls \in Nat /\ tasks.notes \in Nat /\ tasks.tools \in Nat
  BY CountTyped
<1>2. (/\ CallsSent \in Nat /\ CallsTaken \in Nat /\ Stops \in Nat /\ Len(commands) \in Nat
       /\ emitted.calls \in Nat /\ tasks.notes \in Nat /\ tasks.tools \in Nat)'
  BY CountTyped, PTL
<1>3. PICK n \in Nat, t \in Nat, k \in Nat, c \in Nat, l \in Nat, g \in Nat, x \in Nat :
          /\ n = tasks.notes /\ t = tasks.tools /\ k = CallsSent /\ c = emitted.calls
          /\ l = Len(commands) /\ g = CallsTaken /\ x = Stops
  BY <1>1, Zenon
<1>4. PICK n2 \in Nat, t2 \in Nat, k2 \in Nat, c2 \in Nat, l2 \in Nat, g2 \in Nat, x2 \in Nat :
          /\ n2 = tasks'.notes /\ t2 = tasks'.tools /\ k2 = CallsSent' /\ c2 = emitted'.calls
          /\ l2 = Len(commands') /\ g2 = CallsTaken' /\ x2 = Stops'
  BY <1>2, Zenon
<1>5. g <= g2 /\ n + t + k <= c /\ l + n + t + k <= c + g + x
  BY <1>3, <1>4 DEF CountOK
<1>6. \/ n2 <= n /\ t2 = t /\ k2 <= k /\ c2 = c /\ l2 <= l /\ x2 = x
      \/ n2 = n /\ t2 = t /\ k2 <= k + 1 /\ c2 = c + 1 /\ l2 = l /\ x2 = x
      \/ n2 + t2 = n + t + 1 /\ k2 + 1 <= k /\ c2 = c /\ l2 = l /\ x2 = x
      \/ n2 = n /\ t2 + 1 = t /\ k2 = k /\ c2 = c /\ l2 <= l + 1 /\ x2 = x
      \/ n2 = n /\ t2 = t /\ k2 = k /\ c2 = c /\ l2 <= l + 1 /\ (x2 = x + 1 \/ (x2 = x /\ g + 1 <= g2))
  <2>1. CASE SameCount
    BY <1>3, <1>4, <2>1 DEF SameCount
  <2>2. CASE ScriptCalls
    BY <1>3, <1>4, <2>2 DEF ScriptCalls
  <2>3. CASE CallbackBegins
    <3>1. \/ n2 = n + 1 /\ t2 = t
          \/ n2 = n /\ t2 = t + 1
      BY <1>3, <1>4, <2>3 DEF CallbackBegins
    <3>2. n2 + t2 = n + t + 1
      BY <3>1
    <3>3. k2 + 1 <= k /\ c2 = c /\ l2 = l /\ x2 = x
      BY <1>3, <1>4, <2>3 DEF CallbackBegins
    <3> QED
      BY <3>2, <3>3
  <2>4. CASE ToolResponds
    BY <1>3, <1>4, <2>4 DEF ToolResponds
  <2>5. CASE ActorAsks
    BY <1>3, <1>4, <2>5 DEF ActorAsks
  <2> QED
    BY <2>1, <2>2, <2>3, <2>4, <2>5
<1>7. n2 + t2 + k2 <= c2 /\ l2 + n2 + t2 + k2 <= c2 + g2 + x2
  BY <1>5, <1>6
<1> QED
  BY <1>4, <1>7 DEF CountOK

\* A step with no message between actor and thread.
LEMMA FrameCount ==
  ASSUME ThreadFrame, emitted'.calls = emitted.calls,
         tasks'.notes <= tasks.notes, tasks'.tools = tasks.tools, TypeInv
  PROVE  SameCount
<1>1. CallsSent' = CallsSent /\ Stops' = Stops /\ Len(commands') = Len(commands)
  BY DEF ThreadFrame, CallsSent, CallEvents, Stops
<1>2. CallsSent \in Nat /\ Len(commands) \in Nat
  BY CountTyped
<1> QED
  BY <1>1, <1>2 DEF SameCount

\* What a step of the thread does to the counts.
LEMMA ThreadCount ==
  ASSUME TypeInv, Script \/ ThreadLoop PROVE SameCount \/ ScriptCalls
<1>0. /\ CallsSent \in Nat /\ Len(commands) \in Nat /\ tasks.notes \in Nat /\ tasks.tools \in Nat
      /\ emitted \in [items : Nat, calls : 0..MaxCalls] /\ MaxCalls \in Nat
  BY CountTyped, CellAssumption DEF TypeInv
<1>1. UNCHANGED <<actor, tasks>>
  BY DEF Script, tool_callback, notify_callback, yield_control_callback,
         ThreadLoop, JsOutput, JsAwait, JsResult, JsPanic, JsCall, JsStart, JsCommand,
         JsPending, JsControl, others
<1>2. Stops' = Stops /\ tasks'.notes <= tasks.notes /\ tasks'.tools = tasks.tools
  BY <1>0, <1>1 DEF Stops
<1>3. UNCHANGED events => CallsSent' = CallsSent
  BY DEF CallsSent, CallEvents
<1>4. \A e \in CallNames \cup {"Started", "Pending", "Result", "ThreadPanicked"} :
          Message(e, 0) \in Messages /\ Message(e, 0).is = e
  BY DEF Message, Messages
<1>5. ASSUME NEW e \in {"Started", "Pending", "Result", "ThreadPanicked"}, Send(e),
             UNCHANGED <<commands, emitted>>
      PROVE  SameCount
  <2>1. PICK m \in Messages : m = Message(e, 0)
    BY <1>4, Zenon
  <2>2. CallsSent' = CallsSent
    BY <1>4, <1>5, <2>1, SentCount DEF Send
  <2> QED
    BY <1>0, <1>2, <1>5, <2>2 DEF SameCount
<1>6. CASE JsOutput
  <2>1. /\ Message("ContentItem", emitted.items + 1) \in Messages
        /\ Message("ContentItem", emitted.items + 1).is = "ContentItem"
    BY <1>0 DEF Message, Messages
  <2>2. PICK m \in Messages : m = Message("ContentItem", emitted.items + 1)
    BY <2>1, Zenon
  <2>3. CallsSent' = CallsSent
    BY <1>6, <2>1, <2>2, SentCount DEF JsOutput
  <2>4. emitted'.calls = emitted.calls /\ UNCHANGED commands
    BY <1>0, <1>6 DEF JsOutput
  <2> QED
    BY <1>0, <1>2, <2>3, <2>4 DEF SameCount
<1>7. ASSUME NEW call \in CallNames, JsCall(call) PROVE ScriptCalls
  <2>1. PICK m \in Messages : m = Message(call, 0)
    BY <1>4, Zenon
  <2>2. CallsSent' <= CallsSent + 1
    BY <1>7, <2>1, SentCount DEF JsCall, Send
  <2>3. emitted'.calls = emitted.calls + 1 /\ UNCHANGED commands
    BY <1>0, <1>7 DEF JsCall
  <2> QED
    BY <1>0, <1>1, <1>2, <2>2, <2>3 DEF ScriptCalls
<1>8. CASE JsAwait \/ JsControl
  <2>1. UNCHANGED <<events, commands, emitted>>
    BY <1>8 DEF JsAwait, JsControl
  <2> QED
    BY <1>0, <1>2, <1>3, <2>1 DEF SameCount
<1>9. CASE JsCommand
  <2>1. PICK q \in Seq(Commands) : q = commands
    <3>1. commands \in Seq(Commands)
      BY DEF TypeInv
    <3> QED
      BY <3>1, Zenon
  <2>2. q # <<>> /\ commands' = Tail(q) /\ UNCHANGED <<events, emitted>>
    BY <1>9, <2>1 DEF JsCommand
  <2>3. Len(commands') = Len(q) - 1 /\ Len(q) \in Nat
    BY <2>2, TailIs
  <2>4. Len(commands') <= Len(commands)
    BY <2>1, <2>3
  <2> QED
    BY <1>0, <1>2, <1>3, <2>2, <2>4 DEF SameCount
<1>10. CASE JsStart \/ JsPending \/ JsResult \/ JsPanic
  BY <1>5, <1>10 DEF JsStart, JsPending, JsResult, JsPanic
<1> QED
  BY <1>6, <1>7, <1>8, <1>9, <1>10
     DEF Script, tool_callback, notify_callback, yield_control_callback, ThreadLoop, CallNames

\* What clients, callbacks and timer do to them.
LEMMA ClientCount ==
  ASSUME TypeInv, ClientStep \/ NotifyEnds \/ ToolEnds \/ Elapse PROVE SameCount \/ ToolResponds
<1>0. /\ CallsSent \in Nat /\ Len(commands) \in Nat /\ tasks.notes \in Nat /\ tasks.tools \in Nat
      /\ tasks \in [notes : Nat, tools : Nat, cancelled : BOOLEAN] /\ commands \in Seq(Commands)
  BY CountTyped DEF TypeInv
<1>1. ASSUME ThreadFrame, UNCHANGED <<tasks, emitted>> PROVE SameCount
  BY <1>0, <1>1, FrameCount
<1>2. ASSUME NEW m \in Modes, Execute(m) PROVE SameCount
  <2>1. UNCHANGED <<tasks, events, commands, emitted>> /\ actor'.termination = actor.termination
    BY <1>2 DEF Execute, TypeInv, ActorStates
  <2>2. CallsSent' = CallsSent /\ Stops' = Stops
    BY <2>1 DEF CallsSent, CallEvents, Stops
  <2> QED
    BY <1>0, <2>1, <2>2 DEF SameCount
<1>3. ASSUME NEW o \in Observations, NEW m \in Modes, Observe(o, m) PROVE SameCount
  BY <1>1, <1>3, ClientFrame DEF Observe, thread
<1>4. ASSUME NEW o \in Observations, ObserveRefused(o) \/ DropObservation(o) PROVE SameCount
  BY <1>1, <1>4, ClientFrame DEF ObserveRefused, DropObservation, thread
<1>5. ASSUME NEW t \in Terminations, Terminate(t) \/ TerminateCompleted(t) \/ TerminateRefused(t)
      PROVE  SameCount
  BY <1>1, <1>5, ClientFrame DEF Terminate, TerminateCompleted, TerminateRefused, thread
<1>6. ASSUME Shutdown \/ Elapse PROVE SameCount
  BY <1>1, <1>6, ClientFrame DEF Shutdown, Elapse, thread
<1>7. ASSUME NotifyEnds PROVE SameCount
  <2>1. tasks'.notes = tasks.notes - 1 /\ tasks'.tools = tasks.tools /\ UNCHANGED emitted
    BY <1>0, <1>7 DEF NotifyEnds, thread
  <2>2. tasks'.notes <= tasks.notes
    BY <1>0, <2>1
  <2> QED
    BY <1>7, <2>1, <2>2, ClientFrame, FrameCount
<1>8. ASSUME ToolEnds PROVE ToolResponds
  <2>1. /\ tasks'.notes = tasks.notes /\ tasks'.tools = tasks.tools - 1
        /\ UNCHANGED <<actor, events, emitted>>
    BY <1>0, <1>8 DEF ToolEnds
  <2>2. tasks'.tools + 1 = tasks.tools
    BY <1>0, <2>1
  <2>3. CallsSent' = CallsSent /\ Stops' = Stops
    BY <2>1 DEF CallsSent, CallEvents, Stops
  <2>4. PICK q \in Seq(Commands) : q = commands
    BY <1>0, Zenon
  <2>5. commands' = q \/ (commands' = Append(q, "ToolResponse") /\ "ToolResponse" \in Commands)
    BY <1>8, <2>4 DEF ToolEnds, ToThread, Commands
  <2>6. Len(q) \in Nat /\ (commands' = q \/ Len(commands') = Len(q) + 1)
    BY <2>5, AppendIs
  <2>7. Len(commands') <= Len(commands) + 1
    BY <2>4, <2>6
  <2> QED
    BY <2>1, <2>2, <2>3, <2>7 DEF ToolResponds
<1> QED
  BY <1>2, <1>3, <1>4, <1>5, <1>6, <1>7, <1>8 DEF ClientStep

\* What an event taken does to them.
LEMMA EventCount ==
  ASSUME TypeInv, ThreadInv, TakeEvent PROVE SameCount \/ CallbackBegins
<1>0. /\ CallsSent \in Nat /\ Len(commands) \in Nat /\ tasks.notes \in Nat /\ tasks.tools \in Nat
      /\ tasks \in [notes : Nat, tools : Nat, cancelled : BOOLEAN]
  BY CountTyped DEF TypeInv
<1>1. UNCHANGED <<commands, emitted>>
  BY DEF TakeEvent, OnStarted, OnPending, OnContentItem, OnYieldRequested, OnNotify,
         OnToolCall, OnThreadPanicked, OnResult, OnChannelClosed, thread
<1>2. ASSUME actor'.termination = actor.termination, tasks'.notes = tasks.notes,
             tasks'.tools = tasks.tools, CallsSent' <= CallsSent
      PROVE  SameCount
  BY <1>0, <1>1, <1>2 DEF SameCount, Stops
<1>3. ASSUME OnStarted \/ OnContentItem \/ OnThreadPanicked PROVE SameCount
  <2>1. actor'.termination = actor.termination /\ UNCHANGED tasks
    BY <1>3, BackIs DEF OnStarted, OnContentItem, OnThreadPanicked, ActorStates
  <2>2. CallsSent' <= CallsSent
    BY <1>3, TakenCount DEF OnStarted, OnContentItem, OnThreadPanicked
  <2> QED
    BY <1>2, <2>1, <2>2
<1>4. ASSUME OnPending PROVE SameCount
  <2>1. actor'.termination = actor.termination
    <3>1. CASE ObserverMode("PendingFrontier")
      BY <1>4, <3>1, PendingIs DEF OnPending, HandsOver
    <3>2. CASE ~ObserverMode("PendingFrontier")
      BY <1>4, <3>2, BackIs DEF OnPending, ActorStates
    <3> QED
      BY <3>1, <3>2
  <2>2. CallsSent' <= CallsSent /\ UNCHANGED tasks
    BY <1>4, TakenCount DEF OnPending
  <2> QED
    BY <1>2, <2>1, <2>2
<1>5. ASSUME OnYieldRequested PROVE SameCount
  <2>1. actor'.termination = actor.termination
    <3>1. CASE ObserverMode("YieldAfter")
      BY <1>5, <3>1, YieldIs DEF OnYieldRequested, HandsOver
    <3>2. CASE ~ObserverMode("YieldAfter")
      BY <1>5, <3>2, BackIs DEF OnYieldRequested
    <3> QED
      BY <3>1, <3>2
  <2>2. CallsSent' <= CallsSent /\ UNCHANGED tasks
    BY <1>5, TakenCount DEF OnYieldRequested
  <2> QED
    BY <1>2, <2>1, <2>2
<1>6. ASSUME OnResult \/ OnChannelClosed PROVE SameCount
  <2>1. ClosesRuntime
    BY <1>6, ResultIs
  <2>2. CallsSent' <= CallsSent
    <3>1. CASE OnResult
      BY <3>1, TakenCount DEF OnResult
    <3>2. CASE OnChannelClosed
      <4>1. CallsSent' = CallsSent
        BY <3>2 DEF OnChannelClosed, thread, CallsSent, CallEvents
      <4> QED
        BY <1>0, <4>1
    <3> QED
      BY <1>6, <3>1, <3>2
  <2> QED
    BY <1>2, <2>1, <2>2 DEF ClosesRuntime
<1>7. ASSUME OnNotify \/ OnToolCall PROVE CallbackBegins
  <2>1. \/ tasks'.notes = tasks.notes + 1 /\ tasks'.tools = tasks.tools
        \/ tasks'.notes = tasks.notes /\ tasks'.tools = tasks.tools + 1
    BY <1>0, <1>7 DEF OnNotify, OnToolCall
  <2>2. CallsSent' + 1 <= CallsSent
    BY <1>7, TakenCount DEF OnNotify, OnToolCall
  <2>3. Stops' = Stops
    BY <1>7, BackIs DEF OnNotify, OnToolCall, Stops
  <2> QED
    BY <1>1, <2>1, <2>2, <2>3 DEF CallbackBegins
<1> QED
  BY <1>3, <1>4, <1>5, <1>6, <1>7 DEF TakeEvent

\* What the loop's other steps and the end do to them.
LEMMA ActorCount ==
  ASSUME TypeInv, OutcomeInv, ThreadInv, WaitInv, TypeInv',
         \/ Poll \/ SeeCancelled \/ TakeCommand \/ YieldTimer
         \/ NotificationsDrained \/ ToolsDrained \/ CallbacksGone
         \/ CommitCompletion \/ DeliverCompletion \/ DeliverRejected
         \/ FinishTermination \/ Leave \/ Closed
  PROVE  SameCount \/ ActorAsks
<1>0. /\ CallsSent \in Nat /\ Len(commands) \in Nat /\ tasks.notes \in Nat /\ tasks.tools \in Nat
      /\ tasks \in [notes : Nat, tools : Nat, cancelled : BOOLEAN] /\ commands \in Seq(Commands)
  BY CountTyped DEF TypeInv
<1>1. ASSUME ThreadFrame, tasks'.notes = tasks.notes, tasks'.tools = tasks.tools, UNCHANGED emitted
      PROVE  SameCount
  <2>1. tasks'.notes <= tasks.notes
    BY <1>0, <1>1
  <2> QED
    BY <1>1, <2>1, FrameCount
<1>2. ASSUME Poll \/ YieldTimer PROVE SameCount
  BY <1>1, <1>2, ClientFrame, ActorFrame DEF Poll, YieldTimer, thread
<1>3. ASSUME \/ ToolsDrained \/ CallbacksGone \/ CommitCompletion \/ DeliverCompletion
             \/ DeliverRejected \/ FinishTermination \/ Closed
      PROVE  SameCount
  <2>1. UNCHANGED <<tasks, emitted>>
    BY <1>3 DEF ToolsDrained, CallbacksGone, CommitCompletion, DeliverCompletion,
                DeliverRejected, FinishTermination, Closed, thread
  <2> QED
    BY <1>1, <1>3, <2>1, ActorFrame
<1>4. ASSUME NotificationsDrained \/ Leave PROVE SameCount
  <2>1. tasks'.notes = tasks.notes /\ tasks'.tools = tasks.tools /\ UNCHANGED emitted
    BY <1>0, <1>4 DEF NotificationsDrained, Leave, thread
  <2> QED
    BY <1>1, <1>4, <2>1, ActorFrame
<1>5. ASSUME SeeCancelled PROVE ActorAsks
  <2>1. PICK b \in BOOLEAN : b = (tasks.cancelled \/ actor.runtime_closed)
    BY Zenon
  <2>2. tasks' = [tasks EXCEPT !.cancelled = b]
    BY <1>5, <2>1 DEF SeeCancelled
  <2>3. tasks'.notes = tasks.notes /\ tasks'.tools = tasks.tools /\ UNCHANGED <<events, emitted>>
    BY <1>0, <1>5, <2>2 DEF SeeCancelled
  <2>4. ~actor.termination /\ actor'.termination = TRUE
    BY <1>5 DEF SeeCancelled, TypeInv, ActorStates
  <2>5. Stops' = Stops + 1 /\ CallsSent' = CallsSent
    BY <2>3, <2>4 DEF Stops, CallsSent, CallEvents
  <2>6. PICK q \in Seq(Commands) : q = commands
    BY <1>0, Zenon
  <2>7. commands' = q \/ (commands' = Append(q, "Terminate") /\ "Terminate" \in Commands)
    BY <1>5, <2>6 DEF SeeCancelled, begin_termination, ToThread, Commands
  <2>8. Len(q) \in Nat /\ (commands' = q \/ Len(commands') = Len(q) + 1)
    BY <2>7, AppendIs
  <2>9. Len(commands') <= Len(commands) + 1
    BY <2>6, <2>8
  <2> QED
    BY <2>3, <2>5, <2>9 DEF ActorAsks
<1>6. ASSUME NEW o \in Observations, BecomeObserver(o) PROVE ActorAsks
  <2>1. UNCHANGED <<ask, tasks, events, emitted>> /\ actor'.termination = actor.termination
    BY <1>6, BackIs DEF BecomeObserver, client, ActorStates
  <2>2. Stops' = Stops /\ CallsSent' = CallsSent
    BY <2>1 DEF Stops, CallsSent, CallEvents
  <2>3. PICK q \in Seq(Commands) : q = commands
    BY <1>0, Zenon
  <2>4. commands' = q \/ (commands' = Append(q, "ObservePendingFrontier")
                            /\ "ObservePendingFrontier" \in Commands)
    BY <1>6, <2>3 DEF BecomeObserver, resume_for_observation, ToThread, Commands
  <2>5. Len(q) \in Nat /\ (commands' = q \/ Len(commands') = Len(q) + 1)
    BY <2>4, AppendIs
  <2>6. Len(commands') <= Len(commands) + 1
    BY <2>3, <2>5
  <2>7. Queued = Queued' \cup {o} /\ o \notin Queued' /\ ask[o].st = "waiting"
    BY <1>6, QueueTail DEF BecomeObserver, IsWaiting
  <2>8. Taken' = Taken \cup {o} /\ o \notin Taken
    BY <2>1, <2>7 DEF Taken
  <2>9. IsFiniteSet(Taken) /\ CallsTaken \in Nat
    BY CountTyped
  <2>10. Cardinality(Taken \cup {o}) = Cardinality(Taken) + 1
    BY <2>8, <2>9, FS_AddElement
  <2>11. CallsTaken' = CallsTaken + 1
    BY <2>8, <2>10 DEF CallsTaken
  <2>12. CallsTaken + 1 <= CallsTaken'
    BY <2>9, <2>11
  <2> QED
    BY <2>1, <2>2, <2>6, <2>12 DEF ActorAsks
<1>7. ASSUME NEW o \in Observations,
             \/ SkipDropped(o) \/ RouteToCompleted(o) \/ RouteClosed(o)
             \/ ObserverBusy(o) \/ ObserveReadyFrontier(o)
      PROVE  SameCount
  <2>1. UNCHANGED <<tasks, emitted>>
    BY <1>7 DEF SkipDropped, RouteToCompleted, RouteClosed, ObserverBusy, ObserveReadyFrontier, thread
  <2> QED
    BY <1>1, <1>7, <2>1, ActorFrame
<1> QED
  BY <1>2, <1>3, <1>4, <1>5, <1>6, <1>7 DEF TakeCommand

\* Every step keeps the sums.
LEMMA CountStep ==
  ASSUME TypeInv, OutcomeInv, ThreadInv, WaitInv, CountOK, [Next]_vars PROVE CountOK'
<1>0. TypeInv'
  BY TypeStep
<1>1. CASE ClientStep \/ Script \/ ThreadLoop \/ NotifyEnds \/ ToolEnds \/ Elapse
  <2>1. CallsTaken <= CallsTaken'
    BY <1>0, <1>1, ClientTaken
  <2>2. SameCount \/ ScriptCalls \/ ToolResponds
    BY <1>1, ThreadCount, ClientCount
  <2> QED
    BY <1>0, <2>1, <2>2, CountKept
<1>2. CASE ActorStep
  <2>1. CallsTaken <= CallsTaken'
    BY <1>0, <1>2, ActorTaken
  <2>2. SameCount \/ CallbackBegins \/ ActorAsks
    BY <1>0, <1>2, EventCount, ActorCount DEF ActorStep
  <2> QED
    BY <1>0, <2>1, <2>2, CountKept
<1>3. CASE UNCHANGED vars
  BY <1>3 DEF CountOK, CallsSent, CallEvents, CallsTaken, Taken, Queued, Stops, vars, client, thread
<1> QED
  BY <1>1, <1>2, <1>3 DEF Next

\* They hold at first.
LEMMA CountInit == Init => CountOK
<1> SUFFICES ASSUME Init PROVE CountOK
  OBVIOUS
<1>1. /\ CallEvents = {} /\ Taken = {} /\ Stops = 0 /\ Len(commands) = 0
      /\ tasks.notes = 0 /\ tasks.tools = 0 /\ emitted.calls = 0
  BY CallsDiffer DEF Init, CallEvents, Taken, Stops
<1>2. CallsSent = 0 /\ CallsTaken = 0
  BY <1>1, FS_EmptySet DEF CallsSent, CallsTaken
<1> QED
  BY <1>1, <1>2 DEF CountOK

(***************************************************************************)
(* The actor's picture of the others.                                      *)
(***************************************************************************)

\* What the sums bound.
LEMMA CountBounds ==
  ASSUME TypeInv, CountOK
  PROVE  /\ tasks.notes + tasks.tools \in 0..MaxCalls
         /\ Len(commands) <= MaxCalls + Cardinality(Observations) + 1
<1>1. /\ CallsSent \in Nat /\ CallsTaken \in Nat /\ Stops \in Nat /\ Len(commands) \in Nat
      /\ emitted.calls \in Nat /\ tasks.notes \in Nat /\ tasks.tools \in Nat
      /\ Cardinality(Observations) \in Nat /\ MaxCalls \in Nat
  BY CountTyped, CellAssumption
<1>2. PICK n \in Nat, t \in Nat, k \in Nat, c \in Nat, l \in Nat, g \in Nat, x \in Nat, z \in Nat :
          /\ n = tasks.notes /\ t = tasks.tools /\ k = CallsSent /\ c = emitted.calls
          /\ l = Len(commands) /\ g = CallsTaken /\ x = Stops /\ z = Cardinality(Observations)
  BY <1>1, Zenon
<1>3. n + t + k <= c /\ l + n + t + k <= c + g + x
  BY <1>2 DEF CountOK
<1>4. c \in 0..MaxCalls /\ g <= z /\ x <= 1
  BY <1>2, CountTyped
<1>5. n + t \in 0..MaxCalls /\ l <= MaxCalls + z + 1
  BY <1>1, <1>3, <1>4
<1> QED
  BY <1>2, <1>5

\* The invariant of the run follows from the parts.
LEMMA ActorIsRight ==
  TypeInv /\ OutcomeInv /\ ThreadInv /\ WaitInv /\ CountOK => ActorInv
<1> SUFFICES ASSUME TypeInv, OutcomeInv, ThreadInv, WaitInv, CountOK PROVE ActorInv
  OBVIOUS
<1>1. TypeOK
  <2>1. \A c \in Calls :
           /\ ask[c].st \in {"idle", "waiting", "dropped", "answered"}
           /\ ask[c].mode \in Modes /\ ask[c].answer.kind \in Kinds
           /\ (ask[c].answer.kind = "none") <=> (ask[c].st # "answered")
    BY DEF TypeInv, AskStates, Answers, OutcomeInv, AnswersOK
  <2>2. phase.is \in PhaseNames /\ ((phase.tx \in Terminations) <=> (phase.is = "Terminating"))
    BY DEF TypeInv, Phases, OutcomeInv, PhaseOK
  <2>3. (phase.event # Nothing) <=> Kept
    <3>1. Nothing.kind = "none"
      BY DEF Nothing, Event
    <3> QED
      BY <3>1 DEF OutcomeInv, PhaseOK
  <2>4. inbox.queue \in Seq(Observations) /\ (~inbox.open => inbox.queue = <<>>)
    BY DEF TypeInv, WaitInv, SlotsOK
  <2>5. actor.observer \in Observations \cup {NoOne} /\ Len(control) <= 2
    BY DEF TypeInv, ActorStates, ThreadInv, StopOK
  <2>6. /\ session \in [shutdown : BOOLEAN, registered : BOOLEAN]
        /\ cancelled \in BOOLEAN /\ committed \in BOOLEAN
    BY DEF TypeInv
  <2> QED
    BY <2>1, <2>2, <2>3, <2>4, <2>5, <2>6, CountBounds DEF TypeOK, PhaseNames, Kept
<1>2. PauseAgrees
  BY DEF PauseAgrees, ThreadInv, PauseOK, PendingSeen
<1>3. QuietWhenClosed
  <2> SUFFICES ASSUME actor.pc = "done"
               PROVE  /\ js.pc = "ended" /\ tasks.notes = 0 /\ tasks.tools = 0
                      /\ \A c \in Calls : ~IsWaiting(c)
    BY DEF QuietWhenClosed
  <2>1. js.pc = "ended" /\ tasks.notes = 0 /\ tasks.tools = 0
    BY DEF OutcomeInv, PlaceOK, Ending, Gone, ThreadInv, ThreadOK, WaitInv, SlotsOK
  <2>2. actor.observer = NoOne /\ inbox.queue = <<>>
    BY DEF WaitInv, SlotsOK, Gone
  <2>3. Queued = {}
    BY <2>2 DEF Queued
  <2>4. phase.tx = NoOne
    BY DEF OutcomeInv, PlaceOK, PhaseOK, TypeInv, Phases, Gone
  <2>5. \A c \in Calls : ~IsWaiting(c)
    BY <2>2, <2>3, <2>4 DEF WaitInv, Placed, IsWaiting
  <2> QED
    BY <2>1, <2>5
<1> QED
  BY <1>1, <1>2, <1>3 DEF ActorInv

\* For any number of clients and whatever the script does: the values have
\* their types and the thread's channels their bounds, runtime_paused tells
\* where the thread is until a termination, and a cell the session no longer
\* knows has ended, with no callback left and no client unanswered.
THEOREM ActorAgrees == Spec => []ActorInv
<1>1. TypeInv /\ OutcomeInv /\ ThreadInv /\ WaitInv /\ CountOK /\ [Next]_vars
      => (TypeInv /\ OutcomeInv /\ ThreadInv /\ WaitInv /\ CountOK)'
  BY TypeStep, OutcomeStep, ThreadStep, WaitStep, CountStep
<1> QED
  BY <1>1, TypeInit, OutcomeInit, ThreadInit, WaitInit, CountInit, ActorIsRight, PTL DEF Spec

(***************************************************************************)
(* No output is lost.                                                      *)
(***************************************************************************)

\* The first items, as a sequence.
LEMMA UptoIs ==
  ASSUME NEW n \in Nat
  PROVE  /\ Upto(n) \in Seq(Nat) /\ Len(Upto(n)) = n
         /\ Append(Upto(n), n + 1) = Upto(n + 1)
<1>1. Upto(n) \in Seq(Nat) /\ Len(Upto(n)) = n
  BY DEF Upto
<1>2. Upto(n + 1) \in Seq(Nat) /\ Len(Upto(n + 1)) = n + 1
  BY DEF Upto
<1>3. PICK u \in Seq(Nat) : u = Upto(n)
  BY <1>1, Zenon
<1>4. /\ Append(u, n + 1) \in Seq(Nat) /\ Len(Append(u, n + 1)) = n + 1
      /\ \A i \in 1..n : Append(u, n + 1)[i] = u[i]
      /\ Append(u, n + 1)[n + 1] = n + 1
  BY <1>1, <1>3
<1>5. \A i \in 1..(n + 1) : Append(u, n + 1)[i] = Upto(n + 1)[i]
  BY <1>3, <1>4 DEF Upto
<1>6. Append(u, n + 1) = Upto(n + 1)
  BY <1>2, <1>4, <1>5, SeqEqual
<1> QED
  BY <1>1, <1>3, <1>6

\* Joining sequences, in the three forms that occur.
LEMMA JoinIs ==
  ASSUME NEW h \in Seq(Nat), NEW c \in Seq(Nat)
  PROVE  /\ h \o <<>> = h /\ h \o c \in Seq(Nat) /\ (h \o c) \o <<>> = h \o c
         /\ (h \o <<>>) \o c = h \o c
         /\ \A x \in Nat : h \o Append(c, x) = Append(h \o c, x)
<1>1. h \o c \in Seq(Nat) /\ h \o <<>> = h
  BY ConcatProperties, ConcatEmptySeq
<1>2. PICK d \in Seq(Nat) : d = h \o c
  BY <1>1, Zenon
<1>3. d \o <<>> = d
  BY ConcatEmptySeq
<1>4. ASSUME NEW x \in Nat PROVE h \o Append(c, x) = Append(h \o c, x)
  <2>1. PICK a \in Seq(Nat) : a = Append(c, x)
    <3>1. Append(c, x) \in Seq(Nat)
      OBVIOUS
    <3> QED
      BY <3>1, Zenon
  <2>2. PICK m \in Nat, n \in Nat : m = Len(h) /\ n = Len(c)
    OBVIOUS
  <2>3. /\ a \in Seq(Nat) /\ Len(a) = n + 1 /\ a[n + 1] = x
        /\ \A i \in 1..n : a[i] = c[i]
    BY <2>1, <2>2, AppendProperties
  <2>4. PICK k \in Nat : k = n + 1
    OBVIOUS
  <2>5. /\ h \o a \in Seq(Nat) /\ Len(h \o a) = m + k
        /\ \A i \in 1..(m + k) : (h \o a)[i] = IF i <= m THEN h[i] ELSE a[i - m]
    <3>1. Len(a) = k
      BY <2>3, <2>4
    <3> QED
      BY <2>2, <3>1, ConcatProperties
  <2>6. /\ d \in Seq(Nat) /\ Len(d) = m + n
        /\ \A i \in 1..(m + n) : d[i] = IF i <= m THEN h[i] ELSE c[i - m]
    BY <1>2, <2>2, ConcatProperties
  <2>7. /\ Append(d, x) \in Seq(Nat) /\ Len(Append(d, x)) = (m + n) + 1
        /\ \A i \in 1..(m + n) : Append(d, x)[i] = d[i]
        /\ Append(d, x)[(m + n) + 1] = x
    BY <2>6, AppendProperties
  <2>8. ASSUME NEW i \in 1..(m + k) PROVE (h \o a)[i] = Append(d, x)[i]
    <3>1. CASE i = (m + n) + 1
      <4>1. ~(i <= m) /\ i - m = n + 1
        BY <3>1
      <4> QED
        BY <2>3, <2>5, <2>7, <2>8, <2>4, <3>1, <4>1
    <3>2. CASE i # (m + n) + 1
      <4>1. i \in 1..(m + n) /\ (~(i <= m) => i - m \in 1..n)
        BY <2>8, <2>4, <3>2
      <4> QED
        BY <2>3, <2>5, <2>6, <2>7, <2>8, <4>1
    <3> QED
      BY <3>1, <3>2
  <2>9. PICK z \in Seq(Nat) : z = Append(d, x)
    BY <2>7, Zenon
  <2>10. PICK w \in Seq(Nat) : w = h \o a
    BY <2>5, Zenon
  <2>11. Len(w) = Len(z) /\ \A i \in 1..Len(w) : w[i] = z[i]
    BY <2>5, <2>7, <2>8, <2>9, <2>10, <2>4
  <2>12. w = z
    BY <2>11, SeqEqual
  <2> QED
    BY <1>2, <2>1, <2>9, <2>10, <2>12
<1> QED
  BY <1>1, <1>2, <1>3, <1>4

\* The three parts of what the cell holds.
LEMMA HeldTyped ==
  ASSUME TypeInv
  PROVE  /\ handed \in Seq(Nat) /\ phase.event.items \in Seq(Nat)
         /\ actor.content_items \in Seq(Nat)
         /\ handed \o phase.event.items \in Seq(Nat) /\ Held \in Seq(Nat) /\ Len(Held) \in Nat
<1>1. handed \in Seq(Nat) /\ phase.event.items \in Seq(Nat) /\ actor.content_items \in Seq(Nat)
  BY DEF TypeInv, Phases, Answers, ActorStates
<1>2. PICK h \in Seq(Nat), p \in Seq(Nat), c \in Seq(Nat) :
          h = handed /\ p = phase.event.items /\ c = actor.content_items
  BY <1>1, Zenon
<1>3. h \o p \in Seq(Nat)
  BY ConcatProperties
<1>4. PICK d \in Seq(Nat) : d = h \o p
  BY <1>3, Zenon
<1>5. d \o c \in Seq(Nat) /\ Len(d \o c) \in Nat
  BY ConcatProperties
<1> QED
  BY <1>1, <1>2, <1>3, <1>4, <1>5 DEF Held

\* The items with the actor and those in the phase exclude each other.
LEMMA HeldIs ==
  ASSUME TypeInv, OutcomeInv, NoneKept
  PROVE  /\ ~Kept => phase.event.items = <<>> /\ Held = handed \o actor.content_items
         /\ Kept => Held = handed \o phase.event.items
<1>1. PICK h \in Seq(Nat), p \in Seq(Nat), c \in Seq(Nat) :
          h = handed /\ p = phase.event.items /\ c = actor.content_items
  BY HeldTyped, Zenon
<1>2. ~Kept => phase.event.items = <<>>
  BY DEF OutcomeInv, PhaseOK, Nothing, Event
<1>3. (h \o <<>>) \o c = h \o c /\ (h \o p) \o <<>> = h \o p
  BY JoinIs
<1> QED
  BY <1>1, <1>2, <1>3 DEF Held, NoneKept

\* A step that leaves the items on their way alone.
SameTransit == Transit' = Transit /\ (InOrder => InOrder')

\* A message of the thread, at the end of its channel.
LEMMA SendTransit ==
  ASSUME TypeInv, NEW m \in Messages, events' = Append(events, m)
  PROVE  /\ m.is # "ContentItem" => SameTransit
         /\ m.is = "ContentItem" => Transit' = Transit \cup {m.item}
         /\ m.is = "ContentItem" /\ InOrder /\ (\A y \in Transit : y < m.item) => InOrder'
<1>1. PICK ev \in Seq(Messages) : ev = events
  <2>1. events \in Seq(Messages)
    BY DEF TypeInv
  <2> QED
    BY <2>1, Zenon
<1>2. events' = Append(ev, m)
  BY <1>1
<1>3. PICK n \in Nat : n = Len(ev)
  OBVIOUS
<1>4. /\ \A i \in DOMAIN events : i \in DOMAIN events' /\ events'[i] = events[i] /\ i # n + 1 /\ i \in 1..n
      /\ \A i \in DOMAIN events' : i \in DOMAIN events \/ i = n + 1
      /\ n + 1 \in DOMAIN events' /\ events'[n + 1] = m
  BY <1>1, <1>2, <1>3, AppendIs
<1>5. CASE m.is # "ContentItem"
  <2>1. InTransit' = InTransit /\ \A i \in InTransit : events'[i] = events[i]
    BY <1>4, <1>5 DEF InTransit
  <2> QED
    BY <1>5, <2>1 DEF SameTransit, Transit, InOrder
<1>6. CASE m.is = "ContentItem"
  <2>1. InTransit' = InTransit \cup {n + 1} /\ \A i \in InTransit : events'[i] = events[i] /\ i \in 1..n
    BY <1>4, <1>6 DEF InTransit
  <2>2. Transit' = Transit \cup {m.item}
    BY <1>4, <2>1 DEF Transit
  <2>3. ASSUME InOrder, \A y \in Transit : y < m.item PROVE InOrder'
    <3>1. ASSUME NEW i \in InTransit', NEW j \in InTransit', i < j PROVE events'[i].item < events'[j].item
      <4>1. i \in InTransit
        <5>1. i # n + 1
          BY <2>1, <3>1
        <5> QED
          BY <2>1, <5>1
      <4>2. CASE j = n + 1
        BY <1>4, <2>1, <2>3, <4>1, <4>2 DEF Transit
      <4>3. CASE j # n + 1
        BY <2>1, <2>3, <3>1, <4>1, <4>3 DEF InOrder
      <4> QED
        BY <4>2, <4>3
    <3> QED
      BY <3>1 DEF InOrder
  <2> QED
    BY <1>6, <2>2, <2>3
<1> QED
  BY <1>5, <1>6

\* An event taken from its head.
LEMMA TakeTransit ==
  ASSUME TypeInv, NEW e, TakesEvent(e)
  PROVE  /\ e # "ContentItem" => SameTransit
         /\ e = "ContentItem" => Transit = Transit' \cup {events[1].item}
         /\ e = "ContentItem" /\ InOrder => InOrder' /\ \A y \in Transit' : events[1].item < y
<1>1. events \in Seq(Messages) /\ events # <<>> /\ events[1].is = e /\ events' = Tail(events)
  BY EventIs
<1>2. PICK ev \in Seq(Messages) : ev = events
  BY <1>1, Zenon
<1>3. /\ \A i \in DOMAIN events' : events'[i] = events[i + 1] /\ i + 1 \in DOMAIN events /\ i \in Nat /\ i >= 1
      /\ \A i \in DOMAIN events : i # 1 => i - 1 \in DOMAIN events' /\ events'[i - 1] = events[i]
      /\ \A i \in DOMAIN events : i \in Nat
      /\ 1 \in DOMAIN events
  BY <1>1, <1>2, TailIs
<1>4. \A i \in InTransit' : i \in Nat /\ i >= 1 /\ i + 1 \in InTransit /\ events'[i] = events[i + 1]
  BY <1>3 DEF InTransit
<1>5. \A i \in InTransit : i # 1 => i - 1 \in InTransit' /\ events'[i - 1] = events[i]
  BY <1>3 DEF InTransit
<1>6. (1 \in InTransit) <=> (e = "ContentItem")
  BY <1>1, <1>3 DEF InTransit
<1>7. ASSUME InOrder PROVE InOrder'
  <2>1. ASSUME NEW i \in InTransit', NEW j \in InTransit', i < j PROVE events'[i].item < events'[j].item
    <3>1. i + 1 \in InTransit /\ j + 1 \in InTransit /\ i + 1 < j + 1
      BY <1>4, <2>1
    <3>2. events[i + 1].item < events[j + 1].item
      BY <1>7, <3>1 DEF InOrder
    <3> QED
      BY <1>4, <3>2
  <2> QED
    BY <2>1 DEF InOrder
<1>8. Transit' \subseteq Transit
  BY <1>4 DEF Transit
<1>9. \A i \in InTransit : i # 1 => events[i].item \in Transit'
  BY <1>5 DEF Transit
<1>10. CASE e # "ContentItem"
  <2>1. Transit \subseteq Transit'
    BY <1>6, <1>9, <1>10 DEF Transit
  <2> QED
    BY <1>7, <1>8, <1>10, <2>1 DEF SameTransit
<1>11. CASE e = "ContentItem"
  <2>1. Transit = Transit' \cup {events[1].item}
    BY <1>6, <1>8, <1>9, <1>11 DEF Transit
  <2>2. ASSUME InOrder, NEW y \in Transit' PROVE events[1].item < y
    <3>1. PICK i \in InTransit' : y = events'[i].item
      BY <2>2 DEF Transit
    <3>2. i + 1 \in InTransit /\ 1 < i + 1 /\ y = events[i + 1].item
      BY <1>4, <3>1
    <3> QED
      BY <1>6, <1>11, <2>2, <3>2 DEF InOrder
  <2> QED
    BY <1>7, <1>11, <2>1, <2>2
<1> QED
  BY <1>10, <1>11

\* A step that tells nobody an outcome and leaves what the cell holds alone.
OutputStays ==
    /\ Untold /\ SameTransit
    /\ actor'.content_items = actor.content_items /\ handed' = handed
    /\ phase'.event = phase.event /\ emitted'.items = emitted.items
    /\ actor.runtime_closed => actor'.runtime_closed
    /\ phase.is \in {"CompletionClaimed", "Tombstone"} => phase'.is \in {"CompletionClaimed", "Tombstone"}
    /\ Kept' => Kept
    /\ actor'.pc \notin Gone => actor.pc \notin Gone

\* Such a step keeps the invariant.
LEMMA StaysOutput ==
  ASSUME OutputInv, OutputStays PROVE OutputInv'
<1>1. Held' = Held
  BY DEF OutputStays, Held
<1>2. HeldOK'
  BY <1>1 DEF OutputInv, HeldOK, OutputStays, SameTransit
<1>3. ToldAll'
  <2>1. ASSUME NEW c \in Calls, HasOutcome(c)'
        PROVE  (/\ handed \o ask[c].answer.items = Upto(emitted.items)
                /\ actor.runtime_closed /\ phase.is \in {"CompletionClaimed", "Tombstone"})'
    <3>1. ask'[c].answer = ask[c].answer /\ HasOutcome(c)
      BY <2>1 DEF OutputStays, Untold, HasOutcome
    <3> QED
      BY <3>1 DEF OutputInv, ToldAll, OutputStays
  <2> QED
    BY <2>1 DEF ToldAll
<1>4. NoneKept'
  BY DEF OutputInv, NoneKept, OutputStays
<1> QED
  BY <1>2, <1>3, <1>4 DEF OutputInv

\* Output is handed to an observer, or put back.
LEMMA HandedOutput ==
  ASSUME TypeInv, TypeInv', OutcomeInv, OutputInv, Untold, SameTransit, UNCHANGED phase,
         emitted'.items = emitted.items, actor.pc \in InLoop, actor'.pc \in InLoop,
         actor'.runtime_closed = actor.runtime_closed,
         \/ handed' = handed \o actor.content_items /\ actor'.content_items = <<>>
         \/ handed' = handed /\ actor'.content_items = actor.content_items
  PROVE  OutputInv'
<1>0. actor.pc \notin Gone /\ actor'.pc \notin Gone /\ phase.is # "Tombstone"
  BY DEF InLoop, Gone, OutcomeInv, PlaceOK
<1>1. PICK h \in Seq(Nat), c \in Seq(Nat) : h = handed /\ c = actor.content_items
  BY HeldTyped, Zenon
<1>2. CASE handed' = handed /\ actor'.content_items = actor.content_items
  <2>1. OutputStays
    BY <1>0, <1>2 DEF OutputStays, Kept
  <2> QED
    BY <2>1, StaysOutput
<1>3. CASE Kept /\ handed' = handed \o actor.content_items /\ actor'.content_items = <<>>
  <2>1. actor.content_items = <<>> /\ h \o <<>> = h
    BY <1>3, JoinIs DEF OutputInv, NoneKept
  <2>2. handed' = handed /\ actor'.content_items = actor.content_items
    BY <1>1, <1>3, <2>1
  <2> QED
    BY <1>2, <2>2
<1>4. CASE ~Kept /\ handed' = handed \o actor.content_items /\ actor'.content_items = <<>>
  <2>1. phase'.event.items = <<>> /\ Held = h \o c
    BY <1>1, <1>4, HeldIs DEF OutputInv
  <2>2. (h \o c) \o <<>> = h \o c
    BY JoinIs
  <2>3. Held' = Held
    BY <1>1, <1>4, <2>1, <2>2 DEF Held
  <2>4. HeldOK'
    BY <1>0, <2>3 DEF OutputInv, HeldOK, SameTransit
  <2>5. \A d \in Calls : ~HasOutcome(d)'
    BY <1>0, <1>4 DEF Untold, HasOutcome, OutputInv, ToldAll, Kept
  <2>6. ToldAll' /\ NoneKept'
    BY <1>4, <2>5 DEF ToldAll, NoneKept
  <2> QED
    BY <2>4, <2>6 DEF OutputInv
<1> QED
  BY <1>2, <1>3, <1>4

\* When the script's end has been seen, the cell holds all there is.
LEMMA HoldsAll ==
  ASSUME TypeInv, OutcomeInv, ThreadInv, OutputInv, actor.runtime_closed, actor.pc \notin Gone
  PROVE  /\ Held = Upto(emitted.items)
         /\ Kept => handed \o phase.event.items = Upto(emitted.items)
         /\ ~Kept => handed \o actor.content_items = Upto(emitted.items)
<1>1. Transit = {}
  BY DEF ThreadInv, ThreadOK, Transit, InTransit
<1>2. Held = Upto(Len(Held)) /\ Len(Held) <= emitted.items /\ {} = (Len(Held) + 1)..emitted.items
  BY <1>1 DEF OutputInv, HeldOK
<1>3. PICK n \in Nat, k \in Nat : n = Len(Held) /\ k = emitted.items
  <2>1. Len(Held) \in Nat /\ emitted.items \in Nat
    BY HeldTyped DEF TypeInv
  <2> QED
    BY <2>1, Zenon
<1>4. n <= k /\ {} = (n + 1)..k
  BY <1>2, <1>3
<1>5. n = k
  <2>1. n + 1 <= k => k \in (n + 1)..k
    OBVIOUS
  <2> QED
    BY <1>4, <2>1
<1>6. Held = Upto(emitted.items)
  BY <1>2, <1>3, <1>5
<1> QED
  BY <1>6, HeldIs DEF OutputInv

\* Calls are told e, the outcome with all the rest.
LEMMA ToldOutput ==
  ASSUME OutputInv, NEW e, handed \o e.items = Upto(emitted.items),
         \A c \in Calls : ask'[c].answer = ask[c].answer \/ ask'[c].answer = e,
         UNCHANGED <<handed, emitted>>, actor'.runtime_closed,
         phase'.is \in {"CompletionClaimed", "Tombstone"},
         actor'.pc \notin Gone => /\ UNCHANGED <<events, actor>> /\ phase'.event = phase.event
                                  /\ Kept,
         actor'.pc \in Gone => ~Kept'
  PROVE  OutputInv'
<1>1. HeldOK'
  <2> SUFFICES ASSUME actor'.pc \notin Gone PROVE HeldOK'
    BY DEF HeldOK
  <2>1. Held' = Held /\ Transit' = Transit /\ (InOrder => InOrder')
    BY DEF Held, Transit, InTransit, InOrder
  <2> QED
    BY <2>1 DEF OutputInv, HeldOK
<1>2. ToldAll'
  <2>1. ASSUME NEW c \in Calls, HasOutcome(c)'
        PROVE  handed' \o ask'[c].answer.items = Upto(emitted'.items)
    BY <2>1 DEF OutputInv, ToldAll, HasOutcome
  <2> QED
    BY <2>1 DEF ToldAll
<1>3. NoneKept'
  BY DEF OutputInv, NoneKept
<1> QED
  BY <1>1, <1>2, <1>3 DEF OutputInv

\* Thread, callbacks and timer.
LEMMA ThreadOutput ==
  ASSUME TypeInv, OutcomeInv, ThreadInv, OutputInv,
         Script \/ ThreadLoop \/ NotifyEnds \/ ToolEnds \/ Elapse
  PROVE  OutputInv'
<1>0. js \in JsStates /\ emitted \in [items : Nat, calls : 0..MaxCalls] /\ emitted.items \in Nat
      /\ actor \in ActorStates
  BY DEF TypeInv
<1>1. UNCHANGED <<ask, phase, handed>>
  BY DEF Script, tool_callback, notify_callback, yield_control_callback,
         ThreadLoop, NotifyEnds, ToolEnds, Elapse, JsOutput, JsAwait, JsResult, JsPanic,
         JsCall, JsStart, JsCommand, JsPending, JsControl, others, client, cell
<1>2. Untold
  BY <1>1, SameUntold
<1>3. /\ actor'.content_items = actor.content_items /\ actor'.pc = actor.pc
      /\ actor'.runtime_closed = actor.runtime_closed
  BY <1>0
     DEF Script, tool_callback, notify_callback, yield_control_callback,
         ThreadLoop, NotifyEnds, ToolEnds, Elapse, JsOutput, JsAwait, JsResult, JsPanic,
         JsCall, JsStart, JsCommand, JsPending, JsControl, others, ActorStates
<1>4. ASSUME SameTransit, emitted'.items = emitted.items PROVE OutputInv'
  <2>1. OutputStays
    BY <1>1, <1>2, <1>3, <1>4 DEF OutputStays, Kept
  <2> QED
    BY <2>1, StaysOutput
<1>5. ASSUME UNCHANGED <<events, emitted>> PROVE OutputInv'
  <2>1. SameTransit
    BY <1>5 DEF SameTransit, Transit, InTransit, InOrder
  <2> QED
    BY <1>4, <1>5, <2>1
<1>6. ASSUME NEW e \in CallNames \cup {"Started", "Pending", "Result", "ThreadPanicked"}, Send(e),
             emitted'.items = emitted.items
      PROVE  OutputInv'
  <2>1. Message(e, 0) \in Messages /\ Message(e, 0).is = e
    BY DEF Message, Messages
  <2>2. PICK m \in Messages : m = Message(e, 0)
    BY <2>1, Zenon
  <2>3. e # "ContentItem"
    BY DEF CallNames
  <2>4. SameTransit
    BY <1>6, <2>1, <2>2, <2>3, SendTransit DEF Send
  <2> QED
    BY <1>4, <1>6, <2>4
<1>7. ASSUME NEW call \in CallNames, JsCall(call) PROVE OutputInv'
  <2>1. emitted'.items = emitted.items
    BY <1>0, <1>7 DEF JsCall
  <2> QED
    BY <1>6, <1>7, <2>1 DEF JsCall
<1>8. ASSUME JsStart \/ JsPending \/ JsResult \/ JsPanic PROVE OutputInv'
  BY <1>6, <1>8 DEF JsStart, JsPending, JsResult, JsPanic
<1>9. ASSUME JsAwait \/ JsCommand \/ JsControl \/ NotifyEnds \/ ToolEnds \/ Elapse PROVE OutputInv'
  BY <1>5, <1>9 DEF JsAwait, JsCommand, JsControl, NotifyEnds, ToolEnds, Elapse, thread
<1>10. ASSUME JsOutput PROVE OutputInv'
  <2>1. PICK k \in Nat, n \in Nat : k = emitted.items /\ n = Len(Held)
    <3>1. emitted.items \in Nat /\ Len(Held) \in Nat
      BY <1>0, HeldTyped
    <3> QED
      BY <3>1, Zenon
  <2>2. Message("ContentItem", k + 1) \in Messages
    BY DEF Message, Messages
  <2>3. PICK m \in Messages : m = Message("ContentItem", k + 1)
    BY <2>2, Zenon
  <2>4. m.is = "ContentItem" /\ m.item = k + 1 /\ events' = Append(events, m)
    BY <1>10, <2>1, <2>3 DEF Message, JsOutput
  <2>5. emitted'.items = k + 1 /\ js.pc = "run"
    BY <1>0, <1>10, <2>1 DEF JsOutput
  <2>6. Held' = Held /\ Kept' = Kept
    BY <1>1, <1>3 DEF Held, Kept
  <2>7. HeldOK'
    <3> SUFFICES ASSUME actor'.pc \notin Gone PROVE HeldOK'
      BY DEF HeldOK
    <3>1. Held = Upto(n) /\ n <= k /\ Transit = (n + 1)..k /\ InOrder
      BY <1>3, <2>1 DEF OutputInv, HeldOK
    <3>2. \A y \in Transit : y < m.item
      BY <2>4, <3>1
    <3>3. InOrder' /\ Transit' = Transit \cup {k + 1}
      BY <2>4, <3>1, <3>2, SendTransit
    <3>4. Transit' = (n + 1)..(k + 1) /\ n <= k + 1
      BY <3>1, <3>3
    <3>5. Held' = Upto(n) /\ Len(Held') = n
      BY <2>1, <2>6, <3>1
    <3> QED
      BY <2>5, <3>3, <3>4, <3>5 DEF HeldOK
  <2>8. \A c \in Calls : ~HasOutcome(c)'
    <3>1. ~actor.runtime_closed
      BY <2>5 DEF ThreadInv, ThreadOK
    <3> QED
      BY <1>1, <3>1 DEF HasOutcome, OutputInv, ToldAll
  <2>9. ToldAll' /\ NoneKept'
    BY <1>3, <2>6, <2>8 DEF ToldAll, OutputInv, NoneKept
  <2> QED
    BY <2>7, <2>9 DEF OutputInv
<1> QED
  BY <1>7, <1>8, <1>9, <1>10
     DEF Script, tool_callback, notify_callback, yield_control_callback, ThreadLoop, CallNames

\* Clients.
LEMMA ClientOutput ==
  ASSUME TypeInv, OutcomeInv, ThreadInv, OutputInv, ClientStep PROVE OutputInv'
<1>0. actor \in ActorStates /\ phase \in Phases
  BY DEF TypeInv
<1>1. ASSUME Untold, UNCHANGED <<handed, emitted, events, actor>>, phase'.event = phase.event,
             phase.is \in {"CompletionClaimed", "Tombstone"} => phase'.is = phase.is,
             Kept' => Kept
      PROVE  OutputInv'
  <2>1. SameTransit
    BY <1>1 DEF SameTransit, Transit, InTransit, InOrder
  <2>2. OutputStays
    BY <1>1, <2>1 DEF OutputStays
  <2> QED
    BY <2>2, StaysOutput
<1>2. ASSUME Untold, UNCHANGED <<handed, emitted, events, actor, phase>> PROVE OutputInv'
  BY <1>1, <1>2 DEF Kept
<1>3. ASSUME NEW m \in Modes, Execute(m) PROVE OutputInv'
  <2>1. OneCall(First) /\ ask'[First].st = "waiting" /\ ask'[First].answer = ask[First].answer
    BY <1>3, CallUpdate, CallsDiffer DEF Execute
  <2>2. actor.pc = "none"
    BY <1>3 DEF Execute, Started
  <2>3. ask[First].st # "answered"
    BY <2>2, CallsDiffer DEF OutcomeInv, BeginOK
  <2>4. Untold
    BY <2>1, <2>3, OneUntold, CallsDiffer
  <2>5. actor'.pc = "poll" /\ actor'.content_items = actor.content_items
        /\ actor'.runtime_closed = actor.runtime_closed
    BY <1>0, <1>3 DEF Execute, ActorStates
  <2>6. SameTransit
    BY <1>3 DEF Execute, SameTransit, Transit, InTransit, InOrder
  <2>7. UNCHANGED <<phase, handed, emitted>>
    BY <1>3 DEF Execute, cell
  <2>8. OutputStays
    BY <2>2, <2>4, <2>5, <2>6, <2>7 DEF OutputStays, Kept, Gone
  <2> QED
    BY <2>8, StaysOutput
<1>4. ASSUME NEW o \in Observations, NEW m \in Modes, Observe(o, m) PROVE OutputInv'
  <2>1. OneCall(o) /\ ask'[o].st = "waiting" /\ ask[o].st = "idle" /\ ask'[o].answer = ask[o].answer
    BY <1>4, CallUpdate, CallsDiffer DEF Observe
  <2>2. Untold
    BY <2>1, OneUntold, CallsDiffer
  <2> QED
    BY <1>2, <1>4, <2>2 DEF Observe, cell, thread
<1>5. ASSUME NEW o \in Observations, DropObservation(o) PROVE OutputInv'
  <2>1. OneCall(o) /\ ask'[o].st = "dropped" /\ ask[o].st = "waiting" /\ ask'[o].answer = ask[o].answer
    BY <1>5, CallUpdate, CallsDiffer DEF DropObservation
  <2>2. Untold
    BY <2>1, OneUntold, CallsDiffer
  <2> QED
    BY <1>2, <1>5, <2>2 DEF DropObservation, cell, thread
<1>6. ASSUME NEW o \in Observations, ObserveRefused(o) PROVE OutputInv'
  <2>1. PICK k \in Errors : Refuse(o, k)
    BY <1>6 DEF ObserveRefused, Errors
  <2>2. Untold
    BY <2>1, RefuseIs, OneUntold, CallsDiffer DEF Errors, Outcomes
  <2> QED
    BY <1>2, <1>6, <2>2 DEF ObserveRefused, cell, thread
<1>7. ASSUME NEW t \in Terminations, TerminateRefused(t) PROVE OutputInv'
  <2>1. PICK k \in Errors : Refuse(t, k)
    BY <1>7 DEF TerminateRefused, Errors
  <2>2. Untold
    BY <2>1, RefuseIs, OneUntold, CallsDiffer DEF Errors, Outcomes
  <2> QED
    BY <1>2, <1>7, <2>2 DEF TerminateRefused, cell, thread
<1>8. ASSUME NEW t \in Terminations, Terminate(t) PROVE OutputInv'
  <2>1. OneCall(t) /\ ask'[t].st = "waiting" /\ ask[t].st = "idle" /\ ask'[t].answer = ask[t].answer
    BY <1>8, CallUpdate, CallsDiffer DEF Terminate
  <2>2. Untold
    BY <2>1, OneUntold, CallsDiffer
  <2>3. phase'.is = "Terminating" /\ phase'.event = phase.event /\ phase.is = "Running"
    BY <1>0, <1>8 DEF Terminate, Phases
  <2> QED
    BY <1>1, <1>8, <2>2, <2>3 DEF Terminate, Kept, thread
<1>9. ASSUME NEW t \in Terminations, TerminateCompleted(t) PROVE OutputInv'
  <2>1. PICK e \in Answers : e = phase.event
    <3>1. phase.event \in Answers
      BY <1>0 DEF Phases
    <3> QED
      BY <3>1, Zenon
  <2>2. OneCall(t) /\ ask'[t].answer = e
    BY <1>9, <2>1, CallUpdate, CallsDiffer DEF TerminateCompleted
  <2>3. /\ phase.is = "Completed" /\ phase'.is = "CompletionClaimed" /\ phase'.event = phase.event
        /\ UNCHANGED <<handed, emitted, events, actor>>
    BY <1>0, <1>9 DEF TerminateCompleted, Phases, thread
  <2>4. Kept /\ actor.runtime_closed /\ actor.pc \notin Gone
    BY <2>3 DEF Kept, OutcomeInv, PlaceOK
  <2>5. handed \o e.items = Upto(emitted.items)
    BY <2>1, <2>4, HoldsAll
  <2>6. \A c \in Calls : ask'[c].answer = ask[c].answer \/ ask'[c].answer = e
    BY <2>2 DEF OneCall
  <2> QED
    BY <2>3, <2>4, <2>5, <2>6, ToldOutput
<1>10. ASSUME Shutdown PROVE OutputInv'
  BY <1>2, <1>10, SameUntold DEF Shutdown, thread
<1> QED
  BY <1>3, <1>4, <1>5, <1>6, <1>7, <1>8, <1>9, <1>10 DEF ClientStep

\* Events.
LEMMA EventOutput ==
  ASSUME TypeInv, TypeInv', OutcomeInv, ThreadInv, OutputInv, TakeEvent PROVE OutputInv'
<1>0. actor \in ActorStates /\ actor.content_items \in Seq(Nat)
  BY DEF TypeInv, ActorStates
<1>1. UNCHANGED <<phase, emitted>>
  BY DEF TakeEvent, OnStarted, OnPending, OnContentItem, OnYieldRequested, OnNotify,
         OnToolCall, OnThreadPanicked, OnResult, OnChannelClosed, thread, cell
<1>2. ASSUME Untold, SameTransit, actor'.content_items = actor.content_items, UNCHANGED handed,
             actor.pc \notin Gone, actor.runtime_closed => actor'.runtime_closed
      PROVE  OutputInv'
  <2>1. OutputStays
    BY <1>1, <1>2 DEF OutputStays, Kept
  <2> QED
    BY <2>1, StaysOutput
<1>3. ASSUME OnStarted \/ OnNotify \/ OnToolCall \/ OnThreadPanicked PROVE OutputInv'
  <2>1. SameTransit /\ actor.pc = "select"
    BY <1>3, TakeTransit, EventIs DEF OnStarted, OnNotify, OnToolCall, OnThreadPanicked
  <2>2. actor'.content_items = actor.content_items /\ actor'.runtime_closed = actor.runtime_closed
    BY <1>3, BackIs DEF OnStarted, OnNotify, OnToolCall, OnThreadPanicked, ActorStates
  <2>3. Untold /\ UNCHANGED handed
    BY <1>3, SameUntold DEF OnStarted, OnNotify, OnToolCall, OnThreadPanicked, client
  <2> QED
    BY <1>2, <2>1, <2>2, <2>3 DEF Gone
<1>4. ASSUME NEW k \in {"pending", "yielded"}, HandsOver(k), SameTransit, actor.pc = "select" PROVE OutputInv'
  <2>1. Untold
    BY <1>0, <1>4, EventUntold DEF HandsOver
  <2>2. \/ handed' = handed \o actor.content_items /\ actor'.content_items = <<>>
        \/ handed' = handed /\ actor'.content_items = actor.content_items
    BY <1>4 DEF HandsOver
  <2>3. actor'.pc \in InLoop /\ actor.pc \in InLoop /\ actor'.runtime_closed = actor.runtime_closed
    BY <1>4 DEF HandsOver, InLoop
  <2> QED
    BY <1>1, <1>4, <2>1, <2>2, <2>3, HandedOutput
<1>5. ASSUME OnPending PROVE OutputInv'
  <2>1. SameTransit /\ actor.pc = "select"
    BY <1>5, TakeTransit, EventIs DEF OnPending
  <2>2. CASE ObserverMode("PendingFrontier")
    <3>1. HandsOver("pending")
      BY <1>5, <2>2, PendingIs DEF OnPending
    <3> QED
      BY <1>4, <2>1, <3>1
  <2>3. CASE ~ObserverMode("PendingFrontier")
    <3>1. actor'.content_items = actor.content_items /\ actor'.runtime_closed = actor.runtime_closed
      BY <1>5, <2>3, BackIs DEF OnPending, ActorStates
    <3>2. Untold /\ UNCHANGED handed
      BY <1>5, <2>3, SameUntold DEF OnPending
    <3> QED
      BY <1>2, <2>1, <3>1, <3>2 DEF Gone
  <2> QED
    BY <2>2, <2>3
<1>6. ASSUME OnYieldRequested PROVE OutputInv'
  <2>1. SameTransit /\ actor.pc = "select"
    BY <1>6, TakeTransit, EventIs DEF OnYieldRequested
  <2>2. CASE ObserverMode("YieldAfter")
    <3>1. HandsOver("yielded")
      BY <1>6, <2>2, YieldIs DEF OnYieldRequested
    <3> QED
      BY <1>4, <2>1, <3>1
  <2>3. CASE ~ObserverMode("YieldAfter")
    <3>1. actor'.content_items = actor.content_items /\ actor'.runtime_closed = actor.runtime_closed
      BY <1>6, <2>3, BackIs DEF OnYieldRequested
    <3>2. Untold /\ UNCHANGED handed
      BY <1>6, <2>3, SameUntold DEF OnYieldRequested
    <3> QED
      BY <1>2, <2>1, <3>1, <3>2 DEF Gone
  <2> QED
    BY <2>2, <2>3
<1>7. ASSUME OnResult \/ OnChannelClosed PROVE OutputInv'
  <2>1. ClosesRuntime
    BY <1>7, ResultIs
  <2>2. SameTransit
    <3>1. CASE OnResult
      BY <3>1, TakeTransit DEF OnResult
    <3>2. CASE OnChannelClosed
      BY <3>2 DEF OnChannelClosed, thread, SameTransit, Transit, InTransit, InOrder
    <3> QED
      BY <1>7, <3>1, <3>2
  <2>3. Untold /\ UNCHANGED handed
    BY <1>7, SameUntold DEF OnResult, OnChannelClosed, client
  <2> QED
    BY <1>2, <2>1, <2>2, <2>3 DEF ClosesRuntime, Gone
<1>8. ASSUME OnContentItem PROVE OutputInv'
  <2>1. /\ events[1] \in Messages /\ Head(events) = events[1] /\ ~actor.runtime_closed
        /\ actor.pc = "select" /\ TakesEvent("ContentItem")
    BY <1>8, EventIs DEF OnContentItem
  <2>2. PICK x \in Nat, k \in Nat, n \in Nat : x = events[1].item /\ k = emitted.items /\ n = Len(Held)
    <3>1. events[1].item \in Nat /\ emitted.items \in Nat /\ Len(Held) \in Nat
      BY <2>1, HeldTyped DEF Messages, TypeInv
    <3> QED
      BY <3>1, Zenon
  <2>3. /\ Transit = Transit' \cup {x}
        /\ InOrder => InOrder' /\ \A y \in Transit' : x < y
    BY <2>1, <2>2, TakeTransit
  <2>4. Held = Upto(n) /\ n <= k /\ Transit = (n + 1)..k /\ InOrder
    BY <2>1, <2>2 DEF OutputInv, HeldOK, Gone
  <2>5. InOrder' /\ \A y \in Transit' : x < y
    BY <2>3, <2>4
  <2>6. x = n + 1 /\ x <= k
    <3>1. x \in (n + 1)..k
      BY <2>3, <2>4
    <3>2. n + 1 \in Transit
      BY <2>4, <3>1
    <3>3. ASSUME x # n + 1 PROVE FALSE
      <4>1. n + 1 \in Transit'
        BY <2>3, <3>2, <3>3
      <4>2. x < n + 1
        BY <2>5, <4>1
      <4> QED
        BY <3>1, <4>2
    <3> QED
      BY <3>1, <3>3
  <2>7. Transit' = (n + 2)..k
    <3>1. ASSUME NEW y \in Transit' PROVE y \in (n + 2)..k
      <4>1. y \in (n + 1)..k /\ x < y
        BY <2>3, <2>4, <2>5, <3>1
      <4> QED
        BY <2>6, <4>1
    <3>2. ASSUME NEW y \in (n + 2)..k PROVE y \in Transit'
      <4>1. y \in (n + 1)..k /\ y # x
        BY <2>6, <3>2
      <4> QED
        BY <2>3, <2>4, <4>1
    <3> QED
      BY <3>1, <3>2
  <2>8. PICK c \in Seq(Nat), d \in Seq(Nat) :
            c = actor.content_items /\ d = handed \o phase.event.items
    BY HeldTyped, Zenon
  <2>9. PICK s \in Seq(Nat) : s = Append(c, x)
    <3>1. Append(c, x) \in Seq(Nat)
      OBVIOUS
    <3> QED
      BY <3>1, Zenon
  <2>10. actor' = [Back EXCEPT !.content_items = s]
    BY <1>8, <2>1, <2>2, <2>8, <2>9, BackIs DEF OnContentItem
  <2>11. actor'.content_items = s /\ actor'.pc = "poll"
    BY <2>10, BackIs DEF ActorStates
  <2>12. Held' = Upto(n + 1)
    <3>1. Held' = d \o s
      BY <1>1, <1>8, <2>8, <2>11 DEF Held, OnContentItem
    <3>2. d \o Append(c, x) = Append(d \o c, x)
      BY JoinIs
    <3>3. Held = d \o c
      BY <2>8 DEF Held
    <3>4. Append(Upto(n), n + 1) = Upto(n + 1)
      BY UptoIs
    <3>5. Append(Held, x) = Upto(n + 1)
      BY <2>4, <2>6, <3>4
    <3> QED
      BY <2>9, <3>1, <3>2, <3>3, <3>5
  <2>13. HeldOK'
    <3>1. Len(Held') = n + 1
      BY <2>12, UptoIs
    <3>2. n + 1 <= k /\ Transit' = ((n + 1) + 1)..k
      BY <2>6, <2>7
    <3>3. Held' = Upto(Len(Held')) /\ Len(Held') <= k /\ Transit' = (Len(Held') + 1)..k
      BY <2>12, <3>1, <3>2
    <3>4. emitted'.items = k
      BY <1>1, <2>2
    <3> QED
      BY <2>5, <3>3, <3>4 DEF HeldOK
  <2>14. ~Kept /\ \A c2 \in Calls : ~HasOutcome(c2)
    BY <2>1 DEF OutcomeInv, PlaceOK, OutputInv, ToldAll
  <2>15. ToldAll' /\ NoneKept'
    BY <1>1, <1>8, <2>14 DEF OnContentItem, client, ToldAll, NoneKept, HasOutcome, Kept
  <2> QED
    BY <2>13, <2>15 DEF OutputInv
<1> QED
  BY <1>3, <1>5, <1>6, <1>7, <1>8 DEF TakeEvent

\* The loop's other steps.
LEMMA LoopOutput ==
  ASSUME TypeInv, TypeInv', OutcomeInv, ThreadInv, OutputInv,
         Poll \/ SeeCancelled \/ TakeCommand \/ YieldTimer
  PROVE  OutputInv'
<1>0. /\ actor \in ActorStates /\ actor.content_items \in Seq(Nat) /\ <<>> \in Seq(Nat)
      /\ {"closed", "busy", "pending"} \subseteq Kinds
  BY DEF TypeInv, ActorStates, Kinds, Errors
<1>1. ASSUME UNCHANGED events PROVE SameTransit
  BY <1>1 DEF SameTransit, Transit, InTransit, InOrder
<1>2. ASSUME Untold, UNCHANGED <<phase, handed, events, emitted>>,
             actor'.content_items = actor.content_items, actor'.runtime_closed = actor.runtime_closed,
             actor.pc \notin Gone
      PROVE  OutputInv'
  <2>1. OutputStays
    BY <1>1, <1>2 DEF OutputStays, Kept
  <2> QED
    BY <2>1, StaysOutput
<1>3. ASSUME Poll PROVE OutputInv'
  <2>1. /\ actor'.content_items = actor.content_items /\ actor'.runtime_closed = actor.runtime_closed
        /\ actor.pc \notin Gone
    BY <1>0, <1>3 DEF Poll, ActorStates, Gone
  <2> QED
    BY <1>2, <1>3, <2>1, SameUntold DEF Poll, client, cell, thread
<1>4. ASSUME SeeCancelled PROVE OutputInv'
  <2>1. Answering(Queued, Event("closed", <<>>))
    BY <1>4, DropInboxIs DEF SeeCancelled
  <2>2. Untold
    BY <1>0, <2>1, EventUntold
  <2>3. /\ actor'.content_items = actor.content_items /\ actor'.runtime_closed = actor.runtime_closed
        /\ actor.pc \notin Gone
    BY <1>0, <1>4 DEF SeeCancelled, ActorStates, Gone
  <2> QED
    BY <1>2, <1>4, <2>2, <2>3 DEF SeeCancelled
<1>5. ASSUME YieldTimer PROVE OutputInv'
  <2>1. HandsOver("yielded")
    BY <1>5, YieldIs DEF YieldTimer
  <2>2. Untold
    BY <1>0, <2>1, EventUntold DEF HandsOver
  <2>3. \/ handed' = handed \o actor.content_items /\ actor'.content_items = <<>>
        \/ handed' = handed /\ actor'.content_items = actor.content_items
    BY <2>1 DEF HandsOver
  <2>4. actor'.pc \in InLoop /\ actor.pc \in InLoop /\ actor'.runtime_closed = actor.runtime_closed
    BY <1>5, <2>1 DEF HandsOver, InLoop, YieldTimer
  <2>5. SameTransit /\ UNCHANGED <<phase, emitted>>
    BY <1>1, <1>5 DEF YieldTimer, cell, thread
  <2> QED
    BY <2>2, <2>3, <2>4, <2>5, HandedOutput
<1>6. ASSUME NEW o \in Observations, SkipDropped(o) \/ BecomeObserver(o) PROVE OutputInv'
  <2>1. /\ actor'.content_items = actor.content_items /\ actor'.runtime_closed = actor.runtime_closed
        /\ actor.pc \notin Gone
    BY <1>6, BackIs, TakesIs DEF SkipDropped, BecomeObserver, ActorStates, Gone
  <2> QED
    BY <1>2, <1>6, <2>1, SameUntold DEF SkipDropped, BecomeObserver, client, cell, thread
<1>7. ASSUME NEW o \in Observations, RouteClosed(o) \/ ObserverBusy(o) PROVE OutputInv'
  <2>1. PICK k \in {"closed", "busy"} : ask' = Answered({o}, Event(k, <<>>))
    BY <1>7 DEF RouteClosed, ObserverBusy
  <2>2. Event(k, <<>>) \in Answers
    BY <1>0, ValuesTyped
  <2>3. Untold
    BY <1>0, <2>1, <2>2, AnsweredIs, EventUntold
  <2>4. /\ actor'.content_items = actor.content_items /\ actor'.runtime_closed = actor.runtime_closed
        /\ actor.pc \notin Gone
    BY <1>7, BackIs, TakesIs DEF RouteClosed, ObserverBusy, ActorStates, Gone
  <2> QED
    BY <1>2, <1>7, <2>3, <2>4 DEF RouteClosed, ObserverBusy, cell, thread
<1>8. ASSUME NEW o \in Observations, ObserveReadyFrontier(o) PROVE OutputInv'
  <2>1. Event("pending", actor.content_items) \in Answers
    BY <1>0, ValuesTyped
  <2>2. Answering({o}, Event("pending", actor.content_items))
    BY <1>8, <2>1, AnsweredIs DEF ObserveReadyFrontier
  <2>3. Untold
    BY <1>0, <2>2, EventUntold
  <2>4. /\ actor'.content_items = <<>> /\ actor'.runtime_closed = actor.runtime_closed
        /\ actor.pc \in InLoop /\ actor'.pc \in InLoop
    BY <1>8, BackIs, TakesIs DEF ObserveReadyFrontier, ActorStates, InLoop
  <2>5. handed' = handed \o actor.content_items /\ UNCHANGED <<phase, emitted>> /\ SameTransit
    BY <1>1, <1>8 DEF ObserveReadyFrontier, cell, thread
  <2> QED
    BY <2>3, <2>4, <2>5, HandedOutput
<1>9. ASSUME NEW o \in Observations, RouteToCompleted(o) PROVE OutputInv'
  <2>1. PICK e \in Answers : e = phase.event
    <3>1. phase.event \in Answers
      BY DEF TypeInv, Phases
    <3> QED
      BY <3>1, Zenon
  <2>2. Answering({o}, e)
    BY <1>9, <2>1, AnsweredIs DEF RouteToCompleted
  <2>3. /\ phase.is = "Completed" /\ phase' = Phase("Tombstone") /\ UNCHANGED <<handed, emitted>>
    BY <1>9 DEF RouteToCompleted, thread
  <2>4. phase'.is = "Tombstone" /\ ~Kept'
    BY <2>3, ValuesTyped DEF PhaseNames, Kept
  <2>5. Kept /\ actor.runtime_closed /\ actor.pc \notin Gone
    BY <2>3 DEF Kept, OutcomeInv, PlaceOK
  <2>6. actor'.pc \in Gone /\ actor'.runtime_closed
    BY <1>0, <1>9, <2>5 DEF RouteToCompleted, ActorStates, Gone
  <2>7. handed \o e.items = Upto(emitted.items)
    BY <2>1, <2>5, HoldsAll
  <2>8. \A c \in Calls : ask'[c].answer = ask[c].answer \/ ask'[c].answer = e
    BY <2>2 DEF Answering
  <2> QED
    BY <2>3, <2>4, <2>6, <2>7, <2>8, ToldOutput
<1> QED
  BY <1>3, <1>4, <1>5, <1>6, <1>7, <1>8, <1>9 DEF TakeCommand

\* The steps after the script has ended.
LEMMA EndOutput ==
  ASSUME TypeInv, TypeInv', OutcomeInv, ThreadInv, OutputInv,
         \/ NotificationsDrained \/ ToolsDrained \/ CallbacksGone
         \/ CommitCompletion \/ DeliverCompletion \/ DeliverRejected
         \/ FinishTermination \/ Leave \/ Closed
  PROVE  OutputInv'
<1>0. /\ actor \in ActorStates /\ phase \in Phases /\ actor.content_items \in Seq(Nat)
      /\ phase.event \in Answers
  BY DEF TypeInv, ActorStates, Phases
<1>1. UNCHANGED <<handed, emitted, events>> /\ SameTransit
  BY DEF NotificationsDrained, ToolsDrained, CallbacksGone, CommitCompletion, DeliverCompletion,
         DeliverRejected, FinishTermination, Leave, Closed, thread,
         SameTransit, Transit, InTransit, InOrder
<1>2. EndMove
  BY EndTyped
<1>3. ASSUME NotificationsDrained \/ ToolsDrained \/ CallbacksGone \/ DeliverRejected \/ Closed
      PROVE  OutputInv'
  <2>1. actor'.content_items = actor.content_items /\ (actor'.pc \notin Gone => actor.pc \notin Gone)
    BY <1>0, <1>3 DEF NotificationsDrained, ToolsDrained, CallbacksGone, DeliverRejected, Closed,
                      ActorStates, Gone
  <2>2. UNCHANGED phase /\ Untold
    BY <1>3, SameUntold DEF NotificationsDrained, ToolsDrained, CallbacksGone, DeliverRejected, Closed,
                            client, cell
  <2>3. OutputStays
    BY <1>1, <1>2, <2>1, <2>2 DEF OutputStays, Kept, EndMove
  <2> QED
    BY <2>3, StaysOutput
<1>4. ASSUME Leave PROVE OutputInv'
  <2>1. Answering(Queued, Event("closed", <<>>)) /\ <<>> \in Seq(Nat)
    BY <1>4, DropInboxIs DEF Leave
  <2>2. Untold
    BY <2>1, EventUntold
  <2>3. actor.pc = "leave" /\ actor'.pc = "closing" /\ actor'.content_items = actor.content_items
    BY <1>0, <1>4 DEF Leave, ActorStates
  <2>4. phase.is = "Tombstone" /\ phase'.is = "Tombstone" /\ phase'.event = Nothing /\ phase.event = Nothing
    BY <1>4, <2>3, ValuesTyped DEF OutcomeInv, PlaceOK, PhaseOK, Kept, Gone, Leave, PhaseNames
  <2>5. OutputStays
    BY <1>1, <1>2, <2>2, <2>3, <2>4 DEF OutputStays, EndMove, Kept, Gone
  <2> QED
    BY <2>5, StaysOutput
<1>5. ASSUME CommitCompletion PROVE OutputInv'
  <2>1. actor.pc = "commit" /\ actor'.pc = "deliver" /\ UNCHANGED ask /\ Untold
    BY <1>0, <1>5, SameUntold DEF CommitCompletion, ActorStates, client
  <2>2. ~Kept /\ actor.pc \notin Gone /\ actor'.pc \notin Gone
    BY <2>1 DEF OutcomeInv, PlaceOK, Gone
  <2>3. CASE ~MayCommit
    <3>1. UNCHANGED phase /\ actor'.content_items = actor.content_items
      BY <1>0, <1>5, <2>3 DEF CommitCompletion, ActorStates
    <3>2. OutputStays
      BY <1>1, <1>2, <2>1, <2>2, <3>1 DEF OutputStays, Kept, EndMove
    <3> QED
      BY <3>2, StaysOutput
  <2>4. CASE MayCommit
    <3>1. PICK h \in Seq(Nat), c \in Seq(Nat) : h = handed /\ c = actor.content_items
      BY HeldTyped, Zenon
    <3>2. actor'.content_items = <<>>
      BY <1>0, <1>5, <2>4 DEF CommitCompletion, ActorStates
    <3>3. phase' = [phase EXCEPT !.is = "Completed", !.event = Event("completed", c)]
      BY <1>5, <2>4, <3>1 DEF CommitCompletion
    <3>4. phase'.event.items = c
      BY <1>0, <3>3 DEF Phases, Event
    <3>5. (h \o c) \o <<>> = h \o c
      BY JoinIs
    <3>6. Held = h \o c
      BY <2>2, <3>1, HeldIs DEF OutputInv
    <3>7. Held' = Held
      BY <1>1, <3>1, <3>2, <3>4, <3>5, <3>6 DEF Held
    <3>8. HeldOK'
      BY <1>1, <2>2, <3>7 DEF OutputInv, HeldOK, SameTransit
    <3>9. \A d \in Calls : ~HasOutcome(d)'
      BY <2>1, <2>4 DEF HasOutcome, OutputInv, ToldAll, MayCommit
    <3> QED
      BY <3>2, <3>8, <3>9 DEF OutputInv, ToldAll, NoneKept
  <2> QED
    BY <2>3, <2>4
<1>6. ASSUME DeliverCompletion PROVE OutputInv'
  <2>1. PICK e \in Answers : e = phase.event
    BY <1>0, Zenon
  <2>2. Answering({actor.observer}, e)
    BY <1>6, <2>1, AnsweredIs DEF DeliverCompletion
  <2>3. phase.is = "Completed" /\ actor.pc = "deliver"
    BY <1>6 DEF DeliverCompletion
  <2>4. Kept /\ actor.runtime_closed /\ actor.pc \notin Gone
    BY <2>3 DEF Kept, OutcomeInv, PlaceOK, Gone
  <2>5. CASE IsWaiting(actor.observer)
    <3>1. phase'.is = "Tombstone" /\ ~Kept'
      BY <1>6, <2>5, ValuesTyped DEF DeliverCompletion, PhaseNames, Kept
    <3>2. actor'.pc \in Gone /\ actor'.runtime_closed
      BY <1>0, <1>2, <1>6, <2>4, <2>5 DEF DeliverCompletion, ActorStates, Gone, EndMove
    <3>3. handed \o e.items = Upto(emitted.items)
      BY <2>1, <2>4, HoldsAll
    <3>4. \A c \in Calls : ask'[c].answer = ask[c].answer \/ ask'[c].answer = e
      BY <2>2 DEF Answering
    <3> QED
      BY <1>1, <3>1, <3>2, <3>3, <3>4, ToldOutput
  <2>6. CASE ~IsWaiting(actor.observer)
    <3>1. UNCHANGED phase /\ actor'.content_items = actor.content_items
      BY <1>0, <1>6, <2>6 DEF DeliverCompletion, ActorStates
    <3>2. \A c \in Calls : ask'[c] = ask[c]
      BY <2>2, <2>6 DEF Answering
    <3>3. Untold
      BY <3>2 DEF Untold, AnswersOK, OutcomeInv
    <3>4. OutputStays
      BY <1>1, <1>2, <2>4, <3>1, <3>3 DEF OutputStays, Kept, EndMove
    <3> QED
      BY <3>4, StaysOutput
  <2> QED
    BY <2>5, <2>6
<1>7. ASSUME FinishTermination PROVE OutputInv'
  <2>1. actor.pc = "finish" /\ actor.runtime_closed /\ actor.pc \notin Gone
    BY <1>7 DEF FinishTermination, OutcomeInv, PlaceOK, Ending, Gone
  <2>2. TerminalEvent \in Answers /\ handed \o TerminalEvent.items = Upto(emitted.items)
    <3>1. CASE Kept
      <4>1. TerminalEvent = phase.event
        BY <3>1 DEF Kept, TerminalEvent
      <4> QED
        BY <1>0, <2>1, <3>1, <4>1, HoldsAll
    <3>2. CASE ~Kept
      <4>1. TerminalEvent = Event("terminated", actor.content_items) /\ "terminated" \in Kinds
        BY <3>2 DEF Kept, TerminalEvent, Kinds
      <4>2. TerminalEvent \in Answers /\ TerminalEvent.items = actor.content_items
        BY <1>0, <4>1, ValuesTyped DEF Event
      <4> QED
        BY <2>1, <3>2, <4>2, HoldsAll
    <3> QED
      BY <3>1, <3>2
  <2>3. PICK e \in Answers : e = TerminalEvent
    BY <2>2, Zenon
  <2>4. Answering({phase.tx, actor.observer}, e)
    BY <1>7, <2>3, AnsweredIs DEF FinishTermination
  <2>5. \A c \in Calls : ask'[c].answer = ask[c].answer \/ ask'[c].answer = e
    BY <2>4 DEF Answering
  <2>6. phase'.is = "Tombstone" /\ ~Kept'
    BY <1>7, ValuesTyped DEF FinishTermination, PhaseNames, Kept
  <2>7. actor'.pc \in Gone /\ actor'.runtime_closed
    BY <1>0, <1>2, <1>7, <2>1 DEF FinishTermination, ActorStates, Gone, EndMove
  <2> QED
    BY <1>1, <2>2, <2>3, <2>5, <2>6, <2>7, ToldOutput
<1> QED
  BY <1>3, <1>4, <1>5, <1>6, <1>7

\* Every step keeps the invariant of the output.
LEMMA OutputStep ==
  ASSUME TypeInv, OutcomeInv, ThreadInv, OutputInv, [Next]_vars PROVE OutputInv'
<1>0. TypeInv'
  BY TypeStep
<1>1. ASSUME UNCHANGED vars PROVE OutputInv'
  <2>1. OutputStays
    BY <1>1, SameUntold DEF OutputStays, SameTransit, Transit, InTransit, InOrder, Kept,
                            vars, client, cell, thread
  <2> QED
    BY <2>1, StaysOutput
<1> QED
  BY <1>0, <1>1, ClientOutput, ThreadOutput, LoopOutput, EventOutput, EndOutput DEF Next, ActorStep

\* It holds at first.
LEMMA OutputInit == Init => OutputInv
<1> SUFFICES ASSUME Init PROVE OutputInv
  OBVIOUS
<1>1. /\ handed = <<>> /\ phase.event.items = <<>> /\ actor.content_items = <<>>
      /\ events = <<>> /\ emitted.items = 0 /\ ~Kept
      /\ \A c \in Calls : ask[c].answer.kind = "none"
  BY DEF Init, Phase, Nothing, Event, Kept
<1>2. <<>> \in Seq(Nat)
  OBVIOUS
<1>3. PICK z \in Seq(Nat) : z = <<>>
  BY <1>2, Zenon
<1>4. z \o <<>> = z /\ (z \o <<>>) \o z = z \o z
  BY JoinIs
<1>5. Held = <<>>
  BY <1>1, <1>3, <1>4 DEF Held
<1>6. Len(Held) = 0
  BY <1>5
<1>7. Held = Upto(0) /\ (0 + 1)..0 = {}
  BY <1>5 DEF Upto
<1>8. Transit = {} /\ InOrder
  BY <1>1 DEF Transit, InTransit, InOrder
<1>9. HeldOK
  BY <1>1, <1>6, <1>7, <1>8 DEF HeldOK
<1> QED
  BY <1>1, <1>9 DEF OutputInv, ToldAll, NoneKept, HasOutcome, Outcomes

\* For any number of clients, whoever goes away and whenever: what answers
\* have carried and what the cell holds are the first of the script's output,
\* what is on its way is the rest in order, and the answer that ends the cell
\* carries all that was not handed out before.
THEOREM NoOutputLost == Spec => []OutputConserved
<1>1. TypeInv /\ OutcomeInv /\ ThreadInv /\ OutputInv /\ [Next]_vars
      => (TypeInv /\ OutcomeInv /\ ThreadInv /\ OutputInv)'
  BY TypeStep, OutcomeStep, ThreadStep, OutputStep
<1>2. OutputInv => OutputConserved
  BY DEF OutputInv, HeldOK, ToldAll, OutputConserved, Transit, InOrder, HasOutcome, Outcomes, Gone
<1> QED
  BY <1>1, <1>2, TypeInit, OutcomeInit, ThreadInit, OutputInit, PTL DEF Spec

=============================================================================
