---------------------------- MODULE SessionTurns ----------------------------
(***************************************************************************)
(* The turn lifecycle of one Codex session (codex-rs/core).  A session has *)
(* one slot, active_turn, behind a mutex, and a mailbox of inter-agent     *)
(* mail behind another.  The slot is read and written by                   *)
(*                                                                         *)
(*   Loop     the submission loop, which handles one Op after the other;   *)
(*   Routers  realtime conversations, which submit user text off the loop; *)
(*   Guard    a spawned guardian interruption (abort_turn_if_active);      *)
(*   Turns    the spawned task of every turn, which ends in                *)
(*            on_task_finished and may itself start the next turn.         *)
(*                                                                         *)
(* Each of them is a process; one action is the code between two awaits    *)
(* that other processes can observe.  ActiveTurn { task, turn_state } is   *)
(* the record active: ts = None is Option::None, task = None is a slot     *)
(* that is reserved but runs no task.  A turn_state is a member of States  *)
(* because it outlives the slot through the Arcs that processes hold.      *)
(***************************************************************************)
EXTENDS Naturals, Sequences, FiniteSets

CONSTANTS
    Turns,          \* turn ids (sub_id); each names the task it spawns
    States,         \* heap identities of Arc<Mutex<TurnState>>
    UserInputs,     \* user inputs clients submit, each at most once
    Notices,        \* response items injected into a running turn
    TriggerMails,   \* inter-agent mail with trigger_turn
    QueueMails,     \* inter-agent mail without it
    BlockedInputs,  \* the user inputs a UserPromptSubmit hook blocks
    Routers,        \* realtime routers
    Loop, Guard,    \* the submission loop and the guardian interruption
    None,
    Ops,            \* the operations the environment issues
    MaxSamples,     \* bound: follow-up samplings of one turn
    DurableSleep    \* has_outstanding_durable_sleep

Mails == TriggerMails \cup QueueMails
Items == UserInputs \cup Notices \cup Mails
Clients == {Loop} \cup Routers
Procs == Clients \cup {Guard} \cup Turns

AllOps == {"StartOrSteer", "Steer", "StartIfIdle", "Recover", "Compact",
           "Interrupt", "Mail", "Inject", "Guardian", "Suspend", "Shutdown"}

ASSUME ConstantsAssumption ==
    /\ Loop \notin Turns \cup Routers \cup {Guard, None}
    /\ Guard \notin Turns \cup Routers \cup {None}
    /\ Turns \cap Routers = {}
    /\ None \notin Turns \cup Routers \cup States
    /\ Turns \cap States = {}
    /\ UserInputs \cap Notices = {}
    /\ (UserInputs \cup Notices) \cap Mails = {}
    /\ TriggerMails \cap QueueMails = {}
    /\ BlockedInputs \subseteq UserInputs
    /\ Ops \subseteq AllOps
    /\ MaxSamples \in Nat
    /\ DurableSleep \in BOOLEAN

VARIABLES
    active,     \* Session.active_turn
    tstate,     \* TurnState per identity: pending_input.items, delivery phase
    spent,      \* turn ids and turn states handed out so far
    mailbox,    \* InputQueue.mailbox_pending_mails
    history,    \* the items recorded into the conversation
    status,     \* Session.agent_status
    cancelled,  \* turns whose cancellation token is cancelled
    terminal,   \* TurnComplete / TurnAborted events sent, per turn
    pc,         \* where each process is
    loc,        \* the local variables of each process
    fate,       \* ghost: what became of each submitted item
    posted,     \* ghost: the mail in the order it was enqueued
    suspended   \* ghost: the turns suspended for another worker

vars == <<active, tstate, spent, mailbox, history, status, cancelled,
          terminal, pc, loc, fate, posted, suspended>>

-----------------------------------------------------------------------------
(* State formulae.                                                         *)

Kinds == {"Regular", "Compact"}
Phases == {"CurrentTurn", "NextTurn"}
Reasons == {"Interrupted", "Replaced", "Suspended"}
Results == {"ok", "error", "aborted"}

TurnState == [items : Seq(Items), phase : Phases]
FreshTurnState == [items |-> <<>>, phase |-> "CurrentTurn"]

Idle == [ts |-> None, task |-> None, kind |-> "Regular"]
Reserved(s) == [ts |-> s, task |-> None, kind |-> "Regular"]

Locals == [turn : Turns \cup {None},      \* the turn being started
           kind : Kinds,                  \* its TaskKind
           input : Seq(Items),            \* the task's own input
           mail : Seq(Items),             \* items taken out of a queue
           ts : States \cup {None},       \* the captured turn_state
           victim : Turns \cup {None},    \* the task being aborted
           reason : Reasons,              \* TurnAbortReason
           then : {"idle", "dead", "exiting", "leaving"}, \* what follows
           samples : 0..MaxSamples,
           result : Results]

Blank(back) ==
    [turn |-> None, kind |-> "Regular", input |-> <<>>, mail |-> <<>>,
     ts |-> None, victim |-> None, reason |-> "Interrupted", then |-> back,
     samples |-> 0, result |-> "ok"]

Labels == {"unborn", "idle", "exiting", "leaving", "exited", "dead", "off",
           "begin", "prep", "compact", "step", "record", "sample", "post",
           "hooks", "over", "end", "take", "report", "clear",
           "maybe", "reserve", "gather", "hand",
           "drain", "adopt", "extend", "install",
           "abort", "abortif", "kill", "tell", "wipe", "ifidle"}

FreeTurns == Turns \ spent
FreeStates == States \ spent
NewTurn == CHOOSE t \in FreeTurns : TRUE
NewState == CHOOSE s \in FreeStates : TRUE

IsTrigger(i) == i \in TriggerMails
HasTrigger(q) == \E k \in 1..Len(q) : IsTrigger(q[k])
OnlyQueueMail(q) == \A k \in 1..Len(q) : q[k] \in QueueMails

\* turn_state_for_sub_id succeeds: there is a task and it has that id.
IsActive(t) == active.task # None /\ active.task = t

Accepts == IF active.ts = None THEN TRUE
           ELSE tstate[active.ts].phase = "CurrentTurn"
ActiveItems == IF active.ts = None THEN <<>> ELSE tstate[active.ts].items

HasPendingInput == Accepts /\ (ActiveItems # <<>> \/ mailbox # <<>>)

\* has_pending_mailbox_items and one of the two wake-up conditions.
HasPendingWork == mailbox # <<>> /\ (HasTrigger(mailbox) \/ DurableSleep)

\* run_hooks_and_record_inputs: a blocked user input is not recorded, and the
\* caller stops when something was blocked and no user input was accepted.
\* What is recorded are the others in their order: the j-th of them is the one
\* with j of them up to its place.
Recordable(q) ==
    LET kept == {k \in 1..Len(q) : q[k] \notin BlockedInputs}
        Rank(k) == Cardinality({m \in kept : m <= k})
    IN  [j \in 1..Cardinality(kept) |-> q[CHOOSE k \in kept : Rank(k) = j]]
Contents(q) == {q[k] : k \in 1..Len(q)}
StopsTurn(q) == /\ Contents(q) \cap BlockedInputs # {}
                /\ Contents(q) \cap UserInputs \subseteq BlockedInputs

Drop(S) == [i \in Items |-> IF i \in S THEN "dropped" ELSE fate[i]]

Init ==
    /\ active = Idle
    /\ tstate = [s \in States |-> FreshTurnState]
    /\ spent = {}
    /\ mailbox = <<>>
    /\ history = <<>>
    /\ status = "PendingInit"
    /\ cancelled = {}
    /\ terminal = [t \in Turns |-> <<>>]
    /\ pc = [p \in Procs |-> IF p \in Clients THEN "idle"
                             ELSE IF p = Guard THEN "off" ELSE "unborn"]
    /\ loc = [p \in Procs |->
                Blank(IF p \in Clients THEN "idle" ELSE "dead")]
    /\ fate = [i \in Items |-> "unsent"]
    /\ posted = <<>>
    /\ suspended = {}

Goto(p, l) == pc' = [pc EXCEPT ![p] = l]

\* The outermost call of p is over: the client takes its next operation, the
\* spawned task is done, the loop is about to exit.
Return(p) == /\ pc' = [pc EXCEPT ![p] = loc[p].then]
             /\ loc' = [loc EXCEPT ![p] = Blank(loc[p].then)]

Extended(s, q) == [tstate EXCEPT ![s].items = @ \o q]

\* extend_pending_input_and_accept_mailbox_delivery_for_turn_state
ExtendedAndOpen(s, q) ==
    [tstate EXCEPT ![s] = [items |-> @.items \o q, phase |-> "CurrentTurn"]]

\* accept_mailbox_delivery_for_current_turn: nothing unless t is active.
Opened(t) == IF IsActive(t)
             THEN [tstate EXCEPT ![active.ts].phase = "CurrentTurn"]
             ELSE tstate

\* Mutant: the pending input is not looked at.
DeferredAlways(t) == IF IsActive(t)
                     THEN [tstate EXCEPT ![active.ts].phase = "NextTurn"]
                     ELSE tstate

\* defer_mailbox_delivery_to_next_turn: pending input other than queue-only
\* mail keeps the turn open.
Deferred(t) == IF IsActive(t) /\ OnlyQueueMail(tstate[active.ts].items)
               THEN [tstate EXCEPT ![active.ts].phase = "NextTurn"]
               ELSE tstate

-----------------------------------------------------------------------------
(* start_task, in the four critical sections it consists of.  The mailbox  *)
(* is drained before the slot is locked, and the slot is locked twice.     *)

StartTaskDrain(p) ==
    /\ pc[p] = "drain"
    /\ loc' = [loc EXCEPT ![p].mail = mailbox]
    /\ mailbox' = <<>>
    /\ Goto(p, "adopt")
    /\ UNCHANGED <<active, tstate, spent, history, status, cancelled, terminal,
                   fate, posted, suspended>>

\* active.get_or_insert_with(ActiveTurn::default)
SlotState == IF active.ts = None THEN NewState ELSE active.ts
CanFillSlot == active.ts # None \/ FreeStates # {}

StartTaskAdopt(p) ==
    /\ pc[p] = "adopt"
    /\ CanFillSlot
    /\ loc' = [loc EXCEPT ![p].ts = SlotState]
    /\ active' = [active EXCEPT !.ts = SlotState]
    /\ spent' = spent \cup {SlotState}
    /\ Goto(p, "extend")
    /\ UNCHANGED <<tstate, mailbox, history, status, cancelled, terminal, fate,
                   posted, suspended>>

StartTaskExtend(p) ==
    /\ pc[p] = "extend"
    /\ tstate' = Extended(loc[p].ts, loc[p].mail)
    /\ loc' = [loc EXCEPT ![p].mail = <<>>]
    /\ Goto(p, "install")
    /\ UNCHANGED <<active, spent, mailbox, history, status, cancelled,
                   terminal,
                   fate, posted, suspended>>

\* What a task that is aborted at an await takes with it.
InHand(q) == Contents(loc[q].input) \cup Contents(loc[q].mail)

\* turn.task = Some(running_task).  A task still in the slot is dropped, and
\* its AbortOnDropHandle aborts it.
StartTaskInstall(p) ==
    LET t == loc[p].turn
        old == active.task
    IN  /\ pc[p] = "install"
        /\ CanFillSlot
        /\ active' = [ts |-> SlotState, task |-> t, kind |-> loc[p].kind]
        /\ spent' = spent \cup {SlotState}
        /\ pc' = [q \in Procs |-> IF q = t THEN "begin"
                                  ELSE IF q = old THEN "dead"
                                  ELSE IF q = p THEN loc[p].then ELSE pc[q]]
        /\ loc' = [q \in Procs |->
                     IF q = t THEN [Blank("dead") EXCEPT !.kind = loc[p].kind,
                                                         !.input = loc[p].input]
                     ELSE IF q = old THEN Blank("dead")
                     ELSE IF q = p THEN Blank(loc[p].then) ELSE loc[q]]
        /\ fate' = IF old \in Turns \ {p} THEN Drop(InHand(old)) ELSE fate
        /\ UNCHANGED <<tstate, mailbox, history, status, cancelled, terminal,
                       posted, suspended>>

StartTask(p) == \/ StartTaskDrain(p)
                \/ StartTaskAdopt(p)
                \/ StartTaskExtend(p)
                \/ StartTaskInstall(p)

-----------------------------------------------------------------------------
(* get_pending_input locks the slot with its turn state, then the mailbox; *)
(* it takes the items of whichever turn is active.  Nothing it read under  *)
(* the first lock changes before it holds the second one, so the two are   *)
(* one step.                                                               *)

\* Mutant: the items are copied out instead of split off.
TakePendingCopy(p, next) ==
    /\ loc' = [loc EXCEPT ![p].mail = ActiveItems \o mailbox]
    /\ mailbox' = <<>>
    /\ Goto(p, next)
    /\ UNCHANGED <<active, tstate, spent, history, status, cancelled, terminal,
                   fate, posted, suspended>>

\* Mutant: the mailbox is put in front of the pending items.
TakePendingMailFirst(p, next) ==
    /\ loc' = [loc EXCEPT ![p].mail = mailbox \o ActiveItems]
    /\ mailbox' = <<>>
    /\ tstate' = IF active.ts = None THEN tstate
                 ELSE [tstate EXCEPT ![active.ts].items = <<>>]
    /\ Goto(p, next)
    /\ UNCHANGED <<active, spent, history, status, cancelled, terminal, fate,
                   posted, suspended>>

TakePending(p, next) ==
    /\ IF Accepts
       THEN /\ loc' = [loc EXCEPT ![p].mail = ActiveItems \o mailbox]
            /\ mailbox' = <<>>
            /\ tstate' = IF active.ts = None THEN tstate
                         ELSE [tstate EXCEPT ![active.ts].items = <<>>]
       ELSE UNCHANGED <<tstate, mailbox, loc>>
    /\ Goto(p, next)
    /\ UNCHANGED <<active, spent, history, status, cancelled, terminal, fate,
                   posted, suspended>>

-----------------------------------------------------------------------------
(* maybe_start_turn_for_pending_work                                       *)

CheckPendingWork(p) ==
    /\ pc[p] = "maybe"
    /\ IF HasPendingWork THEN Goto(p, "reserve") /\ UNCHANGED loc
                         ELSE Return(p)
    /\ UNCHANGED <<active, tstate, spent, mailbox, history, status, cancelled,
                   terminal, fate, posted, suspended>>

ReserveForWork(p) ==
    /\ pc[p] = "reserve"
    /\ active.ts = None
    /\ FreeTurns # {} /\ FreeStates # {}
    /\ active' = Reserved(NewState)
    /\ spent' = spent \cup {NewState, NewTurn}
    /\ loc' = [loc EXCEPT ![p] = [Blank(@.then) EXCEPT !.ts = NewState,
                                                      !.turn = NewTurn]]
    /\ Goto(p, "gather")
    /\ UNCHANGED <<tstate, mailbox, history, status, cancelled, terminal, fate,
                   posted, suspended>>

ReserveRefused(p) ==
    /\ pc[p] = "reserve"
    /\ active.ts # None
    /\ Return(p)
    /\ UNCHANGED <<active, tstate, spent, mailbox, history, status, cancelled,
                   terminal, fate, posted, suspended>>

GatherPending(p) == pc[p] = "gather" /\ TakePending(p, "hand")

\* The gathered input goes to the turn state captured at the reservation.
HandOver(p) ==
    /\ pc[p] = "hand"
    /\ tstate' = Extended(loc[p].ts, loc[p].mail)
    /\ loc' = [loc EXCEPT ![p].mail = <<>>]
    /\ Goto(p, "drain")
    /\ UNCHANGED <<active, spent, mailbox, history, status, cancelled,
                   terminal,
                   fate, posted, suspended>>

MaybeStartTurn(p) == \/ CheckPendingWork(p)
                     \/ ReserveForWork(p) \/ ReserveRefused(p)
                     \/ GatherPending(p) \/ HandOver(p)

-----------------------------------------------------------------------------
(* abort_all_tasks, abort_turn_if_active and handle_task_abort             *)

\* Mutant: the cancellation token is left alone.
TakeTaskQuietly(p, reason) ==
    /\ loc' = [loc EXCEPT ![p].victim = active.task, ![p].ts = active.ts]
    /\ active' = Idle
    /\ status' = IF reason = "Interrupted" THEN "Interrupted" ELSE status
    /\ Goto(p, "kill")
    /\ UNCHANGED <<tstate, spent, mailbox, history, cancelled, terminal, fate,
                   posted, suspended>>

\* The task leaves the slot and its token is cancelled; mark_interrupted.
TakeTask(p, reason) ==
    /\ loc' = [loc EXCEPT ![p].victim = active.task, ![p].ts = active.ts]
    /\ cancelled' = cancelled \cup {active.task}
    /\ active' = Idle
    /\ status' = IF reason = "Interrupted" THEN "Interrupted" ELSE status
    /\ Goto(p, "kill")
    /\ UNCHANGED <<tstate, spent, mailbox, history, terminal, fate, posted,
                   suspended>>

\* Mutant: the slot is not checked for a task.
AbortAllTasksUnchecked(p) ==
    pc[p] = "abort" /\ TakeTask(p, loc[p].reason)

AbortAllTasks(p) ==
    /\ pc[p] = "abort"
    /\ active.task # None
    /\ TakeTask(p, loc[p].reason)

\* take_active_turn also takes a slot that is only reserved.
AbortNothing(p) ==
    /\ pc[p] = "abort"
    /\ active.task = None
    /\ active' = Idle
    /\ IF loc[p].reason = "Replaced" THEN Goto(p, "drain") /\ UNCHANGED loc
                                     ELSE Return(p)
    /\ UNCHANGED <<tstate, spent, mailbox, history, status, cancelled,
                   terminal,
                   fate, posted, suspended>>

AbortTurnIfActive(p) ==
    /\ pc[p] = "abortif"
    /\ IF IsActive(loc[p].victim)
       THEN TakeTask(p, "Interrupted")
       ELSE /\ Return(p)
            /\ UNCHANGED <<active, tstate, spent, mailbox, history, status,
                           cancelled, terminal, fate, posted, suspended>>

\* The task is done or the grace period is over: handle.abort().
KillTask(p) ==
    LET v == loc[p].victim
    IN  /\ pc[p] = "kill"
        /\ pc' = [pc EXCEPT ![v] = "dead",
                            ![p] = IF loc[p].reason = "Suspended"
                                   THEN "wipe" ELSE "tell"]
        /\ loc' = [loc EXCEPT ![v] = Blank("dead")]
        /\ fate' = Drop(InHand(v))
        /\ UNCHANGED <<active, tstate, spent, mailbox, history, status,
                       cancelled, terminal, posted, suspended>>

ReportAborted(p) ==
    /\ pc[p] = "tell"
    /\ terminal' = [terminal EXCEPT ![loc[p].victim] = Append(@, "aborted")]
    /\ status' = IF loc[p].reason = "Interrupted" THEN "Interrupted"
                                                  ELSE "Errored"
    /\ Goto(p, "wipe")
    /\ UNCHANGED <<active, tstate, spent, mailbox, history, cancelled, loc,
                   fate, posted, suspended>>

\* clear_pending on the turn that was taken, then the reason decides.
AfterAbort(reason) == CASE reason = "Interrupted" -> "maybe"
                        [] reason = "Replaced" -> "drain"
                        [] reason = "Suspended" -> "abort"

WipePending(p) ==
    LET s == loc[p].ts
    IN  /\ pc[p] = "wipe"
        /\ tstate' = [tstate EXCEPT ![s].items = <<>>]
        /\ fate' = Drop(Contents(tstate[s].items))
        /\ Goto(p, AfterAbort(loc[p].reason))
        /\ loc' = [loc EXCEPT ![p].victim = None, ![p].ts = None,
                              ![p].reason = IF @ = "Suspended"
                                            THEN "Interrupted" ELSE @]
        /\ UNCHANGED <<active, spent, mailbox, history, status, cancelled,
                       terminal, posted, suspended>>

AbortTask(p) == \/ AbortAllTasks(p) \/ AbortNothing(p) \/ AbortTurnIfActive(p)
                \/ KillTask(p) \/ ReportAborted(p) \/ WipePending(p)

-----------------------------------------------------------------------------
(* The operations of the submission loop and of the realtime routers.      *)

Ready(p, op) == pc[p] = "idle" /\ op \in Ops

Sent(i) == [fate EXCEPT ![i] = "accepted"]
Rejected(i) == [fate EXCEPT ![i] = "rejected"]

\* steer_input holds the slot's lock throughout.
SteerInput(u) ==
    /\ active.task # None
    /\ active.kind = "Regular"
    /\ tstate' = ExtendedAndOpen(active.ts, <<u>>)
    /\ fate' = Sent(u)
    /\ UNCHANGED <<active, spent, mailbox, history, status, cancelled,
                   terminal,
                   pc, loc, posted, suspended>>

SteerRefused(u) ==
    /\ fate' = Rejected(u)
    /\ UNCHANGED <<active, tstate, spent, mailbox, history, status, cancelled,
                   terminal, pc, loc, posted, suspended>>

\* spawn_task: a fresh turn context, then abort_all_tasks(Replaced).
SpawnTask(p, kind, input) ==
    /\ FreeTurns # {}
    /\ spent' = spent \cup {NewTurn}
    /\ loc' = [loc EXCEPT ![p] = [@ EXCEPT !.turn = NewTurn, !.kind = kind,
                                          !.input = input,
                                          !.reason = "Replaced"]]
    /\ Goto(p, "abort")
    /\ UNCHANGED <<active, tstate, mailbox, history, status, cancelled,
                   terminal, posted, suspended>>

\* NoActiveTurn is also the answer for a slot that is only reserved.
StartOrSteer(p, u) ==
    /\ Ready(p, "StartOrSteer") /\ fate[u] = "unsent"
    /\ \/ SteerInput(u)
       \/ active.task = None /\ SpawnTask(p, "Regular", <<u>>) /\ fate' = Sent(u)
       \/ active.task # None /\ active.kind # "Regular" /\ SteerRefused(u)

Steer(p, u) ==
    /\ Ready(p, "Steer") /\ fate[u] = "unsent"
    /\ \E expected \in Turns \cap spent :
          IF IsActive(expected) /\ active.kind = "Regular"
          THEN SteerInput(u) ELSE SteerRefused(u)

CompactOp(p) ==
    /\ Ready(p, "Compact")
    /\ SpawnTask(p, "Compact", <<>>)
    /\ UNCHANGED fate

Interrupt(p) ==
    /\ Ready(p, "Interrupt")
    /\ loc' = [loc EXCEPT ![p].reason = "Interrupted"]
    /\ Goto(p, "abort")
    /\ UNCHANGED <<active, tstate, spent, mailbox, history, status, cancelled,
                   terminal, fate, posted, suspended>>

\* inter_agent_communication: enqueue, then wake the session if it should.
Communicate(p, m) ==
    /\ Ready(p, "Mail") /\ fate[m] = "unsent"
    /\ mailbox' = Append(mailbox, m)
    /\ posted' = Append(posted, m)
    /\ fate' = Sent(m)
    /\ Goto(p, IF IsTrigger(m) \/ DurableSleep THEN "maybe" ELSE "idle")
    /\ UNCHANGED <<active, tstate, spent, history, status, cancelled, terminal,
                   loc, suspended>>

\* start_if_idle up to the reservation: pending trigger mail and an occupied
\* slot refuse it.  input is the task's input, extra what an automatic start
\* leaves in the turn's pending input.
StartIfIdle(p, op, input, extra) ==
    /\ Ready(p, op)
    /\ \A i \in Contents(input \o extra) : fate[i] = "unsent"
    /\ IF HasTrigger(mailbox) \/ active.ts # None
       THEN /\ fate' = [i \in Items |-> IF i \in Contents(input \o extra)
                                       THEN "rejected" ELSE fate[i]]
            /\ UNCHANGED <<active, spent, pc, loc>>
       ELSE /\ FreeTurns # {} /\ FreeStates # {}
            /\ active' = Reserved(NewState)
            /\ spent' = spent \cup {NewState, NewTurn}
            /\ loc' = [loc EXCEPT ![p] = [@ EXCEPT !.ts = NewState,
                          !.turn = NewTurn, !.kind = "Regular",
                          !.input = input, !.mail = extra]]
            /\ fate' = [i \in Items |-> IF i \in Contents(input \o extra)
                                       THEN "accepted" ELSE fate[i]]
            /\ Goto(p, "ifidle")
    /\ UNCHANGED <<tstate, mailbox, history, status, cancelled, terminal,
                   posted, suspended>>

\* clear_reserved_idle_turn
ClearReserved(p) ==
    active' = IF active.task = None /\ active.ts = loc[p].ts THEN Idle ELSE active

GiveUpIdleStart(p, next) ==
    /\ ClearReserved(p)
    /\ fate' = [i \in Items |-> IF i \in InHand(p) THEN "rejected" ELSE fate[i]]
    /\ loc' = [loc EXCEPT ![p] = Blank(@.then)]
    /\ Goto(p, next)
    /\ UNCHANGED <<tstate, spent, mailbox, history, status, cancelled,
                   terminal,
                   posted, suspended>>

\* The second look at the mailbox, then the settings: invalid ones, and plan
\* mode for an automatic start, give the reservation back.
SettleIdleStart(p) ==
    /\ pc[p] = "ifidle"
    /\ IF HasTrigger(mailbox)
       THEN GiveUpIdleStart(p, "maybe")
       ELSE \/ GiveUpIdleStart(p, loc[p].then)
            \/ /\ tstate' = Extended(loc[p].ts, loc[p].mail)
               /\ loc' = [loc EXCEPT ![p].mail = <<>>]
               /\ Goto(p, "drain")
               /\ UNCHANGED <<active, spent, mailbox, history, status,
                              cancelled, terminal, fate, posted, suspended>>

\* shutdown_session_runtime reaches abort_all_tasks(Interrupted), and the
\* loop exits when that returns.
Shutdown(p) ==
    /\ Ready(p, "Shutdown")
    /\ loc' = [loc EXCEPT ![p].reason = "Interrupted", ![p].then = "exiting"]
    /\ Goto(p, "abort")
    /\ UNCHANGED <<active, tstate, spent, mailbox, history, status, cancelled,
                   terminal, fate, posted, suspended>>

\* suspend_turn_and_shutdown: the turn is cancelled without a terminal event,
\* and shutdown_session_runtime follows.
Suspend(p) ==
    /\ Ready(p, "Suspend")
    /\ active.task # None /\ active.kind = "Regular"
    /\ loc' = [loc EXCEPT ![p] = [@ EXCEPT !.victim = active.task,
                     !.ts = active.ts, !.reason = "Suspended",
                     !.then = "leaving"]]
    /\ cancelled' = cancelled \cup {active.task}
    /\ suspended' = suspended \cup {active.task}
    /\ active' = Idle
    /\ Goto(p, "kill")
    /\ UNCHANGED <<tstate, spent, mailbox, history, status, terminal, fate,
                   posted>>

\* ShutdownComplete
ExitLoop(p) ==
    /\ pc[p] = "exiting"
    /\ status' = "Shutdown"
    /\ Goto(p, "exited")
    /\ UNCHANGED <<active, tstate, spent, mailbox, history, cancelled,
                   terminal,
                   loc, fate, posted, suspended>>

\* The history is flushed and its writer closed before ShutdownComplete; if
\* one of them fails, the loop goes on, and nothing is reported of the turn.
FinishSuspend(p) ==
    /\ pc[p] = "leaving"
    /\ \/ status' = "Shutdown" /\ Goto(p, "exited") /\ UNCHANGED loc
       \/ /\ Goto(p, "idle") /\ loc' = [loc EXCEPT ![p] = Blank("idle")]
          /\ UNCHANGED status
    /\ UNCHANGED <<active, tstate, spent, mailbox, history, cancelled,
                   terminal,
                   fate, posted, suspended>>

LoopOp(p) ==
    \/ \E u \in UserInputs : \/ Steer(p, u)
                            \/ StartIfIdle(p, "StartIfIdle", <<u>>, <<>>)
    \/ \E x \in Notices : StartIfIdle(p, "StartIfIdle", <<>>, <<x>>)
    \/ StartIfIdle(p, "Recover", <<>>, <<>>)
    \/ SettleIdleStart(p)
    \/ CompactOp(p) \/ Interrupt(p)
    \/ \E m \in Mails : Communicate(p, m)
    \/ Shutdown(p) \/ ExitLoop(p) \/ Suspend(p) \/ FinishSuspend(p)

\* A realtime conversation is shut down before the loop exits.
ClientOp(p) ==
    /\ loc[Loop].then = "idle"
    /\ \E u \in UserInputs : StartOrSteer(p, u)

\* An idle session has the item handed back (inject_if_running) or recorded
\* (inject_no_new_turn); hook context also wants a task in the slot.
Inject(x) ==
    /\ "Inject" \in Ops /\ fate[x] = "unsent"
    /\ \/ /\ active.ts # None
          /\ tstate' = ExtendedAndOpen(active.ts, <<x>>)
          /\ fate' = Sent(x)
          /\ UNCHANGED history
       \/ /\ active.ts = None
          /\ history' = Append(history, x)
          /\ fate' = Sent(x)
          /\ UNCHANGED tstate
       \/ /\ active.task = None
          /\ fate' = Rejected(x)
          /\ UNCHANGED <<tstate, history>>
    /\ UNCHANGED <<active, spent, mailbox, status, cancelled, terminal, pc,
                   loc,
                   posted, suspended>>

-----------------------------------------------------------------------------
(* The spawned task of turn t: RegularTask::run around run_turn, or the    *)
(* compaction task.                                                        *)

Begin(t) ==
    /\ pc[t] = "begin"
    /\ status' = "Running"
    /\ Goto(t, IF loc[t].kind = "Regular" THEN "prep" ELSE "compact")
    /\ UNCHANGED <<active, tstate, spent, mailbox, history, cancelled,
                   terminal,
                   loc, fate, posted, suspended>>

RunCompact(t, result) ==
    /\ pc[t] = "compact"
    /\ loc' = [loc EXCEPT ![t].result = result]
    /\ status' = IF result = "error" THEN "Errored" ELSE status
    /\ Goto(t, "end")
    /\ UNCHANGED <<active, tstate, spent, mailbox, history, cancelled,
                   terminal,
                   fate, posted, suspended>>

\* Pre-turn compaction and context capture succeed and the input is recorded;
\* fresh input is sampled before anything pending is drained.
RecordInput(t) ==
    LET in == loc[t].input
    IN  /\ pc[t] = "prep"
        /\ history' = history \o Recordable(in)
        /\ fate' = Drop(Contents(in) \cap BlockedInputs)
        /\ loc' = [loc EXCEPT ![t].input = <<>>]
        /\ Goto(t, IF StopsTurn(in) THEN "over"
                   ELSE IF in = <<>> THEN "step" ELSE "sample")
        /\ UNCHANGED <<active, tstate, spent, mailbox, status, cancelled,
                       terminal, posted, suspended>>

\* An error there ends run_turn without recording the input; cancellation
\* records it first.
FailPrepare(t) ==
    /\ pc[t] = "prep"
    /\ loc' = [loc EXCEPT ![t].input = <<>>, ![t].result = "error"]
    /\ fate' = Drop(Contents(loc[t].input))
    /\ status' = "Errored"
    /\ Goto(t, "end")
    /\ UNCHANGED <<active, tstate, spent, mailbox, history, cancelled,
                   terminal,
                   posted, suspended>>

CancelPrepare(t) ==
    /\ pc[t] = "prep"
    /\ t \in cancelled
    /\ history' = history \o Recordable(loc[t].input)
    /\ fate' = Drop(Contents(loc[t].input) \cap BlockedInputs)
    /\ loc' = [loc EXCEPT ![t].input = <<>>, ![t].result = "aborted"]
    /\ Goto(t, "end")
    /\ UNCHANGED <<active, tstate, spent, mailbox, status, cancelled, terminal,
                   posted, suspended>>

\* A SessionStart hook, pending since the session began or since a roll-over,
\* stops run_turn; input not recorded yet is dropped.
SessionStartStops(t) ==
    /\ pc[t] = "prep" \/ (pc[t] = "post" /\ HasPendingInput)
    /\ loc[t].samples < MaxSamples
    /\ fate' = Drop(Contents(loc[t].input))
    /\ loc' = [loc EXCEPT ![t].input = <<>>, ![t].samples = @ + 1]
    /\ Goto(t, "over")
    /\ UNCHANGED <<active, tstate, spent, mailbox, history, status, cancelled,
                   terminal, posted, suspended>>

\* The head of run_turn's loop.
DrainPending(t) == pc[t] = "step" /\ TakePending(t, "record")

RecordPending(t) ==
    LET in == loc[t].mail
    IN  /\ pc[t] = "record"
        /\ history' = history \o Recordable(in)
        /\ fate' = Drop(Contents(in) \cap BlockedInputs)
        /\ loc' = [loc EXCEPT ![t].mail = <<>>]
        /\ Goto(t, IF StopsTurn(in) THEN "over" ELSE "sample")
        /\ UNCHANGED <<active, tstate, spent, mailbox, status, cancelled,
                       terminal, posted, suspended>>

\* The model answers with a message, which closes the turn to mail when it is
\* user visible.
SampleAnswer(t) ==
    /\ pc[t] = "sample"
    /\ tstate' \in {tstate, Deferred(t)}
    /\ Goto(t, "post")
    /\ UNCHANGED <<active, spent, mailbox, history, status, cancelled,
                   terminal,
                   loc, fate, posted, suspended>>

\* It calls tools, which reopens the turn and needs a follow-up.  After a
\* roll-over to a new context window the model's own continuation comes
\* before any steer, or a SessionStart hook stops the turn.
SampleToolCall(t) ==
    /\ pc[t] = "sample"
    /\ loc[t].samples < MaxSamples
    /\ tstate' = Opened(t)
    /\ loc' = [loc EXCEPT ![t].samples = @ + 1]
    /\ \E next \in {"step", "sample", "over"} : Goto(t, next)
    /\ UNCHANGED <<active, spent, mailbox, history, status, cancelled,
                   terminal,
                   fate, posted, suspended>>

\* An error is reported and ends the turn; TurnAborted is returned to the
\* spawn site (cancellation, or a user who answers an approval with Abort).
SampleFails(t, result) ==
    /\ pc[t] = "sample"
    /\ loc' = [loc EXCEPT ![t].result = result]
    /\ status' = IF result = "error" THEN "Errored" ELSE status
    /\ Goto(t, "end")
    /\ UNCHANGED <<active, tstate, spent, mailbox, history, cancelled,
                   terminal,
                   fate, posted, suspended>>

\* Input came in while the model answered: sample again, unless the roll-over
\* to a new context window that this needs fails.
FollowUp(t) ==
    /\ pc[t] = "post"
    /\ HasPendingInput
    /\ Goto(t, "step")
    /\ UNCHANGED <<active, tstate, spent, mailbox, history, status, cancelled,
                   terminal, loc, fate, posted, suspended>>

RollOverFails(t, result) ==
    /\ pc[t] = "post"
    /\ HasPendingInput
    /\ loc' = [loc EXCEPT ![t].result = result]
    /\ status' = IF result = "error" THEN "Errored" ELSE status
    /\ Goto(t, "end")
    /\ UNCHANGED <<active, tstate, spent, mailbox, history, cancelled,
                   terminal,
                   fate, posted, suspended>>

NoFollowUp(t) ==
    /\ pc[t] = "post"
    /\ ~HasPendingInput
    /\ Goto(t, "hooks")
    /\ UNCHANGED <<active, tstate, spent, mailbox, history, status, cancelled,
                   terminal, loc, fate, posted, suspended>>

\* A Stop hook that blocks reopens the turn and samples again.
StopHookBlocks(t) ==
    /\ pc[t] = "hooks"
    /\ loc[t].samples < MaxSamples
    /\ tstate' = Opened(t)
    /\ loc' = [loc EXCEPT ![t].samples = @ + 1]
    /\ Goto(t, "step")
    /\ UNCHANGED <<active, spent, mailbox, history, status, cancelled,
                   terminal,
                   fate, posted, suspended>>

\* run_turn is over; RegularTask::run runs another one for input that came in
\* meanwhile.
RunAgain(t) ==
    /\ pc[t] \in {"hooks", "over"}
    /\ Goto(t, IF HasPendingInput THEN "prep" ELSE "end")
    /\ UNCHANGED <<active, tstate, spent, mailbox, history, status, cancelled,
                   terminal, loc, fate, posted, suspended>>

RunTask(t) ==
    \/ Begin(t)
    \/ \E r \in Results : RunCompact(t, r)
    \/ RecordInput(t) \/ FailPrepare(t) \/ CancelPrepare(t)
    \/ SessionStartStops(t)
    \/ DrainPending(t) \/ RecordPending(t)
    \/ SampleAnswer(t) \/ SampleToolCall(t)
    \/ \E r \in {"error", "aborted"} : SampleFails(t, r) \/ RollOverFails(t, r)
    \/ FollowUp(t) \/ NoFollowUp(t)
    \/ StopHookBlocks(t) \/ RunAgain(t)

-----------------------------------------------------------------------------
(* The end of the spawned future and on_task_finished.                     *)

\* if !task_cancellation_token.is_cancelled() { on_task_finished }
CheckCancelled(t) ==
    /\ pc[t] = "end"
    /\ IF t \in cancelled THEN Return(t) ELSE Goto(t, "take") /\ UNCHANGED loc
    /\ UNCHANGED <<active, tstate, spent, mailbox, history, status, cancelled,
                   terminal, fate, posted, suspended>>

\* Mutant: TurnAborted is taken to have been reported by somebody else.
FinishTakeUnlessAborted(t) ==
    /\ pc[t] = "take"
    /\ IF active.task = None \/ loc[t].result = "aborted"
       THEN Return(t) /\ UNCHANGED active
       ELSE /\ active' = [active EXCEPT !.task = None]
            /\ loc' = [loc EXCEPT ![t].ts = active.ts]
            /\ Goto(t, "report")
    /\ UNCHANGED <<tstate, spent, mailbox, history, status, cancelled,
                   terminal,
                   fate, posted, suspended>>

\* Mutant: the end is reported even if the task was taken out of the slot.
FinishTakeAnyway(t) ==
    /\ pc[t] = "take"
    /\ IF active.task = None
       THEN /\ terminal' = [terminal EXCEPT ![t] = Append(@, "complete")]
            /\ Return(t) /\ UNCHANGED active
       ELSE /\ active' = [active EXCEPT !.task = None]
            /\ loc' = [loc EXCEPT ![t].ts = active.ts]
            /\ Goto(t, "report") /\ UNCHANGED terminal
    /\ UNCHANGED <<tstate, spent, mailbox, history, status, cancelled, fate,
                   posted, suspended>>

\* Mutant: the slot is given up with the task, before the end is reported.
FinishTakeFrees(t) ==
    /\ pc[t] = "take"
    /\ IF active.task = None
       THEN Return(t) /\ UNCHANGED active
       ELSE /\ active' = Idle
            /\ loc' = [loc EXCEPT ![t].ts = active.ts]
            /\ Goto(t, "report")
    /\ UNCHANGED <<tstate, spent, mailbox, history, status, cancelled,
                   terminal,
                   fate, posted, suspended>>

\* active_turn.task.take(): whatever task is in the slot.
FinishTake(t) ==
    /\ pc[t] = "take"
    /\ IF active.task = None
       THEN Return(t) /\ UNCHANGED active
       ELSE /\ active' = [active EXCEPT !.task = None]
            /\ loc' = [loc EXCEPT ![t].ts = active.ts]
            /\ Goto(t, "report")
    /\ UNCHANGED <<tstate, spent, mailbox, history, status, cancelled,
                   terminal,
                   fate, posted, suspended>>

\* Mutant: input still pending is left where it is.
FinishReportUnsaved(t) ==
    /\ pc[t] = "report"
    /\ terminal' = [terminal EXCEPT ![t] = Append(@, "complete")]
    /\ status' = "Completed"
    /\ Goto(t, "clear")
    /\ UNCHANGED <<active, tstate, spent, mailbox, history, cancelled, loc,
                   fate,
                   posted, suspended>>

\* Input still pending is recorded, then the terminal event is sent.
FinishReport(t) ==
    LET in == tstate[loc[t].ts].items
        aborted == loc[t].result = "aborted"
    IN  /\ pc[t] = "report"
        /\ tstate' = [tstate EXCEPT ![loc[t].ts].items = <<>>]
        /\ history' = history \o Recordable(in)
        /\ fate' = Drop(Contents(in) \cap BlockedInputs)
        /\ terminal' = [terminal EXCEPT ![t] =
                           Append(@, IF aborted THEN "aborted" ELSE "complete")]
        /\ status' = IF aborted THEN "Interrupted"
                     ELSE IF loc[t].result = "error" THEN "Errored"
                     ELSE "Completed"
        /\ Goto(t, "clear")
        /\ UNCHANGED <<active, spent, mailbox, cancelled, loc, posted,
                       suspended>>

\* Mutant: the reservation of the finished turn stays.
FinishClearForgotten(t) ==
    /\ pc[t] = "clear"
    /\ Return(t)
    /\ UNCHANGED <<active, tstate, spent, mailbox, history, status, cancelled,
                   terminal, fate, posted, suspended>>

\* Mutant: pending work is not looked for after the slot is cleared.
FinishClearNoWake(t) ==
    /\ pc[t] = "clear"
    /\ active' = IF active.task = None /\ active.ts = loc[t].ts THEN Idle ELSE active
    /\ Return(t)
    /\ UNCHANGED <<tstate, spent, mailbox, history, status, cancelled,
                   terminal,
                   fate, posted, suspended>>

\* Mutant: the slot is cleared whosever turn it holds.
FinishClearAnyTurn(t) ==
    /\ pc[t] = "clear"
    /\ active' = Idle
    /\ Goto(t, "maybe")
    /\ UNCHANGED <<tstate, spent, mailbox, history, status, cancelled,
                   terminal,
                   loc, fate, posted, suspended>>

\* Only the turn that clears the slot looks for pending work.
FinishClear(t) ==
    /\ pc[t] = "clear"
    /\ IF active.task = None /\ active.ts = loc[t].ts
       THEN active' = Idle /\ Goto(t, "maybe") /\ UNCHANGED loc
       ELSE Return(t) /\ UNCHANGED active
    /\ UNCHANGED <<tstate, spent, mailbox, history, status, cancelled,
                   terminal,
                   fate, posted, suspended>>

OnTaskFinished(t) == \/ CheckCancelled(t) \/ FinishTake(t)
                     \/ FinishReport(t) \/ FinishClear(t)

\* A guardian rejection inside a tool call of t spawns the interruption.
GuardianDenial(t) ==
    /\ "Guardian" \in Ops
    /\ pc[Guard] = "off"
    /\ pc[t] = "sample" /\ IsActive(t)
    /\ loc' = [loc EXCEPT ![Guard].victim = t]
    /\ Goto(Guard, "abortif")
    /\ UNCHANGED <<active, tstate, spent, mailbox, history, status, cancelled,
                   terminal, fate, posted, suspended>>

\* The part of Next that a process performs by itself once it is called.
Steps(p) == StartTask(p) \/ MaybeStartTurn(p) \/ AbortTask(p)

Next == \/ \E p \in Procs : Steps(p)
        \/ \E p \in Clients : ClientOp(p)
        \/ LoopOp(Loop)
        \/ \E x \in Notices : Inject(x)
        \/ \E t \in Turns : RunTask(t) \/ OnTaskFinished(t) \/ GuardianDenial(t)

Spec == Init /\ [][Next]_vars

\* Spawned futures are polled until they are done, and an operation that was
\* begun is carried through; nobody has to submit anything.
Fairness ==
    /\ \A p \in Procs : WF_vars(Steps(p))
    /\ \A t \in Turns : WF_vars(RunTask(t) \/ OnTaskFinished(t))
    /\ WF_vars(SettleIdleStart(Loop) \/ ExitLoop(Loop) \/ FinishSuspend(Loop))

FairSpec == Spec /\ Fairness

-----------------------------------------------------------------------------
(* Properties.                                                             *)

\* Every variable keeps its type.
TypeOK ==
    /\ active \in [ts : States \cup {None}, task : Turns \cup {None}, kind : Kinds]
    /\ tstate \in [States -> TurnState]
    /\ spent \subseteq Turns \cup States
    /\ mailbox \in Seq(Mails)
    /\ history \in Seq(Items)
    /\ status \in {"PendingInit", "Running", "Completed", "Errored",
                   "Interrupted", "Shutdown"}
    /\ cancelled \subseteq Turns
    /\ terminal \in [Turns -> Seq({"complete", "aborted"})]
    /\ pc \in [Procs -> Labels]
    /\ loc \in [Procs -> Locals]
    /\ fate \in [Items -> {"unsent", "rejected", "accepted", "dropped"}]
    /\ posted \in Seq(Mails)
    /\ suspended \subseteq Turns

\* The labels at which a spawned task has not yet finished its own turn.
Working == {"begin", "prep", "compact", "step", "record", "sample", "post",
            "hooks", "over", "end", "take"}

\* The task is running: the slot is the place to find, steer and abort it.
\* A running task that nobody cancelled is the one in active_turn.
RunningTaskOwnsSlot ==
    \A t \in Turns : pc[t] \in Working /\ t \notin cancelled => active.task = t

\* debug_assert!(turn.task.is_none()) in start_task, at both places where it
\* locks the slot: a turn is never started on top of a running one.
TaskSlotFree == \A p \in Procs : pc[p] \in {"adopt", "install"} => active.task = None

\* A turn gets at most one of TurnComplete and TurnAborted, although the task
\* and whoever aborts it both report the end.
TerminalOnce == \A t \in Turns : Len(terminal[t]) <= 1

\* "Session has at most one Task running at a time" (docs/protocol_v1.md): the
\* task that is being aborted is gone before the next one begins.
OneTaskRunning == \A t, u \in Turns : {pc[t], pc[u]} \subseteq Working => t = u

\* active_turn and the tasks agree: the running task is the only one and is
\* the one in the slot, and no other is started on top of it.
SlotGuardsTask == RunningTaskOwnsSlot /\ TaskSlotFree /\ OneTaskRunning

\* Nothing of a turn runs after its terminal event: the task was killed, or
\* is itself past on_task_finished's report.
TerminalIsLast ==
    \A t \in Turns : terminal[t] # <<>> => pc[t] \notin Working \cup {"report"}

\* A turn ends once: one report of its end, by whoever ends it, and nothing of
\* it afterwards.
TurnEndsOnce == TerminalOnce /\ TerminalIsLast

PositionsOf(q, i) == {k \in 1..Len(q) : q[k] = i}

\* The queues an item can be in: the mailbox, the history, the pending input
\* of a turn state, and what a process has in hand.
Queues == ({"mailbox", "history"} \X {None}) \cup ({"state"} \X States)
          \cup ({"input", "mail"} \X Procs)
Held(c) == CASE c[1] = "mailbox" -> mailbox
             [] c[1] = "history" -> history
             [] c[1] = "state" -> tstate[c[2]].items
             [] c[1] = "input" -> loc[c[2]].input
             [] c[1] = "mail" -> loc[c[2]].mail

\* Where an item is.
Places(i) == UNION {{c} \X PositionsOf(Held(c), i) : c \in Queues}

\* The queues pass every accepted item on exactly once: it is in one place
\* until an abort or a hook drops it, and a dropped or refused one is in none.
ItemsConserved ==
    \A i \in Items : Cardinality(Places(i)) = IF fate[i] = "accepted" THEN 1 ELSE 0

\* Mail reaches the conversation in the order it was sent, whatever mix of
\* start_task, get_pending_input and on_task_finished delivered it.
MailInOrder ==
    \A j, k \in 1..Len(history) :
        /\ j < k /\ history[j] \in Mails /\ history[k] \in Mails
        => \E a, b \in 1..Len(posted) :
               a < b /\ posted[a] = history[j] /\ posted[b] = history[k]

\* Once a running turn is closed to mail, nothing but queue-only mail waits in
\* it: a steer, an injected item or trigger mail never waits for a turn that
\* will not sample again (MailboxDeliveryPhase).
ClosedTurnHoldsOnlyMail ==
    active.task # None /\ tstate[active.ts].phase = "NextTurn"
        => OnlyQueueMail(tstate[active.ts].items)

Quiescent ==
    \A p \in Procs : pc[p] \in {"idle", "dead", "unborn", "off", "exited"}

\* When nothing is running, the slot is free, every turn that ran has its
\* terminal event, and the agent's status is not Running: an agent that waits
\* for this one is not left waiting.  Only a turn suspended for another worker
\* goes without the event, and only a session whose suspension failed still
\* reports Running.
SettledWhenQuiet ==
    Quiescent =>
        /\ active = Idle
        /\ status = "Running" => suspended # {} /\ pc[Loop] # "exited"
        /\ \A t \in Turns :
              pc[t] = "dead" => terminal[t] # <<>> \/ t \in suspended

\* Every item in a turn state can still be reached: its turn is active, or a
\* process that will record or clear it holds the Arc.
NoOrphanedInput ==
    \A s \in States : tstate[s].items # <<>> =>
        active.ts = s \/ \E p \in Procs : loc[p].ts = s

\* "Agent has been shutdown" (AgentStatus::Shutdown): once the session has that
\* status, no task of it runs a turn.
ShutdownIsLast ==
    status = "Shutdown" => \A t \in Turns : pc[t] \notin Working

\* Every turn that starts ends with a terminal event.
EveryTurnEnds == \A t \in Turns : pc[t] = "begin" ~> terminal[t] # <<>>

\* Trigger mail ends up in the conversation: the wake-up is never lost.
TriggerMailDelivered ==
    \A m \in TriggerMails : fate[m] = "accepted" ~>
        m \in Contents(history) \/ fate[m] = "dropped"

-----------------------------------------------------------------------------
(* Sessions in which only the submission loop starts turns: no mail that   *)
(* triggers a turn, no durable sleep, no realtime conversation and no      *)
(* guardian interruption.                                                  *)

SingleStarter == /\ TriggerMails = {}
                 /\ ~DurableSleep
                 /\ Routers = {}
                 /\ "Guardian" \notin Ops

(* Sessions in which every start reserves the slot before it makes a turn: *)
(* turns are started for trigger mail, after a durable sleep or by         *)
(* start_if_idle, and input is steered or injected; nothing aborts a turn  *)
(* or replaces one.                                                        *)

ReservedStarts ==
    Ops \cap {"StartOrSteer", "Compact", "Interrupt", "Guardian", "Suspend", "Shutdown"} = {}

\* The turn that has a task and no report of its end yet.
Unreported == {t \in Turns : pc[t] \in Working \cup {"report"}}
CurrentTurn == IF Unreported = {} THEN None ELSE CHOOSE t \in Unreported : TRUE

(* The abstract specification: slot, tasks and queues implement a session  *)
(* that runs one turn after the other and reads its mail in order.         *)
Sequential == INSTANCE SequentialSession WITH
    current <- CurrentTurn,
    ended <- {t \in Turns : terminal[t] # <<>>}

(* Where every start reserves the slot, a turn begins only after the end   *)
(* of the one before it was reported, although on_task_finished gives the  *)
(* slot up in several steps; mail is read by a turn, once and in order.    *)
ImplementsSequentialSession == Sequential!Spec

\* Where the loop is between taking a task out of the slot and putting the
\* next one in, or past its last turn.
Starting == {"ifidle", "drain", "adopt", "extend", "install"}
SlotEmptyLabels ==
    Starting \cup {"kill", "tell", "wipe", "maybe", "exiting", "leaving",
                   "exited"}

\* The loop holds the id of a turn that it is going to install.
WillInstall == \/ pc[Loop] \in Starting
               \/ /\ pc[Loop] \in {"abort", "kill", "tell", "wipe"}
                  /\ loc[Loop].reason = "Replaced"

TaskLabels == Working \cup {"unborn", "dead", "report", "clear", "maybe"}

\* Who is where.
Roles ==
    /\ pc[Guard] = "off"
    /\ pc[Loop] \in SlotEmptyLabels \cup {"idle", "abort"}
    /\ \A t \in Turns : pc[t] \in TaskLabels /\ loc[t].then = "dead"
    /\ loc[Loop].then \in {"idle", "exiting", "leaving"}
    /\ pc[Loop] \in Starting \cup {"idle"} \/ loc[Loop].reason = "Replaced"
         => loc[Loop].then = "idle"

\* A turn id is fresh until its task is installed.
FreshIds ==
    /\ \A t \in Turns : pc[t] # "unborn" => t \in spent
    /\ cancelled \cap {t \in Turns : pc[t] = "unborn"} = {}
    /\ WillInstall => /\ loc[Loop].turn \in Turns \cap spent
                      /\ pc[loc[Loop].turn] = "unborn"

\* The slot names the one running task that is not being aborted.
SlotNamesTask ==
    /\ pc[Loop] \in SlotEmptyLabels => active.task = None
    /\ active.task # None => /\ active.ts # None
                             /\ pc[active.task] \in Working
                             /\ active.task \notin cancelled
    /\ \A t \in Turns : pc[t] \in Working =>
          IF t \in cancelled
          THEN pc[Loop] = "kill" /\ loc[Loop].victim = t
          ELSE active.task = t

\* The end of a turn is reported by its task or by the loop, never by both.
OneReporter ==
    /\ pc[Loop] \in {"kill", "tell"} =>
          /\ loc[Loop].victim \in Turns
          /\ terminal[loc[Loop].victim] = <<>>
          /\ pc[loc[Loop].victim] \in
                IF pc[Loop] = "kill" THEN Working \cup {"dead"} ELSE {"dead"}
    /\ pc[Loop] = "kill" => loc[Loop].victim \in cancelled
    /\ \A t \in Turns :
          /\ pc[t] \in Working \cup {"unborn", "report"} => terminal[t] = <<>>
          /\ Len(terminal[t]) <= 1

\* The submission loop and the task agree who ends the turn: a task is in the
\* slot, or the loop is aborting it, or it has left through on_task_finished.
Ownership == Roles /\ FreshIds /\ SlotNamesTask /\ OneReporter
=============================================================================
