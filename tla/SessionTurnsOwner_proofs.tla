---------------------- MODULE SessionTurnsOwner_proofs ----------------------
(***************************************************************************)
(* When only the submission loop starts turns, the slot active_turn tells  *)
(* who ends a turn.  Ownership is the inductive invariant; the theorems at *)
(* the end are what follows from it.                                       *)
(***************************************************************************)
EXTENDS SessionTurns_proofs

\* The processes are distinct, and there are no routers.
LEMMA Processes ==
  ASSUME SingleStarter
  PROVE  /\ Loop \notin Turns /\ Guard \notin Turns /\ None \notin Turns
         /\ Loop # Guard /\ Loop # None /\ Guard # None
         /\ Procs = {Loop, Guard} \cup Turns
         /\ Clients = {Loop}
  BY ConstantsAssumption DEF SingleStarter, Procs, Clients

\* Nothing in the mailbox wakes the session up.
LEMMA NothingWakes ==
  ASSUME SingleStarter
  PROVE  ~HasPendingWork /\ ~HasTrigger(mailbox)
  BY DEF SingleStarter, HasPendingWork, HasTrigger, IsTrigger

\* The initial state.
LEMMA InitOwnership == ASSUME SingleStarter PROVE Init => Ownership
<1> SUFFICES ASSUME Init PROVE Ownership
  OBVIOUS
<1>1. /\ pc[Loop] = "idle" /\ pc[Guard] = "off" /\ loc[Loop].then = "idle"
      /\ \A t \in Turns : /\ pc[t] = "unborn" /\ loc[t].then = "dead"
                          /\ terminal[t] = <<>>
      /\ cancelled = {} /\ active.task = None
  BY Processes DEF Init, Blank, Idle
<1>2. Roles
  BY <1>1 DEF Roles, SlotEmptyLabels, Starting, TaskLabels
<1>3. FreshIds
  BY <1>1 DEF FreshIds, WillInstall, Starting
<1>4. SlotNamesTask
  BY <1>1 DEF SlotNamesTask, SlotEmptyLabels, Starting, Working
<1>5. OneReporter
  BY <1>1 DEF OneReporter
<1> QED
  BY <1>2, <1>3, <1>4, <1>5 DEF Ownership

(***************************************************************************)
(* Steps of a task.                                                        *)
(***************************************************************************)

\* A task that goes on working changes nothing that Ownership speaks of.
LEMMA TaskWorks ==
  ASSUME SingleStarter, TypeOK, Ownership, NEW t \in Turns,
         pc[t] \in Working, NEW l \in Working, pc' = [pc EXCEPT ![t] = l],
         \A q \in Procs : /\ loc'[q].then = loc[q].then
                          /\ q # t => loc'[q] = loc[q],
         UNCHANGED <<active, spent, cancelled, terminal>>
  PROVE  Ownership'
<1>1. /\ pc'[Loop] = pc[Loop] /\ loc'[Loop] = loc[Loop] /\ pc'[Guard] = pc[Guard]
      /\ pc'[t] = l
      /\ \A u \in Turns : loc'[u].then = loc[u].then
      /\ \A u \in Turns \ {t} : pc'[u] = pc[u]
  BY Processes DEF TypeOK
<1>2. Roles'
  BY <1>1 DEF Ownership, Roles, TaskLabels
<1>3. FreshIds'
  <2>1. pc[t] # "unborn" /\ l # "unborn"
    BY DEF Working
  <2> QED
    BY <1>1, <2>1 DEF Ownership, FreshIds, WillInstall
<1>4. SlotNamesTask'
  BY <1>1 DEF Ownership, SlotNamesTask, TypeOK
<1>5. OneReporter'
  <2>1. pc[t] # "dead"
    BY DEF Working
  <2> QED
    BY <1>1, <2>1 DEF Ownership, OneReporter
<1> QED
  BY <1>2, <1>3, <1>4, <1>5 DEF Ownership

\* The steps of RegularTask::run and of the compaction task are such steps.
LEMMA RunTaskOwnership ==
  ASSUME SingleStarter, TypeOK, Ownership, NEW t \in Turns, RunTask(t)
  PROVE  Ownership'
<1>0. t \in Procs
  BY DEF Procs
<1>1. pc[t] \in Working
  BY DEF RunTask, Begin, RunCompact, RecordInput, FailPrepare, CancelPrepare,
         SessionStartStops, DrainPending, RecordPending, SampleAnswer,
         SampleToolCall, SampleFails, RollOverFails, FollowUp, NoFollowUp,
         StopHookBlocks, RunAgain, Working
<1>2. \E l \in Working : pc' = [pc EXCEPT ![t] = l]
  BY DEF RunTask, Begin, RunCompact, RecordInput, FailPrepare, CancelPrepare,
         SessionStartStops, DrainPending, RecordPending, SampleAnswer,
         SampleToolCall, SampleFails, RollOverFails, FollowUp, NoFollowUp,
         StopHookBlocks, RunAgain, TakePending, Goto, Working
<1>3. \A q \in Procs : /\ loc'[q].then = loc[q].then
                       /\ q # t => loc'[q] = loc[q]
  BY <1>0 DEF RunTask, Begin, RunCompact, RecordInput, FailPrepare, CancelPrepare,
         SessionStartStops, DrainPending, RecordPending, SampleAnswer,
         SampleToolCall, SampleFails, RollOverFails, FollowUp, NoFollowUp,
         StopHookBlocks, RunAgain, TakePending, TypeOK, Locals
<1>4. UNCHANGED <<active, spent, cancelled, terminal>>
  BY DEF RunTask, Begin, RunCompact, RecordInput, FailPrepare, CancelPrepare,
         SessionStartStops, DrainPending, RecordPending, SampleAnswer,
         SampleToolCall, SampleFails, RollOverFails, FollowUp, NoFollowUp,
         StopHookBlocks, RunAgain, TakePending
<1> QED
  BY <1>1, <1>2, <1>3, <1>4, TaskWorks

\* A task that is over, or that finds its own token cancelled, or that finds
\* the slot empty, stops without touching the slot.
LEMMA TaskStops ==
  ASSUME SingleStarter, TypeOK, Ownership, NEW t \in Turns, Return(t),
         pc[t] \in Working => t \in cancelled,
         pc[t] \notin {"unborn", "report"},
         active'.task = active.task, active' = active \/ active.task = None,
         UNCHANGED <<spent, cancelled, terminal>>
  PROVE  Ownership'
<1>1. /\ pc'[Loop] = pc[Loop] /\ loc'[Loop] = loc[Loop] /\ pc'[Guard] = pc[Guard]
      /\ pc'[t] = "dead"
      /\ \A u \in Turns : loc'[u].then = "dead"
      /\ \A u \in Turns \ {t} : pc'[u] = pc[u]
  BY Processes DEF TypeOK, Return, Blank, Ownership, Roles
<1>2. active.task # None => active.task \in Turns
  BY DEF TypeOK
<1>3. Roles'
  BY <1>1 DEF Ownership, Roles, TaskLabels
<1>4. FreshIds'
  BY <1>1 DEF Ownership, FreshIds, WillInstall
<1>5. SlotNamesTask'
  <2>1. "dead" \notin Working
    BY DEF Working
  <2>2. active.task # t
    BY Processes DEF Ownership, SlotNamesTask
  <2> QED
    BY <1>1, <1>2, <2>1, <2>2 DEF Ownership, SlotNamesTask
<1>6. OneReporter'
  BY <1>1 DEF Ownership, OneReporter, Working
<1> QED
  BY <1>3, <1>4, <1>5, <1>6 DEF Ownership

\* on_task_finished: the task takes itself out of the slot, reports, clears
\* the slot and stops.
LEMMA OnTaskFinishedOwnership ==
  ASSUME SingleStarter, TypeOK, Ownership, NEW t \in Turns, OnTaskFinished(t)
  PROVE  Ownership'
<1>0. t \in Procs
  BY DEF Procs
<1>1. CASE CheckCancelled(t)
  <2>1. CASE t \in cancelled
    BY <1>1, <2>1, TaskStops DEF CheckCancelled
  <2>2. CASE t \notin cancelled
    <3>1. pc[t] \in Working /\ "take" \in Working
      BY <1>1 DEF CheckCancelled, Working
    <3>2. /\ pc' = [pc EXCEPT ![t] = "take"]
          /\ UNCHANGED <<active, spent, cancelled, terminal, loc>>
      BY <1>1, <2>2 DEF CheckCancelled, Goto
    <3> QED
      BY <3>1, <3>2, TaskWorks
  <2> QED
    BY <2>1, <2>2
<1>2. CASE FinishTake(t)
  <2>1. CASE active.task = None
    <3>1. t \in cancelled
      BY <1>2, <2>1, Processes DEF FinishTake, Ownership, SlotNamesTask, Working
    <3> QED
      BY <1>2, <2>1, <3>1, TaskStops DEF FinishTake
  <2>2. CASE active.task # None
    <3>1. active.task = t
      BY <1>2, <2>2 DEF FinishTake, Ownership, SlotNamesTask, Working,
                        SlotEmptyLabels
    <3>2. /\ pc'[Loop] = pc[Loop] /\ loc'[Loop] = loc[Loop]
          /\ pc'[Guard] = pc[Guard] /\ pc'[t] = "report" /\ pc[t] = "take"
          /\ \A u \in Turns : loc'[u].then = "dead"
          /\ \A u \in Turns \ {t} : pc'[u] = pc[u]
          /\ active'.task = None
          /\ UNCHANGED <<spent, cancelled, terminal>>
      <4>1. /\ loc' = [loc EXCEPT ![t].ts = active.ts]
            /\ pc' = [pc EXCEPT ![t] = "report"]
            /\ active' = [active EXCEPT !.task = None]
            /\ pc[t] = "take"
            /\ UNCHANGED <<spent, cancelled, terminal>>
        BY <1>2, <2>2 DEF FinishTake, Goto
      <4>2. \A u \in Turns : u \in Procs /\ loc[u] \in Locals /\ loc[u].then = "dead"
        BY DEF TypeOK, Procs, Ownership, Roles
      <4>3. \A u \in Turns : loc'[u].then = "dead"
        BY <4>1, <4>2 DEF TypeOK, Locals
      <4> QED
        BY <4>1, <4>3, Processes DEF TypeOK
    <3>3. Roles'
      BY <3>2 DEF Ownership, Roles, TaskLabels
    <3>4. FreshIds'
      BY <3>2 DEF Ownership, FreshIds, WillInstall
    <3>5. SlotNamesTask'
      BY <3>1, <3>2 DEF Ownership, SlotNamesTask, Working
    <3>6. OneReporter'
      <4>1. t \notin cancelled /\ pc[t] \in Working /\ pc[t] # "dead"
        BY <2>2, <3>1, <3>2 DEF Ownership, SlotNamesTask
      <4>2. pc[Loop] \in {"kill", "tell"} => loc[Loop].victim # t
        BY <4>1 DEF Ownership, OneReporter
      <4> QED
        BY <3>2, <4>1, <4>2 DEF Ownership, OneReporter
    <3> QED
      BY <3>3, <3>4, <3>5, <3>6 DEF Ownership
  <2> QED
    BY <2>1, <2>2
<1>3. CASE FinishReport(t)
  <2>1. /\ pc'[Loop] = pc[Loop] /\ loc'[Loop] = loc[Loop]
        /\ pc'[Guard] = pc[Guard] /\ pc'[t] = "clear" /\ pc[t] = "report"
        /\ \A u \in Turns : loc'[u].then = "dead"
        /\ \A u \in Turns \ {t} : pc'[u] = pc[u] /\ terminal'[u] = terminal[u]
        /\ UNCHANGED <<active, spent, cancelled>>
    BY <1>3, Processes DEF FinishReport, Goto, TypeOK, Ownership, Roles
  <2>2. Len(terminal'[t]) <= 1
    <3>1. terminal[t] = <<>>
      BY <2>1 DEF Ownership, OneReporter
    <3> QED
      BY <1>3, <3>1 DEF FinishReport, TypeOK
  <2>3. Roles'
    BY <2>1 DEF Ownership, Roles, TaskLabels
  <2>4. FreshIds'
    BY <2>1 DEF Ownership, FreshIds, WillInstall
  <2>5. SlotNamesTask'
    BY <2>1 DEF Ownership, SlotNamesTask, Working, TypeOK
  <2>6. OneReporter'
    BY <2>1, <2>2 DEF Ownership, OneReporter, Working
  <2> QED
    BY <2>3, <2>4, <2>5, <2>6 DEF Ownership
<1>4. CASE FinishClear(t)
  <2>1. CASE active.task = None /\ active.ts = loc[t].ts
    <3>1. /\ pc'[Loop] = pc[Loop] /\ loc'[Loop] = loc[Loop]
          /\ pc'[Guard] = pc[Guard] /\ pc'[t] = "maybe" /\ pc[t] = "clear"
          /\ \A u \in Turns : loc'[u].then = "dead"
          /\ \A u \in Turns \ {t} : pc'[u] = pc[u]
          /\ active'.task = active.task
          /\ UNCHANGED <<spent, cancelled, terminal>>
      BY <1>4, <2>1, Processes DEF FinishClear, Goto, TypeOK, Ownership, Roles, Idle
    <3>2. Roles'
      BY <3>1 DEF Ownership, Roles, TaskLabels
    <3>3. FreshIds'
      BY <3>1 DEF Ownership, FreshIds, WillInstall
    <3>4. SlotNamesTask'
      BY <2>1, <3>1 DEF Ownership, SlotNamesTask, Working
    <3>5. OneReporter'
      BY <3>1 DEF Ownership, OneReporter, Working
    <3> QED
      BY <3>2, <3>3, <3>4, <3>5 DEF Ownership
  <2>2. CASE ~(active.task = None /\ active.ts = loc[t].ts)
    BY <1>4, <2>2, TaskStops DEF FinishClear, Working
  <2> QED
    BY <2>1, <2>2
<1> QED
  BY <1>1, <1>2, <1>3, <1>4 DEF OnTaskFinished

\* Of the steps every process has, a task takes only the one that finds no
\* pending work after its turn, and the guardian takes none.
LEMMA TaskStepsOwnership ==
  ASSUME SingleStarter, TypeOK, Ownership, NEW p \in Turns \cup {Guard}, Steps(p)
  PROVE  Ownership'
<1>1. p \in Turns /\ pc[p] = "maybe"
  BY Processes DEF Ownership, Roles, TaskLabels, Working, Steps,
     StartTask, StartTaskDrain, StartTaskAdopt, StartTaskExtend, StartTaskInstall,
     MaybeStartTurn, CheckPendingWork, ReserveForWork, ReserveRefused,
     GatherPending, HandOver, AbortTask, AbortAllTasks, AbortNothing,
     AbortTurnIfActive, KillTask, ReportAborted, WipePending
<1>2. CheckPendingWork(p)
  BY <1>1 DEF Steps, StartTask, StartTaskDrain, StartTaskAdopt, StartTaskExtend,
     StartTaskInstall, MaybeStartTurn, CheckPendingWork, ReserveForWork,
     ReserveRefused, GatherPending, HandOver, AbortTask, AbortAllTasks,
     AbortNothing, AbortTurnIfActive, KillTask, ReportAborted, WipePending
<1>3. Return(p) /\ UNCHANGED <<active, spent, cancelled, terminal>>
  BY <1>2, NothingWakes DEF CheckPendingWork
<1>4. pc[p] \notin Working \cup {"unborn", "report"}
  BY <1>1 DEF Working
<1> QED
  BY <1>1, <1>3, <1>4, TaskStops

(***************************************************************************)
(* Steps of the submission loop.                                           *)
(***************************************************************************)

\* Steering, injecting and stuttering change nothing Ownership speaks of.
LEMMA Unaffected ==
  ASSUME Ownership, UNCHANGED <<active, spent, cancelled, terminal, pc, loc>>
  PROVE  Ownership'
  BY DEF Ownership, Roles, FreshIds, SlotNamesTask, OneReporter, WillInstall

\* The loop goes from one label to another, with the tasks and the task in the
\* slot left alone, and neither begins nor ends an abort.
LEMMA LoopMoves ==
  ASSUME SingleStarter, TypeOK, Ownership,
         pc[Loop] # "kill", pc'[Loop] \notin {"kill", "tell"},
         \A q \in Procs \ {Loop} : pc'[q] = pc[q] /\ loc'[q] = loc[q],
         active'.task = active.task, active' = active \/ active.task = None,
         spent \subseteq spent',
         UNCHANGED <<cancelled, terminal>>,
         pc'[Loop] \in SlotEmptyLabels => active.task = None,
         pc'[Loop] \in SlotEmptyLabels \cup {"idle", "abort"},
         loc'[Loop].then \in {"idle", "exiting", "leaving"},
         pc'[Loop] \in Starting \cup {"idle"} \/ loc'[Loop].reason = "Replaced"
            => loc'[Loop].then = "idle",
         WillInstall' => /\ loc'[Loop].turn \in Turns \cap spent'
                         /\ pc[loc'[Loop].turn] = "unborn"
  PROVE  Ownership'
<1>1. \A t \in Turns : pc'[t] = pc[t] /\ loc'[t] = loc[t]
  BY Processes
<1>2. pc'[Guard] = pc[Guard]
  BY Processes
<1>3. Roles'
  BY <1>1, <1>2 DEF Ownership, Roles
<1>4. FreshIds'
  BY <1>1 DEF Ownership, FreshIds
<1>5. SlotNamesTask'
  BY <1>1 DEF Ownership, SlotNamesTask, TypeOK
<1>6. OneReporter'
  BY <1>1 DEF Ownership, OneReporter
<1> QED
  BY <1>3, <1>4, <1>5, <1>6 DEF Ownership

\* start_task up to the installation.
LEMMA LoopStartOwnership ==
  ASSUME SingleStarter, TypeOK, Ownership,
         StartTaskDrain(Loop) \/ StartTaskAdopt(Loop) \/ StartTaskExtend(Loop)
  PROVE  Ownership'
<1>1. Loop \in Procs
  BY Processes
<1>2. /\ pc[Loop] \in Starting /\ pc'[Loop] \in Starting
      /\ \A q \in Procs \ {Loop} : pc'[q] = pc[q] /\ loc'[q] = loc[q]
  BY <1>1 DEF StartTaskDrain, StartTaskAdopt, StartTaskExtend, Goto, Starting, TypeOK
<1>3. /\ active'.task = active.task /\ spent \subseteq spent'
      /\ UNCHANGED <<cancelled, terminal>>
  BY DEF StartTaskDrain, StartTaskAdopt, StartTaskExtend, TypeOK
<1>4. /\ loc'[Loop].then = loc[Loop].then /\ loc'[Loop].turn = loc[Loop].turn
  BY <1>1 DEF StartTaskDrain, StartTaskAdopt, StartTaskExtend, TypeOK, Locals
<1>5. WillInstall
  BY <1>2 DEF WillInstall
<1>6. /\ pc[Loop] # "kill" /\ pc'[Loop] \notin {"kill", "tell"}
      /\ pc[Loop] \in SlotEmptyLabels /\ pc'[Loop] \in SlotEmptyLabels
  BY <1>2 DEF Starting, SlotEmptyLabels
<1>7. active.task = None
  BY <1>6 DEF Ownership, SlotNamesTask
<1>8. loc[Loop].turn \in Turns \cap spent /\ pc[loc[Loop].turn] = "unborn"
  BY <1>5 DEF Ownership, FreshIds
<1>9. loc[Loop].then = "idle"
  BY <1>2 DEF Ownership, Roles
<1> QED
  BY <1>2, <1>3, <1>4, <1>6, <1>7, <1>8, <1>9, LoopMoves

\* start_task installs the task of a fresh turn in an empty slot.
LEMMA InstallOwnership ==
  ASSUME SingleStarter, TypeOK, Ownership, StartTaskInstall(Loop)
  PROVE  Ownership'
<1> DEFINE t == loc[Loop].turn
<1>1. /\ t \in Turns /\ t \in spent /\ pc[t] = "unborn" /\ t \notin cancelled
      /\ active.task = None /\ loc[Loop].then = "idle" /\ pc[Loop] = "install"
      /\ terminal[t] = <<>>
  BY DEF StartTaskInstall, Ownership, Roles, FreshIds, SlotNamesTask, WillInstall,
         OneReporter, Starting, SlotEmptyLabels
<1>2. \A u \in Turns : pc[u] \in Working => u \in cancelled /\ pc[Loop] = "kill"
  BY <1>1, Processes DEF Ownership, SlotNamesTask
<1>3. \A u \in Turns : pc[u] \notin Working
  BY <1>1, <1>2
<1>4. /\ pc'[Loop] = "idle" /\ pc'[t] = "begin" /\ pc'[Guard] = pc[Guard]
      /\ \A u \in Turns \ {t} : pc'[u] = pc[u]
  BY <1>1, Processes DEF StartTaskInstall
<1>5. /\ loc'[Loop] = Blank("idle")
      /\ \A u \in Turns : loc'[u].then = "dead"
  BY <1>1, Processes DEF StartTaskInstall, Blank, Ownership, Roles
<1>6. active'.task = t /\ spent \subseteq spent' /\ UNCHANGED <<cancelled, terminal>>
  BY DEF StartTaskInstall
<1>7. Roles'
  BY <1>4, <1>5 DEF Ownership, Roles, Blank, TaskLabels, Working
<1>8. FreshIds'
  BY <1>1, <1>4, <1>5, <1>6 DEF Ownership, FreshIds, WillInstall, Starting, Blank
<1>9. SlotNamesTask'
  <2>1. active'.ts # None
    BY SlotStateType, ConstantsAssumption DEF StartTaskInstall
  <2> QED
    BY <1>1, <1>3, <1>4, <1>6, <2>1
    DEF SlotNamesTask, SlotEmptyLabels, Starting, Working
<1>10. OneReporter'
  BY <1>1, <1>4, <1>6 DEF Ownership, OneReporter
<1> QED
  BY <1>7, <1>8, <1>9, <1>10 DEF Ownership

\* The loop takes the running task out of the slot in order to abort it: at an
\* interrupt, a replacement, a shutdown or a suspension.
LEMMA AbortBegins ==
  ASSUME SingleStarter, TypeOK, Ownership, active.task # None,
         pc[Loop] \in {"abort", "idle"}, pc'[Loop] = "kill",
         \A q \in Procs \ {Loop} : pc'[q] = pc[q] /\ loc'[q] = loc[q],
         active'.task = None, cancelled' = cancelled \cup {active.task},
         UNCHANGED <<spent, terminal>>,
         loc'[Loop].victim = active.task,
         loc'[Loop].turn = loc[Loop].turn,
         loc'[Loop].then \in {"idle", "exiting", "leaving"},
         loc'[Loop].reason = "Replaced" =>
            /\ loc'[Loop].then = "idle"
            /\ pc[Loop] = "abort" /\ loc[Loop].reason = "Replaced"
  PROVE  Ownership'
<1> DEFINE v == active.task
<1>1. v \in Turns /\ pc[v] \in Working /\ v \notin cancelled /\ pc[v] # "unborn"
  BY DEF TypeOK, Ownership, SlotNamesTask, Working
<1>2. \A u \in Turns : pc[u] \in Working => u = v
  BY DEF Ownership, SlotNamesTask
<1>3. \A t \in Turns : pc'[t] = pc[t] /\ loc'[t] = loc[t]
  BY Processes
<1>4. pc'[Guard] = pc[Guard]
  BY Processes
<1>5. Roles'
  BY <1>3, <1>4 DEF Ownership, Roles, SlotEmptyLabels, Starting
<1>6. FreshIds'
  <2>1. WillInstall' => WillInstall
    BY DEF WillInstall, Starting
  <2> QED
    BY <1>1, <1>3, <2>1 DEF Ownership, FreshIds
<1>7. SlotNamesTask'
  BY <1>1, <1>2, <1>3 DEF SlotNamesTask
<1>8. OneReporter'
  <2>1. terminal[v] = <<>>
    BY <1>1 DEF Ownership, OneReporter
  <2> QED
    BY <1>1, <1>3, <2>1 DEF Ownership, OneReporter
<1> QED
  BY <1>5, <1>6, <1>7, <1>8 DEF Ownership

\* handle_task_abort makes sure that the task is gone.
LEMMA KillOwnership ==
  ASSUME SingleStarter, TypeOK, Ownership, KillTask(Loop)
  PROVE  Ownership'
<1> DEFINE v == loc[Loop].victim
<1>1. /\ pc[Loop] = "kill" /\ v \in Turns /\ v \in cancelled /\ terminal[v] = <<>>
      /\ active.task = None /\ pc[v] # "unborn"
  BY DEF KillTask, Ownership, OneReporter, SlotNamesTask, FreshIds, SlotEmptyLabels
<1>2. \A u \in Turns : pc[u] \in Working => u = v
  BY <1>1, Processes DEF Ownership, SlotNamesTask
<1>3. /\ pc'[Loop] = IF loc[Loop].reason = "Suspended" THEN "wipe" ELSE "tell"
      /\ pc'[v] = "dead" /\ pc'[Guard] = pc[Guard]
      /\ \A u \in Turns \ {v} : pc'[u] = pc[u]
  BY <1>1, Processes DEF KillTask, TypeOK
<1>4. loc'[Loop] = loc[Loop] /\ \A u \in Turns : loc'[u].then = "dead"
  BY <1>1, Processes DEF KillTask, TypeOK, Blank, Ownership, Roles
<1>5. UNCHANGED <<active, spent, cancelled, terminal>>
  BY DEF KillTask
<1>6. Roles'
  BY <1>1, <1>3, <1>4
  DEF Ownership, Roles, SlotEmptyLabels, Starting, TaskLabels
<1>7. FreshIds'
  <2>1. WillInstall' => WillInstall
    BY <1>1, <1>3, <1>4 DEF WillInstall, Starting
  <2> QED
    BY <1>1, <1>3, <1>4, <1>5, <2>1 DEF Ownership, FreshIds
<1>8. SlotNamesTask'
  BY <1>1, <1>2, <1>3, <1>5 DEF SlotNamesTask, Working
<1>9. OneReporter'
  BY <1>1, <1>3, <1>4, <1>5 DEF Ownership, OneReporter, Working
<1> QED
  BY <1>6, <1>7, <1>8, <1>9 DEF Ownership

\* Then it sends TurnAborted, the only report that turn gets.
LEMMA ReportOwnership ==
  ASSUME SingleStarter, TypeOK, Ownership, ReportAborted(Loop)
  PROVE  Ownership'
<1> DEFINE v == loc[Loop].victim
<1>1. /\ pc[Loop] = "tell" /\ v \in Turns /\ terminal[v] = <<>> /\ pc[v] = "dead"
  BY DEF ReportAborted, Ownership, OneReporter
<1>2. /\ pc'[Loop] = "wipe" /\ \A q \in Procs \ {Loop} : pc'[q] = pc[q]
      /\ UNCHANGED <<active, spent, cancelled, loc>>
  BY Processes DEF ReportAborted, Goto, TypeOK
<1>3. \A t \in Turns : pc'[t] = pc[t]
  BY <1>2, Processes
<1>4. pc'[Guard] = pc[Guard]
  BY <1>2, Processes
<1>5. /\ Len(terminal'[v]) <= 1
      /\ \A u \in Turns \ {v} : terminal'[u] = terminal[u]
  BY <1>1 DEF ReportAborted, TypeOK
<1>6. Roles'
  BY <1>1, <1>2, <1>3, <1>4 DEF Ownership, Roles, SlotEmptyLabels, Starting
<1>7. FreshIds'
  <2>1. WillInstall' => WillInstall
    BY <1>1, <1>2 DEF WillInstall, Starting
  <2> QED
    BY <1>2, <1>3, <2>1 DEF Ownership, FreshIds
<1>8. SlotNamesTask'
  BY <1>1, <1>2, <1>3 DEF Ownership, SlotNamesTask, SlotEmptyLabels, TypeOK
<1>9. OneReporter'
  <2>1. pc[v] \notin Working \cup {"unborn", "report"}
    BY <1>1 DEF Working
  <2>2. ASSUME NEW t \in Turns
        PROVE  /\ pc'[t] \in Working \cup {"unborn", "report"} => terminal'[t] = <<>>
               /\ Len(terminal'[t]) <= 1
    <3>1. CASE t = v
      BY <1>3, <1>5, <2>1, <3>1
    <3>2. CASE t # v
      BY <1>3, <1>5, <3>2 DEF Ownership, OneReporter
    <3> QED
      BY <3>1, <3>2
  <2> QED
    BY <1>2, <2>2 DEF OneReporter
<1> QED
  BY <1>6, <1>7, <1>8, <1>9 DEF Ownership

\* abort_all_tasks as a whole.
LEMMA LoopAbortOwnership ==
  ASSUME SingleStarter, TypeOK, Ownership, AbortTask(Loop)
  PROVE  Ownership'
<1>0. Loop \in Procs /\ loc[Loop] \in Locals
  BY Processes DEF TypeOK
<1>1. CASE AbortAllTasks(Loop)
  <2>1. /\ active.task # None /\ pc[Loop] = "abort" /\ pc'[Loop] = "kill"
        /\ \A q \in Procs \ {Loop} : pc'[q] = pc[q] /\ loc'[q] = loc[q]
        /\ active'.task = None /\ cancelled' = cancelled \cup {active.task}
        /\ UNCHANGED <<spent, terminal>>
    BY <1>0, <1>1 DEF AbortAllTasks, TakeTask, Goto, Idle, TypeOK
  <2>2. /\ loc'[Loop].victim = active.task /\ loc'[Loop].turn = loc[Loop].turn
        /\ loc'[Loop].then = loc[Loop].then /\ loc'[Loop].reason = loc[Loop].reason
    BY <1>0, <1>1 DEF AbortAllTasks, TakeTask, TypeOK, Locals
  <2> QED
    BY <2>1, <2>2, AbortBegins DEF Ownership, Roles
<1>2. CASE AbortNothing(Loop)
  <2>1. CASE loc[Loop].reason = "Replaced"
    <3>1. /\ pc[Loop] = "abort" /\ pc'[Loop] = "drain"
          /\ \A q \in Procs \ {Loop} : pc'[q] = pc[q] /\ loc'[q] = loc[q]
          /\ active.task = None /\ active'.task = None
          /\ UNCHANGED <<spent, cancelled, terminal, loc>>
      BY <1>0, <1>2, <2>1 DEF AbortNothing, Goto, Idle, TypeOK
    <3>2. WillInstall
      BY <2>1, <3>1 DEF WillInstall
    <3> QED
      BY <2>1, <3>1, <3>2, LoopMoves
      DEF Ownership, Roles, FreshIds, SlotEmptyLabels, Starting
  <2>2. CASE loc[Loop].reason # "Replaced"
    <3>1. /\ pc[Loop] = "abort" /\ pc'[Loop] = loc[Loop].then
          /\ \A q \in Procs \ {Loop} : pc'[q] = pc[q] /\ loc'[q] = loc[q]
          /\ active.task = None /\ active'.task = None
          /\ loc'[Loop] = Blank(loc[Loop].then)
          /\ UNCHANGED <<spent, cancelled, terminal>>
      BY <1>0, <1>2, <2>2 DEF AbortNothing, Return, Idle, TypeOK
    <3>2. loc[Loop].then \in {"idle", "exiting", "leaving"}
      BY DEF Ownership, Roles
    <3> QED
      BY <3>1, <3>2, LoopMoves DEF WillInstall, SlotEmptyLabels, Starting, Blank
  <2> QED
    BY <2>1, <2>2
<1>3. ~AbortTurnIfActive(Loop)
  BY DEF AbortTurnIfActive, Ownership, Roles, SlotEmptyLabels, Starting
<1>4. CASE WipePending(Loop)
  <2>1. /\ pc[Loop] = "wipe" /\ pc'[Loop] = AfterAbort(loc[Loop].reason)
        /\ \A q \in Procs \ {Loop} : pc'[q] = pc[q] /\ loc'[q] = loc[q]
        /\ UNCHANGED <<active, spent, cancelled, terminal>>
    BY <1>0, <1>4 DEF WipePending, Goto, TypeOK
  <2>2. /\ loc'[Loop].turn = loc[Loop].turn /\ loc'[Loop].then = loc[Loop].then
        /\ loc'[Loop].reason = IF loc[Loop].reason = "Suspended"
                               THEN "Interrupted" ELSE loc[Loop].reason
    BY <1>0, <1>4 DEF WipePending, TypeOK, Locals
  <2>3. active.task = None
    BY <2>1 DEF Ownership, SlotNamesTask, SlotEmptyLabels
  <2>4. loc[Loop].reason \in {"Interrupted", "Replaced", "Suspended"}
    BY <1>0 DEF Locals, Reasons
  <2>5. CASE loc[Loop].reason = "Replaced"
    <3>1. WillInstall
      BY <2>1, <2>5 DEF WillInstall
    <3>2. pc'[Loop] = "drain"
      BY <2>1, <2>5 DEF AfterAbort
    <3> QED
      BY <2>1, <2>2, <2>3, <2>5, <3>1, <3>2, LoopMoves
      DEF Ownership, Roles, FreshIds, SlotEmptyLabels, Starting
  <2>6. CASE loc[Loop].reason # "Replaced"
    <3>1. pc'[Loop] \in {"maybe", "abort"} /\ loc'[Loop].reason # "Replaced"
      BY <2>1, <2>2, <2>4, <2>6 DEF AfterAbort
    <3>2. ~WillInstall'
      BY <3>1 DEF WillInstall, Starting
    <3> QED
      BY <2>1, <2>2, <2>3, <3>1, <3>2, LoopMoves
      DEF Ownership, Roles, SlotEmptyLabels, Starting
  <2> QED
    BY <2>5, <2>6
<1> QED
  BY <1>1, <1>2, <1>3, <1>4, KillOwnership, ReportOwnership DEF AbortTask

\* The steps every process has, taken by the loop.
LEMMA LoopStepsOwnership ==
  ASSUME SingleStarter, TypeOK, Ownership, Steps(Loop)
  PROVE  Ownership'
<1>0. Loop \in Procs /\ loc[Loop] \in Locals
  BY Processes DEF TypeOK
<1>1. CASE StartTask(Loop)
  BY <1>1, LoopStartOwnership, InstallOwnership DEF StartTask
<1>2. CASE MaybeStartTurn(Loop)
  <2>1. CheckPendingWork(Loop)
    BY <1>2 DEF MaybeStartTurn, ReserveForWork, ReserveRefused, GatherPending,
                HandOver, Ownership, Roles, SlotEmptyLabels, Starting
  <2>2. /\ pc[Loop] = "maybe" /\ pc'[Loop] = loc[Loop].then
        /\ \A q \in Procs \ {Loop} : pc'[q] = pc[q] /\ loc'[q] = loc[q]
        /\ loc'[Loop] = Blank(loc[Loop].then)
        /\ UNCHANGED <<active, spent, cancelled, terminal>>
    BY <1>0, <2>1, NothingWakes DEF CheckPendingWork, Return, TypeOK
  <2>3. loc[Loop].then \in {"idle", "exiting", "leaving"} /\ active.task = None
    BY <2>2 DEF Ownership, Roles, SlotNamesTask, SlotEmptyLabels
  <2> QED
    BY <2>2, <2>3, LoopMoves DEF WillInstall, SlotEmptyLabels, Starting, Blank
<1>3. CASE AbortTask(Loop)
  BY <1>3, LoopAbortOwnership
<1> QED
  BY <1>1, <1>2, <1>3 DEF Steps

\* spawn_task hands out a fresh turn id.
LEMMA SpawnOwnership ==
  ASSUME SingleStarter, TypeOK, Ownership, NEW kind, NEW input,
         pc[Loop] = "idle", SpawnTask(Loop, kind, input)
  PROVE  Ownership'
<1>0. Loop \in Procs /\ loc[Loop] \in Locals
  BY Processes DEF TypeOK
<1>1. NewTurn \in Turns /\ NewTurn \notin spent
  BY DEF SpawnTask, NewTurn, FreeTurns
<1>2. pc[NewTurn] = "unborn"
  BY <1>1 DEF Ownership, FreshIds
<1>3. /\ pc'[Loop] = "abort"
      /\ \A q \in Procs \ {Loop} : pc'[q] = pc[q] /\ loc'[q] = loc[q]
      /\ spent' = spent \cup {NewTurn}
      /\ UNCHANGED <<active, cancelled, terminal>>
  BY <1>0 DEF SpawnTask, Goto, TypeOK
<1>4. loc'[Loop].turn = NewTurn /\ loc'[Loop].then = loc[Loop].then
  BY <1>0 DEF SpawnTask, TypeOK, Locals
<1>5. loc[Loop].then = "idle"
  BY DEF Ownership, Roles
<1> QED
  BY <1>1, <1>2, <1>3, <1>4, <1>5, LoopMoves DEF SlotEmptyLabels, Starting

\* start_if_idle reserves the empty slot for a fresh turn, or refuses.
LEMMA StartIfIdleOwnership ==
  ASSUME SingleStarter, TypeOK, Ownership, NEW op, NEW input, NEW extra,
         StartIfIdle(Loop, op, input, extra)
  PROVE  Ownership'
<1>0. Loop \in Procs /\ loc[Loop] \in Locals /\ pc[Loop] = "idle"
  BY Processes DEF TypeOK, StartIfIdle, Ready
<1>1. CASE active.ts # None
  BY <1>1, Unaffected DEF StartIfIdle
<1>2. CASE active.ts = None
  <2>1. NewTurn \in Turns /\ NewTurn \notin spent
    BY <1>2, NothingWakes DEF StartIfIdle, NewTurn, FreeTurns
  <2>2. pc[NewTurn] = "unborn"
    BY <2>1 DEF Ownership, FreshIds
  <2>3. /\ pc'[Loop] = "ifidle"
        /\ \A q \in Procs \ {Loop} : pc'[q] = pc[q] /\ loc'[q] = loc[q]
        /\ spent' = spent \cup {NewState, NewTurn}
        /\ active'.task = None
        /\ UNCHANGED <<cancelled, terminal>>
    BY <1>0, <1>2, NothingWakes DEF StartIfIdle, Goto, TypeOK, Reserved
  <2>4. loc'[Loop].turn = NewTurn /\ loc'[Loop].then = loc[Loop].then
    <3>1. loc' = [loc EXCEPT ![Loop] = [@ EXCEPT !.ts = NewState, !.turn = NewTurn,
                      !.kind = "Regular", !.input = input, !.mail = extra]]
      BY <1>2, NothingWakes DEF StartIfIdle
    <3> QED
      BY <1>0, <3>1 DEF TypeOK, Locals
  <2>5. loc[Loop].then = "idle"
    BY <1>0 DEF Ownership, Roles
  <2>6. active.task = None
    BY <1>2 DEF Ownership, SlotNamesTask
  <2> QED
    BY <1>0, <2>1, <2>2, <2>3, <2>4, <2>5, <2>6, LoopMoves
    DEF SlotEmptyLabels, Starting
<1> QED
  BY <1>1, <1>2

\* It then goes on to start_task, or gives the reservation back.
LEMMA SettleOwnership ==
  ASSUME SingleStarter, TypeOK, Ownership, SettleIdleStart(Loop)
  PROVE  Ownership'
<1>0. Loop \in Procs /\ loc[Loop] \in Locals /\ pc[Loop] = "ifidle"
  BY Processes DEF TypeOK, SettleIdleStart
<1>1. active.task = None /\ loc[Loop].then = "idle"
  BY <1>0 DEF Ownership, Roles, SlotNamesTask, SlotEmptyLabels, Starting
<1>2. CASE GiveUpIdleStart(Loop, loc[Loop].then)
  <2>1. /\ pc'[Loop] = "idle" /\ loc'[Loop] = Blank("idle")
        /\ \A q \in Procs \ {Loop} : pc'[q] = pc[q] /\ loc'[q] = loc[q]
        /\ active'.task = None
        /\ UNCHANGED <<spent, cancelled, terminal>>
    BY <1>0, <1>1, <1>2
    DEF GiveUpIdleStart, ClearReserved, Goto, TypeOK, Idle
  <2> QED
    BY <1>0, <1>1, <2>1, LoopMoves DEF WillInstall, SlotEmptyLabels, Starting, Blank
<1>3. CASE /\ loc' = [loc EXCEPT ![Loop].mail = <<>>]
           /\ Goto(Loop, "drain")
           /\ UNCHANGED <<active, spent, cancelled, terminal>>
  <2>1. /\ pc'[Loop] = "drain"
        /\ \A q \in Procs \ {Loop} : pc'[q] = pc[q] /\ loc'[q] = loc[q]
        /\ loc'[Loop].turn = loc[Loop].turn /\ loc'[Loop].then = loc[Loop].then
    BY <1>0, <1>3 DEF Goto, TypeOK, Locals
  <2>2. WillInstall
    BY <1>0 DEF WillInstall, Starting
  <2> QED
    BY <1>0, <1>1, <1>3, <2>1, <2>2, LoopMoves
    DEF Ownership, FreshIds, SlotEmptyLabels, Starting
<1> QED
  BY <1>2, <1>3, NothingWakes DEF SettleIdleStart

\* The operations of the submission loop.
LEMMA LoopOpOwnership ==
  ASSUME SingleStarter, TypeOK, Ownership, LoopOp(Loop)
  PROVE  Ownership'
<1>0. Loop \in Procs /\ loc[Loop] \in Locals
  BY Processes DEF TypeOK
<1>1. ASSUME NEW u \in UserInputs, Steer(Loop, u) PROVE Ownership'
  BY <1>1, Unaffected DEF Steer, SteerInput, SteerRefused
<1>2. CASE CompactOp(Loop)
  BY <1>2, SpawnOwnership DEF CompactOp, Ready
<1>3. CASE Interrupt(Loop) \/ Shutdown(Loop)
  <2>1. /\ pc[Loop] = "idle" /\ pc'[Loop] = "abort"
        /\ \A q \in Procs \ {Loop} : pc'[q] = pc[q] /\ loc'[q] = loc[q]
        /\ UNCHANGED <<active, spent, cancelled, terminal>>
    BY <1>0, <1>3 DEF Interrupt, Shutdown, Ready, Goto, TypeOK
  <2>2. /\ loc'[Loop].reason = "Interrupted"
        /\ loc'[Loop].then \in {loc[Loop].then, "exiting"}
    BY <1>0, <1>3 DEF Interrupt, Shutdown, TypeOK, Locals
  <2>3. loc[Loop].then = "idle"
    BY <2>1 DEF Ownership, Roles
  <2> QED
    BY <2>1, <2>2, <2>3, LoopMoves DEF WillInstall, SlotEmptyLabels, Starting
<1>4. ASSUME NEW m \in Mails, Communicate(Loop, m) PROVE Ownership'
  <2>1. pc' = pc
    BY <1>0, <1>4 DEF Communicate, Goto, Ready, SingleStarter, IsTrigger, TypeOK
  <2> QED
    BY <1>4, <2>1, Unaffected DEF Communicate
<1>5. CASE Suspend(Loop)
  <2>1. /\ active.task # None /\ pc[Loop] = "idle" /\ pc'[Loop] = "kill"
        /\ \A q \in Procs \ {Loop} : pc'[q] = pc[q] /\ loc'[q] = loc[q]
        /\ active'.task = None /\ cancelled' = cancelled \cup {active.task}
        /\ UNCHANGED <<spent, terminal>>
    BY <1>0, <1>5 DEF Suspend, Ready, Goto, Idle, TypeOK
  <2>2. /\ loc'[Loop].victim = active.task /\ loc'[Loop].turn = loc[Loop].turn
        /\ loc'[Loop].then = "leaving" /\ loc'[Loop].reason = "Suspended"
    BY <1>0, <1>5 DEF Suspend, TypeOK, Locals
  <2> QED
    BY <2>1, <2>2, AbortBegins
<1>6. CASE ExitLoop(Loop)
  <2>1. /\ pc[Loop] = "exiting" /\ pc'[Loop] = "exited"
        /\ \A q \in Procs \ {Loop} : pc'[q] = pc[q]
        /\ UNCHANGED <<active, spent, cancelled, terminal, loc>>
    BY <1>0, <1>6 DEF ExitLoop, Goto, TypeOK
  <2>2. active.task = None
    BY <2>1 DEF Ownership, SlotNamesTask, SlotEmptyLabels
  <2> QED
    BY <2>1, <2>2, LoopMoves
    DEF Ownership, Roles, WillInstall, SlotEmptyLabels, Starting
<1>7. CASE FinishSuspend(Loop)
  <2>1. /\ pc[Loop] = "leaving"
        /\ \/ pc'[Loop] = "exited" /\ loc' = loc
           \/ pc'[Loop] = "idle" /\ loc'[Loop] = Blank("idle")
        /\ \A q \in Procs \ {Loop} : pc'[q] = pc[q] /\ loc'[q] = loc[q]
        /\ UNCHANGED <<active, spent, cancelled, terminal>>
    BY <1>0, <1>7 DEF FinishSuspend, Goto, TypeOK
  <2>2. active.task = None
    BY <2>1 DEF Ownership, SlotNamesTask, SlotEmptyLabels
  <2>3. CASE pc'[Loop] = "exited" /\ loc' = loc
    BY <2>1, <2>2, <2>3, LoopMoves
    DEF Ownership, Roles, WillInstall, SlotEmptyLabels, Starting
  <2>4. CASE pc'[Loop] = "idle" /\ loc'[Loop] = Blank("idle")
    BY <2>1, <2>2, <2>4, LoopMoves DEF WillInstall, SlotEmptyLabels, Starting, Blank
  <2> QED
    BY <2>1, <2>3, <2>4
<1> QED
  BY <1>1, <1>2, <1>3, <1>4, <1>5, <1>6, <1>7, StartIfIdleOwnership, SettleOwnership
  DEF LoopOp

\* Ownership is inductive, relative to the types.
LEMMA NextOwnership ==
  ASSUME SingleStarter, TypeOK, Ownership, [Next]_vars
  PROVE  Ownership'
<1>1. ASSUME NEW p \in Procs, Steps(p) PROVE Ownership'
  BY <1>1, Processes, LoopStepsOwnership, TaskStepsOwnership
<1>2. ASSUME NEW p \in Clients, ClientOp(p) PROVE Ownership'
  <2>1. p = Loop
    BY Processes
  <2>2. PICK u \in UserInputs : StartOrSteer(p, u)
    BY <1>2 DEF ClientOp
  <2>3. CASE SteerInput(u) \/ SteerRefused(u)
    BY <2>3, Unaffected DEF SteerInput, SteerRefused
  <2>4. CASE SpawnTask(p, "Regular", <<u>>)
    BY <2>1, <2>2, <2>4, SpawnOwnership DEF StartOrSteer, Ready
  <2> QED
    BY <2>2, <2>3, <2>4 DEF StartOrSteer
<1>3. CASE LoopOp(Loop)
  BY <1>3, LoopOpOwnership
<1>4. ASSUME NEW x \in Notices, Inject(x) PROVE Ownership'
  BY <1>4, Unaffected DEF Inject
<1>5. ASSUME NEW t \in Turns, RunTask(t) \/ OnTaskFinished(t) PROVE Ownership'
  BY <1>5, RunTaskOwnership, OnTaskFinishedOwnership
<1>6. \A t \in Turns : ~GuardianDenial(t)
  BY DEF GuardianDenial, SingleStarter
<1>7. CASE UNCHANGED vars
  BY <1>7, Unaffected DEF vars
<1> QED
  BY <1>1, <1>2, <1>3, <1>4, <1>5, <1>6, <1>7 DEF Next

(***************************************************************************)
(* What Ownership is for.                                                  *)
(***************************************************************************)

\* When only the submission loop starts turns, the slot, the loop's abort and
\* on_task_finished always agree on who ends the turn.
THEOREM OwnershipHolds == ASSUME SingleStarter PROVE Spec => []Ownership
<1>1. Init => Ownership
  BY InitOwnership
<1>2. TypeOK /\ Ownership /\ [Next]_vars => Ownership'
  BY NextOwnership
<1> QED
  BY <1>1, <1>2, TypeCorrect, PTL DEF Spec

\* A running task that is not being aborted can be found in the slot.
THEOREM RunningTaskIsInSlot ==
  ASSUME SingleStarter PROVE Spec => []RunningTaskOwnsSlot
<1>1. Ownership => RunningTaskOwnsSlot
  BY DEF Ownership, SlotNamesTask, RunningTaskOwnsSlot
<1> QED
  BY <1>1, OwnershipHolds, PTL

\* start_task's debug_assert holds: a task is only put into an empty slot.
THEOREM StartsOnlyInFreeSlot == ASSUME SingleStarter PROVE Spec => []TaskSlotFree
<1>1. Ownership => TaskSlotFree
  <2> SUFFICES ASSUME Ownership, NEW p \in Procs, pc[p] \in {"adopt", "install"}
               PROVE  active.task = None
    BY DEF TaskSlotFree
  <2>1. p = Loop
    BY Processes DEF Ownership, Roles, TaskLabels, Working
  <2> QED
    BY <2>1 DEF Ownership, SlotNamesTask, SlotEmptyLabels, Starting
<1> QED
  BY <1>1, OwnershipHolds, PTL

\* A turn is reported as over at most once, by its task or by its aborter, and nothing
\* of its task runs after that.
THEOREM TurnsEndOnce == ASSUME SingleStarter PROVE Spec => []TurnEndsOnce
<1>1. Ownership => TerminalOnce
  BY DEF Ownership, OneReporter, TerminalOnce
<1>2. Ownership => TerminalIsLast
  BY DEF Ownership, OneReporter, TerminalIsLast
<1>3. Ownership => TurnEndsOnce
  BY <1>1, <1>2 DEF TurnEndsOnce
<1> QED
  BY <1>3, OwnershipHolds, PTL

\* The session has at most one task running at a time.
THEOREM OneTaskAtATime == ASSUME SingleStarter PROVE Spec => []OneTaskRunning
<1>1. Ownership => OneTaskRunning
  <2> SUFFICES ASSUME Ownership, NEW t \in Turns, NEW u \in Turns,
                      pc[t] \in Working, pc[u] \in Working
               PROVE  t = u
    BY DEF OneTaskRunning
  <2>1. pc[Loop] = "kill" => active.task = None
    BY DEF Ownership, SlotNamesTask, SlotEmptyLabels
  <2> QED
    BY <2>1, Processes DEF Ownership, SlotNamesTask
<1> QED
  BY <1>1, OwnershipHolds, PTL

\* Together: the slot guards the one running task, in every session whose
\* turns only the submission loop starts.
THEOREM SlotIsSafe == ASSUME SingleStarter PROVE Spec => []SlotGuardsTask
<1>1. RunningTaskOwnsSlot /\ TaskSlotFree /\ OneTaskRunning => SlotGuardsTask
  BY DEF SlotGuardsTask
<1> QED
  BY <1>1, RunningTaskIsInSlot, StartsOnlyInFreeSlot, OneTaskAtATime, PTL

(***************************************************************************)
(* What a step of such a session does to the slot, the turn states and the *)
(* reports.  Every step is of one of the kinds below.                      *)
(***************************************************************************)

LoopAlone == \A q \in Procs \ {Loop} : pc'[q] = pc[q] /\ loc'[q] = loc[q]
TaskAlone(t) == \A q \in Procs \ {t} : pc'[q] = pc[q] /\ loc'[q] = loc[q]
SameCall == loc'[Loop].then = loc[Loop].then /\ loc'[Loop].reason = loc[Loop].reason

\* start_task, or start_if_idle, goes on with the slot as it is.
StartGoesOn ==
    /\ LoopAlone /\ SameCall /\ loc'[Loop].ts = loc[Loop].ts
    /\ pc[Loop] \in Starting /\ pc'[Loop] \in Starting \ {"ifidle"}
    /\ tstate' \in {tstate, Extended(loc[Loop].ts, loc[Loop].mail)}
    /\ UNCHANGED <<active, spent, status, cancelled, suspended, terminal>>

\* start_task finds the turn state of the slot, or puts a fresh one there.
StartAdopts ==
    /\ LoopAlone /\ SameCall /\ CanFillSlot /\ loc'[Loop].ts = SlotState
    /\ pc[Loop] = "adopt" /\ pc'[Loop] = "extend"
    /\ active' = [active EXCEPT !.ts = SlotState] /\ spent' = spent \cup {SlotState}
    /\ UNCHANGED <<tstate, status, cancelled, suspended, terminal>>

\* start_task puts the task into the slot.
StartInstalls(t) ==
    /\ CanFillSlot /\ pc[Loop] = "install" /\ pc'[Loop] = "idle"
    /\ pc[t] = "unborn" /\ pc'[t] = "begin" /\ loc'[t].ts = None
    /\ \A q \in Procs \ {Loop, t} : pc'[q] = pc[q] /\ loc'[q] = loc[q]
    /\ loc'[Loop] = Blank("idle")
    /\ active' = [ts |-> SlotState, task |-> t, kind |-> loc[Loop].kind]
    /\ spent' = spent \cup {SlotState}
    /\ UNCHANGED <<tstate, status, cancelled, suspended, terminal>>

\* The loop takes the running task out of the slot.
LoopTakes ==
    /\ LoopAlone /\ active.task # None /\ active' = Idle
    /\ pc[Loop] \in {"idle", "abort"} /\ pc'[Loop] = "kill"
    /\ loc'[Loop].victim = active.task /\ loc'[Loop].ts = active.ts
    /\ \/ SameCall /\ suspended' = suspended
       \/ loc'[Loop].reason = "Suspended" /\ suspended' = suspended \cup {active.task}
    /\ cancelled' = cancelled \cup {active.task}
    /\ status' \in {status, "Interrupted"}
    /\ UNCHANGED <<tstate, spent, terminal>>

\* The task that was taken out is gone.
LoopKills(v) ==
    /\ v = loc[Loop].victim /\ pc[Loop] = "kill"
    /\ pc'[Loop] = IF loc[Loop].reason = "Suspended" THEN "wipe" ELSE "tell"
    /\ pc'[v] = "dead" /\ loc'[v].ts = None /\ loc'[Loop] = loc[Loop]
    /\ \A q \in Procs \ {Loop, v} : pc'[q] = pc[q] /\ loc'[q] = loc[q]
    /\ UNCHANGED <<active, tstate, spent, status, cancelled, suspended, terminal>>

\* TurnAborted is sent.
LoopReports ==
    /\ LoopAlone /\ loc'[Loop] = loc[Loop]
    /\ pc[Loop] = "tell" /\ pc'[Loop] = "wipe"
    /\ terminal' = [terminal EXCEPT ![loc[Loop].victim] = Append(@, "aborted")]
    /\ status' # "Running"
    /\ UNCHANGED <<active, tstate, spent, cancelled, suspended>>

\* What was pending in the aborted turn is cleared.
LoopWipes ==
    /\ LoopAlone /\ loc'[Loop].then = loc[Loop].then /\ loc'[Loop].reason # "Suspended"
    /\ loc'[Loop].ts = None
    /\ pc[Loop] = "wipe" /\ pc'[Loop] \in {"maybe", "drain", "abort"}
    /\ tstate' = [tstate EXCEPT ![loc[Loop].ts].items = <<>>]
    /\ UNCHANGED <<active, spent, status, cancelled, suspended, terminal>>

\* The loop takes up an operation or is done with one, without a task.
LoopMovesOn ==
    /\ LoopAlone /\ loc'[Loop].ts \in {loc[Loop].ts, None}
    /\ loc'[Loop].reason \in {loc[Loop].reason, "Interrupted", "Replaced"}
    /\ pc[Loop] \in {"idle", "abort", "maybe", "exiting", "leaving"}
    /\ pc'[Loop] \in {"idle", "abort", "drain", "exiting", "leaving", "exited"}
    /\ \/ active' = active
       \/ active.task = None /\ active' = Idle
    /\ pc'[Loop] = "drain" => active' = Idle
    /\ pc'[Loop] = "exited" => status' = "Shutdown"
    /\ pc'[Loop] # "exited" => status' = status
    /\ spent \subseteq spent' /\ spent' \ spent \subseteq Turns
    /\ UNCHANGED <<tstate, cancelled, suspended, terminal>>

\* start_if_idle reserves the slot.
LoopReserves ==
    /\ LoopAlone /\ SameCall /\ loc'[Loop].ts = NewState /\ FreeStates # {}
    /\ pc[Loop] = "idle" /\ pc'[Loop] = "ifidle"
    /\ active.ts = None /\ active' = Reserved(NewState)
    /\ NewState \in spent' /\ spent \subseteq spent' /\ spent' \ spent \subseteq Turns \cup {NewState}
    /\ UNCHANGED <<tstate, status, cancelled, suspended, terminal>>

\* It gives the reservation back.
LoopGivesUp ==
    /\ LoopAlone /\ loc'[Loop] = Blank("idle")
    /\ pc[Loop] = "ifidle" /\ pc'[Loop] = "idle"
    /\ active' = IF active.task = None /\ active.ts = loc[Loop].ts THEN Idle ELSE active
    /\ UNCHANGED <<tstate, spent, status, cancelled, suspended, terminal>>

\* Input goes to the turn in the slot, or nothing of this changes.
InputArrives(q) ==
    /\ \/ tstate' = tstate
       \/ /\ active.ts # None
          /\ active.task # None \/ "Inject" \in Ops
          /\ tstate' = ExtendedAndOpen(active.ts, q)
    /\ UNCHANGED <<active, spent, status, cancelled, suspended, terminal, pc, loc>>

\* A task works on.
TaskWorksOn(t) ==
    /\ TaskAlone(t) /\ loc'[t].ts = loc[t].ts
    /\ pc[t] \in Working /\ pc'[t] \in Working
    /\ \/ tstate' \in {tstate, Opened(t), Deferred(t)}
       \/ active.ts # None /\ tstate' = [tstate EXCEPT ![active.ts].items = <<>>]
    /\ UNCHANGED <<active, spent, cancelled, suspended, terminal>>

\* A task is over.
TaskLeaves(t) ==
    /\ TaskAlone(t) /\ loc'[t].ts = None /\ pc'[t] = "dead"
    /\ \/ pc[t] \in {"end", "take"} /\ t \in cancelled
       \/ pc[t] = "clear" /\ ~(active.task = None /\ active.ts = loc[t].ts)
       \/ pc[t] = "maybe"
    /\ UNCHANGED <<active, tstate, spent, status, cancelled, suspended, terminal>>

\* A task leaves the slot.
TaskTakes(t) ==
    /\ TaskAlone(t) /\ pc[t] = "take" /\ pc'[t] = "report" /\ loc'[t].ts = active.ts
    /\ active.task = t /\ active' = [active EXCEPT !.task = None]
    /\ UNCHANGED <<tstate, spent, status, cancelled, suspended, terminal>>

\* A task records what is pending and sends its terminal event.
TaskReports(t) ==
    /\ TaskAlone(t) /\ pc[t] = "report" /\ pc'[t] = "clear" /\ loc'[t] = loc[t]
    /\ tstate' = [tstate EXCEPT ![loc[t].ts].items = <<>>]
    /\ \E e \in {"aborted", "complete"} : terminal' = [terminal EXCEPT ![t] = Append(@, e)]
    /\ status' # "Running"
    /\ UNCHANGED <<active, spent, cancelled, suspended>>

\* A task clears the slot it finds as it left it.
TaskClears(t) ==
    /\ TaskAlone(t) /\ pc[t] = "clear" /\ pc'[t] = "maybe" /\ loc'[t] = loc[t]
    /\ active.task = None /\ active.ts = loc[t].ts /\ active' = Idle
    /\ UNCHANGED <<tstate, spent, status, cancelled, suspended, terminal>>

LoopKind == \/ StartGoesOn \/ StartAdopts \/ LoopTakes \/ LoopReports \/ LoopWipes
            \/ LoopMovesOn \/ LoopReserves \/ LoopGivesUp
            \/ \E t \in Turns : StartInstalls(t) \/ LoopKills(t)
            \/ \E q \in Seq(Items) : InputArrives(q)
TaskKind(t) == TaskWorksOn(t) \/ TaskLeaves(t) \/ TaskTakes(t) \/ TaskReports(t) \/ TaskClears(t)

\* A step of a task is of a task's kind.
LEMMA TaskKinds ==
  ASSUME SingleStarter, TypeOK, Ownership, NEW t \in Turns,
         RunTask(t) \/ OnTaskFinished(t) \/ Steps(t)
  PROVE  TaskKind(t)
<1>0. t \in Procs /\ loc[t] \in Locals /\ loc[t].then = "dead" /\ pc[t] \in TaskLabels
  BY DEF TypeOK, Procs, Ownership, Roles
<1>1. CASE RunTask(t)
  <2>1. pc[t] \in Working
    BY <1>1 DEF RunTask, Begin, RunCompact, RecordInput, FailPrepare, CancelPrepare,
         SessionStartStops, DrainPending, RecordPending, SampleAnswer,
         SampleToolCall, SampleFails, RollOverFails, FollowUp, NoFollowUp,
         StopHookBlocks, RunAgain, Working
  <2>2. \E l \in Working : pc' = [pc EXCEPT ![t] = l]
    BY <1>1 DEF RunTask, Begin, RunCompact, RecordInput, FailPrepare, CancelPrepare,
         SessionStartStops, DrainPending, RecordPending, SampleAnswer,
         SampleToolCall, SampleFails, RollOverFails, FollowUp, NoFollowUp,
         StopHookBlocks, RunAgain, TakePending, Goto, Working
  <2>3. \A q \in Procs : loc'[q].ts = loc[q].ts /\ (q # t => loc'[q] = loc[q])
    BY <1>0, <1>1 DEF RunTask, Begin, RunCompact, RecordInput, FailPrepare,
         CancelPrepare, SessionStartStops, DrainPending, RecordPending, SampleAnswer,
         SampleToolCall, SampleFails, RollOverFails, FollowUp, NoFollowUp,
         StopHookBlocks, RunAgain, TakePending, TypeOK, Locals
  <2>4. UNCHANGED <<active, spent, cancelled, suspended, terminal>>
    BY <1>1 DEF RunTask, Begin, RunCompact, RecordInput, FailPrepare, CancelPrepare,
         SessionStartStops, DrainPending, RecordPending, SampleAnswer,
         SampleToolCall, SampleFails, RollOverFails, FollowUp, NoFollowUp,
         StopHookBlocks, RunAgain, TakePending
  <2>5. \/ tstate' \in {tstate, Opened(t), Deferred(t)}
        \/ active.ts # None /\ tstate' = [tstate EXCEPT ![active.ts].items = <<>>]
    BY <1>1 DEF RunTask, Begin, RunCompact, RecordInput, FailPrepare, CancelPrepare,
         SessionStartStops, DrainPending, RecordPending, SampleAnswer,
         SampleToolCall, SampleFails, RollOverFails, FollowUp, NoFollowUp,
         StopHookBlocks, RunAgain, TakePending
  <2> QED
    BY <1>0, <2>1, <2>2, <2>3, <2>4, <2>5 DEF TaskKind, TaskWorksOn, TaskAlone, TypeOK
<1>2. ASSUME Return(t)
      PROVE  TaskAlone(t) /\ loc'[t].ts = None /\ pc'[t] = "dead"
  BY <1>0, <1>2 DEF Return, TaskAlone, TypeOK, Blank
<1>3. CASE CheckCancelled(t)
  <2>1. CASE t \in cancelled
    BY <1>2, <1>3, <2>1 DEF CheckCancelled, TaskKind, TaskLeaves
  <2>2. CASE t \notin cancelled
    <3>1. /\ pc[t] = "end" /\ pc' = [pc EXCEPT ![t] = "take"]
          /\ UNCHANGED <<active, tstate, spent, cancelled, suspended, terminal, loc>>
      BY <1>3, <2>2 DEF CheckCancelled, Goto
    <3>2. TaskAlone(t) /\ pc'[t] = "take"
      BY <1>0, <3>1 DEF TaskAlone, TypeOK
    <3> QED
      BY <3>1, <3>2 DEF TaskKind, TaskWorksOn, Working
  <2> QED
    BY <2>1, <2>2
<1>4. CASE FinishTake(t)
  <2>0. pc[t] = "take" /\ "take" \in Working
    BY <1>4 DEF FinishTake, Working
  <2>1. CASE active.task = None
    <3>1. t \in cancelled
      BY <2>0, <2>1, Processes DEF Ownership, SlotNamesTask
    <3> QED
      BY <1>2, <1>4, <2>0, <2>1, <3>1 DEF FinishTake, TaskKind, TaskLeaves
  <2>2. CASE active.task # None
    <3>1. active.task = t
      BY <2>0, <2>2 DEF Ownership, SlotNamesTask, SlotEmptyLabels
    <3>2. /\ active' = [active EXCEPT !.task = None] /\ pc' = [pc EXCEPT ![t] = "report"]
          /\ loc' = [loc EXCEPT ![t].ts = active.ts]
          /\ UNCHANGED <<tstate, spent, status, cancelled, suspended, terminal>>
      BY <1>4, <2>2 DEF FinishTake, Goto
    <3>3. TaskAlone(t) /\ pc'[t] = "report" /\ loc'[t].ts = active.ts
      BY <1>0, <3>2 DEF TaskAlone, TypeOK, Locals
    <3> QED
      BY <2>0, <3>1, <3>2, <3>3 DEF TaskKind, TaskTakes
  <2> QED
    BY <2>1, <2>2
<1>5. CASE FinishReport(t)
  BY <1>0, <1>5 DEF FinishReport, TaskKind, TaskReports, TaskAlone, Goto, TypeOK
<1>6. CASE FinishClear(t)
  <2>1. CASE active.task = None /\ active.ts = loc[t].ts
    BY <1>0, <1>6, <2>1 DEF FinishClear, TaskKind, TaskClears, TaskAlone, Goto, TypeOK
  <2>2. CASE ~(active.task = None /\ active.ts = loc[t].ts)
    BY <1>2, <1>6, <2>2 DEF FinishClear, TaskKind, TaskLeaves
  <2> QED
    BY <2>1, <2>2
<1>7. CASE Steps(t)
  <2>1. pc[t] = "maybe"
    BY <1>0, <1>7 DEF TaskLabels, Working, Steps, StartTask, StartTaskDrain,
       StartTaskAdopt, StartTaskExtend, StartTaskInstall, MaybeStartTurn,
       CheckPendingWork, ReserveForWork, ReserveRefused, GatherPending, HandOver,
       AbortTask, AbortAllTasks, AbortNothing, AbortTurnIfActive, KillTask,
       ReportAborted, WipePending
  <2>2. CheckPendingWork(t)
    BY <1>7, <2>1 DEF Steps, StartTask, StartTaskDrain,
       StartTaskAdopt, StartTaskExtend, StartTaskInstall, MaybeStartTurn,
       CheckPendingWork, ReserveForWork, ReserveRefused, GatherPending, HandOver,
       AbortTask, AbortAllTasks, AbortNothing, AbortTurnIfActive, KillTask,
       ReportAborted, WipePending
  <2> QED
    BY <1>2, <2>1, <2>2, NothingWakes DEF CheckPendingWork, TaskKind, TaskLeaves
<1> QED
  BY <1>1, <1>3, <1>4, <1>5, <1>6, <1>7 DEF OnTaskFinished

\* A step of the submission loop, or of a client, is of one of the loop's kinds.
LEMMA LoopKinds ==
  ASSUME SingleStarter, TypeOK, Ownership,
         \/ Steps(Loop) \/ ClientOp(Loop) \/ LoopOp(Loop)
         \/ \E x \in Notices : Inject(x)
         \/ UNCHANGED vars
  PROVE  LoopKind
<1>0. Loop \in Procs /\ loc[Loop] \in Locals
  BY Processes DEF TypeOK
<1>a. /\ pc[Loop] \in SlotEmptyLabels \cup {"idle", "abort"}
      /\ loc[Loop].then \in {"idle", "exiting", "leaving"}
  BY DEF Ownership, Roles
<1>b. <<>> \in Seq(Items)
  BY EmptyItems
<1>c. ASSUME NEW l, Goto(Loop, l) PROVE pc'[Loop] = l /\ \A q \in Procs \ {Loop} : pc'[q] = pc[q]
  BY <1>0, <1>c DEF Goto, TypeOK
<1>d. ASSUME Return(Loop)
      PROVE  /\ LoopAlone /\ pc'[Loop] = loc[Loop].then /\ loc'[Loop].ts = None
             /\ loc'[Loop].then = loc[Loop].then /\ loc'[Loop].reason = "Interrupted"
  BY <1>0, <1>d DEF Return, LoopAlone, TypeOK, Blank
<1>1. CASE StartTask(Loop)
  <2>1. CASE StartTaskDrain(Loop)
    BY <1>0, <1>c, <2>1 DEF StartTaskDrain, LoopKind, StartGoesOn, LoopAlone, SameCall,
       Starting, TypeOK, Locals
  <2>2. CASE StartTaskAdopt(Loop)
    BY <1>0, <1>c, <2>2 DEF StartTaskAdopt, LoopKind, StartAdopts, LoopAlone, SameCall,
       TypeOK, Locals
  <2>3. CASE StartTaskExtend(Loop)
    BY <1>0, <1>c, <2>3 DEF StartTaskExtend, LoopKind, StartGoesOn, LoopAlone, SameCall,
       Starting, TypeOK, Locals
  <2>4. CASE StartTaskInstall(Loop)
    <3>1. /\ pc[Loop] = "install" /\ loc[Loop].turn \in Turns /\ active.task = None
          /\ pc[loc[Loop].turn] = "unborn" /\ loc[Loop].then = "idle"
      BY <2>4 DEF StartTaskInstall, Ownership, FreshIds, WillInstall, Starting, SlotNamesTask,
         SlotEmptyLabels, Roles
    <3>2. StartInstalls(loc[Loop].turn)
      BY <2>4, <3>1, <1>0, Processes DEF StartTaskInstall, StartInstalls, Blank
    <3> QED
      BY <3>1, <3>2 DEF LoopKind
  <2> QED
    BY <1>1, <2>1, <2>2, <2>3, <2>4 DEF StartTask
<1>2. CASE MaybeStartTurn(Loop)
  <2>1. CheckPendingWork(Loop)
    BY <1>2, <1>a DEF MaybeStartTurn, ReserveForWork, ReserveRefused, GatherPending,
                HandOver, SlotEmptyLabels, Starting
  <2>2. Return(Loop) /\ UNCHANGED <<active, tstate, spent, status, cancelled, suspended, terminal>> /\ pc[Loop] = "maybe"
    BY <2>1, NothingWakes DEF CheckPendingWork
  <2> QED
    BY <1>a, <1>d, <2>2 DEF LoopKind, LoopMovesOn
<1>3. CASE AbortTask(Loop)
  <2>1. CASE AbortAllTasks(Loop)
    <3>1. /\ pc[Loop] = "abort" /\ active.task # None /\ Goto(Loop, "kill")
          /\ loc' = [loc EXCEPT ![Loop].victim = active.task, ![Loop].ts = active.ts]
          /\ status' \in {status, "Interrupted"} /\ active' = Idle
          /\ cancelled' = cancelled \cup {active.task}
          /\ UNCHANGED <<tstate, spent, terminal, suspended>>
      BY <2>1 DEF AbortAllTasks, TakeTask
    <3>2. /\ \A q \in Procs \ {Loop} : loc'[q] = loc[q]
          /\ loc'[Loop].victim = active.task /\ loc'[Loop].ts = active.ts
          /\ loc'[Loop].then = loc[Loop].then /\ loc'[Loop].reason = loc[Loop].reason
      BY <1>0, <3>1 DEF TypeOK, Locals
    <3> QED
      BY <1>c, <3>1, <3>2 DEF LoopKind, LoopTakes, LoopAlone, SameCall
  <2>2. CASE AbortNothing(Loop)
    <3>1. CASE loc[Loop].reason = "Replaced"
      BY <1>c, <2>2, <3>1 DEF AbortNothing, LoopKind, LoopMovesOn, LoopAlone
    <3>2. CASE loc[Loop].reason # "Replaced"
      BY <1>a, <1>d, <2>2, <3>2 DEF AbortNothing, LoopKind, LoopMovesOn
    <3> QED
      BY <3>1, <3>2
  <2>3. ~AbortTurnIfActive(Loop)
    BY <1>a DEF AbortTurnIfActive, SlotEmptyLabels, Starting
  <2>4. CASE KillTask(Loop)
    <3>1. loc[Loop].victim \in Turns /\ pc[Loop] = "kill"
      BY <2>4 DEF KillTask, Ownership, OneReporter
    <3>2. LoopKills(loc[Loop].victim)
      BY <1>0, <2>4, <3>1, Processes DEF KillTask, LoopKills, TypeOK, Blank
    <3> QED
      BY <3>1, <3>2 DEF LoopKind
  <2>5. CASE ReportAborted(Loop)
    BY <1>c, <2>5 DEF ReportAborted, LoopKind, LoopReports, LoopAlone
  <2>6. CASE WipePending(Loop)
    <3>1. /\ pc[Loop] = "wipe" /\ Goto(Loop, AfterAbort(loc[Loop].reason))
          /\ tstate' = [tstate EXCEPT ![loc[Loop].ts].items = <<>>]
          /\ UNCHANGED <<active, spent, status, cancelled, suspended, terminal>>
      BY <2>6 DEF WipePending
    <3>2. /\ \A q \in Procs \ {Loop} : loc'[q] = loc[q]
          /\ loc'[Loop].then = loc[Loop].then /\ loc'[Loop].reason # "Suspended"
          /\ loc'[Loop].ts = None
      BY <1>0, <2>6 DEF WipePending, TypeOK, Locals, Reasons
    <3>3. AfterAbort(loc[Loop].reason) \in {"maybe", "drain", "abort"}
      BY <1>0 DEF AfterAbort, Locals, Reasons
    <3> QED
      BY <1>c, <3>1, <3>2, <3>3 DEF LoopKind, LoopWipes, LoopAlone
  <2> QED
    BY <1>3, <2>1, <2>2, <2>3, <2>4, <2>5, <2>6 DEF AbortTask
<1>4. ASSUME NEW kind, NEW input, pc[Loop] = "idle", SpawnTask(Loop, kind, input) PROVE LoopKind
  <2>1. /\ Goto(Loop, "abort") /\ spent' = spent \cup {NewTurn} /\ NewTurn \in Turns
        /\ UNCHANGED <<active, tstate, status, cancelled, suspended, terminal>>
    BY <1>4 DEF SpawnTask, NewTurn, FreeTurns
  <2>2. /\ \A q \in Procs \ {Loop} : loc'[q] = loc[q]
        /\ loc'[Loop].then = loc[Loop].then /\ loc'[Loop].reason = "Replaced"
        /\ loc'[Loop].ts = loc[Loop].ts
    BY <1>0, <1>4 DEF SpawnTask, TypeOK, Locals
  <2> QED
    BY <1>4, <1>c, <2>1, <2>2 DEF LoopKind, LoopMovesOn, LoopAlone
<1>5. ASSUME NEW u \in UserInputs, SteerInput(u) PROVE LoopKind
  <2>1. active.ts # None /\ <<u>> \in Seq(Items)
    BY <1>5 DEF SteerInput, Ownership, SlotNamesTask, Items
  <2>2. InputArrives(<<u>>)
    BY <1>5, <2>1 DEF SteerInput, InputArrives
  <2> QED
    BY <2>1, <2>2 DEF LoopKind
<1>6. ASSUME UNCHANGED <<active, tstate, spent, status, cancelled, suspended, terminal, pc, loc>> PROVE LoopKind
  BY <1>6, <1>b DEF LoopKind, InputArrives
<1>7. CASE ClientOp(Loop)
  <2>1. PICK u \in UserInputs : StartOrSteer(Loop, u)
    BY <1>7 DEF ClientOp
  <2> QED
    BY <2>1, <1>4, <1>5, <1>6 DEF StartOrSteer, Ready, SteerRefused
<1>8. CASE LoopOp(Loop)
  <2>1. ASSUME NEW u \in UserInputs, Steer(Loop, u) PROVE LoopKind
    BY <2>1, <1>5, <1>6 DEF Steer, SteerRefused
  <2>2. ASSUME NEW op, NEW input, NEW extra, StartIfIdle(Loop, op, input, extra) PROVE LoopKind
    <3>1. CASE active.ts # None
      BY <2>2, <3>1, <1>6 DEF StartIfIdle
    <3>2. CASE active.ts = None
      <4>1. /\ pc[Loop] = "idle" /\ FreeTurns # {} /\ FreeStates # {}
            /\ active' = Reserved(NewState) /\ spent' = spent \cup {NewState, NewTurn}
            /\ loc' = [loc EXCEPT ![Loop] = [@ EXCEPT !.ts = NewState, !.turn = NewTurn,
                      !.kind = "Regular", !.input = input, !.mail = extra]]
            /\ Goto(Loop, "ifidle")
            /\ UNCHANGED <<tstate, status, cancelled, suspended, terminal>>
        BY <2>2, <3>2, NothingWakes DEF StartIfIdle, Ready
      <4>2. NewTurn \in Turns
        BY <4>1 DEF NewTurn, FreeTurns
      <4>3. /\ \A q \in Procs \ {Loop} : loc'[q] = loc[q]
            /\ SameCall /\ loc'[Loop].ts = NewState
        BY <1>0, <4>1 DEF TypeOK, Locals, SameCall
      <4> QED
        BY <1>c, <3>2, <4>1, <4>2, <4>3 DEF LoopKind, LoopReserves, LoopAlone
    <3> QED
      BY <3>1, <3>2
  <2>3. CASE SettleIdleStart(Loop)
    <3>0. pc[Loop] = "ifidle" /\ loc[Loop].then = "idle"
      BY <2>3 DEF SettleIdleStart, Ownership, Roles, Starting
    <3>1. CASE GiveUpIdleStart(Loop, loc[Loop].then)
      BY <1>0, <1>c, <3>0, <3>1 DEF GiveUpIdleStart, ClearReserved, LoopKind, LoopGivesUp,
         LoopAlone, TypeOK
    <3>2. CASE /\ tstate' = Extended(loc[Loop].ts, loc[Loop].mail)
               /\ loc' = [loc EXCEPT ![Loop].mail = <<>>]
               /\ Goto(Loop, "drain")
               /\ UNCHANGED <<active, spent, mailbox, history, status,
                              cancelled, terminal, fate, posted, suspended>>
      BY <1>0, <1>c, <3>0, <3>2 DEF LoopKind, StartGoesOn, LoopAlone, SameCall, Starting,
         TypeOK, Locals
    <3> QED
      BY <2>3, <3>1, <3>2, NothingWakes DEF SettleIdleStart
  <2>4. CASE CompactOp(Loop)
    BY <2>4, <1>4 DEF CompactOp, Ready
  <2>5. CASE Interrupt(Loop) \/ Shutdown(Loop)
    <3>1. /\ \A q \in Procs \ {Loop} : loc'[q] = loc[q]
          /\ loc'[Loop].reason = "Interrupted" /\ loc'[Loop].ts = loc[Loop].ts
      BY <1>0, <2>5 DEF Interrupt, Shutdown, TypeOK, Locals
    <3> QED
      BY <1>c, <2>5, <3>1 DEF Interrupt, Shutdown, Ready, LoopKind, LoopMovesOn, LoopAlone
  <2>6. ASSUME NEW m \in Mails, Communicate(Loop, m) PROVE LoopKind
    <3>1. pc' = pc
      BY <1>0, <2>6 DEF Communicate, Goto, Ready, SingleStarter, IsTrigger, TypeOK
    <3> QED
      BY <2>6, <3>1, <1>6 DEF Communicate
  <2>7. CASE Suspend(Loop)
    <3>1. /\ \A q \in Procs \ {Loop} : loc'[q] = loc[q]
          /\ loc'[Loop].victim = active.task /\ loc'[Loop].ts = active.ts
          /\ loc'[Loop].reason = "Suspended"
      BY <1>0, <2>7 DEF Suspend, TypeOK, Locals
    <3> QED
      BY <1>c, <2>7, <3>1 DEF Suspend, Ready, LoopKind, LoopTakes, LoopAlone
  <2>8. CASE ExitLoop(Loop)
    BY <1>c, <2>8 DEF ExitLoop, LoopKind, LoopMovesOn, LoopAlone
  <2>9. CASE FinishSuspend(Loop)
    <3>1. /\ \A q \in Procs \ {Loop} : pc'[q] = pc[q] /\ loc'[q] = loc[q]
          /\ pc[Loop] = "leaving" /\ loc'[Loop] \in {loc[Loop], Blank("idle")}
          /\ \/ pc'[Loop] = "exited" /\ status' = "Shutdown"
             \/ pc'[Loop] = "idle" /\ status' = status
          /\ UNCHANGED <<active, tstate, spent, cancelled, terminal, suspended>>
      BY <1>0, <2>9 DEF FinishSuspend, Goto, TypeOK
    <3>2. loc'[Loop].ts \in {loc[Loop].ts, None} /\ loc'[Loop].reason \in {loc[Loop].reason, "Interrupted"}
      BY <3>1 DEF Blank
    <3> QED
      BY <3>1, <3>2 DEF LoopKind, LoopMovesOn, LoopAlone
  <2> QED
    BY <1>8, <2>1, <2>2, <2>3, <2>4, <2>5, <2>6, <2>7, <2>8, <2>9 DEF LoopOp
<1>9. ASSUME NEW x \in Notices, Inject(x) PROVE LoopKind
  <2>1. <<x>> \in Seq(Items)
    BY DEF Items
  <2>2. InputArrives(<<x>>)
    BY <1>9, <2>1 DEF Inject, InputArrives
  <2> QED
    BY <2>1, <2>2 DEF LoopKind
<1>10. CASE UNCHANGED vars
  BY <1>10, <1>6 DEF vars
<1> QED
  BY <1>1, <1>2, <1>3, <1>7, <1>8, <1>9, <1>10 DEF Steps

\* Every step is of one of the kinds.
LEMMA StepKinds ==
  ASSUME SingleStarter, TypeOK, Ownership, [Next]_vars
  PROVE  LoopKind \/ \E t \in Turns : TaskKind(t)
<1>1. \A t \in Turns : ~GuardianDenial(t)
  BY DEF GuardianDenial, SingleStarter
<1>2. ~Steps(Guard)
  BY DEF Ownership, Roles, Steps, StartTask, StartTaskDrain, StartTaskAdopt,
     StartTaskExtend, StartTaskInstall, MaybeStartTurn, CheckPendingWork, ReserveForWork,
     ReserveRefused, GatherPending, HandOver, AbortTask, AbortAllTasks, AbortNothing,
     AbortTurnIfActive, KillTask, ReportAborted, WipePending
<1>3. ASSUME NEW p \in Procs, Steps(p) PROVE p = Loop \/ p \in Turns
  BY <1>2, <1>3, Processes
<1>4. \A p \in Clients : p = Loop
  BY Processes
<1> QED
  BY <1>1, <1>3, <1>4, TaskKinds, LoopKinds DEF Next

(***************************************************************************)
(* Who holds a turn state: the slot, the loop from the reservation to the  *)
(* start and during an abort, a task from leaving the slot to its end.     *)
(***************************************************************************)

Taking == {"kill", "tell", "wipe"}

\* A turn state that somebody holds was handed out.
HeldStates ==
    /\ \A p \in Procs : loc[p].ts = None \/ loc[p].ts \in spent
    /\ active.ts = None \/ active.ts \in spent

\* What the loop knows of the slot at its labels.
LoopAndSlot ==
    /\ active.ts = None => active = Idle
    /\ pc[Loop] \in Taking => active = Idle
    /\ pc[Loop] \in Starting => active.ts = loc[Loop].ts
    /\ pc[Loop] \notin Starting \cup Taking => loc[Loop].ts = None

\* A finishing task holds a turn state, which no other turn is in.
FinishingHolds ==
    \A t \in Turns : loc[t].ts # None =>
        /\ pc[t] \in {"report", "clear", "maybe"}
        /\ loc[t].ts = active.ts =>
              active.task = None /\ pc[Loop] \notin Starting /\ pc[t] # "maybe"

\* A slot without a task is being filled, or its task is about to clear it.
ReservedFor ==
    active.ts # None /\ active.task = None =>
        \/ pc[Loop] \in Starting
        \/ \E t \in Turns : pc[t] \in {"report", "clear"} /\ loc[t].ts = active.ts

HoldersInv == HeldStates /\ LoopAndSlot /\ FinishingHolds /\ ReservedFor

LEMMA InitHolders == ASSUME SingleStarter PROVE Init => HoldersInv
<1> SUFFICES ASSUME Init PROVE HoldersInv
  OBVIOUS
<1>1. /\ pc[Loop] = "idle" /\ \A p \in Procs : loc[p].ts = None
      /\ active = Idle /\ active.ts = None
  BY Processes DEF Init, Blank, Idle
<1>2. Loop \in Procs /\ Turns \subseteq Procs
  BY DEF Procs, Clients
<1> QED
  BY <1>1, <1>2 DEF HoldersInv, HeldStates, LoopAndSlot, FinishingHolds, ReservedFor, Starting, Taking

\* A fresh turn state is nobody's.
LEMMA FreshState ==
  ASSUME FreeStates # {}
  PROVE  NewState \in States /\ NewState \notin spent /\ NewState # None
  BY ConstantsAssumption DEF NewState, FreeStates

\* A step of a task.
LEMMA TaskHolders ==
  ASSUME SingleStarter, TypeOK, Ownership, HoldersInv, Ownership',
         NEW t \in Turns, TaskKind(t)
  PROVE  HoldersInv'
<1>0. /\ Loop \in Procs /\ t \in Procs /\ Loop # t /\ Turns \subseteq Procs /\ t # None
      /\ Loop \notin Turns
  BY Processes DEF Procs, Clients
<1>1. /\ TaskAlone(t) /\ spent' = spent
      /\ pc'[Loop] = pc[Loop] /\ loc'[Loop] = loc[Loop]
      /\ \A u \in Turns \ {t} : pc'[u] = pc[u] /\ loc'[u] = loc[u]
  BY <1>0 DEF TaskKind, TaskWorksOn, TaskLeaves, TaskTakes, TaskReports, TaskClears, TaskAlone
<1>2. CASE TaskWorksOn(t) \/ TaskLeaves(t) \/ TaskReports(t)
  <2>1. /\ active' = active /\ pc'[t] # "unborn" /\ loc'[t].ts \in {loc[t].ts, None}
        /\ \/ loc'[t].ts = None
           \/ pc[t] = "report" /\ pc'[t] = "clear"
    <3>1. CASE TaskWorksOn(t)
      <4>1. loc[t].ts = None
        BY <3>1 DEF TaskWorksOn, HoldersInv, FinishingHolds, Working
      <4> QED
        BY <3>1, <4>1 DEF TaskWorksOn, Working
    <3> QED
      BY <1>2, <3>1 DEF TaskLeaves, TaskReports
  <2>2. HeldStates'
    BY <1>0, <1>1, <2>1 DEF HoldersInv, HeldStates, TaskAlone
  <2>3. LoopAndSlot'
    BY <1>1, <2>1 DEF HoldersInv, LoopAndSlot
  <2>4. FinishingHolds'
    BY <1>1, <2>1 DEF HoldersInv, FinishingHolds
  <2>5. ReservedFor'
    <3> SUFFICES ASSUME active.ts # None, active.task = None, pc[Loop] \notin Starting
                 PROVE  \E u \in Turns : pc'[u] \in {"report", "clear"} /\ loc'[u].ts = active.ts
      BY <1>1, <2>1 DEF ReservedFor
    <3>1. PICK u \in Turns : pc[u] \in {"report", "clear"} /\ loc[u].ts = active.ts
      BY DEF HoldersInv, ReservedFor
    <3>2. CASE u = t
      BY <1>2, <3>1, <3>2 DEF TaskWorksOn, TaskLeaves, TaskReports, Working
    <3> QED
      BY <1>1, <3>1, <3>2
  <2> QED
    BY <2>2, <2>3, <2>4, <2>5 DEF HoldersInv
<1>3. CASE TaskTakes(t)
  <2>1. /\ pc'[t] = "report" /\ loc'[t].ts = active.ts /\ active.task = t
        /\ active'.ts = active.ts /\ active'.task = None
    BY <1>3 DEF TaskTakes, TypeOK
  <2>2. active.ts # None /\ pc[Loop] \notin Starting \cup Taking
    BY <1>0, <2>1 DEF Ownership, SlotNamesTask, SlotEmptyLabels, Taking
  <2>3. HeldStates'
    BY <1>0, <1>1, <2>1 DEF HoldersInv, HeldStates, TaskAlone
  <2>4. LoopAndSlot'
    BY <1>1, <2>1, <2>2 DEF HoldersInv, LoopAndSlot
  <2>5. FinishingHolds'
    BY <1>0, <1>1, <2>1, <2>2 DEF HoldersInv, FinishingHolds
  <2>6. ReservedFor'
    BY <2>1 DEF ReservedFor
  <2> QED
    BY <2>3, <2>4, <2>5, <2>6 DEF HoldersInv
<1>4. CASE TaskClears(t)
  <2>1. /\ pc'[t] = "maybe" /\ loc'[t] = loc[t] /\ active.ts = loc[t].ts
        /\ active' = Idle /\ active'.ts = None /\ active.task = None
    BY <1>4 DEF TaskClears, Idle
  <2>2. HeldStates'
    BY <1>0, <1>1, <2>1 DEF HoldersInv, HeldStates, TaskAlone
  <2>3. LoopAndSlot'
    <3>1. pc[Loop] \in Starting => loc[Loop].ts = None
      BY <2>1 DEF HoldersInv, LoopAndSlot, FinishingHolds
    <3> QED
      BY <1>1, <2>1, <3>1 DEF HoldersInv, LoopAndSlot
  <2>4. FinishingHolds'
    BY <1>1, <2>1 DEF HoldersInv, FinishingHolds
  <2>5. ReservedFor'
    BY <2>1 DEF ReservedFor
  <2> QED
    BY <2>2, <2>3, <2>4, <2>5 DEF HoldersInv
<1> QED
  BY <1>2, <1>3, <1>4 DEF TaskKind

\* A step of the loop.
LEMMA LoopHolders ==
  ASSUME SingleStarter, TypeOK, Ownership, HoldersInv, Ownership', LoopKind
  PROVE  HoldersInv'
<1>0. /\ Loop \in Procs /\ Turns \subseteq Procs /\ Loop \notin Turns /\ None \notin Turns
      /\ Procs = {Loop, Guard} \cup Turns
  BY Processes DEF Procs, Clients
<1>a. ASSUME LoopAlone
      PROVE  /\ \A u \in Turns : pc'[u] = pc[u] /\ loc'[u] = loc[u]
             /\ \A q \in Procs \ {Loop} : loc'[q] = loc[q]
  BY <1>0, <1>a DEF LoopAlone
<1>b. \A u \in Turns : loc[u].ts # None => loc[u].ts \in spent
  BY <1>0 DEF HoldersInv, HeldStates
<1>c. Idle.ts = None /\ Idle.task = None
  BY DEF Idle
<1>1. CASE StartGoesOn
  <2>1. /\ LoopAlone /\ active' = active /\ spent' = spent /\ loc'[Loop].ts = loc[Loop].ts
        /\ pc[Loop] \in Starting /\ pc'[Loop] \in Starting
    BY <1>1 DEF StartGoesOn
  <2>2. pc'[Loop] \notin Taking
    BY <2>1 DEF Starting, Taking
  <2> QED
    BY <1>0, <1>a, <2>1, <2>2
    DEF HoldersInv, HeldStates, LoopAndSlot, FinishingHolds, ReservedFor
<1>2. CASE StartAdopts
  <2>1. /\ LoopAlone /\ active' = [active EXCEPT !.ts = SlotState]
        /\ spent' = spent \cup {SlotState} /\ loc'[Loop].ts = SlotState
        /\ pc[Loop] = "adopt" /\ pc'[Loop] = "extend" /\ CanFillSlot
    BY <1>2 DEF StartAdopts
  <2>2. active'.ts = SlotState /\ SlotState # None
    BY <2>1, SlotStateType, ConstantsAssumption DEF TypeOK
  <2>3. pc[Loop] \in Starting /\ pc'[Loop] \in Starting /\ pc'[Loop] \notin Taking
    BY <2>1 DEF Starting, Taking
  <2>4. \A u \in Turns : loc[u].ts # None => loc[u].ts # SlotState
    <3>1. CASE active.ts = None
      BY <1>b, <2>1, <3>1, FreshState DEF SlotState, CanFillSlot
    <3>2. CASE active.ts # None
      BY <2>3, <3>2 DEF SlotState, HoldersInv, FinishingHolds
    <3> QED
      BY <3>1, <3>2
  <2>5. HeldStates'
    BY <1>0, <1>a, <2>1, <2>2 DEF HoldersInv, HeldStates
  <2>6. LoopAndSlot'
    BY <2>1, <2>2, <2>3 DEF LoopAndSlot
  <2>7. FinishingHolds'
    BY <1>a, <2>1, <2>2, <2>4 DEF HoldersInv, FinishingHolds
  <2>8. ReservedFor'
    BY <2>3 DEF ReservedFor
  <2> QED
    BY <2>5, <2>6, <2>7, <2>8 DEF HoldersInv
<1>3. ASSUME NEW t \in Turns, StartInstalls(t) PROVE HoldersInv'
  <2>1. /\ active'.ts = SlotState /\ active'.task = t /\ SlotState # None
        /\ spent' = spent \cup {SlotState} /\ pc[Loop] = "install" /\ CanFillSlot
    BY <1>3, SlotStateType, ConstantsAssumption DEF StartInstalls
  <2>2. /\ pc'[Loop] = "idle" /\ loc'[Loop].ts = None /\ loc'[t].ts = None
        /\ \A q \in Procs \ {Loop, t} : pc'[q] = pc[q] /\ loc'[q] = loc[q]
    BY <1>3 DEF StartInstalls, Blank
  <2>3. pc[Loop] \in Starting /\ pc'[Loop] \notin Starting \cup Taking
    BY <2>1, <2>2 DEF Starting, Taking
  <2>4. \A u \in Turns : loc[u].ts # None => loc[u].ts # SlotState
    <3>1. CASE active.ts = None
      BY <1>b, <2>1, <3>1, FreshState DEF SlotState, CanFillSlot
    <3>2. CASE active.ts # None
      BY <2>3, <3>2 DEF SlotState, HoldersInv, FinishingHolds
    <3> QED
      BY <3>1, <3>2
  <2>5. HeldStates'
    BY <1>0, <2>1, <2>2 DEF HoldersInv, HeldStates
  <2>6. LoopAndSlot'
    BY <2>1, <2>2, <2>3 DEF LoopAndSlot
  <2>7. FinishingHolds'
    <3> SUFFICES ASSUME NEW u \in Turns, loc'[u].ts # None
                 PROVE  /\ pc'[u] \in {"report", "clear", "maybe"}
                        /\ loc'[u].ts # SlotState
      BY <2>1 DEF FinishingHolds
    <3>1. u \in Procs \ {Loop, t}
      BY <1>0, <2>2
    <3> QED
      BY <2>2, <2>4, <3>1 DEF HoldersInv, FinishingHolds
  <2>8. ReservedFor'
    BY <1>0, <2>1 DEF ReservedFor
  <2> QED
    BY <2>5, <2>6, <2>7, <2>8 DEF HoldersInv
<1>4. CASE LoopTakes
  <2>1. /\ LoopAlone /\ active' = Idle /\ spent' = spent /\ loc'[Loop].ts = active.ts
        /\ pc'[Loop] = "kill"
    BY <1>4 DEF LoopTakes
  <2>2. pc'[Loop] \notin Starting /\ pc'[Loop] \in Taking
    BY <2>1 DEF Starting, Taking
  <2> QED
    BY <1>0, <1>a, <1>c, <2>1, <2>2
    DEF HoldersInv, HeldStates, LoopAndSlot, FinishingHolds, ReservedFor
<1>5. ASSUME NEW v \in Turns, LoopKills(v) PROVE HoldersInv'
  <2>1. /\ pc[Loop] = "kill" /\ pc'[Loop] \in {"wipe", "tell"}
        /\ pc'[v] = "dead" /\ loc'[v].ts = None /\ loc'[Loop] = loc[Loop]
        /\ \A q \in Procs \ {Loop, v} : pc'[q] = pc[q] /\ loc'[q] = loc[q]
        /\ active' = active /\ spent' = spent
    BY <1>5 DEF LoopKills
  <2>2. active = Idle
    BY <2>1 DEF HoldersInv, LoopAndSlot, Taking
  <2>3. HeldStates'
    BY <1>0, <2>1 DEF HoldersInv, HeldStates
  <2>4. LoopAndSlot'
    BY <2>1, <2>2 DEF LoopAndSlot, Taking, Starting
  <2>5. FinishingHolds'
    <3> SUFFICES ASSUME NEW u \in Turns, loc'[u].ts # None
                 PROVE  /\ pc'[u] \in {"report", "clear", "maybe"}
                        /\ loc'[u].ts # active.ts
      BY <2>1 DEF FinishingHolds
    <3>1. u \in Procs \ {Loop, v}
      BY <1>0, <2>1
    <3> QED
      BY <1>c, <2>1, <2>2, <3>1 DEF HoldersInv, FinishingHolds
  <2>6. ReservedFor'
    BY <1>c, <2>1, <2>2 DEF ReservedFor
  <2> QED
    BY <2>3, <2>4, <2>5, <2>6 DEF HoldersInv
<1>6. CASE LoopReports
  <2>1. /\ LoopAlone /\ loc'[Loop] = loc[Loop] /\ active' = active /\ spent' = spent
        /\ pc[Loop] = "tell" /\ pc'[Loop] = "wipe"
    BY <1>6 DEF LoopReports
  <2>2. /\ pc[Loop] \in Taking /\ pc'[Loop] \in Taking
        /\ pc[Loop] \notin Starting /\ pc'[Loop] \notin Starting
    BY <2>1 DEF Starting, Taking
  <2> QED
    BY <1>0, <1>a, <2>1, <2>2
    DEF HoldersInv, HeldStates, LoopAndSlot, FinishingHolds, ReservedFor
<1>7. CASE LoopWipes
  <2>1. /\ LoopAlone /\ loc'[Loop].ts = None /\ active' = active /\ spent' = spent
        /\ pc[Loop] = "wipe" /\ pc'[Loop] \in {"maybe", "drain", "abort"}
    BY <1>7 DEF LoopWipes
  <2>2. pc[Loop] \in Taking /\ pc'[Loop] \notin Taking
    BY <2>1 DEF Taking
  <2>3. active = Idle
    BY <2>2 DEF HoldersInv, LoopAndSlot
  <2> QED
    BY <1>0, <1>a, <1>c, <2>1, <2>2, <2>3
    DEF HoldersInv, HeldStates, LoopAndSlot, FinishingHolds, ReservedFor
<1>8. CASE LoopMovesOn
  <2>1. /\ LoopAlone /\ loc'[Loop].ts \in {loc[Loop].ts, None}
        /\ pc[Loop] \in {"idle", "abort", "maybe", "exiting", "leaving"}
        /\ pc'[Loop] \in {"idle", "abort", "drain", "exiting", "leaving", "exited"}
        /\ \/ active' = active
           \/ active.task = None /\ active' = Idle
        /\ pc'[Loop] = "drain" => active' = Idle
        /\ spent \subseteq spent'
    BY <1>8 DEF LoopMovesOn
  <2>2. /\ pc[Loop] \notin Taking \cup Starting /\ pc'[Loop] \notin Taking
        /\ pc'[Loop] \in Starting => pc'[Loop] = "drain"
    BY <2>1 DEF Taking, Starting
  <2>3. loc[Loop].ts = None /\ loc'[Loop].ts = None
    BY <2>1, <2>2 DEF HoldersInv, LoopAndSlot
  <2>4. HeldStates'
    BY <1>0, <1>a, <1>c, <2>1, <2>3 DEF HoldersInv, HeldStates
  <2>5. LoopAndSlot'
    BY <1>c, <2>1, <2>2, <2>3 DEF HoldersInv, LoopAndSlot
  <2>6. FinishingHolds'
    BY <1>a, <1>c, <2>1, <2>2 DEF HoldersInv, FinishingHolds
  <2>7. ReservedFor'
    BY <1>a, <1>c, <2>1, <2>2 DEF HoldersInv, ReservedFor
  <2> QED
    BY <2>4, <2>5, <2>6, <2>7 DEF HoldersInv
<1>9. CASE LoopReserves
  <2>1. /\ LoopAlone /\ loc'[Loop].ts = NewState /\ FreeStates # {}
        /\ pc'[Loop] = "ifidle" /\ active' = Reserved(NewState)
        /\ NewState \in spent' /\ spent \subseteq spent'
    BY <1>9 DEF LoopReserves
  <2>2. /\ active'.ts = NewState /\ active'.task = None
        /\ NewState \notin spent /\ NewState # None
    BY <2>1, FreshState DEF Reserved
  <2>3. pc'[Loop] \in Starting /\ pc'[Loop] \notin Taking
    BY <2>1 DEF Starting, Taking
  <2>4. HeldStates'
    BY <1>0, <1>a, <2>1, <2>2 DEF HoldersInv, HeldStates
  <2>5. LoopAndSlot'
    BY <2>1, <2>2, <2>3 DEF LoopAndSlot
  <2>6. FinishingHolds'
    BY <1>a, <1>b, <2>1, <2>2 DEF HoldersInv, FinishingHolds
  <2>7. ReservedFor'
    BY <2>3 DEF ReservedFor
  <2> QED
    BY <2>4, <2>5, <2>6, <2>7 DEF HoldersInv
<1>10. CASE LoopGivesUp
  <2>1. /\ LoopAlone /\ loc'[Loop].ts = None /\ spent' = spent
        /\ pc[Loop] = "ifidle" /\ pc'[Loop] = "idle"
        /\ active' = IF active.task = None /\ active.ts = loc[Loop].ts THEN Idle ELSE active
    BY <1>10 DEF LoopGivesUp, Blank
  <2>2. active.task = None /\ active.ts = loc[Loop].ts
    BY <2>1 DEF HoldersInv, LoopAndSlot, Starting, Ownership, SlotNamesTask, SlotEmptyLabels
  <2>3. active' = Idle /\ pc'[Loop] \notin Starting \cup Taking
    BY <2>1, <2>2 DEF Starting, Taking
  <2> QED
    BY <1>0, <1>a, <1>c, <2>1, <2>3
    DEF HoldersInv, HeldStates, LoopAndSlot, FinishingHolds, ReservedFor
<1>11. ASSUME NEW q \in Seq(Items), InputArrives(q) PROVE HoldersInv'
  BY <1>11 DEF InputArrives, HoldersInv, HeldStates, LoopAndSlot, FinishingHolds, ReservedFor
<1> QED
  BY <1>1, <1>2, <1>3, <1>4, <1>5, <1>6, <1>7, <1>8, <1>9, <1>10, <1>11 DEF LoopKind

\* The holders of turn states, in every session whose turns only the loop starts.
LEMMA HoldersHold == ASSUME SingleStarter PROVE Spec => []HoldersInv
<1>1. Init => HoldersInv
  BY InitHolders
<1>2. TypeOK /\ Ownership /\ HoldersInv /\ [Next]_vars /\ Ownership' => HoldersInv'
  BY StepKinds, TaskHolders, LoopHolders
<1> QED
  BY <1>1, <1>2, TypeCorrect, OwnershipHolds, PTL DEF Spec

(***************************************************************************)
(* A closed turn holds only mail.                                          *)
(***************************************************************************)

\* A turn state is fresh until it is handed out.
FreshStates == \A s \in States \ spent : tstate[s] = FreshTurnState

\* A turn is open to mail when it starts.
OpenAtStart ==
    pc[Loop] \in Starting /\ active.ts # None => tstate[active.ts].phase = "CurrentTurn"

PhaseInv == FreshStates /\ OpenAtStart /\ ClosedTurnHoldsOnlyMail

LEMMA InitPhase == ASSUME SingleStarter PROVE Init => PhaseInv
<1> SUFFICES ASSUME Init PROVE PhaseInv
  OBVIOUS
<1>1. active.task = None /\ active.ts = None /\ \A s \in States : tstate[s] = FreshTurnState
  BY DEF Init, Idle
<1> QED
  BY <1>1 DEF PhaseInv, FreshStates, OpenAtStart, ClosedTurnHoldsOnlyMail

\* Emptying a turn state keeps its phase and everybody else's state.
LEMMA EmptiedPhase ==
  ASSUME TypeOK, NEW s \in States, tstate' = [tstate EXCEPT ![s].items = <<>>]
  PROVE  /\ tstate'[s].items = <<>> /\ tstate'[s].phase = tstate[s].phase
         /\ \A r \in States \ {s} : tstate'[r] = tstate[r]
  BY DEF TypeOK, TurnState

\* With the slot and the states handed out as they were.
LEMMA EmptiedKeepsPhase ==
  ASSUME TypeOK, PhaseInv, HoldersInv, NEW s \in States, s \in spent,
         tstate' = [tstate EXCEPT ![s].items = <<>>],
         spent' = spent, active' = active,
         pc'[Loop] \in Starting => pc[Loop] \in Starting
  PROVE  PhaseInv'
<1>1. active.ts \in States \cup {None}
  BY DEF TypeOK
<1>2. active.task # None => active.ts # None
  BY DEF HoldersInv, LoopAndSlot, Idle
<1>3. FreshStates'
  BY EmptiedPhase DEF PhaseInv, FreshStates
<1>4. OpenAtStart'
  BY <1>1, EmptiedPhase DEF PhaseInv, OpenAtStart
<1>5. ClosedTurnHoldsOnlyMail'
  <2>1. OnlyQueueMail(<<>>)
    BY DEF OnlyQueueMail
  <2> QED
    BY <1>1, <1>2, <2>1, EmptiedPhase DEF PhaseInv, ClosedTurnHoldsOnlyMail
<1> QED
  BY <1>3, <1>4, <1>5 DEF PhaseInv

\* A step of a task.
LEMMA TaskPhase ==
  ASSUME SingleStarter, TypeOK, Ownership, HoldersInv, PhaseInv,
         NEW t \in Turns, TaskKind(t)
  PROVE  PhaseInv'
<1>0. Loop \in Procs /\ t \in Procs /\ Loop # t /\ Turns \subseteq Procs /\ t # None
  BY Processes DEF Procs, Clients
<1>1. spent' = spent /\ pc'[Loop] = pc[Loop]
  BY <1>0 DEF TaskKind, TaskWorksOn, TaskLeaves, TaskTakes, TaskReports, TaskClears, TaskAlone
<1>2. active.ts # None => active.ts \in States /\ active.ts \in spent
  BY DEF TypeOK, HoldersInv, HeldStates
<1>3. CASE TaskWorksOn(t)
  <2>1. active' = active
    BY <1>3 DEF TaskWorksOn
  <2>2. CASE tstate' = tstate
    BY <1>1, <2>1, <2>2
    DEF PhaseInv, FreshStates, OpenAtStart, ClosedTurnHoldsOnlyMail
  <2>3. CASE active.ts # None /\ tstate' = [tstate EXCEPT ![active.ts].items = <<>>]
    BY <1>1, <1>2, <2>1, <2>3, EmptiedKeepsPhase
  <2>4. ASSUME NEW ph, tstate' = [tstate EXCEPT ![active.ts].phase = ph], IsActive(t),
               ph = "CurrentTurn" \/ OnlyQueueMail(tstate[active.ts].items)
        PROVE  PhaseInv'
    <3>1. active.task # None /\ active.task = t
      BY <2>4 DEF IsActive
    <3>2. active.ts # None /\ pc[Loop] \notin Starting
      BY <3>1 DEF Ownership, SlotNamesTask, SlotEmptyLabels
    <3>3. /\ tstate'[active.ts].phase = ph /\ tstate'[active.ts].items = tstate[active.ts].items
          /\ \A r \in States \ {active.ts} : tstate'[r] = tstate[r]
      BY <1>2, <2>4, <3>2 DEF TypeOK, TurnState
    <3>4. FreshStates'
      BY <1>1, <1>2, <3>2, <3>3 DEF PhaseInv, FreshStates
    <3>5. OpenAtStart'
      BY <1>1, <3>2 DEF OpenAtStart
    <3>6. ClosedTurnHoldsOnlyMail'
      BY <2>1, <2>4, <3>3 DEF ClosedTurnHoldsOnlyMail
    <3> QED
      BY <3>4, <3>5, <3>6 DEF PhaseInv
  <2>5. CASE tstate' = Opened(t)
    BY <2>2, <2>4, <2>5 DEF Opened
  <2>6. CASE tstate' = Deferred(t)
    BY <2>2, <2>4, <2>6 DEF Deferred
  <2> QED
    BY <1>3, <2>2, <2>3, <2>5, <2>6 DEF TaskWorksOn
<1>4. CASE TaskLeaves(t)
  BY <1>1, <1>4 DEF TaskLeaves, PhaseInv, FreshStates, OpenAtStart, ClosedTurnHoldsOnlyMail
<1>5. CASE TaskTakes(t)
  <2>1. active'.task = None /\ active'.ts = active.ts /\ tstate' = tstate
    BY <1>5 DEF TaskTakes, TypeOK
  <2> QED
    BY <1>1, <2>1 DEF PhaseInv, FreshStates, OpenAtStart, ClosedTurnHoldsOnlyMail
<1>6. CASE TaskReports(t)
  <2>1. /\ active' = active
        /\ tstate' = [tstate EXCEPT ![loc[t].ts].items = <<>>]
    BY <1>6 DEF TaskReports
  <2>2. loc[t].ts \in States \cup {None}
    BY <1>0 DEF TypeOK, Locals
  <2>3. CASE loc[t].ts # None
    BY <1>0, <1>1, <2>1, <2>2, <2>3, EmptiedKeepsPhase DEF HoldersInv, HeldStates
  <2>4. CASE loc[t].ts = None
    <3>1. tstate' = tstate
      BY <2>1, <2>4, ConstantsAssumption DEF TypeOK
    <3> QED
      BY <1>1, <2>1, <3>1 DEF PhaseInv, FreshStates, OpenAtStart, ClosedTurnHoldsOnlyMail
  <2> QED
    BY <2>3, <2>4
<1>7. CASE TaskClears(t)
  <2>1. active'.task = None /\ active'.ts = None /\ tstate' = tstate
    BY <1>7 DEF TaskClears, Idle
  <2> QED
    BY <1>1, <2>1 DEF PhaseInv, FreshStates, OpenAtStart, ClosedTurnHoldsOnlyMail
<1> QED
  BY <1>3, <1>4, <1>5, <1>6, <1>7 DEF TaskKind

\* A step of the loop.
LEMMA LoopPhase ==
  ASSUME SingleStarter, TypeOK, Ownership, HoldersInv, PhaseInv, LoopKind
  PROVE  PhaseInv'
<1>0. /\ Loop \in Procs /\ loc[Loop].ts \in States \cup {None} /\ None \notin States
      /\ active.ts \in States \cup {None}
      /\ States \cap Turns = {}
  BY Processes, ConstantsAssumption DEF TypeOK, Locals
<1>a. /\ active.ts # None => active.ts \in spent
      /\ loc[Loop].ts # None => loc[Loop].ts \in spent
  BY <1>0 DEF HoldersInv, HeldStates
<1>b. active.task # None => active.ts # None
  BY DEF HoldersInv, LoopAndSlot, Idle
<1>c. Idle.ts = None /\ Idle.task = None /\ FreshTurnState.phase = "CurrentTurn"
  BY DEF Idle, FreshTurnState
<1>1. CASE StartGoesOn
  <2>1. /\ active' = active /\ spent' = spent /\ pc[Loop] \in Starting
        /\ tstate' \in {tstate, Extended(loc[Loop].ts, loc[Loop].mail)}
    BY <1>1 DEF StartGoesOn
  <2>2. active.task = None /\ active.ts = loc[Loop].ts
    BY <2>1 DEF Ownership, SlotNamesTask, SlotEmptyLabels, HoldersInv, LoopAndSlot
  <2>3. /\ loc[Loop].ts # None => tstate'[loc[Loop].ts].phase = tstate[loc[Loop].ts].phase
        /\ \A s \in States \ {loc[Loop].ts} : tstate'[s] = tstate[s]
    <3>1. ASSUME NEW q, tstate' = [tstate EXCEPT ![loc[Loop].ts].items = q]
          PROVE  /\ loc[Loop].ts # None => tstate'[loc[Loop].ts].phase = tstate[loc[Loop].ts].phase
                 /\ \A s \in States \ {loc[Loop].ts} : tstate'[s] = tstate[s]
      BY <1>0, <3>1 DEF TypeOK, TurnState
    <3>2. CASE tstate' = Extended(loc[Loop].ts, loc[Loop].mail)
      BY <3>1, <3>2 DEF Extended
    <3> QED
      BY <2>1, <3>2
  <2>4. FreshStates'
    BY <1>0, <1>a, <2>1, <2>3 DEF PhaseInv, FreshStates
  <2>5. OpenAtStart'
    BY <2>1, <2>2, <2>3 DEF PhaseInv, OpenAtStart
  <2>6. ClosedTurnHoldsOnlyMail'
    BY <2>1, <2>2 DEF ClosedTurnHoldsOnlyMail
  <2> QED
    BY <2>4, <2>5, <2>6 DEF PhaseInv
<1>d. ASSUME CanFillSlot, pc[Loop] \in Starting
      PROVE  SlotState \in States /\ tstate[SlotState].phase = "CurrentTurn"
  <2>1. CASE active.ts = None
    BY <1>c, <1>d, <2>1, FreshState DEF SlotState, CanFillSlot, PhaseInv, FreshStates
  <2>2. CASE active.ts # None
    BY <1>0, <1>d, <2>2 DEF SlotState, PhaseInv, OpenAtStart
  <2> QED
    BY <2>1, <2>2
<1>2. CASE StartAdopts
  <2>1. /\ active' = [active EXCEPT !.ts = SlotState] /\ spent' = spent \cup {SlotState}
        /\ CanFillSlot /\ pc[Loop] = "adopt" /\ tstate' = tstate
    BY <1>2 DEF StartAdopts
  <2>2. pc[Loop] \in Starting /\ pc[Loop] \in SlotEmptyLabels
    BY <2>1 DEF Starting, SlotEmptyLabels
  <2>3. active'.ts = SlotState /\ active'.task = None
    BY <2>1, <2>2 DEF TypeOK, Ownership, SlotNamesTask
  <2> QED
    BY <1>d, <2>1, <2>2, <2>3
    DEF PhaseInv, FreshStates, OpenAtStart, ClosedTurnHoldsOnlyMail
<1>3. ASSUME NEW t \in Turns, StartInstalls(t) PROVE PhaseInv'
  <2>1. /\ active'.ts = SlotState /\ spent' = spent \cup {SlotState}
        /\ CanFillSlot /\ pc[Loop] = "install" /\ pc'[Loop] = "idle" /\ tstate' = tstate
    BY <1>3 DEF StartInstalls
  <2>2. pc[Loop] \in Starting /\ pc'[Loop] \notin Starting
    BY <2>1 DEF Starting
  <2> QED
    BY <1>d, <2>1, <2>2
    DEF PhaseInv, FreshStates, OpenAtStart, ClosedTurnHoldsOnlyMail
<1>4. CASE LoopTakes
  BY <1>4, <1>c DEF LoopTakes, PhaseInv, FreshStates, OpenAtStart, ClosedTurnHoldsOnlyMail
<1>5. ASSUME NEW v \in Turns, LoopKills(v) PROVE PhaseInv'
  <2>1. /\ active' = active /\ spent' = spent /\ tstate' = tstate
        /\ pc'[Loop] \notin Starting
    BY <1>5 DEF LoopKills, Starting
  <2> QED
    BY <2>1 DEF PhaseInv, FreshStates, OpenAtStart, ClosedTurnHoldsOnlyMail
<1>6. CASE LoopReports
  <2>1. /\ active' = active /\ spent' = spent /\ tstate' = tstate
        /\ pc'[Loop] \notin Starting
    BY <1>6 DEF LoopReports, Starting
  <2> QED
    BY <2>1 DEF PhaseInv, FreshStates, OpenAtStart, ClosedTurnHoldsOnlyMail
<1>7. CASE LoopWipes
  <2>1. /\ active' = active /\ spent' = spent /\ pc[Loop] \in Taking
        /\ tstate' = [tstate EXCEPT ![loc[Loop].ts].items = <<>>]
    BY <1>7 DEF LoopWipes, Taking
  <2>2. active = Idle
    BY <2>1 DEF HoldersInv, LoopAndSlot
  <2>3. \A s \in States \ {loc[Loop].ts} : tstate'[s] = tstate[s]
    BY <2>1 DEF TypeOK
  <2> QED
    BY <1>a, <1>c, <1>0, <2>1, <2>2, <2>3
    DEF PhaseInv, FreshStates, OpenAtStart, ClosedTurnHoldsOnlyMail
<1>8. CASE LoopMovesOn
  <2>1. /\ active' = active \/ active' = Idle
        /\ pc'[Loop] \in {"idle", "abort", "drain", "exiting", "leaving", "exited"}
        /\ pc'[Loop] = "drain" => active' = Idle
        /\ spent \subseteq spent' /\ tstate' = tstate
    BY <1>8 DEF LoopMovesOn
  <2>2. pc'[Loop] \in Starting => active' = Idle
    BY <2>1 DEF Starting
  <2> QED
    BY <1>c, <2>1, <2>2 DEF PhaseInv, FreshStates, OpenAtStart, ClosedTurnHoldsOnlyMail
<1>9. CASE LoopReserves
  <2>1. /\ FreeStates # {} /\ active' = Reserved(NewState)
        /\ spent \subseteq spent' /\ tstate' = tstate
    BY <1>9 DEF LoopReserves
  <2>2. active'.ts = NewState /\ active'.task = None
    BY <2>1 DEF Reserved
  <2> QED
    BY <1>c, <2>1, <2>2, FreshState
    DEF PhaseInv, FreshStates, OpenAtStart, ClosedTurnHoldsOnlyMail
<1>10. CASE LoopGivesUp
  <2>1. /\ active' = active \/ active' = Idle
        /\ pc'[Loop] \notin Starting /\ spent' = spent /\ tstate' = tstate
    BY <1>10 DEF LoopGivesUp, Starting
  <2> QED
    BY <1>c, <2>1 DEF PhaseInv, FreshStates, OpenAtStart, ClosedTurnHoldsOnlyMail
<1>11. ASSUME NEW q \in Seq(Items), InputArrives(q) PROVE PhaseInv'
  <2>1. UNCHANGED <<active, spent, pc>>
    BY <1>11 DEF InputArrives
  <2>2. CASE tstate' = tstate
    BY <2>1, <2>2 DEF PhaseInv, FreshStates, OpenAtStart, ClosedTurnHoldsOnlyMail
  <2>3. CASE active.ts # None /\ tstate' = ExtendedAndOpen(active.ts, q)
    <3>1. /\ tstate'[active.ts].phase = "CurrentTurn"
          /\ \A s \in States \ {active.ts} : tstate'[s] = tstate[s]
      BY <1>0, <2>3 DEF ExtendedAndOpen, TypeOK
    <3> QED
      BY <1>a, <2>1, <2>3, <3>1
      DEF PhaseInv, FreshStates, OpenAtStart, ClosedTurnHoldsOnlyMail
  <2> QED
    BY <1>11, <2>2, <2>3 DEF InputArrives
<1> QED
  BY <1>1, <1>2, <1>3, <1>4, <1>5, <1>6, <1>7, <1>8, <1>9, <1>10, <1>11 DEF LoopKind

\* The phases of turn states, in every session whose turns only the loop starts.
LEMMA PhasesHold == ASSUME SingleStarter PROVE Spec => []PhaseInv
<1>1. Init => PhaseInv
  BY InitPhase
<1>2. TypeOK /\ Ownership /\ HoldersInv /\ PhaseInv /\ [Next]_vars => PhaseInv'
  BY StepKinds, TaskPhase, LoopPhase
<1> QED
  BY <1>1, <1>2, TypeCorrect, OwnershipHolds, HoldersHold, PTL DEF Spec

\* Once the model has answered and the turn is closed to mail, only queue-only
\* mail can wait in it: what a user steers in or a tool injects opens it again,
\* and no turn starts closed.
THEOREM ClosedTurnIsSafe == ASSUME SingleStarter PROVE Spec => []ClosedTurnHoldsOnlyMail
<1>1. PhaseInv => ClosedTurnHoldsOnlyMail
  BY DEF PhaseInv
<1> QED
  BY <1>1, PhasesHold, PTL

(***************************************************************************)
(* Every turn is reported, and the status follows.                         *)
(***************************************************************************)

\* A status of Running is somebody's to change: a task that has yet to report,
\* or the loop that has yet to report for it.  Nobody reports a suspended turn,
\* so that the status stays until the loop has exited or starts another turn.
StatusIsCovered ==
    status = "Running" =>
        \/ \E t \in Turns : pc[t] \in Working \cup {"report"}
        \/ pc[Loop] \in {"kill", "tell"}
        \/ suspended # {} /\ pc[Loop] # "exited"

\* The loop aborts without a report only the turn it suspends.
SilentIsSuspended ==
    loc[Loop].reason = "Suspended" =>
        pc[Loop] \in {"kill", "wipe"} /\ loc[Loop].victim \in suspended

\* A task that is past its report, or gone, has its terminal event, unless the
\* loop is about to send it or the turn was suspended.
EndIsTold ==
    \A t \in Turns :
        /\ pc[t] \in {"clear", "maybe"} => terminal[t] # <<>>
        /\ pc[t] = "dead" =>
              \/ terminal[t] # <<>>
              \/ pc[Loop] \in {"kill", "tell"} /\ loc[Loop].victim = t
              \/ t \in suspended

ReportsInv == StatusIsCovered /\ SilentIsSuspended /\ EndIsTold

LEMMA InitReports == ASSUME SingleStarter PROVE Init => ReportsInv
<1> SUFFICES ASSUME Init PROVE ReportsInv
  OBVIOUS
<1>1. /\ status = "PendingInit" /\ loc[Loop].reason = "Interrupted"
      /\ \A t \in Turns : pc[t] = "unborn"
  BY Processes DEF Init, Blank
<1> QED
  BY <1>1 DEF ReportsInv, StatusIsCovered, SilentIsSuspended, EndIsTold

\* A step of a task.
LEMMA TaskReportsInv ==
  ASSUME SingleStarter, TypeOK, Ownership, ReportsInv, NEW t \in Turns, TaskKind(t)
  PROVE  ReportsInv'
<1>0. /\ Loop \in Procs /\ t \in Procs /\ Loop # t /\ Turns \subseteq Procs
      /\ Loop \notin Turns
  BY Processes DEF Procs, Clients
<1>1. /\ pc'[Loop] = pc[Loop] /\ loc'[Loop] = loc[Loop] /\ suspended' = suspended
      /\ \A u \in Turns \ {t} : pc'[u] = pc[u]
  BY <1>0 DEF TaskKind, TaskWorksOn, TaskLeaves, TaskTakes, TaskReports, TaskClears, TaskAlone
<1>2. SilentIsSuspended'
  BY <1>1 DEF ReportsInv, SilentIsSuspended
<1>3. CASE TaskWorksOn(t)
  <2>1. pc'[t] \in Working /\ terminal' = terminal
    BY <1>3 DEF TaskWorksOn
  <2> QED
    BY <1>1, <1>2, <2>1 DEF ReportsInv, StatusIsCovered, EndIsTold, Working
<1>4. CASE TaskLeaves(t)
  <2>1. pc'[t] = "dead" /\ terminal' = terminal /\ status' = status
    BY <1>4 DEF TaskLeaves
  <2>2. CASE pc[t] \in {"clear", "maybe"}
    <3>1. pc[t] \notin Working \cup {"report"}
      BY <2>2 DEF Working
    <3> QED
      BY <1>1, <1>2, <2>1, <2>2, <3>1 DEF ReportsInv, StatusIsCovered, EndIsTold
  <2>3. CASE pc[t] \in {"end", "take"} /\ t \in cancelled
    <3>1. pc[Loop] = "kill" /\ loc[Loop].victim = t
      BY <2>3 DEF Ownership, SlotNamesTask, Working
    <3> QED
      BY <1>1, <1>2, <2>1, <3>1 DEF ReportsInv, StatusIsCovered, EndIsTold
  <2> QED
    BY <1>4, <2>2, <2>3 DEF TaskLeaves
<1>5. CASE TaskTakes(t)
  <2>1. pc'[t] = "report" /\ terminal' = terminal
    BY <1>5 DEF TaskTakes
  <2> QED
    BY <1>1, <1>2, <2>1 DEF ReportsInv, StatusIsCovered, EndIsTold
<1>6. CASE TaskReports(t)
  <2>1. PICK e \in {"aborted", "complete"} : terminal' = [terminal EXCEPT ![t] = Append(@, e)]
    BY <1>6 DEF TaskReports
  <2>2. terminal'[t] # <<>> /\ \A u \in Turns \ {t} : terminal'[u] = terminal[u]
    BY <2>1 DEF TypeOK
  <2>3. pc'[t] = "clear" /\ status' # "Running"
    BY <1>6 DEF TaskReports
  <2>4. EndIsTold'
    BY <1>1, <2>2, <2>3 DEF ReportsInv, EndIsTold
  <2> QED
    BY <1>2, <2>3, <2>4 DEF ReportsInv, StatusIsCovered
<1>7. CASE TaskClears(t)
  <2>1. pc[t] = "clear" /\ pc'[t] = "maybe" /\ terminal' = terminal /\ status' = status
    BY <1>7 DEF TaskClears
  <2> QED
    BY <1>1, <1>2, <2>1 DEF ReportsInv, StatusIsCovered, EndIsTold, Working
<1> QED
  BY <1>3, <1>4, <1>5, <1>6, <1>7 DEF TaskKind

\* A step of the loop.
LEMMA LoopReportsInv ==
  ASSUME SingleStarter, TypeOK, Ownership, ReportsInv, Ownership', LoopKind
  PROVE  ReportsInv'
<1>0. Loop \in Procs /\ Turns \subseteq Procs /\ Loop \notin Turns /\ None \notin Turns
  BY Processes DEF Procs, Clients
<1>a. ASSUME LoopAlone PROVE \A u \in Turns : pc'[u] = pc[u]
  BY <1>0, <1>a DEF LoopAlone
<1>b. Blank("idle").reason # "Suspended" /\ Blank("idle").then = "idle"
  BY DEF Blank
<1>c. pc[Loop] \in Starting \cup {"idle"} => loc[Loop].then = "idle"
  BY DEF Ownership, Roles
<1>1. CASE StartGoesOn \/ StartAdopts \/ LoopReserves
  <2>1. /\ LoopAlone /\ SameCall /\ pc[Loop] \in Starting \cup {"idle"}
        /\ pc'[Loop] # "exited" /\ UNCHANGED <<status, suspended, terminal>>
    BY <1>1 DEF StartGoesOn, StartAdopts, LoopReserves, Starting
  <2>2. pc[Loop] \notin {"kill", "tell", "wipe"}
    BY <2>1 DEF Starting
  <2> QED
    BY <1>a, <1>c, <2>1, <2>2
    DEF SameCall, ReportsInv, StatusIsCovered, SilentIsSuspended, EndIsTold
<1>2. ASSUME NEW t \in Turns, StartInstalls(t) PROVE ReportsInv'
  <2>1. /\ pc[Loop] = "install" /\ pc'[Loop] = "idle" /\ pc'[t] = "begin"
        /\ loc'[Loop] = Blank("idle") /\ UNCHANGED <<status, suspended, terminal>>
        /\ \A u \in Turns \ {t} : pc'[u] = pc[u]
    BY <1>0, <1>2 DEF StartInstalls
  <2>2. loc[Loop].then = "idle"
    BY <1>c, <2>1 DEF Starting
  <2> QED
    BY <1>b, <2>1, <2>2
    DEF ReportsInv, StatusIsCovered, SilentIsSuspended, EndIsTold, Working
<1>3. CASE LoopTakes
  <2>1. /\ LoopAlone /\ pc[Loop] \in {"idle", "abort"} /\ pc'[Loop] = "kill"
        /\ \/ loc'[Loop].reason = loc[Loop].reason
           \/ loc'[Loop].victim \in suspended'
        /\ suspended \subseteq suspended' /\ terminal' = terminal
    BY <1>3 DEF LoopTakes, SameCall
  <2> QED
    BY <1>a, <2>1 DEF ReportsInv, StatusIsCovered, SilentIsSuspended, EndIsTold
<1>4. ASSUME NEW v \in Turns, LoopKills(v) PROVE ReportsInv'
  <2>1. /\ v = loc[Loop].victim /\ pc[Loop] = "kill" /\ pc'[v] = "dead" /\ loc'[Loop] = loc[Loop]
        /\ pc'[Loop] = IF loc[Loop].reason = "Suspended" THEN "wipe" ELSE "tell"
        /\ \A u \in Turns \ {v} : pc'[u] = pc[u]
        /\ UNCHANGED <<status, suspended, terminal>>
    BY <1>0, <1>4 DEF LoopKills
  <2>3. SilentIsSuspended'
    BY <2>1 DEF ReportsInv, SilentIsSuspended
  <2>4. EndIsTold'
    BY <2>1 DEF ReportsInv, SilentIsSuspended, EndIsTold
  <2>5. StatusIsCovered'
    BY <2>1 DEF ReportsInv, SilentIsSuspended, StatusIsCovered
  <2> QED
    BY <2>3, <2>4, <2>5 DEF ReportsInv
<1>5. CASE LoopReports
  <2>1. /\ LoopAlone /\ loc'[Loop] = loc[Loop] /\ pc[Loop] = "tell"
        /\ terminal' = [terminal EXCEPT ![loc[Loop].victim] = Append(@, "aborted")]
        /\ status' # "Running" /\ suspended' = suspended
    BY <1>5 DEF LoopReports
  <2>2. loc[Loop].victim \in Turns
    BY <2>1 DEF Ownership, OneReporter
  <2>3. /\ terminal'[loc[Loop].victim] # <<>>
        /\ \A u \in Turns \ {loc[Loop].victim} : terminal'[u] = terminal[u]
    <3>1. ASSUME NEW v \in Turns, terminal' = [terminal EXCEPT ![v] = Append(@, "aborted")]
          PROVE  terminal'[v] # <<>> /\ \A u \in Turns \ {v} : terminal'[u] = terminal[u]
      BY <3>1 DEF TypeOK
    <3> QED
      BY <2>1, <2>2, <3>1
  <2>4. EndIsTold'
    BY <1>a, <2>1, <2>2, <2>3 DEF ReportsInv, EndIsTold
  <2> QED
    BY <2>1, <2>4 DEF ReportsInv, StatusIsCovered, SilentIsSuspended
<1>6. CASE LoopWipes
  <2>1. /\ LoopAlone /\ loc'[Loop].then = loc[Loop].then /\ loc'[Loop].reason # "Suspended"
        /\ pc[Loop] = "wipe" /\ pc'[Loop] # "exited"
        /\ UNCHANGED <<status, suspended, terminal>>
    BY <1>6 DEF LoopWipes
  <2> QED
    BY <1>a, <2>1 DEF ReportsInv, StatusIsCovered, SilentIsSuspended, EndIsTold
<1>7. CASE LoopMovesOn
  <2>1. /\ LoopAlone
        /\ loc'[Loop].reason \in {loc[Loop].reason, "Interrupted", "Replaced"}
        /\ pc[Loop] \in {"idle", "abort", "maybe", "exiting", "leaving"}
        /\ pc'[Loop] = "exited" => status' = "Shutdown"
        /\ pc'[Loop] # "exited" => status' = status
        /\ UNCHANGED <<suspended, terminal>>
    BY <1>7 DEF LoopMovesOn
  <2> QED
    BY <1>a, <2>1 DEF ReportsInv, StatusIsCovered, SilentIsSuspended, EndIsTold
<1>8. CASE LoopGivesUp
  <2>1. /\ LoopAlone /\ loc'[Loop] = Blank("idle") /\ pc[Loop] = "ifidle" /\ pc'[Loop] = "idle"
        /\ UNCHANGED <<status, suspended, terminal>>
    BY <1>8 DEF LoopGivesUp
  <2>2. loc[Loop].then = "idle"
    BY <1>c, <2>1 DEF Starting
  <2> QED
    BY <1>a, <1>b, <2>1, <2>2 DEF ReportsInv, StatusIsCovered, SilentIsSuspended, EndIsTold
<1>9. ASSUME NEW q \in Seq(Items), InputArrives(q) PROVE ReportsInv'
  BY <1>9 DEF InputArrives, ReportsInv, StatusIsCovered, SilentIsSuspended, EndIsTold
<1> QED
  BY <1>1, <1>2, <1>3, <1>4, <1>5, <1>6, <1>7, <1>8, <1>9 DEF LoopKind

\* When nothing runs, the slot is free, and every turn that ran has its terminal
\* event unless it was suspended; the status is not Running either, unless a
\* suspension failed.
THEOREM SettlesWhenQuiet == ASSUME SingleStarter PROVE Spec => []SettledWhenQuiet
<1>1. Init => ReportsInv
  BY InitReports
<1>2. TypeOK /\ Ownership /\ ReportsInv /\ [Next]_vars /\ Ownership' => ReportsInv'
  BY StepKinds, TaskReportsInv, LoopReportsInv
<1>3. TypeOK /\ Ownership /\ HoldersInv /\ ReportsInv => SettledWhenQuiet
  <2> SUFFICES ASSUME TypeOK, Ownership, HoldersInv, ReportsInv, Quiescent
               PROVE  /\ active = Idle
                      /\ status = "Running" => suspended # {} /\ pc[Loop] # "exited"
                      /\ \A t \in Turns :
                            pc[t] = "dead" => terminal[t] # <<>> \/ t \in suspended
    BY DEF SettledWhenQuiet
  <2>1. /\ pc[Loop] \in {"idle", "exited"} /\ pc[Loop] \notin Starting
        /\ \A t \in Turns : pc[t] \in {"unborn", "dead"}
    BY Processes
    DEF Quiescent, Ownership, Roles, TaskLabels, Working, Starting, SlotEmptyLabels
  <2>2. \A t \in Turns : pc[t] \notin Working \cup {"report", "clear"}
    BY <2>1 DEF Working
  <2>3. pc[Loop] = "idle" => loc[Loop].then = "idle"
    BY DEF Ownership, Roles
  <2>4. active.task = None
    BY <2>2 DEF Ownership, SlotNamesTask, TypeOK
  <2>5. active.ts = None
    BY <2>1, <2>2, <2>4 DEF HoldersInv, ReservedFor
  <2> QED
    BY <2>1, <2>2, <2>3, <2>5
    DEF HoldersInv, LoopAndSlot, ReportsInv, StatusIsCovered, EndIsTold
<1> QED
  BY <1>1, <1>2, <1>3, TypeCorrect, OwnershipHolds, HoldersHold, PTL DEF Spec

(***************************************************************************)
(* No input is left in a turn state that nobody looks at again.            *)
(***************************************************************************)

\* What was pending is recorded before a task clears the slot, and nothing is
\* added to its turn state afterwards: an injection could, between the two.
SavedBeforeClear ==
    \A t \in Turns : pc[t] \in {"clear", "maybe"} /\ loc[t].ts # None
        => tstate[loc[t].ts].items = <<>>

\* Nothing is put into a reserved slot before the start goes on.
ReservedIsEmpty ==
    pc[Loop] = "ifidle" /\ loc[Loop].ts # None => tstate[loc[Loop].ts].items = <<>>

ReachInv == SavedBeforeClear /\ ReservedIsEmpty /\ NoOrphanedInput

LEMMA InitReach == Init => ReachInv
<1> SUFFICES ASSUME Init PROVE ReachInv
  OBVIOUS
<1>1. \A s \in States : tstate[s].items = <<>>
  BY DEF Init, FreshTurnState
<1>2. \A t \in Turns : pc[t] = "unborn"
  BY ConstantsAssumption DEF Init, Procs, Clients
<1>3. pc[Loop] = "idle"
  BY DEF Init, Procs, Clients
<1> QED
  BY <1>1, <1>2, <1>3 DEF ReachInv, SavedBeforeClear, ReservedIsEmpty, NoOrphanedInput

\* A step of a task.
LEMMA TaskReach ==
  ASSUME SingleStarter, TypeOK, Ownership, HoldersInv, ReachInv,
         NEW t \in Turns, TaskKind(t)
  PROVE  ReachInv'
<1>0. Loop \in Procs /\ t \in Procs /\ Loop # t /\ Turns \subseteq Procs /\ t # None
  BY Processes DEF Procs, Clients
<1>1. /\ TaskAlone(t) /\ \A u \in Turns \ {t} : pc'[u] = pc[u] /\ loc'[u] = loc[u]
  BY <1>0 DEF TaskKind, TaskWorksOn, TaskLeaves, TaskTakes, TaskReports, TaskClears, TaskAlone
<1>2. /\ \A u \in Turns : loc[u].ts \in States \cup {None}
      /\ active.ts \in States \cup {None} /\ None \notin States
  BY <1>0, ConstantsAssumption DEF TypeOK, Locals
<1>e. ASSUME \A s \in States : tstate'[s].items \in {tstate[s].items, <<>>}
      PROVE  ReservedIsEmpty'
  <2>1. pc'[Loop] = pc[Loop] /\ loc'[Loop] = loc[Loop] /\ loc[Loop].ts \in States \cup {None}
    BY <1>0, <1>1 DEF TaskAlone, TypeOK, Locals
  <2> QED
    BY <1>e, <2>1 DEF ReachInv, ReservedIsEmpty
<1>3. CASE TaskWorksOn(t)
  <2>1. /\ active' = active /\ pc'[t] \in Working /\ loc'[t].ts = loc[t].ts
    BY <1>3 DEF TaskWorksOn
  <2>2. \A s \in States : tstate'[s].items \in {tstate[s].items, <<>>}
    <3>1. ASSUME NEW ph, tstate' = [tstate EXCEPT ![active.ts].phase = ph]
          PROVE  \A s \in States : tstate'[s].items = tstate[s].items
      BY <3>1 DEF TypeOK, TurnState
    <3>2. ASSUME tstate' = [tstate EXCEPT ![active.ts].items = <<>>]
          PROVE  \A s \in States : tstate'[s].items \in {tstate[s].items, <<>>}
      BY <3>2 DEF TypeOK, TurnState
    <3> QED
      BY <1>3, <3>1, <3>2 DEF TaskWorksOn, Opened, Deferred
  <2>3. SavedBeforeClear'
    BY <1>1, <1>2, <2>1, <2>2 DEF ReachInv, SavedBeforeClear, Working
  <2>4. NoOrphanedInput'
    BY <1>0, <1>1, <2>1, <2>2 DEF ReachInv, NoOrphanedInput, TaskAlone
  <2> QED
    BY <1>e, <2>2, <2>3, <2>4 DEF ReachInv
<1>4. CASE TaskLeaves(t)
  <2>1. /\ active' = active /\ tstate' = tstate /\ pc'[t] = "dead"
        /\ pc[t] \in {"end", "take", "clear", "maybe"}
    BY <1>4 DEF TaskLeaves
  <2>2. loc[t].ts # None => tstate[loc[t].ts].items = <<>>
    BY <2>1 DEF HoldersInv, FinishingHolds, ReachInv, SavedBeforeClear
  <2>3. SavedBeforeClear'
    BY <1>1, <2>1 DEF ReachInv, SavedBeforeClear
  <2>4. NoOrphanedInput'
    <3> SUFFICES ASSUME NEW s \in States, tstate[s].items # <<>>
                 PROVE  active.ts = s \/ \E p \in Procs : loc'[p].ts = s
      BY <2>1 DEF NoOrphanedInput
    <3>1. loc[t].ts # s
      BY <1>2, <2>2
    <3> QED
      BY <1>1, <3>1 DEF ReachInv, NoOrphanedInput, TaskAlone
  <2> QED
    BY <1>e, <2>1, <2>3, <2>4 DEF ReachInv
<1>5. CASE TaskTakes(t)
  <2>1. /\ active'.ts = active.ts /\ tstate' = tstate /\ pc'[t] = "report" /\ pc[t] = "take"
    BY <1>5 DEF TaskTakes, TypeOK
  <2>2. loc[t].ts = None
    BY <2>1 DEF HoldersInv, FinishingHolds
  <2>3. SavedBeforeClear'
    BY <1>1, <2>1 DEF ReachInv, SavedBeforeClear
  <2>4. NoOrphanedInput'
    BY <1>1, <1>2, <2>1, <2>2 DEF ReachInv, NoOrphanedInput, TaskAlone
  <2> QED
    BY <1>e, <2>1, <2>3, <2>4 DEF ReachInv
<1>6. CASE TaskReports(t)
  <2>1. /\ active' = active /\ pc[t] = "report" /\ loc'[t] = loc[t]
        /\ tstate' = [tstate EXCEPT ![loc[t].ts].items = <<>>]
    BY <1>6 DEF TaskReports
  <2>2. /\ \A s \in States : tstate'[s].items \in {tstate[s].items, <<>>}
        /\ loc[t].ts # None => tstate'[loc[t].ts].items = <<>>
    BY <1>2, <2>1 DEF TypeOK, TurnState
  <2>3. SavedBeforeClear'
    BY <1>1, <1>2, <2>1, <2>2 DEF ReachInv, SavedBeforeClear
  <2>4. NoOrphanedInput'
    BY <1>1, <2>1, <2>2 DEF ReachInv, NoOrphanedInput, TaskAlone
  <2> QED
    BY <1>e, <2>2, <2>3, <2>4 DEF ReachInv
<1>7. CASE TaskClears(t)
  <2>1. /\ tstate' = tstate /\ pc[t] = "clear" /\ loc'[t] = loc[t] /\ active.ts = loc[t].ts
    BY <1>7 DEF TaskClears
  <2>2. SavedBeforeClear'
    BY <1>1, <2>1 DEF ReachInv, SavedBeforeClear
  <2>3. NoOrphanedInput'
    BY <1>0, <1>1, <2>1 DEF ReachInv, NoOrphanedInput, TaskAlone
  <2> QED
    BY <1>e, <2>1, <2>2, <2>3 DEF ReachInv
<1> QED
  BY <1>3, <1>4, <1>5, <1>6, <1>7 DEF TaskKind

\* A step of the loop.
LEMMA LoopReach ==
  ASSUME SingleStarter, "Inject" \notin Ops, TypeOK, Ownership, HoldersInv, FreshStates,
         ReachInv, LoopKind
  PROVE  ReachInv'
<1>0. /\ Loop \in Procs /\ Turns \subseteq Procs /\ Loop \notin Turns /\ None \notin States
      /\ loc[Loop].ts \in States \cup {None} /\ active.ts \in States \cup {None}
      /\ \A u \in Turns : loc[u].ts \in States \cup {None}
  BY Processes, ConstantsAssumption DEF Procs, Clients, TypeOK, Locals
<1>a. ASSUME LoopAlone
      PROVE  \A u \in Turns : pc'[u] = pc[u] /\ loc'[u] = loc[u]
  BY <1>0, <1>a DEF LoopAlone
<1>b. ASSUME LoopAlone, \A s \in States : tstate'[s].items \in {tstate[s].items, <<>>}
      PROVE  SavedBeforeClear'
  BY <1>0, <1>a, <1>b DEF ReachInv, SavedBeforeClear
\* The loop lets go only of a state that is empty or in the slot.
<1>c. ASSUME LoopAlone, \A s \in States : tstate'[s].items \in {tstate[s].items, <<>>},
             \A s \in States : /\ tstate'[s].items # <<>>
                               /\ active.ts = s \/ loc[Loop].ts = s
                               => \/ active'.ts = s \/ loc'[Loop].ts = s
                                  \/ \E t \in Turns : loc[t].ts = s
      PROVE  NoOrphanedInput'
  <2> SUFFICES ASSUME NEW s \in States, tstate'[s].items # <<>>
               PROVE  active'.ts = s \/ \E p \in Procs : loc'[p].ts = s
    BY DEF NoOrphanedInput
  <2>1. tstate[s].items # <<>>
    BY <1>c
  <2>2. CASE active.ts = s \/ loc[Loop].ts = s
    BY <1>0, <1>a, <1>c, <2>2
  <2>3. CASE \E p \in Procs \ {Loop} : loc[p].ts = s
    BY <1>c, <2>3 DEF LoopAlone
  <2> QED
    BY <1>0, <2>1, <2>2, <2>3 DEF ReachInv, NoOrphanedInput
<1>e. ASSUME pc'[Loop] # "ifidle" PROVE ReservedIsEmpty'
  BY <1>e DEF ReservedIsEmpty
<1>d. Idle.ts = None
  BY DEF Idle
<1>1. CASE StartGoesOn
  <2>1. /\ LoopAlone /\ active' = active /\ loc'[Loop].ts = loc[Loop].ts /\ pc[Loop] \in Starting
        /\ pc'[Loop] # "ifidle" /\ tstate' \in {tstate, Extended(loc[Loop].ts, loc[Loop].mail)}
    BY <1>1 DEF StartGoesOn
  <2>2. active.ts = loc[Loop].ts
    BY <2>1 DEF HoldersInv, LoopAndSlot
  <2>3. \A s \in States \ {loc[Loop].ts} : tstate'[s] = tstate[s]
    BY <2>1 DEF Extended, TypeOK
  <2>4. \A u \in Turns : loc[u].ts # None => loc[u].ts # loc[Loop].ts
    BY <2>1, <2>2 DEF HoldersInv, FinishingHolds
  <2>5. SavedBeforeClear'
    BY <1>0, <1>a, <2>1, <2>3, <2>4 DEF ReachInv, SavedBeforeClear
  <2>6. NoOrphanedInput'
    <3> SUFFICES ASSUME NEW s \in States, tstate'[s].items # <<>>
                 PROVE  active'.ts = s \/ \E p \in Procs : loc'[p].ts = s
      BY DEF NoOrphanedInput
    <3>1. CASE s = loc[Loop].ts
      BY <2>1, <2>2, <3>1
    <3>2. CASE s # loc[Loop].ts
      BY <2>1, <2>3, <3>2 DEF ReachInv, NoOrphanedInput, LoopAlone
    <3> QED
      BY <3>1, <3>2
  <2> QED
    BY <1>e, <2>1, <2>5, <2>6 DEF ReachInv
<1>2. CASE StartAdopts
  <2>1. /\ LoopAlone /\ active' = [active EXCEPT !.ts = SlotState] /\ loc'[Loop].ts = SlotState
        /\ pc[Loop] = "adopt" /\ pc'[Loop] = "extend" /\ tstate' = tstate
    BY <1>2 DEF StartAdopts
  <2>2. active'.ts = SlotState /\ active.ts = loc[Loop].ts
    BY <2>1 DEF TypeOK, HoldersInv, LoopAndSlot, Starting
  <2>3. active.ts # None => SlotState = active.ts
    BY DEF SlotState
  <2> QED
    BY <1>0, <1>b, <1>c, <1>e, <2>1, <2>2, <2>3 DEF ReachInv
<1>3. ASSUME NEW t \in Turns, StartInstalls(t) PROVE ReachInv'
  <2>1. /\ active'.ts = SlotState /\ tstate' = tstate /\ pc[Loop] = "install" /\ pc[t] = "unborn"
        /\ pc'[Loop] = "idle" /\ pc'[t] = "begin" /\ \A q \in Procs \ {Loop, t} : pc'[q] = pc[q] /\ loc'[q] = loc[q]
    BY <1>3 DEF StartInstalls
  <2>2. active.ts = loc[Loop].ts
    BY <2>1 DEF HoldersInv, LoopAndSlot, Starting
  <2>3. active.ts # None => SlotState = active.ts
    BY DEF SlotState
  <2>4. loc[t].ts = None
    BY <2>1 DEF HoldersInv, FinishingHolds
  <2>5. SavedBeforeClear'
    BY <1>0, <2>1 DEF ReachInv, SavedBeforeClear
  <2>6. NoOrphanedInput'
    <3> SUFFICES ASSUME NEW s \in States, tstate[s].items # <<>>
                 PROVE  active'.ts = s \/ \E p \in Procs : loc'[p].ts = s
      BY <2>1 DEF NoOrphanedInput
    <3>1. CASE active.ts = s
      BY <1>0, <2>1, <2>3, <3>1
    <3>2. CASE \E p \in Procs \ {Loop, t} : loc[p].ts = s
      BY <2>1, <3>2
    <3> QED
      BY <1>0, <2>2, <2>4, <3>1, <3>2 DEF ReachInv, NoOrphanedInput
  <2> QED
    BY <1>e, <2>1, <2>5, <2>6 DEF ReachInv
<1>4. CASE LoopTakes
  <2>1. /\ LoopAlone /\ loc'[Loop].ts = active.ts /\ tstate' = tstate
        /\ pc[Loop] \in {"idle", "abort"} /\ pc'[Loop] = "kill"
    BY <1>4 DEF LoopTakes
  <2>2. loc[Loop].ts = None
    BY <2>1 DEF HoldersInv, LoopAndSlot, Starting, Taking
  <2> QED
    BY <1>0, <1>b, <1>c, <1>e, <2>1, <2>2 DEF ReachInv
<1>5. ASSUME NEW v \in Turns, LoopKills(v) PROVE ReachInv'
  <2>1. /\ v = loc[Loop].victim /\ pc[Loop] = "kill" /\ pc'[v] = "dead" /\ loc'[Loop] = loc[Loop]
        /\ active' = active /\ tstate' = tstate /\ pc'[Loop] # "ifidle"
        /\ \A q \in Procs \ {Loop, v} : pc'[q] = pc[q] /\ loc'[q] = loc[q]
    BY <1>5 DEF LoopKills
  <2>2. loc[v].ts = None
    BY <2>1 DEF Ownership, OneReporter, HoldersInv, FinishingHolds, Working
  <2>3. SavedBeforeClear'
    BY <1>0, <2>1 DEF ReachInv, SavedBeforeClear
  <2>4. NoOrphanedInput'
    <3> SUFFICES ASSUME NEW s \in States, tstate[s].items # <<>>
                 PROVE  active.ts = s \/ \E p \in Procs : loc'[p].ts = s
      BY <2>1 DEF NoOrphanedInput
    <3>1. CASE \E p \in Procs \ {v} : loc[p].ts = s
      BY <2>1, <3>1
    <3> QED
      BY <1>0, <2>2, <3>1 DEF ReachInv, NoOrphanedInput
  <2> QED
    BY <1>e, <2>1, <2>3, <2>4 DEF ReachInv
<1>6. CASE LoopReports
  <2>1. /\ LoopAlone /\ loc'[Loop] = loc[Loop] /\ tstate' = tstate /\ active' = active
        /\ pc'[Loop] = "wipe"
    BY <1>6 DEF LoopReports
  <2> QED
    BY <1>b, <1>c, <1>e, <2>1 DEF ReachInv
<1>7. CASE LoopWipes
  <2>1. /\ LoopAlone /\ active' = active /\ pc'[Loop] # "ifidle"
        /\ tstate' = [tstate EXCEPT ![loc[Loop].ts].items = <<>>]
    BY <1>7 DEF LoopWipes
  <2>2. /\ \A s \in States : tstate'[s].items \in {tstate[s].items, <<>>}
        /\ loc[Loop].ts # None => tstate'[loc[Loop].ts].items = <<>>
    BY <1>0, <2>1 DEF TypeOK, TurnState
  <2> QED
    BY <1>0, <1>b, <1>c, <1>e, <2>1, <2>2 DEF ReachInv
<1>8. CASE LoopMovesOn
  <2>1. /\ LoopAlone /\ tstate' = tstate /\ pc[Loop] \in {"idle", "abort", "maybe", "exiting", "leaving"}
        /\ \/ active' = active
           \/ active.task = None /\ active' = Idle
        /\ pc'[Loop] # "ifidle"
    BY <1>8 DEF LoopMovesOn
  <2>2. loc[Loop].ts = None /\ pc[Loop] \notin Starting
    BY <2>1 DEF HoldersInv, LoopAndSlot, Starting, Taking
  <2>3. \A s \in States : active.ts = s => active'.ts = s \/ \E t \in Turns : loc[t].ts = s
    BY <1>0, <2>1, <2>2 DEF HoldersInv, ReservedFor
  <2> QED
    BY <1>0, <1>b, <1>c, <1>e, <2>1, <2>2, <2>3 DEF ReachInv
<1>9. CASE LoopReserves
  <2>1. /\ LoopAlone /\ tstate' = tstate /\ active.ts = None /\ pc[Loop] = "idle"
        /\ loc'[Loop].ts = NewState /\ FreeStates # {}
    BY <1>9 DEF LoopReserves
  <2>2. loc[Loop].ts = None
    BY <2>1 DEF HoldersInv, LoopAndSlot, Starting, Taking
  <2>3. tstate[NewState].items = <<>>
    BY <2>1, FreshState DEF FreshStates, FreshTurnState
  <2>4. ReservedIsEmpty'
    BY <2>1, <2>3 DEF ReservedIsEmpty
  <2> QED
    BY <1>0, <1>b, <1>c, <2>1, <2>2, <2>4 DEF ReachInv
<1>10. CASE LoopGivesUp
  <2>1. /\ LoopAlone /\ tstate' = tstate /\ pc[Loop] = "ifidle" /\ pc'[Loop] = "idle"
    BY <1>10 DEF LoopGivesUp
  <2>2. active.ts = loc[Loop].ts
    BY <2>1 DEF HoldersInv, LoopAndSlot, Starting
  <2>3. loc[Loop].ts # None => tstate[loc[Loop].ts].items = <<>>
    BY <2>1 DEF ReachInv, ReservedIsEmpty
  <2> QED
    BY <1>0, <1>b, <1>c, <1>e, <2>1, <2>2, <2>3 DEF ReachInv
<1>11. ASSUME NEW q \in Seq(Items), InputArrives(q) PROVE ReachInv'
  <2>1. UNCHANGED <<active, pc, loc>>
    BY <1>11 DEF InputArrives
  <2>2. CASE tstate' = tstate
    BY <2>1, <2>2 DEF ReachInv, SavedBeforeClear, ReservedIsEmpty, NoOrphanedInput
  <2>3. CASE /\ active.ts # None /\ active.task # None
             /\ tstate' = ExtendedAndOpen(active.ts, q)
    <3>1. \A s \in States \ {active.ts} : tstate'[s] = tstate[s]
      BY <2>3 DEF ExtendedAndOpen, TypeOK
    <3>2. \A u \in Turns : loc[u].ts # None => loc[u].ts # active.ts
      BY <2>3 DEF HoldersInv, FinishingHolds
    <3>3. SavedBeforeClear'
      BY <1>0, <2>1, <3>1, <3>2 DEF ReachInv, SavedBeforeClear
    <3>4. NoOrphanedInput'
      BY <2>1, <3>1 DEF ReachInv, NoOrphanedInput
    <3>5. ReservedIsEmpty'
      BY <2>1, <2>3 DEF Ownership, SlotNamesTask, SlotEmptyLabels, Starting, ReservedIsEmpty
    <3> QED
      BY <3>3, <3>4, <3>5 DEF ReachInv
  <2> QED
    BY <1>11, <2>2, <2>3 DEF InputArrives
<1> QED
  BY <1>1, <1>2, <1>3, <1>4, <1>5, <1>6, <1>7, <1>8, <1>9, <1>10, <1>11 DEF LoopKind

\* Without injections from outside the turn, what was put into a turn state is
\* recorded or cleared by somebody who still holds it.
THEOREM InputIsReachable ==
  ASSUME SingleStarter, "Inject" \notin Ops PROVE Spec => []NoOrphanedInput
<1>1. Init => ReachInv
  BY InitReach
<1>2. TypeOK /\ Ownership /\ HoldersInv /\ ReachInv /\ PhaseInv /\ [Next]_vars => ReachInv'
  BY StepKinds, TaskReach, LoopReach DEF PhaseInv
<1>3. ReachInv => NoOrphanedInput
  BY DEF ReachInv
<1> QED
  BY <1>1, <1>2, <1>3, TypeCorrect, OwnershipHolds, HoldersHold, PhasesHold, PTL DEF Spec
=============================================================================
