---------------------------- MODULE MemoryJobs ----------------------------
(***************************************************************************)
(* The jobs that distil memories from finished threads, claimed under      *)
(* leases from a database that several processes share                     *)
(* (codex-rs/state/src/runtime/memories.rs), and the workers that run them *)
(* when a session starts (codex-rs/memories/write/src/phase1.rs and        *)
(* phase2.rs).                                                             *)
(*                                                                         *)
(* Phase 1 extracts an output from each thread that changed since its last *)
(* output; one job row per thread.  Phase 2 holds the one global job,      *)
(* copies the outputs of the enabled threads into a workspace directory,   *)
(* lets an agent consolidate them unless the directory equals its git      *)
(* baseline, makes it the new baseline and marks the outputs it used.      *)
(*                                                                         *)
(* A transaction of the database is one action.  Time is abstracted to     *)
(* what the queries compare: a lease that has or has not run out (leased), *)
(* a retry_at that has or has not passed (backoff), a success within the   *)
(* cooldown (cooling); passing time is an action that clears the flag.  A  *)
(* worker holds at most one claim of a job, so the row's ownership_token   *)
(* is modelled by the worker that still holds it, or Gone when that worker *)
(* died or gave up.  updated_at of a thread is a small number; 0 stands    *)
(* for a row that does not exist.                                          *)
(*                                                                         *)
(* The watermarks and retry_remaining of the global job are bookkeeping no *)
(* query looks at, and are left out.                                       *)
(***************************************************************************)
EXTENDS Naturals, FiniteSets

CONSTANTS
    Threads,
    Workers,         \* sessions that run the startup pipeline
    Nobody,          \* ownership_token IS NULL
    Gone,            \* a token nobody holds any more
    NoRepo,          \* the memory root has no git baseline
    DefaultRetries,  \* DEFAULT_RETRY_REMAINING
    MaxRunning,      \* max_rollouts_per_startup: also the limit on running jobs
    UserOps,         \* what happens to threads: change, pollute, delete, prune
    MaxSource,       \* bound: the last updated_at of a thread
    MaxFaults,       \* bound: crashes, stalls, failures
    MaxResets        \* bound: memory/reset calls

ASSUME MemoryAssumption ==
    /\ DefaultRetries \in Nat \ {0} /\ MaxRunning \in Nat \ {0}
    /\ MaxSource \in Nat \ {0} /\ MaxFaults \in Nat /\ MaxResets \in Nat
    /\ UserOps \subseteq {"change", "pollute", "delete", "prune"}
    /\ IsFiniteSet(Threads) /\ IsFiniteSet(Workers)
    /\ Nobody \notin Workers /\ Gone \notin Workers /\ Nobody # Gone

VARIABLES
    thread,     \* state DB: thread -> updated_at, memory_mode
    job,        \* stage-1 job rows
    output,     \* stage1_outputs: source_updated_at, selected_for_phase2
    global,     \* the consolidation job row
    workspace,  \* the outputs copied into the memory root
    baseline,   \* the outputs in its git baseline
    worker,     \* what each worker is doing
    user,       \* multi-step operations on a thread in progress
    faults,     \* faults so far
    resets      \* memory/reset: calls so far, and whether one is half done

vars == <<thread, job, output, global, workspace, baseline, worker, user, faults, resets>>

Sources == 0..MaxSource
None == [t \in Threads |-> 0]
NoJob == [status |-> "none", owner |-> Nobody, leased |-> FALSE,
          backoff |-> FALSE, retries |-> 0, input |-> 0, success |-> 0]
NoGlobal == [status |-> "none", owner |-> Nobody, leased |-> FALSE,
             backoff |-> FALSE, failed |-> FALSE, cooling |-> FALSE]
NoOutput == [source |-> 0, selected |-> 0]
Off == [pc |-> "off", seen |-> None, claim |-> None, loaded |-> {}, snap |-> None]
Failing == [Off EXCEPT !.pc = "failed"]

Init ==
    /\ thread = [t \in Threads |-> [source |-> 1, mode |-> "enabled"]]
    /\ job = [t \in Threads |-> NoJob]
    /\ output = [t \in Threads |-> NoOutput]
    /\ global = NoGlobal
    /\ workspace = None
    /\ baseline = NoRepo
    /\ worker = [w \in Workers |-> Off]
    /\ user = [t \in Threads |-> "idle"]
    /\ faults = 0
    /\ resets = [calls |-> 0, rootsLeft |-> FALSE]

Fault == faults < MaxFaults /\ faults' = faults + 1

Enabled(t) == thread[t].mode = "enabled"

(***************************************************************************)
(* Stage-1 jobs                                                            *)
(***************************************************************************)

\* Mutant: a thread that has an output is up to date.
UpToDateOnce(t, s) == output[t].source # 0 \/ job[t].success >= s

UpToDate(t, s) == output[t].source >= s \/ job[t].success >= s

Leased(t) == job[t].status = "running" /\ job[t].leased
Running == {t \in Threads : Leased(t)}

(* The INSERT adds a row, or turns into an UPDATE of the row there is; its *)
(* WHERE counts every valid lease, the row's own too.                      *)
MayInsert(t) == job[t].status = "none"
\* Mutant: a job without retries is claimed again.
MayUpdateExhausted(t, s) ==
    /\ job[t].status # "none"
    /\ ~Leased(t)
    /\ ~job[t].backoff \/ s > job[t].input
    /\ Cardinality(Running \ {t}) < MaxRunning

MayUpdate(t, s) ==
    /\ job[t].status # "none"
    /\ ~Leased(t)
    /\ ~job[t].backoff \/ s > job[t].input
    /\ job[t].retries > 0 \/ s > job[t].input
    /\ Cardinality(Running \ {t}) < MaxRunning

\* Mutant: the limit is not applied to a new row.
ClaimableUnlimited(t, s) == ~UpToDate(t, s) /\ (MayInsert(t) \/ MayUpdate(t, s))

Claimable(t, s) ==
    /\ ~UpToDate(t, s)
    /\ Cardinality(Running) < MaxRunning
    /\ MayInsert(t) \/ MayUpdate(t, s)

ClaimedRow(w, t, s) ==
    [status |-> "running", owner |-> w, leased |-> TRUE, backoff |-> FALSE,
     retries |-> IF job[t].status = "none" \/ s > job[t].input
                 THEN DefaultRetries ELSE job[t].retries,
     input |-> s, success |-> job[t].success]

\* Mutant: a report is accepted whoever holds the running job.
OwnsUnchecked(w, t) == job[t].status = "running"

Owns(w, t) == job[t].status = "running" /\ job[t].owner = w

DoneRow(t) ==
    [job[t] EXCEPT !.status = "done", !.leased = FALSE, !.success = job[t].input]

FailedRow(t) ==
    [job[t] EXCEPT !.status = "error", !.leased = FALSE, !.backoff = TRUE,
                   !.retries = @ - 1]

(* enqueue_global_consolidation: an upsert that leaves a running job.      *)
Enqueued ==
    IF global.status = "running" THEN global
    ELSE [global EXCEPT !.status = "pending", !.backoff = FALSE]

(***************************************************************************)
(* Phase 1 of a worker                                                     *)
(***************************************************************************)

(* The pipeline starts with the pruning of outputs that were not used for  *)
(* long and are in no baseline.                                            *)
Startup(w) ==
    /\ worker[w].pc = "off"
    /\ \E S \in SUBSET {t \in Threads : "prune" \in UserOps /\ output[t].selected = 0} :
           output' = [t \in Threads |-> IF t \in S THEN NoOutput ELSE output[t]]
    /\ worker' = [worker EXCEPT ![w].pc = "scan"]
    /\ UNCHANGED <<thread, job, global, workspace, baseline, user, faults, resets>>

RateLimited(w) ==
    /\ worker[w].pc = "scan" /\ Fault
    /\ worker' = [worker EXCEPT ![w] = Off]
    /\ UNCHANGED <<thread, job, output, global, workspace, baseline, user, resets>>

(* The candidate threads, with the updated_at the later claims will use.   *)
Scan(w) ==
    /\ worker[w].pc = "scan"
    /\ worker' = [worker EXCEPT
           ![w].pc = "phase1",
           ![w].seen = [t \in Threads |-> IF Enabled(t) THEN thread[t].source ELSE 0]]
    /\ UNCHANGED <<thread, job, output, global, workspace, baseline, user, faults, resets>>

Claims(w) == {t \in Threads : worker[w].claim[t] # 0}

Claim(w, t) ==
    LET s == worker[w].seen[t] IN
    /\ worker[w].pc = "phase1" /\ s # 0
    /\ Cardinality(Claims(w)) < MaxRunning /\ Claimable(t, s)
    /\ job' = [job EXCEPT ![t] = ClaimedRow(w, t, s)]
    /\ worker' = [worker EXCEPT ![w].seen[t] = 0, ![w].claim[t] = s]
    /\ UNCHANGED <<thread, output, global, workspace, baseline, user, faults, resets>>

Skip(w, t) ==
    LET s == worker[w].seen[t] IN
    /\ worker[w].pc = "phase1" /\ s # 0
    /\ ~(Cardinality(Claims(w)) < MaxRunning /\ Claimable(t, s))
    /\ worker' = [worker EXCEPT ![w].seen[t] = 0]
    /\ UNCHANGED <<thread, job, output, global, workspace, baseline, user, faults, resets>>

(* The jobs start when all claims have been made.  A job loads the rollout *)
(* of its thread, lets the model extract from it, and reports.             *)
InJob(w, t) == worker[w].pc = "phase1" /\ worker[w].seen = None /\ worker[w].claim[t] # 0
Report(w, t) ==
    worker' = [worker EXCEPT ![w].claim[t] = 0, ![w].loaded = @ \ {t}]

RolloutExists(t) == user[t] \notin {"rolloutGone", "rowsGone"} /\ thread[t].mode # "deleted"

LoadRollout(w, t) ==
    /\ InJob(w, t) /\ t \notin worker[w].loaded
    /\ RolloutExists(t)
    /\ worker' = [worker EXCEPT ![w].loaded = @ \cup {t}]
    /\ UNCHANGED <<thread, job, output, global, workspace, baseline, user, faults, resets>>

\* Mutant: the output is replaced whoever owns the job.
mark_stage1_job_succeeded_by_anyone(w, t) ==
    /\ InJob(w, t) /\ t \in worker[w].loaded
    /\ job' = [job EXCEPT ![t] = DoneRow(t)]
    /\ output' = [output EXCEPT ![t].source = worker[w].claim[t]]
    /\ global' = Enqueued
    /\ Report(w, t)
    /\ UNCHANGED <<thread, workspace, baseline, user, faults, resets>>

mark_stage1_job_succeeded(w, t) ==
    LET s == worker[w].claim[t] IN
    /\ InJob(w, t) /\ t \in worker[w].loaded
    /\ Owns(w, t)
    /\ job' = [job EXCEPT ![t] = DoneRow(t)]
    /\ output' = [output EXCEPT ![t].source = IF s >= @ THEN s ELSE @]
    /\ global' = Enqueued
    /\ Report(w, t)
    /\ UNCHANGED <<thread, workspace, baseline, user, faults, resets>>

mark_stage1_job_succeeded_no_output(w, t) ==
    /\ InJob(w, t) /\ t \in worker[w].loaded
    /\ Owns(w, t)
    /\ job' = [job EXCEPT ![t] = DoneRow(t)]
    /\ output' = [output EXCEPT ![t] = NoOutput]
    /\ global' = IF output[t].source # 0 THEN Enqueued ELSE global
    /\ Report(w, t)
    /\ UNCHANGED <<thread, workspace, baseline, user, faults, resets>>

mark_stage1_job_failed(w, t) ==
    /\ InJob(w, t)
    /\ Owns(w, t)
    /\ job' = [job EXCEPT ![t] = FailedRow(t)]
    /\ Report(w, t)
    /\ UNCHANGED <<thread, output, global, workspace, baseline, user, resets>>

(* Without a rollout the job must fail; with one it may.                   *)
LoadFails(w, t) ==
    /\ t \notin worker[w].loaded /\ ~RolloutExists(t)
    /\ mark_stage1_job_failed(w, t) /\ UNCHANGED faults

ExtractionFails(w, t) == mark_stage1_job_failed(w, t) /\ Fault

(* Any of the three, when the row has another owner or is gone.            *)
ReportRefused(w, t) ==
    /\ InJob(w, t)
    /\ ~Owns(w, t)
    /\ Report(w, t)
    /\ UNCHANGED <<thread, job, output, global, workspace, baseline, user, faults, resets>>

(***************************************************************************)
(* Phase 2 of a worker                                                     *)
(***************************************************************************)

\* Mutant: a running job is taken for leased whatever its lease.
GlobalLeasedForever == global.status = "running"

GlobalLeased == global.status = "running" /\ global.leased
GlobalClaimable ==
    /\ ~global.backoff
    /\ ~GlobalLeased
    /\ ~(global.cooling /\ ~global.failed)

Phase1Over(w) ==
    worker[w].pc = "phase1" /\ worker[w].seen = None /\ worker[w].claim = None

try_claim_global_phase2_job(w) ==
    /\ Phase1Over(w)
    /\ GlobalClaimable
    /\ global' = [status |-> "running", owner |-> w, leased |-> TRUE,
                  backoff |-> FALSE, failed |-> FALSE, cooling |-> FALSE]
    /\ worker' = [worker EXCEPT ![w].pc = "select"]
    /\ UNCHANGED <<thread, job, output, workspace, baseline, user, faults, resets>>

SkipPhase2(w) ==
    /\ Phase1Over(w)
    /\ ~GlobalClaimable
    /\ worker' = [worker EXCEPT ![w] = Off]
    /\ UNCHANGED <<thread, job, output, global, workspace, baseline, user, faults, resets>>

(* The workspace gets a git baseline if it has none; then the outputs of   *)
(* enabled threads are selected, by thread and version.                    *)
SelectInputs(w) ==
    /\ worker[w].pc = "select"
    /\ baseline' = IF baseline = NoRepo THEN workspace ELSE baseline
    /\ worker' = [worker EXCEPT
           ![w].pc = "load",
           ![w].snap = [t \in Threads |-> IF Enabled(t) THEN output[t].source ELSE 0]]
    /\ UNCHANGED <<thread, job, output, global, workspace, user, faults, resets>>

(* The selected outputs are read; one that was replaced or deleted, or     *)
(* whose thread is no longer enabled, is left out.                         *)
LoadInputs(w) ==
    /\ worker[w].pc = "load"
    /\ worker' = [worker EXCEPT
           ![w].pc = "sync",
           ![w].snap = [t \in Threads |->
                           IF Enabled(t) /\ output[t].source = @[t] THEN @[t] ELSE 0]]
    /\ UNCHANGED <<thread, job, output, global, workspace, baseline, user, faults, resets>>

SyncWorkspace(w) ==
    /\ worker[w].pc = "sync"
    /\ workspace' = worker[w].snap
    /\ worker' = [worker EXCEPT ![w].pc = "diff"]
    /\ UNCHANGED <<thread, job, output, global, baseline, user, faults, resets>>

(* Without changes the agent still runs if its artifacts are not valid.    *)
DiffWorkspace(w) ==
    /\ worker[w].pc = "diff"
    /\ \/ baseline = workspace /\ worker' = [worker EXCEPT ![w].pc = "succeed"]
       \/ baseline # NoRepo /\ worker' = [worker EXCEPT ![w].pc = "agent"]
       \/ baseline = NoRepo /\ worker' = [worker EXCEPT ![w] = Failing]
    /\ UNCHANGED <<thread, job, output, global, workspace, baseline, user, faults, resets>>

OwnsGlobal(w) == global.status = "running" /\ global.owner = w

Heartbeat(w) ==
    /\ worker[w].pc = "agent"
    /\ \/ OwnsGlobal(w) /\ global' = [global EXCEPT !.leased = TRUE] /\ UNCHANGED worker
       \/ ~OwnsGlobal(w) /\ worker' = [worker EXCEPT ![w] = Failing] /\ UNCHANGED global
    /\ UNCHANGED <<thread, job, output, workspace, baseline, user, faults, resets>>

(* The agent, a check of its artifacts or a step before or after it fails. *)
StepFailed(w) ==
    /\ worker[w].pc \in {"select", "load", "sync", "diff", "agent", "reset"}
    /\ Fault
    /\ worker' = [worker EXCEPT ![w] = Failing]
    /\ UNCHANGED <<thread, job, output, global, workspace, baseline, user, resets>>

(* The agent has completed: it is shut down, its artifacts are validated   *)
(* and a last heartbeat is sent before the baseline is touched.            *)
ConfirmOwnership(w) ==
    /\ worker[w].pc = "agent"
    /\ \/ /\ OwnsGlobal(w)
          /\ global' = [global EXCEPT !.leased = TRUE]
          /\ worker' = [worker EXCEPT ![w].pc = "reset"]
       \/ ~OwnsGlobal(w) /\ worker' = [worker EXCEPT ![w] = Off] /\ UNCHANGED global
    /\ UNCHANGED <<thread, job, output, workspace, baseline, user, faults, resets>>

ResetBaseline(w) ==
    /\ worker[w].pc = "reset"
    /\ baseline' = workspace
    /\ worker' = [worker EXCEPT ![w].pc = "succeed"]
    /\ UNCHANGED <<thread, job, output, global, workspace, user, faults, resets>>

(* Only the exact outputs of the snapshot stay marked.                     *)
Marked(w) ==
    [t \in Threads |->
        [output[t] EXCEPT !.selected =
            IF worker[w].snap[t] = output[t].source THEN output[t].source ELSE 0]]

mark_global_phase2_job_succeeded(w) ==
    /\ worker[w].pc = "succeed"
    /\ \/ /\ OwnsGlobal(w)
          /\ global' = [global EXCEPT !.status = "done", !.leased = FALSE,
                                      !.failed = FALSE, !.cooling = TRUE]
          /\ output' = Marked(w)
       \/ ~OwnsGlobal(w) /\ UNCHANGED <<global, output>>
    /\ worker' = [worker EXCEPT ![w] = Off]
    /\ UNCHANGED <<thread, job, workspace, baseline, user, faults, resets>>

(* job::failed: first for the owner, then for a row without an owner.      *)
mark_global_phase2_job_failed(w) ==
    /\ worker[w].pc = "failed"
    /\ global' = IF global.status = "running" /\ global.owner \in {w, Nobody}
                 THEN [global EXCEPT !.status = "error", !.leased = FALSE,
                           !.backoff = TRUE, !.failed = TRUE, !.cooling = TRUE]
                 ELSE global
    /\ worker' = [worker EXCEPT ![w] = Off]
    /\ UNCHANGED <<thread, job, output, workspace, baseline, user, faults, resets>>

(***************************************************************************)
(* Faults and time                                                         *)
(***************************************************************************)

Abandoned(row, w) == IF row.owner = w THEN [row EXCEPT !.owner = Gone] ELSE row

(* The process dies; or phase 2 ends without touching its row, because the *)
(* agent could not be shut down.                                           *)
Crash(w) ==
    /\ worker[w].pc # "off" /\ Fault
    /\ worker' = [worker EXCEPT ![w] = Off]
    /\ job' = [t \in Threads |-> Abandoned(job[t], w)]
    /\ global' = Abandoned(global, w)
    /\ UNCHANGED <<thread, output, workspace, baseline, user, resets>>

(* The lease of a dead worker runs out.                                    *)
LeaseExpires(t) ==
    /\ Leased(t) /\ job[t].owner = Gone
    /\ job' = [job EXCEPT ![t].leased = FALSE]
    /\ UNCHANGED <<thread, output, global, workspace, baseline, worker, user, faults, resets>>

GlobalLeaseExpires ==
    /\ GlobalLeased /\ global.owner = Gone
    /\ global' = [global EXCEPT !.leased = FALSE]
    /\ UNCHANGED <<thread, job, output, workspace, baseline, worker, user, faults, resets>>

(* The lease of a live worker runs out: it was stopped for an hour, or its *)
(* extraction (phase 1 has no heartbeat) took longer than that.            *)
Stall(t) ==
    /\ Leased(t) /\ job[t].owner # Gone /\ Fault
    /\ job' = [job EXCEPT ![t].leased = FALSE]
    /\ UNCHANGED <<thread, output, global, workspace, baseline, worker, user, resets>>

GlobalStall ==
    /\ GlobalLeased /\ global.owner # Gone /\ Fault
    /\ global' = [global EXCEPT !.leased = FALSE]
    /\ UNCHANGED <<thread, job, output, workspace, baseline, worker, user, resets>>

BackoffElapses(t) ==
    /\ job[t].backoff
    /\ job' = [job EXCEPT ![t].backoff = FALSE]
    /\ UNCHANGED <<thread, output, global, workspace, baseline, worker, user, faults, resets>>

GlobalBackoffElapses ==
    /\ global.backoff
    /\ global' = [global EXCEPT !.backoff = FALSE]
    /\ UNCHANGED <<thread, job, output, workspace, baseline, worker, user, faults, resets>>

CooldownElapses ==
    /\ global.cooling
    /\ global' = [global EXCEPT !.cooling = FALSE]
    /\ UNCHANGED <<thread, job, output, workspace, baseline, worker, user, faults, resets>>

(***************************************************************************)
(* What users and sessions do to threads                                   *)
(***************************************************************************)

ThreadChanges(t) ==
    /\ "change" \in UserOps /\ thread[t].mode # "deleted" /\ thread[t].source < MaxSource
    /\ thread' = [thread EXCEPT ![t].source = @ + 1]
    /\ UNCHANGED <<job, output, global, workspace, baseline, worker, user, faults, resets>>

(* mark_thread_memory_mode_polluted: the flag is read from one database,   *)
(* the mode changed in the other, the consolidation queued in the first.   *)
PolluteReads(t) ==
    /\ "pollute" \in UserOps /\ user[t] = "idle" /\ thread[t].mode # "deleted"
    /\ user' = [user EXCEPT ![t] = IF output[t].selected # 0 THEN "selected" ELSE "unselected"]
    /\ UNCHANGED <<thread, job, output, global, workspace, baseline, worker, faults, resets>>

PolluteMarks(t) ==
    /\ user[t] \in {"selected", "unselected"}
    /\ thread' = [thread EXCEPT ![t].mode = "polluted"]
    /\ user' = [user EXCEPT ![t] = IF @ = "selected" THEN "enqueue" ELSE "idle"]
    /\ UNCHANGED <<job, output, global, workspace, baseline, worker, faults, resets>>

PolluteEnqueues(t) ==
    /\ user[t] = "enqueue"
    /\ global' = Enqueued
    /\ user' = [user EXCEPT ![t] = "idle"]
    /\ UNCHANGED <<thread, job, output, workspace, baseline, worker, faults, resets>>

(* thread/delete: the rollout goes first, then the memories, and last the  *)
(* row of the thread.                                                      *)
DeleteRollout(t) ==
    /\ "delete" \in UserOps /\ user[t] = "idle" /\ thread[t].mode # "deleted"
    /\ user' = [user EXCEPT ![t] = "rolloutGone"]
    /\ UNCHANGED <<thread, job, output, global, workspace, baseline, worker, faults, resets>>

\* Mutant: the job row of a deleted thread stays.
delete_thread_memory_only_output(t) ==
    /\ user[t] = "rolloutGone"
    /\ output' = [output EXCEPT ![t] = NoOutput]
    /\ global' = IF output[t].selected # 0 THEN Enqueued ELSE global
    /\ user' = [user EXCEPT ![t] = "rowsGone"]
    /\ UNCHANGED <<thread, job, workspace, baseline, worker, faults, resets>>

delete_thread_memory(t) ==
    /\ user[t] = "rolloutGone"
    /\ output' = [output EXCEPT ![t] = NoOutput]
    /\ job' = [job EXCEPT ![t] = NoJob]
    /\ global' = IF output[t].selected # 0 THEN Enqueued ELSE global
    /\ user' = [user EXCEPT ![t] = "rowsGone"]
    /\ UNCHANGED <<thread, workspace, baseline, worker, faults, resets>>

DeleteThreadRow(t) ==
    /\ user[t] = "rowsGone"
    /\ thread' = [thread EXCEPT ![t] = [source |-> 0, mode |-> "deleted"]]
    /\ user' = [user EXCEPT ![t] = "idle"]
    /\ UNCHANGED <<job, output, global, workspace, baseline, worker, faults, resets>>

(* memory/reset: all rows, then the files.                                 *)
clear_memory_data ==
    /\ resets.calls < MaxResets /\ ~resets.rootsLeft
    /\ resets' = [calls |-> resets.calls + 1, rootsLeft |-> TRUE]
    /\ output' = [t \in Threads |-> NoOutput]
    /\ job' = [t \in Threads |-> NoJob]
    /\ global' = NoGlobal
    /\ UNCHANGED <<thread, workspace, baseline, worker, user, faults>>

clear_memory_roots_contents ==
    /\ resets.rootsLeft
    /\ resets' = [resets EXCEPT !.rootsLeft = FALSE]
    /\ workspace' = None
    /\ baseline' = NoRepo
    /\ UNCHANGED <<thread, job, output, global, worker, user, faults>>

(***************************************************************************)
(* The specification                                                       *)
(***************************************************************************)

JobStep(w, t) ==
    \/ Claim(w, t) \/ Skip(w, t) \/ LoadRollout(w, t) \/ LoadFails(w, t)
    \/ ReportRefused(w, t)
    \/ mark_stage1_job_succeeded(w, t) \/ mark_stage1_job_succeeded_no_output(w, t)

WorkerStep(w) ==
    \/ Startup(w) \/ Scan(w) \/ \E t \in Threads : JobStep(w, t)
    \/ try_claim_global_phase2_job(w) \/ SkipPhase2(w)
    \/ SelectInputs(w) \/ LoadInputs(w) \/ SyncWorkspace(w) \/ DiffWorkspace(w)
    \/ ConfirmOwnership(w) \/ ResetBaseline(w)
    \/ mark_global_phase2_job_succeeded(w) \/ mark_global_phase2_job_failed(w)

Timers ==
    \/ \E t \in Threads : LeaseExpires(t) \/ BackoffElapses(t)
    \/ GlobalLeaseExpires \/ GlobalBackoffElapses \/ CooldownElapses

UserStep(t) ==
    \/ PolluteMarks(t) \/ PolluteEnqueues(t)
    \/ delete_thread_memory(t) \/ DeleteThreadRow(t)

Next ==
    \/ \E w \in Workers :
           \/ WorkerStep(w) \/ Heartbeat(w)
           \/ RateLimited(w) \/ StepFailed(w) \/ Crash(w)
           \/ \E t \in Threads : ExtractionFails(w, t)
    \/ Timers \/ GlobalStall
    \/ \E t \in Threads :
           Stall(t) \/ ThreadChanges(t) \/ PolluteReads(t) \/ DeleteRollout(t) \/ UserStep(t)
    \/ clear_memory_data \/ clear_memory_roots_contents

(* Sessions keep being started, a worker that can go on goes on, time      *)
(* passes, and what a user began is finished.                              *)
Fairness ==
    /\ \A w \in Workers : WF_vars(WorkerStep(w))
    /\ \A t \in Threads : WF_vars(LeaseExpires(t)) /\ WF_vars(BackoffElapses(t))
    /\ \A t \in Threads : WF_vars(UserStep(t))
    /\ WF_vars(GlobalLeaseExpires)
    /\ WF_vars(GlobalBackoffElapses)
    /\ WF_vars(CooldownElapses)
    /\ WF_vars(clear_memory_roots_contents)

Spec == Init /\ [][Next]_vars /\ Fairness

(***************************************************************************)
(* Properties                                                              *)
(***************************************************************************)

Owners == Workers \cup {Nobody, Gone}
PerThread == [Threads -> Sources]
WorkerPcs == {"off", "scan", "phase1", "select", "load", "sync", "diff",
              "agent", "reset", "succeed", "failed"}

TypeOK ==
    /\ thread \in [Threads -> [source : Sources, mode : {"enabled", "polluted", "deleted"}]]
    /\ job \in [Threads -> [status : {"none", "running", "done", "error"}, owner : Owners,
                            leased : BOOLEAN, backoff : BOOLEAN, retries : 0..DefaultRetries,
                            input : Sources, success : Sources]]
    /\ output \in [Threads -> [source : Sources, selected : Sources]]
    /\ global \in [status : {"none", "pending", "running", "done", "error"}, owner : Owners,
                   leased : BOOLEAN, backoff : BOOLEAN, failed : BOOLEAN, cooling : BOOLEAN]
    /\ workspace \in PerThread
    /\ baseline \in PerThread \cup {NoRepo}
    /\ worker \in [Workers -> [pc : WorkerPcs, seen : PerThread, claim : PerThread,
                               loaded : SUBSET Threads, snap : PerThread]]
    /\ user \in [Threads -> {"idle", "selected", "unselected", "enqueue",
                               "rolloutGone", "rowsGone"}]
    /\ faults \in 0..MaxFaults
    /\ resets \in [calls : 0..MaxResets, rootsLeft : BOOLEAN]

(* The limit on running extraction jobs counts leases, and leases come and *)
(* go by claims, expiries, steals and deletions of rows: there are never   *)
(* more valid ones than one startup may claim.                             *)
RunningLimit == Cardinality(Running) <= MaxRunning

(* A claim and its row agree: the worker whose token is in a running row   *)
(* works on the very version of the thread that the row records as its     *)
(* input, newer than what was extracted before, and has retries left to    *)
(* lose, so that retry_remaining never drops below zero.                   *)
ClaimMatchesRow ==
    \A t \in Threads :
        /\ job[t].status = "running" =>
              job[t].retries > 0 /\ job[t].owner # Nobody /\ job[t].input > job[t].success
        /\ \A w \in Workers : Owns(w, t) => worker[w].claim[t] = job[t].input

(* An output stands for work that was accepted: its version is one the job *)
(* row counts as done, so that a thread is not extracted twice at the same *)
(* version, and the mark of a consolidation is never newer than it.        *)
OutputAccounted ==
    \A t \in Threads :
        /\ output[t].source <= job[t].success
        /\ output[t].selected <= output[t].source

(* The invariant of the job rows, whatever expires, is stolen, crashes, is *)
(* pruned or reset: rows, claims, outputs and the limit agree.             *)
JobsInv == TypeOK /\ RunningLimit /\ ClaimMatchesRow /\ OutputAccounted

(* "Delete a thread and all associated state": no extraction under way,    *)
(* and none that starts from a list read before, brings back an output of  *)
(* a thread whose memories were deleted.                                   *)
DeletedLeavesNoOutput ==
    \A t \in Threads :
        (user[t] = "rowsGone" \/ thread[t].mode = "deleted") => output[t].source = 0

(* A late result does not win: whatever expires, is stolen or crashes, the *)
(* version of a thread's output only grows while the output exists.        *)
OutputNeverGoesBack ==
    [][\A t \in Threads :
           output'[t].source # 0 => output'[t].source >= output[t].source]_vars

(* A version of a thread counts as done once and because it was extracted: *)
(* last_success_watermark only rises, and rises to a version in the report *)
(* of the worker that loaded the thread at this version.  A worker whose   *)
(* lease ran out cannot close the job of its successor, which would leave  *)
(* the successor's version marked as done and never extracted.             *)
SuccessIsExtracted ==
    [][\A t \in Threads :
           job'[t].success \notin {0, job[t].success} =>
               /\ job'[t].success > job[t].success
               /\ \E w \in Workers :
                     /\ t \in worker[w].loaded /\ worker[w].claim[t] = job'[t].success
                     /\ worker'[w].claim[t] = 0]_vars

(* What the baseline must become: the output of every thread that may be   *)
(* remembered, and nothing of the others.                                  *)
Wanted == [t \in Threads |-> IF Enabled(t) THEN output[t].source ELSE 0]

(* Consolidation catches up and forgets: once threads and faults are quiet *)
(* the baseline holds what it should, also after a worker died or lost its *)
(* lock half-way, and also when a thread was polluted or deleted between   *)
(* the moment its output was read and the moment it was marked.            *)
BaselineSettles == <>[](baseline = Wanted)

(* Extraction catches up: every enabled thread gets extracted at its last  *)
(* version, or has used up its retries at it.                              *)
ExtractionSettles ==
    <>[](\A t \in Threads :
            Enabled(t) => \/ job[t].success >= thread[t].source
                          \/ job[t].retries = 0 /\ job[t].input = thread[t].source)
=============================================================================
