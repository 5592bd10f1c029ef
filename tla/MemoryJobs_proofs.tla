------------------------- MODULE MemoryJobs_proofs -------------------------
(***************************************************************************)
(* Proofs about MemoryJobs, for any threads, workers, limits and bounds.   *)
(***************************************************************************)
EXTENDS MemoryJobs, FiniteSetTheorems, TLAPS

(***************************************************************************)
(* The inductive invariant.                                                *)
(***************************************************************************)

JobRows == [status : {"none", "running", "done", "error"}, owner : Owners,
            leased : BOOLEAN, backoff : BOOLEAN, retries : 0..DefaultRetries,
            input : Sources, success : Sources]
GlobalRows == [status : {"none", "pending", "running", "done", "error"}, owner : Owners,
               leased : BOOLEAN, backoff : BOOLEAN, failed : BOOLEAN, cooling : BOOLEAN]
WorkerStates == [pc : WorkerPcs, seen : PerThread, claim : PerThread,
                 loaded : SUBSET Threads, snap : PerThread]

\* Claims and loaded rollouts exist in phase 1 only, and rollouts are loaded
\* only when all claims have been made.
WorkersOK ==
    \A w \in Workers :
        /\ worker[w].pc # "phase1" => worker[w].claim = None /\ worker[w].loaded = {}
        /\ \A t \in worker[w].loaded : worker[w].claim[t] # 0 /\ worker[w].seen = None

\* Past the point where a thread's memories are deleted.
RowsDeleted(t) == user[t] = "rowsGone" \/ thread[t].mode = "deleted"

\* After it no worker both holds the thread's rollout and owns its row.
DeletedOK ==
    \A t \in Threads :
        /\ thread[t].mode = "deleted" => user[t] = "idle"
        /\ RowsDeleted(t) => \A w \in Workers : t \in worker[w].loaded => ~Owns(w, t)

MemoryInv ==
    /\ JobsInv /\ WorkersOK
    /\ DeletedOK /\ DeletedLeavesNoOutput

(***************************************************************************)
(* Types of the values the actions write.                                  *)
(***************************************************************************)

\* The constant records are values of the variables.
LEMMA RecordsTyped ==
  /\ None \in PerThread /\ 0 \in Sources /\ 1 \in Sources
  /\ NoJob \in JobRows /\ NoGlobal \in GlobalRows
  /\ Off \in WorkerStates /\ Failing \in WorkerStates
  /\ NoOutput \in [source : Sources, selected : Sources]
<1>1. None \in PerThread /\ 0 \in Sources /\ 1 \in Sources
  BY MemoryAssumption DEF None, PerThread, Sources
<1>2. NoJob \in JobRows /\ NoGlobal \in GlobalRows
      /\ NoOutput \in [source : Sources, selected : Sources]
  BY <1>1, MemoryAssumption DEF NoJob, NoGlobal, NoOutput, JobRows, GlobalRows, Owners
<1>3. Off \in WorkerStates
  BY <1>1 DEF Off, WorkerStates, WorkerPcs
<1>4. Failing \in WorkerStates
  BY <1>1 DEF Failing, Off, WorkerStates, WorkerPcs
<1> QED
  BY <1>1, <1>2, <1>3, <1>4

\* The type invariant, in the words of this module.
TypesOf ==
    /\ thread \in [Threads -> [source : Sources, mode : {"enabled", "polluted", "deleted"}]]
    /\ job \in [Threads -> JobRows]
    /\ output \in [Threads -> [source : Sources, selected : Sources]]
    /\ global \in GlobalRows
    /\ workspace \in PerThread
    /\ baseline \in PerThread \cup {NoRepo}
    /\ worker \in [Workers -> WorkerStates]
    /\ user \in [Threads -> {"idle", "selected", "unselected", "enqueue",
                               "rolloutGone", "rowsGone"}]
    /\ faults \in 0..MaxFaults
    /\ resets \in [calls : 0..MaxResets, rootsLeft : BOOLEAN]

\* TypesOf is TypeOK.
LEMMA TypesAre == (TypeOK <=> TypesOf) /\ (TypeOK' <=> TypesOf')
  BY DEF TypeOK, TypesOf, JobRows, GlobalRows, WorkerStates

\* enqueue_global_consolidation and the clean-up of a dead owner's row.
LEMMA GlobalTyped ==
  ASSUME TypeOK, NEW w \in Workers
  PROVE  Enqueued \in GlobalRows /\ Abandoned(global, w) \in GlobalRows
  BY TypesAre DEF TypesOf, Enqueued, Abandoned, GlobalRows, Owners

\* What each step does to the worker that takes it; the others stay.
OnlyWorker(w) == \A v \in Workers \ {w} : worker'[v] = worker[v]

\* A step that moves a worker on.
LEMMA PcUpdate ==
  ASSUME TypeOK, NEW w \in Workers, NEW p \in WorkerPcs,
         worker' = [worker EXCEPT ![w].pc = p]
  PROVE  /\ worker' \in [Workers -> WorkerStates] /\ OnlyWorker(w)
         /\ worker'[w] = [worker[w] EXCEPT !.pc = p]
  BY TypesAre DEF TypesOf, WorkerStates, OnlyWorker

\* A worker that stops.
LEMMA OffUpdate ==
  ASSUME TypeOK, NEW w \in Workers, NEW v \in {Off, Failing},
         worker' = [worker EXCEPT ![w] = v]
  PROVE  /\ worker' \in [Workers -> WorkerStates] /\ OnlyWorker(w)
         /\ worker'[w] = v
  BY TypesAre, RecordsTyped DEF TypesOf, OnlyWorker

\* A report takes the claim and the rollout from the worker.
LEMMA ReportUpdate ==
  ASSUME TypeOK, NEW w \in Workers, NEW t \in Threads, Report(w, t)
  PROVE  /\ worker' \in [Workers -> WorkerStates] /\ OnlyWorker(w)
         /\ worker'[w] = [worker[w] EXCEPT !.claim = [worker[w].claim EXCEPT ![t] = 0],
                                           !.loaded = worker[w].loaded \ {t}]
<1>1. worker[w] \in WorkerStates /\ worker \in [Workers -> WorkerStates]
  BY TypesAre DEF TypesOf
<1>2. [worker[w].claim EXCEPT ![t] = 0] \in PerThread /\ worker[w].loaded \ {t} \in SUBSET Threads
  BY <1>1, RecordsTyped DEF WorkerStates, PerThread
<1>3. OnlyWorker(w) /\ DOMAIN worker' = Workers /\ worker' = [v \in Workers |-> worker'[v]]
  BY <1>1 DEF Report, OnlyWorker
<1>4. worker'[w] = [worker[w] EXCEPT !.claim = [worker[w].claim EXCEPT ![t] = 0],
                                     !.loaded = worker[w].loaded \ {t}]
  BY <1>1 DEF Report, WorkerStates
<1>5. worker'[w] \in WorkerStates
  BY <1>1, <1>2, <1>4 DEF WorkerStates
<1>6. \A v \in Workers : worker'[v] \in WorkerStates
  BY <1>1, <1>3, <1>5 DEF OnlyWorker
<1> QED
  BY <1>3, <1>4, <1>6

\* A claim moves a version from the list of candidates to the claims.
LEMMA ClaimUpdate ==
  ASSUME TypeOK, NEW w \in Workers, NEW t \in Threads, NEW s \in Sources,
         worker' = [worker EXCEPT ![w].seen[t] = 0, ![w].claim[t] = s]
  PROVE  /\ worker' \in [Workers -> WorkerStates] /\ OnlyWorker(w)
         /\ worker'[w] = [worker[w] EXCEPT !.seen = [worker[w].seen EXCEPT ![t] = 0],
                                           !.claim = [worker[w].claim EXCEPT ![t] = s]]
<1>1. worker[w] \in WorkerStates /\ worker \in [Workers -> WorkerStates]
  BY TypesAre DEF TypesOf
<1>2. [worker[w].seen EXCEPT ![t] = 0] \in PerThread /\ [worker[w].claim EXCEPT ![t] = s] \in PerThread
  BY <1>1, RecordsTyped DEF WorkerStates, PerThread
<1>3. OnlyWorker(w) /\ DOMAIN worker' = Workers /\ worker' = [v \in Workers |-> worker'[v]]
  BY <1>1 DEF OnlyWorker
<1>4. worker'[w] = [worker[w] EXCEPT !.seen = [worker[w].seen EXCEPT ![t] = 0],
                                     !.claim = [worker[w].claim EXCEPT ![t] = s]]
  BY <1>1 DEF WorkerStates
<1>5. worker'[w] \in WorkerStates
  BY <1>1, <1>2, <1>4 DEF WorkerStates
<1>6. \A v \in Workers : worker'[v] \in WorkerStates
  BY <1>1, <1>3, <1>5 DEF OnlyWorker
<1> QED
  BY <1>3, <1>4, <1>6

\* A candidate that is passed over.
LEMMA SkipUpdate ==
  ASSUME TypeOK, NEW w \in Workers, NEW t \in Threads,
         worker' = [worker EXCEPT ![w].seen[t] = 0]
  PROVE  /\ worker' \in [Workers -> WorkerStates] /\ OnlyWorker(w)
         /\ worker'[w] = [worker[w] EXCEPT !.seen = [worker[w].seen EXCEPT ![t] = 0]]
<1>1. worker[w] \in WorkerStates /\ worker \in [Workers -> WorkerStates]
  BY TypesAre DEF TypesOf
<1>2. [worker[w].seen EXCEPT ![t] = 0] \in PerThread
  BY <1>1, RecordsTyped DEF WorkerStates, PerThread
<1>3. worker' = [worker EXCEPT ![w].seen = [worker[w].seen EXCEPT ![t] = 0]]
  BY <1>1 DEF WorkerStates
<1> QED
  BY <1>1, <1>2, <1>3 DEF WorkerStates, OnlyWorker

\* A rollout that is loaded.
LEMMA LoadUpdate ==
  ASSUME TypeOK, NEW w \in Workers, NEW t \in Threads,
         worker' = [worker EXCEPT ![w].loaded = @ \cup {t}]
  PROVE  /\ worker' \in [Workers -> WorkerStates] /\ OnlyWorker(w)
         /\ worker'[w] = [worker[w] EXCEPT !.loaded = worker[w].loaded \cup {t}]
  BY TypesAre DEF TypesOf, WorkerStates, OnlyWorker

\* The list of candidates.
LEMMA SeenUpdate ==
  ASSUME TypeOK, NEW w \in Workers, NEW f \in PerThread,
         worker' = [worker EXCEPT ![w].pc = "phase1", ![w].seen = f]
  PROVE  /\ worker' \in [Workers -> WorkerStates] /\ OnlyWorker(w)
         /\ worker'[w] = [worker[w] EXCEPT !.pc = "phase1", !.seen = f]
<1>1. worker \in [Workers -> WorkerStates] /\ worker[w] \in WorkerStates
  BY TypesAre DEF TypesOf
<1>2. OnlyWorker(w) /\ worker'[w] = [worker[w] EXCEPT !.pc = "phase1", !.seen = f] /\ worker' = [v \in Workers |-> worker'[v]]
  BY <1>1 DEF WorkerStates, OnlyWorker
<1>3. worker'[w] \in WorkerStates
  BY <1>1, <1>2 DEF WorkerStates, WorkerPcs
<1>4. \A v \in Workers : worker'[v] \in WorkerStates
  BY <1>1, <1>2, <1>3 DEF OnlyWorker
<1> QED
  BY <1>2, <1>4

\* The selection of a consolidation.
LEMMA SnapUpdate ==
  ASSUME TypeOK, NEW w \in Workers, NEW p \in {"load", "sync"}, NEW f \in PerThread,
         worker' = [worker EXCEPT ![w].pc = p, ![w].snap = f]
  PROVE  /\ worker' \in [Workers -> WorkerStates] /\ OnlyWorker(w)
         /\ worker'[w] = [worker[w] EXCEPT !.pc = p, !.snap = f]
<1>1. worker \in [Workers -> WorkerStates] /\ worker[w] \in WorkerStates
  BY TypesAre DEF TypesOf
<1>2. OnlyWorker(w) /\ worker'[w] = [worker[w] EXCEPT !.pc = p, !.snap = f] /\ worker' = [v \in Workers |-> worker'[v]]
  BY <1>1 DEF WorkerStates, OnlyWorker
<1>3. worker'[w] \in WorkerStates
  BY <1>1, <1>2 DEF WorkerStates, WorkerPcs
<1>4. \A v \in Workers : worker'[v] \in WorkerStates
  BY <1>1, <1>2, <1>3 DEF OnlyWorker
<1> QED
  BY <1>2, <1>4

(***************************************************************************)
(* Steps that only take away: rows may leave "running" or lose an owner    *)
(* or a lease, workers may drop a claim whose row is not theirs.           *)
(***************************************************************************)

RowsWeaken ==
    \A t \in Threads :
        /\ Leased(t)' => Leased(t)
        /\ job'[t].status = "running" =>
               /\ job[t].status = "running"
               /\ job'[t].retries = job[t].retries
               /\ job'[t].input = job[t].input
               /\ job'[t].success = job[t].success
               /\ job'[t].owner \in {job[t].owner, Gone}

Weakens(w) ==
    /\ \A t \in Threads : worker'[w].claim[t] = worker[w].claim[t] \/ ~Owns(w, t)'
    /\ worker'[w].loaded \subseteq worker[w].loaded
    /\ \A t \in worker'[w].loaded :
           worker'[w].claim[t] = worker[w].claim[t] /\ worker'[w].seen = worker[w].seen
    /\ worker'[w].pc # "phase1" => worker'[w].claim = None /\ worker'[w].loaded = {}

DeletesWeaken ==
    \A t \in Threads :
        /\ thread'[t].mode = "deleted" => user'[t] = "idle"
        /\ RowsDeleted(t)' => RowsDeleted(t) \/ job'[t].status # "running"

\* Such a step adds no lease.
LEMMA LimitStays ==
  ASSUME TypeOK, RunningLimit, \A t \in Threads : Leased(t)' => Leased(t)
  PROVE  RunningLimit'
<1>1. IsFiniteSet(Threads) /\ Running \subseteq Threads /\ Running' \subseteq Running
  BY MemoryAssumption DEF Running
<1>2. IsFiniteSet(Running)
  BY <1>1, FS_Subset
<1>3. IsFiniteSet(Running') /\ Cardinality(Running') <= Cardinality(Running)
  BY <1>1, <1>2, FS_Subset
<1>4. Cardinality(Running) \in Nat /\ Cardinality(Running') \in Nat /\ MaxRunning \in Nat
  BY <1>2, <1>3, FS_CardinalityType, MemoryAssumption
<1> QED
  BY <1>3, <1>4 DEF RunningLimit

\* Such a step leaves rows, claims and deletions in agreement.
LEMMA WeakeningKeeps ==
  ASSUME MemoryInv, TypeOK', RowsWeaken, \A w \in Workers : Weakens(w), DeletesWeaken
  PROVE  RunningLimit' /\ ClaimMatchesRow' /\ WorkersOK' /\ DeletedOK'
<1>1. RunningLimit'
  BY LimitStays DEF MemoryInv, JobsInv, RowsWeaken
<1>2. \A w \in Workers, t \in Threads : Owns(w, t)' => Owns(w, t)
  BY MemoryAssumption DEF RowsWeaken, Owns
<1>3. ClaimMatchesRow'
  <2>1. \A t \in Threads : job'[t].status = "running" =>
            job'[t].retries > 0 /\ job'[t].owner # Nobody /\ job'[t].input > job'[t].success
    BY MemoryAssumption DEF MemoryInv, JobsInv, ClaimMatchesRow, RowsWeaken
  <2>2. \A w \in Workers, t \in Threads : Owns(w, t)' => worker'[w].claim[t] = job'[t].input
    BY <1>2 DEF MemoryInv, JobsInv, ClaimMatchesRow, RowsWeaken, Weakens, Owns
  <2> QED
    BY <2>1, <2>2 DEF ClaimMatchesRow
<1>5. WorkersOK'
  BY DEF MemoryInv, WorkersOK, Weakens
<1>6. DeletedOK'
  <2>1. ASSUME NEW t \in Threads, NEW w \in Workers, RowsDeleted(t)', t \in worker'[w].loaded, Owns(w, t)'
        PROVE  FALSE
    BY <1>2, <2>1 DEF MemoryInv, DeletedOK, DeletesWeaken, Weakens, Owns
  <2> QED
    BY <2>1 DEF DeletedOK, DeletesWeaken
<1> QED
  BY <1>1, <1>3, <1>5, <1>6

OutputsWeaken ==
    \A t \in Threads :
        /\ output'[t].source \in {0, output[t].source}
        /\ output'[t].selected <= output'[t].source
        /\ job'[t].success >= job[t].success \/ output'[t].source = 0
        /\ RowsDeleted(t)' => RowsDeleted(t) \/ output'[t].source = 0

\* A step that adds no output keeps the outputs accounted for.
LEMMA OutputsKept ==
  ASSUME MemoryInv, TypeOK', OutputsWeaken
  PROVE  OutputAccounted' /\ DeletedLeavesNoOutput'
<1>1. \A t \in Threads : /\ output[t].source \in Nat /\ output'[t].source \in Nat
                         /\ job[t].success \in Nat /\ job'[t].success \in Nat
  BY TypesAre DEF MemoryInv, JobsInv, TypesOf, JobRows, Sources
<1>2. OutputAccounted'
  BY <1>1 DEF MemoryInv, JobsInv, OutputAccounted, OutputsWeaken
<1>3. DeletedLeavesNoOutput'
  BY DEF MemoryInv, DeletedLeavesNoOutput, OutputsWeaken, RowsDeleted
<1> QED
  BY <1>2, <1>3

\* Such a step keeps the invariant.
LEMMA QuietStep ==
  ASSUME MemoryInv, TypeOK', RowsWeaken, \A w \in Workers : Weakens(w),
         DeletesWeaken, OutputsWeaken
  PROVE  MemoryInv'
  BY WeakeningKeeps, OutputsKept DEF MemoryInv, JobsInv

\* What is left alone weakens.
LEMMA SameRows ==
  ASSUME UNCHANGED job PROVE RowsWeaken
  BY DEF RowsWeaken, Leased

\* What is left alone weakens: the threads.
LEMMA SameDeletes ==
  ASSUME MemoryInv, UNCHANGED <<thread, user>> PROVE DeletesWeaken
  BY DEF MemoryInv, DeletedOK, DeletesWeaken, RowsDeleted

\* What is left alone weakens: the outputs.
LEMMA SameOutputs ==
  ASSUME MemoryInv, UNCHANGED <<output, job>>, \A t \in Threads : RowsDeleted(t)' => RowsDeleted(t)
  PROVE  OutputsWeaken
<1>1. \A t \in Threads : job[t].success \in Nat
  BY TypesAre DEF MemoryInv, JobsInv, TypesOf, JobRows, Sources
<1> QED
  BY <1>1 DEF MemoryInv, JobsInv, OutputAccounted, OutputsWeaken

\* What is left alone weakens: the workers.
LEMMA SameWorkers ==
  ASSUME MemoryInv, UNCHANGED worker PROVE \A w \in Workers : Weakens(w)
  BY DEF MemoryInv, WorkersOK, Weakens

\* Nor does a step of one worker touch the others.
LEMMA OneWeakens ==
  ASSUME MemoryInv, NEW w \in Workers, OnlyWorker(w), Weakens(w)
  PROVE  \A v \in Workers : Weakens(v)
<1>1. ASSUME NEW v \in Workers, v # w PROVE Weakens(v)
  BY <1>1 DEF MemoryInv, WorkersOK, Weakens, OnlyWorker
<1> QED
  BY <1>1

\* A step of a worker that drops claims of rows it does not own, at most.
Moves(w) == worker' \in [Workers -> WorkerStates] /\ OnlyWorker(w) /\ Weakens(w)

\* A worker outside phase 1 moves on.
LEMMA PcMoves ==
  ASSUME MemoryInv, NEW w \in Workers, NEW p \in WorkerPcs,
         worker[w].claim = None /\ worker[w].loaded = {},
         worker' = [worker EXCEPT ![w].pc = p]
  PROVE  Moves(w)
<1>1. worker' \in [Workers -> WorkerStates] /\ OnlyWorker(w) /\ worker'[w] = [worker[w] EXCEPT !.pc = p]
  BY PcUpdate DEF MemoryInv, JobsInv
<1>2. worker[w] \in WorkerStates
  BY TypesAre DEF TypesOf, MemoryInv, JobsInv
<1>3. worker'[w].claim = None /\ worker'[w].loaded = {}
  BY <1>1, <1>2 DEF WorkerStates
<1> QED
  BY <1>1, <1>3 DEF Moves, Weakens

\* A worker without claims stops.
LEMMA Stops ==
  ASSUME MemoryInv, NEW w \in Workers, NEW v \in {Off, Failing},
         worker[w].claim = None /\ worker[w].loaded = {},
         worker' = [worker EXCEPT ![w] = v]
  PROVE  Moves(w)
<1>1. worker' \in [Workers -> WorkerStates] /\ OnlyWorker(w) /\ worker'[w] = v
  BY OffUpdate DEF MemoryInv, JobsInv
<1>2. worker'[w].claim = None /\ worker'[w].loaded = {}
  BY <1>1 DEF Off, Failing
<1> QED
  BY <1>1, <1>2 DEF Moves, Weakens

\* Outside phase 1, and once phase 1 is over, a worker has no claims.
LEMMA NoClaims ==
  ASSUME MemoryInv, NEW w \in Workers, worker[w].pc # "phase1" \/ Phase1Over(w)
  PROVE  worker[w].claim = None /\ worker[w].loaded = {}
<1>1. CASE worker[w].pc # "phase1"
  BY <1>1 DEF MemoryInv, WorkersOK
<1>2. CASE Phase1Over(w)
  <2>1. worker[w].loaded \subseteq Threads
    BY TypesAre DEF TypesOf, MemoryInv, JobsInv, WorkerStates
  <2>2. \A t \in worker[w].loaded : worker[w].claim[t] # 0
    BY DEF MemoryInv, WorkersOK
  <2> QED
    BY <1>2, <2>1, <2>2 DEF Phase1Over, None
<1> QED
  BY <1>1, <1>2

\* A step of a worker that leaves rows, outputs and threads alone.
LEMMA WorkerOnly ==
  ASSUME MemoryInv, NEW w \in Workers, Moves(w), UNCHANGED <<thread, job, output, user, resets>>,
         global' \in GlobalRows, workspace' \in PerThread,
         baseline' \in PerThread \cup {NoRepo}, faults' \in 0..MaxFaults
  PROVE  MemoryInv'
<1>1. TypeOK'
  BY TypesAre DEF TypesOf, MemoryInv, JobsInv, Moves
<1>2. OutputsWeaken
  BY SameOutputs DEF RowsDeleted
<1> QED
  BY <1>1, <1>2, QuietStep, SameRows, SameDeletes, OneWeakens DEF Moves

\* The fault counter stays within its bound.
LEMMA FaultTyped ==
  ASSUME TypeOK, Fault PROVE faults' \in 0..MaxFaults
  BY TypesAre, MemoryAssumption DEF TypesOf, Fault

\* A step that leaves rows, outputs, workers and threads alone.
LEMMA GlobalOnly ==
  ASSUME MemoryInv, UNCHANGED <<thread, job, output, worker, user>>,
         global' \in GlobalRows, workspace' \in PerThread,
         baseline' \in PerThread \cup {NoRepo}, faults' \in 0..MaxFaults,
         resets' \in [calls : 0..MaxResets, rootsLeft : BOOLEAN]
  PROVE  MemoryInv'
<1>1. TypeOK'
  BY TypesAre DEF TypesOf, MemoryInv, JobsInv
<1>2. OutputsWeaken
  BY SameOutputs DEF RowsDeleted
<1> QED
  BY <1>1, <1>2, QuietStep, SameRows, SameDeletes, SameWorkers

(***************************************************************************)
(* Each action keeps the invariant.                                        *)
(***************************************************************************)

\* The types, for the steps below.
LEMMA InvTyped ==
  ASSUME MemoryInv PROVE TypeOK /\ TypesOf
  BY TypesAre DEF MemoryInv, JobsInv

\* Starting, listing candidates, and passing one over.
LEMMA ScanningKeeps ==
  ASSUME MemoryInv, NEW w \in Workers
  PROVE  /\ RateLimited(w) => MemoryInv'
         /\ Scan(w) => MemoryInv'
         /\ \A t \in Threads : Skip(w, t) => MemoryInv'
<1>0. TypeOK /\ TypesOf /\ worker[w] \in WorkerStates
  BY InvTyped DEF TypesOf
<1>1. ASSUME RateLimited(w) PROVE MemoryInv'
  <2>1. Moves(w)
    BY <1>1, NoClaims, Stops DEF RateLimited
  <2> QED
    BY <1>0, <1>1, <2>1, WorkerOnly, FaultTyped DEF RateLimited, TypesOf
<1>2. ASSUME Scan(w) PROVE MemoryInv'
  <2> DEFINE f == [t \in Threads |-> IF Enabled(t) THEN thread[t].source ELSE 0]
  <2>1. f \in PerThread
    BY <1>0, RecordsTyped DEF TypesOf, PerThread
  <2>2. worker' = [worker EXCEPT ![w].pc = "phase1", ![w].seen = f]
    BY <1>2 DEF Scan
  <2>3. worker[w].claim = None /\ worker[w].loaded = {}
    BY <1>2, NoClaims DEF Scan
  <2> HIDE DEF f
  <2>4. /\ worker' \in [Workers -> WorkerStates] /\ OnlyWorker(w)
        /\ worker'[w] = [worker[w] EXCEPT !.pc = "phase1", !.seen = f]
    BY <1>0, <2>1, <2>2, SeenUpdate
  <2>5. /\ worker'[w].claim = worker[w].claim /\ worker'[w].loaded = worker[w].loaded
        /\ worker'[w].pc = "phase1"
    BY <1>0, <2>4 DEF WorkerStates
  <2>6. Moves(w)
    BY <2>3, <2>4, <2>5 DEF Moves, Weakens
  <2> QED
    BY <1>0, <1>2, <2>6, WorkerOnly DEF Scan, TypesOf
<1>3. ASSUME NEW t \in Threads, Skip(w, t) PROVE MemoryInv'
  <2>1. /\ worker' \in [Workers -> WorkerStates] /\ OnlyWorker(w)
        /\ worker'[w] = [worker[w] EXCEPT !.seen = [worker[w].seen EXCEPT ![t] = 0]]
    BY <1>0, <1>3, SkipUpdate DEF Skip
  <2>2. /\ worker'[w].claim = worker[w].claim /\ worker'[w].loaded = worker[w].loaded
        /\ worker'[w].pc = "phase1"
    BY <1>0, <1>3, <2>1 DEF WorkerStates, Skip
  <2>3. worker[w].loaded = {}
    BY <1>3 DEF MemoryInv, WorkersOK, Skip, None
  <2>4. Moves(w)
    BY <2>1, <2>2, <2>3 DEF Moves, Weakens
  <2> QED
    BY <1>0, <1>3, <2>4, WorkerOnly DEF Skip, TypesOf
<1> QED
  BY <1>1, <1>2, <1>3

\* Phase 2 up to the workspace.
LEMMA SelectingKeeps ==
  ASSUME MemoryInv, NEW w \in Workers
  PROVE  /\ try_claim_global_phase2_job(w) => MemoryInv'
         /\ SkipPhase2(w) => MemoryInv'
         /\ SelectInputs(w) => MemoryInv'
         /\ LoadInputs(w) => MemoryInv'
         /\ SyncWorkspace(w) => MemoryInv'
<1>0. TypeOK /\ TypesOf /\ worker[w] \in WorkerStates
  BY InvTyped DEF TypesOf
<1>1. ASSUME try_claim_global_phase2_job(w) PROVE MemoryInv'
  <2>1. Moves(w)
    BY <1>1, NoClaims, PcMoves DEF try_claim_global_phase2_job, WorkerPcs
  <2>2. global' \in GlobalRows
    BY <1>1 DEF try_claim_global_phase2_job, GlobalRows, Owners
  <2> QED
    BY <1>0, <1>1, <2>1, <2>2, WorkerOnly DEF try_claim_global_phase2_job, TypesOf
<1>2. ASSUME SkipPhase2(w) PROVE MemoryInv'
  <2>1. Moves(w)
    BY <1>2, NoClaims, Stops DEF SkipPhase2
  <2> QED
    BY <1>0, <1>2, <2>1, WorkerOnly DEF SkipPhase2, TypesOf
<1>3. ASSUME NEW q \in {"load", "sync"}, NEW f \in PerThread,
             worker[w].pc # "phase1", worker' = [worker EXCEPT ![w].pc = q, ![w].snap = f]
      PROVE  Moves(w)
  <2>1. /\ worker' \in [Workers -> WorkerStates] /\ OnlyWorker(w)
        /\ worker'[w] = [worker[w] EXCEPT !.pc = q, !.snap = f]
    BY <1>0, <1>3, SnapUpdate
  <2>2. worker[w].claim = None /\ worker[w].loaded = {}
    BY <1>3, NoClaims
  <2>3. worker'[w].claim = None /\ worker'[w].loaded = {}
    BY <1>0, <2>1, <2>2 DEF WorkerStates
  <2> QED
    BY <2>1, <2>2, <2>3 DEF Moves, Weakens
<1>4. ASSUME SelectInputs(w) PROVE MemoryInv'
  <2> DEFINE f == [t \in Threads |-> IF Enabled(t) THEN output[t].source ELSE 0]
  <2>1. f \in PerThread
    BY <1>0, RecordsTyped DEF TypesOf, PerThread
  <2>2. worker' = [worker EXCEPT ![w].pc = "load", ![w].snap = f] /\ worker[w].pc # "phase1"
    BY <1>4 DEF SelectInputs
  <2> HIDE DEF f
  <2>3. Moves(w)
    BY <1>3, <2>1, <2>2
  <2>4. baseline' \in PerThread \cup {NoRepo}
    BY <1>0, <1>4 DEF TypesOf, SelectInputs
  <2> QED
    BY <1>0, <1>4, <2>3, <2>4, WorkerOnly DEF SelectInputs, TypesOf
<1>5. ASSUME LoadInputs(w) PROVE MemoryInv'
  <2> DEFINE f == [t \in Threads |-> IF Enabled(t) /\ output[t].source = worker[w].snap[t]
                                     THEN worker[w].snap[t] ELSE 0]
  <2>1. f \in PerThread
    BY <1>0, RecordsTyped DEF WorkerStates, PerThread
  <2>2. worker' = [worker EXCEPT ![w].pc = "sync", ![w].snap = f] /\ worker[w].pc # "phase1"
    BY <1>0, <1>5 DEF LoadInputs, TypesOf, WorkerStates
  <2> HIDE DEF f
  <2>3. Moves(w)
    BY <1>3, <2>1, <2>2
  <2> QED
    BY <1>0, <1>5, <2>3, WorkerOnly DEF LoadInputs, TypesOf
<1>6. ASSUME SyncWorkspace(w) PROVE MemoryInv'
  <2>1. Moves(w)
    BY <1>6, NoClaims, PcMoves DEF SyncWorkspace, WorkerPcs
  <2>2. workspace' \in PerThread
    BY <1>0, <1>6 DEF SyncWorkspace, WorkerStates
  <2> QED
    BY <1>0, <1>6, <2>1, <2>2, WorkerOnly DEF SyncWorkspace, TypesOf
<1> QED
  BY <1>1, <1>2, <1>4, <1>5, <1>6

\* Phase 2 from the diff to the end, except for the marks.
LEMMA ConsolidatingKeeps ==
  ASSUME MemoryInv, NEW w \in Workers
  PROVE  /\ DiffWorkspace(w) => MemoryInv'
         /\ Heartbeat(w) => MemoryInv'
         /\ StepFailed(w) => MemoryInv'
         /\ ConfirmOwnership(w) => MemoryInv'
         /\ ResetBaseline(w) => MemoryInv'
         /\ mark_global_phase2_job_failed(w) => MemoryInv'
<1>0. TypeOK /\ TypesOf /\ worker[w] \in WorkerStates
  BY InvTyped DEF TypesOf
<1>1. ASSUME DiffWorkspace(w) PROVE MemoryInv'
  <2>1. Moves(w)
    BY <1>1, NoClaims, PcMoves, Stops DEF DiffWorkspace, WorkerPcs
  <2> QED
    BY <1>0, <1>1, <2>1, WorkerOnly DEF DiffWorkspace, TypesOf
<1>2. ASSUME Heartbeat(w) PROVE MemoryInv'
  <2>1. global' \in GlobalRows
    BY <1>0, <1>2 DEF Heartbeat, GlobalRows, TypesOf
  <2>2. CASE UNCHANGED worker
    BY <1>0, <1>2, <2>1, <2>2, GlobalOnly DEF Heartbeat, TypesOf
  <2>3. CASE worker' = [worker EXCEPT ![w] = Failing]
    <3>1. Moves(w)
      BY <1>2, <2>3, NoClaims, Stops DEF Heartbeat
    <3> QED
      BY <1>0, <1>2, <2>1, <3>1, WorkerOnly DEF Heartbeat, TypesOf
  <2> QED
    BY <1>2, <2>2, <2>3 DEF Heartbeat
<1>3. ASSUME StepFailed(w) PROVE MemoryInv'
  <2>1. Moves(w)
    BY <1>3, NoClaims, Stops DEF StepFailed
  <2> QED
    BY <1>0, <1>3, <2>1, WorkerOnly, FaultTyped DEF StepFailed, TypesOf
<1>4. ASSUME ConfirmOwnership(w) PROVE MemoryInv'
  <2>1. Moves(w)
    BY <1>4, NoClaims, PcMoves, Stops DEF ConfirmOwnership, WorkerPcs
  <2>2. global' \in GlobalRows
    BY <1>0, <1>4 DEF ConfirmOwnership, GlobalRows, TypesOf
  <2> QED
    BY <1>0, <1>4, <2>1, <2>2, WorkerOnly DEF ConfirmOwnership, TypesOf
<1>5. ASSUME ResetBaseline(w) PROVE MemoryInv'
  <2>1. Moves(w)
    BY <1>5, NoClaims, PcMoves DEF ResetBaseline, WorkerPcs
  <2> QED
    BY <1>0, <1>5, <2>1, WorkerOnly DEF ResetBaseline, TypesOf
<1>6. ASSUME mark_global_phase2_job_failed(w) PROVE MemoryInv'
  <2>1. Moves(w)
    BY <1>6, NoClaims, Stops DEF mark_global_phase2_job_failed
  <2>2. global' \in GlobalRows
    BY <1>0, <1>6 DEF mark_global_phase2_job_failed, GlobalRows, TypesOf
  <2> QED
    BY <1>0, <1>6, <2>1, <2>2, WorkerOnly DEF mark_global_phase2_job_failed, TypesOf
<1> QED
  BY <1>1, <1>2, <1>3, <1>4, <1>5, <1>6

Outputs == [source : Sources, selected : Sources]

\* Pruning drops outputs; the marks of a consolidation are of the outputs there are.
LEMMA MarkingKeeps ==
  ASSUME MemoryInv, NEW w \in Workers
  PROVE  /\ Startup(w) => MemoryInv'
         /\ mark_global_phase2_job_succeeded(w) => MemoryInv'
<1>0. /\ TypeOK /\ TypesOf /\ output \in [Threads -> Outputs]
      /\ \A t \in Threads : output[t] \in Outputs /\ output[t].source \in Nat /\ job[t].success \in Nat
      /\ \A t \in Threads : output[t].selected <= output[t].source
  BY InvTyped DEF TypesOf, Outputs, Sources, JobRows, MemoryInv, JobsInv, OutputAccounted
<1>1. ASSUME Startup(w) PROVE MemoryInv'
  <2>1. Moves(w)
    BY <1>1, NoClaims, PcMoves DEF Startup, WorkerPcs
  <2>2. /\ output' = [t \in Threads |-> output'[t]]
        /\ \A t \in Threads : output'[t] \in {NoOutput, output[t]}
    BY <1>1 DEF Startup
  <2>3. output' \in [Threads -> Outputs]
    BY <1>0, <2>2, RecordsTyped DEF Outputs
  <2>4. TypeOK'
    BY <1>0, <1>1, <2>1, <2>3, TypesAre DEF Startup, Moves, TypesOf, Outputs
  <2>5. OutputsWeaken
    <3>1. \A t \in Threads : output'[t].source \in {0, output[t].source}
                             /\ output'[t].selected <= output'[t].source
      BY <1>0, <2>2 DEF NoOutput
    <3> QED
      BY <1>0, <1>1, <3>1 DEF OutputsWeaken, Startup, RowsDeleted
  <2> QED
    BY <1>1, <2>1, <2>4, <2>5, QuietStep, SameRows, SameDeletes, OneWeakens DEF Startup, Moves
<1>2. ASSUME mark_global_phase2_job_succeeded(w) PROVE MemoryInv'
  <2>1. Moves(w)
    BY <1>2, NoClaims, Stops DEF mark_global_phase2_job_succeeded
  <2>2. global' \in GlobalRows
    BY <1>0, <1>2 DEF mark_global_phase2_job_succeeded, GlobalRows, TypesOf
  <2>3. /\ output' = [t \in Threads |-> output'[t]]
        /\ \A t \in Threads : \/ output'[t] = output[t]
                              \/ output'[t] = [output[t] EXCEPT !.selected = output[t].source]
                              \/ output'[t] = [output[t] EXCEPT !.selected = 0]
    BY <1>0, <1>2 DEF mark_global_phase2_job_succeeded, Marked
  <2>4. \A t \in Threads : /\ output'[t] \in Outputs
                           /\ output'[t].source = output[t].source
                           /\ output'[t].selected <= output'[t].source
    BY <1>0, <2>3, RecordsTyped DEF Outputs
  <2>5. output' \in [Threads -> Outputs]
    BY <2>3, <2>4
  <2>6. TypeOK'
    BY <1>0, <1>2, <2>1, <2>2, <2>5, TypesAre
       DEF mark_global_phase2_job_succeeded, Moves, TypesOf, Outputs
  <2>7. OutputsWeaken
    BY <1>0, <1>2, <2>4 DEF OutputsWeaken, mark_global_phase2_job_succeeded, RowsDeleted
  <2> QED
    BY <1>2, <2>1, <2>6, <2>7, QuietStep, SameRows, SameDeletes, OneWeakens
       DEF mark_global_phase2_job_succeeded, Moves
<1> QED
  BY <1>1, <1>2

\* A step that rewrites one row.
LEMMA RowUpdate ==
  ASSUME TypeOK, NEW t \in Threads, NEW r \in JobRows, job' = [job EXCEPT ![t] = r]
  PROVE  /\ job' \in [Threads -> JobRows]
         /\ job'[t] = r /\ \A u \in Threads \ {t} : job'[u] = job[u]
  BY TypesAre DEF TypesOf

\* A row whose lease or backoff ran out.
LEMMA TimersKeep ==
  ASSUME MemoryInv, NEW t \in Threads
  PROVE  /\ LeaseExpires(t) => MemoryInv'
         /\ Stall(t) => MemoryInv'
         /\ BackoffElapses(t) => MemoryInv'
<1>0. TypeOK /\ TypesOf /\ job \in [Threads -> JobRows]
  BY InvTyped DEF TypesOf
<1>1. ASSUME \/ job' = [job EXCEPT ![t].leased = FALSE]
             \/ job' = [job EXCEPT ![t].backoff = FALSE],
             UNCHANGED <<thread, output, global, workspace, baseline, worker, user, resets>>,
             faults' \in 0..MaxFaults
      PROVE  MemoryInv'
  <2> DEFINE r == IF job' = [job EXCEPT ![t].leased = FALSE]
                  THEN [job[t] EXCEPT !.leased = FALSE] ELSE [job[t] EXCEPT !.backoff = FALSE]
  <2>0. job[t] \in JobRows /\ r \in JobRows /\ job' = [job EXCEPT ![t] = r]
    BY <1>0, <1>1 DEF JobRows
  <2>1. job' \in [Threads -> JobRows]
    BY <1>0, <2>0, RowUpdate
  <2>2. \A u \in Threads : /\ job'[u].status = job[u].status /\ job'[u].owner = job[u].owner
                           /\ job'[u].retries = job[u].retries /\ job'[u].input = job[u].input
                           /\ job'[u].success = job[u].success /\ (job'[u].leased => job[u].leased)
    BY <1>0, <1>1 DEF JobRows
  <2>3. TypeOK'
    BY <1>0, <1>1, <2>1, TypesAre DEF TypesOf
  <2>4. RowsWeaken
    BY <2>2 DEF RowsWeaken, Leased
  <2>5. OutputsWeaken
    <3>1. \A u \in Threads : job[u].success \in Nat
      BY <1>0 DEF JobRows, Sources
    <3> QED
      BY <1>1, <2>2, <3>1 DEF OutputsWeaken, RowsDeleted, MemoryInv, JobsInv, OutputAccounted
  <2> QED
    BY <1>1, <2>3, <2>4, <2>5, QuietStep, SameDeletes, SameWorkers
<1>2. LeaseExpires(t) => MemoryInv'
  BY <1>0, <1>1 DEF LeaseExpires, TypesOf
<1>3. Stall(t) => MemoryInv'
  BY <1>0, <1>1, FaultTyped DEF Stall
<1>4. BackoffElapses(t) => MemoryInv'
  BY <1>0, <1>1 DEF BackoffElapses, TypesOf
<1> QED
  BY <1>2, <1>3, <1>4

\* The timers of the global job, and the second half of a reset.
LEMMA GlobalKeeps ==
  ASSUME MemoryInv
  PROVE  /\ GlobalLeaseExpires => MemoryInv'
         /\ GlobalStall => MemoryInv'
         /\ GlobalBackoffElapses => MemoryInv'
         /\ CooldownElapses => MemoryInv'
         /\ clear_memory_roots_contents => MemoryInv'
<1>0. TypeOK /\ TypesOf /\ global \in GlobalRows /\ None \in PerThread
  BY InvTyped, RecordsTyped DEF TypesOf
<1>1. GlobalLeaseExpires => MemoryInv'
  BY <1>0, GlobalOnly DEF GlobalLeaseExpires, TypesOf, GlobalRows
<1>2. GlobalStall => MemoryInv'
  BY <1>0, GlobalOnly, FaultTyped DEF GlobalStall, TypesOf, GlobalRows
<1>3. GlobalBackoffElapses => MemoryInv'
  BY <1>0, GlobalOnly DEF GlobalBackoffElapses, TypesOf, GlobalRows
<1>4. CooldownElapses => MemoryInv'
  BY <1>0, GlobalOnly DEF CooldownElapses, TypesOf, GlobalRows
<1>5. ASSUME clear_memory_roots_contents PROVE MemoryInv'
  <2>1. resets' \in [calls : 0..MaxResets, rootsLeft : BOOLEAN]
    BY <1>0, <1>5 DEF clear_memory_roots_contents, TypesOf
  <2>2. /\ workspace' \in PerThread /\ baseline' \in PerThread \cup {NoRepo}
        /\ global' \in GlobalRows /\ faults' \in 0..MaxFaults
        /\ UNCHANGED <<thread, job, output, worker, user>>
    BY <1>0, <1>5 DEF clear_memory_roots_contents, TypesOf
  <2> QED
    BY <2>1, <2>2, GlobalOnly
<1> QED
  BY <1>1, <1>2, <1>3, <1>4, <1>5

\* A crash leaves the rows of the worker without an owner.
LEMMA CrashKeeps ==
  ASSUME MemoryInv, NEW w \in Workers, Crash(w)
  PROVE  MemoryInv'
<1>0. TypeOK /\ TypesOf /\ job \in [Threads -> JobRows]
  BY InvTyped DEF TypesOf
<1>1. /\ job' = [t \in Threads |-> job'[t]]
      /\ \A t \in Threads : \/ job[t].owner = w /\ job'[t] = [job[t] EXCEPT !.owner = Gone]
                            \/ job[t].owner # w /\ job'[t] = job[t]
  BY DEF Crash, Abandoned
<1>2. \A t \in Threads : job'[t] \in JobRows
  BY <1>0, <1>1 DEF JobRows, Owners
<1>3. \A t \in Threads :
          /\ job'[t].status = job[t].status /\ job'[t].leased = job[t].leased
          /\ job'[t].retries = job[t].retries /\ job'[t].input = job[t].input
          /\ job'[t].success = job[t].success
          /\ job'[t].owner \in {job[t].owner, Gone} /\ job'[t].owner # w
  BY <1>0, <1>1, MemoryAssumption DEF JobRows
<1>4. worker' \in [Workers -> WorkerStates] /\ OnlyWorker(w) /\ worker'[w] = Off
  BY <1>0, OffUpdate DEF Crash
<1>5. TypeOK'
  <2>1. job' \in [Threads -> JobRows]
    BY <1>1, <1>2
  <2> QED
    BY <1>0, <1>4, <2>1, TypesAre, FaultTyped, GlobalTyped DEF TypesOf, Crash
<1>6. RowsWeaken
  BY <1>3 DEF RowsWeaken, Leased
<1>7. Weakens(w)
  BY <1>3, <1>4 DEF Weakens, Off, Owns
<1>8. OutputsWeaken
  <2>1. \A t \in Threads : job[t].success \in Nat
    BY <1>0 DEF JobRows, Sources
  <2> QED
    BY <1>3, <2>1 DEF OutputsWeaken, RowsDeleted, MemoryInv, JobsInv, OutputAccounted, Crash
<1> QED
  BY <1>4, <1>5, <1>6, <1>7, <1>8, QuietStep, SameDeletes, OneWeakens DEF Crash

ThreadRows == [source : Sources, mode : {"enabled", "polluted", "deleted"}]
UserStates == {"idle", "selected", "unselected", "enqueue", "rolloutGone", "rowsGone"}

\* A step on thread t that leaves rows, outputs and workers alone.
LEMMA ThreadOnly ==
  ASSUME MemoryInv, NEW t \in Threads, NEW r \in ThreadRows, NEW u \in UserStates,
         thread' = [thread EXCEPT ![t] = r], user' = [user EXCEPT ![t] = u],
         r.mode = "deleted" => u = "idle",
         u = "rowsGone" \/ r.mode = "deleted" => RowsDeleted(t),
         global' \in GlobalRows,
         UNCHANGED <<job, output, workspace, baseline, worker, faults, resets>>
  PROVE  MemoryInv'
<1>0. TypeOK /\ TypesOf
  BY InvTyped
<1>1. /\ thread' \in [Threads -> ThreadRows] /\ user' \in [Threads -> UserStates]
      /\ thread'[t] = r /\ user'[t] = u
      /\ \A v \in Threads \ {t} : thread'[v] = thread[v] /\ user'[v] = user[v]
  BY <1>0 DEF TypesOf, ThreadRows, UserStates
<1>2. TypeOK'
  BY <1>0, <1>1, TypesAre DEF TypesOf, ThreadRows, UserStates
<1>3. \A v \in Threads : RowsDeleted(v)' => RowsDeleted(v)
  BY <1>1 DEF RowsDeleted
<1>4. DeletesWeaken
  BY <1>1, <1>3 DEF DeletesWeaken, MemoryInv, DeletedOK
<1> QED
  BY <1>2, <1>3, <1>4, QuietStep, SameRows, SameWorkers, SameOutputs

\* What users and sessions do to threads.
LEMMA UsersKeep ==
  ASSUME MemoryInv, NEW t \in Threads
  PROVE  /\ ThreadChanges(t) => MemoryInv'
         /\ PolluteReads(t) => MemoryInv'
         /\ PolluteMarks(t) => MemoryInv'
         /\ PolluteEnqueues(t) => MemoryInv'
         /\ DeleteRollout(t) => MemoryInv'
         /\ DeleteThreadRow(t) => MemoryInv'
<1>0. /\ TypeOK /\ TypesOf /\ global \in GlobalRows
      /\ thread \in [Threads -> ThreadRows] /\ user \in [Threads -> UserStates]
      /\ thread[t] \in ThreadRows /\ user[t] \in UserStates
      /\ thread[t].mode = "deleted" => user[t] = "idle"
  BY InvTyped DEF TypesOf, ThreadRows, UserStates, MemoryInv, DeletedOK
<1>1. thread = [thread EXCEPT ![t] = thread[t]] /\ user = [user EXCEPT ![t] = user[t]]
  BY <1>0
<1>2. ASSUME ThreadChanges(t) PROVE MemoryInv'
  <2> DEFINE r == [thread[t] EXCEPT !.source = thread[t].source + 1]
  <2>1. r \in ThreadRows
    BY <1>0, <1>2, MemoryAssumption DEF ThreadRows, ThreadChanges, Sources
  <2>2. thread' = [thread EXCEPT ![t] = r] /\ r.mode = thread[t].mode
    BY <1>0, <1>2 DEF ThreadChanges, ThreadRows
  <2> HIDE DEF r
  <2> QED
    BY <1>0, <1>1, <1>2, <2>1, <2>2, ThreadOnly DEF ThreadChanges, RowsDeleted
<1>3. ASSUME PolluteReads(t) PROVE MemoryInv'
  <2> DEFINE u == IF output[t].selected # 0 THEN "selected" ELSE "unselected"
  <2>1. u \in UserStates /\ u # "rowsGone" /\ user' = [user EXCEPT ![t] = u]
        /\ thread[t].mode # "deleted"
    BY <1>3 DEF UserStates, PolluteReads
  <2> HIDE DEF u
  <2> QED
    BY <1>0, <1>1, <1>3, <2>1, ThreadOnly DEF PolluteReads
<1>4. ASSUME PolluteMarks(t) PROVE MemoryInv'
  <2> DEFINE r == [thread[t] EXCEPT !.mode = "polluted"]
             u == IF user[t] = "selected" THEN "enqueue" ELSE "idle"
  <2>1. r \in ThreadRows /\ r.mode = "polluted" /\ thread' = [thread EXCEPT ![t] = r]
    BY <1>0, <1>4 DEF ThreadRows, PolluteMarks
  <2>2. u \in UserStates /\ u # "rowsGone" /\ user' = [user EXCEPT ![t] = u]
    BY <1>0, <1>4 DEF UserStates, PolluteMarks
  <2>3. r.mode # "deleted" /\ global' \in GlobalRows
        /\ UNCHANGED <<job, output, workspace, baseline, worker, faults, resets>>
    BY <1>0, <1>4, <2>1 DEF PolluteMarks
  <2> HIDE DEF r, u
  <2> QED
    BY <2>1, <2>2, <2>3, ThreadOnly
<1>5. ASSUME PolluteEnqueues(t) PROVE MemoryInv'
  <2>1. global' \in GlobalRows
    BY <1>0, <1>5 DEF PolluteEnqueues, Enqueued, GlobalRows
  <2> QED
    BY <1>0, <1>1, <1>5, <2>1, ThreadOnly DEF PolluteEnqueues, UserStates
<1>6. ASSUME DeleteRollout(t) PROVE MemoryInv'
  BY <1>0, <1>1, <1>6, ThreadOnly DEF DeleteRollout, UserStates
<1>7. ASSUME DeleteThreadRow(t) PROVE MemoryInv'
  <2> DEFINE r == [source |-> 0, mode |-> "deleted"]
  <2>1. r \in ThreadRows /\ thread' = [thread EXCEPT ![t] = r]
    BY <1>7, RecordsTyped DEF DeleteThreadRow, ThreadRows
  <2> HIDE DEF r
  <2> QED
    BY <1>0, <1>7, <2>1, ThreadOnly DEF DeleteThreadRow, UserStates, RowsDeleted
<1> QED
  BY <1>2, <1>3, <1>4, <1>5, <1>6, <1>7

\* The deletion of the memories of one thread, and of all.
LEMMA DeletionKeeps ==
  ASSUME MemoryInv
  PROVE  /\ \A t \in Threads : delete_thread_memory(t) => MemoryInv'
         /\ clear_memory_data => MemoryInv'
<1>0. TypeOK /\ TypesOf /\ global \in GlobalRows /\ Enqueued \in GlobalRows
  BY InvTyped DEF TypesOf, Enqueued, GlobalRows
<1>1. \A t \in Threads : job[t].success \in Nat
  BY <1>0 DEF TypesOf, JobRows, Sources
<1>2. ASSUME NEW t \in Threads, delete_thread_memory(t) PROVE MemoryInv'
  <2>1. /\ job' \in [Threads -> JobRows]
        /\ job'[t] = NoJob /\ \A v \in Threads \ {t} : job'[v] = job[v]
    BY <1>0, <1>2, RecordsTyped, RowUpdate DEF delete_thread_memory
  <2>2. /\ output' \in [Threads -> Outputs]
        /\ output'[t] = NoOutput /\ \A v \in Threads \ {t} : output'[v] = output[v]
    BY <1>0, <1>2, RecordsTyped DEF delete_thread_memory, TypesOf, Outputs
  <2>3. /\ user' \in [Threads -> UserStates]
        /\ user'[t] = "rowsGone" /\ \A v \in Threads \ {t} : user'[v] = user[v]
    BY <1>0, <1>2 DEF delete_thread_memory, TypesOf, UserStates
  <2>4. TypeOK'
    BY <1>0, <1>2, <2>1, <2>2, <2>3, TypesAre
       DEF TypesOf, Outputs, UserStates, delete_thread_memory
  <2>5. job'[t].status # "running" /\ output'[t].source = 0 /\ output'[t].selected = 0
    BY <2>1, <2>2 DEF NoJob, NoOutput
  <2>6. RowsWeaken
    BY <2>1, <2>5 DEF RowsWeaken, Leased
  <2>7. \A v \in Threads \ {t} : RowsDeleted(v)' => RowsDeleted(v)
    BY <1>2, <2>3 DEF RowsDeleted, delete_thread_memory
  <2>8. DeletesWeaken
    BY <1>2, <2>3, <2>5, <2>7 DEF DeletesWeaken, MemoryInv, DeletedOK, delete_thread_memory
  <2>9. OutputsWeaken
    BY <1>1, <2>1, <2>2, <2>5, <2>7 DEF OutputsWeaken, MemoryInv, JobsInv, OutputAccounted
  <2> QED
    BY <1>2, <2>4, <2>6, <2>8, <2>9, QuietStep, SameWorkers DEF delete_thread_memory
<1>3. ASSUME clear_memory_data PROVE MemoryInv'
  <2>1. /\ job' \in [Threads -> JobRows] /\ \A t \in Threads : job'[t].status # "running"
        /\ output' \in [Threads -> Outputs]
        /\ \A t \in Threads : output'[t].source = 0 /\ output'[t].selected = 0
    BY <1>3, RecordsTyped DEF clear_memory_data, NoJob, NoOutput, Outputs
  <2>2. resets' \in [calls : 0..MaxResets, rootsLeft : BOOLEAN]
    BY <1>0, <1>3, MemoryAssumption DEF clear_memory_data, TypesOf
  <2>3. TypeOK'
    BY <1>0, <1>3, <2>1, <2>2, RecordsTyped, TypesAre DEF TypesOf, Outputs, clear_memory_data
  <2>4. RowsWeaken
    BY <2>1 DEF RowsWeaken, Leased
  <2>5. OutputsWeaken
    BY <2>1 DEF OutputsWeaken
  <2> QED
    BY <1>3, <2>3, <2>4, <2>5, QuietStep, SameDeletes, SameWorkers DEF clear_memory_data
<1> QED
  BY <1>2, <1>3

(***************************************************************************)
(* The extraction jobs.                                                    *)
(***************************************************************************)

\* A report drops the claim of a row that, after it, is not the worker's.
LEMMA ReportMoves ==
  ASSUME MemoryInv, NEW w \in Workers, NEW t \in Threads, InJob(w, t), Report(w, t), ~Owns(w, t)'
  PROVE  Moves(w)
<1>0. TypeOK /\ worker[w] \in WorkerStates
  BY InvTyped DEF TypesOf
<1>1. /\ worker' \in [Workers -> WorkerStates] /\ OnlyWorker(w)
      /\ worker'[w] = [worker[w] EXCEPT !.claim = [worker[w].claim EXCEPT ![t] = 0],
                                        !.loaded = worker[w].loaded \ {t}]
  BY <1>0, ReportUpdate
<1>2. /\ worker'[w].claim = [worker[w].claim EXCEPT ![t] = 0]
      /\ worker'[w].loaded = worker[w].loaded \ {t}
      /\ worker'[w].seen = worker[w].seen /\ worker'[w].pc = worker[w].pc
  BY <1>0, <1>1 DEF WorkerStates
<1>3. \A u \in Threads \ {t} : worker'[w].claim[u] = worker[w].claim[u]
  BY <1>0, <1>2 DEF WorkerStates, PerThread
<1>4. worker[w].loaded \subseteq Threads
  BY <1>0 DEF WorkerStates
<1> QED
  BY <1>1, <1>2, <1>3, <1>4 DEF Moves, Weakens, InJob

\* A report that changes the row of t to one that is not running.
LEMMA RowReported ==
  ASSUME MemoryInv, NEW w \in Workers, NEW t \in Threads, InJob(w, t), Report(w, t),
         NEW r \in JobRows, r.status # "running", job' = [job EXCEPT ![t] = r]
  PROVE  /\ job' \in [Threads -> JobRows] /\ job'[t] = r
         /\ \A u \in Threads \ {t} : job'[u] = job[u]
         /\ Moves(w) /\ RowsWeaken
<1>1. /\ job' \in [Threads -> JobRows] /\ job'[t] = r
      /\ \A u \in Threads \ {t} : job'[u] = job[u]
  BY InvTyped, RowUpdate
<1>2. RowsWeaken
  BY <1>1 DEF RowsWeaken, Leased
<1>3. ~Owns(w, t)'
  BY <1>1 DEF Owns
<1> QED
  BY <1>1, <1>2, <1>3, ReportMoves

\* The rows that reports write.
LEMMA ReportedRows ==
  ASSUME MemoryInv, NEW w \in Workers, NEW t \in Threads, Owns(w, t)
  PROVE  /\ DoneRow(t) \in JobRows /\ DoneRow(t).status # "running"
         /\ DoneRow(t).success = job[t].input /\ job[t].success < job[t].input
         /\ FailedRow(t) \in JobRows /\ FailedRow(t).status # "running"
         /\ FailedRow(t).success = job[t].success
<1>1. job[t] \in JobRows
  BY InvTyped DEF TypesOf
<1>2. job[t].retries > 0 /\ job[t].success < job[t].input
  BY <1>1 DEF MemoryInv, JobsInv, ClaimMatchesRow, Owns, JobRows, Sources
<1>3. DoneRow(t) \in JobRows /\ DoneRow(t).status # "running" /\ DoneRow(t).success = job[t].input
  BY <1>1 DEF DoneRow, JobRows
<1>4. job[t].retries \in Nat /\ job[t].retries - 1 \in 0..DefaultRetries
  BY <1>1, <1>2, MemoryAssumption DEF JobRows
<1>5. FailedRow(t) \in JobRows /\ FailedRow(t).status # "running"
      /\ FailedRow(t).success = job[t].success
  BY <1>1, <1>4 DEF FailedRow, JobRows
<1> QED
  BY <1>2, <1>3, <1>5

\* A job that fails, or whose report is refused.
LEMMA FailuresKeep ==
  ASSUME MemoryInv, NEW w \in Workers, NEW t \in Threads
  PROVE  /\ ReportRefused(w, t) => MemoryInv'
         /\ LoadFails(w, t) => MemoryInv'
         /\ ExtractionFails(w, t) => MemoryInv'
<1>0. TypeOK /\ TypesOf
  BY InvTyped
<1>1. ASSUME ReportRefused(w, t) PROVE MemoryInv'
  <2>1. ~Owns(w, t)'
    BY <1>1 DEF ReportRefused, Owns
  <2>2. Moves(w)
    BY <1>1, <2>1, ReportMoves DEF ReportRefused
  <2> QED
    BY <1>0, <1>1, <2>2, WorkerOnly DEF ReportRefused, TypesOf
<1>2. ASSUME mark_stage1_job_failed(w, t), faults' \in 0..MaxFaults PROVE MemoryInv'
  <2>1. /\ FailedRow(t) \in JobRows /\ FailedRow(t).status # "running"
        /\ FailedRow(t).success = job[t].success
    BY <1>2, ReportedRows DEF mark_stage1_job_failed
  <2>2. PICK r \in JobRows : r = FailedRow(t)
    BY <2>1
  <2>3. /\ job' \in [Threads -> JobRows] /\ job'[t] = r
        /\ \A u \in Threads \ {t} : job'[u] = job[u]
        /\ Moves(w) /\ RowsWeaken
    BY <1>2, <2>1, <2>2, RowReported DEF mark_stage1_job_failed
  <2>4. TypeOK'
    BY <1>0, <1>2, <2>3, TypesAre DEF TypesOf, mark_stage1_job_failed, Moves
  <2>5. OutputsWeaken
    <3>1. \A u \in Threads : job'[u].success = job[u].success /\ job[u].success \in Nat
      BY <1>0, <2>1, <2>2, <2>3 DEF TypesOf, JobRows, Sources
    <3> QED
      BY <1>2, <3>1 DEF OutputsWeaken, mark_stage1_job_failed, RowsDeleted,
                        MemoryInv, JobsInv, OutputAccounted
  <2> QED
    BY <1>2, <2>3, <2>4, <2>5, QuietStep, SameDeletes, OneWeakens DEF mark_stage1_job_failed, Moves
<1>3. LoadFails(w, t) => MemoryInv'
  BY <1>0, <1>2 DEF LoadFails, TypesOf
<1>4. ExtractionFails(w, t) => MemoryInv'
  BY <1>0, <1>2, FaultTyped DEF ExtractionFails
<1> QED
  BY <1>1, <1>3, <1>4

\* A job that succeeds.  What it extracted is the input of the row, so it is
\* at least the version of the output there is; and as its worker has loaded
\* the rollout and owns the row, the thread's memories were not deleted.
LEMMA SuccessKeeps ==
  ASSUME MemoryInv, NEW w \in Workers, NEW t \in Threads
  PROVE  /\ mark_stage1_job_succeeded(w, t) => MemoryInv'
         /\ mark_stage1_job_succeeded_no_output(w, t) => MemoryInv'
<1>0. /\ TypeOK /\ TypesOf /\ global \in GlobalRows /\ Enqueued \in GlobalRows
      /\ output \in [Threads -> Outputs] /\ output[t] \in Outputs
  BY InvTyped DEF TypesOf, Enqueued, GlobalRows, Outputs
<1>1. \A u \in Threads : /\ output[u].source \in Nat /\ output[u].selected \in Nat
                         /\ job[u].success \in Nat /\ job[u].input \in Nat
                         /\ output[u].source <= job[u].success
                         /\ output[u].selected <= output[u].source
  BY <1>0 DEF TypesOf, JobRows, Outputs, Sources, MemoryInv, JobsInv, OutputAccounted
<1>2. ASSUME InJob(w, t), Report(w, t), Owns(w, t), job' = [job EXCEPT ![t] = DoneRow(t)]
      PROVE  /\ job' \in [Threads -> JobRows]
             /\ \A u \in Threads \ {t} : job'[u] = job[u]
             /\ job'[t].success = job[t].input /\ job[t].success < job[t].input
             /\ Moves(w) /\ RowsWeaken
  <2>1. /\ DoneRow(t) \in JobRows /\ DoneRow(t).status # "running"
        /\ DoneRow(t).success = job[t].input /\ job[t].success < job[t].input
    BY <1>2, ReportedRows
  <2>2. PICK r \in JobRows : r = DoneRow(t)
    BY <2>1
  <2> QED
    BY <1>2, <2>1, <2>2, RowReported
<1>3. ASSUME mark_stage1_job_succeeded(w, t) PROVE MemoryInv'
  <2>1. /\ job' \in [Threads -> JobRows]
        /\ \A u \in Threads \ {t} : job'[u] = job[u]
        /\ job'[t].success = job[t].input /\ job[t].success < job[t].input
        /\ Moves(w) /\ RowsWeaken
    BY <1>2, <1>3 DEF mark_stage1_job_succeeded
  <2>2. PICK s \in Sources : s = worker[w].claim[t] /\ s = job[t].input
    BY <1>0, <1>3 DEF mark_stage1_job_succeeded, MemoryInv, JobsInv, ClaimMatchesRow,
                      TypesOf, JobRows
  <2>3. s >= output[t].source
    BY <1>1, <2>1, <2>2
  <2>4. output' = [output EXCEPT ![t].source = s]
    BY <1>3, <2>2, <2>3 DEF mark_stage1_job_succeeded
  <2>5. /\ output' \in [Threads -> Outputs] /\ output'[t].source = s
        /\ output'[t].selected = output[t].selected
        /\ \A u \in Threads \ {t} : output'[u] = output[u]
    BY <1>0, <2>4 DEF Outputs
  <2>6. TypeOK'
    BY <1>0, <1>3, <2>1, <2>5, TypesAre DEF TypesOf, Outputs, mark_stage1_job_succeeded, Moves
  <2>7. OutputAccounted'
    BY <1>1, <2>1, <2>2, <2>3, <2>5 DEF OutputAccounted
  <2>8. DeletedLeavesNoOutput'
    <3>1. ~RowsDeleted(t)
      BY <1>3 DEF MemoryInv, DeletedOK, mark_stage1_job_succeeded
    <3> QED
      BY <1>3, <2>5, <3>1 DEF MemoryInv, DeletedLeavesNoOutput, RowsDeleted, mark_stage1_job_succeeded
  <2>9. RunningLimit' /\ ClaimMatchesRow' /\ WorkersOK' /\ DeletedOK'
    BY <1>3, <2>1, <2>6, WeakeningKeeps, SameDeletes, OneWeakens DEF mark_stage1_job_succeeded, Moves
  <2> QED
    BY <2>6, <2>7, <2>8, <2>9 DEF MemoryInv, JobsInv
<1>4. ASSUME mark_stage1_job_succeeded_no_output(w, t) PROVE MemoryInv'
  <2>1. /\ job' \in [Threads -> JobRows]
        /\ \A u \in Threads \ {t} : job'[u] = job[u]
        /\ job'[t].success = job[t].input /\ job[t].success < job[t].input
        /\ Moves(w) /\ RowsWeaken
    BY <1>2, <1>4 DEF mark_stage1_job_succeeded_no_output
  <2>2. /\ output' \in [Threads -> Outputs] /\ output'[t] = NoOutput
        /\ \A u \in Threads \ {t} : output'[u] = output[u]
    BY <1>0, <1>4, RecordsTyped DEF mark_stage1_job_succeeded_no_output, Outputs
  <2>3. output'[t].source = 0 /\ output'[t].selected = 0
    BY <2>2 DEF NoOutput
  <2>4. TypeOK'
    BY <1>0, <1>4, <2>1, <2>2, TypesAre
       DEF TypesOf, Outputs, mark_stage1_job_succeeded_no_output, Moves
  <2>5. OutputsWeaken
    BY <1>1, <1>4, <2>1, <2>2, <2>3
       DEF OutputsWeaken, RowsDeleted, mark_stage1_job_succeeded_no_output
  <2> QED
    BY <1>4, <2>1, <2>4, <2>5, QuietStep, SameDeletes, OneWeakens
       DEF mark_stage1_job_succeeded_no_output, Moves
<1> QED
  BY <1>3, <1>4

\* A rollout is loaded by a worker whose claims are complete, of a thread
\* whose memories were not deleted.
LEMMA LoadKeeps ==
  ASSUME MemoryInv, NEW w \in Workers, NEW t \in Threads, LoadRollout(w, t)
  PROVE  MemoryInv'
<1>0. TypeOK /\ TypesOf /\ worker[w] \in WorkerStates
  BY InvTyped DEF TypesOf
<1>1. /\ worker' \in [Workers -> WorkerStates] /\ OnlyWorker(w)
      /\ worker'[w] = [worker[w] EXCEPT !.loaded = worker[w].loaded \cup {t}]
  BY <1>0, LoadUpdate DEF LoadRollout
<1>2. /\ worker'[w].claim = worker[w].claim /\ worker'[w].seen = worker[w].seen
      /\ worker'[w].pc = "phase1" /\ worker[w].seen = None /\ worker[w].claim[t] # 0
      /\ worker'[w].loaded = worker[w].loaded \cup {t}
  BY <1>0, <1>1 DEF WorkerStates, LoadRollout, InJob
<1>3. TypeOK'
  BY <1>0, <1>1, TypesAre DEF TypesOf, LoadRollout
<1>4. RunningLimit'
  BY <1>0, LimitStays DEF MemoryInv, JobsInv, LoadRollout, Leased
<1>5. \A v \in Workers : worker'[v].claim = worker[v].claim
  BY <1>1, <1>2 DEF OnlyWorker
<1>6. ClaimMatchesRow' /\ OutputAccounted' /\ DeletedLeavesNoOutput'
  BY <1>5 DEF MemoryInv, JobsInv, ClaimMatchesRow, OutputAccounted,
              DeletedLeavesNoOutput, LoadRollout, Owns
<1>7. WorkersOK'
  <2>1. WorkersOK
    BY DEF MemoryInv
  <2>2. ASSUME NEW v \in Workers
        PROVE  /\ worker'[v].pc # "phase1" => worker'[v].claim = None /\ worker'[v].loaded = {}
               /\ \A u \in worker'[v].loaded : worker'[v].claim[u] # 0 /\ worker'[v].seen = None
    <3>1. CASE v = w
      BY <1>2, <2>1, <3>1 DEF WorkersOK
    <3>2. CASE v # w
      BY <1>1, <2>1, <3>2 DEF WorkersOK, OnlyWorker
    <3> QED
      BY <3>1, <3>2
  <2> QED
    BY <2>2 DEF WorkersOK
<1>8. DeletedOK'
  <2>1. ~RowsDeleted(t)
    BY DEF LoadRollout, RolloutExists, RowsDeleted
  <2>2. \A u \in Threads : RowsDeleted(u)' = RowsDeleted(u)
    BY DEF LoadRollout, RowsDeleted
  <2>3. \A v \in Workers, u \in Threads : Owns(v, u)' = Owns(v, u)
    BY DEF LoadRollout, Owns
  <2>4. \A u \in Threads, v \in Workers : u # t => (u \in worker'[v].loaded => u \in worker[v].loaded)
    BY <1>1, <1>2 DEF OnlyWorker
  <2>5. \A u \in Threads : thread'[u].mode = "deleted" => user'[u] = "idle"
    BY DEF MemoryInv, DeletedOK, LoadRollout
  <2> QED
    BY <2>1, <2>2, <2>3, <2>4, <2>5 DEF MemoryInv, DeletedOK
<1> QED
  BY <1>3, <1>4, <1>6, <1>7, <1>8 DEF MemoryInv, JobsInv

\* A claim adds one lease, to fewer than MaxRunning, and takes the row over
\* with retries left and a version newer than what is recorded as done.
LEMMA ClaimKeeps ==
  ASSUME MemoryInv, NEW w \in Workers, NEW t \in Threads, Claim(w, t)
  PROVE  MemoryInv'
<1>0. TypeOK /\ TypesOf /\ worker[w] \in WorkerStates /\ job[t] \in JobRows
  BY InvTyped DEF TypesOf
<1>1. PICK s \in Sources : s = worker[w].seen[t]
  BY <1>0 DEF WorkerStates, PerThread
<1>2. /\ worker[w].pc = "phase1" /\ s # 0 /\ Claimable(t, s)
      /\ job' = [job EXCEPT ![t] = ClaimedRow(w, t, s)]
      /\ worker' = [worker EXCEPT ![w].seen[t] = 0, ![w].claim[t] = s]
      /\ UNCHANGED <<thread, output, global, workspace, baseline, user, faults, resets>>
  BY <1>1 DEF Claim
<1>3. PICK r : r = ClaimedRow(w, t, s)
  OBVIOUS
<1>4. /\ r \in JobRows /\ r.status = "running" /\ r.owner = w /\ r.input = s
      /\ r.success = job[t].success /\ r.retries > 0
  <2>1. /\ job[t].retries \in 0..DefaultRetries /\ DefaultRetries \in Nat \ {0}
        /\ w \in Owners /\ job[t].success \in Sources
    BY <1>0, MemoryAssumption DEF JobRows, Owners
  <2>2. job[t].status # "none" => job[t].retries > 0 \/ s > job[t].input
    BY <1>2 DEF Claimable, MayInsert, MayUpdate
  <2>3. PICK n \in 0..DefaultRetries : n > 0 /\ r = [status |-> "running", owner |-> w, leased |-> TRUE,
            backoff |-> FALSE, retries |-> n, input |-> s, success |-> job[t].success]
    <3> DEFINE m == IF job[t].status = "none" \/ s > job[t].input THEN DefaultRetries ELSE job[t].retries
    <3>1. m \in 0..DefaultRetries /\ m > 0
      BY <2>1, <2>2
    <3>2. r = [status |-> "running", owner |-> w, leased |-> TRUE, backoff |-> FALSE,
               retries |-> m, input |-> s, success |-> job[t].success]
      BY <1>3 DEF ClaimedRow
    <3> HIDE DEF m
    <3> QED
      BY <3>1, <3>2
  <2> QED
    BY <2>1, <2>3 DEF JobRows
<1>5. /\ job' \in [Threads -> JobRows] /\ job'[t] = r
      /\ \A u \in Threads \ {t} : job'[u] = job[u]
  BY <1>0, <1>2, <1>3, <1>4, RowUpdate
<1>6. /\ worker' \in [Workers -> WorkerStates] /\ OnlyWorker(w)
      /\ worker'[w] = [worker[w] EXCEPT !.seen = [worker[w].seen EXCEPT ![t] = 0],
                                        !.claim = [worker[w].claim EXCEPT ![t] = s]]
  BY <1>0, <1>2, ClaimUpdate
<1>7. /\ worker'[w].claim = [worker[w].claim EXCEPT ![t] = s]
      /\ worker'[w].loaded = worker[w].loaded /\ worker'[w].pc = "phase1"
  BY <1>0, <1>2, <1>6 DEF WorkerStates
<1>8. worker'[w].claim[t] = s /\ \A u \in Threads \ {t} : worker'[w].claim[u] = worker[w].claim[u]
  BY <1>0, <1>7 DEF WorkerStates, PerThread
<1>9. worker[w].loaded = {}
  BY <1>1, <1>2 DEF MemoryInv, WorkersOK, None
<1>10. TypeOK'
  BY <1>0, <1>2, <1>5, <1>6, TypesAre DEF TypesOf
<1>11. RunningLimit'
  <2>1. IsFiniteSet(Threads) /\ Running \subseteq Threads /\ Running' \subseteq Running \cup {t}
    BY <1>5, MemoryAssumption DEF Running, Leased
  <2>2. IsFiniteSet(Running)
    BY <2>1, FS_Subset
  <2>3. /\ IsFiniteSet(Running \cup {t})
        /\ Cardinality(Running \cup {t}) = Cardinality(Running)
           \/ Cardinality(Running \cup {t}) = Cardinality(Running) + 1
    BY <2>2, FS_AddElement
  <2>4. IsFiniteSet(Running') /\ Cardinality(Running') <= Cardinality(Running \cup {t})
    BY <2>1, <2>3, FS_Subset
  <2>5. /\ Cardinality(Running) \in Nat /\ Cardinality(Running') \in Nat
        /\ Cardinality(Running \cup {t}) \in Nat /\ MaxRunning \in Nat
    BY <2>2, <2>3, <2>4, FS_CardinalityType, MemoryAssumption
  <2>6. Cardinality(Running) < MaxRunning
    BY <1>2 DEF Claimable
  <2> QED
    BY <2>3, <2>4, <2>5, <2>6 DEF RunningLimit
<1>12. ClaimMatchesRow'
  <2>0. job[t].success \in Nat /\ s \in Nat /\ s > job[t].success
    BY <1>0, <1>2 DEF JobRows, Sources, Claimable, UpToDate
  <2>1. \A u \in Threads : job'[u].status = "running" =>
            job'[u].retries > 0 /\ job'[u].owner # Nobody /\ job'[u].input > job'[u].success
    BY <1>4, <1>5, <2>0, MemoryAssumption DEF MemoryInv, JobsInv, ClaimMatchesRow
  <2>2. ASSUME NEW u \in Threads, NEW v \in Workers, Owns(v, u)'
        PROVE  worker'[v].claim[u] = job'[u].input
    <3>1. CASE u = t
      BY <1>4, <1>5, <1>8, <2>2, <3>1 DEF Owns
    <3>2. CASE u # t
      <4>1. job'[u] = job[u] /\ worker'[v].claim[u] = worker[v].claim[u]
        BY <1>5, <1>6, <1>8, <3>2 DEF OnlyWorker
      <4>2. Owns(v, u) => worker[v].claim[u] = job[u].input
        BY DEF MemoryInv, JobsInv, ClaimMatchesRow
      <4> QED
        BY <2>2, <4>1, <4>2 DEF Owns
    <3> QED
      BY <3>1, <3>2
  <2> QED
    BY <2>1, <2>2 DEF ClaimMatchesRow
<1>14. OutputAccounted' /\ DeletedLeavesNoOutput'
  BY <1>2, <1>4, <1>5 DEF MemoryInv, JobsInv, OutputAccounted, DeletedLeavesNoOutput
<1>15. WorkersOK'
  BY <1>6, <1>7, <1>9 DEF MemoryInv, WorkersOK, OnlyWorker
<1>16. DeletedOK'
  <2>1. \A u \in Threads : RowsDeleted(u)' = RowsDeleted(u)
    BY <1>2 DEF RowsDeleted
  <2>2. \A v \in Workers : worker'[v].loaded = worker[v].loaded
    BY <1>6, <1>7 DEF OnlyWorker
  <2>3. \A v \in Workers : t \in worker'[v].loaded => ~Owns(v, t)'
    BY <1>4, <1>5, <1>9, <2>2 DEF Owns
  <2>4. \A v \in Workers, u \in Threads \ {t} : Owns(v, u)' = Owns(v, u)
    BY <1>5 DEF Owns
  <2>5. \A u \in Threads : thread'[u].mode = "deleted" => user'[u] = "idle"
    BY <1>2 DEF MemoryInv, DeletedOK
  <2> QED
    BY <2>1, <2>2, <2>3, <2>4, <2>5 DEF MemoryInv, DeletedOK
<1> QED
  BY <1>10, <1>11, <1>12, <1>14, <1>15, <1>16 DEF MemoryInv, JobsInv

(***************************************************************************)
(* The theorems.                                                           *)
(***************************************************************************)

\* The empty database agrees with itself.
LEMMA MemoryInit == Init => MemoryInv
<1> SUFFICES ASSUME Init PROVE MemoryInv
  OBVIOUS
<1>1. TypeOK
  BY RecordsTyped, MemoryAssumption, TypesAre DEF Init, TypesOf
<1>2. RunningLimit
  <2>1. Running = {}
    BY DEF Init, Running, Leased, NoJob
  <2> QED
    BY <2>1, FS_EmptySet, MemoryAssumption DEF RunningLimit
<1>3. \A t \in Threads : job[t].status = "none" /\ job[t].success = 0
                         /\ output[t].source = 0 /\ output[t].selected = 0
  BY DEF Init, NoJob, NoOutput
<1>4. ClaimMatchesRow /\ OutputAccounted /\ DeletedLeavesNoOutput
  BY <1>3 DEF ClaimMatchesRow, OutputAccounted, DeletedLeavesNoOutput, Owns
<1>5. \A w \in Workers : worker[w].claim = None /\ worker[w].loaded = {}
  BY DEF Init, Off
<1>6. WorkersOK /\ DeletedOK
  BY <1>5 DEF WorkersOK, DeletedOK, Init
<1> QED
  BY <1>1, <1>2, <1>4, <1>6 DEF MemoryInv, JobsInv

\* Every step keeps the invariant.
LEMMA MemoryStep == MemoryInv /\ [Next]_vars => MemoryInv'
<1> SUFFICES ASSUME MemoryInv, [Next]_vars PROVE MemoryInv'
  OBVIOUS
<1>1. ASSUME NEW w \in Workers, WorkerStep(w) PROVE MemoryInv'
  <2>1. ASSUME NEW t \in Threads, JobStep(w, t) PROVE MemoryInv'
    BY <2>1, ClaimKeeps, ScanningKeeps, LoadKeeps, FailuresKeep, SuccessKeeps DEF JobStep
  <2> QED
    BY <1>1, <2>1, MarkingKeeps, ScanningKeeps, SelectingKeeps, ConsolidatingKeeps DEF WorkerStep
<1>2. ASSUME NEW w \in Workers,
             Heartbeat(w) \/ RateLimited(w) \/ StepFailed(w) \/ Crash(w)
               \/ \E t \in Threads : ExtractionFails(w, t)
      PROVE  MemoryInv'
  BY <1>2, ConsolidatingKeeps, ScanningKeeps, CrashKeeps, FailuresKeep
<1>3. ASSUME Timers \/ GlobalStall PROVE MemoryInv'
  BY <1>3, TimersKeep, GlobalKeeps DEF Timers
<1>4. ASSUME NEW t \in Threads,
             Stall(t) \/ ThreadChanges(t) \/ PolluteReads(t) \/ DeleteRollout(t) \/ UserStep(t)
      PROVE  MemoryInv'
  BY <1>4, TimersKeep, UsersKeep, DeletionKeeps DEF UserStep
<1>5. ASSUME clear_memory_data \/ clear_memory_roots_contents PROVE MemoryInv'
  BY <1>5, DeletionKeeps, GlobalKeeps
<1>6. ASSUME UNCHANGED vars PROVE MemoryInv'
  <2>1. global' \in GlobalRows /\ workspace' \in PerThread /\ faults' \in 0..MaxFaults
        /\ baseline' \in PerThread \cup {NoRepo}
        /\ resets' \in [calls : 0..MaxResets, rootsLeft : BOOLEAN]
    BY <1>6, InvTyped DEF vars, TypesOf
  <2> QED
    BY <1>6, <2>1, GlobalOnly DEF vars
<1> QED
  BY <1>1, <1>2, <1>3, <1>4, <1>5, <1>6 DEF Next

\* The inductive invariant holds.
THEOREM MemoryInvariant == Spec => []MemoryInv
  BY MemoryInit, MemoryStep, PTL DEF Spec

\* Rows, claims, outputs and the limit on running jobs agree, whatever
\* expires, is stolen, crashes, is pruned or reset.
THEOREM JobsAgree == Spec => []JobsInv
<1>1. MemoryInv => JobsInv
  BY DEF MemoryInv
<1> QED
  BY <1>1, MemoryInvariant, PTL

\* A thread whose memories were deleted has no output, also when it is being
\* extracted or about to be claimed.
THEOREM DeletedStaysDeleted == Spec => []DeletedLeavesNoOutput
<1>1. MemoryInv => DeletedLeavesNoOutput
  BY DEF MemoryInv
<1> QED
  BY <1>1, MemoryInvariant, PTL

(***************************************************************************)
(* The action properties.                                                  *)
(***************************************************************************)

\* The steps that write stage1_outputs.
WritesOutputs ==
    \/ \E w \in Workers :
           \/ Startup(w) \/ mark_global_phase2_job_succeeded(w)
           \/ \E t \in Threads : mark_stage1_job_succeeded(w, t)
                                 \/ mark_stage1_job_succeeded_no_output(w, t)
    \/ \E t \in Threads : delete_thread_memory(t)
    \/ clear_memory_data

\* No other step changes an output.
LEMMA OutputWriters == [Next]_vars => WritesOutputs \/ UNCHANGED output
<1> SUFFICES ASSUME [Next]_vars, ~WritesOutputs PROVE UNCHANGED output
  OBVIOUS
<1>1. ASSUME NEW w \in Workers, NEW t \in Threads, JobStep(w, t) PROVE UNCHANGED output
  BY <1>1 DEF JobStep, Claim, Skip, LoadRollout, LoadFails, mark_stage1_job_failed, ReportRefused,
              WritesOutputs
<1>2. ASSUME NEW w \in Workers, WorkerStep(w) PROVE UNCHANGED output
  <2>1. CASE Startup(w) \/ mark_global_phase2_job_succeeded(w)
    BY <2>1 DEF WritesOutputs
  <2>2. CASE Scan(w) \/ try_claim_global_phase2_job(w) \/ SkipPhase2(w) \/ SelectInputs(w)
    BY <2>2 DEF Scan, try_claim_global_phase2_job, SkipPhase2, SelectInputs
  <2>3. CASE LoadInputs(w) \/ SyncWorkspace(w) \/ DiffWorkspace(w) \/ ConfirmOwnership(w)
    BY <2>3 DEF LoadInputs, SyncWorkspace, DiffWorkspace, ConfirmOwnership
  <2>4. CASE ResetBaseline(w) \/ mark_global_phase2_job_failed(w)
    BY <2>4 DEF ResetBaseline, mark_global_phase2_job_failed
  <2> QED
    BY <1>1, <1>2, <2>1, <2>2, <2>3, <2>4 DEF WorkerStep
<1>3. ASSUME NEW w \in Workers,
             Heartbeat(w) \/ RateLimited(w) \/ StepFailed(w) \/ Crash(w)
               \/ \E t \in Threads : ExtractionFails(w, t)
      PROVE  UNCHANGED output
  BY <1>3 DEF Heartbeat, RateLimited, StepFailed, Crash, ExtractionFails, mark_stage1_job_failed
<1>4. ASSUME Timers \/ GlobalStall PROVE UNCHANGED output
  BY <1>4 DEF Timers, GlobalStall, LeaseExpires, BackoffElapses, GlobalLeaseExpires,
              GlobalBackoffElapses, CooldownElapses
<1>5. ASSUME NEW t \in Threads,
             Stall(t) \/ ThreadChanges(t) \/ PolluteReads(t) \/ DeleteRollout(t) \/ UserStep(t)
      PROVE  UNCHANGED output
  BY <1>5 DEF Stall, ThreadChanges, PolluteReads, DeleteRollout, UserStep, PolluteMarks,
              PolluteEnqueues, DeleteThreadRow, WritesOutputs
<1>6. ASSUME clear_memory_data \/ clear_memory_roots_contents PROVE UNCHANGED output
  BY <1>6 DEF clear_memory_roots_contents, WritesOutputs
<1>7. UNCHANGED vars => UNCHANGED output
  BY DEF vars
<1> QED
  BY <1>2, <1>3, <1>4, <1>5, <1>6, <1>7 DEF Next

\* What a step may do to one output.
OutputStep(t) ==
    \/ output'[t] = output[t]
    \/ output'[t] = NoOutput
    \/ output'[t].source >= output[t].source
    \/ output'[t].source = output[t].source

\* A step drops an output, replaces it by one as new, or marks it.
LEMMA OutputSteps ==
  ASSUME TypeOK, [Next]_vars, NEW t \in Threads
  PROVE  OutputStep(t)
<1>0. /\ output \in [Threads -> Outputs] /\ worker \in [Workers -> WorkerStates]
      /\ \A u \in Threads : output[u] \in Outputs /\ output[u].source \in Nat
  BY TypesAre DEF TypesOf, Outputs, Sources
<1>1. ASSUME NEW w \in Workers, Startup(w) PROVE OutputStep(t)
  BY <1>1 DEF Startup, OutputStep
<1>2. ASSUME NEW w \in Workers, mark_global_phase2_job_succeeded(w) PROVE OutputStep(t)
  <2>1. CASE UNCHANGED output
    BY <2>1 DEF OutputStep
  <2>2. CASE OwnsGlobal(w) /\ output' = Marked(w)
    <3>1. output'[t] = [output[t] EXCEPT !.selected =
              IF worker[w].snap[t] = output[t].source THEN output[t].source ELSE 0]
      BY <2>2 DEF Marked
    <3>2. output'[t].source = output[t].source
      BY <1>0, <3>1 DEF Outputs
    <3> QED
      BY <2>2, <3>2 DEF OutputStep
  <2> QED
    BY <1>2, <2>1, <2>2 DEF mark_global_phase2_job_succeeded
<1>3. ASSUME NEW w \in Workers, NEW u \in Threads, mark_stage1_job_succeeded(w, u)
      PROVE  OutputStep(t)
  <2>1. worker[w].claim[u] \in Nat
    BY <1>0 DEF WorkerStates, PerThread, Sources
  <2>2. PICK s \in Nat : s >= output[u].source /\ output' = [output EXCEPT ![u].source = s]
    <3> DEFINE m == IF worker[w].claim[u] >= output[u].source
                    THEN worker[w].claim[u] ELSE output[u].source
    <3>1. m \in Nat /\ m >= output[u].source
      BY <1>0, <2>1
    <3>2. output' = [output EXCEPT ![u].source = m]
      BY <1>3 DEF mark_stage1_job_succeeded
    <3> HIDE DEF m
    <3> QED
      BY <3>1, <3>2
  <2>3. CASE u = t
    BY <1>0, <2>2, <2>3 DEF OutputStep, Outputs
  <2>4. CASE u # t
    BY <1>0, <2>2, <2>4 DEF OutputStep
  <2> QED
    BY <2>3, <2>4
<1>4. ASSUME NEW w \in Workers, NEW u \in Threads, mark_stage1_job_succeeded_no_output(w, u)
      PROVE  OutputStep(t)
  BY <1>0, <1>4 DEF mark_stage1_job_succeeded_no_output, OutputStep
<1>5. ASSUME NEW u \in Threads, delete_thread_memory(u) PROVE OutputStep(t)
  BY <1>0, <1>5 DEF delete_thread_memory, OutputStep
<1>6. ASSUME clear_memory_data PROVE OutputStep(t)
  BY <1>6 DEF clear_memory_data, OutputStep
<1>7. UNCHANGED output => OutputStep(t)
  BY DEF OutputStep
<1> QED
  BY <1>1, <1>2, <1>3, <1>4, <1>5, <1>6, <1>7, OutputWriters DEF WritesOutputs

\* The version of a thread's output only grows while the output exists.
THEOREM LateResultLoses == Spec => OutputNeverGoesBack
<1>1. MemoryInv /\ [Next]_vars =>
        [\A t \in Threads : output'[t].source # 0 => output'[t].source >= output[t].source]_vars
  <2> SUFFICES ASSUME MemoryInv, [Next]_vars, NEW t \in Threads
               PROVE  output'[t].source # 0 => output'[t].source >= output[t].source
    OBVIOUS
  <2>1. output[t].source \in Nat
    BY InvTyped DEF TypesOf, Sources
  <2>2. OutputStep(t)
    BY InvTyped, OutputSteps
  <2> QED
    BY <2>1, <2>2 DEF OutputStep, NoOutput
<1> QED
  BY <1>1, MemoryInvariant, PTL DEF Spec, OutputNeverGoesBack

\* The steps that write the job rows.
WritesRows ==
    \/ \E w \in Workers, t \in Threads :
           \/ Claim(w, t) \/ mark_stage1_job_failed(w, t)
           \/ mark_stage1_job_succeeded(w, t) \/ mark_stage1_job_succeeded_no_output(w, t)
    \/ \E w \in Workers : Crash(w)
    \/ \E t \in Threads :
           LeaseExpires(t) \/ Stall(t) \/ BackoffElapses(t) \/ delete_thread_memory(t)
    \/ clear_memory_data

\* No other step changes a job row.
LEMMA RowWriters == [Next]_vars => WritesRows \/ UNCHANGED job
<1> SUFFICES ASSUME [Next]_vars, ~WritesRows PROVE UNCHANGED job
  OBVIOUS
<1>1. ASSUME NEW w \in Workers, NEW t \in Threads, JobStep(w, t) PROVE UNCHANGED job
  BY <1>1 DEF JobStep, Skip, LoadRollout, LoadFails, ReportRefused, WritesRows
<1>2. ASSUME NEW w \in Workers, WorkerStep(w) PROVE UNCHANGED job
  <2>1. CASE Startup(w) \/ mark_global_phase2_job_succeeded(w)
    BY <2>1 DEF Startup, mark_global_phase2_job_succeeded
  <2>2. CASE Scan(w) \/ try_claim_global_phase2_job(w) \/ SkipPhase2(w) \/ SelectInputs(w)
    BY <2>2 DEF Scan, try_claim_global_phase2_job, SkipPhase2, SelectInputs
  <2>3. CASE LoadInputs(w) \/ SyncWorkspace(w) \/ DiffWorkspace(w) \/ ConfirmOwnership(w)
    BY <2>3 DEF LoadInputs, SyncWorkspace, DiffWorkspace, ConfirmOwnership
  <2>4. CASE ResetBaseline(w) \/ mark_global_phase2_job_failed(w)
    BY <2>4 DEF ResetBaseline, mark_global_phase2_job_failed
  <2> QED
    BY <1>1, <1>2, <2>1, <2>2, <2>3, <2>4 DEF WorkerStep
<1>3. ASSUME NEW w \in Workers,
             Heartbeat(w) \/ RateLimited(w) \/ StepFailed(w) \/ Crash(w)
               \/ \E t \in Threads : ExtractionFails(w, t)
      PROVE  UNCHANGED job
  BY <1>3 DEF Heartbeat, RateLimited, StepFailed, ExtractionFails, WritesRows
<1>4. ASSUME Timers \/ GlobalStall PROVE UNCHANGED job
  BY <1>4 DEF Timers, GlobalStall, GlobalLeaseExpires, GlobalBackoffElapses, CooldownElapses,
              WritesRows
<1>5. ASSUME NEW t \in Threads,
             Stall(t) \/ ThreadChanges(t) \/ PolluteReads(t) \/ DeleteRollout(t) \/ UserStep(t)
      PROVE  UNCHANGED job
  BY <1>5 DEF ThreadChanges, PolluteReads, DeleteRollout, UserStep, PolluteMarks,
              PolluteEnqueues, DeleteThreadRow, WritesRows
<1>6. ASSUME clear_memory_data \/ clear_memory_roots_contents PROVE UNCHANGED job
  BY <1>6 DEF clear_memory_roots_contents, WritesRows
<1>7. UNCHANGED vars => UNCHANGED job
  BY DEF vars
<1> QED
  BY <1>2, <1>3, <1>4, <1>5, <1>6, <1>7 DEF Next

\* The report with which worker w closes the job of thread t.
Closes(w, t) ==
    /\ t \in worker[w].loaded /\ worker[w].claim[t] = job'[t].success
    /\ worker'[w].claim[t] = 0

\* What a step may do to the version that counts as done.
SuccessStep(t) ==
    \/ job'[t].success \in {0, job[t].success}
    \/ job'[t].success > job[t].success /\ \E w \in Workers : Closes(w, t)

\* The worker that owns a running row and reports success closes its own
\* version, which is newer than what the row records.
LEMMA SuccessSteps ==
  ASSUME MemoryInv, [Next]_vars, NEW t \in Threads
  PROVE  SuccessStep(t)
<1>0. /\ TypeOK /\ TypesOf /\ job \in [Threads -> JobRows] /\ worker \in [Workers -> WorkerStates]
      /\ \A u \in Threads : job[u] \in JobRows
  BY InvTyped DEF TypesOf
<1>1. ASSUME NEW w \in Workers, NEW u \in Threads, Claim(w, u) PROVE SuccessStep(t)
  <2>1. job' = [job EXCEPT ![u] = ClaimedRow(w, u, worker[w].seen[u])]
    BY <1>1 DEF Claim
  <2>2. ClaimedRow(w, u, worker[w].seen[u]).success = job[u].success
    BY DEF ClaimedRow
  <2>3. job'[t].success = job[t].success
    BY <1>0, <2>1, <2>2
  <2> QED
    BY <2>3 DEF SuccessStep
<1>2. ASSUME NEW w \in Workers, NEW u \in Threads, mark_stage1_job_failed(w, u) PROVE SuccessStep(t)
  <2>1. FailedRow(u).success = job[u].success /\ job' = [job EXCEPT ![u] = FailedRow(u)]
    BY <1>2, ReportedRows DEF mark_stage1_job_failed
  <2>2. job'[t].success = job[t].success
    BY <1>0, <2>1
  <2> QED
    BY <2>2 DEF SuccessStep
<1>3. ASSUME NEW w \in Workers, NEW u \in Threads,
             mark_stage1_job_succeeded(w, u) \/ mark_stage1_job_succeeded_no_output(w, u)
      PROVE  SuccessStep(t)
  <2>1. /\ u \in worker[w].loaded /\ Owns(w, u) /\ Report(w, u)
        /\ job' = [job EXCEPT ![u] = DoneRow(u)]
    BY <1>3 DEF mark_stage1_job_succeeded, mark_stage1_job_succeeded_no_output
  <2>2. DoneRow(u).success = job[u].input /\ job[u].success < job[u].input
    BY <2>1, ReportedRows
  <2>3. CASE u # t
    <3>1. job'[t] = job[t]
      BY <1>0, <2>1, <2>3
    <3> QED
      BY <3>1 DEF SuccessStep
  <2>4. CASE u = t
    <3>1. job'[t].success = job[t].input
      BY <1>0, <2>1, <2>2, <2>4
    <3>2. worker[w].claim[t] = job[t].input
      BY <2>1, <2>4 DEF MemoryInv, JobsInv, ClaimMatchesRow
    <3>3. worker'[w].claim = [worker[w].claim EXCEPT ![t] = 0] /\ worker[w].claim \in PerThread
      <4>1. worker[w] \in WorkerStates
        BY <1>0
      <4>2. worker'[w] = [worker[w] EXCEPT !.claim = [worker[w].claim EXCEPT ![t] = 0],
                                           !.loaded = worker[w].loaded \ {t}]
        BY <1>0, <2>1, <2>4, ReportUpdate
      <4> QED
        BY <4>1, <4>2 DEF WorkerStates
    <3>4. Closes(w, t)
      BY <2>1, <2>4, <3>1, <3>2, <3>3 DEF Closes, PerThread
    <3>5. job'[t].success > job[t].success
      BY <1>0, <2>2, <2>4, <3>1 DEF JobRows, Sources
    <3> QED
      BY <3>4, <3>5 DEF SuccessStep
  <2> QED
    BY <2>3, <2>4
<1>4. ASSUME NEW w \in Workers, Crash(w) PROVE SuccessStep(t)
  <2>1. job'[t] = Abandoned(job[t], w)
    BY <1>4 DEF Crash
  <2>2. job'[t].success = job[t].success
    BY <1>0, <2>1 DEF Abandoned, JobRows
  <2> QED
    BY <2>2 DEF SuccessStep
<1>5. ASSUME NEW u \in Threads, LeaseExpires(u) \/ Stall(u) \/ BackoffElapses(u)
      PROVE  SuccessStep(t)
  <2>1. job'[t].success = job[t].success
    BY <1>0, <1>5 DEF LeaseExpires, Stall, BackoffElapses, JobRows
  <2> QED
    BY <2>1 DEF SuccessStep
<1>6. ASSUME NEW u \in Threads, delete_thread_memory(u) PROVE SuccessStep(t)
  <2>1. job'[t] \in {job[t], NoJob}
    BY <1>0, <1>6 DEF delete_thread_memory
  <2> QED
    BY <2>1 DEF SuccessStep, NoJob
<1>7. ASSUME clear_memory_data PROVE SuccessStep(t)
  <2>1. job'[t] = NoJob
    BY <1>7 DEF clear_memory_data
  <2> QED
    BY <2>1 DEF SuccessStep, NoJob
<1>8. UNCHANGED job => SuccessStep(t)
  BY DEF SuccessStep
<1> QED
  BY <1>1, <1>2, <1>3, <1>4, <1>5, <1>6, <1>7, <1>8, RowWriters DEF WritesRows

\* A version counts as done in the report of the worker that loaded it, and
\* only after an older one.
THEOREM SuccessIsReal == Spec => SuccessIsExtracted
<1>1. MemoryInv /\ [Next]_vars =>
        [\A t \in Threads :
            job'[t].success \notin {0, job[t].success} =>
                /\ job'[t].success > job[t].success
                /\ \E w \in Workers :
                      /\ t \in worker[w].loaded /\ worker[w].claim[t] = job'[t].success
                      /\ worker'[w].claim[t] = 0]_vars
  BY SuccessSteps DEF SuccessStep, Closes
<1> QED
  BY <1>1, MemoryInvariant, PTL DEF Spec, SuccessIsExtracted
=============================================================================
