------------------------ MODULE SessionTurns_proofs ------------------------
(***************************************************************************)
(* Type correctness of SessionTurns and the conservation of its items, for *)
(* every set of turns, inputs, mail and operations: the facts about the    *)
(* data first, then who may have items in hand (Custody), then for each of *)
(* the two one lemma per group of actions, then the theorems.              *)
(***************************************************************************)
EXTENDS SessionTurns, FiniteSetTheorems, TLAPS

(***************************************************************************)
(* Facts about the data.                                                   *)
(***************************************************************************)

\* Mail is a kind of item, so a mailbox can become a turn's pending input.
LEMMA MailIsItems == ASSUME NEW q \in Seq(Mails) PROVE q \in Seq(Items)
  BY DEF Items

\* A fresh set of locals has the type of locals.
LEMMA BlankType ==
  ASSUME NEW back \in {"idle", "dead", "exiting", "leaving"}
  PROVE  Blank(back) \in Locals
  BY ConstantsAssumption DEF Blank, Locals, Kinds, Reasons, Results

\* The locals may be changed field by field.
LEMMA FieldTypes ==
  ASSUME NEW r \in Locals
  PROVE  /\ \A v \in Seq(Items) : /\ [r EXCEPT !.mail = v] \in Locals
                                 /\ [r EXCEPT !.input = v] \in Locals
         /\ \A v \in States \cup {None} : [r EXCEPT !.ts = v] \in Locals
         /\ \A v \in Turns \cup {None} : [r EXCEPT !.victim = v] \in Locals
         /\ \A v \in Reasons : [r EXCEPT !.reason = v] \in Locals
         /\ \A v \in Results : [r EXCEPT !.result = v] \in Locals
         /\ \A v \in 0..MaxSamples : [r EXCEPT !.samples = v] \in Locals
         /\ \A v \in {"exiting", "leaving"} : [r EXCEPT !.then = v] \in Locals
  BY DEF Locals

\* So may the locals of one process.
LEMMA LocTypes ==
  ASSUME TypeOK, NEW p
  PROVE  /\ \A r \in Locals : [loc EXCEPT ![p] = r] \in [Procs -> Locals]
         /\ \A v \in Seq(Items) :
               /\ [loc EXCEPT ![p].mail = v] \in [Procs -> Locals]
               /\ [loc EXCEPT ![p].input = v] \in [Procs -> Locals]
         /\ \A v \in States \cup {None} :
               [loc EXCEPT ![p].ts = v] \in [Procs -> Locals]
         /\ \A v \in Turns \cup {None} :
               [loc EXCEPT ![p].victim = v] \in [Procs -> Locals]
         /\ \A v \in Reasons : [loc EXCEPT ![p].reason = v] \in [Procs -> Locals]
         /\ \A v \in Results : [loc EXCEPT ![p].result = v] \in [Procs -> Locals]
         /\ \A v \in 0..MaxSamples :
               [loc EXCEPT ![p].samples = v] \in [Procs -> Locals]
<1>1. CASE p \in Procs
  <2>1. loc[p] \in Locals
    BY <1>1 DEF TypeOK
  <2> QED
    BY <1>1, <2>1, FieldTypes DEF TypeOK
<1>2. CASE p \notin Procs
  BY <1>2 DEF TypeOK
<1> QED
  BY <1>1, <1>2

\* The empty sequence is a sequence of items.
LEMMA EmptyItems == <<>> \in Seq(Items)
  OBVIOUS

\* Dropping items, as an abort or a hook does, keeps the type of fate.
LEMMA DropType == ASSUME TypeOK, NEW S
  PROVE Drop(S) \in [Items -> {"unsent", "rejected", "accepted", "dropped"}]
  BY DEF TypeOK, Drop

\* get_or_insert_with yields a turn state.
LEMMA SlotStateType == ASSUME TypeOK, CanFillSlot PROVE SlotState \in States
  BY DEF TypeOK, CanFillSlot, SlotState, NewState, FreeStates

\* Extending a turn state's pending input keeps its type.
LEMMA ExtendedType ==
  ASSUME TypeOK, NEW s, NEW q \in Seq(Items)
  PROVE  Extended(s, q) \in [States -> TurnState]
<1> DEFINE new == [tstate[s] EXCEPT !.items = tstate[s].items \o q]
<1>1. CASE s \in States
  <2>1. tstate[s] \in TurnState
    BY <1>1 DEF TypeOK
  <2>2. tstate[s].items \o q \in Seq(Items)
    BY <2>1 DEF TurnState
  <2>3. new \in TurnState
    BY <2>1, <2>2 DEF TurnState
  <2> QED
    BY <1>1, <2>3 DEF TypeOK, Extended
<1>2. CASE s \notin States
  BY <1>2 DEF TypeOK, Extended
<1> QED
  BY <1>1, <1>2

\* So does a steer, which also reopens the turn to mail.
LEMMA ExtendedAndOpenType ==
  ASSUME TypeOK, NEW s, NEW q \in Seq(Items)
  PROVE  ExtendedAndOpen(s, q) \in [States -> TurnState]
<1> DEFINE new == [items |-> tstate[s].items \o q, phase |-> "CurrentTurn"]
<1>1. CASE s \in States
  <2>1. tstate[s] \in TurnState
    BY <1>1 DEF TypeOK
  <2>2. tstate[s].items \o q \in Seq(Items)
    BY <2>1 DEF TurnState
  <2>3. new \in TurnState
    BY <2>2 DEF TurnState, Phases
  <2> QED
    BY <1>1, <2>3 DEF TypeOK, ExtendedAndOpen
<1>2. CASE s \notin States
  BY <1>2 DEF TypeOK, ExtendedAndOpen
<1> QED
  BY <1>1, <1>2

\* Taking the pending input out of a turn state keeps its type.
LEMMA EmptiedType ==
  ASSUME TypeOK, NEW s
  PROVE  [tstate EXCEPT ![s].items = <<>>] \in [States -> TurnState]
<1>1. ASSUME NEW r \in TurnState PROVE [r EXCEPT !.items = <<>>] \in TurnState
  BY EmptyItems DEF TurnState
<1> QED
  BY <1>1 DEF TypeOK

\* So does opening and closing a turn to mail.
LEMMA PhaseType ==
  ASSUME TypeOK, NEW t
  PROVE  Opened(t) \in [States -> TurnState] /\ Deferred(t) \in [States -> TurnState]
  BY DEF TypeOK, Opened, Deferred, TurnState, Phases

\* Reporting the end of a turn keeps the type of the reports.
LEMMA TerminalType ==
  ASSUME TypeOK, NEW v, NEW e \in {"complete", "aborted"}
  PROVE  [terminal EXCEPT ![v] = Append(@, e)]
            \in [Turns -> Seq({"complete", "aborted"})]
<1>1. ASSUME NEW q \in Seq({"complete", "aborted"})
      PROVE  Append(q, e) \in Seq({"complete", "aborted"})
  OBVIOUS
<1> QED
  BY <1>1 DEF TypeOK

\* Going to a known label, and returning, keep the types of pc and loc.
LEMMA GotoType ==
  ASSUME TypeOK, NEW p, NEW l \in Labels, Goto(p, l)
  PROVE  pc' \in [Procs -> Labels]
  BY DEF TypeOK, Goto

\* Returning from the outermost call blanks the locals of the process.
LEMMA ReturnType ==
  ASSUME TypeOK, NEW p \in Procs, Return(p)
  PROVE  pc' \in [Procs -> Labels] /\ loc' \in [Procs -> Locals]
<1>1. loc[p].then \in {"idle", "dead", "exiting", "leaving"}
  BY DEF TypeOK, Locals
<1>2. Blank(loc[p].then) \in Locals
  BY <1>1, BlankType
<1> QED
  BY <1>1, <1>2 DEF TypeOK, Return, Labels

(***************************************************************************)
(* What is recorded.                                                       *)
(***************************************************************************)

\* In a finite set of places, counting up to a place numbers the places in order.
LEMMA RanksCount ==
  ASSUME NEW n \in Nat, NEW kept \in SUBSET (1..n)
  PROVE  LET Rank(k) == Cardinality({m \in kept : m <= k})
             Place(j) == CHOOSE k \in kept : Rank(k) = j
         IN  /\ Cardinality(kept) \in Nat
             /\ \A k \in kept : Rank(k) \in 1..Cardinality(kept) /\ Place(Rank(k)) = k
             /\ \A j \in 1..Cardinality(kept) : Place(j) \in kept /\ Rank(Place(j)) = j
             /\ \A j, k \in 1..Cardinality(kept) : j < k => Place(j) < Place(k)
<1> DEFINE Upto(k) == {m \in kept : m <= k}
           Rank(k) == Cardinality(Upto(k))
           Place(j) == CHOOSE k \in kept : Rank(k) = j
           C == Cardinality(kept)
           rank == [k \in kept |-> Rank(k)]
<1>1. IsFiniteSet(kept) /\ C \in Nat
  <2>1. IsFiniteSet(1..n)
    BY FS_Interval
  <2>2. IsFiniteSet(kept)
    BY <2>1, FS_Subset
  <2> QED
    BY <2>2, FS_CardinalityType
<1>2. ASSUME NEW k \in kept PROVE IsFiniteSet(Upto(k)) /\ Rank(k) \in 1..C
  <2>1. Upto(k) \subseteq kept /\ k \in Upto(k) /\ Upto(k) # {}
    OBVIOUS
  <2>2. IsFiniteSet(Upto(k)) /\ Cardinality(Upto(k)) <= C
    BY <1>1, <2>1, FS_Subset
  <2>3. Rank(k) \in Nat /\ Rank(k) # 0
    BY <2>1, <2>2, FS_CardinalityType, FS_EmptySet
  <2> QED
    BY <1>1, <2>2, <2>3
<1>3. ASSUME NEW k \in kept, NEW l \in kept, k < l PROVE Rank(k) < Rank(l)
  <2>0. kept \subseteq Int
    OBVIOUS
  <2>1. Upto(k) \subseteq Upto(l) /\ l \in Upto(l) /\ l \notin Upto(k)
    <3>1. k \in Int /\ l \in Int /\ k < l
      BY <1>3, <2>0
    <3>2. \A m \in kept : m <= k => m <= l
      BY <2>0, <3>1
    <3>3. l \in Upto(l)
      BY <3>1
    <3>4. l \notin Upto(k)
      BY <3>1
    <3>5. Upto(k) \subseteq Upto(l)
      BY <3>2
    <3> QED
      BY <3>3, <3>4, <3>5
  <2>2. Rank(k) <= Rank(l) /\ Rank(k) # Rank(l)
    BY <1>2, <2>1, FS_Subset
  <2> QED
    BY <1>2, <2>2
<1>4. ASSUME NEW k \in kept, NEW l \in kept, Rank(k) = Rank(l) PROVE k = l
  <2>1. k \in Int /\ l \in Int /\ Rank(k) \in Int
    BY <1>2
  <2> QED
    BY <1>3, <1>4, <2>1
<1>5. \A j \in 1..C : \E k \in kept : Rank(k) = j
  <2>1. rank \in Injection(kept, 1..C)
    BY <1>2, <1>4 DEF Injection, IsInjective
  <2>2. IsFiniteSet(1..C) /\ Cardinality(1..C) = C
    BY <1>1, FS_Interval
  <2>3. rank \in Surjection(kept, 1..C)
    BY <2>1, <2>2, FS_Injection
  <2> QED
    BY <2>3 DEF Surjection
<1>6. \A j \in 1..C : Place(j) \in kept /\ Rank(Place(j)) = j
  BY <1>5
<1>7. \A k \in kept : Place(Rank(k)) = k
  BY <1>2, <1>4, <1>6
<1>8. ASSUME NEW j \in 1..C, NEW k \in 1..C, j < k PROVE Place(j) < Place(k)
  <2> DEFINE a == Place(j)
             b == Place(k)
  <2>1. a \in kept /\ b \in kept /\ Rank(a) = j /\ Rank(b) = k
    BY <1>6
  <2> HIDE DEF a, b, Rank, Place
  <2>2. a \in Int /\ b \in Int /\ j \in Int /\ k \in Int
    BY <1>1, <2>1
  <2>3. a # b
    BY <1>8, <2>1, <2>2
  <2>4. ~ (b < a)
    BY <1>3, <1>8, <2>1, <2>2
  <2>5. a < b
    BY <2>2, <2>3, <2>4
  <2> QED
    BY <2>5 DEF a, b
<1> QED
  BY <1>1, <1>2, <1>6, <1>7, <1>8

\* What is recorded of q: the places of q that are not blocked, each once.
LEMMA RecordableIs ==
  ASSUME NEW q \in Seq(Items)
  PROVE  /\ Recordable(q) \in Seq(Items)
         /\ \E place \in [1..Len(Recordable(q)) -> 1..Len(q)] :
               /\ \A j \in 1..Len(Recordable(q)) :
                     Recordable(q)[j] = q[place[j]] /\ q[place[j]] \notin BlockedInputs
               /\ \A j, k \in 1..Len(Recordable(q)) : place[j] = place[k] => j = k
               /\ \A k \in 1..Len(q) : q[k] \notin BlockedInputs =>
                     \E j \in 1..Len(Recordable(q)) : place[j] = k
<1> DEFINE kept == {k \in 1..Len(q) : q[k] \notin BlockedInputs}
           Rank(k) == Cardinality({m \in kept : m <= k})
           Place(j) == CHOOSE k \in kept : Rank(k) = j
           C == Cardinality(kept)
           place == [j \in 1..C |-> Place(j)]
<1>1. Recordable(q) = [j \in 1..C |-> q[Place(j)]]
  BY DEF Recordable
<1>2. /\ C \in Nat
      /\ \A k \in kept : Rank(k) \in 1..C /\ Place(Rank(k)) = k
      /\ \A j \in 1..C : Place(j) \in kept /\ Rank(Place(j)) = j
  <2>1. Len(q) \in Nat /\ kept \in SUBSET (1..Len(q))
    OBVIOUS
  <2> HIDE DEF kept
  <2> QED
    BY <2>1, RanksCount
<1>3. kept \subseteq 1..Len(q)
  OBVIOUS
<1>4. \A k \in kept : q[k] \in Items /\ q[k] \notin BlockedInputs
  OBVIOUS
<1>5. \A k \in 1..Len(q) : q[k] \notin BlockedInputs => k \in kept
  OBVIOUS
<1> HIDE DEF kept, Rank, Place, C
<1>6. Recordable(q) \in Seq(Items) /\ Len(Recordable(q)) = C
  BY <1>1, <1>2, <1>4
<1>7. place \in [1..C -> 1..Len(q)]
  BY <1>2, <1>3
<1>8. \A j \in 1..C : Recordable(q)[j] = q[place[j]] /\ q[place[j]] \notin BlockedInputs
  BY <1>1, <1>2, <1>4
<1>9. \A j, k \in 1..C : place[j] = place[k] => j = k
  BY <1>2
<1>10. \A k \in 1..Len(q) : q[k] \notin BlockedInputs => \E j \in 1..C : place[j] = k
  BY <1>2, <1>5
<1> HIDE DEF place
<1> QED
  BY <1>6, <1>7, <1>8, <1>9, <1>10

\* Recording a queue keeps the type of the history.
LEMMA HistoryType ==
  ASSUME TypeOK, NEW q \in Seq(Items)
  PROVE  history \o Recordable(q) \in Seq(Items)
  BY RecordableIs DEF TypeOK

(***************************************************************************)
(* Who has items in hand.                                                  *)
(***************************************************************************)

TurnLabels == Working \cup {"unborn", "dead", "report", "clear", "maybe", "reserve",
                            "gather", "hand", "drain", "adopt", "extend", "install"}
Aborting == {"abort", "kill", "tell", "wipe"}

\* p is going to install a turn: start_task, or an abort on the way to it.
Installs(l, r) == \/ l \in {"gather", "hand", "drain", "adopt", "extend", "install", "ifidle"}
                  \/ l \in Aborting /\ r.reason = "Replaced"

\* Where a process can have items in hand, and where it needs the turn state, the
\* victim and the turn it has captured.
HandsFit(l, r) ==
    /\ r.input # <<>> =>
          /\ \/ l \in {"drain", "adopt", "extend", "install", "ifidle", "begin", "prep"}
             \/ l \in Aborting /\ r.reason = "Replaced"
          /\ r.kind = "Regular"
    /\ r.mail # <<>> => l \in {"adopt", "extend", "hand", "record", "ifidle"}
    /\ l \in {"gather", "extend", "hand", "ifidle", "kill", "tell", "wipe", "report"}
          => r.ts # None
    /\ l = "kill" => r.victim # None
    /\ l \in {"off", "abortif"} => r.reason # "Replaced"
    /\ Installs(l, r) => r.turn # None

HandsOK == \A p \in Procs : HandsFit(pc[p], loc[p])

\* A task never aborts another, and returns to nobody.
TasksOK == \A t \in Turns : pc[t] \in TurnLabels /\ loc[t].then = "dead"

\* The turn that is going to be installed has no task yet, and nobody else
\* installs it; the task in the slot, and one that is being killed, are born.
IdsOK ==
    /\ \A t \in Turns : pc[t] # "unborn" => t \in spent
    /\ active.task # None => active.ts # None /\ pc[active.task] # "unborn"
    /\ \A p \in Procs :
          /\ pc[p] = "kill" => pc[loc[p].victim] # "unborn"
          /\ Installs(pc[p], loc[p]) => loc[p].turn \in spent /\ pc[loc[p].turn] = "unborn"
    /\ \A p, q \in Procs :
          /\ Installs(pc[p], loc[p]) /\ Installs(pc[q], loc[q]) /\ loc[p].turn = loc[q].turn
          => p = q

Custody == HandsOK /\ TasksOK /\ IdsOK

(***************************************************************************)
(* Type correctness.                                                       *)
(***************************************************************************)

\* A new session is well typed.
LEMMA InitType == Init => TypeOK
<1> SUFFICES ASSUME Init PROVE TypeOK
  OBVIOUS
<1>1. loc \in [Procs -> Locals]
  BY BlankType DEF Init
<1>2. pc \in [Procs -> Labels]
  BY DEF Init, Labels
<1>3. tstate \in [States -> TurnState]
  BY DEF Init, TurnState, FreshTurnState, Phases
<1> QED
  BY <1>1, <1>2, <1>3 DEF Init, TypeOK, Idle, Kinds

\* start_task keeps the types, whatever was in the slot.
LEMMA StartTaskType ==
  ASSUME TypeOK, NEW p \in Procs, StartTask(p)
  PROVE  TypeOK'
<1>1. CASE StartTaskDrain(p)
  <2>1. mailbox \in Seq(Items)
    BY MailIsItems DEF TypeOK
  <2>2. loc' \in [Procs -> Locals]
    BY <1>1, <2>1, LocTypes DEF StartTaskDrain
  <2>3. pc' \in [Procs -> Labels]
    BY <1>1, GotoType DEF StartTaskDrain, Labels
  <2> QED
    BY <1>1, <2>2, <2>3 DEF StartTaskDrain, TypeOK
<1>2. CASE StartTaskAdopt(p)
  <2>1. SlotState \in States
    BY <1>2, SlotStateType DEF StartTaskAdopt
  <2>2. loc' \in [Procs -> Locals]
    BY <1>2, <2>1, LocTypes DEF StartTaskAdopt
  <2>3. pc' \in [Procs -> Labels]
    BY <1>2, GotoType DEF StartTaskAdopt, Labels
  <2> QED
    BY <1>2, <2>1, <2>2, <2>3 DEF StartTaskAdopt, TypeOK
<1>3. CASE StartTaskExtend(p)
  <2>1. loc[p].mail \in Seq(Items)
    BY DEF TypeOK, Locals
  <2>2. tstate' \in [States -> TurnState]
    BY <1>3, <2>1, ExtendedType DEF StartTaskExtend
  <2>3. loc' \in [Procs -> Locals]
    BY <1>3, LocTypes, EmptyItems DEF StartTaskExtend
  <2>4. pc' \in [Procs -> Labels]
    BY <1>3, GotoType DEF StartTaskExtend, Labels
  <2> QED
    BY <1>3, <2>2, <2>3, <2>4 DEF StartTaskExtend, TypeOK
<1>4. CASE StartTaskInstall(p)
  <2>1. SlotState \in States
    BY <1>4, SlotStateType DEF StartTaskInstall
  <2>2. loc[p] \in Locals /\ loc[p].then \in {"idle", "dead", "exiting", "leaving"}
    BY DEF TypeOK, Locals
  <2>3. Blank(loc[p].then) \in Locals /\ Blank("dead") \in Locals
    BY <2>2, BlankType
  <2>4. [Blank("dead") EXCEPT !.kind = loc[p].kind, !.input = loc[p].input] \in Locals
    BY <2>2, <2>3 DEF Locals
  <2>5. loc' \in [Procs -> Locals]
    BY <1>4, <2>3, <2>4 DEF StartTaskInstall, TypeOK
  <2>6. pc' \in [Procs -> Labels]
    BY <1>4, <2>2 DEF StartTaskInstall, TypeOK, Labels
  <2>7. fate' \in [Items -> {"unsent", "rejected", "accepted", "dropped"}]
    BY <1>4, DropType DEF StartTaskInstall, TypeOK
  <2>8. active' \in [ts : States \cup {None}, task : Turns \cup {None}, kind : Kinds]
    BY <1>4, <2>1, <2>2 DEF StartTaskInstall, Locals
  <2> QED
    BY <1>4, <2>1, <2>5, <2>6, <2>7, <2>8 DEF StartTaskInstall, TypeOK
<1> QED
  BY <1>1, <1>2, <1>3, <1>4 DEF StartTask

\* get_pending_input keeps the types.
LEMMA TakePendingType ==
  ASSUME TypeOK, NEW p \in Procs, NEW next \in Labels, TakePending(p, next)
  PROVE  TypeOK'
<1>1. mailbox \in Seq(Items)
  BY MailIsItems DEF TypeOK
<1>2. ActiveItems \in Seq(Items)
  BY EmptyItems DEF TypeOK, ActiveItems, TurnState
<1>3. pc' \in [Procs -> Labels]
  BY GotoType DEF TakePending
<1>4. CASE Accepts
  <2>1. ActiveItems \o mailbox \in Seq(Items)
    BY <1>1, <1>2
  <2>2. loc' \in [Procs -> Locals]
    <3>1. loc' = [loc EXCEPT ![p].mail = ActiveItems \o mailbox]
      BY <1>4 DEF TakePending
    <3> QED
      BY <2>1, <3>1, LocTypes
  <2>3. tstate' \in [States -> TurnState]
    <3>1. tstate' \in {tstate, [tstate EXCEPT ![active.ts].items = <<>>]}
      BY <1>4 DEF TakePending
    <3>2. tstate \in [States -> TurnState]
      BY DEF TypeOK
    <3> QED
      BY <3>1, <3>2, EmptiedType
  <2> QED
    BY <1>3, <1>4, <2>2, <2>3 DEF TakePending, TypeOK
<1>5. CASE ~Accepts
  BY <1>3, <1>5 DEF TakePending, TypeOK
<1> QED
  BY <1>4, <1>5

\* The wake-up for pending work keeps the types.
LEMMA MaybeStartTurnType ==
  ASSUME TypeOK, NEW p \in Procs, MaybeStartTurn(p)
  PROVE  TypeOK'
<1>1. CASE CheckPendingWork(p)
  <2>1. pc' \in [Procs -> Labels] /\ loc' \in [Procs -> Locals]
    <3>1. CASE HasPendingWork
      BY <1>1, <3>1, GotoType DEF CheckPendingWork, TypeOK, Labels
    <3>2. CASE ~HasPendingWork
      BY <1>1, <3>2, ReturnType DEF CheckPendingWork
    <3> QED
      BY <3>1, <3>2
  <2> QED
    BY <1>1, <2>1 DEF CheckPendingWork, TypeOK
<1>2. CASE ReserveForWork(p)
  <2>1. NewState \in States /\ NewTurn \in Turns
    BY <1>2 DEF ReserveForWork, NewState, NewTurn, FreeStates, FreeTurns
  <2>2. loc[p].then \in {"idle", "dead", "exiting", "leaving"}
    BY DEF TypeOK, Locals
  <2>3. [Blank(loc[p].then) EXCEPT !.ts = NewState, !.turn = NewTurn] \in Locals
    <3>1. Blank(loc[p].then) \in Locals
      BY <2>2, BlankType
    <3> QED
      BY <2>1, <3>1 DEF Locals
  <2>4. loc' \in [Procs -> Locals]
    BY <1>2, <2>3, LocTypes DEF ReserveForWork
  <2>5. pc' \in [Procs -> Labels]
    BY <1>2, GotoType DEF ReserveForWork, Labels
  <2> QED
    BY <1>2, <2>1, <2>4, <2>5 DEF ReserveForWork, TypeOK, Reserved, Kinds
<1>3. CASE ReserveRefused(p)
  BY <1>3, ReturnType DEF ReserveRefused, TypeOK
<1>4. CASE GatherPending(p)
  BY <1>4, TakePendingType DEF GatherPending, Labels
<1>5. CASE HandOver(p)
  <2>1. loc[p].mail \in Seq(Items)
    BY DEF TypeOK, Locals
  <2>2. tstate' \in [States -> TurnState]
    BY <1>5, <2>1, ExtendedType DEF HandOver
  <2>3. loc' \in [Procs -> Locals]
    BY <1>5, LocTypes, EmptyItems DEF HandOver
  <2>4. pc' \in [Procs -> Labels]
    BY <1>5, GotoType DEF HandOver, Labels
  <2> QED
    BY <1>5, <2>2, <2>3, <2>4 DEF HandOver, TypeOK
<1> QED
  BY <1>1, <1>2, <1>3, <1>4, <1>5 DEF MaybeStartTurn

\* Taking a task out of the slot keeps the types: there is one.
LEMMA TakeTaskType ==
  ASSUME TypeOK, NEW p \in Procs, NEW reason \in Reasons, TakeTask(p, reason),
         active.task \in Turns
  PROVE  TypeOK'
<1>1. loc' \in [Procs -> Locals]
  <2>1. [[loc[p] EXCEPT !.victim = active.task] EXCEPT !.ts = active.ts] \in Locals
    BY FieldTypes DEF TypeOK
  <2> QED
    BY <2>1 DEF TakeTask, TypeOK
<1>2. pc' \in [Procs -> Labels]
  BY GotoType DEF TakeTask, Labels
<1> QED
  BY <1>1, <1>2 DEF TakeTask, TypeOK, Idle, Kinds

\* The three ways to abort a task keep the types.
LEMMA AbortTaskType ==
  ASSUME TypeOK, NEW p \in Procs, AbortTask(p)
  PROVE  TypeOK'
<1>0. loc[p] \in Locals /\ loc[p].reason \in Reasons
  BY DEF TypeOK, Locals
<1>1. CASE AbortAllTasks(p)
  <2>1. active.task \in Turns
    BY <1>1 DEF AbortAllTasks, TypeOK
  <2> QED
    BY <1>0, <1>1, <2>1, TakeTaskType DEF AbortAllTasks
<1>2. CASE AbortNothing(p)
  <2>1. pc' \in [Procs -> Labels] /\ loc' \in [Procs -> Locals]
    <3>1. CASE loc[p].reason = "Replaced"
      BY <1>2, <3>1, GotoType DEF AbortNothing, TypeOK, Labels
    <3>2. CASE loc[p].reason # "Replaced"
      BY <1>2, <3>2, ReturnType DEF AbortNothing
    <3> QED
      BY <3>1, <3>2
  <2> QED
    BY <1>2, <2>1 DEF AbortNothing, TypeOK, Idle, Kinds
<1>3. CASE AbortTurnIfActive(p)
  <2>1. CASE IsActive(loc[p].victim)
    <3>1. active.task \in Turns
      BY <2>1 DEF IsActive, TypeOK
    <3> QED
      BY <1>3, <2>1, <3>1, TakeTaskType DEF AbortTurnIfActive, Reasons
  <2>2. CASE ~IsActive(loc[p].victim)
    BY <1>3, <2>2, ReturnType DEF AbortTurnIfActive, TypeOK
  <2> QED
    BY <2>1, <2>2
<1>4. CASE KillTask(p)
  <2>1. loc' \in [Procs -> Locals]
    BY <1>4, BlankType, LocTypes DEF KillTask
  <2>2. pc' \in [Procs -> Labels]
    BY <1>4 DEF KillTask, TypeOK, Labels
  <2>3. fate' \in [Items -> {"unsent", "rejected", "accepted", "dropped"}]
    BY <1>4, DropType DEF KillTask
  <2> QED
    BY <1>4, <2>1, <2>2, <2>3 DEF KillTask, TypeOK
<1>5. CASE ReportAborted(p)
  <2>1. terminal' \in [Turns -> Seq({"complete", "aborted"})]
    BY <1>5, TerminalType DEF ReportAborted
  <2>2. pc' \in [Procs -> Labels]
    BY <1>5, GotoType DEF ReportAborted, Labels
  <2> QED
    BY <1>5, <2>1, <2>2 DEF ReportAborted, TypeOK
<1>6. CASE WipePending(p)
  <2>1. tstate' \in [States -> TurnState]
    BY <1>6, EmptiedType DEF WipePending
  <2>2. fate' \in [Items -> {"unsent", "rejected", "accepted", "dropped"}]
    BY <1>6, DropType DEF WipePending
  <2>3. pc' \in [Procs -> Labels]
    <3>1. AfterAbort(loc[p].reason) \in Labels
      BY <1>0 DEF AfterAbort, Reasons, Labels
    <3> QED
      BY <1>6, <3>1, GotoType DEF WipePending
  <2>4. loc' \in [Procs -> Locals]
    <3> DEFINE r == IF loc[p].reason = "Suspended" THEN "Interrupted" ELSE loc[p].reason
    <3>1. [[[loc[p] EXCEPT !.victim = None] EXCEPT !.ts = None] EXCEPT !.reason = r]
            \in Locals
      <4>1. r \in Reasons
        BY <1>0 DEF Reasons
      <4> QED
        BY <1>0, <4>1, FieldTypes
    <3> QED
      BY <1>6, <3>1 DEF WipePending, TypeOK
  <2> QED
    BY <1>6, <2>1, <2>2, <2>3, <2>4 DEF WipePending, TypeOK
<1> QED
  BY <1>1, <1>2, <1>3, <1>4, <1>5, <1>6 DEF AbortTask

\* Steering keeps the types.
LEMMA SteerType ==
  ASSUME TypeOK, NEW u \in UserInputs, SteerInput(u) \/ SteerRefused(u)
  PROVE  TypeOK'
<1>1. <<u>> \in Seq(Items)
  BY DEF Items
<1>2. fate' \in [Items -> {"unsent", "rejected", "accepted", "dropped"}]
  BY DEF SteerInput, SteerRefused, Sent, Rejected, TypeOK
<1>3. CASE SteerInput(u)
  <2>1. tstate' \in [States -> TurnState]
    BY <1>1, <1>3, ExtendedAndOpenType DEF SteerInput
  <2> QED
    BY <1>2, <1>3, <2>1 DEF SteerInput, TypeOK
<1>4. CASE SteerRefused(u)
  BY <1>2, <1>4 DEF SteerRefused, TypeOK
<1> QED
  BY <1>3, <1>4

\* spawn_task keeps the types.
LEMMA SpawnTaskType ==
  ASSUME TypeOK, NEW p \in Procs, NEW kind \in Kinds, NEW input \in Seq(Items),
         SpawnTask(p, kind, input),
         fate' \in [Items -> {"unsent", "rejected", "accepted", "dropped"}]
  PROVE  TypeOK'
<1>1. NewTurn \in Turns
  BY DEF SpawnTask, NewTurn, FreeTurns
<1>2. loc' \in [Procs -> Locals]
  <2>1. loc[p] \in Locals
    BY DEF TypeOK
  <2>2. [loc[p] EXCEPT !.turn = NewTurn, !.kind = kind, !.input = input,
                       !.reason = "Replaced"] \in Locals
    BY <1>1, <2>1 DEF Locals, Reasons
  <2> QED
    BY <2>2, LocTypes DEF SpawnTask
<1>3. pc' \in [Procs -> Labels]
  BY GotoType DEF SpawnTask, Labels
<1> QED
  BY <1>1, <1>2, <1>3 DEF SpawnTask, TypeOK

\* StartOrSteer keeps the types.
LEMMA ClientOpType ==
  ASSUME TypeOK, NEW p \in Procs, ClientOp(p)
  PROVE  TypeOK'
<1>1. PICK u \in UserInputs : StartOrSteer(p, u)
  BY DEF ClientOp
<1>2. <<u>> \in Seq(Items)
  BY DEF Items
<1>3. CASE SpawnTask(p, "Regular", <<u>>) /\ fate' = Sent(u)
  <2>1. fate' \in [Items -> {"unsent", "rejected", "accepted", "dropped"}]
    BY <1>3 DEF Sent, TypeOK
  <2> QED
    BY <1>2, <1>3, <2>1, SpawnTaskType DEF Kinds
<1> QED
  BY <1>1, <1>3, SteerType DEF StartOrSteer

\* Reserving the slot for an idle start keeps the types.
LEMMA StartIfIdleType ==
  ASSUME TypeOK, NEW p \in Procs, NEW op, NEW input \in Seq(Items),
         NEW extra \in Seq(Items), StartIfIdle(p, op, input, extra)
  PROVE  TypeOK'
<1>1. CASE HasTrigger(mailbox) \/ active.ts # None
  <2>1. fate' \in [Items -> {"unsent", "rejected", "accepted", "dropped"}]
    BY <1>1 DEF StartIfIdle, TypeOK
  <2> QED
    BY <1>1, <2>1 DEF StartIfIdle, TypeOK
<1>2. CASE ~(HasTrigger(mailbox) \/ active.ts # None)
  <2>1. fate' \in [Items -> {"unsent", "rejected", "accepted", "dropped"}]
    BY <1>2 DEF StartIfIdle, TypeOK
  <2>2. NewState \in States /\ NewTurn \in Turns
    BY <1>2 DEF StartIfIdle, NewState, NewTurn, FreeStates, FreeTurns
  <2>3. loc' \in [Procs -> Locals]
    <3>1. loc[p] \in Locals
      BY DEF TypeOK
    <3>2. [loc[p] EXCEPT !.ts = NewState, !.turn = NewTurn, !.kind = "Regular",
                         !.input = input, !.mail = extra] \in Locals
      BY <2>2, <3>1 DEF Locals, Kinds
    <3>3. loc' = [loc EXCEPT ![p] = [@ EXCEPT !.ts = NewState, !.turn = NewTurn,
                      !.kind = "Regular", !.input = input, !.mail = extra]]
      BY <1>2 DEF StartIfIdle
    <3> QED
      BY <3>2, <3>3, LocTypes
  <2>4. pc' \in [Procs -> Labels]
    BY <1>2, GotoType DEF StartIfIdle, Labels
  <2>5. active' \in [ts : States \cup {None}, task : Turns \cup {None}, kind : Kinds]
    BY <1>2, <2>2 DEF StartIfIdle, Reserved, Kinds
  <2>6. spent' \subseteq Turns \cup States
    BY <1>2, <2>2 DEF StartIfIdle, TypeOK
  <2> QED
    BY <2>1, <2>3, <2>4, <2>5, <2>6 DEF StartIfIdle, TypeOK
<1> QED
  BY <1>1, <1>2

\* Giving the reservation back keeps the types.
LEMMA GiveUpType ==
  ASSUME TypeOK, NEW p \in Procs, NEW next \in Labels, GiveUpIdleStart(p, next)
  PROVE  TypeOK'
<1>1. active' \in [ts : States \cup {None}, task : Turns \cup {None}, kind : Kinds]
  BY DEF GiveUpIdleStart, ClearReserved, Idle, Kinds, TypeOK
<1>2. fate' \in [Items -> {"unsent", "rejected", "accepted", "dropped"}]
  BY DEF GiveUpIdleStart, TypeOK
<1>3. loc' \in [Procs -> Locals]
  <2>1. loc[p].then \in {"idle", "dead", "exiting", "leaving"}
    BY DEF TypeOK, Locals
  <2>2. Blank(loc[p].then) \in Locals
    BY <2>1, BlankType
  <2> QED
    BY <2>2, LocTypes DEF GiveUpIdleStart
<1>4. pc' \in [Procs -> Labels]
  BY GotoType DEF GiveUpIdleStart
<1> QED
  BY <1>1, <1>2, <1>3, <1>4 DEF GiveUpIdleStart, TypeOK

\* The rest of start_if_idle keeps the types.
LEMMA SettleType ==
  ASSUME TypeOK, NEW p \in Procs, SettleIdleStart(p)
  PROVE  TypeOK'
<1>1. loc[p].then \in Labels /\ loc[p].mail \in Seq(Items)
  BY DEF TypeOK, Locals, Labels
<1>2. CASE GiveUpIdleStart(p, "maybe")
  BY <1>2, GiveUpType DEF Labels
<1>3. CASE GiveUpIdleStart(p, loc[p].then)
  BY <1>1, <1>3, GiveUpType
<1>4. CASE /\ tstate' = Extended(loc[p].ts, loc[p].mail)
           /\ loc' = [loc EXCEPT ![p].mail = <<>>]
           /\ Goto(p, "drain")
           /\ UNCHANGED <<active, spent, mailbox, history, status,
                          cancelled, terminal, fate, posted, suspended>>
  <2>1. tstate' \in [States -> TurnState]
    BY <1>1, <1>4, ExtendedType
  <2>2. loc' \in [Procs -> Locals]
    BY <1>4, LocTypes, EmptyItems
  <2>3. pc' \in [Procs -> Labels]
    BY <1>4, GotoType DEF Labels
  <2> QED
    BY <1>4, <2>1, <2>2, <2>3 DEF TypeOK
<1> QED
  BY <1>2, <1>3, <1>4 DEF SettleIdleStart

\* Every operation of the submission loop keeps the types.
LEMMA LoopOpType ==
  ASSUME TypeOK, NEW p \in Procs, LoopOp(p)
  PROVE  TypeOK'
<1>1. ASSUME NEW u \in UserInputs, Steer(p, u) PROVE TypeOK'
  BY <1>1, SteerType DEF Steer
<1>2. ASSUME NEW u \in UserInputs, StartIfIdle(p, "StartIfIdle", <<u>>, <<>>)
      PROVE  TypeOK'
  <2>1. <<u>> \in Seq(Items)
    BY DEF Items
  <2> QED
    BY <1>2, <2>1, EmptyItems, StartIfIdleType
<1>3. ASSUME NEW x \in Notices, StartIfIdle(p, "StartIfIdle", <<>>, <<x>>)
      PROVE  TypeOK'
  <2>1. <<x>> \in Seq(Items)
    BY DEF Items
  <2> QED
    BY <1>3, <2>1, EmptyItems, StartIfIdleType
<1>4. CASE StartIfIdle(p, "Recover", <<>>, <<>>)
  BY <1>4, EmptyItems, StartIfIdleType
<1>5. CASE CompactOp(p)
  <2>1. fate' \in [Items -> {"unsent", "rejected", "accepted", "dropped"}]
    BY <1>5 DEF CompactOp, TypeOK
  <2> QED
    BY <1>5, <2>1, EmptyItems, SpawnTaskType DEF CompactOp, Kinds
<1>6. CASE Interrupt(p)
  <2>1. loc' \in [Procs -> Locals]
    BY <1>6, LocTypes DEF Interrupt, Reasons
  <2>2. pc' \in [Procs -> Labels]
    BY <1>6, GotoType DEF Interrupt, Labels
  <2> QED
    BY <1>6, <2>1, <2>2 DEF Interrupt, TypeOK
<1>7. ASSUME NEW m \in Mails, Communicate(p, m) PROVE TypeOK'
  <2>1. pc' \in [Procs -> Labels]
    BY <1>7, GotoType DEF Communicate, Labels
  <2>2. fate' \in [Items -> {"unsent", "rejected", "accepted", "dropped"}]
    BY <1>7 DEF Communicate, Sent, TypeOK
  <2>3. mailbox' \in Seq(Mails) /\ posted' \in Seq(Mails)
    BY <1>7 DEF Communicate, TypeOK
  <2> QED
    BY <1>7, <2>1, <2>2, <2>3 DEF Communicate, TypeOK
<1>8. CASE Shutdown(p)
  <2>1. loc' \in [Procs -> Locals]
    <3>1. [[loc[p] EXCEPT !.reason = "Interrupted"] EXCEPT !.then = "exiting"] \in Locals
      BY FieldTypes DEF TypeOK, Reasons
    <3> QED
      BY <1>8, <3>1 DEF Shutdown, TypeOK
  <2>2. pc' \in [Procs -> Labels]
    BY <1>8, GotoType DEF Shutdown, Labels
  <2> QED
    BY <1>8, <2>1, <2>2 DEF Shutdown, TypeOK
<1>9. CASE Suspend(p)
  <2>1. active.task \in Turns
    BY <1>9 DEF Suspend, TypeOK
  <2>2. loc' \in [Procs -> Locals]
    <3>1. loc[p] \in Locals /\ active.ts \in States \cup {None}
      BY DEF TypeOK
    <3>2. [loc[p] EXCEPT !.victim = active.task, !.ts = active.ts,
                         !.reason = "Suspended", !.then = "leaving"] \in Locals
      BY <2>1, <3>1 DEF Locals, Reasons
    <3> QED
      BY <1>9, <3>2, LocTypes DEF Suspend
  <2>3. pc' \in [Procs -> Labels]
    BY <1>9, GotoType DEF Suspend, Labels
  <2> QED
    BY <1>9, <2>1, <2>2, <2>3 DEF Suspend, TypeOK, Idle, Kinds
<1>10. CASE ExitLoop(p)
  <2>1. pc' \in [Procs -> Labels]
    BY <1>10, GotoType DEF ExitLoop, Labels
  <2> QED
    BY <1>10, <2>1 DEF ExitLoop, TypeOK
<1>11. CASE FinishSuspend(p)
  <2>1. pc' \in [Procs -> Labels]
    BY <1>11, GotoType DEF FinishSuspend, Labels
  <2>2. loc' \in [Procs -> Locals]
    BY <1>11, BlankType, LocTypes DEF FinishSuspend, TypeOK
  <2> QED
    BY <1>11, <2>1, <2>2 DEF FinishSuspend, TypeOK
<1> QED
  BY <1>1, <1>2, <1>3, <1>4, <1>5, <1>6, <1>7, <1>8, <1>9, <1>10, <1>11, SettleType
  DEF LoopOp

\* Injecting an item keeps the types.
LEMMA InjectType ==
  ASSUME TypeOK, NEW x \in Notices, Inject(x)
  PROVE  TypeOK'
<1>1. <<x>> \in Seq(Items)
  BY DEF Items
<1>2. tstate' \in [States -> TurnState]
  <2>1. tstate' \in {tstate, ExtendedAndOpen(active.ts, <<x>>)}
    BY DEF Inject
  <2>2. ExtendedAndOpen(active.ts, <<x>>) \in [States -> TurnState]
    BY <1>1, ExtendedAndOpenType
  <2> QED
    BY <2>1, <2>2 DEF TypeOK
<1>3. fate' \in [Items -> {"unsent", "rejected", "accepted", "dropped"}]
  BY DEF Inject, Sent, Rejected, TypeOK
<1>4. history' \in Seq(Items)
  <2>1. history \in Seq(Items) /\ x \in Items
    BY DEF TypeOK, Items
  <2>2. history' \in {history, Append(history, x)}
    BY DEF Inject
  <2> QED
    BY <2>1, <2>2
<1> QED
  BY <1>2, <1>3, <1>4 DEF Inject, TypeOK

\* A step of a task that changes its place, its locals, the phase of its turn
\* state, the history, the fate of items and the status.
LEMMA TaskStepType ==
  ASSUME TypeOK,
         pc' \in [Procs -> Labels],
         loc' \in [Procs -> Locals],
         tstate' \in [States -> TurnState],
         history' \in Seq(Items),
         fate' \in [Items -> {"unsent", "rejected", "accepted", "dropped"}],
         status' \in {"Running", "Errored", status},
         UNCHANGED <<active, spent, mailbox, cancelled, terminal, posted, suspended>>
  PROVE  TypeOK'
  BY DEF TypeOK

\* Every step of a turn's task keeps the types.
LEMMA RunTaskType ==
  ASSUME TypeOK, NEW t \in Turns, RunTask(t)
  PROVE  TypeOK'
<1> DEFINE FateType == [Items -> {"unsent", "rejected", "accepted", "dropped"}]
<1>0. t \in Procs /\ loc[t] \in Locals
  BY DEF TypeOK, Procs
<1>a. [loc EXCEPT ![t].input = <<>>] \in [Procs -> Locals]
  BY LocTypes, EmptyItems
<1>b. ASSUME NEW res \in Results
      PROVE  [loc EXCEPT ![t].input = <<>>, ![t].result = res] \in [Procs -> Locals]
  <2>1. [[loc[t] EXCEPT !.input = <<>>] EXCEPT !.result = res] \in Locals
    BY <1>0, FieldTypes, EmptyItems
  <2> QED
    BY <2>1 DEF TypeOK
<1>c. ASSUME loc[t].samples < MaxSamples
      PROVE  loc[t].samples + 1 \in 0..MaxSamples
  BY <1>0, <1>c, ConstantsAssumption DEF Locals
<1>d. loc[t].input \in Seq(Items) /\ loc[t].mail \in Seq(Items)
  BY <1>0 DEF Locals
<1>1. CASE Begin(t)
  <2>1. pc' \in [Procs -> Labels]
    BY <1>0, <1>1, GotoType DEF Begin, Labels
  <2>2. loc' \in [Procs -> Locals]
    BY <1>1 DEF Begin, TypeOK
  <2>3. tstate' \in [States -> TurnState]
    BY <1>1 DEF Begin, TypeOK
  <2>4. fate' \in FateType
    BY <1>1 DEF Begin, TypeOK
  <2>5. history' \in Seq(Items)
    BY <1>1 DEF Begin, TypeOK
  <2> QED
    BY <1>1, <2>1, <2>2, <2>3, <2>4, <2>5, TaskStepType DEF Begin
<1>2. ASSUME NEW r \in Results, RunCompact(t, r) PROVE TypeOK'
  <2>1. pc' \in [Procs -> Labels]
    BY <1>0, <1>2, GotoType DEF RunCompact, Labels
  <2>2. loc' \in [Procs -> Locals]
    BY <1>2, LocTypes DEF RunCompact
  <2>3. tstate' \in [States -> TurnState]
    BY <1>2 DEF RunCompact, TypeOK
  <2>4. fate' \in FateType
    BY <1>2 DEF RunCompact, TypeOK
  <2>5. history' \in Seq(Items)
    BY <1>2 DEF RunCompact, TypeOK
  <2> QED
    BY <1>2, <2>1, <2>2, <2>3, <2>4, <2>5, TaskStepType DEF RunCompact
<1>3. CASE RecordInput(t)
  <2>1. pc' \in [Procs -> Labels]
    BY <1>0, <1>3, GotoType DEF RecordInput, Labels
  <2>2. loc' \in [Procs -> Locals]
    BY <1>3, <1>a DEF RecordInput
  <2>3. tstate' \in [States -> TurnState]
    BY <1>3 DEF RecordInput, TypeOK
  <2>4. fate' \in FateType
    BY <1>3, DropType DEF RecordInput, TypeOK
  <2>5. history' \in Seq(Items)
    BY <1>3, <1>d, HistoryType DEF RecordInput
  <2> QED
    BY <1>3, <2>1, <2>2, <2>3, <2>4, <2>5, TaskStepType DEF RecordInput
<1>4. CASE FailPrepare(t)
  <2>1. pc' \in [Procs -> Labels]
    BY <1>0, <1>4, GotoType DEF FailPrepare, Labels
  <2>2. loc' \in [Procs -> Locals]
    BY <1>4, <1>b DEF FailPrepare, Results
  <2>3. tstate' \in [States -> TurnState]
    BY <1>4 DEF FailPrepare, TypeOK
  <2>4. fate' \in FateType
    BY <1>4, DropType DEF FailPrepare, TypeOK
  <2>5. history' \in Seq(Items)
    BY <1>4 DEF FailPrepare, TypeOK
  <2> QED
    BY <1>4, <2>1, <2>2, <2>3, <2>4, <2>5, TaskStepType DEF FailPrepare
<1>5. CASE CancelPrepare(t)
  <2>1. pc' \in [Procs -> Labels]
    BY <1>0, <1>5, GotoType DEF CancelPrepare, Labels
  <2>2. loc' \in [Procs -> Locals]
    BY <1>5, <1>b DEF CancelPrepare, Results
  <2>3. tstate' \in [States -> TurnState]
    BY <1>5 DEF CancelPrepare, TypeOK
  <2>4. fate' \in FateType
    BY <1>5, DropType DEF CancelPrepare, TypeOK
  <2>5. history' \in Seq(Items)
    BY <1>5, <1>d, HistoryType DEF CancelPrepare
  <2> QED
    BY <1>5, <2>1, <2>2, <2>3, <2>4, <2>5, TaskStepType DEF CancelPrepare
<1>6. CASE SessionStartStops(t)
  <2>1. pc' \in [Procs -> Labels]
    BY <1>0, <1>6, GotoType DEF SessionStartStops, Labels
  <2>2. loc' \in [Procs -> Locals]
    <3>1. [[loc[t] EXCEPT !.input = <<>>] EXCEPT !.samples = loc[t].samples + 1]
            \in Locals
      BY <1>0, <1>6, <1>c, FieldTypes, EmptyItems DEF SessionStartStops
    <3> QED
      BY <1>6, <3>1 DEF SessionStartStops, TypeOK
  <2>3. tstate' \in [States -> TurnState]
    BY <1>6 DEF SessionStartStops, TypeOK
  <2>4. fate' \in FateType
    BY <1>6, DropType DEF SessionStartStops, TypeOK
  <2>5. history' \in Seq(Items)
    BY <1>6 DEF SessionStartStops, TypeOK
  <2> QED
    BY <1>6, <2>1, <2>2, <2>3, <2>4, <2>5, TaskStepType DEF SessionStartStops
<1>7. CASE DrainPending(t)
  BY <1>0, <1>7, TakePendingType DEF DrainPending, Labels
<1>8. CASE RecordPending(t)
  <2>1. pc' \in [Procs -> Labels]
    BY <1>0, <1>8, GotoType DEF RecordPending, Labels
  <2>2. loc' \in [Procs -> Locals]
    BY <1>8, LocTypes, EmptyItems DEF RecordPending
  <2>3. tstate' \in [States -> TurnState]
    BY <1>8 DEF RecordPending, TypeOK
  <2>4. fate' \in FateType
    BY <1>8, DropType DEF RecordPending, TypeOK
  <2>5. history' \in Seq(Items)
    BY <1>8, <1>d, HistoryType DEF RecordPending
  <2> QED
    BY <1>8, <2>1, <2>2, <2>3, <2>4, <2>5, TaskStepType DEF RecordPending
<1>9. CASE SampleAnswer(t)
  <2>1. pc' \in [Procs -> Labels]
    BY <1>0, <1>9, GotoType DEF SampleAnswer, Labels
  <2>2. loc' \in [Procs -> Locals]
    BY <1>9 DEF SampleAnswer, TypeOK
  <2>3. tstate' \in [States -> TurnState]
    BY <1>9, PhaseType DEF SampleAnswer, TypeOK
  <2>4. fate' \in FateType
    BY <1>9 DEF SampleAnswer, TypeOK
  <2>5. history' \in Seq(Items)
    BY <1>9 DEF SampleAnswer, TypeOK
  <2> QED
    BY <1>9, <2>1, <2>2, <2>3, <2>4, <2>5, TaskStepType DEF SampleAnswer
<1>10. CASE SampleToolCall(t)
  <2>1. pc' \in [Procs -> Labels]
    BY <1>0, <1>10, GotoType DEF SampleToolCall, Labels
  <2>2. loc' \in [Procs -> Locals]
    BY <1>10, <1>c, LocTypes DEF SampleToolCall
  <2>3. tstate' \in [States -> TurnState]
    BY <1>10, PhaseType DEF SampleToolCall, TypeOK
  <2>4. fate' \in FateType
    BY <1>10 DEF SampleToolCall, TypeOK
  <2>5. history' \in Seq(Items)
    BY <1>10 DEF SampleToolCall, TypeOK
  <2> QED
    BY <1>10, <2>1, <2>2, <2>3, <2>4, <2>5, TaskStepType DEF SampleToolCall
<1>11. ASSUME NEW r \in {"error", "aborted"}, SampleFails(t, r) PROVE TypeOK'
  <2>1. pc' \in [Procs -> Labels]
    BY <1>0, <1>11, GotoType DEF SampleFails, Labels
  <2>2. loc' \in [Procs -> Locals]
    BY <1>11, LocTypes DEF SampleFails, Results
  <2>3. tstate' \in [States -> TurnState]
    BY <1>11 DEF SampleFails, TypeOK
  <2>4. fate' \in FateType
    BY <1>11 DEF SampleFails, TypeOK
  <2>5. history' \in Seq(Items)
    BY <1>11 DEF SampleFails, TypeOK
  <2> QED
    BY <1>11, <2>1, <2>2, <2>3, <2>4, <2>5, TaskStepType DEF SampleFails
<1>12. ASSUME NEW r \in {"error", "aborted"}, RollOverFails(t, r) PROVE TypeOK'
  <2>1. pc' \in [Procs -> Labels]
    BY <1>0, <1>12, GotoType DEF RollOverFails, Labels
  <2>2. loc' \in [Procs -> Locals]
    BY <1>12, LocTypes DEF RollOverFails, Results
  <2>3. tstate' \in [States -> TurnState]
    BY <1>12 DEF RollOverFails, TypeOK
  <2>4. fate' \in FateType
    BY <1>12 DEF RollOverFails, TypeOK
  <2>5. history' \in Seq(Items)
    BY <1>12 DEF RollOverFails, TypeOK
  <2> QED
    BY <1>12, <2>1, <2>2, <2>3, <2>4, <2>5, TaskStepType DEF RollOverFails
<1>13. CASE FollowUp(t)
  <2>1. pc' \in [Procs -> Labels]
    BY <1>0, <1>13, GotoType DEF FollowUp, Labels
  <2>2. loc' \in [Procs -> Locals]
    BY <1>13 DEF FollowUp, TypeOK
  <2>3. tstate' \in [States -> TurnState]
    BY <1>13 DEF FollowUp, TypeOK
  <2>4. fate' \in FateType
    BY <1>13 DEF FollowUp, TypeOK
  <2>5. history' \in Seq(Items)
    BY <1>13 DEF FollowUp, TypeOK
  <2> QED
    BY <1>13, <2>1, <2>2, <2>3, <2>4, <2>5, TaskStepType DEF FollowUp
<1>14. CASE NoFollowUp(t)
  <2>1. pc' \in [Procs -> Labels]
    BY <1>0, <1>14, GotoType DEF NoFollowUp, Labels
  <2>2. loc' \in [Procs -> Locals]
    BY <1>14 DEF NoFollowUp, TypeOK
  <2>3. tstate' \in [States -> TurnState]
    BY <1>14 DEF NoFollowUp, TypeOK
  <2>4. fate' \in FateType
    BY <1>14 DEF NoFollowUp, TypeOK
  <2>5. history' \in Seq(Items)
    BY <1>14 DEF NoFollowUp, TypeOK
  <2> QED
    BY <1>14, <2>1, <2>2, <2>3, <2>4, <2>5, TaskStepType DEF NoFollowUp
<1>15. CASE StopHookBlocks(t)
  <2>1. pc' \in [Procs -> Labels]
    BY <1>0, <1>15, GotoType DEF StopHookBlocks, Labels
  <2>2. loc' \in [Procs -> Locals]
    BY <1>15, <1>c, LocTypes DEF StopHookBlocks
  <2>3. tstate' \in [States -> TurnState]
    BY <1>15, PhaseType DEF StopHookBlocks, TypeOK
  <2>4. fate' \in FateType
    BY <1>15 DEF StopHookBlocks, TypeOK
  <2>5. history' \in Seq(Items)
    BY <1>15 DEF StopHookBlocks, TypeOK
  <2> QED
    BY <1>15, <2>1, <2>2, <2>3, <2>4, <2>5, TaskStepType DEF StopHookBlocks
<1>16. CASE RunAgain(t)
  <2>1. pc' \in [Procs -> Labels]
    BY <1>0, <1>16, GotoType DEF RunAgain, Labels
  <2>2. loc' \in [Procs -> Locals]
    BY <1>16 DEF RunAgain, TypeOK
  <2>3. tstate' \in [States -> TurnState]
    BY <1>16 DEF RunAgain, TypeOK
  <2>4. fate' \in FateType
    BY <1>16 DEF RunAgain, TypeOK
  <2>5. history' \in Seq(Items)
    BY <1>16 DEF RunAgain, TypeOK
  <2> QED
    BY <1>16, <2>1, <2>2, <2>3, <2>4, <2>5, TaskStepType DEF RunAgain
<1> QED
  BY <1>1, <1>2, <1>3, <1>4, <1>5, <1>6, <1>7, <1>8, <1>9, <1>10, <1>11, <1>12, <1>13,
      <1>14, <1>15, <1>16
  DEF RunTask

\* on_task_finished keeps the types: it has the turn state of the slot.
LEMMA OnTaskFinishedType ==
  ASSUME TypeOK, Custody, NEW t \in Turns, OnTaskFinished(t)
  PROVE  TypeOK'
<1>0. t \in Procs /\ loc[t] \in Locals
  BY DEF TypeOK, Procs
<1>1. CASE CheckCancelled(t)
  <2>1. pc' \in [Procs -> Labels] /\ loc' \in [Procs -> Locals]
    <3>1. CASE t \in cancelled
      BY <1>0, <1>1, <3>1, ReturnType DEF CheckCancelled
    <3>2. CASE t \notin cancelled
      BY <1>1, <3>2, GotoType DEF CheckCancelled, TypeOK, Labels
    <3> QED
      BY <3>1, <3>2
  <2> QED
    BY <1>1, <2>1 DEF CheckCancelled, TypeOK
<1>2. CASE FinishTake(t)
  <2>1. CASE active.task = None
    BY <1>0, <1>2, <2>1, ReturnType DEF FinishTake, TypeOK
  <2>2. CASE active.task # None
    <3>1. active.ts \in States \cup {None}
      BY DEF TypeOK
    <3>2. loc' \in [Procs -> Locals]
      <4>1. loc' = [loc EXCEPT ![t].ts = active.ts]
        BY <1>2, <2>2 DEF FinishTake
      <4> QED
        BY <3>1, <4>1, LocTypes
    <3>3. pc' \in [Procs -> Labels]
      BY <1>2, <2>2, GotoType DEF FinishTake, Labels
    <3> QED
      BY <1>2, <2>2, <3>2, <3>3 DEF FinishTake, TypeOK
  <2> QED
    BY <2>1, <2>2
<1>3. CASE FinishReport(t)
  <2>1. tstate' \in [States -> TurnState]
    BY <1>3, EmptiedType DEF FinishReport
  <2>2. fate' \in [Items -> {"unsent", "rejected", "accepted", "dropped"}]
    BY <1>3, DropType DEF FinishReport
  <2>3. terminal' \in [Turns -> Seq({"complete", "aborted"})]
    BY <1>3, TerminalType DEF FinishReport
  <2>4. pc' \in [Procs -> Labels]
    BY <1>3, GotoType DEF FinishReport, Labels
  <2>5. history' \in Seq(Items)
    <3>1. HandsFit(pc[t], loc[t]) /\ pc[t] = "report"
      BY <1>0, <1>3 DEF Custody, HandsOK, FinishReport
    <3>2. loc[t].ts \in States
      BY <1>0, <3>1 DEF HandsFit, Locals
    <3>3. tstate[loc[t].ts].items \in Seq(Items)
      BY <3>2 DEF TypeOK, TurnState
    <3> QED
      BY <1>3, <3>3, HistoryType DEF FinishReport
  <2> QED
    BY <1>3, <2>1, <2>2, <2>3, <2>4, <2>5 DEF FinishReport, TypeOK
<1>4. CASE FinishClear(t)
  <2>1. pc' \in [Procs -> Labels] /\ loc' \in [Procs -> Locals]
    <3>1. CASE active.task = None /\ active.ts = loc[t].ts
      BY <1>4, <3>1, GotoType DEF FinishClear, TypeOK, Labels
    <3>2. CASE ~(active.task = None /\ active.ts = loc[t].ts)
      BY <1>0, <1>4, <3>2, ReturnType DEF FinishClear
    <3> QED
      BY <3>1, <3>2
  <2> QED
    BY <1>4, <2>1 DEF FinishClear, TypeOK, Idle, Kinds
<1> QED
  BY <1>1, <1>2, <1>3, <1>4 DEF OnTaskFinished

\* Spawning the guardian interruption keeps the types.
LEMMA GuardianType ==
  ASSUME TypeOK, NEW t \in Turns, GuardianDenial(t)
  PROVE  TypeOK'
<1>1. loc' \in [Procs -> Locals]
  BY LocTypes DEF GuardianDenial
<1>2. pc' \in [Procs -> Labels]
  BY GotoType DEF GuardianDenial, Labels
<1> QED
  BY <1>1, <1>2 DEF GuardianDenial, TypeOK

\* TypeOK is inductive, once a task that reports has a turn state to record.
LEMMA NextType == TypeOK /\ Custody /\ [Next]_vars => TypeOK'
<1> SUFFICES ASSUME TypeOK, Custody, [Next]_vars PROVE TypeOK'
  OBVIOUS
<1>1. ASSUME NEW p \in Procs, Steps(p) PROVE TypeOK'
  BY <1>1, StartTaskType, MaybeStartTurnType, AbortTaskType DEF Steps
<1>2. ASSUME NEW p \in Clients, ClientOp(p) PROVE TypeOK'
  BY <1>2, ClientOpType DEF Procs
<1>3. CASE LoopOp(Loop)
  BY <1>3, LoopOpType DEF Procs, Clients
<1>4. ASSUME NEW x \in Notices, Inject(x) PROVE TypeOK'
  BY <1>4, InjectType
<1>5. ASSUME NEW t \in Turns, RunTask(t) \/ OnTaskFinished(t) \/ GuardianDenial(t)
      PROVE  TypeOK'
  BY <1>5, RunTaskType, OnTaskFinishedType, GuardianType
<1>6. CASE UNCHANGED vars
  BY <1>6 DEF TypeOK, vars
<1> QED
  BY <1>1, <1>2, <1>3, <1>4, <1>5, <1>6 DEF Next

(***************************************************************************)
(* Custody is kept by a process that moves as the model does.              *)
(***************************************************************************)

\* What a process has to respect when it moves, alone or ending a task.
OthersWait(p) == \A q \in Procs \ {p} : pc'[q] = pc[q] /\ loc'[q] = loc[q]
Ends(t) == t \in Turns /\ pc[t] # "unborn" /\ pc'[t] = "dead" /\ loc'[t] = Blank("dead")
TurnIsKnown(p) ==
    \/ ~ Installs(pc'[p], loc'[p])
    \/ Installs(pc[p], loc[p]) /\ loc'[p].turn = loc[p].turn
    \/ FreeTurns # {} /\ loc'[p].turn = NewTurn /\ NewTurn \in spent'
MovesWell(p) ==
    /\ \A q \in Procs \ {p} : (pc'[q] = pc[q] /\ loc'[q] = loc[q]) \/ Ends(q)
    /\ HandsFit(pc'[p], loc'[p]) /\ TurnIsKnown(p)
    /\ p \in Turns => /\ pc[p] # "unborn" /\ pc'[p] \in TurnLabels \ {"unborn"}
                      /\ loc'[p].then = "dead"
    /\ spent \subseteq spent'
    /\ active'.task # None => active'.ts # None /\ active'.task = active.task
    /\ pc'[p] = "kill" => active.task # None /\ loc'[p].victim = active.task

\* A process that moves so keeps custody.
LEMMA MovesKeepCustody ==
  ASSUME TypeOK, TypeOK', Custody, NEW p \in Procs, MovesWell(p)
  PROVE  Custody'
<1>0. Turns \subseteq Procs
  BY DEF Procs
<1>1. \A q \in Procs \ {p} : (pc'[q] = pc[q] /\ loc'[q] = loc[q]) \/ Ends(q)
  BY DEF MovesWell
<1>b. /\ HandsFit("dead", Blank("dead")) /\ ~ Installs("dead", Blank("dead"))
      /\ Blank("dead").then = "dead"
  BY DEF HandsFit, Installs, Aborting, Blank
<1>2. HandsOK'
  <2> SUFFICES ASSUME NEW q \in Procs PROVE HandsFit(pc'[q], loc'[q])
    BY DEF HandsOK
  <2>1. CASE q = p
    BY <2>1 DEF MovesWell
  <2>2. CASE q # p
    BY <1>1, <1>b, <2>2 DEF Custody, HandsOK, Ends
  <2> QED
    BY <2>1, <2>2
<1>3. TasksOK'
  <2> SUFFICES ASSUME NEW t \in Turns PROVE pc'[t] \in TurnLabels /\ loc'[t].then = "dead"
    BY DEF TasksOK
  <2>1. CASE t = p
    BY <2>1 DEF MovesWell
  <2>2. CASE t # p
    BY <1>0, <1>1, <1>b, <2>2 DEF Custody, TasksOK, Ends, TurnLabels
  <2> QED
    BY <2>1, <2>2
<1>4. \A t \in Turns : /\ pc[t] # "unborn" => pc'[t] # "unborn"
                       /\ pc'[t] # "unborn" => pc[t] # "unborn"
  BY <1>0, <1>1 DEF MovesWell, Ends
<1>5. spent \subseteq spent'
  BY DEF MovesWell
<1>6. \A t \in Turns : pc'[t] # "unborn" => t \in spent'
  BY <1>4, <1>5 DEF Custody, IdsOK
<1>7. active'.task # None => active'.ts # None /\ pc'[active'.task] # "unborn"
  BY <1>4 DEF MovesWell, Custody, IdsOK, TypeOK
<1>8. ASSUME NEW q \in Procs, pc'[q] = "kill" PROVE pc'[loc'[q].victim] # "unborn"
  <2>0. active.task \in Turns \cup {None} /\ loc[q].victim \in Turns \cup {None}
    BY DEF TypeOK, Locals
  <2>1. CASE q = p
    BY <1>4, <1>8, <2>0, <2>1 DEF MovesWell, Custody, IdsOK
  <2>2. CASE q # p
    <3>0. pc[q] = "kill" /\ loc'[q] = loc[q]
      BY <1>1, <1>8, <2>2 DEF Ends
    <3>1. loc[q].victim # None /\ pc[loc[q].victim] # "unborn"
      BY <3>0 DEF Custody, HandsOK, HandsFit, IdsOK
    <3> QED
      BY <1>4, <2>0, <3>0, <3>1
  <2> QED
    BY <2>1, <2>2
<1>n. FreeTurns # {} => NewTurn \in Turns /\ NewTurn \notin spent /\ pc[NewTurn] = "unborn"
  <2>1. FreeTurns # {} => NewTurn \in Turns /\ NewTurn \notin spent
    BY DEF FreeTurns, NewTurn
  <2> QED
    BY <2>1 DEF Custody, IdsOK
<1>9. ASSUME NEW q \in Procs, Installs(pc'[q], loc'[q])
      PROVE  /\ loc'[q].turn \in spent' /\ pc'[loc'[q].turn] = "unborn"
             /\ \/ Installs(pc[q], loc[q]) /\ loc'[q].turn = loc[q].turn
                \/ q = p /\ loc'[q].turn \notin spent
  <2>0. loc[q].turn \in Turns \cup {None}
    BY DEF TypeOK, Locals
  <2>1. CASE Installs(pc[q], loc[q]) /\ loc'[q].turn = loc[q].turn
    <3>1. loc[q].turn \in spent /\ pc[loc[q].turn] = "unborn" /\ loc[q].turn # None
      BY <2>1 DEF Custody, IdsOK, HandsOK, HandsFit
    <3> QED
      BY <1>4, <1>5, <2>0, <2>1, <3>1
  <2>2. CASE q = p /\ FreeTurns # {} /\ loc'[p].turn = NewTurn /\ NewTurn \in spent'
    BY <1>4, <1>n, <2>2
  <2>3. CASE q # p
    BY <1>1, <1>9, <1>b, <2>1, <2>3 DEF Ends
  <2> QED
    BY <1>9, <2>1, <2>2, <2>3 DEF MovesWell, TurnIsKnown
<1>10. ASSUME NEW q \in Procs, NEW r \in Procs, Installs(pc'[q], loc'[q]),
              Installs(pc'[r], loc'[r]), loc'[q].turn = loc'[r].turn
       PROVE  q = r
  <2>1. ASSUME NEW s \in Procs, Installs(pc[s], loc[s]) PROVE loc[s].turn \in spent
    BY <2>1 DEF Custody, IdsOK
  <2>2. CASE Installs(pc[q], loc[q]) /\ loc'[q].turn = loc[q].turn
    <3>1. Installs(pc[r], loc[r]) /\ loc'[r].turn = loc[r].turn
      BY <1>9, <1>10, <2>1, <2>2
    <3> QED
      BY <1>10, <2>2, <3>1 DEF Custody, IdsOK
  <2>3. CASE q = p /\ loc'[q].turn \notin spent
    BY <1>9, <1>10, <2>1, <2>3
  <2> QED
    BY <1>9, <1>10, <2>2, <2>3
<1>11. IdsOK'
  BY <1>6, <1>7, <1>8, <1>9, <1>10 DEF IdsOK
<1> QED
  BY <1>2, <1>3, <1>11 DEF Custody

\* A new session has nothing in hand.
LEMMA InitCustody == Init => Custody
<1> SUFFICES ASSUME Init PROVE Custody
  OBVIOUS
<1>1. ASSUME NEW p \in Procs PROVE /\ pc[p] \in {"idle", "off", "unborn"}
                                   /\ loc[p] \in {Blank("idle"), Blank("dead")}
  BY DEF Init
<1>2. ASSUME NEW p \in Procs PROVE HandsFit(pc[p], loc[p]) /\ ~ Installs(pc[p], loc[p])
  <2>1. /\ loc[p].input = <<>> /\ loc[p].mail = <<>> /\ loc[p].reason = "Interrupted"
    BY <1>1 DEF Blank
  <2> QED
    BY <1>1, <2>1 DEF HandsFit, Installs, Aborting
<1>3. ASSUME NEW t \in Turns PROVE pc[t] = "unborn" /\ loc[t] = Blank("dead")
  BY ConstantsAssumption DEF Init, Procs, Clients
<1>4. HandsOK
  BY <1>2 DEF HandsOK
<1>5. TasksOK
  BY <1>3 DEF TasksOK, TurnLabels, Blank
<1>6. IdsOK
  <2>1. active.task = None
    BY DEF Init, Idle
  <2>2. \A p \in Procs : pc[p] # "kill"
    BY <1>1
  <2> QED
    BY <1>2, <1>3, <2>1, <2>2 DEF IdsOK
<1> QED
  BY <1>4, <1>5, <1>6 DEF Custody

(***************************************************************************)
(* Queues that hold every accepted item once, and the four ways in which   *)
(* queues change: passed on, recorded, thrown away, added to.              *)
(***************************************************************************)

Fates == {"unsent", "rejected", "accepted", "dropped"}

\* The queues h hold the accepted items, each once, and nothing else.
EachOnce(h, f) ==
    /\ \A c \in Queues : \A k \in 1..Len(h[c]) : f[h[c][k]] = "accepted"
    /\ \A c, d \in Queues : \A k \in 1..Len(h[c]), m \in 1..Len(h[d]) :
           h[c][k] = h[d][m] => c = d /\ k = m
    /\ \A i \in Items : f[i] = "accepted" => \E c \in Queues : \E k \in 1..Len(h[c]) : h[c][k] = i

\* The queue a is emptied and r put at the end of b; place says where in a the
\* items of r were.
Passed(h, g, a, b, r, place) ==
    /\ g[a] = <<>> /\ g[b] = h[b] \o r
    /\ \A c \in Queues \ {a, b} : g[c] = h[c]
    /\ \A j \in 1..Len(r) : r[j] = h[a][place[j]]
    /\ \A j, k \in 1..Len(r) : place[j] = place[k] => j = k

\* Only items of the queue a change their fate, and those that r leaves out do.
LeavesOut(h, f, f2, a, r, place) ==
    /\ \A j \in 1..Len(r) : f2[r[j]] = "accepted"
    /\ \A k \in 1..Len(h[a]) :
           (\E j \in 1..Len(r) : place[j] = k) \/ f2[h[a][k]] # "accepted"
    /\ \A i \in Items : \/ f2[i] = f[i]
                        \/ (\E k \in 1..Len(h[a]) : h[a][k] = i) /\ f2[i] # "accepted"

\* Items passed on from queue to queue stay where each is once.
LEMMA PassedOn ==
  ASSUME NEW h \in [Queues -> Seq(Items)], NEW g \in [Queues -> Seq(Items)],
         NEW f \in [Items -> Fates], NEW f2 \in [Items -> Fates], EachOnce(h, f),
         NEW a \in Queues, NEW b \in Queues, a # b,
         NEW r \in Seq(Items), NEW place \in [1..Len(r) -> 1..Len(h[a])],
         Passed(h, g, a, b, r, place), LeavesOut(h, f, f2, a, r, place)
  PROVE  EachOnce(g, f2)
<1>0. /\ h[a] \in Seq(Items) /\ h[b] \in Seq(Items)
      /\ Len(h[a]) \in Nat /\ Len(h[b]) \in Nat /\ Len(r) \in Nat
  OBVIOUS
<1>a. \A c \in Queues : h[c] \in Seq(Items) /\ Len(h[c]) \in Nat
  OBVIOUS
<1>u. \A c, d \in Queues : \A k \in 1..Len(h[c]), m \in 1..Len(h[d]) :
           h[c][k] = h[d][m] => c = d /\ k = m
  BY DEF EachOnce
<1>b. /\ g[a] = <<>> /\ g[b] = h[b] \o r
      /\ \A c \in Queues \ {a, b} : g[c] = h[c]
  BY DEF Passed
<1>c. \A j \in 1..Len(r) : r[j] = h[a][place[j]] /\ place[j] \in 1..Len(h[a])
  BY DEF Passed
<1>d. \A j, k \in 1..Len(r) : place[j] = place[k] => j = k
  BY DEF Passed
<1>1. /\ Len(g[b]) = Len(h[b]) + Len(r)
      /\ \A k \in 1..Len(h[b]) : g[b][k] = h[b][k]
      /\ \A j \in 1..Len(r) : g[b][Len(h[b]) + j] = r[j]
      /\ \A k \in 1..Len(g[b]) :
            \/ k \in 1..Len(h[b])
            \/ k \in Int /\ k - Len(h[b]) \in 1..Len(r) /\ g[b][k] = r[k - Len(h[b])]
  BY <1>0, <1>b
<1> DEFINE Stays(c, k) == c # a /\ k \in 1..Len(h[c]) /\ g[c][k] = h[c][k]
           Comes(c, k) == /\ c = b /\ k - Len(h[b]) \in 1..Len(r) /\ k \in Int
                          /\ place[k - Len(h[b])] \in 1..Len(h[a])
                          /\ g[c][k] = h[a][place[k - Len(h[b])]]
                          /\ g[c][k] = r[k - Len(h[b])]
<1>2. ASSUME NEW c \in Queues, NEW k \in 1..Len(g[c]) PROVE Stays(c, k) \/ Comes(c, k)
  <2>1. c # a
    BY <1>b, <1>2
  <2>2. CASE c # b
    BY <1>b, <1>2, <2>1, <2>2
  <2>3. CASE c = b
    BY <1>1, <1>c, <2>1, <2>3
  <2> QED
    BY <2>2, <2>3
<1>3. ASSUME NEW c \in Queues, NEW k \in 1..Len(g[c]) PROVE f2[g[c][k]] = "accepted"
  <2>1. CASE Stays(c, k)
    <3>1. f[h[c][k]] = "accepted" /\ h[c][k] \in Items
      BY <1>a, <2>1 DEF EachOnce
    <3>2. ~ \E m \in 1..Len(h[a]) : h[a][m] = h[c][k]
      BY <1>u, <2>1
    <3> QED
      BY <2>1, <3>1, <3>2 DEF LeavesOut
  <2>2. CASE Comes(c, k)
    BY <2>2 DEF LeavesOut
  <2> QED
    BY <1>2, <2>1, <2>2
<1>4. ASSUME NEW c \in Queues, NEW d \in Queues, NEW k \in 1..Len(g[c]), NEW m \in 1..Len(g[d]),
             g[c][k] = g[d][m]
      PROVE  c = d /\ k = m
  <2>1. CASE Stays(c, k) /\ Stays(d, m)
    <3>1. h[c][k] = h[d][m] /\ k \in 1..Len(h[c]) /\ m \in 1..Len(h[d])
      BY <1>4, <2>1
    <3> QED
      BY <1>u, <3>1
  <2>2. CASE Stays(c, k) /\ Comes(d, m)
    <3> DEFINE o == place[m - Len(h[b])]
    <3>1. h[c][k] = h[a][o] /\ k \in 1..Len(h[c]) /\ o \in 1..Len(h[a]) /\ c # a
      BY <1>4, <2>2
    <3> HIDE DEF o
    <3> QED
      BY <1>u, <3>1
  <2>3. CASE Comes(c, k) /\ Stays(d, m)
    <3> DEFINE o == place[k - Len(h[b])]
    <3>1. h[d][m] = h[a][o] /\ m \in 1..Len(h[d]) /\ o \in 1..Len(h[a]) /\ d # a
      BY <1>4, <2>3
    <3> HIDE DEF o
    <3> QED
      BY <1>u, <3>1
  <2>4. CASE Comes(c, k) /\ Comes(d, m)
    <3>1. place[k - Len(h[b])] = place[m - Len(h[b])]
      <4> DEFINE o == place[k - Len(h[b])]
                 n == place[m - Len(h[b])]
      <4>1. h[a][o] = h[a][n] /\ o \in 1..Len(h[a]) /\ n \in 1..Len(h[a])
        BY <1>4, <2>4
      <4> HIDE DEF o, n
      <4>2. o = n
        BY <1>u, <4>1
      <4> QED
        BY <4>2 DEF o, n
    <3>2. k - Len(h[b]) = m - Len(h[b])
      BY <1>d, <2>4, <3>1
    <3> QED
      BY <1>0, <2>4, <3>2
  <2> QED
    BY <1>2, <2>1, <2>2, <2>3, <2>4
<1>5. ASSUME NEW i \in Items, f2[i] = "accepted"
      PROVE  \E c \in Queues : \E k \in 1..Len(g[c]) : g[c][k] = i
  <2>1. f[i] = "accepted"
    BY <1>5 DEF LeavesOut
  <2>a. PICK c \in Queues : \E k \in 1..Len(h[c]) : h[c][k] = i
    BY <2>1 DEF EachOnce
  <2>2. PICK k \in 1..Len(h[c]) : h[c][k] = i
    BY <2>a
  <2>3. CASE c = a
    <3>1. PICK j \in 1..Len(r) : place[j] = k
      BY <1>5, <2>2, <2>3 DEF LeavesOut
    <3>2. Len(h[b]) + j \in 1..Len(g[b]) /\ g[b][Len(h[b]) + j] = i
      BY <1>0, <1>1, <1>c, <2>2, <2>3, <3>1
    <3> QED
      BY <3>2
  <2>4. CASE c = b
    <3>1. k \in 1..Len(g[b]) /\ g[b][k] = i
      BY <1>0, <1>1, <2>2, <2>4
    <3> QED
      BY <3>1
  <2>5. CASE c # a /\ c # b
    BY <1>b, <2>2, <2>5
  <2> QED
    BY <2>3, <2>4, <2>5
<1> QED
  BY <1>3, <1>4, <1>5 DEF EachOnce

\* All of a queue is put at the end of another.
Moved(h, g, a, b) ==
    /\ g[a] = <<>> /\ g[b] = h[b] \o h[a]
    /\ \A c \in Queues \ {a, b} : g[c] = h[c]

\* Moving a queue keeps every accepted item where it is once.
LEMMA MovedOn ==
  ASSUME NEW h \in [Queues -> Seq(Items)], NEW g \in [Queues -> Seq(Items)],
         NEW f \in [Items -> Fates], EachOnce(h, f),
         NEW a \in Queues, NEW b \in Queues, a # b, Moved(h, g, a, b)
  PROVE  EachOnce(g, f)
<1> DEFINE r == h[a]
           place == [j \in 1..Len(r) |-> j]
<1>1. r \in Seq(Items) /\ place \in [1..Len(r) -> 1..Len(h[a])]
  OBVIOUS
<1>2. \A j \in 1..Len(r) : place[j] = j
  OBVIOUS
<1>a. \A j \in 1..Len(h[a]) : f[h[a][j]] = "accepted"
  BY DEF EachOnce
<1> HIDE DEF place
<1>3. Passed(h, g, a, b, r, place)
  BY <1>2 DEF Passed, Moved
<1>4. LeavesOut(h, f, f, a, r, place)
  BY <1>2, <1>a DEF LeavesOut
<1> HIDE DEF r
<1> QED
  BY <1>1, <1>3, <1>4, PassedOn

\* A queue is put at the end of another without the blocked inputs.
Recorded(h, g, a, b) ==
    /\ g[a] = <<>> /\ g[b] = h[b] \o Recordable(h[a])
    /\ \A c \in Queues \ {a, b} : g[c] = h[c]

\* So does recording one: what a hook blocks is dropped, the rest is appended.
LEMMA RecordedOn ==
  ASSUME NEW h \in [Queues -> Seq(Items)], NEW g \in [Queues -> Seq(Items)],
         NEW f \in [Items -> Fates], NEW f2 \in [Items -> Fates], EachOnce(h, f),
         NEW a \in Queues, NEW b \in Queues, a # b, Recorded(h, g, a, b),
         f2 = [i \in Items |-> IF i \in Contents(h[a]) \cap BlockedInputs
                               THEN "dropped" ELSE f[i]]
  PROVE  EachOnce(g, f2)
<1> DEFINE r == Recordable(h[a])
<1>0. h[a] \in Seq(Items)
  OBVIOUS
<1>1. r \in Seq(Items)
  BY <1>0, RecordableIs
<1>2. PICK place \in [1..Len(r) -> 1..Len(h[a])] :
               /\ \A j \in 1..Len(r) : r[j] = h[a][place[j]] /\ h[a][place[j]] \notin BlockedInputs
               /\ \A j, k \in 1..Len(r) : place[j] = place[k] => j = k
               /\ \A k \in 1..Len(h[a]) : h[a][k] \notin BlockedInputs =>
                     \E j \in 1..Len(r) : place[j] = k
  BY <1>0, RecordableIs
<1>a. \A j \in 1..Len(h[a]) : f[h[a][j]] = "accepted" /\ h[a][j] \in Items
  BY <1>0 DEF EachOnce
<1>b. \A i \in Items : i \in Contents(h[a]) <=> \E k \in 1..Len(h[a]) : h[a][k] = i
  BY DEF Contents
<1>c. /\ \A i \in Items : i \in Contents(h[a]) \cap BlockedInputs => f2[i] = "dropped"
      /\ \A i \in Items : i \notin Contents(h[a]) \cap BlockedInputs => f2[i] = f[i]
  OBVIOUS
<1>3. Passed(h, g, a, b, r, place)
  BY <1>2 DEF Passed, Recorded
<1> HIDE DEF r
<1>4. \A j \in 1..Len(r) : f2[r[j]] = "accepted"
  <2> TAKE j \in 1..Len(r)
  <2>1. place[j] \in 1..Len(h[a]) /\ r[j] = h[a][place[j]] /\ r[j] \notin BlockedInputs
    BY <1>2
  <2>2. r[j] \in Items /\ f[r[j]] = "accepted"
    BY <1>a, <2>1
  <2> QED
    BY <1>c, <2>1, <2>2
<1>5. \A k \in 1..Len(h[a]) :
           (\E j \in 1..Len(r) : place[j] = k) \/ f2[h[a][k]] # "accepted"
  <2> TAKE k \in 1..Len(h[a])
  <2>1. CASE h[a][k] \in BlockedInputs
    BY <1>a, <1>b, <1>c, <2>1
  <2> QED
    BY <1>2, <2>1
<1>6. \A i \in Items : \/ f2[i] = f[i]
                       \/ (\E k \in 1..Len(h[a]) : h[a][k] = i) /\ f2[i] # "accepted"
  BY <1>b, <1>c
<1>7. LeavesOut(h, f, f2, a, r, place)
  BY <1>4, <1>5, <1>6 DEF LeavesOut
<1> QED
  BY <1>1, <1>3, <1>7, PassedOn

\* The queues of S are thrown away, and their items are accepted no longer.
Discarded(h, g, f, f2, S) ==
    /\ \A c \in Queues : g[c] = IF c \in S THEN <<>> ELSE h[c]
    /\ \A i \in Items : IF \E c \in S : i \in Contents(h[c])
                        THEN f2[i] # "accepted" ELSE f2[i] = f[i]

\* So does throwing queues away, when the items in them are no longer accepted.
LEMMA DiscardedItems ==
  ASSUME NEW h \in [Queues -> Seq(Items)], NEW g \in [Queues -> Seq(Items)],
         NEW f \in [Items -> Fates], NEW f2 \in [Items -> Fates], EachOnce(h, f),
         NEW S \in SUBSET Queues, Discarded(h, g, f, f2, S)
  PROVE  EachOnce(g, f2)
<1>u. \A c, d \in Queues : \A k \in 1..Len(h[c]), m \in 1..Len(h[d]) :
           h[c][k] = h[d][m] => c = d /\ k = m
  BY DEF EachOnce
<1>a. \A c \in Queues : \A k \in 1..Len(h[c]) : f[h[c][k]] = "accepted" /\ h[c][k] \in Items
  BY DEF EachOnce
<1>b. \A c \in Queues : g[c] = IF c \in S THEN <<>> ELSE h[c]
  BY DEF Discarded
<1>c. \A c \in Queues : \A i : i \in Contents(h[c]) <=> \E k \in 1..Len(h[c]) : h[c][k] = i
  BY DEF Contents
<1>1. ASSUME NEW c \in Queues, NEW k \in 1..Len(g[c]) PROVE c \notin S /\ g[c] = h[c]
  BY <1>b
<1>2. ASSUME NEW c \in Queues, NEW k \in 1..Len(g[c]) PROVE f2[g[c][k]] = "accepted"
  <2>1. c \notin S /\ g[c] = h[c]
    BY <1>1
  <2>2. ~ \E d \in S : h[c][k] \in Contents(h[d])
    <3> SUFFICES ASSUME NEW d \in S, h[c][k] \in Contents(h[d]) PROVE FALSE
      OBVIOUS
    <3>1. PICK m \in 1..Len(h[d]) : h[d][m] = h[c][k]
      BY <1>c
    <3> QED
      BY <1>u, <2>1, <3>1
  <2>3. f[h[c][k]] = "accepted" /\ h[c][k] \in Items
    BY <1>a, <2>1
  <2> QED
    BY <2>1, <2>2, <2>3 DEF Discarded
<1>3. ASSUME NEW c \in Queues, NEW d \in Queues, NEW k \in 1..Len(g[c]), NEW m \in 1..Len(g[d]),
             g[c][k] = g[d][m]
      PROVE  c = d /\ k = m
  <2>1. g[c] = h[c] /\ g[d] = h[d]
    BY <1>1
  <2>2. h[c][k] = h[d][m] /\ k \in 1..Len(h[c]) /\ m \in 1..Len(h[d])
    BY <1>3, <2>1
  <2> QED
    BY <1>u, <2>2
<1>4. ASSUME NEW i \in Items, f2[i] = "accepted"
      PROVE  \E c \in Queues : \E k \in 1..Len(g[c]) : g[c][k] = i
  <2>1. ~ \E c \in S : i \in Contents(h[c])
    BY <1>4 DEF Discarded
  <2>2. f[i] = "accepted"
    BY <1>4, <2>1 DEF Discarded
  <2>3. PICK c \in Queues : \E k \in 1..Len(h[c]) : h[c][k] = i
    BY <2>2 DEF EachOnce
  <2>4. i \in Contents(h[c])
    BY <1>c, <2>3
  <2>5. g[c] = h[c]
    BY <1>b, <2>1, <2>4
  <2> QED
    BY <2>3, <2>5
<1> QED
  BY <1>2, <1>3, <1>4 DEF EachOnce

\* An item that was not accepted before is put at the end of a queue.
Arrived(h, g, f, f2, b, i) ==
    /\ g[b] = Append(h[b], i)
    /\ \A c \in Queues \ {b} : g[c] = h[c]
    /\ f[i] # "accepted" /\ f2 = [f EXCEPT ![i] = "accepted"]

\* So does a new item at the end of a queue.
LEMMA ArrivedItem ==
  ASSUME NEW h \in [Queues -> Seq(Items)], NEW g \in [Queues -> Seq(Items)],
         NEW f \in [Items -> Fates], NEW f2, EachOnce(h, f),
         NEW b \in Queues, NEW i \in Items, Arrived(h, g, f, f2, b, i)
  PROVE  EachOnce(g, f2)
<1>u. \A c, d \in Queues : \A k \in 1..Len(h[c]), m \in 1..Len(h[d]) :
           h[c][k] = h[d][m] => c = d /\ k = m
  BY DEF EachOnce
<1>a. \A c \in Queues : \A k \in 1..Len(h[c]) : f[h[c][k]] = "accepted" /\ h[c][k] \in Items
  BY DEF EachOnce
<1>b. /\ h[b] \in Seq(Items) /\ Len(h[b]) \in Nat
      /\ g[b] = Append(h[b], i)
      /\ \A c \in Queues \ {b} : g[c] = h[c]
  BY DEF Arrived
<1>c. f[i] # "accepted" /\ f2[i] = "accepted" /\ \A j \in Items \ {i} : f2[j] = f[j]
  BY DEF Arrived
<1>d. /\ Len(g[b]) = Len(h[b]) + 1 /\ g[b][Len(h[b]) + 1] = i
      /\ \A k \in 1..Len(h[b]) : g[b][k] = h[b][k]
      /\ \A k \in 1..Len(g[b]) : k \in 1..Len(h[b]) \/ k = Len(h[b]) + 1
  BY <1>b
<1>e. \A c \in Queues : \A k \in 1..Len(h[c]) : h[c][k] # i
  BY <1>a, <1>c
<1> DEFINE Stays(c, k) == k \in 1..Len(h[c]) /\ g[c][k] = h[c][k]
           Comes(c, k) == c = b /\ k = Len(h[b]) + 1 /\ g[c][k] = i
<1>1. ASSUME NEW c \in Queues, NEW k \in 1..Len(g[c]) PROVE Stays(c, k) \/ Comes(c, k)
  <2>1. CASE c = b
    BY <1>d, <2>1
  <2>2. CASE c # b
    BY <1>b, <2>2
  <2> QED
    BY <2>1, <2>2
<1>2. ASSUME NEW c \in Queues, NEW k \in 1..Len(g[c]) PROVE f2[g[c][k]] = "accepted"
  <2>1. CASE Stays(c, k)
    <3>1. f[h[c][k]] = "accepted" /\ h[c][k] \in Items /\ h[c][k] # i
      BY <1>a, <1>e, <2>1
    <3> QED
      BY <1>c, <2>1, <3>1
  <2> QED
    BY <1>1, <1>c, <2>1
<1>3. ASSUME NEW c \in Queues, NEW d \in Queues, NEW k \in 1..Len(g[c]), NEW m \in 1..Len(g[d]),
             g[c][k] = g[d][m]
      PROVE  c = d /\ k = m
  <2>1. CASE Stays(c, k) /\ Stays(d, m)
    <3>1. h[c][k] = h[d][m] /\ k \in 1..Len(h[c]) /\ m \in 1..Len(h[d])
      BY <1>3, <2>1
    <3> QED
      BY <1>u, <3>1
  <2>2. CASE Stays(c, k) /\ Comes(d, m)
    <3>1. h[c][k] = i /\ k \in 1..Len(h[c])
      BY <1>3, <2>2
    <3> QED
      BY <1>e, <3>1
  <2>3. CASE Comes(c, k) /\ Stays(d, m)
    <3>1. h[d][m] = i /\ m \in 1..Len(h[d])
      BY <1>3, <2>3
    <3> QED
      BY <1>e, <3>1
  <2>4. CASE Comes(c, k) /\ Comes(d, m)
    BY <2>4
  <2> QED
    BY <1>1, <2>1, <2>2, <2>3, <2>4
<1>4. ASSUME NEW j \in Items, f2[j] = "accepted"
      PROVE  \E c \in Queues : \E k \in 1..Len(g[c]) : g[c][k] = j
  <2>1. CASE j = i
    <3>1. Len(h[b]) + 1 \in 1..Len(g[b])
      BY <1>b, <1>d
    <3> QED
      BY <1>d, <2>1, <3>1
  <2>2. CASE j # i
    <3>1. f[j] = "accepted"
      BY <1>4, <1>c, <2>2
    <3>2. PICK c \in Queues : \E k \in 1..Len(h[c]) : h[c][k] = j
      BY <3>1 DEF EachOnce
    <3>3. PICK k \in 1..Len(h[c]) : h[c][k] = j
      BY <3>2
    <3>4. k \in 1..Len(g[c]) /\ g[c][k] = j
      <4>1. CASE c = b
        BY <1>b, <1>d, <3>3, <4>1
      <4>2. CASE c # b
        BY <1>b, <3>3, <4>2
      <4> QED
        BY <4>1, <4>2
    <3> QED
      BY <3>4
  <2> QED
    BY <2>1, <2>2
<1> QED
  BY <1>2, <1>3, <1>4 DEF EachOnce

(***************************************************************************)
(* The queues of a session.                                                *)
(***************************************************************************)

TheMailbox == <<"mailbox", None>>
TheHistory == <<"history", None>>
PendingIn(s) == <<"state", s>>
InputOf(p) == <<"input", p>>
MailOf(p) == <<"mail", p>>

\* What every queue holds.
Holdings == [c \in Queues |-> Held(c)]
AllKept == EachOnce(Holdings, fate)

\* The named queues are queues.
LEMMA QueueNames ==
  /\ TheMailbox \in Queues /\ TheHistory \in Queues
  /\ \A s \in States : PendingIn(s) \in Queues
  /\ \A p \in Procs : InputOf(p) \in Queues /\ MailOf(p) \in Queues
  BY DEF Queues, TheMailbox, TheHistory, PendingIn, InputOf, MailOf

\* There are no others.
LEMMA QueueKinds ==
  ASSUME NEW c \in Queues
  PROVE  \/ c = TheMailbox \/ c = TheHistory
         \/ \E s \in States : c = PendingIn(s)
         \/ \E p \in Procs : c = InputOf(p) \/ c = MailOf(p)
  BY DEF Queues, TheMailbox, TheHistory, PendingIn, InputOf, MailOf

\* They are different queues.
LEMMA QueuesDiffer ==
  /\ TheMailbox # TheHistory
  /\ \A s : PendingIn(s) # TheMailbox /\ PendingIn(s) # TheHistory
  /\ \A p : InputOf(p) # TheMailbox /\ InputOf(p) # TheHistory
  /\ \A p : MailOf(p) # TheMailbox /\ MailOf(p) # TheHistory
  /\ \A s, p : PendingIn(s) # InputOf(p) /\ PendingIn(s) # MailOf(p)
  /\ \A p, q : InputOf(p) # MailOf(q)
  /\ \A s, r : PendingIn(s) = PendingIn(r) => s = r
  /\ \A p, q : InputOf(p) = InputOf(q) => p = q
  /\ \A p, q : MailOf(p) = MailOf(q) => p = q
  BY DEF TheMailbox, TheHistory, PendingIn, InputOf, MailOf

\* What the named queues hold.
LEMMA HoldingsAre ==
  /\ Holdings[TheMailbox] = mailbox /\ Holdings[TheHistory] = history
  /\ \A s \in States : Holdings[PendingIn(s)] = tstate[s].items
  /\ \A p \in Procs : Holdings[InputOf(p)] = loc[p].input /\ Holdings[MailOf(p)] = loc[p].mail
<1>1. \A c \in Queues : Holdings[c] = Held(c)
  BY DEF Holdings
<1>2. Held(TheMailbox) = mailbox /\ Held(TheHistory) = history
  BY DEF Held, TheMailbox, TheHistory
<1>3. \A s \in States : Held(PendingIn(s)) = tstate[s].items
  BY DEF Held, PendingIn
<1>4. \A p \in Procs : Held(InputOf(p)) = loc[p].input /\ Held(MailOf(p)) = loc[p].mail
  BY DEF Held, InputOf, MailOf
<1> QED
  BY <1>1, <1>2, <1>3, <1>4, QueueNames

\* The same after a step.
LEMMA HoldingsAreThen ==
  /\ Holdings'[TheMailbox] = mailbox' /\ Holdings'[TheHistory] = history'
  /\ \A s \in States : Holdings'[PendingIn(s)] = tstate'[s].items
  /\ \A p \in Procs : Holdings'[InputOf(p)] = loc'[p].input /\ Holdings'[MailOf(p)] = loc'[p].mail
<1>1. \A c \in Queues : Holdings'[c] = Held(c)'
  BY DEF Holdings
<1>2. Held(TheMailbox)' = mailbox' /\ Held(TheHistory)' = history'
  BY DEF Held, TheMailbox, TheHistory
<1>3. \A s \in States : Held(PendingIn(s))' = tstate'[s].items
  BY DEF Held, PendingIn
<1>4. \A p \in Procs : Held(InputOf(p))' = loc'[p].input /\ Held(MailOf(p))' = loc'[p].mail
  BY DEF Held, InputOf, MailOf
<1> QED
  BY <1>1, <1>2, <1>3, <1>4, QueueNames

\* Queues hold items.
LEMMA HoldingsType == ASSUME TypeOK PROVE Holdings \in [Queues -> Seq(Items)]
<1>1. ASSUME NEW c \in Queues PROVE Holdings[c] \in Seq(Items)
  <2>0. mailbox \in Seq(Items)
    BY DEF TypeOK, Items
  <2>1. \A s \in States : tstate[s].items \in Seq(Items)
    BY DEF TypeOK, TurnState
  <2>2. \A p \in Procs : loc[p].input \in Seq(Items) /\ loc[p].mail \in Seq(Items)
    BY DEF TypeOK, Locals
  <2> QED
    BY <2>0, <2>1, <2>2, QueueKinds, HoldingsAre DEF TypeOK
<1> QED
  BY <1>1 DEF Holdings

\* The same after a step.
LEMMA HoldingsTypeThen == ASSUME TypeOK' PROVE Holdings' \in [Queues -> Seq(Items)]
<1>1. ASSUME NEW c \in Queues PROVE Holdings'[c] \in Seq(Items)
  <2>0. mailbox' \in Seq(Items)
    BY DEF TypeOK, Items
  <2>1. \A s \in States : tstate'[s].items \in Seq(Items)
    BY DEF TypeOK, TurnState
  <2>2. \A p \in Procs : loc'[p].input \in Seq(Items) /\ loc'[p].mail \in Seq(Items)
    BY DEF TypeOK, Locals
  <2> QED
    BY <2>0, <2>1, <2>2, QueueKinds, HoldingsAreThen DEF TypeOK
<1> QED
  BY <1>1 DEF Holdings

\* The queues outside S are left alone.
LeftAlone(S) ==
    /\ TheMailbox \in S \/ mailbox' = mailbox
    /\ TheHistory \in S \/ history' = history
    /\ \A s \in States : PendingIn(s) \in S \/ tstate'[s].items = tstate[s].items
    /\ \A p \in Procs : InputOf(p) \in S \/ loc'[p].input = loc[p].input
    /\ \A p \in Procs : MailOf(p) \in S \/ loc'[p].mail = loc[p].mail

\* The queues that are left alone hold what they held.
LEMMA RestIsKept ==
  ASSUME NEW S, LeftAlone(S)
  PROVE  \A c \in Queues \ S : Holdings'[c] = Holdings[c]
  BY QueueKinds, HoldingsAre, HoldingsAreThen DEF LeftAlone

\* AllKept, before and after a step, in terms of the holdings.
LEMMA KeptIsEachOnce ==
  /\ AllKept <=> EachOnce(Holdings, fate)
  /\ AllKept' <=> EachOnce(Holdings', fate')
  BY DEF AllKept, EachOnce

\* Nothing moves; items may be refused.
LEMMA NothingMoves ==
  ASSUME TypeOK, TypeOK', AllKept, LeftAlone({}),
         \A i \in Items : fate'[i] = fate[i] \/ (fate[i] # "accepted" /\ fate'[i] # "accepted")
  PROVE  AllKept'
<1>1. \A c \in Queues : Holdings'[c] = Holdings[c]
  BY RestIsKept
<1>2. \A c \in Queues : \A k \in 1..Len(Holdings[c]) : Holdings[c][k] \in Items
  BY HoldingsType
<1>3. \A i \in Items : fate'[i] = "accepted" <=> fate[i] = "accepted"
  OBVIOUS
<1>4. EachOnce(Holdings, fate)
  BY KeptIsEachOnce
<1>5. EachOnce(Holdings', fate')
  BY <1>1, <1>2, <1>3, <1>4 DEF EachOnce
<1> QED
  BY <1>5, KeptIsEachOnce

\* The queue a is put at the end of the queue b.
LEMMA QueueMoves ==
  ASSUME TypeOK, TypeOK', AllKept, NEW a \in Queues, NEW b \in Queues, a # b,
         LeftAlone({a, b}), Holdings'[a] = <<>>, Holdings'[b] = Holdings[b] \o Holdings[a],
         fate' = fate
  PROVE  AllKept'
<1>1. Moved(Holdings, Holdings', a, b)
  BY RestIsKept DEF Moved
<1>2. EachOnce(Holdings, fate) /\ fate \in [Items -> Fates]
  BY KeptIsEachOnce DEF TypeOK, Fates
<1>3. EachOnce(Holdings', fate)
  BY <1>1, <1>2, HoldingsType, HoldingsTypeThen, MovedOn
<1> QED
  BY <1>3, KeptIsEachOnce

\* The queue a is recorded.
LEMMA QueueIsRecorded ==
  ASSUME TypeOK, TypeOK', AllKept, NEW a \in Queues, a # TheHistory,
         LeftAlone({a, TheHistory}), Holdings'[a] = <<>>,
         history' = history \o Recordable(Holdings[a]),
         fate' = Drop(Contents(Holdings[a]) \cap BlockedInputs)
  PROVE  AllKept'
<1>1. Recorded(Holdings, Holdings', a, TheHistory)
  <2>1. \A c \in Queues \ {a, TheHistory} : Holdings'[c] = Holdings[c]
    BY RestIsKept
  <2> QED
    BY <2>1, HoldingsAre, HoldingsAreThen DEF Recorded
<1>2. EachOnce(Holdings, fate) /\ fate \in [Items -> Fates] /\ fate' \in [Items -> Fates]
  BY KeptIsEachOnce DEF TypeOK, Fates
<1>3. fate' = [i \in Items |-> IF i \in Contents(Holdings[a]) \cap BlockedInputs
                               THEN "dropped" ELSE fate[i]]
  BY DEF Drop
<1>4. EachOnce(Holdings', fate')
  BY <1>1, <1>2, <1>3, HoldingsType, HoldingsTypeThen, QueueNames, RecordedOn
<1> QED
  BY <1>4, KeptIsEachOnce

\* The queues of S are thrown away.
LEMMA QueuesAreDropped ==
  ASSUME TypeOK, TypeOK', AllKept, NEW S \in SUBSET Queues, LeftAlone(S),
         \A c \in S : Holdings'[c] = <<>>,
         \A i \in Items : IF \E c \in S : i \in Contents(Holdings[c])
                          THEN fate'[i] # "accepted" ELSE fate'[i] = fate[i]
  PROVE  AllKept'
<1>1. Discarded(Holdings, Holdings', fate, fate', S)
  BY RestIsKept DEF Discarded
<1>2. EachOnce(Holdings, fate) /\ fate \in [Items -> Fates] /\ fate' \in [Items -> Fates]
  BY KeptIsEachOnce DEF TypeOK, Fates
<1>3. EachOnce(Holdings', fate')
  BY <1>1, <1>2, HoldingsType, HoldingsTypeThen, DiscardedItems
<1> QED
  BY <1>3, KeptIsEachOnce

\* A new item is put at the end of the queue b.
LEMMA ItemArrives ==
  ASSUME TypeOK, TypeOK', AllKept, NEW b \in Queues, NEW i \in Items, LeftAlone({b}),
         Holdings'[b] = Append(Holdings[b], i), fate[i] = "unsent", fate' = Sent(i)
  PROVE  AllKept'
<1>1. Arrived(Holdings, Holdings', fate, fate', b, i)
  BY RestIsKept DEF Arrived, Sent
<1>2. EachOnce(Holdings, fate) /\ fate \in [Items -> Fates]
  BY KeptIsEachOnce DEF TypeOK, Fates
<1>3. EachOnce(Holdings', fate')
  BY <1>1, <1>2, HoldingsType, HoldingsTypeThen, ArrivedItem
<1> QED
  BY <1>3, KeptIsEachOnce

\* So an accepted item is in one place and any other in none.
LEMMA KeptIsConserved == ASSUME TypeOK, AllKept PROVE ItemsConserved
<1> SUFFICES ASSUME NEW i \in Items
             PROVE  Cardinality(Places(i)) = IF fate[i] = "accepted" THEN 1 ELSE 0
  BY DEF ItemsConserved
<1>0. EachOnce(Holdings, fate)
  BY KeptIsEachOnce
<1>1. \A c \in Queues : Held(c) = Holdings[c]
  BY DEF Holdings
<1>2. \A x : x \in Places(i) <=> \E c \in Queues : \E k \in 1..Len(Holdings[c]) :
                                    Holdings[c][k] = i /\ x = <<c, k>>
  BY <1>1 DEF Places, PositionsOf
<1>3. CASE fate[i] = "accepted"
  <2>1. PICK c \in Queues : \E k \in 1..Len(Holdings[c]) : Holdings[c][k] = i
    BY <1>0, <1>3 DEF EachOnce
  <2>2. PICK k \in 1..Len(Holdings[c]) : Holdings[c][k] = i
    BY <2>1
  <2>3. ASSUME NEW d \in Queues, NEW m \in 1..Len(Holdings[d]), Holdings[d][m] = i
        PROVE  d = c /\ m = k
    BY <1>0, <2>2, <2>3 DEF EachOnce
  <2>4. Places(i) = {<<c, k>>}
    BY <1>2, <2>2, <2>3
  <2> QED
    BY <1>3, <2>4, FS_Singleton
<1>4. CASE fate[i] # "accepted"
  <2>1. Places(i) = {}
    BY <1>0, <1>2, <1>4 DEF EachOnce
  <2> QED
    BY <1>4, <2>1, FS_EmptySet
<1> QED
  BY <1>3, <1>4

(***************************************************************************)
(* Every action keeps custody and the items.                               *)
(***************************************************************************)

\* Two queues, one after the other, are put at the end of a third.
LEMMA TwoQueuesMove ==
  ASSUME TypeOK, TypeOK', AllKept, NEW a \in Queues, NEW b \in Queues, NEW d \in Queues,
         a # b, a # d, b # d, LeftAlone({a, b, d}), Holdings'[a] = <<>>, Holdings'[b] = <<>>,
         Holdings'[d] = (Holdings[d] \o Holdings[a]) \o Holdings[b], fate' = fate
  PROVE  AllKept'
<1> DEFINE g == [c \in Queues |-> IF c = a THEN <<>>
                                  ELSE IF c = d THEN Holdings[d] \o Holdings[a]
                                  ELSE Holdings[c]]
<1>0. EachOnce(Holdings, fate) /\ fate \in [Items -> Fates]
  BY KeptIsEachOnce DEF TypeOK, Fates
<1>1. Holdings \in [Queues -> Seq(Items)] /\ Holdings' \in [Queues -> Seq(Items)]
  BY HoldingsType, HoldingsTypeThen
<1>2. g \in [Queues -> Seq(Items)]
  BY <1>1
<1>3. Moved(Holdings, g, a, d)
  BY DEF Moved
<1>4. \A c \in Queues \ {a, b, d} : Holdings'[c] = Holdings[c]
  BY RestIsKept
<1>5. Moved(g, Holdings', b, d)
  <2>1. g[b] = Holdings[b] /\ g[d] = Holdings[d] \o Holdings[a] /\ g[a] = <<>>
    OBVIOUS
  <2>2. \A c \in Queues \ {b, d} : Holdings'[c] = g[c]
    BY <1>4
  <2> HIDE DEF g
  <2> QED
    BY <2>1, <2>2 DEF Moved
<1> HIDE DEF g
<1>6. EachOnce(g, fate)
  BY <1>0, <1>1, <1>2, <1>3, MovedOn
<1>7. EachOnce(Holdings', fate)
  BY <1>0, <1>1, <1>2, <1>5, <1>6, MovedOn
<1> QED
  BY <1>7, KeptIsEachOnce

\* A queue is put at the end of another, and the queues of S are thrown away.
LEMMA MoveAndDrop ==
  ASSUME TypeOK, TypeOK', AllKept, NEW a \in Queues, NEW b \in Queues, a # b,
         NEW S \in SUBSET (Queues \ {a, b}), LeftAlone({a, b} \cup S),
         Holdings'[a] = <<>>, Holdings'[b] = Holdings[b] \o Holdings[a],
         \A c \in S : Holdings'[c] = <<>>,
         \A i \in Items : IF \E c \in S : i \in Contents(Holdings[c])
                          THEN fate'[i] # "accepted" ELSE fate'[i] = fate[i]
  PROVE  AllKept'
<1> DEFINE g == [c \in Queues |-> IF c = a THEN <<>>
                                  ELSE IF c = b THEN Holdings[b] \o Holdings[a]
                                  ELSE Holdings[c]]
<1>0. EachOnce(Holdings, fate) /\ fate \in [Items -> Fates] /\ fate' \in [Items -> Fates]
  BY KeptIsEachOnce DEF TypeOK, Fates
<1>1. Holdings \in [Queues -> Seq(Items)] /\ Holdings' \in [Queues -> Seq(Items)]
  BY HoldingsType, HoldingsTypeThen
<1>2. g \in [Queues -> Seq(Items)]
  BY <1>1
<1>3. Moved(Holdings, g, a, b)
  BY DEF Moved
<1>4. \A c \in Queues \ ({a, b} \cup S) : Holdings'[c] = Holdings[c]
  BY RestIsKept
<1>5. \A c \in S : c \in Queues /\ g[c] = Holdings[c]
  OBVIOUS
<1>6. \A c \in Queues : Holdings'[c] = IF c \in S THEN <<>> ELSE g[c]
  BY <1>4
<1> HIDE DEF g
<1>7. Discarded(g, Holdings', fate, fate', S)
  BY <1>5, <1>6 DEF Discarded
<1>8. EachOnce(g, fate)
  BY <1>0, <1>1, <1>2, <1>3, MovedOn
<1>9. EachOnce(Holdings', fate')
  BY <1>0, <1>1, <1>2, <1>7, <1>8, DiscardedItems
<1> QED
  BY <1>9, KeptIsEachOnce

\* A process moves and no item does.
LEMMA QuietMove ==
  ASSUME TypeOK, TypeOK', Custody, AllKept, NEW p \in Procs, OthersWait(p), MovesWell(p),
         loc'[p].input = loc[p].input, loc'[p].mail = loc[p].mail,
         \A s \in States : tstate'[s].items = tstate[s].items,
         mailbox' = mailbox, history' = history, fate' = fate
  PROVE  Custody' /\ AllKept'
<1>1. LeftAlone({})
  BY DEF LeftAlone, OthersWait
<1> QED
  BY <1>1, NothingMoves, MovesKeepCustody

\* What the turn states are after an extension.
LEMMA ExtendedIs ==
  ASSUME TypeOK, NEW s \in States, NEW q
  PROVE  /\ Extended(s, q)[s].items = tstate[s].items \o q
         /\ ExtendedAndOpen(s, q)[s].items = tstate[s].items \o q
         /\ \A r \in States \ {s} : /\ Extended(s, q)[r] = tstate[r]
                                    /\ ExtendedAndOpen(s, q)[r] = tstate[r]
<1>1. tstate \in [States -> TurnState] /\ tstate[s] \in TurnState
  BY DEF TypeOK
<1>2. Extended(s, q)[s] = [tstate[s] EXCEPT !.items = tstate[s].items \o q]
  BY <1>1 DEF Extended
<1>3. ExtendedAndOpen(s, q)[s] = [items |-> tstate[s].items \o q, phase |-> "CurrentTurn"]
  BY <1>1 DEF ExtendedAndOpen
<1>4. \A r \in States \ {s} : /\ Extended(s, q)[r] = tstate[r]
                             /\ ExtendedAndOpen(s, q)[r] = tstate[r]
  BY <1>1 DEF Extended, ExtendedAndOpen
<1>5. [tstate[s] EXCEPT !.items = tstate[s].items \o q].items = tstate[s].items \o q
  BY <1>1 DEF TurnState
<1> QED
  BY <1>2, <1>3, <1>4, <1>5

\* None is not a process.
LEMMA NoneIsNoProc == None \notin Procs
  BY ConstantsAssumption DEF Procs, Clients

\* What a process has in hand is put into the turn state it has captured.
LEMMA HandedOver ==
  ASSUME TypeOK, TypeOK', AllKept, NEW p \in Procs, loc[p].ts # None,
         tstate' = Extended(loc[p].ts, loc[p].mail), OthersWait(p),
         loc'[p] = [loc[p] EXCEPT !.mail = <<>>],
         mailbox' = mailbox, history' = history, fate' = fate
  PROVE  AllKept'
<1> DEFINE s == loc[p].ts
           m == loc[p].mail
<1>0. loc[p] \in Locals /\ s \in States /\ tstate' = Extended(s, m)
  BY DEF TypeOK, Locals
<1> HIDE DEF s, m
<1>a. /\ Extended(s, m)[s].items = tstate[s].items \o m
      /\ \A r \in States \ {s} : Extended(s, m)[r] = tstate[r]
  <2>1. s \in States
    BY <1>0
  <2>2. Extended(s, m)[s].items = tstate[s].items \o m
    BY <2>1, ExtendedIs
  <2>3. \A r \in States \ {s} : Extended(s, m)[r] = tstate[r]
    BY <2>1, ExtendedIs
  <2> QED
    BY <2>2, <2>3
<1>1. /\ tstate'[s].items = tstate[s].items \o loc[p].mail
      /\ \A r \in States \ {s} : tstate'[r] = tstate[r]
  BY <1>0, <1>a DEF m
<1>2. loc'[p].input = loc[p].input /\ loc'[p].mail = <<>>
  BY <1>0 DEF Locals
<1>3. LeftAlone({MailOf(p), PendingIn(s)})
  BY <1>1, <1>2 DEF LeftAlone, OthersWait
<1>4. /\ Holdings'[MailOf(p)] = <<>>
      /\ Holdings'[PendingIn(s)] = Holdings[PendingIn(s)] \o Holdings[MailOf(p)]
  BY <1>0, <1>1, <1>2, HoldingsAre, HoldingsAreThen
<1> QED
  BY <1>0, <1>3, <1>4, QueueMoves, QueueNames, QueuesDiffer

\* The task is put into the slot with its input, over whatever was there.
LEMMA InstallKeeps ==
  ASSUME TypeOK, TypeOK', Custody, AllKept, NEW p \in Procs, StartTaskInstall(p)
  PROVE  Custody' /\ AllKept'
<1> DEFINE t == loc[p].turn
           old == active.task
<1>0. /\ loc[p] \in Locals /\ pc[p] = "install" /\ HandsFit(pc[p], loc[p])
      /\ Installs(pc[p], loc[p])
  BY DEF TypeOK, Custody, HandsOK, StartTaskInstall, Installs
<1>1. /\ t \in Turns /\ t \in Procs /\ pc[t] = "unborn" /\ t \in spent /\ t # p
      /\ HandsFit(pc[t], loc[t]) /\ loc[t] \in Locals
  <2>1. t \in Turns
    BY <1>0 DEF HandsFit, Locals
  <2> QED
    BY <1>0, <2>1 DEF Custody, IdsOK, HandsOK, TypeOK, Procs
<1>2. /\ loc[t].input = <<>> /\ loc[t].mail = <<>> /\ loc[p].mail = <<>>
      /\ loc[p].input # <<>> => loc[p].kind = "Regular"
  BY <1>0, <1>1 DEF HandsFit, Aborting
<1>3. old # t /\ (old # None => old \in Turns /\ old \in Procs /\ pc[old] # "unborn")
  BY <1>1, ConstantsAssumption DEF Custody, IdsOK, TypeOK, Procs
<1>4. /\ pc'[t] = "begin"
      /\ loc'[t] = [Blank("dead") EXCEPT !.kind = loc[p].kind, !.input = loc[p].input]
  BY <1>1 DEF StartTaskInstall
<1>5. old # None => pc'[old] = "dead" /\ loc'[old] = Blank("dead")
  BY <1>3 DEF StartTaskInstall
<1>6. p # old => pc'[p] = loc[p].then /\ loc'[p] = Blank(loc[p].then)
  BY <1>1 DEF StartTaskInstall
<1>7. \A q \in Procs \ {t, old, p} : pc'[q] = pc[q] /\ loc'[q] = loc[q]
  BY DEF StartTaskInstall
<1>8. /\ active'.task = t /\ active'.ts \in States /\ active'.ts # None
      /\ spent \subseteq spent'
  BY SlotStateType, ConstantsAssumption DEF StartTaskInstall
<1>b. /\ loc[p].then \in {"idle", "dead", "exiting", "leaving"}
      /\ \A b \in {"idle", "dead", "exiting", "leaving"} :
            HandsFit(b, Blank(b)) /\ ~ Installs(b, Blank(b)) /\ Blank(b).then = b
      /\ p \in Turns => loc[p].then = "dead"
  BY <1>0 DEF HandsFit, Installs, Aborting, Blank, Locals, Custody, TasksOK
<1>c. /\ HandsFit("begin", loc'[t]) /\ loc'[t].then = "dead"
      /\ loc'[t].input = loc[p].input /\ loc'[t].mail = <<>>
      /\ ~ Installs("begin", loc'[t])
  BY <1>2, <1>4 DEF HandsFit, Installs, Aborting, Blank
<1>n. p # None
  BY NoneIsNoProc
<1> DEFINE Returned(q) == /\ pc'[q] \in {"idle", "dead", "exiting", "leaving"}
                          /\ HandsFit(pc'[q], loc'[q]) /\ ~ Installs(pc'[q], loc'[q])
                          /\ q \in Turns => pc'[q] = "dead" /\ loc'[q].then = "dead"
                          /\ loc'[q].input = <<>> /\ loc'[q].mail = <<>>
<1>o. old # None => Returned(old)
  BY <1>5, <1>b DEF Blank
<1>r. Returned(p)
  <2>1. CASE p = old
    BY <1>n, <1>o, <2>1
  <2>2. CASE p # old
    BY <1>6, <1>b, <2>2 DEF Blank
  <2> QED
    BY <2>1, <2>2
<1>e. ASSUME NEW q \in Procs, q \in {p, old} PROVE Returned(q)
  BY <1>e, <1>o, <1>r, NoneIsNoProc
<1> HIDE DEF t, old
<1>9. HandsOK'
  <2> SUFFICES ASSUME NEW q \in Procs PROVE HandsFit(pc'[q], loc'[q])
    BY DEF HandsOK
  <2>1. CASE q = t
    BY <1>4, <1>c, <2>1
  <2>2. CASE q # t /\ q \in {p, old}
    BY <1>e, <2>2
  <2>3. CASE q \notin {t, old, p}
    BY <1>7, <2>3 DEF Custody, HandsOK
  <2> QED
    BY <2>1, <2>2, <2>3
<1>10. TasksOK'
  <2> SUFFICES ASSUME NEW u \in Turns PROVE pc'[u] \in TurnLabels /\ loc'[u].then = "dead"
    BY DEF TasksOK
  <2>0. u \in Procs
    BY DEF Procs
  <2>1. CASE u = t
    BY <1>4, <1>c, <2>1 DEF TurnLabels, Working
  <2>2. CASE u # t /\ u \in {p, old}
    BY <1>e, <2>0, <2>2 DEF TurnLabels
  <2>3. CASE u \notin {t, old, p}
    BY <1>7, <2>0, <2>3 DEF Custody, TasksOK
  <2> QED
    BY <2>1, <2>2, <2>3
<1>11. \A u \in Turns : pc[u] # "unborn" => pc'[u] # "unborn"
  <2> SUFFICES ASSUME NEW u \in Turns, pc[u] # "unborn" PROVE pc'[u] # "unborn"
    OBVIOUS
  <2>0. u \in Procs
    BY DEF Procs
  <2>1. CASE u \in {p, old}
    BY <1>e, <2>0, <2>1
  <2>2. CASE u \notin {p, old}
    BY <1>1, <1>7, <2>0, <2>2
  <2> QED
    BY <2>1, <2>2
<1>12. \A u \in Turns : pc'[u] # "unborn" => u \in spent'
  <2> SUFFICES ASSUME NEW u \in Turns, pc'[u] # "unborn" PROVE u \in spent'
    OBVIOUS
  <2>0. u \in Procs
    BY DEF Procs
  <2>1. CASE u = t
    BY <1>1, <1>8, <2>1
  <2>2. CASE u # t
    <3>1. pc[u] # "unborn"
      <4>1. CASE u \in {p, old}
        BY <1>0, <1>3, <2>0, <4>1, NoneIsNoProc
      <4>2. CASE u \notin {p, old}
        BY <1>7, <2>0, <2>2, <4>2
      <4> QED
        BY <4>1, <4>2
    <3> QED
      BY <1>8, <3>1 DEF Custody, IdsOK
  <2> QED
    BY <2>1, <2>2
<1>13. ASSUME NEW q \in Procs, pc'[q] = "kill" PROVE pc'[loc'[q].victim] # "unborn"
  <2>0. q # t /\ q \notin {p, old}
    BY <1>4, <1>13, <1>e
  <2>1. pc[q] = "kill" /\ loc'[q] = loc[q]
    BY <1>7, <1>13, <2>0
  <2>2. HandsFit(pc[q], loc[q]) /\ loc[q].victim \in Turns \cup {None}
    BY DEF Custody, HandsOK, TypeOK, Locals
  <2>3. loc[q].victim \in Turns
    BY <2>1, <2>2 DEF HandsFit
  <2>4. pc[loc[q].victim] # "unborn"
    BY <2>1 DEF Custody, IdsOK
  <2> QED
    BY <1>11, <2>1, <2>3, <2>4
<1>14. ASSUME NEW q \in Procs, Installs(pc'[q], loc'[q])
       PROVE  /\ q \notin {t, old, p} /\ pc'[q] = pc[q] /\ loc'[q] = loc[q]
              /\ loc[q].turn \in spent' /\ pc'[loc[q].turn] = "unborn"
  <2>1. q \notin {t, old, p}
    BY <1>4, <1>14, <1>c, <1>e
  <2>2. pc'[q] = pc[q] /\ loc'[q] = loc[q]
    BY <1>7, <2>1
  <2>a. Installs(pc[q], loc[q]) /\ loc[q] \in Locals /\ HandsFit(pc[q], loc[q])
    BY <1>14, <2>2 DEF Custody, HandsOK, TypeOK
  <2>b. loc[q].turn \in Turns
    BY <2>a DEF HandsFit, Locals
  <2>3. /\ loc[q].turn \in Turns /\ loc[q].turn \in Procs
        /\ loc[q].turn \in spent /\ pc[loc[q].turn] = "unborn"
    BY <2>a, <2>b DEF Custody, IdsOK, Procs
  <2>4. loc[q].turn # t
    BY <1>0, <1>14, <2>1, <2>2 DEF Custody, IdsOK, t
  <2> QED
    BY <1>0, <1>3, <1>7, <1>8, <2>1, <2>2, <2>3, <2>4, NoneIsNoProc
<1>15. ASSUME NEW q \in Procs, NEW r \in Procs, Installs(pc'[q], loc'[q]),
              Installs(pc'[r], loc'[r]), loc'[q].turn = loc'[r].turn
       PROVE  q = r
  BY <1>14, <1>15 DEF Custody, IdsOK
<1>16. IdsOK'
  <2>1. active'.task # None => active'.ts # None /\ pc'[active'.task] # "unborn"
    BY <1>4, <1>8
  <2> QED
    BY <1>12, <1>13, <1>14, <1>15, <2>1 DEF IdsOK
<1>17. AllKept'
  <2>1. /\ Holdings'[InputOf(p)] = <<>>
        /\ Holdings'[InputOf(t)] = Holdings[InputOf(t)] \o Holdings[InputOf(p)]
        /\ InputOf(p) \in Queues /\ InputOf(t) \in Queues /\ InputOf(p) # InputOf(t)
    <3>1. loc'[p].input = <<>>
      BY <1>r
    <3>2. loc'[t].input = <<>> \o loc[p].input
      BY <1>0, <1>c DEF Locals
    <3> QED
      BY <1>1, <1>2, <3>1, <3>2, HoldingsAre, HoldingsAreThen, QueueNames, QueuesDiffer
  <2>2. mailbox' = mailbox /\ history' = history /\ tstate' = tstate
    BY DEF StartTaskInstall
  <2>3. loc'[p].mail = loc[p].mail /\ loc'[t].mail = loc[t].mail
    BY <1>2, <1>c, <1>r
  <2>4. CASE old \in Turns \ {p}
    <3> DEFINE S == {InputOf(old), MailOf(old)}
    <3>0. old \in Procs /\ old # None
      BY <1>3, <2>4, ConstantsAssumption
    <3>1. S \in SUBSET (Queues \ {InputOf(p), InputOf(t)})
      BY <1>3, <2>4, <3>0, QueueNames, QueuesDiffer
    <3>2. LeftAlone({InputOf(p), InputOf(t)} \cup S)
      BY <1>7, <2>2, <2>3 DEF LeftAlone
    <3>3. \A c \in S : Holdings'[c] = <<>>
      BY <1>5, <3>0, HoldingsAreThen DEF Blank
    <3>4. Contents(Holdings[InputOf(old)]) \cup Contents(Holdings[MailOf(old)]) = InHand(old)
      BY <3>0, HoldingsAre DEF InHand
    <3>5. fate' = Drop(InHand(old))
      BY <2>4 DEF StartTaskInstall, old
    <3>6. \A i \in Items : IF \E c \in S : i \in Contents(Holdings[c])
                           THEN fate'[i] # "accepted" ELSE fate'[i] = fate[i]
      BY <3>4, <3>5 DEF Drop
    <3> HIDE DEF S
    <3> QED
      BY <2>1, <3>1, <3>2, <3>3, <3>6, MoveAndDrop
  <2>5. CASE old \notin Turns \ {p}
    <3>1. old = None \/ old = p
      BY <1>3, <2>5
    <3>2. \A q \in Procs \ {t, p} : loc'[q] = loc[q]
      BY <1>7, <3>1, NoneIsNoProc
    <3>3. LeftAlone({InputOf(p), InputOf(t)})
      BY <2>2, <2>3, <3>2 DEF LeftAlone
    <3>4. fate' = fate
      BY <2>5 DEF StartTaskInstall, old
    <3> QED
      BY <2>1, <3>3, <3>4, QueueMoves
  <2> QED
    BY <2>4, <2>5
<1> QED
  BY <1>9, <1>10, <1>16, <1>17 DEF Custody

\* start_task passes the mailbox on to the turn, and its input to the task; a
\* task it finds in the slot is dropped with what it has in hand.
LEMMA StartTaskKeeps ==
  ASSUME TypeOK, TypeOK', Custody, AllKept, NEW p \in Procs, StartTask(p)
  PROVE  Custody' /\ AllKept'
<1>0. loc[p] \in Locals /\ HandsFit(pc[p], loc[p]) /\ pc[p] \in Labels
  BY DEF TypeOK, Custody, HandsOK
<1>t. p \in Turns => pc[p] \in TurnLabels /\ loc[p].then = "dead"
  BY DEF Custody, TasksOK
<1>a. active.task # None => active.ts # None
  BY DEF Custody, IdsOK
<1>1. CASE StartTaskDrain(p)
  <2>1. /\ OthersWait(p) /\ pc[p] = "drain" /\ pc'[p] = "adopt"
        /\ loc'[p] = [loc[p] EXCEPT !.mail = mailbox]
    BY <1>1 DEF StartTaskDrain, Goto, TypeOK, OthersWait
  <2>2. MovesWell(p)
    BY <1>0, <1>1, <1>t, <1>a, <2>1
    DEF StartTaskDrain, MovesWell, OthersWait, HandsFit, TurnIsKnown, Installs, Aborting,
        TurnLabels, Locals
  <2>3. loc[p].mail = <<>> /\ mailbox \in Seq(Items)
    BY <1>0, <2>1, MailIsItems DEF HandsFit, TypeOK
  <2>4. AllKept'
    <3>1. LeftAlone({TheMailbox, MailOf(p)})
      BY <1>0, <1>1, <2>1 DEF StartTaskDrain, LeftAlone, OthersWait, Locals
    <3>2. /\ Holdings'[TheMailbox] = <<>>
          /\ Holdings'[MailOf(p)] = Holdings[MailOf(p)] \o Holdings[TheMailbox]
      BY <1>0, <1>1, <2>1, <2>3, HoldingsAre, HoldingsAreThen DEF StartTaskDrain, Locals
    <3> QED
      BY <1>1, <3>1, <3>2, QueueMoves, QueueNames, QueuesDiffer DEF StartTaskDrain
  <2> QED
    BY <2>2, <2>4, MovesKeepCustody
<1>2. CASE StartTaskAdopt(p)
  <2>0. SlotState \in States /\ SlotState # None
    BY <1>2, SlotStateType, ConstantsAssumption DEF StartTaskAdopt
  <2>1. /\ OthersWait(p) /\ pc[p] = "adopt" /\ pc'[p] = "extend"
        /\ loc'[p] = [loc[p] EXCEPT !.ts = SlotState]
    BY <1>2 DEF StartTaskAdopt, Goto, TypeOK, OthersWait
  <2>a. active'.ts # None /\ active'.task = active.task
    BY <1>2, <2>0 DEF StartTaskAdopt, TypeOK
  <2>2. MovesWell(p)
    BY <1>0, <1>2, <1>t, <2>0, <2>1, <2>a
    DEF StartTaskAdopt, MovesWell, OthersWait, HandsFit, TurnIsKnown, Installs, Aborting,
        TurnLabels, Locals
  <2>3. loc'[p].input = loc[p].input /\ loc'[p].mail = loc[p].mail
    BY <1>0, <2>1 DEF Locals
  <2> QED
    BY <1>2, <2>1, <2>2, <2>3, QuietMove DEF StartTaskAdopt
<1>3. CASE StartTaskExtend(p)
  <2>1. /\ OthersWait(p) /\ pc[p] = "extend" /\ pc'[p] = "install"
        /\ loc'[p] = [loc[p] EXCEPT !.mail = <<>>]
    BY <1>3 DEF StartTaskExtend, Goto, TypeOK, OthersWait
  <2>2. MovesWell(p)
    BY <1>0, <1>3, <1>t, <1>a, <2>1
    DEF StartTaskExtend, MovesWell, OthersWait, HandsFit, TurnIsKnown, Installs, Aborting,
        TurnLabels, Locals
  <2>3. AllKept'
    BY <1>0, <1>3, <2>1, HandedOver DEF StartTaskExtend, HandsFit
  <2> QED
    BY <2>2, <2>3, MovesKeepCustody
<1>4. CASE StartTaskInstall(p)
  BY <1>4, InstallKeeps
<1> QED
  BY <1>1, <1>2, <1>3, <1>4 DEF StartTask

\* get_pending_input takes what is pending in the slot and the mailbox, or nothing.
LEMMA TakePendingKeeps ==
  ASSUME TypeOK, TypeOK', AllKept, NEW p \in Procs, NEW next, TakePending(p, next),
         loc[p].mail = <<>>
  PROVE  /\ AllKept' /\ OthersWait(p) /\ pc'[p] = next
         /\ loc'[p].input = loc[p].input /\ loc'[p].ts = loc[p].ts
         /\ loc'[p].turn = loc[p].turn /\ loc'[p].then = loc[p].then
         /\ loc'[p].reason = loc[p].reason
<1>0. loc[p] \in Locals /\ mailbox \in Seq(Items)
  BY MailIsItems DEF TypeOK
<1>1. pc'[p] = next /\ \A q \in Procs \ {p} : pc'[q] = pc[q]
  BY DEF TakePending, Goto, TypeOK
<1>2. CASE ~ Accepts
  <2>1. UNCHANGED <<tstate, mailbox, loc, history, fate>>
    BY <1>2 DEF TakePending
  <2>2. LeftAlone({})
    BY <2>1 DEF LeftAlone
  <2>3. AllKept'
    BY <2>1, <2>2, NothingMoves
  <2> QED
    BY <1>1, <2>1, <2>3 DEF OthersWait
<1>3. CASE Accepts
  <2>1. /\ loc' = [loc EXCEPT ![p].mail = ActiveItems \o mailbox] /\ mailbox' = <<>>
        /\ tstate' = IF active.ts = None THEN tstate
                     ELSE [tstate EXCEPT ![active.ts].items = <<>>]
        /\ history' = history /\ fate' = fate
    BY <1>3 DEF TakePending
  <2>2. /\ loc'[p] = [loc[p] EXCEPT !.mail = ActiveItems \o mailbox]
        /\ \A q \in Procs \ {p} : loc'[q] = loc[q]
    BY <2>1 DEF TypeOK
  <2>3. /\ loc'[p].mail = ActiveItems \o mailbox
        /\ loc'[p].input = loc[p].input /\ loc'[p].ts = loc[p].ts
        /\ loc'[p].turn = loc[p].turn /\ loc'[p].then = loc[p].then
        /\ loc'[p].reason = loc[p].reason
    BY <1>0, <2>2 DEF Locals
  <2>4. CASE active.ts = None
    <3>1. tstate' = tstate /\ loc'[p].mail = mailbox
      BY <1>0, <2>1, <2>3, <2>4 DEF ActiveItems
    <3>2. LeftAlone({TheMailbox, MailOf(p)})
      BY <2>1, <2>2, <2>3, <3>1 DEF LeftAlone
    <3>3. /\ Holdings'[TheMailbox] = <<>>
          /\ Holdings'[MailOf(p)] = Holdings[MailOf(p)] \o Holdings[TheMailbox]
      <4>1. mailbox' = <<>> /\ loc'[p].mail = loc[p].mail \o mailbox
        BY <1>0, <2>1, <3>1
      <4> QED
        BY <4>1, HoldingsAre, HoldingsAreThen
    <3>4. AllKept'
      BY <2>1, <3>2, <3>3, QueueMoves, QueueNames, QueuesDiffer
    <3> QED
      BY <1>1, <2>2, <2>3, <3>4 DEF OthersWait
  <2>5. CASE active.ts # None
    <3> DEFINE s == active.ts
    <3>1. s \in States /\ tstate[s] \in TurnState
      BY <2>5 DEF TypeOK
    <3>2. /\ tstate'[s].items = <<>> /\ \A r \in States \ {s} : tstate'[r] = tstate[r]
          /\ loc'[p].mail = tstate[s].items \o mailbox /\ tstate[s].items \in Seq(Items)
      BY <2>1, <2>3, <2>5, <3>1 DEF ActiveItems, TypeOK, TurnState
    <3> HIDE DEF s
    <3>3. LeftAlone({PendingIn(s), TheMailbox, MailOf(p)})
      BY <2>1, <2>2, <2>3, <3>2 DEF LeftAlone
    <3>4. /\ Holdings'[PendingIn(s)] = <<>> /\ Holdings'[TheMailbox] = <<>>
          /\ Holdings'[MailOf(p)]
               = (Holdings[MailOf(p)] \o Holdings[PendingIn(s)]) \o Holdings[TheMailbox]
      <4>1. mailbox' = <<>> /\ loc'[p].mail = (loc[p].mail \o tstate[s].items) \o mailbox
        BY <1>0, <2>1, <3>2
      <4> QED
        BY <3>1, <3>2, <4>1, HoldingsAre, HoldingsAreThen
    <3>5. AllKept'
      BY <2>1, <3>1, <3>3, <3>4, TwoQueuesMove, QueueNames, QueuesDiffer
    <3> QED
      BY <1>1, <2>2, <2>3, <3>5 DEF OthersWait
  <2> QED
    BY <2>4, <2>5
<1> QED
  BY <1>2, <1>3

\* A process that returns has nothing in hand.
LEMMA ReturnKeeps ==
  ASSUME TypeOK, TypeOK', Custody, AllKept, NEW p \in Procs, Return(p),
         loc[p].input = <<>>, loc[p].mail = <<>>, p \in Turns => pc[p] # "unborn",
         UNCHANGED <<tstate, mailbox, history, fate>>, spent' = spent,
         active' \in {active, Idle}
  PROVE  Custody' /\ AllKept'
<1>1. OthersWait(p) /\ pc'[p] = loc[p].then /\ loc'[p] = Blank(loc[p].then)
  BY DEF Return, TypeOK, OthersWait
<1>2. loc[p].then \in {"idle", "dead", "exiting", "leaving"} /\ (p \in Turns => loc[p].then = "dead")
  BY DEF TypeOK, Locals, Custody, TasksOK
<1>3. active'.task # None => active'.ts # None /\ active'.task = active.task
  BY DEF Idle, Custody, IdsOK
<1>4. MovesWell(p)
  BY <1>1, <1>2, <1>3
  DEF MovesWell, OthersWait, HandsFit, TurnIsKnown, Installs, Aborting, TurnLabels, Blank
<1>5. loc'[p].input = loc[p].input /\ loc'[p].mail = loc[p].mail
  BY <1>1 DEF Blank
<1> QED
  BY <1>1, <1>4, <1>5, QuietMove

\* maybe_start_turn_for_pending_work moves the gathered input into the reserved turn.
LEMMA MaybeStartTurnKeeps ==
  ASSUME TypeOK, TypeOK', Custody, AllKept, NEW p \in Procs, MaybeStartTurn(p)
  PROVE  Custody' /\ AllKept'
<1>0. loc[p] \in Locals /\ HandsFit(pc[p], loc[p]) /\ pc[p] \in Labels
  BY DEF TypeOK, Custody, HandsOK
<1>t. p \in Turns => pc[p] \in TurnLabels /\ loc[p].then = "dead"
  BY DEF Custody, TasksOK
<1>a. active.task # None => active.ts # None
  BY DEF Custody, IdsOK
<1>h. pc[p] \in {"maybe", "reserve", "gather"} => loc[p].input = <<>> /\ loc[p].mail = <<>>
  BY <1>0 DEF HandsFit, Aborting
<1>1. CASE CheckPendingWork(p)
  <2>1. CASE HasPendingWork
    <3>1. /\ OthersWait(p) /\ pc[p] = "maybe" /\ pc'[p] = "reserve" /\ loc' = loc
      BY <1>1, <2>1 DEF CheckPendingWork, Goto, TypeOK, OthersWait
    <3>2. MovesWell(p)
      BY <1>0, <1>1, <1>t, <1>a, <3>1
      DEF CheckPendingWork, MovesWell, OthersWait, HandsFit, TurnIsKnown, Installs,
          Aborting, TurnLabels
    <3> QED
      BY <1>1, <3>1, <3>2, QuietMove DEF CheckPendingWork
  <2>2. CASE ~ HasPendingWork
    BY <1>1, <1>h, <2>2, ReturnKeeps DEF CheckPendingWork
  <2> QED
    BY <2>1, <2>2
<1>2. CASE ReserveForWork(p)
  <2>0. NewState \in States /\ NewState # None /\ NewTurn \in Turns /\ NewTurn # None
    BY <1>2, ConstantsAssumption DEF ReserveForWork, NewState, FreeStates, NewTurn, FreeTurns
  <2>1. /\ OthersWait(p) /\ pc[p] = "reserve" /\ pc'[p] = "gather"
        /\ loc'[p] = [Blank(loc[p].then) EXCEPT !.ts = NewState, !.turn = NewTurn]
    BY <1>2 DEF ReserveForWork, Goto, TypeOK, OthersWait
  <2>2. /\ loc'[p].input = <<>> /\ loc'[p].mail = <<>> /\ loc'[p].ts = NewState
        /\ loc'[p].turn = NewTurn /\ loc'[p].then = loc[p].then
    BY <2>1 DEF Blank
  <2>a. active'.task = None /\ spent \subseteq spent' /\ NewTurn \in spent' /\ FreeTurns # {}
    BY <1>2 DEF ReserveForWork, Reserved
  <2>3. MovesWell(p)
    BY <1>t, <2>0, <2>1, <2>2, <2>a
    DEF MovesWell, OthersWait, HandsFit, TurnIsKnown, Installs, Aborting, TurnLabels
  <2> QED
    BY <1>2, <1>h, <2>1, <2>2, <2>3, QuietMove DEF ReserveForWork
<1>3. CASE ReserveRefused(p)
  BY <1>3, <1>h, ReturnKeeps DEF ReserveRefused
<1>4. CASE GatherPending(p)
  <2>0. TakePending(p, "hand") /\ pc[p] = "gather"
    BY <1>4 DEF GatherPending
  <2>1. /\ AllKept' /\ OthersWait(p) /\ pc'[p] = "hand"
        /\ loc'[p].input = loc[p].input /\ loc'[p].ts = loc[p].ts
        /\ loc'[p].turn = loc[p].turn /\ loc'[p].then = loc[p].then
        /\ loc'[p].reason = loc[p].reason
    BY <1>h, <2>0, TakePendingKeeps
  <2>2. MovesWell(p)
    BY <1>0, <1>h, <1>t, <1>a, <2>0, <2>1
    DEF TakePending, MovesWell, OthersWait, HandsFit, TurnIsKnown, Installs, Aborting, TurnLabels
  <2> QED
    BY <2>1, <2>2, MovesKeepCustody
<1>5. CASE HandOver(p)
  <2>1. /\ OthersWait(p) /\ pc[p] = "hand" /\ pc'[p] = "drain"
        /\ loc'[p] = [loc[p] EXCEPT !.mail = <<>>]
    BY <1>5 DEF HandOver, Goto, TypeOK, OthersWait
  <2>2. MovesWell(p)
    BY <1>0, <1>5, <1>t, <1>a, <2>1
    DEF HandOver, MovesWell, OthersWait, HandsFit, TurnIsKnown, Installs, Aborting,
        TurnLabels, Locals
  <2>3. AllKept'
    BY <1>0, <1>5, <2>1, HandedOver DEF HandOver, HandsFit
  <2> QED
    BY <2>2, <2>3, MovesKeepCustody
<1> QED
  BY <1>1, <1>2, <1>3, <1>4, <1>5 DEF MaybeStartTurn

\* Taking the task out of the slot moves no item.
LEMMA TakeTaskKeeps ==
  ASSUME TypeOK, TypeOK', Custody, AllKept, NEW p \in Procs, NEW reason, TakeTask(p, reason),
         p \notin Turns, active.task # None, pc[p] \in {"abort", "abortif"}
  PROVE  Custody' /\ AllKept'
<1>0. loc[p] \in Locals /\ HandsFit(pc[p], loc[p]) /\ active.ts # None
  BY DEF TypeOK, Custody, HandsOK, IdsOK
<1>1. /\ OthersWait(p) /\ pc'[p] = "kill"
      /\ loc'[p] = [loc[p] EXCEPT !.victim = active.task, !.ts = active.ts]
      /\ active'.task = None /\ spent' = spent
  BY DEF TakeTask, Goto, TypeOK, OthersWait, Idle
<1>2. /\ loc'[p].input = loc[p].input /\ loc'[p].mail = loc[p].mail /\ loc'[p].ts = active.ts
      /\ loc'[p].victim = active.task /\ loc'[p].reason = loc[p].reason
      /\ loc'[p].turn = loc[p].turn /\ loc'[p].kind = loc[p].kind
  BY <1>0, <1>1 DEF Locals
<1>3. MovesWell(p)
  BY <1>0, <1>1, <1>2 DEF MovesWell, OthersWait, HandsFit, TurnIsKnown, Installs, Aborting
<1> QED
  BY <1>1, <1>2, <1>3, QuietMove DEF TakeTask

\* An abort loses what the task has in hand and what is pending in its turn.
LEMMA AbortTaskKeeps ==
  ASSUME TypeOK, TypeOK', Custody, AllKept, NEW p \in Procs, AbortTask(p)
  PROVE  Custody' /\ AllKept'
<1>0. loc[p] \in Locals /\ HandsFit(pc[p], loc[p]) /\ pc[p] \in Labels
  BY DEF TypeOK, Custody, HandsOK
<1>t. p \notin Turns /\ pc[p] \in Aborting \cup {"abortif"}
  <2>1. pc[p] \in Aborting \cup {"abortif"}
    BY DEF AbortTask, AbortAllTasks, AbortNothing, AbortTurnIfActive, KillTask,
        ReportAborted, WipePending, Aborting
  <2> QED
    BY <2>1 DEF Custody, TasksOK, TurnLabels, Working, Aborting
<1>a. active.task # None => active.ts # None
  BY DEF Custody, IdsOK
<1>1. CASE AbortAllTasks(p)
  BY <1>1, <1>t, TakeTaskKeeps DEF AbortAllTasks
<1>2. CASE AbortNothing(p)
  <2>0. pc[p] = "abort" /\ active' = Idle /\ UNCHANGED <<spent, tstate, mailbox, history, fate>>
    BY <1>2 DEF AbortNothing
  <2>1. CASE loc[p].reason = "Replaced"
    <3>1. OthersWait(p) /\ pc'[p] = "drain" /\ loc' = loc
      BY <1>2, <2>1 DEF AbortNothing, Goto, TypeOK, OthersWait
    <3>2. MovesWell(p)
      BY <1>0, <1>t, <2>0, <2>1, <3>1
      DEF MovesWell, OthersWait, HandsFit, TurnIsKnown, Installs, Aborting, Idle
    <3> QED
      BY <2>0, <3>1, <3>2, QuietMove
  <2>2. CASE loc[p].reason # "Replaced"
    <3>1. loc[p].input = <<>> /\ loc[p].mail = <<>> /\ Return(p)
      BY <1>0, <1>2, <2>0, <2>2 DEF AbortNothing, HandsFit
    <3> QED
      BY <1>t, <2>0, <3>1, ReturnKeeps
  <2> QED
    BY <2>1, <2>2
<1>3. CASE AbortTurnIfActive(p)
  <2>0. pc[p] = "abortif"
    BY <1>3 DEF AbortTurnIfActive
  <2>1. CASE IsActive(loc[p].victim)
    BY <1>3, <1>t, <2>0, <2>1, TakeTaskKeeps DEF AbortTurnIfActive, IsActive
  <2>2. CASE ~ IsActive(loc[p].victim)
    <3>1. loc[p].input = <<>> /\ loc[p].mail = <<>> /\ Return(p)
      BY <1>0, <1>3, <2>0, <2>2 DEF AbortTurnIfActive, HandsFit, Aborting
    <3> QED
      BY <1>3, <1>t, <2>2, <3>1, ReturnKeeps DEF AbortTurnIfActive
  <2> QED
    BY <2>1, <2>2
<1>4. CASE KillTask(p)
  <2> DEFINE v == loc[p].victim
  <2>0. pc[p] = "kill" /\ v \in Turns /\ v \in Procs /\ pc[v] # "unborn" /\ v # p
    BY <1>0, <1>4, <1>t DEF KillTask, HandsFit, Locals, Custody, IdsOK, Procs
  <2>1. /\ pc'[v] = "dead" /\ loc'[v] = Blank("dead") /\ loc'[p] = loc[p]
        /\ pc'[p] \in {"tell", "wipe"}
        /\ \A q \in Procs \ {p, v} : pc'[q] = pc[q] /\ loc'[q] = loc[q]
    BY <1>4, <2>0 DEF KillTask, TypeOK
  <2> HIDE DEF v
  <2>2. MovesWell(p)
    BY <1>0, <1>4, <1>t, <1>a, <2>0, <2>1
    DEF KillTask, MovesWell, Ends, HandsFit, TurnIsKnown, Installs, Aborting
  <2>3. AllKept'
    <3> DEFINE S == {InputOf(v), MailOf(v)}
    <3>1. S \in SUBSET Queues
      BY <2>0, QueueNames
    <3>2. LeftAlone(S)
      BY <1>4, <2>1 DEF KillTask, LeftAlone
    <3>3. \A c \in S : Holdings'[c] = <<>>
      BY <2>0, <2>1, HoldingsAreThen DEF Blank
    <3>4. Contents(Holdings[InputOf(v)]) \cup Contents(Holdings[MailOf(v)]) = InHand(v)
      BY <2>0, HoldingsAre DEF InHand
    <3>5. fate' = Drop(InHand(v))
      BY <1>4 DEF KillTask, v
    <3>6. \A i \in Items : IF \E c \in S : i \in Contents(Holdings[c])
                           THEN fate'[i] # "accepted" ELSE fate'[i] = fate[i]
      BY <3>4, <3>5 DEF Drop
    <3> HIDE DEF S
    <3> QED
      BY <3>1, <3>2, <3>3, <3>6, QueuesAreDropped
  <2> QED
    BY <2>2, <2>3, MovesKeepCustody
<1>5. CASE ReportAborted(p)
  <2>1. OthersWait(p) /\ pc[p] = "tell" /\ pc'[p] = "wipe" /\ loc' = loc
    BY <1>5 DEF ReportAborted, Goto, TypeOK, OthersWait
  <2>2. MovesWell(p)
    BY <1>0, <1>5, <1>t, <1>a, <2>1
    DEF ReportAborted, MovesWell, OthersWait, HandsFit, TurnIsKnown, Installs, Aborting
  <2> QED
    BY <1>5, <2>1, <2>2, QuietMove DEF ReportAborted
<1>6. CASE WipePending(p)
  <2> DEFINE s == loc[p].ts
  <2>0. pc[p] = "wipe" /\ s \in States /\ tstate[s] \in TurnState /\ loc[p].reason \in Reasons
    BY <1>0, <1>6 DEF WipePending, HandsFit, Locals, TypeOK
  <2>1. /\ OthersWait(p) /\ pc'[p] = AfterAbort(loc[p].reason)
        /\ loc'[p] = [loc[p] EXCEPT !.victim = None, !.ts = None,
                         !.reason = IF @ = "Suspended" THEN "Interrupted" ELSE @]
    BY <1>6 DEF WipePending, Goto, TypeOK, OthersWait
  <2>2. /\ loc'[p].input = loc[p].input /\ loc'[p].mail = loc[p].mail
        /\ loc'[p].turn = loc[p].turn /\ loc'[p].kind = loc[p].kind
        /\ loc'[p].reason = IF loc[p].reason = "Suspended" THEN "Interrupted" ELSE loc[p].reason
    BY <1>0, <2>1 DEF Locals
  <2>3. /\ loc[p].reason = "Interrupted" => pc'[p] = "maybe"
        /\ loc[p].reason = "Replaced" => pc'[p] = "drain"
        /\ loc[p].reason = "Suspended" => pc'[p] = "abort"
    BY <2>1 DEF AfterAbort
  <2>a. active' = active /\ spent' = spent /\ pc'[p] \in {"maybe", "drain", "abort"}
    BY <1>6, <2>0, <2>3 DEF WipePending, Reasons
  <2>b. loc[p].mail = <<>> /\ (loc[p].input # <<>> => loc[p].reason = "Replaced")
    BY <1>0, <2>0 DEF HandsFit
  <2>c. HandsFit(pc'[p], loc'[p])
    <3>1. CASE loc[p].reason = "Replaced"
      BY <1>0, <2>0, <2>2, <2>3, <2>b, <3>1 DEF HandsFit, Installs, Aborting
    <3>2. CASE loc[p].reason # "Replaced"
      BY <2>0, <2>2, <2>3, <2>a, <2>b, <3>2 DEF HandsFit, Installs, Aborting, Reasons
    <3> QED
      BY <3>1, <3>2
  <2>d. TurnIsKnown(p)
    <3>1. CASE loc[p].reason = "Replaced"
      BY <2>0, <2>2, <3>1 DEF TurnIsKnown, Installs, Aborting
    <3>2. CASE loc[p].reason # "Replaced"
      BY <2>0, <2>2, <2>3, <3>2 DEF TurnIsKnown, Installs, Aborting, Reasons
    <3> QED
      BY <3>1, <3>2
  <2>4. MovesWell(p)
    BY <1>t, <1>a, <2>1, <2>a, <2>c, <2>d DEF MovesWell, OthersWait
  <2>5. /\ tstate'[s].items = <<>> /\ \A r \in States \ {s} : tstate'[r] = tstate[r]
        /\ fate' = Drop(Contents(tstate[s].items))
        /\ mailbox' = mailbox /\ history' = history
    BY <1>6, <2>0 DEF WipePending, TypeOK, TurnState
  <2> HIDE DEF s
  <2>6. AllKept'
    <3>1. LeftAlone({PendingIn(s)})
      BY <2>1, <2>2, <2>5 DEF LeftAlone, OthersWait
    <3>2. Holdings'[PendingIn(s)] = <<>> /\ Holdings[PendingIn(s)] = tstate[s].items
      BY <2>0, <2>5, HoldingsAre, HoldingsAreThen
    <3>3. \A i \in Items : IF \E c \in {PendingIn(s)} : i \in Contents(Holdings[c])
                           THEN fate'[i] # "accepted" ELSE fate'[i] = fate[i]
      BY <2>5, <3>2 DEF Drop
    <3>4. {PendingIn(s)} \in SUBSET Queues
      BY <2>0, QueueNames
    <3> QED
      BY <3>1, <3>2, <3>3, <3>4, QueuesAreDropped
  <2> QED
    BY <2>4, <2>6, MovesKeepCustody
<1> QED
  BY <1>1, <1>2, <1>3, <1>4, <1>5, <1>6 DEF AbortTask

\* Nobody moves.
LEMMA CustodyStays ==
  ASSUME Custody, UNCHANGED <<active, spent, pc, loc>>
  PROVE  Custody'
  BY DEF Custody, HandsOK, TasksOK, IdsOK, HandsFit, Installs

\* An item is put into the turn state of the slot.
LEMMA ArrivesInSlot ==
  ASSUME TypeOK, TypeOK', AllKept, NEW i \in Items, fate[i] = "unsent", fate' = Sent(i),
         active.ts \in States, tstate' = ExtendedAndOpen(active.ts, <<i>>),
         UNCHANGED <<loc, mailbox, history>>
  PROVE  AllKept'
<1> DEFINE s == active.ts
           q == <<i>>
<1>0. s \in States /\ tstate[s].items \in Seq(Items) /\ tstate' = ExtendedAndOpen(s, q)
  BY DEF TypeOK, TurnState
<1>1. tstate[s].items \o q = Append(tstate[s].items, i)
  BY <1>0
<1> HIDE DEF s, q
<1>2. s \in States
  BY <1>0
<1>3. ExtendedAndOpen(s, q)[s].items = tstate[s].items \o q
  BY <1>2, ExtendedIs
<1>4. \A r \in States \ {s} : ExtendedAndOpen(s, q)[r] = tstate[r]
  BY <1>2, ExtendedIs
<1>5. LeftAlone({PendingIn(s)})
  BY <1>0, <1>4 DEF LeftAlone
<1>6. Holdings'[PendingIn(s)] = Append(Holdings[PendingIn(s)], i)
  BY <1>0, <1>1, <1>3, HoldingsAre, HoldingsAreThen
<1> QED
  BY <1>2, <1>5, <1>6, ItemArrives, QueueNames

\* A steered item is put into the turn in the slot, a refused one nowhere.
LEMMA SteerKeeps ==
  ASSUME TypeOK, TypeOK', Custody, AllKept, NEW u \in UserInputs, fate[u] = "unsent",
         SteerInput(u) \/ SteerRefused(u)
  PROVE  Custody' /\ AllKept'
<1>0. u \in Items /\ UNCHANGED <<active, spent, pc, loc, mailbox, history>>
  BY DEF Items, SteerInput, SteerRefused
<1>1. Custody'
  BY <1>0, CustodyStays
<1>2. CASE SteerInput(u)
  <2>1. active.ts \in States
    BY <1>2 DEF SteerInput, Custody, IdsOK, TypeOK
  <2>2. AllKept'
    BY <1>0, <1>2, <2>1, ArrivesInSlot DEF SteerInput
  <2> QED
    BY <1>1, <2>2
<1>3. CASE SteerRefused(u)
  <2>1. LeftAlone({})
    BY <1>0, <1>3 DEF LeftAlone, SteerRefused
  <2>2. \A i \in Items : fate'[i] = fate[i] \/ (fate[i] # "accepted" /\ fate'[i] # "accepted")
    BY <1>0, <1>3 DEF SteerRefused, Rejected, TypeOK
  <2> QED
    BY <1>1, <2>1, <2>2, NothingMoves
<1> QED
  BY <1>2, <1>3

\* A client that takes up an operation has nothing in hand.
LEMMA IdleHands ==
  ASSUME TypeOK, Custody, NEW p \in Procs, pc[p] = "idle"
  PROVE  loc[p] \in Locals /\ loc[p].input = <<>> /\ loc[p].mail = <<>> /\ p \notin Turns
<1>1. HandsFit(pc[p], loc[p])
  BY DEF Custody, HandsOK
<1> QED
  BY <1>1 DEF HandsFit, Aborting, TypeOK, Custody, TasksOK, TurnLabels, Working

\* spawn_task has the input in hand.
LEMMA SpawnKeepsCustody ==
  ASSUME TypeOK, TypeOK', Custody, NEW p \in Procs, pc[p] = "idle",
         NEW kind, NEW input, input # <<>> => kind = "Regular", SpawnTask(p, kind, input)
  PROVE  /\ Custody' /\ OthersWait(p) /\ loc'[p].input = input /\ loc'[p].mail = loc[p].mail
<1>0. loc[p] \in Locals /\ loc[p].input = <<>> /\ loc[p].mail = <<>> /\ p \notin Turns
  BY IdleHands
<1>1. NewTurn \in Turns /\ NewTurn # None /\ FreeTurns # {}
  BY ConstantsAssumption DEF SpawnTask, NewTurn, FreeTurns
<1>2. /\ OthersWait(p) /\ pc'[p] = "abort"
      /\ loc'[p] = [loc[p] EXCEPT !.turn = NewTurn, !.kind = kind, !.input = input,
                                  !.reason = "Replaced"]
      /\ active' = active /\ spent' = spent \cup {NewTurn}
  BY DEF SpawnTask, Goto, TypeOK, OthersWait
<1>3. /\ loc'[p].input = input /\ loc'[p].mail = <<>> /\ loc'[p].reason = "Replaced"
      /\ loc'[p].turn = NewTurn /\ loc'[p].kind = kind
  BY <1>0, <1>2 DEF Locals
<1>a. active.task # None => active.ts # None
  BY DEF Custody, IdsOK
<1>4. MovesWell(p)
  BY <1>0, <1>1, <1>2, <1>3, <1>a
  DEF MovesWell, OthersWait, HandsFit, TurnIsKnown, Installs, Aborting
<1> QED
  BY <1>0, <1>2, <1>3, <1>4, MovesKeepCustody

\* A routed user input is steered into the turn, becomes the input of a new one, or is
\* refused.
LEMMA ClientOpKeeps ==
  ASSUME TypeOK, TypeOK', Custody, AllKept, NEW p \in Procs, ClientOp(p)
  PROVE  Custody' /\ AllKept'
<1>1. PICK u \in UserInputs : StartOrSteer(p, u)
  BY DEF ClientOp
<1>2. pc[p] = "idle" /\ fate[u] = "unsent" /\ u \in Items
  BY <1>1 DEF StartOrSteer, Ready, Items
<1>3. CASE SteerInput(u) \/ SteerRefused(u)
  BY <1>2, <1>3, SteerKeeps
<1>4. CASE SpawnTask(p, "Regular", <<u>>) /\ fate' = Sent(u)
  <2>1. Custody' /\ OthersWait(p) /\ loc'[p].input = <<u>> /\ loc'[p].mail = loc[p].mail
    BY <1>2, <1>4, SpawnKeepsCustody
  <2>2. LeftAlone({InputOf(p)})
    BY <1>4, <2>1 DEF SpawnTask, LeftAlone, OthersWait
  <2>3. Holdings'[InputOf(p)] = Append(Holdings[InputOf(p)], u)
    <3>1. loc'[p].input = Append(loc[p].input, u)
      BY <1>2, <2>1, IdleHands
    <3> QED
      BY <3>1, HoldingsAre, HoldingsAreThen
  <2>4. AllKept'
    BY <1>2, <1>4, <2>2, <2>3, ItemArrives, QueueNames
  <2> QED
    BY <2>1, <2>4
<1> QED
  BY <1>1, <1>3, <1>4 DEF StartOrSteer

\* start_if_idle has what it was given in hand, when the slot was free.
LEMMA StartIfIdleKeeps ==
  ASSUME TypeOK, TypeOK', Custody, AllKept, NEW p \in Procs, NEW op, NEW input, NEW extra,
         StartIfIdle(p, op, input, extra),
         \/ input = <<>> /\ extra = <<>>
         \/ \E i \in Items : \/ input = <<i>> /\ extra = <<>>
                             \/ input = <<>> /\ extra = <<i>>
  PROVE  Custody' /\ AllKept'
<1>0. pc[p] = "idle" /\ UNCHANGED <<tstate, mailbox, history>>
  BY DEF StartIfIdle, Ready
<1>h. loc[p] \in Locals /\ loc[p].input = <<>> /\ loc[p].mail = <<>> /\ p \notin Turns
  BY <1>0, IdleHands
<1>c. /\ (input = <<>> /\ extra = <<>>) => Contents(input \o extra) = {}
      /\ \A i \in Items : (input = <<i>> /\ extra = <<>>) => Contents(input \o extra) = {i}
      /\ \A i \in Items : (input = <<>> /\ extra = <<i>>) => Contents(input \o extra) = {i}
  BY DEF Contents
<1>1. CASE HasTrigger(mailbox) \/ active.ts # None
  <2>1. /\ UNCHANGED <<active, spent, pc, loc>>
        /\ fate' = [i \in Items |-> IF i \in Contents(input \o extra) THEN "rejected" ELSE fate[i]]
        /\ \A i \in Contents(input \o extra) : fate[i] = "unsent"
    BY <1>1 DEF StartIfIdle
  <2>2. \A i \in Items : fate'[i] = fate[i] \/ (fate[i] # "accepted" /\ fate'[i] # "accepted")
    BY <2>1
  <2>3. LeftAlone({})
    BY <1>0, <2>1 DEF LeftAlone
  <2> QED
    BY <2>1, <2>2, <2>3, CustodyStays, NothingMoves
<1>2. CASE ~ (HasTrigger(mailbox) \/ active.ts # None)
  <2>1. /\ FreeTurns # {} /\ FreeStates # {} /\ active' = Reserved(NewState)
        /\ spent' = spent \cup {NewState, NewTurn}
        /\ loc' = [loc EXCEPT ![p] = [@ EXCEPT !.ts = NewState, !.turn = NewTurn,
                       !.kind = "Regular", !.input = input, !.mail = extra]]
        /\ fate' = [i \in Items |-> IF i \in Contents(input \o extra) THEN "accepted" ELSE fate[i]]
        /\ \A i \in Contents(input \o extra) : fate[i] = "unsent"
        /\ Goto(p, "ifidle")
    BY <1>2 DEF StartIfIdle
  <2>2. NewState \in States /\ NewState # None /\ NewTurn \in Turns /\ NewTurn # None
    BY <2>1, ConstantsAssumption DEF NewState, FreeStates, NewTurn, FreeTurns
  <2>3. /\ OthersWait(p) /\ pc'[p] = "ifidle"
        /\ loc'[p] = [loc[p] EXCEPT !.ts = NewState, !.turn = NewTurn, !.kind = "Regular",
                                    !.input = input, !.mail = extra]
    BY <2>1 DEF Goto, TypeOK, OthersWait
  <2>4. /\ loc'[p].input = input /\ loc'[p].mail = extra /\ loc'[p].ts = NewState
        /\ loc'[p].turn = NewTurn /\ loc'[p].kind = "Regular"
    BY <1>h, <2>3 DEF Locals
  <2>a. active'.task = None /\ spent \subseteq spent' /\ NewTurn \in spent'
    BY <2>1 DEF Reserved
  <2>5. MovesWell(p)
    BY <1>h, <2>1, <2>2, <2>3, <2>4, <2>a
    DEF MovesWell, OthersWait, HandsFit, TurnIsKnown, Installs, Aborting
  <2>6. CASE input = <<>> /\ extra = <<>>
    <3>1. fate' = fate
      BY <1>c, <2>1, <2>6 DEF TypeOK
    <3> QED
      BY <1>0, <1>h, <2>3, <2>4, <2>5, <2>6, <3>1, QuietMove
  <2>7. ASSUME NEW i \in Items, input = <<i>> /\ extra = <<>>
        PROVE  AllKept'
    <3>0. Contents(input \o extra) = {i}
      BY <1>c, <2>7
    <3>1. fate' = Sent(i) /\ fate[i] = "unsent"
      BY <2>1, <3>0 DEF Sent, TypeOK
    <3>2. LeftAlone({InputOf(p)})
      BY <1>0, <1>h, <2>3, <2>4, <2>7 DEF LeftAlone, OthersWait
    <3>3. Holdings'[InputOf(p)] = Append(Holdings[InputOf(p)], i)
      <4>1. loc'[p].input = Append(loc[p].input, i)
        BY <1>h, <2>4, <2>7
      <4> QED
        BY <4>1, HoldingsAre, HoldingsAreThen
    <3> QED
      BY <3>1, <3>2, <3>3, ItemArrives, QueueNames
  <2>8. ASSUME NEW i \in Items, input = <<>> /\ extra = <<i>>
        PROVE  AllKept'
    <3>0. Contents(input \o extra) = {i}
      BY <1>c, <2>8
    <3>1. fate' = Sent(i) /\ fate[i] = "unsent"
      BY <2>1, <3>0 DEF Sent, TypeOK
    <3>2. LeftAlone({MailOf(p)})
      BY <1>0, <1>h, <2>3, <2>4, <2>8 DEF LeftAlone, OthersWait
    <3>3. Holdings'[MailOf(p)] = Append(Holdings[MailOf(p)], i)
      <4>1. loc'[p].mail = Append(loc[p].mail, i)
        BY <1>h, <2>4, <2>8
      <4> QED
        BY <4>1, HoldingsAre, HoldingsAreThen
    <3> QED
      BY <3>1, <3>2, <3>3, ItemArrives, QueueNames
  <2> QED
    BY <2>5, <2>6, <2>7, <2>8, MovesKeepCustody
<1> QED
  BY <1>1, <1>2

\* Giving the reservation back, what was in hand is refused after all.
LEMMA GiveUpKeeps ==
  ASSUME TypeOK, TypeOK', Custody, AllKept, NEW p \in Procs, p \notin Turns,
         NEW next \in {"maybe", loc[p].then}, GiveUpIdleStart(p, next)
  PROVE  Custody' /\ AllKept'
<1>0. loc[p] \in Locals /\ next \in {"maybe", "idle", "dead", "exiting", "leaving"}
  BY DEF TypeOK, Locals
<1>1. /\ OthersWait(p) /\ pc'[p] = next /\ loc'[p] = Blank(loc[p].then)
      /\ active' \in {active, Idle} /\ spent' = spent
  BY DEF GiveUpIdleStart, ClearReserved, Goto, TypeOK, OthersWait
<1>2. loc'[p].input = <<>> /\ loc'[p].mail = <<>> /\ loc'[p].reason = "Interrupted"
  BY <1>1 DEF Blank
<1>a. active'.task # None => active'.ts # None /\ active'.task = active.task
  BY <1>1 DEF Idle, Custody, IdsOK
<1>3. MovesWell(p)
  BY <1>0, <1>1, <1>2, <1>a
  DEF MovesWell, OthersWait, HandsFit, TurnIsKnown, Installs, Aborting
<1>4. AllKept'
  <2> DEFINE S == {InputOf(p), MailOf(p)}
  <2>1. S \in SUBSET Queues
    BY QueueNames
  <2>2. LeftAlone(S)
    BY <1>1 DEF GiveUpIdleStart, LeftAlone, OthersWait
  <2>3. \A c \in S : Holdings'[c] = <<>>
    BY <1>2, HoldingsAreThen
  <2>4. Contents(Holdings[InputOf(p)]) \cup Contents(Holdings[MailOf(p)]) = InHand(p)
    BY HoldingsAre DEF InHand
  <2>5. \A i \in Items : IF \E c \in S : i \in Contents(Holdings[c])
                         THEN fate'[i] # "accepted" ELSE fate'[i] = fate[i]
    BY <2>4 DEF GiveUpIdleStart
  <2> HIDE DEF S
  <2> QED
    BY <2>1, <2>2, <2>3, <2>5, QueuesAreDropped
<1> QED
  BY <1>3, <1>4, MovesKeepCustody

\* The second half of start_if_idle hands the item over or refuses it.
LEMMA SettleKeeps ==
  ASSUME TypeOK, TypeOK', Custody, AllKept, NEW p \in Procs, p \notin Turns, SettleIdleStart(p)
  PROVE  Custody' /\ AllKept'
<1>0. loc[p] \in Locals /\ HandsFit(pc[p], loc[p]) /\ pc[p] = "ifidle"
  BY DEF TypeOK, Custody, HandsOK, SettleIdleStart
<1>a. active.task # None => active.ts # None
  BY DEF Custody, IdsOK
<1>1. CASE GiveUpIdleStart(p, "maybe") \/ GiveUpIdleStart(p, loc[p].then)
  BY <1>1, GiveUpKeeps
<1>2. CASE /\ tstate' = Extended(loc[p].ts, loc[p].mail)
           /\ loc' = [loc EXCEPT ![p].mail = <<>>]
           /\ Goto(p, "drain")
           /\ UNCHANGED <<active, spent, mailbox, history, status,
                          cancelled, terminal, fate, posted, suspended>>
  <2>1. /\ OthersWait(p) /\ pc'[p] = "drain" /\ loc'[p] = [loc[p] EXCEPT !.mail = <<>>]
    BY <1>2 DEF Goto, TypeOK, OthersWait
  <2>2. MovesWell(p)
    BY <1>0, <1>2, <1>a, <2>1
    DEF MovesWell, OthersWait, HandsFit, TurnIsKnown, Installs, Aborting, Locals
  <2>3. AllKept'
    BY <1>0, <1>2, <2>1, HandedOver DEF HandsFit
  <2> QED
    BY <2>2, <2>3, MovesKeepCustody
<1> QED
  BY <1>1, <1>2 DEF SettleIdleStart

\* A client moves with nothing in hand.
LEMMA EmptyHandedMove ==
  ASSUME TypeOK, TypeOK', Custody, AllKept, NEW p \in Procs, p \notin Turns, OthersWait(p),
         loc[p].input = <<>>, loc[p].mail = <<>>, loc'[p].input = <<>>, loc'[p].mail = <<>>,
         pc'[p] \in {"abort", "kill", "idle", "maybe", "exited"}, loc'[p].reason # "Replaced",
         pc'[p] = "kill" => /\ active.task # None /\ loc'[p].victim = active.task
                            /\ loc'[p].ts = active.ts,
         active' \in {active, Idle}, spent' = spent,
         UNCHANGED <<tstate, mailbox, history, fate>>
  PROVE  Custody' /\ AllKept'
<1>1. active.task # None => active.ts # None
  BY DEF Custody, IdsOK
<1>2. active'.task # None => active'.ts # None /\ active'.task = active.task
  BY <1>1 DEF Idle
<1>3. HandsFit(pc'[p], loc'[p]) /\ ~ Installs(pc'[p], loc'[p])
  BY <1>1 DEF HandsFit, Installs, Aborting
<1>4. MovesWell(p)
  BY <1>2, <1>3 DEF MovesWell, OthersWait, TurnIsKnown
<1> QED
  BY <1>4, QuietMove

\* Every operation of the submission loop keeps custody and the items.
LEMMA LoopOpKeeps ==
  ASSUME TypeOK, TypeOK', Custody, AllKept, LoopOp(Loop)
  PROVE  Custody' /\ AllKept'
<1>0. Loop \in Procs /\ Loop \notin Turns /\ loc[Loop] \in Locals
  BY ConstantsAssumption DEF Procs, Clients, TypeOK
<1>h. pc[Loop] \in {"idle", "exiting", "leaving"} => loc[Loop].input = <<>> /\ loc[Loop].mail = <<>>
  <2>1. HandsFit(pc[Loop], loc[Loop])
    BY <1>0 DEF Custody, HandsOK
  <2> QED
    BY <2>1 DEF HandsFit, Aborting
<1>1. ASSUME NEW u \in UserInputs, Steer(Loop, u) PROVE Custody' /\ AllKept'
  BY <1>1, SteerKeeps DEF Steer
<1>2. ASSUME NEW u \in UserInputs, StartIfIdle(Loop, "StartIfIdle", <<u>>, <<>>)
      PROVE  Custody' /\ AllKept'
  <2>1. u \in Items
    BY DEF Items
  <2> QED
    BY <1>0, <1>2, <2>1, StartIfIdleKeeps
<1>3. ASSUME NEW x \in Notices, StartIfIdle(Loop, "StartIfIdle", <<>>, <<x>>)
      PROVE  Custody' /\ AllKept'
  <2>1. x \in Items
    BY DEF Items
  <2> QED
    BY <1>0, <1>3, <2>1, StartIfIdleKeeps
<1>4. CASE StartIfIdle(Loop, "Recover", <<>>, <<>>)
  BY <1>0, <1>4, StartIfIdleKeeps
<1>5. CASE SettleIdleStart(Loop)
  BY <1>0, <1>5, SettleKeeps
<1>6. CASE CompactOp(Loop)
  <2>0. pc[Loop] = "idle" /\ SpawnTask(Loop, "Compact", <<>>) /\ fate' = fate
    BY <1>6 DEF CompactOp, Ready
  <2>1. /\ Custody' /\ OthersWait(Loop) /\ loc'[Loop].input = <<>>
        /\ loc'[Loop].mail = loc[Loop].mail
    BY <1>0, <2>0, SpawnKeepsCustody
  <2>2. LeftAlone({})
    BY <1>h, <2>0, <2>1 DEF SpawnTask, LeftAlone, OthersWait
  <2> QED
    BY <2>0, <2>1, <2>2, NothingMoves
<1>7. CASE Interrupt(Loop)
  <2>1. /\ OthersWait(Loop) /\ pc[Loop] = "idle" /\ pc'[Loop] = "abort"
        /\ loc'[Loop] = [loc[Loop] EXCEPT !.reason = "Interrupted"]
        /\ UNCHANGED <<active, spent, tstate, mailbox, history, fate>>
    BY <1>0, <1>7 DEF Interrupt, Ready, Goto, TypeOK, OthersWait
  <2>2. /\ loc'[Loop].input = <<>> /\ loc'[Loop].mail = <<>>
        /\ loc'[Loop].reason = "Interrupted"
    BY <1>0, <1>h, <2>1 DEF Locals
  <2> QED
    BY <1>0, <1>h, <2>1, <2>2, EmptyHandedMove
<1>8. ASSUME NEW m \in Mails, Communicate(Loop, m) PROVE Custody' /\ AllKept'
  <2>0. m \in Items
    BY DEF Items
  <2>1. /\ OthersWait(Loop) /\ pc[Loop] = "idle" /\ pc'[Loop] \in {"maybe", "idle"}
        /\ UNCHANGED <<active, spent, tstate, loc, history>>
        /\ mailbox' = Append(mailbox, m) /\ fate[m] = "unsent" /\ fate' = Sent(m)
    BY <1>0, <1>8 DEF Communicate, Ready, Goto, TypeOK, OthersWait
  <2>2. LeftAlone({TheMailbox})
    BY <2>1 DEF LeftAlone
  <2>3. Holdings'[TheMailbox] = Append(Holdings[TheMailbox], m)
    BY <2>1, HoldingsAre, HoldingsAreThen
  <2>4. AllKept'
    BY <2>0, <2>1, <2>2, <2>3, ItemArrives, QueueNames
  <2>5. active.task # None => active.ts # None
    BY DEF Custody, IdsOK
  <2>6. MovesWell(Loop)
    BY <1>0, <1>h, <2>1, <2>5
    DEF MovesWell, OthersWait, HandsFit, TurnIsKnown, Installs, Aborting
  <2> QED
    BY <1>0, <2>4, <2>6, MovesKeepCustody
<1>9. CASE Shutdown(Loop)
  <2>1. /\ OthersWait(Loop) /\ pc[Loop] = "idle" /\ pc'[Loop] = "abort"
        /\ loc'[Loop] = [loc[Loop] EXCEPT !.reason = "Interrupted", !.then = "exiting"]
        /\ UNCHANGED <<active, spent, tstate, mailbox, history, fate>>
    BY <1>0, <1>9 DEF Shutdown, Ready, Goto, TypeOK, OthersWait
  <2>2. /\ loc'[Loop].input = <<>> /\ loc'[Loop].mail = <<>>
        /\ loc'[Loop].reason = "Interrupted"
    BY <1>0, <1>h, <2>1 DEF Locals
  <2> QED
    BY <1>0, <1>h, <2>1, <2>2, EmptyHandedMove
<1>10. CASE Suspend(Loop)
  <2>1. /\ OthersWait(Loop) /\ pc[Loop] = "idle" /\ pc'[Loop] = "kill"
        /\ active.task # None /\ active' = Idle
        /\ loc'[Loop] = [loc[Loop] EXCEPT !.victim = active.task, !.ts = active.ts,
                                          !.reason = "Suspended", !.then = "leaving"]
        /\ UNCHANGED <<spent, tstate, mailbox, history, fate>>
    BY <1>0, <1>10 DEF Suspend, Ready, Goto, TypeOK, OthersWait
  <2>2. /\ loc'[Loop].input = <<>> /\ loc'[Loop].mail = <<>>
        /\ loc'[Loop].reason = "Suspended" /\ loc'[Loop].victim = active.task
        /\ loc'[Loop].ts = active.ts
    BY <1>0, <1>h, <2>1 DEF Locals
  <2> QED
    BY <1>0, <1>h, <2>1, <2>2, EmptyHandedMove
<1>11. CASE ExitLoop(Loop)
  <2>1. /\ OthersWait(Loop) /\ pc[Loop] = "exiting" /\ pc'[Loop] = "exited"
        /\ UNCHANGED <<active, spent, loc, tstate, mailbox, history, fate>>
    BY <1>0, <1>11 DEF ExitLoop, Goto, TypeOK, OthersWait
  <2>2. active.task # None => active.ts # None
    BY DEF Custody, IdsOK
  <2>3. MovesWell(Loop)
    BY <1>0, <1>h, <2>1, <2>2
    DEF MovesWell, OthersWait, HandsFit, TurnIsKnown, Installs, Aborting
  <2> QED
    BY <1>0, <2>1, <2>3, QuietMove
<1>12. CASE FinishSuspend(Loop)
  <2>1. /\ OthersWait(Loop) /\ pc[Loop] = "leaving"
        /\ \/ pc'[Loop] = "exited" /\ loc' = loc
           \/ pc'[Loop] = "idle" /\ loc'[Loop] = Blank("idle")
        /\ UNCHANGED <<active, spent, tstate, mailbox, history, fate>>
    BY <1>0, <1>12 DEF FinishSuspend, Goto, TypeOK, OthersWait
  <2>2. loc'[Loop].input = <<>> /\ loc'[Loop].mail = <<>>
    BY <1>h, <2>1 DEF Blank
  <2>3. active.task # None => active.ts # None
    BY DEF Custody, IdsOK
  <2>4. MovesWell(Loop)
    BY <1>0, <1>h, <2>1, <2>2, <2>3
    DEF MovesWell, OthersWait, HandsFit, TurnIsKnown, Installs, Aborting
  <2> QED
    BY <1>0, <1>h, <2>1, <2>2, <2>4, QuietMove
<1> QED
  BY <1>1, <1>2, <1>3, <1>4, <1>5, <1>6, <1>7, <1>8, <1>9, <1>10, <1>11, <1>12 DEF LoopOp

\* An injected item goes to the turn in the slot, to the history, or back.
LEMMA InjectKeeps ==
  ASSUME TypeOK, TypeOK', Custody, AllKept, NEW x \in Notices, Inject(x)
  PROVE  Custody' /\ AllKept'
<1>0. /\ x \in Items /\ fate[x] = "unsent"
      /\ UNCHANGED <<active, spent, pc, loc, mailbox>>
  BY DEF Items, Inject
<1>1. Custody'
  BY <1>0, CustodyStays
<1>2. CASE active.ts # None /\ tstate' = ExtendedAndOpen(active.ts, <<x>>)
           /\ fate' = Sent(x) /\ UNCHANGED history
  <2>1. active.ts \in States
    BY <1>2 DEF TypeOK
  <2> QED
    BY <1>0, <1>1, <1>2, <2>1, ArrivesInSlot
<1>3. CASE history' = Append(history, x) /\ fate' = Sent(x) /\ UNCHANGED tstate
  <2>1. LeftAlone({TheHistory})
    BY <1>0, <1>3 DEF LeftAlone
  <2>2. Holdings'[TheHistory] = Append(Holdings[TheHistory], x)
    BY <1>3, HoldingsAre, HoldingsAreThen
  <2>3. AllKept'
    BY <1>0, <1>3, <2>1, <2>2, ItemArrives, QueueNames
  <2> QED
    BY <1>1, <2>3
<1>4. CASE fate' = Rejected(x) /\ UNCHANGED <<tstate, history>>
  <2>1. LeftAlone({})
    BY <1>0, <1>4 DEF LeftAlone
  <2>2. \A i \in Items : fate'[i] = fate[i] \/ (fate[i] # "accepted" /\ fate'[i] # "accepted")
    BY <1>0, <1>4 DEF Rejected, TypeOK
  <2> QED
    BY <1>1, <2>1, <2>2, NothingMoves
<1> QED
  BY <1>2, <1>3, <1>4 DEF Inject

\* What recording does to the items: a queue of the task goes to the history.
LEMMA TaskRecords ==
  ASSUME TypeOK, TypeOK', AllKept, NEW t \in Procs, OthersWait(t), NEW a \in {InputOf(t),
         MailOf(t)},
         loc'[t].input = IF a = InputOf(t) THEN <<>> ELSE loc[t].input,
         loc'[t].mail = IF a = MailOf(t) THEN <<>> ELSE loc[t].mail,
         UNCHANGED <<tstate, mailbox>>,
         history' = history \o Recordable(Holdings[a]),
         fate' = Drop(Contents(Holdings[a]) \cap BlockedInputs)
  PROVE  AllKept'
<1>1. a \in Queues /\ a # TheHistory
  BY QueueNames, QueuesDiffer
<1>2. LeftAlone({a, TheHistory})
  BY QueuesDiffer DEF LeftAlone, OthersWait
<1>3. Holdings'[a] = <<>>
  BY HoldingsAreThen
<1> QED
  BY <1>1, <1>2, <1>3, QueueIsRecorded

\* The task throws its input away.
LEMMA TaskDropsInput ==
  ASSUME TypeOK, TypeOK', AllKept, NEW t \in Procs, OthersWait(t),
         loc'[t].input = <<>>, loc'[t].mail = loc[t].mail,
         UNCHANGED <<tstate, mailbox, history>>, fate' = Drop(Contents(loc[t].input))
  PROVE  AllKept'
<1> DEFINE S == {InputOf(t)}
<1>1. S \in SUBSET Queues
  BY QueueNames
<1>2. LeftAlone(S)
  BY DEF LeftAlone, OthersWait
<1>3. \A c \in S : Holdings'[c] = <<>>
  BY HoldingsAreThen
<1>4. \A i \in Items : IF \E c \in S : i \in Contents(Holdings[c])
                       THEN fate'[i] # "accepted" ELSE fate'[i] = fate[i]
  BY HoldingsAre DEF Drop
<1> HIDE DEF S
<1> QED
  BY <1>1, <1>2, <1>3, <1>4, QueuesAreDropped

\* A turn that is opened or closed to mail keeps its items.
LEMMA PhaseKeepsItems ==
  ASSUME TypeOK, Custody, NEW t, tstate' \in {tstate, Opened(t), Deferred(t)}
  PROVE  \A s \in States : tstate'[s].items = tstate[s].items
<1>1. IsActive(t) => active.ts \in States
  BY DEF IsActive, Custody, IdsOK, TypeOK
<1>2. \A s \in States : tstate[s] \in TurnState
  BY DEF TypeOK
<1>3. CASE tstate' = tstate
  BY <1>3
<1>4. ASSUME NEW f, active.ts \in States, tstate' = [tstate EXCEPT ![active.ts].phase = f]
      PROVE  \A s \in States : tstate'[s].items = tstate[s].items
  <2> SUFFICES ASSUME NEW s \in States PROVE tstate'[s].items = tstate[s].items
    OBVIOUS
  <2>1. CASE s = active.ts
    <3>1. tstate'[s] = [tstate[s] EXCEPT !.phase = f]
      BY <1>4, <2>1 DEF TypeOK
    <3> QED
      BY <1>2, <3>1 DEF TurnState
  <2>2. CASE s # active.ts
    BY <1>4, <2>2 DEF TypeOK
  <2> QED
    BY <2>1, <2>2
<1> QED
  BY <1>1, <1>3, <1>4 DEF Opened, Deferred

\* What a working task may become.
LEMMA TaskMoves ==
  ASSUME TypeOK, TypeOK', Custody, NEW t \in Turns, OthersWait(t), pc[t] # "unborn",
         pc'[t] \in Working \cup {"report", "clear", "maybe"}, UNCHANGED spent,
         loc'[t].then = loc[t].then,
         loc'[t].input = <<>> \/ (pc'[t] = "prep" /\ loc[t].kind = "Regular"
                                  /\ loc'[t].kind = loc[t].kind),
         loc'[t].mail = <<>> \/ pc'[t] = "record",
         pc'[t] = "report" => loc'[t].ts # None,
         active'.task # None => active' = active
  PROVE  MovesWell(t)
<1>1. active.task # None => active.ts # None
  BY DEF Custody, IdsOK
<1>2. loc[t].then = "dead"
  BY DEF Custody, TasksOK
<1>3. HandsFit(pc'[t], loc'[t]) /\ ~ Installs(pc'[t], loc'[t])
  BY DEF HandsFit, Installs, Aborting, Working
<1>4. pc'[t] \in TurnLabels \ {"unborn"} /\ pc'[t] # "kill"
  BY DEF TurnLabels, Working
<1> QED
  BY <1>1, <1>2, <1>3, <1>4 DEF MovesWell, OthersWait, TurnIsKnown

\* A task that works on with nothing in hand and moves no item.
LEMMA TaskGoesOn ==
  ASSUME TypeOK, TypeOK', Custody, AllKept, NEW t \in Turns, OthersWait(t),
         pc[t] # "unborn", loc[t].mail = <<>>,
         pc'[t] \in Working, UNCHANGED <<active, spent, mailbox, history, fate>>,
         loc'[t].then = loc[t].then, loc'[t].kind = loc[t].kind,
         loc'[t].input = loc[t].input, loc'[t].mail = loc[t].mail,
         loc[t].input = <<>> \/ (pc'[t] = "prep" /\ loc[t].kind = "Regular"),
         tstate' \in {tstate, Opened(t), Deferred(t)}
  PROVE  Custody' /\ AllKept'
<1>0. t \in Procs
  BY DEF Procs
<1>1. MovesWell(t)
  BY TaskMoves DEF Working
<1> QED
  BY <1>0, <1>1, PhaseKeepsItems, QuietMove

\* Every step of a task keeps custody and the items.
LEMMA RunTaskKeeps ==
  ASSUME TypeOK, TypeOK', Custody, AllKept, NEW t \in Turns, RunTask(t)
  PROVE  Custody' /\ AllKept'
<1>0. t \in Procs /\ loc[t] \in Locals /\ pc[t] \in Labels
  BY DEF Procs, TypeOK
<1>h. HandsFit(pc[t], loc[t])
  BY <1>0 DEF Custody, HandsOK
<1>i. pc[t] \in {"compact", "step", "record", "sample", "post", "hooks", "over"}
        => loc[t].input = <<>>
  BY <1>h DEF HandsFit, Aborting
<1>m. pc[t] \in Working \ {"record"} => loc[t].mail = <<>>
  BY <1>h DEF HandsFit, Working
<1>g. ASSUME NEW l, Goto(t, l) PROVE pc'[t] = l /\ \A q \in Procs \ {t} : pc'[q] = pc[q]
  BY <1>0, <1>g DEF Goto, TypeOK
<1>1. CASE Begin(t)
  <2>1. /\ OthersWait(t) /\ pc[t] = "begin" /\ loc' = loc
        /\ pc'[t] = IF loc[t].kind = "Regular" THEN "prep" ELSE "compact"
        /\ UNCHANGED <<active, tstate, spent, mailbox, history, fate>>
    BY <1>0, <1>1, <1>g DEF Begin, OthersWait
  <2>2. loc[t].input # <<>> => loc[t].kind = "Regular"
    BY <1>h DEF HandsFit
  <2>3. loc[t].mail = <<>> /\ pc'[t] \in Working /\ pc[t] # "unborn"
    BY <1>m, <2>1 DEF Working
  <2> QED
    BY <2>1, <2>2, <2>3, TaskGoesOn
<1>2. ASSUME NEW r \in Results, RunCompact(t, r) \/ SampleFails(t, r) \/ RollOverFails(t, r)
      PROVE  Custody' /\ AllKept'
  <2>1. /\ OthersWait(t) /\ pc[t] \in {"compact", "sample", "post"} /\ pc'[t] = "end"
        /\ loc'[t] = [loc[t] EXCEPT !.result = r]
        /\ UNCHANGED <<active, tstate, spent, mailbox, history, fate>>
    BY <1>0, <1>2, <1>g DEF RunCompact, SampleFails, RollOverFails, OthersWait, TypeOK
  <2>2. /\ loc'[t].input = loc[t].input /\ loc'[t].mail = loc[t].mail
        /\ loc'[t].kind = loc[t].kind /\ loc'[t].then = loc[t].then
    BY <1>0, <2>1 DEF Locals
  <2>3. loc[t].mail = <<>> /\ loc[t].input = <<>> /\ pc'[t] \in Working /\ pc[t] # "unborn"
    BY <1>i, <1>m, <2>1 DEF Working
  <2> QED
    BY <2>1, <2>2, <2>3, TaskGoesOn
<1>3. CASE RecordInput(t) \/ CancelPrepare(t)
  <2>1. /\ OthersWait(t) /\ pc[t] = "prep" /\ pc'[t] \in {"over", "step", "sample", "end"}
        /\ \/ loc'[t] = [loc[t] EXCEPT !.input = <<>>]
           \/ loc'[t] = [loc[t] EXCEPT !.input = <<>>, !.result = "aborted"]
        /\ history' = history \o Recordable(loc[t].input)
        /\ fate' = Drop(Contents(loc[t].input) \cap BlockedInputs)
        /\ UNCHANGED <<active, tstate, spent, mailbox>>
    BY <1>0, <1>3, <1>g DEF RecordInput, CancelPrepare, OthersWait, TypeOK
  <2>2. loc'[t].input = <<>> /\ loc'[t].mail = loc[t].mail /\ loc'[t].then = loc[t].then
    BY <1>0, <2>1 DEF Locals
  <2>3. loc[t].mail = <<>> /\ pc'[t] \in Working
    BY <1>m, <2>1 DEF Working
  <2>4. MovesWell(t)
    BY <2>1, <2>2, <2>3, TaskMoves
  <2>5. AllKept'
    <3>1. Holdings[InputOf(t)] = loc[t].input /\ InputOf(t) # MailOf(t)
      BY <1>0, HoldingsAre, QueuesDiffer
    <3> QED
      BY <1>0, <2>1, <2>2, <3>1, TaskRecords
  <2> QED
    BY <1>0, <2>4, <2>5, MovesKeepCustody
<1>4. CASE FailPrepare(t) \/ SessionStartStops(t)
  <2>1. /\ OthersWait(t) /\ pc[t] \in {"prep", "post"} /\ pc'[t] \in {"over", "end"}
        /\ \/ loc'[t] = [loc[t] EXCEPT !.input = <<>>, !.result = "error"]
           \/ loc'[t] = [loc[t] EXCEPT !.input = <<>>, !.samples = loc[t].samples + 1]
        /\ fate' = Drop(Contents(loc[t].input))
        /\ UNCHANGED <<active, tstate, spent, mailbox, history>>
    BY <1>0, <1>4, <1>g DEF FailPrepare, SessionStartStops, OthersWait, TypeOK
  <2>2. loc'[t].input = <<>> /\ loc'[t].mail = loc[t].mail /\ loc'[t].then = loc[t].then
    BY <1>0, <2>1 DEF Locals
  <2>3. loc[t].mail = <<>> /\ pc'[t] \in Working
    BY <1>m, <2>1 DEF Working
  <2>4. MovesWell(t)
    BY <2>1, <2>2, <2>3, TaskMoves
  <2>5. AllKept'
    BY <1>0, <2>1, <2>2, TaskDropsInput
  <2> QED
    BY <1>0, <2>4, <2>5, MovesKeepCustody
<1>5. CASE DrainPending(t)
  <2>0. pc[t] = "step" /\ TakePending(t, "record") /\ UNCHANGED <<active, spent>>
    BY <1>5 DEF DrainPending, TakePending
  <2>1. loc[t].mail = <<>> /\ loc[t].input = <<>>
    BY <1>i, <1>m, <2>0 DEF Working
  <2>2. /\ AllKept' /\ OthersWait(t) /\ pc'[t] = "record"
        /\ loc'[t].input = loc[t].input /\ loc'[t].then = loc[t].then
    BY <1>0, <2>0, <2>1, TakePendingKeeps
  <2>3. MovesWell(t)
    BY <2>0, <2>1, <2>2, TaskMoves DEF Working
  <2> QED
    BY <1>0, <2>2, <2>3, MovesKeepCustody
<1>6. CASE RecordPending(t)
  <2>1. /\ OthersWait(t) /\ pc[t] = "record" /\ pc'[t] \in {"over", "sample"}
        /\ loc'[t] = [loc[t] EXCEPT !.mail = <<>>]
        /\ history' = history \o Recordable(loc[t].mail)
        /\ fate' = Drop(Contents(loc[t].mail) \cap BlockedInputs)
        /\ UNCHANGED <<active, tstate, spent, mailbox>>
    BY <1>0, <1>6, <1>g DEF RecordPending, OthersWait, TypeOK
  <2>2. loc'[t].input = loc[t].input /\ loc'[t].mail = <<>> /\ loc'[t].then = loc[t].then
    BY <1>0, <2>1 DEF Locals
  <2>3. loc[t].input = <<>> /\ pc'[t] \in Working
    BY <1>i, <2>1 DEF Working
  <2>4. MovesWell(t)
    BY <2>1, <2>2, <2>3, TaskMoves
  <2>5. AllKept'
    <3>1. Holdings[MailOf(t)] = loc[t].mail /\ InputOf(t) # MailOf(t)
      BY <1>0, HoldingsAre, QueuesDiffer
    <3> QED
      BY <1>0, <2>1, <2>2, <3>1, TaskRecords
  <2> QED
    BY <1>0, <2>4, <2>5, MovesKeepCustody
<1>7. CASE SampleAnswer(t) \/ FollowUp(t) \/ NoFollowUp(t) \/ RunAgain(t)
  <2>1. /\ OthersWait(t) /\ pc[t] \in {"sample", "post", "hooks", "over"}
        /\ pc'[t] \in {"post", "step", "hooks", "prep", "end"}
        /\ loc' = loc /\ tstate' \in {tstate, Deferred(t)}
        /\ UNCHANGED <<active, spent, mailbox, history, fate>>
    BY <1>0, <1>7, <1>g DEF SampleAnswer, FollowUp, NoFollowUp, RunAgain, OthersWait
  <2>2. loc[t].mail = <<>> /\ loc[t].input = <<>> /\ pc'[t] \in Working /\ pc[t] # "unborn"
    BY <1>i, <1>m, <2>1 DEF Working
  <2> QED
    BY <2>1, <2>2, TaskGoesOn
<1>8. CASE SampleToolCall(t) \/ StopHookBlocks(t)
  <2>1. /\ OthersWait(t) /\ pc[t] \in {"sample", "hooks"}
        /\ pc'[t] \in {"step", "sample", "over"}
        /\ loc'[t] = [loc[t] EXCEPT !.samples = loc[t].samples + 1] /\ tstate' = Opened(t)
        /\ UNCHANGED <<active, spent, mailbox, history, fate>>
    BY <1>0, <1>8, <1>g DEF SampleToolCall, StopHookBlocks, OthersWait, TypeOK
  <2>2. /\ loc'[t].input = loc[t].input /\ loc'[t].mail = loc[t].mail
        /\ loc'[t].kind = loc[t].kind /\ loc'[t].then = loc[t].then
    BY <1>0, <2>1 DEF Locals
  <2>3. loc[t].mail = <<>> /\ loc[t].input = <<>> /\ pc'[t] \in Working /\ pc[t] # "unborn"
    BY <1>i, <1>m, <2>1 DEF Working
  <2> QED
    BY <2>1, <2>2, <2>3, TaskGoesOn
<1> QED
  BY <1>1, <1>2, <1>3, <1>4, <1>5, <1>6, <1>7, <1>8 DEF RunTask, Results

\* on_task_finished records what is still pending, and only once.
LEMMA OnTaskFinishedKeeps ==
  ASSUME TypeOK, TypeOK', Custody, AllKept, NEW t \in Turns, OnTaskFinished(t)
  PROVE  Custody' /\ AllKept'
<1>0. t \in Procs /\ loc[t] \in Locals
  BY DEF Procs, TypeOK
<1>h. HandsFit(pc[t], loc[t])
  BY <1>0 DEF Custody, HandsOK
<1>p. pc[t] \in {"end", "take", "report", "clear"}
  BY DEF OnTaskFinished, CheckCancelled, FinishTake, FinishReport, FinishClear
<1>i. loc[t].input = <<>> /\ loc[t].mail = <<>> /\ pc[t] # "unborn"
  BY <1>h, <1>p DEF HandsFit, Aborting
<1>a. active.task # None => active.ts # None
  BY DEF Custody, IdsOK
<1>1. CASE (CheckCancelled(t) \/ FinishTake(t) \/ FinishClear(t)) /\ Return(t)
  <2>1. UNCHANGED <<tstate, spent, mailbox, history, fate>>
    BY <1>1 DEF CheckCancelled, FinishTake, FinishClear
  <2>2. active' \in {active, Idle}
    <3>1. CASE CheckCancelled(t)
      BY <3>1 DEF CheckCancelled
    <3>2. CASE FinishTake(t)
      <4>1. pc'[t] # "report"
        BY <1>0, <1>1 DEF Return, TypeOK, Locals
      <4> QED
        BY <1>0, <3>2, <4>1 DEF FinishTake, Goto, TypeOK
    <3>3. CASE FinishClear(t)
      BY <3>3 DEF FinishClear
    <3> QED
      BY <1>1, <3>1, <3>2, <3>3
  <2> QED
    BY <1>0, <1>1, <1>i, <2>1, <2>2, ReturnKeeps
<1>2. CASE CheckCancelled(t) /\ ~ Return(t)
  <2>1. /\ OthersWait(t) /\ pc'[t] = "take" /\ loc' = loc
        /\ UNCHANGED <<active, tstate, spent, mailbox, history, fate>>
    BY <1>0, <1>2 DEF CheckCancelled, Goto, TypeOK, OthersWait
  <2> QED
    BY <1>i, <2>1, TaskGoesOn DEF Working
<1>3. CASE FinishTake(t) /\ ~ Return(t)
  <2>1. /\ OthersWait(t) /\ pc'[t] = "report" /\ active.task # None
        /\ loc'[t] = [loc[t] EXCEPT !.ts = active.ts]
        /\ active'.task = None
        /\ UNCHANGED <<tstate, spent, mailbox, history, fate>>
    BY <1>0, <1>3 DEF FinishTake, Goto, TypeOK, OthersWait
  <2>2. /\ loc'[t].input = <<>> /\ loc'[t].mail = <<>> /\ loc'[t].ts = active.ts
        /\ loc'[t].then = loc[t].then
    BY <1>0, <1>i, <2>1 DEF Locals
  <2>3. MovesWell(t)
    BY <1>a, <1>i, <2>1, <2>2, TaskMoves
  <2> QED
    BY <1>0, <1>i, <2>1, <2>2, <2>3, QuietMove
<1>4. CASE FinishReport(t)
  <2> DEFINE s == loc[t].ts
  <2>1. /\ OthersWait(t) /\ pc[t] = "report" /\ pc'[t] = "clear" /\ loc' = loc
        /\ tstate' = [tstate EXCEPT ![s].items = <<>>]
        /\ history' = history \o Recordable(tstate[s].items)
        /\ fate' = Drop(Contents(tstate[s].items) \cap BlockedInputs)
        /\ UNCHANGED <<active, spent, mailbox>>
    BY <1>0, <1>4 DEF FinishReport, Goto, TypeOK, OthersWait
  <2>2. s \in States
    BY <1>0, <1>h, <2>1 DEF HandsFit, Locals
  <2>3. MovesWell(t)
    BY <1>i, <2>1, TaskMoves
  <2>4. AllKept'
    <3>0. tstate \in [States -> TurnState] /\ tstate[s] \in TurnState
      BY <2>2 DEF TypeOK
    <3> HIDE DEF s
    <3>1. tstate'[s] = [tstate[s] EXCEPT !.items = <<>>]
      BY <2>1, <2>2, <3>0
    <3>2. tstate'[s].items = <<>> /\ \A r \in States \ {s} : tstate'[r] = tstate[r]
      BY <2>1, <2>2, <3>0, <3>1 DEF TurnState
    <3>3. LeftAlone({PendingIn(s), TheHistory})
      BY <2>1, <3>2 DEF LeftAlone
    <3>4. Holdings'[PendingIn(s)] = <<>> /\ Holdings[PendingIn(s)] = tstate[s].items
      BY <2>2, <3>2, HoldingsAre, HoldingsAreThen
    <3>5. PendingIn(s) \in Queues /\ PendingIn(s) # TheHistory
      BY <2>2, QueueNames, QueuesDiffer
    <3> QED
      BY <2>1, <3>3, <3>4, <3>5, QueueIsRecorded
  <2> QED
    BY <1>0, <2>3, <2>4, MovesKeepCustody
<1>5. CASE FinishClear(t) /\ ~ Return(t)
  <2>1. /\ OthersWait(t) /\ pc'[t] = "maybe" /\ loc' = loc /\ active' = Idle
        /\ UNCHANGED <<tstate, spent, mailbox, history, fate>>
    BY <1>0, <1>5 DEF FinishClear, Goto, TypeOK, OthersWait
  <2>2. MovesWell(t)
    BY <1>i, <2>1, TaskMoves DEF Idle
  <2> QED
    BY <1>0, <2>1, <2>2, QuietMove
<1> QED
  BY <1>1, <1>2, <1>3, <1>4, <1>5 DEF OnTaskFinished

\* A guardian interruption begins with nothing in hand.
LEMMA GuardianDenialKeeps ==
  ASSUME TypeOK, TypeOK', Custody, AllKept, NEW t \in Turns, GuardianDenial(t)
  PROVE  Custody' /\ AllKept'
<1>0. Guard \in Procs /\ Guard \notin Turns /\ loc[Guard] \in Locals /\ pc[Guard] = "off"
  BY ConstantsAssumption DEF Procs, TypeOK, GuardianDenial
<1>1. HandsFit(pc[Guard], loc[Guard])
  BY <1>0 DEF Custody, HandsOK
<1>2. /\ OthersWait(Guard) /\ pc'[Guard] = "abortif"
      /\ loc'[Guard] = [loc[Guard] EXCEPT !.victim = t]
      /\ UNCHANGED <<active, tstate, spent, mailbox, history, fate>>
  BY <1>0 DEF GuardianDenial, Goto, TypeOK, OthersWait
<1>3. /\ loc'[Guard].input = loc[Guard].input /\ loc'[Guard].mail = loc[Guard].mail
      /\ loc'[Guard].reason = loc[Guard].reason
  BY <1>0, <1>2 DEF Locals
<1>4. active.task # None => active.ts # None
  BY DEF Custody, IdsOK
<1>5. MovesWell(Guard)
  BY <1>0, <1>1, <1>2, <1>3, <1>4
  DEF MovesWell, OthersWait, HandsFit, TurnIsKnown, Installs, Aborting
<1> QED
  BY <1>0, <1>2, <1>3, <1>5, QuietMove

\* Custody and AllKept are inductive, given the types.
LEMMA NextKeeps ==
  ASSUME TypeOK, TypeOK', Custody, AllKept, [Next]_vars
  PROVE  Custody' /\ AllKept'
<1>1. ASSUME NEW p \in Procs, Steps(p) PROVE Custody' /\ AllKept'
  BY <1>1, StartTaskKeeps, MaybeStartTurnKeeps, AbortTaskKeeps DEF Steps
<1>2. ASSUME NEW p \in Clients, ClientOp(p) PROVE Custody' /\ AllKept'
  <2>1. p \in Procs
    BY DEF Procs
  <2> QED
    BY <1>2, <2>1, ClientOpKeeps
<1>3. CASE LoopOp(Loop)
  BY <1>3, LoopOpKeeps
<1>4. ASSUME NEW x \in Notices, Inject(x) PROVE Custody' /\ AllKept'
  BY <1>4, InjectKeeps
<1>5. ASSUME NEW t \in Turns, RunTask(t) \/ OnTaskFinished(t) \/ GuardianDenial(t)
      PROVE  Custody' /\ AllKept'
  BY <1>5, RunTaskKeeps, OnTaskFinishedKeeps, GuardianDenialKeeps
<1>6. CASE UNCHANGED vars
  <2>1. LeftAlone({}) /\ fate' = fate
    BY <1>6 DEF vars, LeftAlone
  <2>2. Custody'
    BY <1>6, CustodyStays DEF vars
  <2> QED
    BY <2>1, <2>2, NothingMoves
<1> QED
  BY <1>1, <1>2, <1>3, <1>4, <1>5, <1>6 DEF Next

\* A new session holds no item, and none is accepted.
LEMMA InitKept == ASSUME Init PROVE AllKept
<1>1. \A i \in Items : fate[i] # "accepted"
  BY DEF Init
<1>2. /\ mailbox = <<>> /\ history = <<>>
      /\ \A s \in States : tstate[s].items = <<>>
      /\ \A p \in Procs : loc[p].input = <<>> /\ loc[p].mail = <<>>
  BY DEF Init, FreshTurnState, Blank
<1>3. \A c \in Queues : Holdings[c] = <<>>
  BY <1>2, QueueKinds, HoldingsAre
<1>4. EachOnce(Holdings, fate)
  BY <1>1, <1>3 DEF EachOnce
<1> QED
  BY <1>4, KeptIsEachOnce

\* The inductive invariant holds.
LEMMA KeptAlways == Spec => [](TypeOK /\ Custody /\ AllKept)
<1>1. Init => TypeOK /\ Custody /\ AllKept
  BY InitType, InitCustody, InitKept
<1>2. TypeOK /\ Custody /\ AllKept /\ [Next]_vars => TypeOK' /\ Custody' /\ AllKept'
  BY NextType, NextKeeps
<1> QED
  BY <1>1, <1>2, PTL DEF Spec

\* In every session, whatever starts turns, every variable keeps its type: in
\* particular only ids of real turns are ever cancelled or put in the slot,
\* the mailbox holds nothing but mail, and what is recorded are items.
THEOREM TypeCorrect == Spec => []TypeOK
  BY KeptAlways, PTL

\* In every session, whatever mix of start_task, get_pending_input, aborts,
\* refused starts and on_task_finished passes the items on, every accepted item
\* is in exactly one queue, once, until an abort or a hook drops it: no input is
\* recorded twice and none is lost between two locks.
THEOREM ItemsAreConserved == Spec => []ItemsConserved
<1>1. TypeOK /\ AllKept => ItemsConserved
  BY KeptIsConserved
<1> QED
  BY <1>1, KeptAlways, PTL
=============================================================================
