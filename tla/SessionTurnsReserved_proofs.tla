-------------------- MODULE SessionTurnsReserved_proofs --------------------
(***************************************************************************)
(* Proofs about SessionTurns for any number of turns, clients, mails and   *)
(* routers, in sessions in which every start reserves the slot first       *)
(* (ReservedStarts): the slot has at most one holder (Reservations), so    *)
(* tasks do not overlap and every turn reports its end once; mail goes     *)
(* from the mailbox to the history in the order in which it was posted     *)
(* (MailLine); and the session implements SequentialSession.               *)
(***************************************************************************)
EXTENDS SessionTurnsOwner_proofs

(***************************************************************************)
(* Order in a log of posted mail.                                          *)
(***************************************************************************)

\* x was posted before y.
Before(P, x, y) == \E a, b \in 1..Len(P) : a < b /\ P[a] = x /\ P[b] = y

\* The mail in q, and the mail of S with respect to that of T, in the order of P.
InOrder(P, q) == \A j, k \in 1..Len(q) :
    j < k /\ q[j] \in Mails /\ q[k] \in Mails => Before(P, q[j], q[k])
Ahead(P, S, T) == \A x \in S \cap Mails, y \in T \cap Mails : Before(P, x, y)

\* The stations that mail passes on its way into the conversation h: the mailbox m, what
\* a start has taken out of it g, the pending input i of the turn, and what the turn has
\* taken out to record r.
Line(P, h, r, i, g, m) ==
    /\ (Contents(h) \cup Contents(r) \cup Contents(i) \cup Contents(g) \cup Contents(m))
          \cap Mails \subseteq Contents(P)
    /\ InOrder(P, h) /\ InOrder(P, r) /\ InOrder(P, i) /\ InOrder(P, g) /\ InOrder(P, m)
    /\ Ahead(P, Contents(h), Contents(r) \cup Contents(i) \cup Contents(g) \cup Contents(m))
    /\ Ahead(P, Contents(r), Contents(i) \cup Contents(g) \cup Contents(m))
    /\ Ahead(P, Contents(i), Contents(g) \cup Contents(m))
    /\ Ahead(P, Contents(g), Contents(m))

\* Contents of longer queues.
LEMMA ContentsOf ==
  /\ Contents(<<>>) = {}
  /\ \A q, r \in Seq(Items) : Contents(q \o r) = Contents(q) \cup Contents(r)
  /\ \A q \in Seq(Items), x \in Items : Contents(Append(q, x)) = Contents(q) \cup {x}
<1>1. Contents(<<>>) = {}
  BY DEF Contents
<1>2. ASSUME NEW q \in Seq(Items), NEW r \in Seq(Items)
      PROVE  Contents(q \o r) = Contents(q) \cup Contents(r)
  <2>0. Len(q) \in Nat /\ Len(r) \in Nat /\ Len(q \o r) = Len(q) + Len(r)
    OBVIOUS
  <2>1. \A k \in 1..Len(q \o r) : (q \o r)[k] \in Contents(q) \cup Contents(r)
    BY <2>0 DEF Contents
  <2>2. \A k \in 1..Len(q) : k \in 1..Len(q \o r) /\ (q \o r)[k] = q[k]
    BY <2>0
  <2>3. \A k \in 1..Len(r) : Len(q) + k \in 1..Len(q \o r) /\ (q \o r)[Len(q) + k] = r[k]
    BY <2>0
  <2>4. Contents(q \o r) \subseteq Contents(q) \cup Contents(r)
    BY <2>1 DEF Contents
  <2>5. Contents(q) \subseteq Contents(q \o r)
    BY <2>2 DEF Contents
  <2>6. Contents(r) \subseteq Contents(q \o r)
    <3> SUFFICES ASSUME NEW k \in 1..Len(r) PROVE r[k] \in Contents(q \o r)
      BY DEF Contents
    <3> QED
      BY <2>3 DEF Contents
  <2> QED
    BY <2>4, <2>5, <2>6
<1>3. ASSUME NEW q \in Seq(Items), NEW x \in Items
      PROVE  Contents(Append(q, x)) = Contents(q) \cup {x}
  <2>1. Append(q, x) = q \o <<x>> /\ <<x>> \in Seq(Items)
    OBVIOUS
  <2>2. Contents(<<x>>) = {x}
    BY DEF Contents
  <2> QED
    BY <1>2, <2>1, <2>2
<1> QED
  BY <1>1, <1>2, <1>3

\* Concatenation keeps the order of queues that are in order one after the other.
LEMMA InOrderConcat ==
  ASSUME NEW P, NEW q \in Seq(Items), NEW r \in Seq(Items), InOrder(P, q), InOrder(P, r),
         Ahead(P, Contents(q), Contents(r))
  PROVE  InOrder(P, q \o r)
<1> SUFFICES ASSUME NEW j \in 1..Len(q \o r), NEW k \in 1..Len(q \o r), j < k,
                    (q \o r)[j] \in Mails, (q \o r)[k] \in Mails
             PROVE  Before(P, (q \o r)[j], (q \o r)[k])
  BY DEF InOrder
<1>0. Len(q) \in Nat /\ Len(r) \in Nat /\ Len(q \o r) = Len(q) + Len(r)
  OBVIOUS
<1>1. \A n \in 1..Len(q) : (q \o r)[n] = q[n] /\ q[n] \in Contents(q)
  BY <1>0 DEF Contents
<1>2. \A n \in 1..Len(q \o r) : n > Len(q) =>
        /\ n - Len(q) \in 1..Len(r) /\ (q \o r)[n] = r[n - Len(q)]
        /\ r[n - Len(q)] \in Contents(r)
  BY <1>0 DEF Contents
<1>3. CASE k <= Len(q)
  <2>1. j \in 1..Len(q) /\ k \in 1..Len(q)
    BY <1>0, <1>3
  <2> QED
    BY <1>1, <2>1 DEF InOrder
<1>4. CASE j > Len(q)
  <2>1. /\ j - Len(q) \in 1..Len(r) /\ k - Len(q) \in 1..Len(r)
        /\ j - Len(q) < k - Len(q)
    BY <1>0, <1>2, <1>4
  <2>2. (q \o r)[j] = r[j - Len(q)] /\ (q \o r)[k] = r[k - Len(q)]
    BY <1>0, <1>2, <1>4
  <2> QED
    BY <2>1, <2>2 DEF InOrder
<1>5. CASE j <= Len(q) /\ k > Len(q)
  <2>1. (q \o r)[j] \in Contents(q) /\ (q \o r)[k] \in Contents(r)
    BY <1>0, <1>1, <1>2, <1>5
  <2> QED
    BY <2>1 DEF Ahead
<1> QED
  BY <1>0, <1>3, <1>4, <1>5

\* An empty queue, and one without mail, is in order.
LEMMA NoMailInOrder ==
  ASSUME NEW P, NEW q, Contents(q) \cap Mails = {}
  PROVE  InOrder(P, q)
  BY DEF InOrder, Contents

\* Posting more mail keeps the order of what was posted, and puts the new mail last.
LEMMA PostedLater ==
  ASSUME NEW P \in Seq(Mails), NEW m \in Mails
  PROVE  /\ \A x, y : Before(P, x, y) => Before(Append(P, m), x, y)
         /\ \A x \in Contents(P) : Before(Append(P, m), x, m)
         /\ Contents(Append(P, m)) = Contents(P) \cup {m}
<1> DEFINE n == Len(P)
<1>1. /\ n \in Nat /\ Len(Append(P, m)) = n + 1 /\ Append(P, m)[n + 1] = m
      /\ \A a \in 1..n : Append(P, m)[a] = P[a] /\ a \in 1..(n + 1) /\ a < n + 1
  OBVIOUS
<1>2. \A x, y : Before(P, x, y) => Before(Append(P, m), x, y)
  BY <1>1 DEF Before
<1>3. \A x \in Contents(P) : Before(Append(P, m), x, m)
  <2> SUFFICES ASSUME NEW a \in 1..n PROVE Before(Append(P, m), P[a], m)
    BY DEF Contents
  <2>1. a \in 1..(n + 1) /\ n + 1 \in 1..(n + 1) /\ a < n + 1
    BY <1>1
  <2> QED
    BY <1>1, <2>1 DEF Before
<1>4. Contents(Append(P, m)) = Contents(P) \cup {m}
  BY MailIsItems, ContentsOf DEF Items
<1> QED
  BY <1>2, <1>3, <1>4

\* What is recorded of a queue is in the order of the queue.
LEMMA RecordableInOrder ==
  ASSUME NEW P, NEW q \in Seq(Items)
  PROVE  /\ Contents(Recordable(q)) \subseteq Contents(q)
         /\ InOrder(P, q) => InOrder(P, Recordable(q))
<1> DEFINE kept == {k \in 1..Len(q) : q[k] \notin BlockedInputs}
           Rank(k) == Cardinality({m \in kept : m <= k})
           Place(j) == CHOOSE k \in kept : Rank(k) = j
           C == Cardinality(kept)
           R == Recordable(q)
<1>1. R = [j \in 1..C |-> q[Place(j)]]
  BY DEF Recordable
<1>2. /\ C \in Nat
      /\ \A j \in 1..C : Place(j) \in kept
      /\ \A j, k \in 1..C : j < k => Place(j) < Place(k)
  <2>1. Len(q) \in Nat /\ kept \in SUBSET (1..Len(q))
    OBVIOUS
  <2> HIDE DEF kept
  <2> QED
    BY <2>1, RanksCount
<1>3. kept \subseteq 1..Len(q)
  OBVIOUS
<1>4. \A k \in kept : q[k] \in Items
  OBVIOUS
<1> HIDE DEF kept, Rank, Place, C, R
<1>a. R \in Seq(Items) /\ Len(R) = C
  BY <1>1, <1>2, <1>4
<1>b. \A j \in 1..C : R[j] = q[Place(j)] /\ Place(j) \in 1..Len(q)
  BY <1>1, <1>2, <1>3
<1>5. Len(R) = C /\ \A j \in 1..C : R[j] = q[Place(j)] /\ Place(j) \in 1..Len(q)
  BY <1>a, <1>b
<1>6. Contents(R) \subseteq Contents(q)
  BY <1>5 DEF Contents
<1>7. ASSUME InOrder(P, q), NEW j \in 1..Len(R), NEW k \in 1..Len(R), j < k,
             R[j] \in Mails, R[k] \in Mails
      PROVE  Before(P, R[j], R[k])
  <2>1. /\ Place(j) \in 1..Len(q) /\ Place(k) \in 1..Len(q) /\ Place(j) < Place(k)
        /\ R[j] = q[Place(j)] /\ R[k] = q[Place(k)]
    BY <1>2, <1>5, <1>7
  <2> QED
    BY <1>7, <2>1 DEF InOrder
<1>8. InOrder(P, q) => InOrder(P, R)
  BY <1>7 DEF InOrder
<1> QED
  BY <1>6, <1>8 DEF R

(***************************************************************************)
(* What the steps of a session do to the line.                             *)
(***************************************************************************)

\* A subqueue of what is in hand is recorded.
LEMMA LineRecords ==
  ASSUME NEW P, NEW h \in Seq(Items), NEW r \in Seq(Items), NEW i \in Seq(Items),
         NEW g \in Seq(Items), NEW m \in Seq(Items), Line(P, h, r, i, g, m)
  PROVE  Line(P, h \o Recordable(r), <<>>, i, g, m)
<1> DEFINE n == Recordable(r)
<1>1. n \in Seq(Items) /\ Contents(n) \subseteq Contents(r) /\ InOrder(P, n)
  BY RecordableIs, RecordableInOrder DEF Line
<1> HIDE DEF n
<1>2. Contents(h \o n) = Contents(h) \cup Contents(n) /\ Contents(<<>>) = {}
  BY <1>1, ContentsOf
<1>3. InOrder(P, h \o n)
  <2>1. Ahead(P, Contents(h), Contents(n))
    BY <1>1 DEF Line, Ahead
  <2> QED
    BY <1>1, <2>1, InOrderConcat DEF Line
<1>4. InOrder(P, <<>>)
  BY <1>2, NoMailInOrder
<1>5. Line(P, h \o n, <<>>, i, g, m)
  BY <1>1, <1>2, <1>3, <1>4 DEF Line, Ahead
<1> QED
  BY <1>5 DEF n

\* Pending input is as good as in hand when nothing else is in hand.
LEMMA LineShifts ==
  ASSUME NEW P, NEW h \in Seq(Items), NEW i \in Seq(Items), NEW g \in Seq(Items),
         NEW m \in Seq(Items), Line(P, h, <<>>, i, g, m)
  PROVE  Line(P, h, i, <<>>, g, m)
  BY ContentsOf DEF Line, Ahead

\* Whoever has nothing in hand sees the line without it.
LEMMA LineEmptied ==
  ASSUME NEW P, NEW h \in Seq(Items), NEW r \in Seq(Items), NEW i \in Seq(Items),
         NEW g \in Seq(Items), NEW m \in Seq(Items), Line(P, h, r, i, g, m)
  PROVE  Line(P, h, <<>>, i, <<>>, m)
<1>1. Contents(<<>>) = {}
  BY ContentsOf
<1>2. InOrder(P, <<>>)
  BY <1>1, NoMailInOrder
<1> QED
  BY <1>1, <1>2 DEF Line, Ahead

\* get_pending_input takes the pending input and the mailbox in hand.
LEMMA LineTakes ==
  ASSUME NEW P, NEW h \in Seq(Items), NEW i \in Seq(Items), NEW m \in Seq(Items),
         Line(P, h, <<>>, i, <<>>, m)
  PROVE  Line(P, h, i \o m, <<>>, <<>>, <<>>) /\ Line(P, h, <<>>, <<>>, i \o m, <<>>)
<1>1. Contents(i \o m) = Contents(i) \cup Contents(m) /\ Contents(<<>>) = {}
  BY ContentsOf
<1>2. InOrder(P, i \o m)
  <2>1. Ahead(P, Contents(i), Contents(m))
    BY DEF Line, Ahead
  <2> QED
    BY <2>1, InOrderConcat DEF Line
<1>3. i \o m \in Seq(Items)
  OBVIOUS
<1> DEFINE n == i \o m
<1> HIDE DEF n
<1>4. Line(P, h, n, <<>>, <<>>, <<>>) /\ Line(P, h, <<>>, <<>>, n, <<>>)
  BY <1>1, <1>2 DEF Line, Ahead, n
<1> QED
  BY <1>4 DEF n

\* A start puts what it has in hand into the pending input.
LEMMA LineHands ==
  ASSUME NEW P, NEW h \in Seq(Items), NEW r \in Seq(Items), NEW i \in Seq(Items),
         NEW g \in Seq(Items), NEW m \in Seq(Items), Line(P, h, r, i, g, m)
  PROVE  Line(P, h, r, i \o g, <<>>, m)
<1>1. Contents(i \o g) = Contents(i) \cup Contents(g) /\ Contents(<<>>) = {}
  BY ContentsOf
<1>2. InOrder(P, i \o g)
  <2>1. Ahead(P, Contents(i), Contents(g))
    BY DEF Line, Ahead
  <2> QED
    BY <2>1, InOrderConcat DEF Line
<1>3. InOrder(P, <<>>)
  BY <1>1, NoMailInOrder
<1> DEFINE n == i \o g
<1> HIDE DEF n
<1>4. Line(P, h, r, n, <<>>, m)
  BY <1>1, <1>2, <1>3 DEF Line, Ahead, n
<1> QED
  BY <1>4 DEF n

\* A start takes the mailbox in hand.
LEMMA LineDrains ==
  ASSUME NEW P, NEW h \in Seq(Items), NEW r \in Seq(Items), NEW i \in Seq(Items),
         NEW m \in Seq(Items), Line(P, h, r, i, <<>>, m)
  PROVE  Line(P, h, r, i, m, <<>>)
  BY ContentsOf DEF Line, Ahead

\* Items that are no mail join the conversation or the pending input.
LEMMA LineArrives ==
  ASSUME NEW P, NEW h \in Seq(Items), NEW r \in Seq(Items), NEW i \in Seq(Items),
         NEW g \in Seq(Items), NEW m \in Seq(Items), Line(P, h, r, i, g, m),
         NEW n \in Seq(Items), Contents(n) \cap Mails = {}
  PROVE  Line(P, h \o n, r, i, g, m) /\ Line(P, h, r, i \o n, g, m)
<1>1. /\ Contents(h \o n) = Contents(h) \cup Contents(n)
      /\ Contents(i \o n) = Contents(i) \cup Contents(n)
  BY ContentsOf
<1>2. InOrder(P, n)
  BY NoMailInOrder
<1>3. InOrder(P, h \o n) /\ InOrder(P, i \o n)
  <2>1. Ahead(P, Contents(h), Contents(n)) /\ Ahead(P, Contents(i), Contents(n))
    BY DEF Ahead
  <2> QED
    BY <1>2, <2>1, InOrderConcat DEF Line
<1> DEFINE hn == h \o n
           in == i \o n
<1> HIDE DEF hn, in
<1>4. Line(P, hn, r, i, g, m)
  BY <1>1, <1>3 DEF Line, Ahead, hn
<1>5. Line(P, h, r, in, g, m)
  BY <1>1, <1>3 DEF Line, Ahead, in
<1> QED
  BY <1>4, <1>5 DEF hn, in

\* Pending input without mail is exchanged for other such input.
LEMMA LineSwaps ==
  ASSUME NEW P, NEW h, NEW r, NEW i, NEW g, NEW m, Line(P, h, r, i, g, m),
         NEW j, Contents(j) \cap Mails = {}, Contents(i) \cap Mails = {}
  PROVE  Line(P, h, r, j, g, m)
<1>1. InOrder(P, j)
  BY NoMailInOrder
<1> QED
  BY <1>1 DEF Line, Ahead

\* New mail is posted into the mailbox.
LEMMA LinePosts ==
  ASSUME NEW P \in Seq(Mails), NEW h \in Seq(Items), NEW r \in Seq(Items),
         NEW i \in Seq(Items), NEW g \in Seq(Items), NEW m \in Seq(Mails),
         Line(P, h, r, i, g, m), NEW x \in Mails
  PROVE  Line(Append(P, x), h, r, i, g, Append(m, x))
<1> DEFINE Q == Append(P, x)
           n == Append(m, x)
<1>1. /\ \A y, z : Before(P, y, z) => Before(Q, y, z)
      /\ \A y \in Contents(P) : Before(Q, y, x)
      /\ Contents(Q) = Contents(P) \cup {x}
  BY PostedLater
<1>2. x \in Items /\ m \in Seq(Items) /\ n = m \o <<x>> /\ <<x>> \in Seq(Items)
  BY DEF Items
<1>3. Contents(n) = Contents(m) \cup {x} /\ Contents(<<x>>) = {x}
  <2>1. Contents(<<x>>) = {x}
    BY DEF Contents
  <2>2. Contents(n) = Contents(m) \cup Contents(<<x>>)
    BY <1>2, ContentsOf
  <2> QED
    BY <2>1, <2>2
<1>a. \A S, T : Ahead(P, S, T) => Ahead(Q, S, T)
  BY <1>1 DEF Ahead
<1>b. \A q : InOrder(P, q) => InOrder(Q, q)
  BY <1>1 DEF InOrder
<1> HIDE DEF Q, n
<1>4. InOrder(Q, n)
  <2>1. InOrder(Q, <<x>>)
    BY DEF InOrder
  <2>2. Ahead(Q, Contents(m), Contents(<<x>>))
    BY <1>1, <1>3 DEF Line, Ahead
  <2> QED
    BY <1>2, <1>b, <2>1, <2>2, InOrderConcat DEF Line
<1>5. InOrder(Q, h) /\ InOrder(Q, r) /\ InOrder(Q, i) /\ InOrder(Q, g)
  BY <1>b DEF Line
<1>6. Line(Q, h, r, i, g, n)
  BY <1>1, <1>3, <1>4, <1>5 DEF Line, Ahead
<1> QED
  BY <1>6 DEF Q, n

(***************************************************************************)
(* Whoever holds the slot.                                                 *)
(***************************************************************************)

\* Between the reservation of a slot and the task in it; between the task's leaving it
\* and the slot's being free.
StartLabels == {"ifidle", "gather", "hand", "drain", "adopt", "extend", "install"}
Finishing == {"report", "clear"}
Busy(p) == pc[p] \in StartLabels \cup Working \cup Finishing

\* Nobody aborts, and only the loop and the tasks do anything.
Cast ==
    /\ cancelled = {}
    /\ pc[Guard] = "off"
    /\ \A r \in Routers : pc[r] = "idle"
    /\ pc[Loop] \in {"idle", "maybe", "reserve"} \cup StartLabels
    /\ loc[Loop].then = "idle"

\* The slot is held by one process, which knows it.
OneHolder == \A p, q \in Procs : Busy(p) /\ Busy(q) => p = q
HolderKnowsSlot ==
    /\ \A p \in Procs : pc[p] \in StartLabels \cup Finishing =>
          loc[p].ts = active.ts /\ active.ts # None /\ active.task = None
    /\ \A t \in Turns : pc[t] \in Working => active.task = t
SlotKnowsHolder ==
    /\ active.task # None => active.ts # None /\ pc[active.task] \in Working
    /\ IF active.ts = None THEN active = Idle
       ELSE active.ts \in spent /\ \E p \in Procs : Busy(p)

\* The end of a turn is reported by its task, once.
EndReported ==
    /\ \A t \in Turns :
          IF pc[t] \in Working \cup {"unborn", "report"}
          THEN terminal[t] = <<>> ELSE Len(terminal[t]) = 1
    /\ status = "Running" => \E t \in Turns : pc[t] \in Working \cup {"report"}

Reservations == Cast /\ OneHolder /\ HolderKnowsSlot /\ SlotKnowsHolder /\ EndReported

(***************************************************************************)
(* The steps of such a session.                                            *)
(***************************************************************************)

\* get_pending_input by p.
Takes(p) == IF Accepts
            THEN /\ loc'[p].mail = ActiveItems \o mailbox /\ mailbox' = <<>>
                 /\ tstate' = [tstate EXCEPT ![active.ts].items = <<>>]
            ELSE loc'[p].mail = <<>> /\ UNCHANGED <<tstate, mailbox>>

\* A start goes on in its reservation.
StartMoves(p) ==
    /\ pc[p] \in StartLabels /\ pc'[p] \in StartLabels /\ OthersWait(p)
    /\ loc'[p].ts = loc[p].ts /\ loc'[p].then = loc[p].then
    /\ loc'[p].input = loc[p].input
    /\ UNCHANGED <<active, spent, cancelled, terminal, status, history, posted>>
    /\ \/ /\ pc[p] = "adopt" /\ pc'[p] = "extend" /\ loc'[p].mail = loc[p].mail
          /\ UNCHANGED <<tstate, mailbox>>
       \/ /\ pc[p] = "drain" /\ pc'[p] = "adopt" /\ loc'[p].mail = mailbox
          /\ mailbox' = <<>> /\ tstate' = tstate
       \/ /\ pc[p] \in {"hand", "extend", "ifidle"} /\ pc'[p] \in {"drain", "install"}
          /\ loc'[p].mail = <<>> /\ mailbox' = mailbox
          /\ tstate' = Extended(active.ts, loc[p].mail)
       \/ pc[p] = "gather" /\ pc'[p] = "hand" /\ Takes(p)

\* The free slot is reserved, with input that is no mail or with none.
SlotReserved(p) ==
    /\ p \notin Routers /\ pc[p] \in {"idle", "reserve"} /\ active.ts = None /\ OthersWait(p)
    /\ \E s \in States \ spent : active' = Reserved(s) /\ loc'[p].ts = s /\ s \in spent'
    /\ spent \subseteq spent' /\ loc'[p].then = loc[p].then
    /\ Contents(loc'[p].input) \cap Mails = {} /\ Contents(loc'[p].mail) \cap Mails = {}
    /\ (pc'[p] = "gather" /\ loc'[p].mail = <<>>) \/ pc'[p] = "ifidle"
    /\ UNCHANGED <<tstate, mailbox, history, status, cancelled, terminal, posted>>

\* The reservation is given back.
SlotGivenBack(p) ==
    /\ pc[p] = "ifidle" /\ pc'[p] \in {"maybe", "idle"} /\ OthersWait(p)
    /\ active' = Idle /\ loc'[p] = Blank(loc[p].then)
    /\ UNCHANGED <<tstate, spent, mailbox, history, status, cancelled, terminal, posted>>

\* maybe_start_turn_for_pending_work before it reserves anything.
LooksForWork(p) ==
    /\ pc[p] \in {"maybe", "reserve"} /\ pc'[p] \in {"reserve", loc[p].then} /\ OthersWait(p)
    /\ loc'[p] \in {loc[p], Blank(loc[p].then)}
    /\ UNCHANGED <<active, tstate, spent, mailbox, history, status, cancelled, terminal, posted>>

\* The reservation becomes a turn with the task t in it.
TaskInstalled(p, t) ==
    /\ pc[p] = "install" /\ pc[t] = "unborn"
    /\ active'.ts = active.ts /\ active'.task = t
    /\ pc'[p] = loc[p].then /\ loc'[p] = Blank(loc[p].then)
    /\ pc'[t] = "begin" /\ loc'[t].input = loc[p].input /\ loc'[t].mail = <<>>
    /\ \A q \in Procs \ {p, t} : pc'[q] = pc[q] /\ loc'[q] = loc[q]
    /\ UNCHANGED <<tstate, spent, mailbox, history, status, cancelled, terminal, posted>>

\* The loop posts mail.
MailPosted(m) ==
    /\ pc[Loop] = "idle" /\ pc'[Loop] \in {"maybe", "idle"} /\ OthersWait(Loop)
    /\ fate[m] = "unsent" /\ fate' = Sent(m)
    /\ mailbox' = Append(mailbox, m) /\ posted' = Append(posted, m)
    /\ UNCHANGED <<active, tstate, spent, history, status, cancelled, terminal, loc>>

\* A user input is steered into the turn, a notice injected, or nothing happens.
ItemArrived(x) ==
    /\ \/ /\ active.ts # None /\ tstate' = ExtendedAndOpen(active.ts, <<x>>)
          /\ history' = history
          /\ active.task # None \/ (x \in Notices /\ "Inject" \in Ops)
       \/ tstate' = tstate /\ history' = Append(history, x)
    /\ UNCHANGED <<active, spent, mailbox, status, cancelled, terminal, pc, loc, posted>>
NothingHappens ==
    UNCHANGED <<active, tstate, spent, mailbox, history, status, cancelled, terminal, pc, loc,
                posted>>

\* The task of a turn works on.
WorksOn(t) ==
    /\ pc[t] \in Working /\ pc'[t] \in Working /\ OthersWait(t)
    /\ loc'[t].then = loc[t].then /\ loc'[t].input \in {loc[t].input, <<>>}
    /\ status' \in {status, "Running", "Errored"}
    /\ UNCHANGED <<active, spent, cancelled, terminal, posted>>
    /\ \/ /\ pc[t] # "record" /\ pc'[t] # "record" /\ mailbox' = mailbox
          /\ tstate' \in {tstate, Opened(t), Deferred(t)}
          /\ history' \in {history, history \o Recordable(loc[t].input)}
       \/ pc[t] = "step" /\ pc'[t] = "record" /\ Takes(t) /\ history' = history
       \/ /\ pc[t] = "record" /\ pc'[t] # "record" /\ UNCHANGED <<tstate, mailbox>>
          /\ history' = history \o Recordable(loc[t].mail)

\* It leaves the slot, reports, and clears the slot.
LeavesSlot(t) ==
    /\ pc[t] = "take" /\ pc'[t] = "report" /\ OthersWait(t)
    /\ active' = [active EXCEPT !.task = None]
    /\ loc'[t].ts = active.ts /\ loc'[t].input = loc[t].input /\ loc'[t].then = loc[t].then
    /\ UNCHANGED <<tstate, spent, mailbox, history, status, cancelled, terminal, posted>>
ReportsEnd(t) ==
    /\ pc[t] = "report" /\ pc'[t] = "clear" /\ OthersWait(t) /\ loc'[t] = loc[t]
    /\ tstate' = [tstate EXCEPT ![active.ts].items = <<>>]
    /\ history' = history \o Recordable(tstate[active.ts].items)
    /\ \E e : terminal' = [terminal EXCEPT ![t] = Append(terminal[t], e)]
    /\ status' # "Running"
    /\ UNCHANGED <<active, spent, mailbox, cancelled, posted>>
ClearsSlot(t) ==
    /\ pc[t] = "clear" /\ pc'[t] = "maybe" /\ OthersWait(t) /\ loc'[t] = loc[t]
    /\ active' = Idle
    /\ UNCHANGED <<tstate, spent, mailbox, history, status, cancelled, terminal, posted>>

TurnKind(t) == WorksOn(t) \/ LeavesSlot(t) \/ ReportsEnd(t) \/ ClearsSlot(t)
StartKind(p) == StartMoves(p) \/ SlotReserved(p) \/ SlotGivenBack(p) \/ LooksForWork(p)
                \/ \E t \in Turns : TaskInstalled(p, t)
EnvKind == \/ \E m \in Mails : MailPosted(m)
           \/ \E x \in UserInputs \cup Notices : ItemArrived(x)
           \/ NothingHappens

\* Who is who.
LEMMA WhoIsWho ==
  /\ Loop \in Procs /\ Guard \in Procs /\ Turns \subseteq Procs /\ Routers \subseteq Procs
  /\ Loop \notin Turns /\ Guard \notin Turns /\ Loop # Guard
  /\ Procs = {Loop, Guard} \cup Routers \cup Turns
  /\ Loop \notin Routers /\ Guard \notin Routers /\ Turns \cap Routers = {}
  /\ None \notin Turns /\ None \notin States
  BY ConstantsAssumption DEF Procs, Clients

\* A process that does something is the loop or a task.
LEMMA Actors ==
  ASSUME TypeOK, Custody, Cast, NEW p \in Procs, pc[p] \notin {"idle", "off"}
  PROVE  /\ p = Loop \/ p \in Turns
         /\ pc[p] \in TurnLabels \cup {"ifidle"}
         /\ loc[p] \in Locals /\ loc[p].then \in {"idle", "dead"}
         /\ p = Loop => loc[p].then = "idle"
         /\ p \in Turns => loc[p].then = "dead"
<1>1. p = Loop \/ p \in Turns
  BY WhoIsWho DEF Cast
<1> QED
  BY <1>1, WhoIsWho DEF Cast, StartLabels, TurnLabels, Working, Custody, TasksOK, TypeOK

\* The steps of a process that starts a turn, or looks whether it should.
LEMMA StepsAreStarts ==
  ASSUME TypeOK, Custody, Reservations, NEW p \in Procs, Steps(p)
  PROVE  StartKind(p)
<1>a. pc[p] \notin {"idle", "off"}
  BY DEF Steps, StartTask, StartTaskDrain, StartTaskAdopt, StartTaskExtend,
     StartTaskInstall, MaybeStartTurn, CheckPendingWork, ReserveForWork,
     ReserveRefused, GatherPending, HandOver, AbortTask, AbortAllTasks,
     AbortNothing, AbortTurnIfActive, KillTask, ReportAborted, WipePending
<1>0. /\ p = Loop \/ p \in Turns
      /\ pc[p] \in TurnLabels \cup {"ifidle"}
      /\ loc[p] \in Locals /\ loc[p].then \in {"idle", "dead"}
      /\ p \notin Routers
  BY <1>a, Actors, WhoIsWho DEF Reservations
<1>b. StartTask(p) \/ MaybeStartTurn(p)
  BY <1>0 DEF Steps, AbortTask, AbortAllTasks, AbortNothing, AbortTurnIfActive,
     KillTask, ReportAborted, WipePending, TurnLabels, Working
<1>h. HandsFit(pc[p], loc[p])
  BY DEF Custody, HandsOK
<1>s. pc[p] \in StartLabels => /\ loc[p].ts = active.ts /\ active.ts # None
                              /\ active.task = None /\ active.ts \in States
                              /\ active.ts \in spent
  BY DEF Reservations, HolderKnowsSlot, SlotKnowsHolder, TypeOK
<1>g. ASSUME NEW l, Goto(p, l) PROVE pc'[p] = l /\ \A q \in Procs \ {p} : pc'[q] = pc[q]
  BY <1>g DEF Goto, TypeOK
<1>m. ASSUME NEW q, loc' = [loc EXCEPT ![p].mail = q]
      PROVE  /\ loc'[p].mail = q /\ loc'[p].ts = loc[p].ts /\ loc'[p].then = loc[p].then
             /\ loc'[p].input = loc[p].input
             /\ \A r \in Procs \ {p} : loc'[r] = loc[r]
  <2>1. loc'[p] = [loc[p] EXCEPT !.mail = q] /\ \A r \in Procs \ {p} : loc'[r] = loc[r]
    BY <1>m DEF TypeOK
  <2> QED
    BY <1>0, <2>1 DEF Locals
<1>1. CASE StartTaskDrain(p)
  BY <1>1, <1>g, <1>m DEF StartTaskDrain, StartKind, StartMoves, OthersWait, StartLabels
<1>2. CASE StartTaskAdopt(p)
  <2>1. pc[p] = "adopt" /\ "adopt" \in StartLabels /\ "extend" \in StartLabels
    BY <1>2 DEF StartTaskAdopt, StartLabels
  <2>2. SlotState = active.ts
    BY <1>s, <2>1 DEF SlotState
  <2>3. loc'[p] = [loc[p] EXCEPT !.ts = active.ts] /\ \A r \in Procs \ {p} : loc'[r] = loc[r]
    BY <1>2, <2>2 DEF StartTaskAdopt, TypeOK
  <2>4. /\ loc'[p].ts = loc[p].ts /\ loc'[p].mail = loc[p].mail
        /\ loc'[p].then = loc[p].then /\ loc'[p].input = loc[p].input
    BY <1>0, <1>s, <2>1, <2>3 DEF Locals
  <2>5. active' = active /\ spent' = spent
    BY <1>2, <1>s, <2>1, <2>2 DEF StartTaskAdopt, TypeOK
  <2>6. pc'[p] = "extend" /\ \A q \in Procs \ {p} : pc'[q] = pc[q]
    BY <1>2, <1>g DEF StartTaskAdopt
  <2>7. UNCHANGED <<tstate, mailbox, history, status, cancelled, terminal, posted>>
    BY <1>2 DEF StartTaskAdopt
  <2> QED
    BY <2>1, <2>3, <2>4, <2>5, <2>6, <2>7 DEF StartKind, StartMoves, OthersWait
<1>3. CASE StartTaskExtend(p)
  BY <1>3, <1>g, <1>m, <1>s DEF StartTaskExtend, StartKind, StartMoves, OthersWait, StartLabels
<1>4. CASE StartTaskInstall(p)
  <2> DEFINE t == loc[p].turn
  <2>1. pc[p] = "install" /\ "install" \in StartLabels
    BY <1>4 DEF StartTaskInstall, StartLabels
  <2>2. t \in Turns /\ pc[t] = "unborn" /\ t # p
    <3>1. Installs(pc[p], loc[p]) /\ t # None
      BY <1>h, <2>1 DEF Installs, HandsFit
    <3> QED
      BY <1>0, <2>1, <3>1 DEF Custody, IdsOK, Locals
  <2>3. SlotState = active.ts /\ active.task = None /\ None \notin Procs
    BY <1>s, <2>1, NoneIsNoProc DEF SlotState
  <2> HIDE DEF t
  <2>4. /\ active' = [ts |-> active.ts, task |-> t, kind |-> loc[p].kind]
        /\ spent' = spent
    BY <1>4, <1>s, <2>1, <2>3 DEF StartTaskInstall, t
  <2>5. /\ pc' = [q \in Procs |-> IF q = t THEN "begin"
                                  ELSE IF q = active.task THEN "dead"
                                  ELSE IF q = p THEN loc[p].then ELSE pc[q]]
        /\ loc' = [q \in Procs |->
                     IF q = t THEN [Blank("dead") EXCEPT !.kind = loc[p].kind,
                                                         !.input = loc[p].input]
                     ELSE IF q = active.task THEN Blank("dead")
                     ELSE IF q = p THEN Blank(loc[p].then) ELSE loc[q]]
        /\ UNCHANGED <<tstate, mailbox, history, status, cancelled, terminal, posted>>
    BY <1>4 DEF StartTaskInstall, t
  <2>6. /\ pc'[t] = "begin" /\ pc'[p] = loc[p].then /\ loc'[p] = Blank(loc[p].then)
        /\ loc'[t].input = loc[p].input /\ loc'[t].mail = <<>>
        /\ \A q \in Procs \ {p, t} : pc'[q] = pc[q] /\ loc'[q] = loc[q]
    BY <2>2, <2>3, <2>5, WhoIsWho DEF Blank
  <2>7. TaskInstalled(p, t)
    BY <2>1, <2>2, <2>4, <2>5, <2>6 DEF TaskInstalled
  <2> QED
    BY <2>2, <2>7 DEF StartKind
<1>r. ASSUME Return(p)
      PROVE  OthersWait(p) /\ pc'[p] = loc[p].then /\ loc'[p] = Blank(loc[p].then)
  BY <1>r DEF Return, OthersWait, TypeOK
<1>5. CASE CheckPendingWork(p)
  <2>1. CASE HasPendingWork
    BY <1>5, <1>g, <2>1 DEF CheckPendingWork, StartKind, LooksForWork, OthersWait
  <2>2. CASE ~HasPendingWork
    BY <1>5, <1>r, <2>2 DEF CheckPendingWork, StartKind, LooksForWork
  <2> QED
    BY <2>1, <2>2
<1>6. CASE ReserveForWork(p)
  <2>1. loc'[p] = [Blank(loc[p].then) EXCEPT !.ts = NewState, !.turn = NewTurn]
        /\ \A r \in Procs \ {p} : loc'[r] = loc[r]
    BY <1>6 DEF ReserveForWork, TypeOK
  <2>2. /\ loc'[p].ts = NewState /\ loc'[p].then = loc[p].then
        /\ loc'[p].input = <<>> /\ loc'[p].mail = <<>>
    BY <2>1 DEF Blank
  <2>3. NewState \in States \ spent
    BY <1>6, FreshState DEF ReserveForWork
  <2>4. pc[p] = "reserve" /\ pc'[p] = "gather" /\ OthersWait(p)
    BY <1>6, <1>g, <2>1 DEF ReserveForWork, OthersWait
  <2> QED
    BY <1>0, <1>6, <2>2, <2>3, <2>4, ContentsOf DEF ReserveForWork, StartKind, SlotReserved
<1>7. CASE ReserveRefused(p)
  BY <1>7, <1>r DEF ReserveRefused, StartKind, LooksForWork
<1>8. CASE GatherPending(p)
  <2>1. pc[p] = "gather" /\ "gather" \in StartLabels /\ "hand" \in StartLabels
    BY <1>8 DEF GatherPending, StartLabels
  <2>2. pc'[p] = "hand" /\ (\A q \in Procs \ {p} : pc'[q] = pc[q])
        /\ UNCHANGED <<active, spent, cancelled, terminal, status, history, posted>>
    BY <1>8, <1>g DEF GatherPending, TakePending
  <2>3. CASE Accepts
    <3>1. /\ loc' = [loc EXCEPT ![p].mail = ActiveItems \o mailbox] /\ mailbox' = <<>>
          /\ tstate' = [tstate EXCEPT ![active.ts].items = <<>>]
      BY <1>8, <1>s, <2>1, <2>3 DEF GatherPending, TakePending
    <3> QED
      BY <1>m, <2>1, <2>2, <2>3, <3>1 DEF StartKind, StartMoves, Takes, OthersWait
  <2>4. CASE ~Accepts
    <3>1. UNCHANGED <<tstate, mailbox, loc>>
      BY <1>8, <2>4 DEF GatherPending, TakePending
    <3>2. loc[p].mail = <<>>
      BY <1>h, <2>1 DEF HandsFit
    <3> QED
      BY <2>1, <2>2, <2>4, <3>1, <3>2 DEF StartKind, StartMoves, Takes, OthersWait
  <2> QED
    BY <2>3, <2>4
<1>9. CASE HandOver(p)
  BY <1>9, <1>g, <1>m, <1>s DEF HandOver, StartKind, StartMoves, OthersWait, StartLabels
<1> QED
  BY <1>b, <1>1, <1>2, <1>3, <1>4, <1>5, <1>6, <1>7, <1>8, <1>9 DEF StartTask, MaybeStartTurn

\* The steps of a task up to the slot's being free.
LEMMA TaskStepsAreKinds ==
  ASSUME TypeOK, Custody, Reservations, NEW t \in Turns, RunTask(t) \/ OnTaskFinished(t)
  PROVE  TurnKind(t)
<1>0. t \in Procs /\ loc[t] \in Locals /\ t # None /\ cancelled = {}
  BY WhoIsWho DEF TypeOK, Reservations, Cast
<1>h. HandsFit(pc[t], loc[t])
  BY <1>0 DEF Custody, HandsOK
<1>w. pc[t] \in Working => active.task = t /\ active.ts # None
  BY <1>0 DEF Reservations, HolderKnowsSlot, SlotKnowsHolder
<1>f. pc[t] \in Finishing => loc[t].ts = active.ts /\ active.task = None /\ active.ts # None
  BY <1>0 DEF Reservations, HolderKnowsSlot
<1>g. ASSUME NEW l, Goto(t, l) PROVE pc'[t] = l /\ \A q \in Procs \ {t} : pc'[q] = pc[q]
  BY <1>g, <1>0 DEF Goto, TypeOK
<1>1. CASE RunTask(t)
  <2>1. pc[t] \in Working
    BY <1>1 DEF RunTask, Begin, RunCompact, RecordInput, FailPrepare, CancelPrepare,
         SessionStartStops, DrainPending, RecordPending, SampleAnswer,
         SampleToolCall, SampleFails, RollOverFails, FollowUp, NoFollowUp,
         StopHookBlocks, RunAgain, Working
  <2>2. pc'[t] \in Working /\ \A q \in Procs \ {t} : pc'[q] = pc[q]
    <3>1. \E l \in Working : pc' = [pc EXCEPT ![t] = l]
      BY <1>1 DEF RunTask, Begin, RunCompact, RecordInput, FailPrepare, CancelPrepare,
         SessionStartStops, DrainPending, RecordPending, SampleAnswer,
         SampleToolCall, SampleFails, RollOverFails, FollowUp, NoFollowUp,
         StopHookBlocks, RunAgain, TakePending, Goto, Working
    <3> QED
      BY <1>0, <3>1 DEF TypeOK
  <2>3. \A q \in Procs \ {t} : loc'[q] = loc[q]
    BY <1>0, <1>1 DEF RunTask, Begin, RunCompact, RecordInput, FailPrepare,
         CancelPrepare, SessionStartStops, DrainPending, RecordPending, SampleAnswer,
         SampleToolCall, SampleFails, RollOverFails, FollowUp, NoFollowUp,
         StopHookBlocks, RunAgain, TakePending, TypeOK
  <2>4. loc'[t].then = loc[t].then /\ loc'[t].input \in {loc[t].input, <<>>}
    BY <1>0, <1>1 DEF RunTask, Begin, RunCompact, RecordInput, FailPrepare,
         CancelPrepare, SessionStartStops, DrainPending, RecordPending, SampleAnswer,
         SampleToolCall, SampleFails, RollOverFails, FollowUp, NoFollowUp,
         StopHookBlocks, RunAgain, TakePending, TypeOK, Locals
  <2>5. /\ UNCHANGED <<active, spent, cancelled, terminal, posted>>
        /\ status' \in {status, "Running", "Errored"}
    BY <1>1 DEF RunTask, Begin, RunCompact, RecordInput, FailPrepare, CancelPrepare,
         SessionStartStops, DrainPending, RecordPending, SampleAnswer,
         SampleToolCall, SampleFails, RollOverFails, FollowUp, NoFollowUp,
         StopHookBlocks, RunAgain, TakePending
  <2>6. OthersWait(t)
    BY <2>2, <2>3 DEF OthersWait
  <2>7. CASE DrainPending(t)
    <3>1. pc[t] = "step" /\ pc'[t] = "record" /\ history' = history /\ TakePending(t, "record")
      BY <1>g, <2>7 DEF DrainPending, TakePending
    <3>2. loc[t].mail = <<>>
      BY <1>h, <3>1 DEF HandsFit
    <3>3. Takes(t)
      <4>1. CASE Accepts
        <5>1. /\ loc' = [loc EXCEPT ![t].mail = ActiveItems \o mailbox] /\ mailbox' = <<>>
              /\ tstate' = [tstate EXCEPT ![active.ts].items = <<>>]
          BY <1>w, <2>1, <3>1, <4>1 DEF TakePending
        <5>2. loc'[t] = [loc[t] EXCEPT !.mail = ActiveItems \o mailbox]
          BY <1>0, <5>1 DEF TypeOK
        <5>3. loc'[t].mail = ActiveItems \o mailbox
          BY <1>0, <5>2 DEF Locals
        <5> QED
          BY <4>1, <5>1, <5>3 DEF Takes
      <4>2. CASE ~Accepts
        BY <3>1, <3>2, <4>2 DEF TakePending, Takes
      <4> QED
        BY <4>1, <4>2
    <3> QED
      BY <2>1, <2>2, <2>4, <2>5, <2>6, <3>1, <3>3 DEF TurnKind, WorksOn
  <2>8. CASE RecordPending(t)
    <3>1. /\ pc[t] = "record" /\ pc'[t] # "record" /\ UNCHANGED <<tstate, mailbox>>
          /\ history' = history \o Recordable(loc[t].mail)
      BY <1>g, <2>8 DEF RecordPending
    <3> QED
      BY <2>1, <2>2, <2>4, <2>5, <2>6, <3>1 DEF TurnKind, WorksOn
  <2>9. CASE ~DrainPending(t) /\ ~RecordPending(t)
    <3>1. pc[t] # "record"
      BY <1>1, <2>9 DEF RunTask, Begin, RunCompact, RecordInput, FailPrepare,
         CancelPrepare, SessionStartStops, SampleAnswer,
         SampleToolCall, SampleFails, RollOverFails, FollowUp, NoFollowUp,
         StopHookBlocks, RunAgain
    <3>2. pc'[t] # "record"
      BY <1>1, <1>g, <2>9 DEF RunTask, Begin, RunCompact, RecordInput, FailPrepare,
         CancelPrepare, SessionStartStops, SampleAnswer,
         SampleToolCall, SampleFails, RollOverFails, FollowUp, NoFollowUp,
         StopHookBlocks, RunAgain
    <3>3. mailbox' = mailbox /\ tstate' \in {tstate, Opened(t), Deferred(t)}
      BY <1>1, <2>9 DEF RunTask, Begin, RunCompact, RecordInput, FailPrepare,
         CancelPrepare, SessionStartStops, SampleAnswer,
         SampleToolCall, SampleFails, RollOverFails, FollowUp, NoFollowUp,
         StopHookBlocks, RunAgain
    <3>4. history' \in {history, history \o Recordable(loc[t].input)}
      BY <1>1, <2>9 DEF RunTask, Begin, RunCompact, RecordInput, FailPrepare,
         CancelPrepare, SessionStartStops, SampleAnswer,
         SampleToolCall, SampleFails, RollOverFails, FollowUp, NoFollowUp,
         StopHookBlocks, RunAgain
    <3> QED
      BY <2>1, <2>2, <2>4, <2>5, <2>6, <3>1, <3>2, <3>3, <3>4 DEF TurnKind, WorksOn
  <2> QED
    BY <2>7, <2>8, <2>9
<1>2. CASE CheckCancelled(t)
  <2>1. /\ pc[t] = "end" /\ Goto(t, "take")
        /\ UNCHANGED <<active, tstate, spent, mailbox, history, status, cancelled,
                       terminal, loc, posted>>
    BY <1>0, <1>2 DEF CheckCancelled
  <2>2. pc'[t] = "take" /\ OthersWait(t)
    BY <1>g, <2>1 DEF OthersWait
  <2> QED
    BY <2>1, <2>2 DEF TurnKind, WorksOn, Working
<1>3. CASE FinishTake(t)
  <2>1. pc[t] = "take" /\ active.task # None
    BY <1>0, <1>3, <1>w DEF FinishTake, Working
  <2>2. /\ active' = [active EXCEPT !.task = None] /\ loc' = [loc EXCEPT ![t].ts = active.ts]
        /\ Goto(t, "report")
        /\ UNCHANGED <<tstate, spent, mailbox, history, status, cancelled, terminal, posted>>
    BY <1>3, <2>1 DEF FinishTake
  <2>3. loc'[t] = [loc[t] EXCEPT !.ts = active.ts] /\ \A q \in Procs \ {t} : loc'[q] = loc[q]
    BY <1>0, <2>2 DEF TypeOK
  <2>4. /\ loc'[t].ts = active.ts /\ loc'[t].input = loc[t].input
        /\ loc'[t].then = loc[t].then
    BY <1>0, <2>3 DEF Locals
  <2> QED
    BY <1>g, <2>1, <2>2, <2>3, <2>4 DEF TurnKind, LeavesSlot, OthersWait
<1>4. CASE FinishReport(t)
  <2>1. pc[t] = "report" /\ loc[t].ts = active.ts
    BY <1>4, <1>f DEF FinishReport, Finishing
  <2>2. /\ tstate' = [tstate EXCEPT ![active.ts].items = <<>>]
        /\ history' = history \o Recordable(tstate[active.ts].items)
        /\ Goto(t, "clear") /\ status' # "Running"
        /\ UNCHANGED <<active, spent, mailbox, cancelled, loc, posted>>
    BY <1>4, <2>1 DEF FinishReport
  <2>3. \E e : terminal' = [terminal EXCEPT ![t] = Append(terminal[t], e)]
    <3>1. terminal' = [terminal EXCEPT ![t] =
                Append(terminal[t], IF loc[t].result = "aborted" THEN "aborted" ELSE "complete")]
      BY <1>4 DEF FinishReport
    <3> QED
      BY <3>1
  <2> QED
    BY <1>g, <2>1, <2>2, <2>3 DEF TurnKind, ReportsEnd, OthersWait
<1>5. CASE FinishClear(t)
  <2>1. pc[t] = "clear" /\ loc[t].ts = active.ts /\ active.task = None
    BY <1>5, <1>f DEF FinishClear, Finishing
  <2>2. /\ active' = Idle /\ Goto(t, "maybe")
        /\ UNCHANGED <<loc, tstate, spent, mailbox, history, status, cancelled, terminal, posted>>
    BY <1>5, <2>1 DEF FinishClear
  <2> QED
    BY <1>g, <2>1, <2>2 DEF TurnKind, ClearsSlot, OthersWait
<1> QED
  BY <1>1, <1>2, <1>3, <1>4, <1>5 DEF OnTaskFinished

\* Steering.
LEMMA SteeringIsKind ==
  ASSUME TypeOK, Custody, NEW u \in UserInputs, SteerInput(u) \/ SteerRefused(u)
  PROVE  EnvKind
<1>1. active.task # None => active.ts # None
  BY DEF Custody, IdsOK
<1>2. CASE SteerInput(u)
  BY <1>1, <1>2 DEF SteerInput, EnvKind, ItemArrived
<1>3. CASE SteerRefused(u)
  BY <1>3 DEF SteerRefused, EnvKind, NothingHappens
<1> QED
  BY <1>2, <1>3

\* start_if_idle up to the reservation.
LEMMA StartIfIdleIsKind ==
  ASSUME TypeOK, Custody, Reservations, NEW op, NEW input, NEW extra,
         StartIfIdle(Loop, op, input, extra),
         Contents(input) \cap Mails = {}, Contents(extra) \cap Mails = {}
  PROVE  StartKind(Loop) \/ EnvKind
<1>0. Loop \in Procs /\ Loop \notin Routers /\ loc[Loop] \in Locals /\ pc[Loop] = "idle"
  BY WhoIsWho DEF TypeOK, StartIfIdle, Ready
<1>1. CASE HasTrigger(mailbox) \/ active.ts # None
  BY <1>1 DEF StartIfIdle, EnvKind, NothingHappens
<1>2. CASE ~(HasTrigger(mailbox) \/ active.ts # None)
  <2>1. /\ FreeStates # {} /\ active.ts = None
        /\ active' = Reserved(NewState) /\ spent' = spent \cup {NewState, NewTurn}
        /\ loc' = [loc EXCEPT ![Loop] = [loc[Loop] EXCEPT !.ts = NewState,
                          !.turn = NewTurn, !.kind = "Regular",
                          !.input = input, !.mail = extra]]
        /\ Goto(Loop, "ifidle")
        /\ UNCHANGED <<tstate, mailbox, history, status, cancelled, terminal, posted>>
    BY <1>2 DEF StartIfIdle
  <2>2. NewState \in States \ spent
    BY <2>1, FreshState
  <2>3. /\ loc'[Loop] = [loc[Loop] EXCEPT !.ts = NewState, !.turn = NewTurn,
                            !.kind = "Regular", !.input = input, !.mail = extra]
        /\ \A q \in Procs \ {Loop} : loc'[q] = loc[q]
    BY <1>0, <2>1 DEF TypeOK
  <2>4. /\ loc'[Loop].ts = NewState /\ loc'[Loop].then = loc[Loop].then
        /\ loc'[Loop].input = input /\ loc'[Loop].mail = extra
    BY <1>0, <2>3 DEF Locals
  <2>5. pc'[Loop] = "ifidle" /\ \A q \in Procs \ {Loop} : pc'[q] = pc[q]
    BY <1>0, <2>1 DEF Goto, TypeOK
  <2>6. OthersWait(Loop)
    BY <2>3, <2>5 DEF OthersWait
  <2>7. SlotReserved(Loop)
    BY <1>0, <2>1, <2>2, <2>4, <2>5, <2>6 DEF SlotReserved
  <2> QED
    BY <2>7 DEF StartKind
<1> QED
  BY <1>1, <1>2

\* The second look of start_if_idle.
LEMMA SettleIsKind ==
  ASSUME TypeOK, Custody, Reservations, SettleIdleStart(Loop)
  PROVE  StartKind(Loop)
<1>0. Loop \in Procs /\ loc[Loop] \in Locals /\ pc[Loop] = "ifidle"
  BY WhoIsWho DEF TypeOK, SettleIdleStart
<1>1. loc[Loop].ts = active.ts /\ active.task = None /\ loc[Loop].then = "idle"
  BY <1>0 DEF Reservations, Cast, HolderKnowsSlot, StartLabels
<1>g. ASSUME NEW l, Goto(Loop, l)
      PROVE  pc'[Loop] = l /\ \A q \in Procs \ {Loop} : pc'[q] = pc[q]
  BY <1>0, <1>g DEF Goto, TypeOK
<1>2. ASSUME NEW l \in {"maybe", "idle"}, GiveUpIdleStart(Loop, l) PROVE StartKind(Loop)
  <2>1. /\ active' = Idle /\ Goto(Loop, l)
        /\ loc' = [loc EXCEPT ![Loop] = Blank(loc[Loop].then)]
        /\ UNCHANGED <<tstate, spent, mailbox, history, status, cancelled, terminal, posted>>
    BY <1>1, <1>2 DEF GiveUpIdleStart, ClearReserved
  <2>2. loc'[Loop] = Blank(loc[Loop].then) /\ \A q \in Procs \ {Loop} : loc'[q] = loc[q]
    BY <1>0, <2>1 DEF TypeOK
  <2> QED
    BY <1>0, <1>g, <2>1, <2>2 DEF StartKind, SlotGivenBack, OthersWait
<1>3. CASE /\ tstate' = Extended(loc[Loop].ts, loc[Loop].mail)
           /\ loc' = [loc EXCEPT ![Loop].mail = <<>>]
           /\ Goto(Loop, "drain")
           /\ UNCHANGED <<active, spent, mailbox, history, status,
                          cancelled, terminal, fate, posted, suspended>>
  <2>2. loc'[Loop] = [loc[Loop] EXCEPT !.mail = <<>>]
        /\ \A q \in Procs \ {Loop} : loc'[q] = loc[q]
    BY <1>0, <1>3 DEF TypeOK
  <2>3. /\ loc'[Loop].mail = <<>> /\ loc'[Loop].ts = loc[Loop].ts
        /\ loc'[Loop].then = loc[Loop].then /\ loc'[Loop].input = loc[Loop].input
    BY <1>0, <2>2 DEF Locals
  <2>4. pc'[Loop] = "drain" /\ OthersWait(Loop)
    BY <1>3, <1>g, <2>2 DEF OthersWait
  <2>5. StartMoves(Loop)
    BY <1>0, <1>1, <1>3, <2>3, <2>4 DEF StartMoves, StartLabels
  <2> QED
    BY <2>5 DEF StartKind
<1> QED
  BY <1>1, <1>2, <1>3 DEF SettleIdleStart

\* An operation of the loop.
LEMMA LoopOpIsKind ==
  ASSUME ReservedStarts, TypeOK, Custody, Reservations, LoopOp(Loop)
  PROVE  StartKind(Loop) \/ EnvKind
<1>0. /\ "Compact" \notin Ops /\ "Interrupt" \notin Ops /\ "Shutdown" \notin Ops
      /\ "Suspend" \notin Ops
  BY DEF ReservedStarts
<1>1. pc[Loop] \notin {"exiting", "leaving"} /\ Loop \in Procs
  BY WhoIsWho DEF Reservations, Cast, StartLabels
<1>n. \A i \in UserInputs \cup Notices : Contents(<<i>>) \cap Mails = {}
  BY ConstantsAssumption DEF Contents
<1>e. Contents(<<>>) \cap Mails = {}
  BY ContentsOf
<1>2. ASSUME NEW u \in UserInputs, Steer(Loop, u) PROVE EnvKind
  BY <1>2, SteeringIsKind DEF Steer
<1>3. ASSUME NEW u \in UserInputs, StartIfIdle(Loop, "StartIfIdle", <<u>>, <<>>)
      PROVE  StartKind(Loop) \/ EnvKind
  BY <1>3, <1>n, <1>e, StartIfIdleIsKind
<1>4. ASSUME NEW x \in Notices, StartIfIdle(Loop, "StartIfIdle", <<>>, <<x>>)
      PROVE  StartKind(Loop) \/ EnvKind
  BY <1>4, <1>n, <1>e, StartIfIdleIsKind
<1>5. CASE StartIfIdle(Loop, "Recover", <<>>, <<>>)
  BY <1>5, <1>e, StartIfIdleIsKind
<1>6. CASE SettleIdleStart(Loop)
  BY <1>6, SettleIsKind
<1>7. ASSUME NEW m \in Mails, Communicate(Loop, m) PROVE EnvKind
  <2>1. /\ pc[Loop] = "idle" /\ mailbox' = Append(mailbox, m) /\ posted' = Append(posted, m)
        /\ fate[m] = "unsent" /\ fate' = Sent(m)
        /\ UNCHANGED <<active, tstate, spent, history, status, cancelled, terminal, loc>>
    BY <1>7 DEF Communicate, Ready
  <2>2. pc'[Loop] \in {"maybe", "idle"} /\ \A q \in Procs \ {Loop} : pc'[q] = pc[q]
    BY <1>1, <1>7 DEF Communicate, Goto, TypeOK
  <2>3. MailPosted(m)
    BY <2>1, <2>2 DEF MailPosted, OthersWait
  <2> QED
    BY <2>3 DEF EnvKind
<1> QED
  BY <1>0, <1>1, <1>2, <1>3, <1>4, <1>5, <1>6, <1>7
  DEF LoopOp, CompactOp, Interrupt, Shutdown, Suspend, ExitLoop, FinishSuspend, Ready

\* Every step is of one of these kinds.
LEMMA ReservedStepKinds ==
  ASSUME ReservedStarts, TypeOK, Custody, Reservations, [Next]_vars
  PROVE  (\E p \in Procs : StartKind(p)) \/ EnvKind \/ \E t \in Turns : TurnKind(t)
<1>1. CASE UNCHANGED vars
  BY <1>1 DEF vars, EnvKind, NothingHappens
<1>2. ASSUME NEW p \in Clients, ClientOp(p) PROVE FALSE
  BY <1>2 DEF ClientOp, StartOrSteer, Ready, ReservedStarts
<1>3. ASSUME NEW t \in Turns, GuardianDenial(t) PROVE FALSE
  BY <1>3 DEF GuardianDenial, ReservedStarts
<1>4. ASSUME NEW x \in Notices, Inject(x) PROVE EnvKind
  BY <1>4 DEF Inject, EnvKind, ItemArrived, NothingHappens
<1>5. CASE LoopOp(Loop)
  BY <1>5, LoopOpIsKind, WhoIsWho
<1>6. ASSUME NEW p \in Procs, Steps(p) PROVE StartKind(p)
  BY <1>6, StepsAreStarts
<1>7. ASSUME NEW t \in Turns, RunTask(t) \/ OnTaskFinished(t) PROVE TurnKind(t)
  BY <1>7, TaskStepsAreKinds
<1> QED
  BY <1>1, <1>2, <1>3, <1>4, <1>5, <1>6, <1>7 DEF Next

(***************************************************************************)
(* One holder: Reservations is inductive.                                  *)
(***************************************************************************)

\* At first nobody holds the slot.
LEMMA InitReservations == Init => Reservations
<1> SUFFICES ASSUME Init PROVE Reservations
  OBVIOUS
<1>1. /\ pc[Loop] = "idle" /\ pc[Guard] = "off" /\ loc[Loop].then = "idle"
      /\ \A r \in Routers : pc[r] = "idle"
      /\ \A t \in Turns : pc[t] = "unborn" /\ terminal[t] = <<>>
      /\ cancelled = {} /\ active = Idle /\ active.task = None /\ active.ts = None
      /\ status = "PendingInit"
  BY WhoIsWho DEF Init, Blank, Idle, Clients
<1>2. \A p \in Procs : ~Busy(p) /\ pc[p] \notin StartLabels \cup Finishing
  BY <1>1, WhoIsWho DEF Busy, StartLabels, Working, Finishing
<1>3. Cast
  BY <1>1 DEF Cast
<1>4. OneHolder /\ HolderKnowsSlot /\ SlotKnowsHolder
  BY <1>1, <1>2, WhoIsWho DEF OneHolder, HolderKnowsSlot, SlotKnowsHolder, Busy
<1>5. EndReported
  BY <1>1 DEF EndReported
<1> QED
  BY <1>3, <1>4, <1>5 DEF Reservations

\* The labels at which a process does and does not hold the slot.
LEMMA HoldingLabels ==
  /\ Working \cap (StartLabels \cup Finishing) = {}
  /\ Working \cap {"unborn", "dead", "maybe", "reserve", "idle", "off"} = {}
  /\ StartLabels \cap {"report", "clear", "unborn", "dead", "maybe", "reserve", "idle", "off"} = {}
  /\ Finishing = {"report", "clear"}
  BY DEF Working, StartLabels, Finishing

\* The cast stays when one process moves as it may.
LEMMA CastStays ==
  ASSUME Cast, cancelled' = cancelled, NEW p \in Procs, OthersWait(p), p = Loop \/ p \in Turns,
         p = Loop => /\ pc'[p] \in {"idle", "maybe", "reserve"} \cup StartLabels
                     /\ loc'[p].then = "idle"
  PROVE  Cast'
  BY WhoIsWho DEF Cast, OthersWait

\* A start that goes on.
LEMMA StartMovesReservations ==
  ASSUME TypeOK, Custody, Reservations, NEW p \in Procs, StartMoves(p)
  PROVE  Reservations'
<1>0. /\ pc[p] \in StartLabels /\ pc'[p] \in StartLabels /\ OthersWait(p)
      /\ loc'[p].ts = loc[p].ts /\ loc'[p].then = loc[p].then
      /\ UNCHANGED <<active, spent, cancelled, terminal, status>>
  BY DEF StartMoves
<1>1. p = Loop \/ p \in Turns
  BY <1>0, Actors, HoldingLabels DEF Reservations
<1>2. \A q \in Procs : Busy(q)' <=> Busy(q)
  BY <1>0 DEF Busy, OthersWait
<1>3. Cast'
  BY <1>0, <1>1, CastStays DEF Reservations, Cast
<1>4. OneHolder'
  BY <1>2 DEF Reservations, OneHolder
<1>5. HolderKnowsSlot'
  BY <1>0, HoldingLabels, WhoIsWho DEF Reservations, HolderKnowsSlot, OthersWait
<1>6. SlotKnowsHolder'
  <2>1. active.task = None
    BY <1>0 DEF Reservations, HolderKnowsSlot
  <2> QED
    BY <1>0, <1>2, <2>1 DEF Reservations, SlotKnowsHolder
<1>7. EndReported'
  <2>1. \A t \in Turns : pc'[t] \in Working \cup {"unborn", "report"}
                     <=> pc[t] \in Working \cup {"unborn", "report"}
    BY <1>0, HoldingLabels, WhoIsWho DEF OthersWait
  <2>2. \A t \in Turns : pc'[t] \in Working \cup {"report"} <=> pc[t] \in Working \cup {"report"}
    BY <1>0, HoldingLabels, WhoIsWho DEF OthersWait
  <2> QED
    BY <1>0, <2>1, <2>2 DEF Reservations, EndReported
<1> QED
  BY <1>3, <1>4, <1>5, <1>6, <1>7 DEF Reservations

\* A reservation.
LEMMA SlotReservedReservations ==
  ASSUME TypeOK, TypeOK', Custody, Custody', Reservations, NEW p \in Procs, SlotReserved(p)
  PROVE  Reservations'
<1>0. /\ pc[p] \in {"idle", "reserve"} /\ pc'[p] \in {"gather", "ifidle"} /\ OthersWait(p)
      /\ loc'[p].then = loc[p].then /\ active.ts = None /\ p \notin Routers
      /\ UNCHANGED <<cancelled, terminal, status>>
  BY DEF SlotReserved
<1>1. PICK s \in States \ spent : active' = Reserved(s) /\ loc'[p].ts = s /\ s \in spent'
  BY DEF SlotReserved
<1>a. active'.ts = s /\ active'.task = None /\ s # None
  BY <1>1, WhoIsWho DEF Reserved
<1>2. p = Loop \/ p \in Turns
  BY <1>0, WhoIsWho DEF Reservations, Cast
<1>3. \A q \in Procs : ~Busy(q)
  <2>1. active.task = None
    BY <1>0 DEF Reservations, SlotKnowsHolder
  <2>2. \A q \in Procs : Busy(q) => q \in Turns \/ pc[q] \in StartLabels
    BY WhoIsWho, HoldingLabels DEF Reservations, Cast, Busy
  <2> QED
    BY <1>0, <2>1, <2>2, WhoIsWho DEF Reservations, HolderKnowsSlot, Busy
<1>4. pc'[p] \in StartLabels /\ Busy(p)' /\ \A q \in Procs \ {p} : ~Busy(q)'
  BY <1>0, <1>3 DEF Busy, OthersWait, StartLabels
<1>5. Cast'
  BY <1>0, <1>2, <1>4, CastStays DEF Reservations, Cast
<1>6. OneHolder'
  BY <1>4 DEF OneHolder
<1>7. HolderKnowsSlot'
  <2>1. \A q \in Procs \ {p} : pc'[q] \notin StartLabels \cup Finishing \cup Working
    BY <1>4 DEF Busy
  <2>2. pc'[p] \notin Working
    BY <1>4, HoldingLabels
  <2> QED
    BY <1>1, <1>a, <2>1, <2>2, WhoIsWho DEF HolderKnowsSlot
<1>8. SlotKnowsHolder'
  BY <1>1, <1>4, <1>a DEF SlotKnowsHolder
<1>9. EndReported'
  <2>1. \A t \in Turns : pc'[t] \in Working \cup {"unborn", "report"}
                     <=> pc[t] \in Working \cup {"unborn", "report"}
    BY <1>0, <1>4, HoldingLabels, WhoIsWho DEF OthersWait
  <2>2. \A t \in Turns : pc'[t] \in Working \cup {"report"} <=> pc[t] \in Working \cup {"report"}
    BY <1>0, <1>4, HoldingLabels, WhoIsWho DEF OthersWait
  <2> QED
    BY <1>0, <2>1, <2>2 DEF Reservations, EndReported
<1> QED
  BY <1>5, <1>6, <1>7, <1>8, <1>9 DEF Reservations

\* A process that does not hold the slot, and does not get it, moves.
LEMMA BystanderReservations ==
  ASSUME TypeOK, Custody, Reservations, NEW p \in Procs, OthersWait(p),
         p = Loop \/ p \in Turns,
         pc[p] \in {"idle", "maybe", "reserve", "dead"},
         pc'[p] \in {"idle", "maybe", "reserve", "dead"},
         p = Loop => pc'[p] # "dead" /\ loc'[p].then = "idle",
         UNCHANGED <<active, spent, cancelled, terminal, status>>
  PROVE  Reservations'
<1>2. \A q \in Procs : Busy(q)' <=> Busy(q)
  BY HoldingLabels DEF Busy, OthersWait
<1>3. Cast'
  BY CastStays DEF Reservations
<1>4. OneHolder'
  BY <1>2 DEF Reservations, OneHolder
<1>5. HolderKnowsSlot'
  BY HoldingLabels, WhoIsWho DEF Reservations, HolderKnowsSlot, OthersWait
<1>6. SlotKnowsHolder'
  <2>1. active.task # None => active.task \in Turns /\ pc'[active.task] \in Working
    <3> SUFFICES ASSUME active.task # None
                 PROVE  active.task \in Turns /\ pc'[active.task] \in Working
      OBVIOUS
    <3>1. active.task \in Turns /\ pc[active.task] \in Working
      BY DEF Reservations, SlotKnowsHolder, TypeOK
    <3>2. active.task # p
      BY <3>1, HoldingLabels
    <3> QED
      BY <3>1, <3>2, WhoIsWho DEF OthersWait
  <2> QED
    BY <1>2, <2>1 DEF Reservations, SlotKnowsHolder
<1>7. EndReported'
  <2>1. \A t \in Turns : pc'[t] \in Working \cup {"unborn", "report"}
                     <=> pc[t] \in Working \cup {"unborn", "report"}
    BY HoldingLabels, WhoIsWho DEF OthersWait
  <2>2. \A t \in Turns : pc'[t] \in Working \cup {"report"} <=> pc[t] \in Working \cup {"report"}
    BY HoldingLabels, WhoIsWho DEF OthersWait
  <2> QED
    BY <2>1, <2>2 DEF Reservations, EndReported
<1> QED
  BY <1>3, <1>4, <1>5, <1>6, <1>7 DEF Reservations

\* The holder leaves: the slot is idle.
LEMMA SlotFreedReservations ==
  ASSUME TypeOK, Custody, Reservations, NEW p \in Procs, OthersWait(p),
         p = Loop \/ p \in Turns,
         pc[p] \in {"ifidle", "clear"}, pc'[p] \in {"maybe", "idle"},
         p = Loop => loc'[p].then = "idle", active' = Idle,
         UNCHANGED <<cancelled, terminal, status>>
  PROVE  Reservations'
<1>0. active'.ts = None /\ active'.task = None /\ pc[p] \in StartLabels \cup Finishing
  BY DEF Idle, StartLabels, Finishing
<1>1. \A q \in Procs \ {p} : ~Busy(q)
  BY <1>0 DEF Reservations, OneHolder, Busy
<1>2. \A q \in Procs : ~Busy(q)'
  BY <1>1, HoldingLabels DEF Busy, OthersWait
<1>3. Cast'
  BY CastStays DEF Reservations
<1>4. OneHolder' /\ HolderKnowsSlot' /\ SlotKnowsHolder'
  BY <1>0, <1>2, WhoIsWho DEF OneHolder, HolderKnowsSlot, SlotKnowsHolder, Busy
<1>a. {pc[p], pc'[p]} \cap (Working \cup {"unborn", "report"}) = {}
  BY DEF Working
<1>5. EndReported'
  <2>1. \A t \in Turns : pc'[t] \in Working \cup {"unborn", "report"}
                     <=> pc[t] \in Working \cup {"unborn", "report"}
    BY <1>a, WhoIsWho DEF OthersWait
  <2>2. \A t \in Turns : pc'[t] \in Working \cup {"report"} <=> pc[t] \in Working \cup {"report"}
    BY <1>a, WhoIsWho DEF OthersWait
  <2> QED
    BY <2>1, <2>2 DEF Reservations, EndReported
<1> QED
  BY <1>3, <1>4, <1>5 DEF Reservations

\* The task is installed in the slot that was reserved for it.
LEMMA InstalledReservations ==
  ASSUME TypeOK, Custody, Reservations, NEW p \in Procs, NEW t \in Turns, TaskInstalled(p, t)
  PROVE  Reservations'
<1>0. /\ pc[p] = "install" /\ pc[t] = "unborn" /\ pc'[p] = loc[p].then /\ pc'[t] = "begin"
      /\ loc'[p] = Blank(loc[p].then) /\ active'.ts = active.ts /\ active'.task = t
      /\ \A q \in Procs \ {p, t} : pc'[q] = pc[q] /\ loc'[q] = loc[q]
      /\ UNCHANGED <<spent, cancelled, terminal, status>>
  BY DEF TaskInstalled
<1>1. /\ p = Loop \/ p \in Turns
      /\ loc[p].then \in {"idle", "dead"} /\ (p = Loop => loc[p].then = "idle")
  BY <1>0, Actors DEF Reservations
<1>a. "install" \in StartLabels /\ "begin" \in Working /\ p # t /\ t \in Procs /\ t # None
  BY <1>0, WhoIsWho DEF StartLabels, Working
<1>2. \A q \in Procs \ {p} : ~Busy(q)
  BY <1>0, <1>a DEF Reservations, OneHolder, Busy
<1>3. \A q \in Procs \ {t} : ~Busy(q)'
  <2>1. ~Busy(p)'
    BY <1>0, <1>1, HoldingLabels DEF Busy
  <2> QED
    BY <1>0, <1>2, <2>1 DEF Busy
<1>4. Busy(t)' /\ pc'[t] \in Working
  BY <1>0, <1>a DEF Busy
<1>5. Cast'
  <2>1. loc'[p].then = loc[p].then
    BY <1>0 DEF Blank
  <2> QED
    BY <1>0, <1>1, <2>1, WhoIsWho DEF Reservations, Cast
<1>6. OneHolder'
  BY <1>3 DEF OneHolder
<1>7. active.ts # None /\ active.ts \in spent
  BY <1>0, <1>a DEF Reservations, HolderKnowsSlot, SlotKnowsHolder
<1>8. HolderKnowsSlot'
  <2>1. \A q \in Procs \ {t} : pc'[q] \notin StartLabels \cup Finishing \cup Working
    BY <1>3 DEF Busy
  <2>2. pc'[t] \notin StartLabels \cup Finishing
    BY <1>4, HoldingLabels
  <2> QED
    BY <1>0, <2>1, <2>2, WhoIsWho DEF HolderKnowsSlot
<1>9. SlotKnowsHolder'
  BY <1>0, <1>4, <1>7, <1>a DEF SlotKnowsHolder
<1>10. EndReported'
  <2>1. \A u \in Turns : pc'[u] \in Working \cup {"unborn", "report"}
                     <=> pc[u] \in Working \cup {"unborn", "report"}
    BY <1>0, <1>1, <1>4, <1>a, HoldingLabels, WhoIsWho
  <2>2. \E u \in Turns : pc'[u] \in Working \cup {"report"}
    BY <1>4
  <2> QED
    BY <1>0, <2>1, <2>2 DEF Reservations, EndReported
<1> QED
  BY <1>5, <1>6, <1>8, <1>9, <1>10 DEF Reservations

\* The steps of a start.
LEMMA StartKindReservations ==
  ASSUME TypeOK, TypeOK', Custody, Custody', Reservations, NEW p \in Procs, StartKind(p)
  PROVE  Reservations'
<1>1. CASE SlotGivenBack(p)
  <2>1. pc[p] = "ifidle" /\ "ifidle" \in StartLabels
    BY <1>1 DEF SlotGivenBack, StartLabels
  <2>2. /\ p = Loop \/ p \in Turns
        /\ p = Loop => loc[p].then = "idle"
    BY <2>1, Actors DEF Reservations
  <2>3. p = Loop => loc'[p].then = "idle"
    BY <1>1, <2>2 DEF SlotGivenBack, Blank
  <2> QED
    BY <1>1, <2>1, <2>2, <2>3, SlotFreedReservations DEF SlotGivenBack
<1>2. CASE LooksForWork(p)
  <2>1. pc[p] \in {"maybe", "reserve"}
    BY <1>2 DEF LooksForWork
  <2>2. /\ p = Loop \/ p \in Turns
        /\ loc[p].then \in {"idle", "dead"}
        /\ p = Loop => loc[p].then = "idle"
    BY <2>1, Actors DEF Reservations
  <2>3. p = Loop => loc'[p].then = "idle"
    BY <1>2, <2>2 DEF LooksForWork, Blank
  <2> QED
    BY <1>2, <2>1, <2>2, <2>3, BystanderReservations DEF LooksForWork
<1> QED
  BY <1>1, <1>2, StartMovesReservations, SlotReservedReservations, InstalledReservations
  DEF StartKind

\* What the environment does leaves the slot to its holder.
LEMMA EnvKindReservations ==
  ASSUME TypeOK, Custody, Reservations, EnvKind
  PROVE  Reservations'
<1>1. ASSUME NEW m \in Mails, MailPosted(m) PROVE Reservations'
  <2>1. loc'[Loop].then = "idle"
    BY <1>1 DEF MailPosted, Reservations, Cast
  <2> QED
    BY <1>1, <2>1, BystanderReservations, WhoIsWho DEF MailPosted
<1>2. ASSUME UNCHANGED <<active, spent, status, cancelled, terminal, pc, loc>>
      PROVE  Reservations'
  <2>1. Cast' /\ OneHolder' /\ HolderKnowsSlot'
    BY <1>2 DEF Reservations, Cast, OneHolder, HolderKnowsSlot, Busy
  <2>2. SlotKnowsHolder' /\ EndReported'
    BY <1>2 DEF Reservations, SlotKnowsHolder, EndReported, Busy
  <2> QED
    BY <2>1, <2>2 DEF Reservations
<1> QED
  BY <1>1, <1>2 DEF EnvKind, ItemArrived, NothingHappens

\* The steps of a task.
LEMMA TurnKindReservations ==
  ASSUME TypeOK, Custody, Reservations, NEW t \in Turns, TurnKind(t)
  PROVE  Reservations'
<1>0. t \in Procs /\ t # Loop /\ t # None
  BY WhoIsWho
<1>1. CASE WorksOn(t)
  <2>1. /\ pc[t] \in Working /\ pc'[t] \in Working /\ OthersWait(t)
        /\ UNCHANGED <<active, spent, cancelled, terminal>>
    BY <1>1 DEF WorksOn
  <2>2. \A q \in Procs : Busy(q)' <=> Busy(q)
    BY <2>1 DEF Busy, OthersWait
  <2>3. Cast'
    BY <1>0, <2>1, CastStays DEF Reservations
  <2>4. OneHolder'
    BY <2>2 DEF Reservations, OneHolder
  <2>5. HolderKnowsSlot'
    BY <1>0, <2>1, HoldingLabels, WhoIsWho DEF Reservations, HolderKnowsSlot, OthersWait
  <2>6. SlotKnowsHolder'
    <3>1. active.task = t /\ active.ts # None
      BY <1>0, <2>1 DEF Reservations, HolderKnowsSlot, SlotKnowsHolder
    <3> QED
      BY <1>0, <2>1, <2>2, <3>1 DEF Reservations, SlotKnowsHolder
  <2>7. EndReported'
    <3>1. \A u \in Turns : pc'[u] \in Working \cup {"unborn", "report"}
                     <=> pc[u] \in Working \cup {"unborn", "report"}
      BY <2>1, WhoIsWho DEF OthersWait
    <3>2. \E u \in Turns : pc'[u] \in Working \cup {"report"}
      BY <2>1
    <3> QED
      BY <2>1, <3>1, <3>2 DEF Reservations, EndReported
  <2> QED
    BY <2>3, <2>4, <2>5, <2>6, <2>7 DEF Reservations
<1>2. CASE LeavesSlot(t)
  <2>1. /\ pc[t] = "take" /\ pc'[t] = "report" /\ OthersWait(t)
        /\ active' = [active EXCEPT !.task = None] /\ loc'[t].ts = active.ts
        /\ UNCHANGED <<spent, status, cancelled, terminal>>
    BY <1>2 DEF LeavesSlot
  <2>a. "take" \in Working /\ "report" \in Finishing
    BY DEF Working, Finishing
  <2>b. /\ active'.ts = active.ts /\ active'.task = None /\ active.ts # None
        /\ active.ts \in spent
    BY <1>0, <2>1, <2>a DEF TypeOK, Reservations, HolderKnowsSlot, SlotKnowsHolder
  <2>c. \A q \in Procs \ {t} : ~Busy(q)
    BY <1>0, <2>1, <2>a DEF Reservations, OneHolder, Busy
  <2>2. Busy(t)' /\ \A q \in Procs \ {t} : ~Busy(q)'
    BY <2>1, <2>a, <2>c DEF Busy, OthersWait
  <2>3. Cast'
    BY <1>0, <2>1, CastStays DEF Reservations
  <2>4. OneHolder'
    BY <2>2 DEF OneHolder
  <2>5. HolderKnowsSlot'
    <3>1. \A q \in Procs \ {t} : pc'[q] \notin StartLabels \cup Finishing \cup Working
      BY <2>2 DEF Busy
    <3>2. pc'[t] \notin Working
      BY <2>1, <2>a, HoldingLabels
    <3> QED
      BY <2>1, <2>b, <3>1, <3>2, WhoIsWho DEF HolderKnowsSlot
  <2>6. SlotKnowsHolder'
    BY <1>0, <2>1, <2>2, <2>b DEF SlotKnowsHolder
  <2>7. EndReported'
    <3>1. \A u \in Turns : pc'[u] \in Working \cup {"unborn", "report"}
                     <=> pc[u] \in Working \cup {"unborn", "report"}
      BY <2>1, <2>a, WhoIsWho DEF OthersWait
    <3>2. \E u \in Turns : pc'[u] \in Working \cup {"report"}
      BY <2>1
    <3> QED
      BY <2>1, <3>1, <3>2 DEF Reservations, EndReported
  <2> QED
    BY <2>3, <2>4, <2>5, <2>6, <2>7 DEF Reservations
<1>3. CASE ReportsEnd(t)
  <2>1. /\ pc[t] = "report" /\ pc'[t] = "clear" /\ OthersWait(t) /\ loc'[t] = loc[t]
        /\ UNCHANGED <<active, spent, cancelled>> /\ status' # "Running"
    BY <1>3 DEF ReportsEnd
  <2>a. "report" \in Finishing /\ "clear" \in Finishing
    BY DEF Finishing
  <2>2. \A q \in Procs : Busy(q)' <=> Busy(q)
    BY <2>1, <2>a DEF Busy, OthersWait
  <2>3. Cast'
    BY <1>0, <2>1, CastStays DEF Reservations
  <2>4. OneHolder'
    BY <2>2 DEF Reservations, OneHolder
  <2>5. HolderKnowsSlot'
    BY <1>0, <2>1, <2>a, HoldingLabels, WhoIsWho DEF Reservations, HolderKnowsSlot, OthersWait
  <2>6. SlotKnowsHolder'
    <3>1. active.task = None
      BY <1>0, <2>1, <2>a DEF Reservations, HolderKnowsSlot
    <3> QED
      BY <2>1, <2>2, <3>1 DEF Reservations, SlotKnowsHolder
  <2>7. EndReported'
    <3>1. PICK e : terminal' = [terminal EXCEPT ![t] = Append(terminal[t], e)]
      BY <1>3 DEF ReportsEnd
    <3>2. terminal[t] = <<>>
      BY <2>1 DEF Reservations, EndReported
    <3>3. Len(terminal'[t]) = 1 /\ \A u \in Turns \ {t} : terminal'[u] = terminal[u]
      <4>1. terminal'[t] = Append(<<>>, e) /\ \A u \in Turns \ {t} : terminal'[u] = terminal[u]
        BY <3>1, <3>2 DEF TypeOK
      <4>2. Append(<<>>, e) = <<e>> /\ Len(<<e>>) = 1
        OBVIOUS
      <4> QED
        BY <4>1, <4>2
    <3>4. \A u \in Turns \ {t} : pc'[u] = pc[u]
      BY <2>1, WhoIsWho DEF OthersWait
    <3>5. pc'[t] \notin Working \cup {"unborn", "report"}
      BY <2>1, HoldingLabels
    <3> QED
      BY <2>1, <3>3, <3>4, <3>5 DEF Reservations, EndReported
  <2> QED
    BY <2>3, <2>4, <2>5, <2>6, <2>7 DEF Reservations
<1>4. CASE ClearsSlot(t)
  BY <1>0, <1>4, SlotFreedReservations DEF ClearsSlot
<1> QED
  BY <1>1, <1>2, <1>3, <1>4 DEF TurnKind

\* In a session whose starts reserve the slot, one process holds it.
LEMMA ReservationsHold == ASSUME ReservedStarts PROVE Spec => []Reservations
<1>1. TypeOK /\ TypeOK' /\ Custody /\ Custody' /\ Reservations /\ [Next]_vars => Reservations'
  BY ReservedStepKinds, StartKindReservations, EnvKindReservations, TurnKindReservations
<1> QED
  BY <1>1, InitReservations, KeptAlways, PTL DEF Spec

(***************************************************************************)
(* The theorems that follow: the slot and the reports.                     *)
(***************************************************************************)

\* The slot guards the tasks also when several processes start turns, as long as each
\* reserves the slot first: a running task is the one in the slot, a start finds the slot
\* it reserved still without a task, and no two tasks run at a time.
THEOREM ReservedSlotIsSafe == ASSUME ReservedStarts PROVE Spec => []SlotGuardsTask
<1>1. Reservations => SlotGuardsTask
  <2> SUFFICES ASSUME Reservations PROVE SlotGuardsTask
    OBVIOUS
  <2>1. RunningTaskOwnsSlot
    BY DEF Reservations, HolderKnowsSlot, RunningTaskOwnsSlot
  <2>2. TaskSlotFree
    BY DEF Reservations, HolderKnowsSlot, TaskSlotFree, StartLabels
  <2>3. OneTaskRunning
    BY DEF Reservations, HolderKnowsSlot, OneTaskRunning
  <2> QED
    BY <2>1, <2>2, <2>3 DEF SlotGuardsTask
<1> QED
  BY <1>1, ReservationsHold, PTL

\* Where every start reserves the slot, a turn has at most one terminal event, sent by
\* its task when it is past its work, and nothing of the task follows.
THEOREM ReservedEndsOnce == ASSUME ReservedStarts PROVE Spec => []TurnEndsOnce
<1>1. Reservations => TerminalOnce
  <2> SUFFICES ASSUME Reservations, NEW t \in Turns PROVE Len(terminal[t]) <= 1
    BY DEF TerminalOnce
  <2>1. terminal[t] = <<>> \/ Len(terminal[t]) = 1
    BY DEF Reservations, EndReported
  <2>2. CASE terminal[t] = <<>>
    <3>1. Len(terminal[t]) = 0
      BY <2>2
    <3> QED
      BY <3>1
  <2>3. CASE Len(terminal[t]) = 1
    BY <2>3
  <2> QED
    BY <2>1, <2>2, <2>3
<1>2. Reservations => TerminalIsLast
  <2> SUFFICES ASSUME Reservations, NEW t \in Turns, terminal[t] # <<>>
               PROVE  pc[t] \notin Working \cup {"report"}
    BY DEF TerminalIsLast
  <2> QED
    BY DEF Reservations, EndReported
<1>3. Reservations => TurnEndsOnce
  BY <1>1, <1>2 DEF TurnEndsOnce
<1> QED
  BY <1>3, ReservationsHold, PTL

\* Where every start reserves the slot: when nobody has a step to take, the slot is idle,
\* the status is not Running and every turn that ended has its terminal event.
THEOREM ReservedSettles == ASSUME ReservedStarts PROVE Spec => []SettledWhenQuiet
<1>1. Reservations => SettledWhenQuiet
  <2> SUFFICES ASSUME Reservations, Quiescent
               PROVE  /\ active = Idle /\ status # "Running"
                      /\ \A t \in Turns : pc[t] = "dead" => terminal[t] # <<>>
    BY DEF SettledWhenQuiet
  <2>1. \A p \in Procs : ~Busy(p)
    BY DEF Quiescent, Busy, Working, StartLabels, Finishing
  <2>2. active = Idle
    BY <2>1 DEF Reservations, SlotKnowsHolder
  <2>3. status # "Running"
    BY <2>1, WhoIsWho DEF Reservations, EndReported, Busy, Finishing
  <2>4. ASSUME NEW t \in Turns, pc[t] = "dead" PROVE terminal[t] # <<>>
    <3>1. pc[t] \notin Working \cup {"unborn", "report"}
      BY <2>4, HoldingLabels
    <3>2. Len(terminal[t]) = 1 /\ Len(<<>>) = 0
      BY <3>1 DEF Reservations, EndReported
    <3> QED
      BY <3>2
  <2> QED
    BY <2>2, <2>3, <2>4
<1> QED
  BY <1>1, ReservationsHold, PTL

(***************************************************************************)
(* Closed turns.                                                           *)
(***************************************************************************)

\* A turn is open to mail from its reservation until its task runs.
OpenWhenReserved ==
    \A p \in Procs : pc[p] \in StartLabels => tstate[active.ts].phase = "CurrentTurn"
OpenInv == FreshStates /\ OpenWhenReserved /\ ClosedTurnHoldsOnlyMail

\* The turn states after an operation on one of them.
LEMMA StateAfter ==
  ASSUME TypeOK, NEW s \in States, NEW q
  PROVE  /\ Extended(s, q)[s].phase = tstate[s].phase
         /\ ExtendedAndOpen(s, q)[s].phase = "CurrentTurn"
         /\ [tstate EXCEPT ![s].items = <<>>][s].phase = tstate[s].phase
         /\ [tstate EXCEPT ![s].items = <<>>][s].items = <<>>
         /\ \A r \in States \ {s} : [tstate EXCEPT ![s].items = <<>>][r] = tstate[r]
<1>1. tstate \in [States -> TurnState] /\ tstate[s] \in TurnState
  BY DEF TypeOK
<1>2. Extended(s, q)[s] = [tstate[s] EXCEPT !.items = tstate[s].items \o q]
  BY <1>1 DEF Extended
<1>3. ExtendedAndOpen(s, q)[s] = [items |-> tstate[s].items \o q, phase |-> "CurrentTurn"]
  BY <1>1 DEF ExtendedAndOpen
<1>4. [tstate EXCEPT ![s].items = <<>>][s] = [tstate[s] EXCEPT !.items = <<>>]
  BY <1>1
<1>5. \A r \in States \ {s} : [tstate EXCEPT ![s].items = <<>>][r] = tstate[r]
  BY <1>1
<1>6. [tstate[s] EXCEPT !.items = tstate[s].items \o q].phase = tstate[s].phase
  BY <1>1 DEF TurnState
<1>7. /\ [tstate[s] EXCEPT !.items = <<>>].phase = tstate[s].phase
      /\ [tstate[s] EXCEPT !.items = <<>>].items = <<>>
  BY <1>1 DEF TurnState
<1>8. Extended(s, q)[s].phase = tstate[s].phase
  BY <1>2, <1>6
<1>9. ExtendedAndOpen(s, q)[s].phase = "CurrentTurn"
  BY <1>3
<1>10. /\ [tstate EXCEPT ![s].items = <<>>][s].phase = tstate[s].phase
       /\ [tstate EXCEPT ![s].items = <<>>][s].items = <<>>
  BY <1>4, <1>7
<1> QED
  BY <1>5, <1>8, <1>9, <1>10

\* A step that may change the turn state in the slot, and no other.
LEMMA OpenStays ==
  ASSUME TypeOK, Custody', OpenInv, Reservations, active'.ts = active.ts, spent' = spent,
         \A r \in States : r # active.ts => tstate'[r] = tstate[r],
         \A p \in Procs : pc'[p] \in StartLabels => pc[p] \in StartLabels,
         \/ active.ts = None
         \/ tstate'[active.ts].phase = "CurrentTurn"
         \/ /\ tstate'[active.ts].phase = tstate[active.ts].phase
            /\ \/ tstate'[active.ts].items \in {tstate[active.ts].items, <<>>}
               \/ active.task = None
            /\ active'.task = None \/ active'.task = active.task
         \/ OnlyQueueMail(tstate'[active.ts].items) /\ active.task # None
  PROVE  OpenInv'
<1>1. active.ts # None => active.ts \in States /\ active.ts \in spent
  BY DEF TypeOK, Reservations, SlotKnowsHolder
<1>2. FreshStates'
  <2> SUFFICES ASSUME NEW r \in States, r \notin spent PROVE tstate'[r] = FreshTurnState
    BY DEF FreshStates
  <2>1. r # active.ts
    BY <1>1, WhoIsWho
  <2> QED
    BY <2>1 DEF OpenInv, FreshStates
<1>3. OpenWhenReserved'
  <2> SUFFICES ASSUME NEW p \in Procs, pc'[p] \in StartLabels
               PROVE  tstate'[active'.ts].phase = "CurrentTurn"
    BY DEF OpenWhenReserved
  <2>1. pc[p] \in StartLabels /\ active.ts # None /\ active.task = None
    BY DEF Reservations, HolderKnowsSlot
  <2> QED
    BY <2>1 DEF OpenInv, OpenWhenReserved
<1>4. ClosedTurnHoldsOnlyMail'
  <2> SUFFICES ASSUME active'.task # None, tstate'[active'.ts].phase = "NextTurn", active.ts # None
               PROVE  OnlyQueueMail(tstate'[active.ts].items)
    <3>1. active'.task # None => active'.ts # None
      BY DEF Custody, IdsOK
    <3> QED
      BY <3>1 DEF ClosedTurnHoldsOnlyMail
  <2>1. OnlyQueueMail(<<>>)
    BY DEF OnlyQueueMail
  <2> QED
    BY <2>1 DEF OpenInv, ClosedTurnHoldsOnlyMail
<1> QED
  BY <1>2, <1>3, <1>4 DEF OpenInv

\* The steps of a start.
LEMMA StartKindOpen ==
  ASSUME TypeOK, Custody', OpenInv, Reservations, NEW p \in Procs, StartKind(p)
  PROVE  OpenInv'
<1>1. CASE StartMoves(p)
  <2>1. /\ pc[p] \in StartLabels /\ OthersWait(p) /\ UNCHANGED <<active, spent>>
    BY <1>1 DEF StartMoves
  <2>2. active.ts \in States /\ active.ts # None /\ active.task = None
    BY <2>1, WhoIsWho DEF Reservations, HolderKnowsSlot, TypeOK
  <2>3. /\ \A r \in States : r # active.ts => tstate'[r] = tstate[r]
        /\ tstate'[active.ts].phase = tstate[active.ts].phase
    <3>1. CASE tstate' = tstate
      BY <3>1
    <3>2. CASE tstate' = Extended(active.ts, loc[p].mail)
      <4> DEFINE s == active.ts
                 m == loc[p].mail
      <4>1. s \in States
        BY <2>2
      <4> HIDE DEF s, m
      <4>2. Extended(s, m)[s].phase = tstate[s].phase
        BY <4>1, StateAfter
      <4>3. \A r \in States \ {s} : Extended(s, m)[r] = tstate[r]
        BY <4>1, ExtendedIs
      <4> QED
        BY <3>2, <4>2, <4>3 DEF s, m
    <3>3. CASE tstate' = [tstate EXCEPT ![active.ts].items = <<>>]
      BY <2>2, <3>3, StateAfter
    <3> QED
      BY <1>1, <3>1, <3>2, <3>3 DEF StartMoves, Takes
  <2>4. \A q \in Procs : pc'[q] \in StartLabels => pc[q] \in StartLabels
    BY <2>1 DEF OthersWait
  <2> QED
    BY <2>1, <2>2, <2>3, <2>4, OpenStays
<1>2. CASE SlotReserved(p)
  <2>1. PICK s \in States \ spent : active' = Reserved(s) /\ s \in spent'
    BY <1>2 DEF SlotReserved
  <2>2. active'.ts = s /\ active'.task = None /\ tstate' = tstate /\ spent \subseteq spent'
    BY <1>2, <2>1 DEF Reserved, SlotReserved
  <2>3. tstate[s].phase = "CurrentTurn"
    BY DEF OpenInv, FreshStates, FreshTurnState
  <2> QED
    BY <2>2, <2>3 DEF OpenInv, FreshStates, OpenWhenReserved, ClosedTurnHoldsOnlyMail
<1>3. CASE SlotGivenBack(p)
  <2>1. /\ pc[p] = "ifidle" /\ pc'[p] \in {"maybe", "idle"} /\ OthersWait(p) /\ active' = Idle
        /\ UNCHANGED <<tstate, spent>> /\ "ifidle" \in StartLabels
    BY <1>3 DEF SlotGivenBack, StartLabels
  <2>2. \A q \in Procs : pc'[q] \notin StartLabels
    BY <2>1, HoldingLabels DEF Reservations, OneHolder, Busy, OthersWait
  <2> QED
    BY <2>1, <2>2 DEF OpenInv, FreshStates, OpenWhenReserved, ClosedTurnHoldsOnlyMail, Idle
<1>4. CASE LooksForWork(p)
  <2>1. /\ pc[p] \in {"maybe", "reserve"} /\ pc'[p] \in {"reserve", loc[p].then}
        /\ OthersWait(p) /\ UNCHANGED <<active, tstate, spent>>
    BY <1>4 DEF LooksForWork
  <2>2. pc'[p] \notin StartLabels
    BY <2>1, HoldingLabels DEF TypeOK, Locals, StartLabels
  <2>3. \A q \in Procs : pc'[q] \in StartLabels => pc[q] \in StartLabels
    BY <2>1, <2>2 DEF OthersWait
  <2> QED
    BY <2>1, <2>3, OpenStays
<1>5. ASSUME NEW t \in Turns, TaskInstalled(p, t) PROVE OpenInv'
  <2>1. /\ pc[p] = "install" /\ pc'[t] = "begin" /\ pc'[p] = loc[p].then
        /\ active'.ts = active.ts /\ UNCHANGED <<tstate, spent>>
        /\ \A q \in Procs \ {p, t} : pc'[q] = pc[q]
    BY <1>5 DEF TaskInstalled
  <2>2. pc'[p] \notin StartLabels /\ "install" \in StartLabels /\ "begin" \notin StartLabels
    BY <2>1 DEF TypeOK, Locals, StartLabels
  <2>3. tstate[active.ts].phase = "CurrentTurn"
    BY <2>1, <2>2 DEF OpenInv, OpenWhenReserved
  <2>4. \A q \in Procs : pc'[q] \in StartLabels => pc[q] \in StartLabels
    BY <2>1, <2>2
  <2> QED
    BY <2>1, <2>3, <2>4, OpenStays
<1> QED
  BY <1>1, <1>2, <1>3, <1>4, <1>5 DEF StartKind

\* What the environment does.
LEMMA EnvKindOpen ==
  ASSUME TypeOK, Custody', OpenInv, Reservations, EnvKind
  PROVE  OpenInv'
<1>1. ASSUME NEW m \in Mails, MailPosted(m) PROVE OpenInv'
  <2>1. \A q \in Procs : pc'[q] \in StartLabels => pc[q] \in StartLabels
    BY <1>1, HoldingLabels, WhoIsWho DEF MailPosted, OthersWait
  <2> QED
    BY <1>1, <2>1, OpenStays DEF MailPosted
<1>2. ASSUME NEW x, ItemArrived(x) PROVE OpenInv'
  <2>1. CASE active.ts # None /\ tstate' = ExtendedAndOpen(active.ts, <<x>>)
    <3>1. active.ts \in States
      BY <2>1 DEF TypeOK
    <3>2. /\ \A r \in States : r # active.ts => tstate'[r] = tstate[r]
          /\ tstate'[active.ts].phase = "CurrentTurn"
      <4> DEFINE s == active.ts
                 q == <<x>>
      <4>1. s \in States
        BY <3>1
      <4> HIDE DEF s, q
      <4>2. ExtendedAndOpen(s, q)[s].phase = "CurrentTurn"
        BY <4>1, StateAfter
      <4>3. \A r \in States \ {s} : ExtendedAndOpen(s, q)[r] = tstate[r]
        BY <4>1, ExtendedIs
      <4> QED
        BY <2>1, <4>2, <4>3 DEF s, q
    <3> QED
      BY <1>2, <3>2, OpenStays DEF ItemArrived
  <2>2. CASE tstate' = tstate
    BY <1>2, <2>2, OpenStays DEF ItemArrived
  <2> QED
    BY <1>2, <2>1, <2>2 DEF ItemArrived
<1>3. CASE NothingHappens
  BY <1>3, OpenStays DEF NothingHappens
<1> QED
  BY <1>1, <1>2, <1>3 DEF EnvKind

\* The steps of a task: only its own answer closes the turn, and only on queue-only mail.
LEMMA TurnKindOpen ==
  ASSUME TypeOK, Custody', OpenInv, Reservations, NEW t \in Turns, TurnKind(t)
  PROVE  OpenInv'
<1>0. t \in Procs /\ t # None
  BY WhoIsWho
<1>1. CASE WorksOn(t)
  <2>1. /\ pc[t] \in Working /\ pc'[t] \in Working /\ OthersWait(t)
        /\ UNCHANGED <<active, spent>>
    BY <1>1 DEF WorksOn
  <2>2. active.task = t /\ active.ts # None /\ active.ts \in States
    BY <1>0, <2>1 DEF Reservations, HolderKnowsSlot, SlotKnowsHolder, TypeOK
  <2>3. \A q \in Procs : pc'[q] \in StartLabels => pc[q] \in StartLabels
    BY <2>1, HoldingLabels DEF OthersWait
  <2>4. CASE tstate' = tstate
    BY <2>1, <2>3, <2>4, OpenStays
  <2>5. CASE tstate' = [tstate EXCEPT ![active.ts].items = <<>>]
    BY <2>1, <2>2, <2>3, <2>5, StateAfter, OpenStays
  <2>6. ASSUME NEW f, tstate' = [tstate EXCEPT ![active.ts].phase = f]
        PROVE  /\ \A r \in States : r # active.ts => tstate'[r] = tstate[r]
               /\ tstate'[active.ts].phase = f
               /\ tstate'[active.ts].items = tstate[active.ts].items
    <3>1. tstate'[active.ts] = [tstate[active.ts] EXCEPT !.phase = f]
      BY <2>2, <2>6 DEF TypeOK
    <3>2. tstate[active.ts] \in TurnState
      BY <2>2 DEF TypeOK
    <3>3. tstate'[active.ts].phase = f /\ tstate'[active.ts].items = tstate[active.ts].items
      BY <3>1, <3>2 DEF TurnState
    <3> QED
      BY <2>2, <2>6, <3>3 DEF TypeOK
  <2>7. CASE tstate' = Opened(t) /\ tstate' # tstate
    <3>1. tstate' = [tstate EXCEPT ![active.ts].phase = "CurrentTurn"]
      BY <2>7 DEF Opened
    <3> QED
      BY <2>1, <2>3, <2>6, <3>1, OpenStays
  <2>8. CASE tstate' = Deferred(t) /\ tstate' # tstate
    <3>1. /\ tstate' = [tstate EXCEPT ![active.ts].phase = "NextTurn"]
          /\ OnlyQueueMail(tstate[active.ts].items)
      BY <2>8 DEF Deferred
    <3> QED
      BY <1>0, <2>1, <2>2, <2>3, <2>6, <3>1, OpenStays
  <2> QED
    BY <1>1, <2>4, <2>5, <2>7, <2>8 DEF WorksOn, Takes
<1>2. CASE LeavesSlot(t)
  <2>1. /\ pc'[t] = "report" /\ OthersWait(t) /\ UNCHANGED <<tstate, spent>>
        /\ active'.ts = active.ts /\ active'.task = None
    BY <1>2 DEF LeavesSlot, TypeOK
  <2>2. \A q \in Procs : pc'[q] \in StartLabels => pc[q] \in StartLabels
    BY <2>1, HoldingLabels DEF OthersWait
  <2> QED
    BY <2>1, <2>2, OpenStays
<1>3. CASE ReportsEnd(t)
  <2>1. /\ pc[t] = "report" /\ pc'[t] = "clear" /\ OthersWait(t)
        /\ UNCHANGED <<active, spent>>
        /\ tstate' = [tstate EXCEPT ![active.ts].items = <<>>]
    BY <1>3 DEF ReportsEnd
  <2>2. active.ts \in States
    BY <1>0, <2>1 DEF Reservations, HolderKnowsSlot, Finishing, TypeOK
  <2>3. \A q \in Procs : pc'[q] \in StartLabels => pc[q] \in StartLabels
    BY <2>1, HoldingLabels DEF OthersWait
  <2> QED
    BY <2>1, <2>2, <2>3, StateAfter, OpenStays
<1>4. CASE ClearsSlot(t)
  <2>1. /\ pc[t] = "clear" /\ pc'[t] = "maybe" /\ OthersWait(t) /\ active' = Idle
        /\ UNCHANGED <<tstate, spent>> /\ "clear" \in Finishing
    BY <1>4 DEF ClearsSlot, Finishing
  <2>2. \A q \in Procs : pc'[q] \notin StartLabels
    BY <1>0, <2>1, HoldingLabels DEF Reservations, OneHolder, Busy, OthersWait
  <2> QED
    BY <2>1, <2>2 DEF OpenInv, FreshStates, OpenWhenReserved, ClosedTurnHoldsOnlyMail, Idle
<1> QED
  BY <1>1, <1>2, <1>3, <1>4 DEF TurnKind

\* Where every start reserves the slot: once a running turn is closed to mailbox delivery,
\* nothing but queue-only mail waits in it, also when trigger mail and durable sleeps
\* start turns.
THEOREM ReservedClosedTurn == ASSUME ReservedStarts PROVE Spec => []ClosedTurnHoldsOnlyMail
<1>1. Init => OpenInv
  <2> SUFFICES ASSUME Init PROVE OpenInv
    OBVIOUS
  <2>1. active.task = None /\ \A s \in States : tstate[s] = FreshTurnState
    BY DEF Init, Idle
  <2>2. \A p \in Procs : pc[p] \notin StartLabels
    BY DEF Init, StartLabels
  <2> QED
    BY <2>1, <2>2 DEF OpenInv, FreshStates, OpenWhenReserved, ClosedTurnHoldsOnlyMail
<1>2. TypeOK /\ Custody /\ Custody' /\ Reservations /\ OpenInv /\ [Next]_vars => OpenInv'
  BY ReservedStepKinds, StartKindOpen, EnvKindOpen, TurnKindOpen
<1>3. OpenInv => ClosedTurnHoldsOnlyMail
  BY DEF OpenInv
<1> QED
  BY <1>1, <1>2, <1>3, ReservationsHold, KeptAlways, PTL DEF Spec

(***************************************************************************)
(* The order of mail.                                                      *)
(***************************************************************************)

\* What p has taken out of the pending input to record, and what it is about to put there.
InFront(p) == IF pc[p] = "record" THEN loc[p].mail ELSE <<>>
Behind(p) == IF pc[p] \in {"hand", "adopt", "extend"} THEN loc[p].mail ELSE <<>>
LineOf(p) == Line(posted, history, InFront(p), ActiveItems, Behind(p), mailbox)

\* What a slot may be given up with: injected notices that nobody will see.
LeftOver(q) == Contents(q) \subseteq Notices /\ ("Inject" \notin Ops => q = <<>>)

\* Mail is nowhere but in the line.
NoStrayMail ==
    /\ \A s \in States : s # active.ts => LeftOver(tstate[s].items)
    /\ \A p \in Procs :
          /\ Contents(loc[p].input) \cap Mails = {}
          /\ pc[p] = "ifidle" => Contents(loc[p].mail) \cap Mails = {}
          /\ pc[p] \in {"ifidle", "clear"} => LeftOver(ActiveItems)

MailLine == NoStrayMail /\ \A p \in Procs : LineOf(p)

\* The types of what is in the line.
LEMMA LineTypes ==
  ASSUME TypeOK
  PROVE  /\ posted \in Seq(Mails) /\ mailbox \in Seq(Mails) /\ mailbox \in Seq(Items)
         /\ history \in Seq(Items) /\ ActiveItems \in Seq(Items)
         /\ \A p \in Procs : /\ InFront(p) \in Seq(Items) /\ Behind(p) \in Seq(Items)
                             /\ loc[p].input \in Seq(Items) /\ loc[p].mail \in Seq(Items)
<1>1. posted \in Seq(Mails) /\ mailbox \in Seq(Mails) /\ mailbox \in Seq(Items)
  BY MailIsItems DEF TypeOK
<1>2. ActiveItems \in Seq(Items)
  BY EmptyItems DEF TypeOK, TurnState, ActiveItems
<1>3. \A p \in Procs : loc[p].input \in Seq(Items) /\ loc[p].mail \in Seq(Items)
  BY DEF TypeOK, Locals
<1>4. \A p \in Procs : InFront(p) \in Seq(Items) /\ Behind(p) \in Seq(Items)
  BY <1>3, EmptyItems DEF InFront, Behind
<1> QED
  BY <1>1, <1>2, <1>3, <1>4 DEF TypeOK

\* The same after a step.
LEMMA LineTypesThen ==
  ASSUME TypeOK'
  PROVE  /\ posted' \in Seq(Mails) /\ mailbox' \in Seq(Mails) /\ mailbox' \in Seq(Items)
         /\ history' \in Seq(Items) /\ ActiveItems' \in Seq(Items)
         /\ \A p \in Procs : /\ InFront(p)' \in Seq(Items) /\ Behind(p)' \in Seq(Items)
                             /\ loc'[p].input \in Seq(Items) /\ loc'[p].mail \in Seq(Items)
<1>1. posted' \in Seq(Mails) /\ mailbox' \in Seq(Mails) /\ mailbox' \in Seq(Items)
  BY MailIsItems DEF TypeOK
<1>2. ActiveItems' \in Seq(Items)
  BY EmptyItems DEF TypeOK, TurnState, ActiveItems
<1>3. \A p \in Procs : loc'[p].input \in Seq(Items) /\ loc'[p].mail \in Seq(Items)
  BY DEF TypeOK, Locals
<1>4. \A p \in Procs : InFront(p)' \in Seq(Items) /\ Behind(p)' \in Seq(Items)
  BY <1>3, EmptyItems DEF InFront, Behind
<1> QED
  BY <1>1, <1>2, <1>3, <1>4 DEF TypeOK

\* Left-over input has no mail; nothing is left-over input.
LEMMA LeftOverHasNoMail ==
  /\ \A q : LeftOver(q) => Contents(q) \cap Mails = {}
  /\ LeftOver(<<>>)
<1>1. Contents(<<>>) = {}
  BY ContentsOf
<1> QED
  BY <1>1, ConstantsAssumption DEF LeftOver

\* Only the holder of the slot has mail in hand.
LEMMA OnlyHolderHasMail ==
  ASSUME NEW p \in Procs
  PROVE  /\ ~Busy(p) => /\ InFront(p) = <<>> /\ Behind(p) = <<>>
                        /\ pc[p] \notin {"ifidle", "clear"}
         /\ ~Busy(p)' => /\ InFront(p)' = <<>> /\ Behind(p)' = <<>>
                         /\ pc'[p] \notin {"ifidle", "clear"}
  BY DEF Busy, InFront, Behind, StartLabels, Working, Finishing

\* A step of the holder that keeps its own line keeps everybody's.
LEMMA HolderKeepsLine ==
  ASSUME TypeOK, TypeOK', Reservations, MailLine, NEW p \in Procs, Busy(p), OthersWait(p),
         active'.ts = active.ts,
         \A s \in States : s # active.ts => tstate'[s].items = tstate[s].items,
         loc'[p].input \in {loc[p].input, <<>>},
         pc'[p] # "ifidle", pc'[p] = "clear" => LeftOver(ActiveItems'),
         LineOf(p)'
  PROVE  MailLine'
<1>1. \A q \in Procs \ {p} : ~Busy(q) /\ ~Busy(q)'
  BY DEF Reservations, OneHolder, Busy, OthersWait
<1>2. NoStrayMail'
  <2>1. \A s \in States : s # active'.ts => LeftOver(tstate'[s].items)
    BY DEF MailLine, NoStrayMail
  <2>2. \A q \in Procs : Contents(loc'[q].input) \cap Mails = {}
    BY ContentsOf DEF MailLine, NoStrayMail, OthersWait
  <2>3. \A q \in Procs \ {p} : pc'[q] \notin {"ifidle", "clear"}
    BY <1>1, OnlyHolderHasMail
  <2> QED
    BY <2>1, <2>2, <2>3 DEF NoStrayMail, LeftOver
<1>3. \A q \in Procs : LineOf(q)'
  <2> SUFFICES ASSUME NEW q \in Procs \ {p} PROVE LineOf(q)'
    OBVIOUS
  <2>1. InFront(q)' = <<>> /\ Behind(q)' = <<>>
    BY <1>1, OnlyHolderHasMail
  <2>2. /\ history' \in Seq(Items) /\ ActiveItems' \in Seq(Items) /\ mailbox' \in Seq(Items)
        /\ InFront(p)' \in Seq(Items) /\ Behind(p)' \in Seq(Items)
    BY LineTypesThen
  <2>3. Line(posted', history', <<>>, ActiveItems', <<>>, mailbox')
    BY <2>2, LineEmptied DEF LineOf
  <2> QED
    BY <2>1, <2>3 DEF LineOf
<1> QED
  BY <1>2, <1>3 DEF MailLine

\* A start moves mail on from the mailbox towards the pending input.
LEMMA StartMovesLine ==
  ASSUME TypeOK, TypeOK', Reservations, MailLine, NEW p \in Procs, StartMoves(p)
  PROVE  MailLine'
<1> DEFINE s == active.ts
           i == tstate[s].items
<1>0. /\ pc[p] \in StartLabels /\ pc'[p] \in StartLabels /\ OthersWait(p)
      /\ loc'[p].input = loc[p].input
      /\ UNCHANGED <<active, history, posted>>
  BY DEF StartMoves
<1>1. s \in States /\ s # None /\ Busy(p)
  BY <1>0, WhoIsWho DEF Reservations, HolderKnowsSlot, Busy, TypeOK
<1>2. ActiveItems = i /\ ActiveItems' = tstate'[s].items
  BY <1>0, <1>1 DEF ActiveItems
<1>3. /\ history \in Seq(Items) /\ i \in Seq(Items) /\ mailbox \in Seq(Items)
      /\ loc[p].mail \in Seq(Items)
      /\ LineOf(p) /\ InFront(p) = <<>> /\ InFront(p)' = <<>>
  BY <1>0, <1>2, LineTypes, HoldingLabels DEF MailLine, InFront, StartLabels
<1>k. ASSUME \A r \in States : r # s => tstate'[r].items = tstate[r].items,
             pc'[p] # "ifidle", LineOf(p)'
      PROVE  MailLine'
  <2>1. pc'[p] # "clear"
    BY <1>0 DEF StartLabels
  <2> QED
    BY <1>0, <1>1, <1>k, <2>1, HolderKeepsLine
<1> HIDE DEF s, i
<1>4. CASE /\ pc[p] = "adopt" /\ pc'[p] = "extend" /\ loc'[p].mail = loc[p].mail
           /\ UNCHANGED <<tstate, mailbox>>
  <2>1. LineOf(p)'
    BY <1>0, <1>2, <1>3, <1>4 DEF LineOf, Behind, i
  <2> QED
    BY <1>4, <1>k, <2>1
<1>5. CASE /\ pc[p] = "drain" /\ pc'[p] = "adopt" /\ loc'[p].mail = mailbox
           /\ mailbox' = <<>> /\ tstate' = tstate
  <2>1. Line(posted, history, <<>>, i, <<>>, mailbox)
    BY <1>2, <1>3, <1>5 DEF LineOf, Behind
  <2>2. Line(posted, history, <<>>, i, mailbox, <<>>)
    BY <1>3, <2>1, EmptyItems, LineDrains
  <2>3. LineOf(p)'
    BY <1>0, <1>2, <1>3, <1>5, <2>2 DEF LineOf, Behind, i
  <2> QED
    BY <1>5, <1>k, <2>3
<1>6. CASE /\ pc[p] \in {"hand", "extend", "ifidle"} /\ pc'[p] \in {"drain", "install"}
           /\ loc'[p].mail = <<>> /\ mailbox' = mailbox
           /\ tstate' = Extended(active.ts, loc[p].mail)
  <2> DEFINE m == loc[p].mail
  <2>0. tstate' = Extended(s, m)
    BY <1>6 DEF s
  <2> HIDE DEF m
  <2>1. tstate'[s].items = i \o m
    BY <1>1, <2>0, ExtendedIs DEF i
  <2>2. \A r \in States : r # s => tstate'[r].items = tstate[r].items
    <3>1. \A r \in States \ {s} : Extended(s, m)[r] = tstate[r]
      BY <1>1, ExtendedIs
    <3> QED
      BY <2>0, <3>1
  <2>3. Line(posted, history, <<>>, i \o m, <<>>, mailbox)
    <3>1. CASE pc[p] = "ifidle"
      <4>1. Line(posted, history, <<>>, i, <<>>, mailbox)
        BY <1>2, <1>3, <3>1 DEF LineOf, Behind
      <4>2. Contents(m) \cap Mails = {} /\ m \in Seq(Items)
        BY <1>3, <3>1 DEF MailLine, NoStrayMail, m
      <4> QED
        BY <1>3, <4>1, <4>2, EmptyItems, LineArrives
    <3>2. CASE pc[p] # "ifidle"
      <4>1. Line(posted, history, <<>>, i, m, mailbox)
        BY <1>2, <1>3, <1>6, <3>2 DEF LineOf, Behind, m
      <4>2. m \in Seq(Items)
        BY <1>3 DEF m
      <4> QED
        BY <1>3, <4>1, <4>2, EmptyItems, LineHands
    <3> QED
      BY <3>1, <3>2
  <2>4. LineOf(p)'
    BY <1>0, <1>2, <1>3, <1>6, <2>1, <2>3 DEF LineOf, Behind
  <2> QED
    BY <1>6, <1>k, <2>2, <2>4
<1>7. CASE pc[p] = "gather" /\ pc'[p] = "hand" /\ Takes(p)
  <2>1. Line(posted, history, <<>>, i, <<>>, mailbox)
    BY <1>2, <1>3, <1>7 DEF LineOf, Behind
  <2>2. CASE Accepts
    <3>1. /\ loc'[p].mail = i \o mailbox /\ mailbox' = <<>>
          /\ tstate' = [tstate EXCEPT ![s].items = <<>>]
      BY <1>2, <1>7, <2>2 DEF Takes, s
    <3>2. tstate'[s].items = <<>> /\ \A r \in States \ {s} : tstate'[r] = tstate[r]
      BY <1>1, <3>1, StateAfter
    <3>3. Line(posted, history, <<>>, <<>>, i \o mailbox, <<>>)
      BY <1>3, <2>1, LineTakes
    <3>4. LineOf(p)'
      BY <1>0, <1>2, <1>3, <1>7, <3>1, <3>2, <3>3 DEF LineOf, Behind
    <3> QED
      BY <1>7, <1>k, <3>2, <3>4
  <2>3. CASE ~Accepts
    <3>1. loc'[p].mail = <<>> /\ UNCHANGED <<tstate, mailbox>>
      BY <1>7, <2>3 DEF Takes
    <3>2. LineOf(p)'
      BY <1>0, <1>2, <1>3, <1>7, <2>1, <3>1 DEF LineOf, Behind, i
    <3> QED
      BY <1>7, <1>k, <3>1, <3>2
  <2> QED
    BY <2>2, <2>3
<1> QED
  BY <1>4, <1>5, <1>6, <1>7 DEF StartMoves

\* The slot is reserved, or given back, with nothing but left-over input in it.
LEMMA SlotChangesLine ==
  ASSUME TypeOK, TypeOK', Reservations, Reservations', MailLine, NEW p \in Procs, OthersWait(p),
         UNCHANGED <<tstate, mailbox, history, posted>>,
         LeftOver(ActiveItems), LeftOver(ActiveItems'),
         \A s \in States : LeftOver(tstate[s].items),
         Contents(loc'[p].input) \cap Mails = {},
         pc'[p] = "ifidle" => Contents(loc'[p].mail) \cap Mails = {},
         InFront(p) = <<>>, Behind(p) = <<>>, InFront(p)' = <<>>, Behind(p)' = <<>>
  PROVE  MailLine'
<1>1. NoStrayMail'
  BY DEF MailLine, NoStrayMail, OthersWait, LeftOver
<1>2. \A q \in Procs : LineOf(q)'
  <2> SUFFICES ASSUME NEW q \in Procs PROVE LineOf(q)'
    OBVIOUS
  <2>1. InFront(q)' = InFront(q) /\ Behind(q)' = Behind(q)
    BY DEF InFront, Behind, OthersWait
  <2>2. Line(posted, history, InFront(q), ActiveItems', Behind(q), mailbox)
    <3>1. Contents(ActiveItems) \cap Mails = {} /\ Contents(ActiveItems') \cap Mails = {}
      BY LeftOverHasNoMail
    <3>2. Line(posted, history, InFront(q), ActiveItems, Behind(q), mailbox)
      BY DEF MailLine, LineOf
    <3> QED
      BY <3>1, <3>2, LineSwaps
  <2> QED
    BY <2>1, <2>2 DEF LineOf
<1> QED
  BY <1>1, <1>2 DEF MailLine

\* The steps of a start keep the line.
LEMMA StartKindLine ==
  ASSUME TypeOK, TypeOK', Custody, Reservations, Reservations', MailLine,
         NEW p \in Procs, StartKind(p)
  PROVE  MailLine'
<1>e. LeftOver(<<>>) /\ Contents(<<>>) = {}
  BY LeftOverHasNoMail, ContentsOf
<1>1. CASE SlotReserved(p)
  <2>1. PICK s \in States \ spent : active' = Reserved(s)
    BY <1>1 DEF SlotReserved
  <2>2. /\ pc[p] \in {"idle", "reserve"} /\ active.ts = None /\ OthersWait(p)
        /\ UNCHANGED <<tstate, mailbox, history, posted>>
        /\ Contents(loc'[p].input) \cap Mails = {} /\ Contents(loc'[p].mail) \cap Mails = {}
        /\ pc'[p] \in {"gather", "ifidle"}
    BY <1>1 DEF SlotReserved
  <2>3. \A r \in States : LeftOver(tstate[r].items)
    BY <2>2, WhoIsWho DEF MailLine, NoStrayMail
  <2>4. ActiveItems = <<>> /\ ActiveItems' = tstate[s].items
    BY <2>1, <2>2, WhoIsWho DEF ActiveItems, Reserved
  <2>5. InFront(p) = <<>> /\ Behind(p) = <<>> /\ InFront(p)' = <<>> /\ Behind(p)' = <<>>
    BY <2>2 DEF InFront, Behind
  <2> QED
    BY <1>e, <2>2, <2>3, <2>4, <2>5, SlotChangesLine
<1>2. CASE SlotGivenBack(p)
  <2>1. /\ pc[p] = "ifidle" /\ pc'[p] \in {"maybe", "idle"} /\ OthersWait(p) /\ active' = Idle
        /\ loc'[p].input = <<>>
        /\ UNCHANGED <<tstate, mailbox, history, posted>>
    BY <1>2 DEF SlotGivenBack, Blank
  <2>2. LeftOver(ActiveItems)
    BY <2>1 DEF MailLine, NoStrayMail
  <2>3. \A r \in States : LeftOver(tstate[r].items)
    BY <2>2, WhoIsWho DEF MailLine, NoStrayMail, ActiveItems
  <2>4. ActiveItems' = <<>>
    BY <2>1 DEF ActiveItems, Idle
  <2>5. InFront(p) = <<>> /\ Behind(p) = <<>> /\ InFront(p)' = <<>> /\ Behind(p)' = <<>>
    BY <2>1 DEF InFront, Behind
  <2> QED
    BY <1>e, <2>1, <2>2, <2>3, <2>4, <2>5, SlotChangesLine
<1>3. CASE LooksForWork(p)
  <2>1. /\ pc[p] \in {"maybe", "reserve"} /\ pc'[p] \in {"reserve", loc[p].then}
        /\ OthersWait(p) /\ loc'[p] \in {loc[p], Blank(loc[p].then)}
        /\ UNCHANGED <<active, tstate, mailbox, history, posted>>
    BY <1>3 DEF LooksForWork
  <2>2. loc[p].then \in {"idle", "dead", "exiting", "leaving"}
    BY DEF TypeOK, Locals
  <2>3. \A q \in Procs : InFront(q)' = InFront(q) /\ Behind(q)' = Behind(q)
    BY <2>1, <2>2 DEF InFront, Behind, OthersWait
  <2>4. \A q \in Procs : LineOf(q)'
    BY <2>1, <2>3 DEF MailLine, LineOf, ActiveItems
  <2>5. NoStrayMail'
    <3>1. \A q \in Procs : Contents(loc'[q].input) \cap Mails = {}
      BY <1>e, <2>1 DEF MailLine, NoStrayMail, OthersWait, Blank
    <3>2. \A q \in Procs : pc'[q] \in {"ifidle", "clear"} => pc[q] = pc'[q] /\ loc'[q] = loc[q]
      BY <2>1, <2>2 DEF OthersWait
    <3>3. ActiveItems' = ActiveItems
      BY <2>1 DEF ActiveItems
    <3> QED
      BY <2>1, <3>1, <3>2, <3>3 DEF MailLine, NoStrayMail, LeftOver
  <2> QED
    BY <2>4, <2>5 DEF MailLine
<1>4. ASSUME NEW t \in Turns, TaskInstalled(p, t) PROVE MailLine'
  <2>1. /\ pc[p] = "install" /\ pc[t] = "unborn" /\ pc'[p] = loc[p].then /\ pc'[t] = "begin"
        /\ loc'[p] = Blank(loc[p].then) /\ loc'[t].input = loc[p].input
        /\ \A q \in Procs \ {p, t} : pc'[q] = pc[q] /\ loc'[q] = loc[q]
        /\ active'.ts = active.ts /\ UNCHANGED <<tstate, mailbox, history, posted>>
    BY <1>4 DEF TaskInstalled
  <2>2. loc[p].then \in {"idle", "dead", "exiting", "leaving"} /\ t \in Procs /\ loc'[p].input = <<>>
    <3>1. loc[p].then \in {"idle", "dead", "exiting", "leaving"}
      BY DEF TypeOK, Locals
    <3>2. loc'[p].input = <<>>
      BY <2>1 DEF Blank
    <3> QED
      BY <3>1, <3>2, WhoIsWho
  <2>3. \A q \in Procs : InFront(q)' = InFront(q) /\ Behind(q)' = Behind(q)
    BY <2>1, <2>2 DEF InFront, Behind
  <2>a. ActiveItems' = ActiveItems
    BY <2>1 DEF ActiveItems
  <2>4. \A q \in Procs : LineOf(q)'
    BY <2>1, <2>3, <2>a DEF MailLine, LineOf
  <2>5. NoStrayMail'
    <3>1. \A q \in Procs : Contents(loc'[q].input) \cap Mails = {}
      BY <1>e, <2>1, <2>2 DEF MailLine, NoStrayMail
    <3>2. \A q \in Procs : pc'[q] \in {"ifidle", "clear"} => pc[q] = pc'[q] /\ loc'[q] = loc[q]
      BY <2>1, <2>2
    <3> QED
      BY <2>1, <2>a, <3>1, <3>2 DEF MailLine, NoStrayMail, LeftOver
  <2> QED
    BY <2>4, <2>5 DEF MailLine
<1> QED
  BY <1>1, <1>2, <1>3, <1>4, StartMovesLine DEF StartKind

\* Mail is posted at the end of the line, and what arrives in the middle is no mail.
LEMMA EnvKindLine ==
  ASSUME TypeOK, TypeOK', Custody, Reservations, MailLine, EnvKind
  PROVE  MailLine'
<1>1. ASSUME NEW m \in Mails, MailPosted(m) PROVE MailLine'
  <2>1. /\ pc[Loop] = "idle" /\ pc'[Loop] \in {"maybe", "idle"} /\ OthersWait(Loop)
        /\ mailbox' = Append(mailbox, m) /\ posted' = Append(posted, m)
        /\ UNCHANGED <<active, tstate, history, loc>>
    BY <1>1 DEF MailPosted
  <2>2. /\ \A q \in Procs : InFront(q)' = InFront(q) /\ Behind(q)' = Behind(q)
        /\ ActiveItems' = ActiveItems
    BY <2>1 DEF InFront, Behind, OthersWait, ActiveItems
  <2>3. ASSUME NEW q \in Procs PROVE LineOf(q)'
    <3>1. Line(posted, history, InFront(q), ActiveItems, Behind(q), mailbox)
      BY DEF MailLine, LineOf
    <3>2. Line(Append(posted, m), history, InFront(q), ActiveItems, Behind(q), Append(mailbox, m))
      BY <3>1, LineTypes, LinePosts
    <3> QED
      BY <2>1, <2>2, <3>2 DEF LineOf
  <2>4. NoStrayMail'
    <3>1. \A q \in Procs : pc'[q] \in {"ifidle", "clear"} => pc[q] = pc'[q]
      BY <2>1 DEF OthersWait
    <3> QED
      BY <2>1, <2>2, <3>1 DEF MailLine, NoStrayMail, LeftOver
  <2> QED
    BY <2>3, <2>4 DEF MailLine
<1>2. ASSUME NEW x \in UserInputs \cup Notices, ItemArrived(x) PROVE MailLine'
  <2> DEFINE n == <<x>>
  <2>1. UNCHANGED <<active, mailbox, pc, loc, posted>>
    BY <1>2 DEF ItemArrived
  <2>2. n \in Seq(Items) /\ Contents(n) = {x} /\ Contents(n) \cap Mails = {}
    BY ConstantsAssumption DEF Items, Contents
  <2>3. \A q \in Procs : InFront(q)' = InFront(q) /\ Behind(q)' = Behind(q)
    BY <2>1 DEF InFront, Behind
  <2>4. CASE /\ active.ts # None /\ tstate' = ExtendedAndOpen(active.ts, n)
             /\ history' = history
             /\ active.task # None \/ (x \in Notices /\ "Inject" \in Ops)
    <3> DEFINE s == active.ts
    <3>1. s \in States
      BY <2>4 DEF TypeOK
    <3> HIDE DEF n, s
    <3>2. ExtendedAndOpen(s, n)[s].items = tstate[s].items \o n
      BY <3>1, ExtendedIs
    <3>3. \A r \in States \ {s} : ExtendedAndOpen(s, n)[r] = tstate[r]
      BY <3>1, ExtendedIs
    <3>4. ActiveItems = tstate[s].items /\ ActiveItems' = ActiveItems \o n
      BY <2>1, <2>4, <3>2 DEF ActiveItems, s
    <3>5. ASSUME NEW q \in Procs PROVE LineOf(q)'
      <4>1. Line(posted, history, InFront(q), ActiveItems, Behind(q), mailbox)
        BY DEF MailLine, LineOf
      <4>2. Line(posted, history, InFront(q), ActiveItems \o n, Behind(q), mailbox)
        BY <2>2, <4>1, LineTypes, LineArrives
      <4> QED
        BY <2>1, <2>3, <2>4, <3>4, <4>2 DEF LineOf
    <3>6. ASSUME NEW q \in Procs, pc[q] \in {"ifidle", "clear"} PROVE LeftOver(ActiveItems')
      <4>1. active.task = None
        BY <3>6 DEF Reservations, HolderKnowsSlot, StartLabels, Finishing
      <4>2. LeftOver(ActiveItems)
        BY <3>6 DEF MailLine, NoStrayMail
      <4>3. Contents(ActiveItems \o n) = Contents(ActiveItems) \cup {x}
        BY <2>2, LineTypes, ContentsOf
      <4> QED
        BY <2>4, <3>4, <4>1, <4>2, <4>3 DEF LeftOver
    <3>7. NoStrayMail'
      <4>1. \A r \in States : r # active'.ts => LeftOver(tstate'[r].items)
        BY <2>1, <2>4, <3>3 DEF MailLine, NoStrayMail, s
      <4>2. \A q \in Procs : /\ Contents(loc'[q].input) \cap Mails = {}
                             /\ pc'[q] = "ifidle" => Contents(loc'[q].mail) \cap Mails = {}
        BY <2>1 DEF MailLine, NoStrayMail
      <4> QED
        BY <2>1, <3>6, <4>1, <4>2 DEF NoStrayMail, LeftOver
    <3> QED
      BY <3>5, <3>7 DEF MailLine
  <2>5. CASE tstate' = tstate /\ history' = Append(history, x)
    <3>0. history' = history \o n /\ ActiveItems' = ActiveItems
      <4>1. history \in Seq(Items) /\ x \in Items
        BY LineTypes DEF Items
      <4>2. Append(history, x) = history \o <<x>>
        BY <4>1
      <4>3. ActiveItems' = ActiveItems
        BY <2>1, <2>5 DEF ActiveItems
      <4> QED
        BY <2>5, <4>2, <4>3
    <3> HIDE DEF n
    <3>1. ASSUME NEW q \in Procs PROVE LineOf(q)'
      <4>1. Line(posted, history, InFront(q), ActiveItems, Behind(q), mailbox)
        BY DEF MailLine, LineOf
      <4>2. Line(posted, history \o n, InFront(q), ActiveItems, Behind(q), mailbox)
        BY <2>2, <4>1, LineTypes, LineArrives
      <4> QED
        BY <2>1, <2>3, <3>0, <4>2 DEF LineOf
    <3>2. NoStrayMail'
      BY <2>1, <2>5, <3>0 DEF MailLine, NoStrayMail, LeftOver
    <3> QED
      BY <3>1, <3>2 DEF MailLine
  <2> QED
    BY <1>2, <2>4, <2>5 DEF ItemArrived
<1>3. CASE NothingHappens
  <2>1. UNCHANGED <<active, tstate, mailbox, history, pc, loc, posted>>
    BY <1>3 DEF NothingHappens
  <2>2. NoStrayMail'
    BY <2>1 DEF MailLine, NoStrayMail, LeftOver, ActiveItems
  <2>3. \A q \in Procs : LineOf(q)'
    BY <2>1 DEF MailLine, LineOf, InFront, Behind, ActiveItems
  <2> QED
    BY <2>2, <2>3 DEF MailLine
<1> QED
  BY <1>1, <1>2, <1>3 DEF EnvKind

\* A task moves mail on from the pending input and the mailbox into the conversation.
LEMMA TurnKindLine ==
  ASSUME TypeOK, TypeOK', Custody, Reservations, Reservations', MailLine,
         NEW t \in Turns, TurnKind(t)
  PROVE  MailLine'
<1>0. t \in Procs /\ t # None
  BY WhoIsWho
<1>e. LeftOver(<<>>) /\ Contents(<<>>) = {}
  BY LeftOverHasNoMail, ContentsOf
<1> DEFINE s == active.ts
           i == tstate[s].items
<1>s. ASSUME pc[t] \in Working \cup Finishing
      PROVE  /\ s \in States /\ s # None /\ Busy(t) /\ ActiveItems = i
             /\ Behind(t) = <<>>
  <2>1. active.ts # None
    BY <1>0, <1>s DEF Reservations, HolderKnowsSlot, SlotKnowsHolder
  <2>2. Busy(t)
    BY <1>s DEF Busy
  <2>3. Behind(t) = <<>>
    BY <1>s DEF Behind, Working, Finishing
  <2> QED
    BY <2>1, <2>2, <2>3 DEF TypeOK, ActiveItems
<1>t. /\ history \in Seq(Items) /\ mailbox \in Seq(Items) /\ ActiveItems \in Seq(Items)
      /\ loc[t].mail \in Seq(Items) /\ loc[t].input \in Seq(Items) /\ LineOf(t)
  BY <1>0, LineTypes DEF MailLine
<1>1. CASE WorksOn(t)
  <2>1. /\ pc[t] \in Working /\ pc'[t] \in Working /\ OthersWait(t)
        /\ loc'[t].input \in {loc[t].input, <<>>} /\ UNCHANGED <<active, posted>>
    BY <1>1 DEF WorksOn
  <2>2. /\ s \in States /\ s # None /\ Busy(t) /\ ActiveItems = i /\ Behind(t) = <<>>
        /\ Behind(t)' = <<>> /\ ActiveItems' = tstate'[s].items
        /\ pc'[t] \notin {"ifidle", "clear"}
    BY <1>s, <2>1 DEF Behind, Working, ActiveItems
  <2>k. ASSUME \A r \in States : r # s => tstate'[r].items = tstate[r].items, LineOf(t)'
        PROVE  MailLine'
    BY <1>0, <2>1, <2>2, <2>k, HolderKeepsLine
  <2> HIDE DEF s, i
  <2>3. CASE /\ pc[t] # "record" /\ pc'[t] # "record" /\ mailbox' = mailbox
             /\ tstate' \in {tstate, Opened(t), Deferred(t)}
             /\ history' \in {history, history \o Recordable(loc[t].input)}
    <3>1. \A r \in States : tstate'[r].items = tstate[r].items
      BY <2>3, PhaseKeepsItems
    <3>2. ActiveItems' = ActiveItems
      BY <2>2, <3>1 DEF i
    <3>3. InFront(t) = <<>> /\ InFront(t)' = <<>>
      BY <2>3 DEF InFront
    <3>4. Line(posted, history, <<>>, ActiveItems, <<>>, mailbox)
      BY <1>t, <2>2, <3>3 DEF LineOf
    <3>5. Line(posted, history', <<>>, ActiveItems, <<>>, mailbox)
      <4>1. CASE history' = history
        BY <3>4, <4>1
      <4>2. CASE history' = history \o Recordable(loc[t].input)
        <5> DEFINE n == Recordable(loc[t].input)
        <5>1. n \in Seq(Items) /\ Contents(n) \subseteq Contents(loc[t].input)
          BY <1>t, RecordableIs, RecordableInOrder
        <5>2. Contents(n) \cap Mails = {}
          BY <1>0, <5>1 DEF MailLine, NoStrayMail
        <5> HIDE DEF n
        <5>3. Line(posted, history \o n, <<>>, ActiveItems, <<>>, mailbox)
          BY <1>t, <3>4, <5>1, <5>2, EmptyItems, LineArrives
        <5> QED
          BY <4>2, <5>3 DEF n
      <4> QED
        BY <2>3, <4>1, <4>2
    <3>6. LineOf(t)'
      BY <2>1, <2>2, <2>3, <3>2, <3>3, <3>5 DEF LineOf
    <3> QED
      BY <2>k, <3>1, <3>6
  <2>4. CASE pc[t] = "step" /\ pc'[t] = "record" /\ Takes(t) /\ history' = history
    <3>1. InFront(t) = <<>> /\ InFront(t)' = loc'[t].mail
      BY <2>4 DEF InFront
    <3>2. Line(posted, history, <<>>, i, <<>>, mailbox)
      BY <1>t, <2>2, <3>1 DEF LineOf
    <3>3. CASE Accepts
      <4>1. /\ loc'[t].mail = i \o mailbox /\ mailbox' = <<>>
            /\ tstate' = [tstate EXCEPT ![s].items = <<>>]
        BY <2>2, <2>4, <3>3 DEF Takes, s
      <4>2. tstate'[s].items = <<>> /\ \A r \in States \ {s} : tstate'[r] = tstate[r]
        BY <2>2, <4>1, StateAfter
      <4>3. Line(posted, history, i \o mailbox, <<>>, <<>>, <<>>)
        BY <1>t, <2>2, <3>2, LineTakes
      <4>4. LineOf(t)'
        BY <2>1, <2>2, <2>4, <3>1, <4>1, <4>2, <4>3 DEF LineOf
      <4> QED
        BY <2>k, <4>2, <4>4
    <3>4. CASE ~Accepts
      <4>1. loc'[t].mail = <<>> /\ UNCHANGED <<tstate, mailbox>>
        BY <2>4, <3>4 DEF Takes
      <4>2. LineOf(t)'
        BY <2>1, <2>2, <2>4, <3>1, <3>2, <4>1 DEF LineOf, i
      <4> QED
        BY <2>k, <4>1, <4>2
    <3> QED
      BY <3>3, <3>4
  <2>5. CASE /\ pc[t] = "record" /\ pc'[t] # "record" /\ UNCHANGED <<tstate, mailbox>>
             /\ history' = history \o Recordable(loc[t].mail)
    <3>1. InFront(t) = loc[t].mail /\ InFront(t)' = <<>>
      BY <2>5 DEF InFront
    <3>2. Line(posted, history, loc[t].mail, ActiveItems, <<>>, mailbox)
      BY <1>t, <2>2, <3>1 DEF LineOf
    <3>3. Line(posted, history \o Recordable(loc[t].mail), <<>>, ActiveItems, <<>>, mailbox)
      BY <1>t, <3>2, EmptyItems, LineRecords
    <3>4. LineOf(t)'
      BY <2>1, <2>2, <2>5, <3>1, <3>3 DEF LineOf, i
    <3> QED
      BY <2>5, <2>k, <3>4
  <2> QED
    BY <1>1, <2>3, <2>4, <2>5 DEF WorksOn
<1>2. CASE LeavesSlot(t)
  <2>1. /\ pc[t] = "take" /\ pc'[t] = "report" /\ OthersWait(t) /\ active'.ts = active.ts
        /\ loc'[t].input = loc[t].input /\ UNCHANGED <<tstate, mailbox, history, posted>>
    BY <1>2 DEF LeavesSlot, TypeOK
  <2>2. Busy(t) /\ ActiveItems' = ActiveItems
    BY <1>s, <2>1 DEF Working, ActiveItems
  <2>3. LineOf(t)'
    BY <1>t, <2>1, <2>2 DEF LineOf, InFront, Behind
  <2> QED
    BY <1>0, <2>1, <2>2, <2>3, HolderKeepsLine
<1>3. CASE ReportsEnd(t)
  <2>1. /\ pc[t] = "report" /\ pc'[t] = "clear" /\ OthersWait(t) /\ loc'[t] = loc[t]
        /\ tstate' = [tstate EXCEPT ![s].items = <<>>]
        /\ history' = history \o Recordable(i)
        /\ UNCHANGED <<active, mailbox, posted>>
    BY <1>3 DEF ReportsEnd
  <2>2. s \in States /\ s # None /\ Busy(t) /\ ActiveItems = i /\ Behind(t) = <<>>
        /\ active'.ts = s
    BY <1>s, <2>1 DEF Finishing
  <2> HIDE DEF s, i
  <2>3. tstate'[s].items = <<>> /\ \A r \in States \ {s} : tstate'[r] = tstate[r]
    BY <2>1, <2>2, StateAfter
  <2>4. ActiveItems' = <<>>
    BY <2>2, <2>3 DEF ActiveItems
  <2>5. Line(posted, history, <<>>, i, <<>>, mailbox)
    BY <1>t, <2>1, <2>2 DEF LineOf, InFront
  <2>6. Line(posted, history, i, <<>>, <<>>, mailbox)
    BY <1>t, <2>2, <2>5, EmptyItems, LineShifts
  <2>7. Line(posted, history \o Recordable(i), <<>>, <<>>, <<>>, mailbox)
    BY <1>t, <2>2, <2>6, EmptyItems, LineRecords
  <2>8. LineOf(t)'
    BY <2>1, <2>4, <2>7 DEF LineOf, InFront, Behind
  <2>9. active'.ts = active.ts
    BY <2>1
  <2> QED
    BY <1>0, <1>e, <2>1, <2>2, <2>3, <2>4, <2>8, <2>9, HolderKeepsLine DEF s
<1>4. CASE ClearsSlot(t)
  <2>1. /\ pc[t] = "clear" /\ pc'[t] = "maybe" /\ OthersWait(t) /\ loc'[t] = loc[t]
        /\ active' = Idle /\ UNCHANGED <<tstate, mailbox, history, posted>>
    BY <1>4 DEF ClearsSlot
  <2>2. LeftOver(ActiveItems) /\ Contents(loc'[t].input) \cap Mails = {}
    BY <1>0, <2>1 DEF MailLine, NoStrayMail
  <2>3. \A r \in States : LeftOver(tstate[r].items)
    BY <2>2, WhoIsWho DEF MailLine, NoStrayMail, ActiveItems
  <2>4. ActiveItems' = <<>>
    BY <2>1 DEF ActiveItems, Idle
  <2>5. InFront(t) = <<>> /\ Behind(t) = <<>> /\ InFront(t)' = <<>> /\ Behind(t)' = <<>>
    BY <2>1 DEF InFront, Behind
  <2> QED
    BY <1>0, <1>e, <2>1, <2>2, <2>3, <2>4, <2>5, SlotChangesLine
<1> QED
  BY <1>1, <1>2, <1>3, <1>4 DEF TurnKind

\* The line holds.
LEMMA MailLineHolds == ASSUME ReservedStarts PROVE Spec => []MailLine
<1>1. Init => MailLine
  <2> SUFFICES ASSUME Init PROVE MailLine
    OBVIOUS
  <2>1. /\ active.ts = None /\ mailbox = <<>> /\ history = <<>> /\ posted = <<>>
        /\ \A s \in States : tstate[s].items = <<>>
    BY DEF Init, Idle, FreshTurnState
  <2>2. \A p \in Procs : /\ loc[p].input = <<>> /\ loc[p].mail = <<>>
                         /\ pc[p] \in {"idle", "off", "unborn"}
    BY DEF Init, Blank
  <2>3. NoStrayMail
    BY <2>1, <2>2, LeftOverHasNoMail, ContentsOf DEF NoStrayMail
  <2>4. Line(<<>>, <<>>, <<>>, <<>>, <<>>, <<>>)
    <3>1. Contents(<<>>) = {}
      BY ContentsOf
    <3>2. InOrder(<<>>, <<>>)
      BY <3>1, NoMailInOrder
    <3> QED
      BY <3>1, <3>2 DEF Line, Ahead
  <2>5. \A p \in Procs : InFront(p) = <<>> /\ Behind(p) = <<>>
    BY <2>2 DEF InFront, Behind
  <2>6. ActiveItems = <<>>
    BY <2>1 DEF ActiveItems
  <2> QED
    BY <2>1, <2>3, <2>4, <2>5, <2>6 DEF MailLine, LineOf
<1>2. TypeOK /\ TypeOK' /\ Custody /\ Reservations /\ Reservations' /\ MailLine /\ [Next]_vars
        => MailLine'
  BY ReservedStepKinds, StartKindLine, EnvKindLine, TurnKindLine
<1> QED
  BY <1>1, <1>2, ReservationsHold, KeptAlways, PTL DEF Spec

\* Where every start reserves the slot, mail is recorded in the history in the order in
\* which it was posted, whether a running turn takes it from the mailbox, a wake-up turn
\* is started for it or it is moved into the pending input of a new turn.
THEOREM MailArrivesInOrder == ASSUME ReservedStarts PROVE Spec => []MailInOrder
<1>1. MailLine => MailInOrder
  <2> SUFFICES ASSUME MailLine PROVE MailInOrder
    OBVIOUS
  <2>1. InOrder(posted, history)
    BY WhoIsWho DEF MailLine, LineOf, Line
  <2> QED
    BY <2>1 DEF InOrder, Before, MailInOrder
<1> QED
  BY <1>1, MailLineHolds, PTL

\* Where every start reserves the slot and nobody injects input, nothing waits in a turn
\* state that neither the slot nor a process reaches any more.
THEOREM ReservedInputIsReachable ==
  ASSUME ReservedStarts, "Inject" \notin Ops PROVE Spec => []NoOrphanedInput
<1>1. MailLine => NoOrphanedInput
  BY DEF MailLine, NoStrayMail, LeftOver, NoOrphanedInput
<1> QED
  BY <1>1, MailLineHolds, PTL

(***************************************************************************)
(* What the abstract session sees: ReservedStarts implements               *)
(* SequentialSession.                                                      *)
(***************************************************************************)

\* What may become of the submitted items in one step.
FateMoves ==
    \/ fate' = fate
    \/ \E S : fate' = Drop(S)
    \/ \E i \in Items : fate' \in {Sent(i), Rejected(i)}
    \/ \E S, v : v \in {"rejected", "accepted"}
                 /\ fate' = [i \in Items |-> IF i \in S THEN v ELSE fate[i]]

\* The steps of a start, a wake-up and an abort.
LEMMA StepsMoveFate ==
  ASSUME NEW p \in Procs, Steps(p) PROVE FateMoves
<1>1. CASE StartTask(p)
  BY <1>1 DEF StartTask, StartTaskDrain, StartTaskAdopt, StartTaskExtend, StartTaskInstall,
     FateMoves
<1>2. CASE MaybeStartTurn(p)
  BY <1>2 DEF MaybeStartTurn, CheckPendingWork, ReserveForWork, ReserveRefused, GatherPending,
     TakePending, HandOver, FateMoves
<1>3. CASE AbortTask(p)
  BY <1>3 DEF AbortTask, AbortAllTasks, AbortNothing, AbortTurnIfActive, TakeTask, KillTask,
     ReportAborted, WipePending, FateMoves
<1> QED
  BY <1>1, <1>2, <1>3 DEF Steps

\* The operations of the loop and of the routers.
LEMMA OpsMoveFate ==
  ASSUME NEW p \in Procs, ClientOp(p) \/ LoopOp(p) PROVE FateMoves
<1>i. UserInputs \subseteq Items /\ Mails \subseteq Items /\ Notices \subseteq Items
  BY DEF Items
<1>1. ASSUME NEW u \in UserInputs, StartOrSteer(p, u) \/ Steer(p, u) PROVE FateMoves
  BY <1>i, <1>1 DEF StartOrSteer, Steer, SteerInput, SteerRefused, SpawnTask, FateMoves
<1>2. ASSUME NEW op, NEW i1, NEW i2, StartIfIdle(p, op, i1, i2) PROVE FateMoves
  BY <1>2 DEF StartIfIdle, FateMoves
<1>3. CASE SettleIdleStart(p)
  BY <1>3 DEF SettleIdleStart, GiveUpIdleStart, FateMoves
<1>4. CASE CompactOp(p) \/ Interrupt(p) \/ Shutdown(p) \/ Suspend(p) \/ ExitLoop(p)
           \/ FinishSuspend(p)
  BY <1>4 DEF CompactOp, Interrupt, Shutdown, Suspend, ExitLoop, FinishSuspend, FateMoves
<1>5. ASSUME NEW m \in Mails, Communicate(p, m) PROVE FateMoves
  BY <1>i, <1>5 DEF Communicate, FateMoves
<1> QED
  BY <1>1, <1>2, <1>3, <1>4, <1>5 DEF ClientOp, LoopOp

\* The steps of a task.
LEMMA TasksMoveFate ==
  ASSUME NEW t \in Turns, RunTask(t) \/ OnTaskFinished(t) \/ GuardianDenial(t) PROVE FateMoves
<1>1. CASE OnTaskFinished(t) \/ GuardianDenial(t)
  BY <1>1 DEF OnTaskFinished, CheckCancelled, FinishTake, FinishReport, FinishClear,
     GuardianDenial, FateMoves
<1>2. CASE RunTask(t)
  BY <1>2 DEF RunTask, Begin, RunCompact, RecordInput, FailPrepare, CancelPrepare,
     SessionStartStops, DrainPending, TakePending, RecordPending, SampleAnswer, SampleToolCall,
     SampleFails, RollOverFails, FollowUp, NoFollowUp, StopHookBlocks, RunAgain, FateMoves
<1> QED
  BY <1>1, <1>2

\* An item is never again unsent.
LEMMA SentStaysSent ==
  ASSUME TypeOK, [Next]_vars
  PROVE  \A i \in Items : fate[i] # "unsent" => fate'[i] # "unsent"
<1>1. FateMoves
  <2>1. ASSUME NEW x \in Notices, Inject(x) PROVE FateMoves
    BY <2>1 DEF Inject, FateMoves, Items
  <2>2. CASE UNCHANGED vars
    BY <2>2 DEF vars, FateMoves
  <2> QED
    BY <2>1, <2>2, StepsMoveFate, OpsMoveFate, TasksMoveFate DEF Next, Procs, Clients
<1>2. fate \in [Items -> {"unsent", "rejected", "accepted", "dropped"}]
  BY DEF TypeOK
<1>3. ASSUME NEW S, fate' = Drop(S) PROVE \A i \in Items : fate[i] # "unsent" => fate'[i] # "unsent"
  BY <1>2, <1>3 DEF Drop
<1>4. ASSUME NEW j \in Items, fate' \in {Sent(j), Rejected(j)}
      PROVE  \A i \in Items : fate[i] # "unsent" => fate'[i] # "unsent"
  BY <1>2, <1>4 DEF Sent, Rejected
<1>5. ASSUME NEW S, NEW v \in {"rejected", "accepted"},
             fate' = [i \in Items |-> IF i \in S THEN v ELSE fate[i]]
      PROVE  \A i \in Items : fate[i] # "unsent" => fate'[i] # "unsent"
  BY <1>2, <1>5
<1> QED
  BY <1>1, <1>3, <1>4, <1>5 DEF FateMoves

\* Posted mail has been sent, so none is posted twice.
PostedIsSent == \A k \in 1..Len(posted) : fate[posted[k]] # "unsent"

\* Ended, as the abstract session has it.
Ended == {t \in Turns : terminal[t] # <<>>}

\* It stays so: only Communicate posts, and what it posts is sent.
LEMMA PostedStaysSent ==
  ASSUME ReservedStarts, TypeOK, TypeOK', Custody, Reservations, PostedIsSent, [Next]_vars
  PROVE  PostedIsSent'
<1>1. posted \in Seq(Mails) /\ posted' \in Seq(Mails)
  BY DEF TypeOK
<1>2. Mails \subseteq Items
  BY DEF Items
<1>3. CASE posted' = posted
  BY <1>1, <1>2, <1>3, SentStaysSent DEF PostedIsSent
<1>4. ASSUME NEW m \in Mails, MailPosted(m) PROVE PostedIsSent'
  <2>1. fate'[m] # "unsent"
    BY <1>2, <1>4 DEF MailPosted, Sent, TypeOK
  <2>2. posted' = Append(posted, m)
    BY <1>4 DEF MailPosted
  <2>3. ASSUME NEW k \in 1..Len(posted') PROVE fate'[posted'[k]] # "unsent"
    BY <1>1, <1>2, <2>1, <2>2, SentStaysSent DEF PostedIsSent
  <2> QED
    BY <2>3 DEF PostedIsSent
<1>5. posted' = posted \/ \E m \in Mails : MailPosted(m)
  BY ReservedStepKinds DEF TurnKind, WorksOn, LeavesSlot, ReportsEnd, ClearsSlot, StartKind,
     StartMoves, SlotReserved, SlotGivenBack, LooksForWork, TaskInstalled, EnvKind, ItemArrived,
     NothingHappens
<1> QED
  BY <1>3, <1>4, <1>5

\* The current turn is the one that has not reported its end.
LEMMA CurrentIs ==
  /\ Unreported = {} => CurrentTurn = None
  /\ \A t : Unreported = {t} => CurrentTurn = t
  /\ Unreported' = {} => CurrentTurn' = None
  /\ \A t : Unreported' = {t} => CurrentTurn' = t
  /\ Unreported' = Unreported => CurrentTurn' = CurrentTurn
<1>1. \A U, t : U = {t} => U # {} /\ (CHOOSE x \in U : TRUE) = t
  OBVIOUS
<1>2. Unreported = {} => CurrentTurn = None
  BY DEF CurrentTurn
<1>3. ASSUME NEW t, Unreported = {t} PROVE CurrentTurn = t
  BY <1>1, <1>3 DEF CurrentTurn
<1>4. Unreported' = {} => CurrentTurn' = None
  BY DEF CurrentTurn
<1>5. ASSUME NEW t, Unreported' = {t} PROVE CurrentTurn' = t
  BY <1>1, <1>5 DEF CurrentTurn
<1>6. Unreported' = Unreported => CurrentTurn' = CurrentTurn
  BY DEF CurrentTurn
<1> QED
  BY <1>2, <1>3, <1>4, <1>5, <1>6

\* When the holder of the slot is past its report or before its task, no turn is current.
LEMMA HolderIsCurrent ==
  ASSUME Reservations
  PROVE  /\ \A p \in Procs : pc[p] \in StartLabels \cup {"clear"} => Unreported = {}
         /\ \A t \in Unreported : Unreported = {t}
<1>1. \A t \in Unreported : t \in Procs /\ t \in Turns /\ Busy(t)
                            /\ pc[t] \notin StartLabels \cup {"clear"}
  BY WhoIsWho, HoldingLabels DEF Unreported, Busy
<1>2. \A p \in Procs : pc[p] \in StartLabels \cup {"clear"} => Busy(p)
  BY DEF Busy, Finishing
<1> QED
  BY <1>1, <1>2 DEF Reservations, OneHolder

\* Recording at the end of the conversation, in the order of the mail.
LEMMA RecordingGrows ==
  ASSUME TypeOK, NEW q \in Seq(Items), history' = history \o q, posted' = posted, MailInOrder'
  PROVE  Sequential!Grows
<1>1. history \in Seq(Items)
  BY DEF TypeOK
<1>2. Len(history) <= Len(history') /\ \A k \in 1..Len(history) : history'[k] = history[k]
  BY <1>1
<1>3. Len(history) \in Nat /\ Len(history') \in Nat
  BY <1>1
<1>4. ASSUME NEW j \in 1..Len(history'), NEW k \in Len(history)+1..Len(history'),
             j < k, history'[j] \in Mails, history'[k] \in Mails
      PROVE  Sequential!PostedBefore(history'[j], history'[k])
  <2>1. k \in 1..Len(history')
    BY <1>3
  <2>2. \E a, b \in 1..Len(posted') :
           a < b /\ posted'[a] = history'[j] /\ posted'[b] = history'[k]
    BY <1>4, <2>1 DEF MailInOrder
  <2> QED
    BY <2>2 DEF Sequential!PostedBefore
<1> QED
  BY <1>2, <1>4 DEF Sequential!Grows

\* A step of which the abstract session sees nothing.
LEMMA NothingSeen ==
  ASSUME UNCHANGED <<posted, history, terminal>>, Unreported' = Unreported
  PROVE  UNCHANGED Sequential!vars
  BY CurrentIs DEF Sequential!vars

\* A start is seen when the task is installed.
LEMMA StartIsBegin ==
  ASSUME TypeOK, Custody, Reservations, NEW p \in Procs, StartKind(p)
  PROVE  [Sequential!Next]_Sequential!vars
<1>1. CASE StartMoves(p)
  <2>1. Unreported' = Unreported
    BY <1>1, WhoIsWho, HoldingLabels DEF StartMoves, OthersWait, Unreported
  <2> QED
    BY <1>1, <2>1, NothingSeen DEF StartMoves
<1>2. CASE SlotReserved(p)
  <2>1. Unreported' = Unreported
    <3>1. pc'[p] \in StartLabels
      BY <1>2 DEF SlotReserved, StartLabels
    <3> QED
      BY <1>2, <3>1, WhoIsWho, HoldingLabels DEF SlotReserved, OthersWait, Unreported
  <2> QED
    BY <1>2, <2>1, NothingSeen DEF SlotReserved
<1>3. CASE SlotGivenBack(p)
  <2>1. Unreported' = Unreported
    BY <1>3, WhoIsWho, HoldingLabels DEF SlotGivenBack, OthersWait, Unreported, StartLabels
  <2> QED
    BY <1>3, <2>1, NothingSeen DEF SlotGivenBack
<1>4. CASE LooksForWork(p)
  <2>1. Unreported' = Unreported
    <3>1. p \in Turns => loc[p].then = "dead"
      BY DEF Custody, TasksOK
    <3> QED
      BY <1>4, <3>1, WhoIsWho, HoldingLabels DEF LooksForWork, OthersWait, Unreported
  <2> QED
    BY <1>4, <2>1, NothingSeen DEF LooksForWork
<1>5. ASSUME NEW t \in Turns, TaskInstalled(p, t) PROVE Sequential!Begin(t)
  <2>1. Unreported = {}
    <3>1. pc[p] \in StartLabels
      BY <1>5 DEF TaskInstalled, StartLabels
    <3> QED
      BY <3>1, HolderIsCurrent
  <2>2. p \in Turns => loc[p].then = "dead"
    BY DEF Custody, TasksOK
  <2>3. p # t /\ pc'[t] \in Working
    BY <1>5 DEF TaskInstalled, Working
  <2>4. Unreported' = {t}
    BY <1>5, <2>1, <2>2, <2>3, WhoIsWho, HoldingLabels DEF TaskInstalled, Unreported
  <2>5. terminal[t] = <<>>
    BY <1>5 DEF TaskInstalled, Reservations, EndReported
  <2>6. CurrentTurn = None /\ CurrentTurn' = t /\ t \notin Ended
    BY <2>1, <2>4, <2>5, CurrentIs DEF Ended
  <2>7. UNCHANGED <<terminal, posted, history>>
    BY <1>5 DEF TaskInstalled
  <2> QED
    BY <2>6, <2>7 DEF Sequential!Begin, Ended
<1> QED
  BY <1>1, <1>2, <1>3, <1>4, <1>5 DEF StartKind, Sequential!Next

\* What the environment does is posting, or saying something that is no mail.
LEMMA EnvIsPostOrSay ==
  ASSUME TypeOK, PostedIsSent, MailInOrder', EnvKind
  PROVE  [Sequential!Next]_Sequential!vars
<1>1. ASSUME NEW m \in Mails, MailPosted(m) PROVE Sequential!Post(m)
  <2>1. Unreported' = Unreported
    <3>1. \A t \in Turns : pc'[t] = pc[t]
      BY <1>1, WhoIsWho DEF MailPosted, OthersWait
    <3> QED
      BY <3>1 DEF Unreported
  <2>2. \A k \in 1..Len(posted) : posted[k] # m
    BY <1>1 DEF MailPosted, PostedIsSent
  <2>3. posted' = Append(posted, m) /\ UNCHANGED <<terminal, history>>
    BY <1>1 DEF MailPosted
  <2> QED
    BY <2>1, <2>2, <2>3, CurrentIs DEF Sequential!Post
<1>2. ASSUME NEW x \in UserInputs \cup Notices, ItemArrived(x)
      PROVE  [Sequential!Next]_Sequential!vars
  <2>1. Unreported' = Unreported /\ UNCHANGED <<terminal, posted>>
    BY <1>2 DEF ItemArrived, Unreported
  <2>2. CASE history' = history
    BY <2>1, <2>2, NothingSeen
  <2>3. CASE history' = Append(history, x)
    <3>1. x \in Items /\ x \notin Mails /\ history \in Seq(Items)
      BY ConstantsAssumption DEF Items, TypeOK
    <3>2. history' = history \o <<x>> /\ <<x>> \in Seq(Items)
      BY <2>3, <3>1
    <3>3. Sequential!Grows
      BY <2>1, <3>2, RecordingGrows
    <3>4. \A k \in Len(history)+1..Len(history') : history'[k] \notin Mails
      BY <2>3, <3>1
    <3>5. Sequential!Say
      BY <2>1, <3>3, <3>4, CurrentIs DEF Sequential!Say, Sequential!NoNewMail
    <3> QED
      BY <3>5 DEF Sequential!Next
  <2> QED
    BY <1>2, <2>2, <2>3 DEF ItemArrived
<1>3. CASE NothingHappens
  BY <1>3, NothingSeen DEF NothingHappens, Unreported
<1> QED
  BY <1>1, <1>2, <1>3 DEF EnvKind, Sequential!Next

\* A task reads, and then ends its turn.
LEMMA TaskIsSayOrEnd ==
  ASSUME TypeOK, TypeOK', Reservations, Reservations', MailInOrder', NEW t \in Turns, TurnKind(t)
  PROVE  [Sequential!Next]_Sequential!vars
<1>0. t \in Procs /\ t # None /\ \A u \in Turns : u \in Procs
  BY WhoIsWho
<1>1. CASE WorksOn(t)
  <2>1. t \in Unreported /\ Unreported' = Unreported
    BY <1>0, <1>1 DEF WorksOn, OthersWait, Unreported
  <2>2. CurrentTurn # None /\ CurrentTurn' = CurrentTurn
    BY <1>0, <2>1, HolderIsCurrent, CurrentIs
  <2>3. UNCHANGED <<terminal, posted>>
    BY <1>1 DEF WorksOn
  <2>4. \E q \in Seq(Items) : history' = history \o q
    <3>0. loc[t].input \in Seq(Items) /\ loc[t].mail \in Seq(Items) /\ history \in Seq(Items)
      BY <1>0, LineTypes
    <3>1. history = history \o <<>> /\ <<>> \in Seq(Items)
      BY <3>0
    <3>2. Recordable(loc[t].input) \in Seq(Items) /\ Recordable(loc[t].mail) \in Seq(Items)
      BY <3>0, RecordableIs
    <3>3. history' \in {history, history \o Recordable(loc[t].input),
                       history \o Recordable(loc[t].mail)}
      BY <1>1 DEF WorksOn
    <3> QED
      BY <3>1, <3>2, <3>3
  <2>5. Sequential!Grows
    BY <2>3, <2>4, RecordingGrows
  <2>6. Sequential!Say
    BY <2>2, <2>3, <2>5 DEF Sequential!Say
  <2> QED
    BY <2>6 DEF Sequential!Next
<1>2. CASE LeavesSlot(t)
  <2>1. Unreported' = Unreported
    BY <1>0, <1>2 DEF LeavesSlot, OthersWait, Unreported, Working
  <2> QED
    BY <1>2, <2>1, NothingSeen DEF LeavesSlot
<1>3. CASE ReportsEnd(t)
  <2>1. Unreported = {t}
    BY <1>3, HolderIsCurrent DEF ReportsEnd, Unreported
  <2>2. Unreported' = {}
    BY <1>0, <1>3, <2>1, HoldingLabels DEF ReportsEnd, OthersWait, Unreported, Working
  <2>3. PICK e : terminal' = [terminal EXCEPT ![t] = Append(terminal[t], e)]
    BY <1>3 DEF ReportsEnd
  <2>4. terminal'[t] # <<>> /\ \A u \in Turns \ {t} : terminal'[u] = terminal[u]
    <3>1. \A u \in Turns \ {t} : terminal'[u] = terminal[u]
      BY <2>3 DEF TypeOK
    <3>2. pc'[t] = "clear"
      BY <1>3 DEF ReportsEnd
    <3>3. Len(terminal'[t]) = 1
      BY <3>2, HoldingLabels DEF Reservations, EndReported, Working
    <3>4. Len(<<>>) = 0
      OBVIOUS
    <3> QED
      BY <3>1, <3>3, <3>4
  <2>5. Ended' = Ended \cup {CurrentTurn} /\ CurrentTurn = t /\ CurrentTurn' = None
    BY <2>1, <2>2, <2>4, CurrentIs DEF Ended
  <2>6. \E q \in Seq(Items) : history' = history \o q
    <3>1. active.ts \in States
      BY <1>0, <1>3 DEF ReportsEnd, Reservations, HolderKnowsSlot, Finishing, TypeOK
    <3>2. tstate[active.ts].items \in Seq(Items)
      BY <3>1 DEF TypeOK, TurnState
    <3> QED
      BY <1>3, <3>2, RecordableIs DEF ReportsEnd
  <2>7. posted' = posted
    BY <1>3 DEF ReportsEnd
  <2>8. Sequential!Grows
    BY <2>6, <2>7, RecordingGrows
  <2>9. Sequential!End
    BY <1>0, <2>5, <2>7, <2>8 DEF Sequential!End, Ended
  <2> QED
    BY <2>9 DEF Sequential!Next
<1>4. CASE ClearsSlot(t)
  <2>1. Unreported' = Unreported
    BY <1>0, <1>4, HoldingLabels DEF ClearsSlot, OthersWait, Unreported, Working
  <2> QED
    BY <1>4, <2>1, NothingSeen DEF ClearsSlot
<1> QED
  BY <1>1, <1>2, <1>3, <1>4 DEF TurnKind

\* Where every start reserves the slot, a session runs one turn after the other, each
\* begun after the end of the one before it was reported, and reads its mail in a turn,
\* once and in the order of posting, although starts, tasks, on_task_finished and the
\* mailbox take several steps each and are interleaved with those of others.
THEOREM ReservedIsSequential ==
  ASSUME ReservedStarts PROVE Spec => ImplementsSequentialSession
<1>1. Init => PostedIsSent /\ Sequential!Init
  <2> SUFFICES ASSUME Init PROVE PostedIsSent /\ Sequential!Init
    OBVIOUS
  <2>1. posted = <<>> /\ history = <<>> /\ \A t \in Turns : terminal[t] = <<>>
    BY DEF Init
  <2>2. Unreported = {}
    BY WhoIsWho DEF Init, Unreported, Working
  <2>3. Ended = {} /\ CurrentTurn = None
    BY <2>1, <2>2, CurrentIs DEF Ended
  <2> QED
    BY <2>1, <2>3 DEF PostedIsSent, Sequential!Init, Ended
<1>2. TypeOK /\ TypeOK' /\ Custody /\ Reservations /\ PostedIsSent /\ [Next]_vars => PostedIsSent'
  BY PostedStaysSent
<1>3. TypeOK /\ TypeOK' /\ Custody /\ Reservations /\ Reservations' /\ PostedIsSent
         /\ MailInOrder' /\ [Next]_vars
      => [Sequential!Next]_Sequential!vars
  <2> SUFFICES ASSUME TypeOK, TypeOK', Custody, Reservations, Reservations', PostedIsSent,
                      MailInOrder', [Next]_vars
               PROVE  [Sequential!Next]_Sequential!vars
    OBVIOUS
  <2>1. CASE \E p \in Procs : StartKind(p)
    BY <2>1, StartIsBegin
  <2>2. CASE EnvKind
    BY <2>2, EnvIsPostOrSay
  <2>3. CASE \E t \in Turns : TurnKind(t)
    BY <2>3, TaskIsSayOrEnd
  <2> QED
    BY <2>1, <2>2, <2>3, ReservedStepKinds
<1> QED
  BY <1>1, <1>2, <1>3, ReservationsHold, MailArrivesInOrder, KeptAlways, PTL
     DEF Spec, ImplementsSequentialSession, Sequential!Spec
=============================================================================
