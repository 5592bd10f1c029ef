----------------------- MODULE AgentResidency_proofs -----------------------
(***************************************************************************)
(* Proofs about AgentResidency, for any finite set of callers, any         *)
(* threads and messages, any capacity and any mix of operations.           *)
(***************************************************************************)
EXTENDS AgentResidency, FiniteSetTheorems, FunctionTheorems, SequenceTheorems, TLAPS

(***************************************************************************)
(* The list of residents.                                                  *)
(***************************************************************************)

\* retain keeps a list in which nothing is to be removed.
LEMMA WithoutAbsent ==
    ASSUME NEW S, NEW rs \in Seq(S), NEW t, \A i \in DOMAIN rs : rs[i] # t
    PROVE  Without(rs, t) = rs
<1> DEFINE n == Len(rs)
           kept == {i \in DOMAIN rs : rs[i] # t}
           at(k) == CHOOSE i \in kept : Cardinality({j \in kept : j <= i}) = k
<1>1. n \in Nat /\ DOMAIN rs = 1 .. n /\ rs \in [1 .. n -> S] OBVIOUS
<1>2. kept = 1 .. n BY <1>1
<1>3. Cardinality(kept) = n
  <2>1. Cardinality(1 .. n) = n BY <1>1, FS_Interval
  <2> HIDE DEF kept
  <2> QED BY <2>1, <1>2
<1>4. \A i \in kept : Cardinality({j \in kept : j <= i}) = i
  <2> TAKE i \in kept
  <2>1. i \in 1 .. n /\ Cardinality(1 .. i) = i BY <1>1, <1>2, FS_Interval
  <2> HIDE DEF kept, n
  <2>2. {j \in kept : j <= i} = 1 .. i BY <2>1, <1>1, <1>2
  <2> QED BY <2>1, <2>2
<1>5. \A k \in 1 .. n : at(k) = k
  <2> TAKE k \in 1 .. n
  <2>1. k \in kept /\ Cardinality({j \in kept : j <= k}) = k BY <1>2, <1>4
  <2>2. at(k) \in kept /\ Cardinality({j \in kept : j <= at(k)}) = k
    <3> HIDE DEF kept
    <3> QED BY <2>1
  <2> HIDE DEF kept, at
  <2> QED BY <2>2, <1>4
<1>6. Without(rs, t) = [k \in 1 .. Cardinality(kept) |-> rs[at(k)]]
  BY DEF Without
<1> HIDE DEF at, kept
<1>7. Without(rs, t) = [k \in 1 .. n |-> rs[k]] BY <1>3, <1>5, <1>6
<1> QED BY <1>1, <1>7

\* A list in which t occurs once closes the gap.
LEMMA WithoutPresent ==
    ASSUME NEW S, NEW rs \in Seq(S), IsInjective(rs), NEW p \in DOMAIN rs
    PROVE  Without(rs, rs[p]) =
              [k \in 1 .. Len(rs) - 1 |-> rs[IF k < p THEN k ELSE k + 1]]
<1> DEFINE n == Len(rs)
           kept == {i \in DOMAIN rs : rs[i] # rs[p]}
           at(k) == CHOOSE i \in kept : Cardinality({j \in kept : j <= i}) = k
           up(k) == IF k < p THEN k ELSE k + 1
<1>1. n \in Nat /\ DOMAIN rs = 1 .. n /\ rs \in [1 .. n -> S] /\ p \in 1 .. n
  OBVIOUS
<1>2. kept = (1 .. n) \ {p} BY <1>1 DEF IsInjective
<1>3. Cardinality(kept) = n - 1
  <2> HIDE DEF kept, n
  <2>1. IsFiniteSet(1 .. n) /\ Cardinality(1 .. n) = n
    <3>1. n \in Int /\ 1 \in Int /\ ~(1 > n) /\ n - 1 + 1 = n BY <1>1
    <3> QED BY <3>1, FS_Interval
  <2>2. Cardinality((1 .. n) \ {p}) = n - 1 BY <2>1, <1>1, FS_RemoveElement
  <2> QED BY <2>2, <1>2
<1>4. \A i \in kept : Cardinality({j \in kept : j <= i}) = IF i < p THEN i ELSE i - 1
  <2> TAKE i \in kept
  <2>1. IsFiniteSet(1 .. i) /\ Cardinality(1 .. i) = i /\ i \in 1 .. n
    BY <1>1, <1>2, FS_Interval
  <2>2. p \in 1 .. i <=> ~(i < p) BY <2>1, <1>1
  <2>3. Cardinality((1 .. i) \ {p}) = IF i < p THEN i ELSE i - 1
    BY <2>1, <2>2, FS_RemoveElement
  <2> HIDE DEF kept, n
  <2>4. {j \in kept : j <= i} = (1 .. i) \ {p} BY <2>1, <1>1, <1>2
  <2> QED BY <2>3, <2>4
<1>5. \A k \in 1 .. n - 1 : at(k) = up(k)
  <2> TAKE k \in 1 .. n - 1
  <2>1. up(k) \in kept /\ up(k) \in Nat BY <1>1, <1>2
  <2>2. Cardinality({j \in kept : j <= up(k)}) = k
    <3>1. (IF up(k) < p THEN up(k) ELSE up(k) - 1) = k BY <1>1
    <3> HIDE DEF kept, up
    <3> QED BY <1>4, <2>1, <3>1
  <2>3. at(k) \in kept /\ Cardinality({j \in kept : j <= at(k)}) = k
    <3> HIDE DEF kept, up
    <3> QED BY <2>1, <2>2
  <2>4. at(k) \in (1 .. n) \ {p} BY <2>3, <1>2
  <2>5. k = IF at(k) < p THEN at(k) ELSE at(k) - 1
    <3> HIDE DEF kept, at
    <3> QED BY <2>3, <1>4
  <2> HIDE DEF kept, at
  <2> QED BY <2>4, <2>5, <1>1
<1>6. Without(rs, rs[p]) = [k \in 1 .. Cardinality(kept) |-> rs[at(k)]]
  BY DEF Without
<1> HIDE DEF at, kept
<1> QED BY <1>3, <1>5, <1>6

\* What retain does to a list without repetitions: it stays one, and loses t
\* and nothing else.
LEMMA WithoutList ==
    ASSUME NEW S, NEW rs \in Seq(S), IsInjective(rs), NEW t
    PROVE  /\ Without(rs, t) \in Seq(S) /\ IsInjective(Without(rs, t))
           /\ ToSet(Without(rs, t)) = ToSet(rs) \ {t}
<1>1. CASE \A i \in DOMAIN rs : rs[i] # t
  <2>1. Without(rs, t) = rs BY <1>1, WithoutAbsent
  <2> QED BY <1>1, <2>1 DEF ToSet
<1>2. CASE \E i \in DOMAIN rs : rs[i] = t
  <2>1. PICK p \in DOMAIN rs : rs[p] = t BY <1>2
  <2> DEFINE n == Len(rs)
             w == [k \in 1 .. n - 1 |-> rs[IF k < p THEN k ELSE k + 1]]
  <2>2. Without(rs, t) = w BY <2>1, WithoutPresent
  <2>3. n \in Nat /\ DOMAIN rs = 1 .. n /\ p \in 1 .. n /\ n - 1 \in Nat
    OBVIOUS
  <2>4. w \in [1 .. n - 1 -> S] BY <2>3
  <2>5. w \in Seq(S) BY <2>3, <2>4
  <2>6. IsInjective(w) BY <2>3 DEF IsInjective
  <2>7. ToSet(w) = ToSet(rs) \ {t}
    <3>1. ASSUME NEW x \in ToSet(w) PROVE x \in ToSet(rs) \ {t}
      <4>1. PICK k \in 1 .. n - 1 : x = w[k] BY DEF ToSet
      <4> DEFINE i == IF k < p THEN k ELSE k + 1
      <4>2. i \in 1 .. n /\ i # p /\ x = rs[i] BY <4>1, <2>3
      <4> HIDE DEF i
      <4>3. rs[i] # t BY <4>2, <2>1, <2>3 DEF IsInjective
      <4> QED BY <4>2, <4>3, <2>3 DEF ToSet
    <3>2. ASSUME NEW x \in ToSet(rs) \ {t} PROVE x \in ToSet(w)
      <4>1. PICK i \in 1 .. n : x = rs[i] BY <2>3 DEF ToSet
      <4>2. i # p BY <4>1, <2>1
      <4> DEFINE k == IF i < p THEN i ELSE i - 1
      <4>3. k \in 1 .. n - 1 /\ w[k] = x BY <4>1, <4>2, <2>3
      <4> HIDE DEF k
      <4> QED BY <4>3 DEF ToSet
    <3> QED BY <3>1, <3>2
  <2> HIDE DEF w
  <2> QED BY <2>2, <2>5, <2>6, <2>7
<1> QED BY <1>1, <1>2

\* touch_resident: t is in the list, once.
LEMMA TouchedList ==
    ASSUME NEW S, NEW rs \in Seq(S), IsInjective(rs), NEW t \in S
    PROVE  /\ Touched(rs, t) \in Seq(S) /\ IsInjective(Touched(rs, t))
           /\ ToSet(Touched(rs, t)) = ToSet(rs) \cup {t}
<1> DEFINE w == Without(rs, t)
           u == Append(w, t)
<1>1. w \in Seq(S) /\ IsInjective(w) /\ ToSet(w) = ToSet(rs) \ {t} BY WithoutList
<1> HIDE DEF w
<1>2. /\ u \in Seq(S) /\ DOMAIN u = 1 .. Len(w) + 1 /\ DOMAIN w = 1 .. Len(w)
      /\ \A i \in 1 .. Len(w) : u[i] = w[i]
      /\ u[Len(w) + 1] = t /\ Len(w) \in Nat
  BY <1>1
<1>3. Touched(rs, t) = u BY DEF Touched, w
<1> HIDE DEF u
<1>4. \A i \in 1 .. Len(w) : w[i] # t BY <1>1, <1>2 DEF ToSet
<1>5. IsInjective(u) BY <1>1, <1>2, <1>4 DEF IsInjective
<1>6. ToSet(u) = ToSet(w) \cup {t}
  <2>1. \A i \in 1 .. Len(w) + 1 : i \in 1 .. Len(w) \/ i = Len(w) + 1 BY <1>2
  <2>2. 1 .. Len(w) \subseteq 1 .. Len(w) + 1 /\ Len(w) + 1 \in 1 .. Len(w) + 1
    BY <1>2
  <2> QED BY <1>2, <2>1, <2>2 DEF ToSet
<1> QED BY <1>1, <1>2, <1>3, <1>5, <1>6

\* pop_lru_candidate takes out one resident and keeps the others.
LEMMA PoppedList ==
    ASSUME residents \in Seq(Threads), IsInjective(residents), NEW q,
           Candidates(q) # <<>>
    PROVE  /\ Candidates(q)[1] \in ToSet(residents) /\ Candidates(q)[1] \in Threads
           /\ AfterPop(q) \in Seq(Threads) /\ IsInjective(AfterPop(q))
           /\ ToSet(AfterPop(q)) = ToSet(residents) \ {Candidates(q)[1]}
<1> DEFINE rs == residents
           n == Len(rs)
           t == Candidates(q)[1]
<1>1. n \in Nat /\ DOMAIN rs = 1 .. n /\ rs \in Seq(Threads) OBVIOUS
<1>2. Candidates(q) = Without(rs, q) BY DEF Candidates
<1>3. n # 0
  <2> SUFFICES ASSUME n = 0 PROVE FALSE OBVIOUS
  <2>1. rs = <<>> /\ \A i \in DOMAIN rs : rs[i] # q BY <1>1
  <2>2. Without(rs, q) = <<>> BY <2>1, WithoutAbsent
  <2> QED BY <2>2, <1>2
<1>4. CASE rs[1] = q
  <2>1. 1 \in DOMAIN rs BY <1>1, <1>3
  <2>2. Candidates(q) = [k \in 1 .. n - 1 |-> rs[IF k < 1 THEN k ELSE k + 1]]
    BY <2>1, <1>2, <1>4, WithoutPresent
  <2>3. Candidates(q) = [k \in 1 .. n - 1 |-> rs[k + 1]] BY <2>2
  <2>4. n > 1
    <3> SUFFICES ASSUME n = 1 PROVE FALSE BY <1>1, <1>3
    <3>1. Candidates(q) = [k \in 1 .. 0 |-> rs[k + 1]] BY <2>3
    <3>2. Candidates(q) = <<>> BY <3>1
    <3> QED BY <3>2
  <2>5. t = rs[2] BY <2>3, <2>4, <1>1
  <2> DEFINE a == AfterPop(q)
             u == Tail(Tail(rs))
  <2>6. a = Append(u, q) BY <1>4 DEF AfterPop
  <2>7. /\ u \in Seq(Threads) /\ Len(u) = n - 2
        /\ \A k \in 1 .. n - 2 : u[k] = rs[k + 2]
    <3> DEFINE z == Tail(rs)
    <3>1. z \in Seq(Threads) /\ Len(z) = n - 1 BY <1>1, <2>4
    <3>2. \A k \in 1 .. n - 1 : z[k] = rs[k + 1] BY <1>1, <2>4
    <3>3. u = Tail(z) OBVIOUS
    <3> HIDE DEF z, n, u
    <3>4. z # <<>> BY <3>1, <2>4, <1>1
    <3> QED BY <1>1, <2>4, <3>1, <3>2, <3>3, <3>4
  <2> HIDE DEF a, u
  <2>8. q \in Threads BY <1>1, <1>4, <2>1
  <2>9. /\ a \in Seq(Threads) /\ Len(a) = n - 1 /\ DOMAIN a = 1 .. n - 1
        /\ \A k \in 1 .. n - 2 : a[k] = rs[k + 2]
        /\ a[n - 1] = rs[1]
    BY <2>6, <2>7, <2>8, <1>1, <1>4, <2>4
  <2> DEFINE o(k) == IF k = n - 1 THEN 1 ELSE k + 2
  <2>15. \A k \in 1 .. n - 1 : a[k] = rs[o(k)] /\ o(k) \in 1 .. n /\ o(k) # 2
    BY <2>9, <2>4, <1>1
  <2>16. \A j, k \in 1 .. n - 1 : o(j) = o(k) => j = k
    <3> HIDE DEF n
    <3> QED BY <1>1
  <2> HIDE DEF o
  <2>10. IsInjective(a) BY <2>9, <2>15, <2>16, <1>1 DEF IsInjective
  <2>11. \A k \in 1 .. n - 1 : a[k] \in ToSet(rs) /\ a[k] # rs[2]
    BY <2>15, <2>4, <1>1 DEF IsInjective, ToSet
  <2>12. \A i \in 1 .. n : i # 2 => rs[i] \in ToSet(a)
    <3> SUFFICES ASSUME NEW i \in 1 .. n, i # 2 PROVE \E k \in 1 .. n - 1 : a[k] = rs[i]
      BY <2>9 DEF ToSet
    <3>1. CASE i = 1 BY <3>1, <2>9, <2>4, <1>1
    <3>2. CASE i > 2
      <4>1. i - 2 \in 1 .. n - 2 /\ i - 2 \in 1 .. n - 1 /\ (i - 2) + 2 = i BY <3>2, <1>1
      <4>2. a[i - 2] = rs[i] BY <4>1, <2>9
      <4> QED BY <4>1, <4>2
    <3> QED BY <3>1, <3>2, <1>1
  <2>13. ToSet(a) = ToSet(rs) \ {rs[2]}
    <3>1. ToSet(a) \subseteq ToSet(rs) \ {rs[2]}
      <4>1. ToSet(a) = {a[k] : k \in 1 .. n - 1} BY <2>9 DEF ToSet
      <4> QED BY <4>1, <2>11
    <3>2. ToSet(rs) \ {rs[2]} \subseteq ToSet(a)
      <4>1. ToSet(rs) = {rs[i] : i \in 1 .. n} BY <1>1 DEF ToSet
      <4> HIDE DEF rs, n
      <4> QED BY <4>1, <2>12
    <3> QED BY <3>1, <3>2
  <2>14. rs[2] \in ToSet(rs) /\ rs[2] \in Threads BY <1>1, <2>4 DEF ToSet
  <2> QED BY <2>5, <2>9, <2>10, <2>13, <2>14 DEF a
<1>5. CASE rs[1] # q
  <2>1. t = rs[1]
    <3>1. CASE \A i \in DOMAIN rs : rs[i] # q
      BY <3>1, <1>2, WithoutAbsent
    <3>2. CASE \E i \in DOMAIN rs : rs[i] = q
      <4>1. PICK i \in DOMAIN rs : rs[i] = q BY <3>2
      <4>2. i > 1 /\ n > 1 BY <4>1, <1>1, <1>5
      <4>3. Candidates(q) = [k \in 1 .. n - 1 |-> rs[IF k < i THEN k ELSE k + 1]]
        BY <4>1, <1>2, WithoutPresent
      <4> QED BY <4>2, <4>3, <1>1
    <3> QED BY <3>1, <3>2
  <2>2. AfterPop(q) = Tail(rs) BY <1>5 DEF AfterPop
  <2> DEFINE a == Tail(rs)
  <2>3. /\ a \in Seq(Threads) /\ DOMAIN a = 1 .. n - 1
        /\ \A k \in 1 .. n - 1 : a[k] = rs[k + 1]
    BY <1>1, <1>3
  <2> HIDE DEF a
  <2>4. IsInjective(a)
    <3> SUFFICES ASSUME NEW j \in 1 .. n - 1, NEW k \in 1 .. n - 1, a[j] = a[k]
                 PROVE  j = k
      BY <2>3 DEF IsInjective
    <3>1. j + 1 \in 1 .. n /\ k + 1 \in 1 .. n /\ rs[j + 1] = rs[k + 1] BY <2>3, <1>1
    <3>2. j + 1 = k + 1 BY <3>1, <1>1 DEF IsInjective
    <3> QED BY <3>2, <1>1
  <2>5. \A k \in 1 .. n - 1 : a[k] \in ToSet(rs) /\ a[k] # rs[1]
    BY <2>3, <1>1, <1>3 DEF IsInjective, ToSet
  <2>6. \A i \in 1 .. n : i # 1 => rs[i] \in ToSet(a)
    <3> SUFFICES ASSUME NEW i \in 1 .. n, i # 1 PROVE \E k \in 1 .. n - 1 : a[k] = rs[i]
      BY <2>3 DEF ToSet
    <3>1. i - 1 \in 1 .. n - 1 /\ (i - 1) + 1 = i BY <1>1
    <3>2. a[i - 1] = rs[i] BY <3>1, <2>3
    <3> QED BY <3>1, <3>2
  <2>7. ToSet(a) = ToSet(rs) \ {rs[1]}
    BY <2>3, <2>5, <2>6, <1>1 DEF ToSet
  <2>8. rs[1] \in ToSet(rs) /\ rs[1] \in Threads BY <1>1, <1>3 DEF ToSet
  <2> QED BY <2>1, <2>2, <2>3, <2>4, <2>7, <2>8 DEF a
<1> QED BY <1>4, <1>5

(***************************************************************************)
(* The inductive invariant.                                                *)
(***************************************************************************)

Slots == {"load", "commit"}
InHand == {"check", "ask", "stop", "drop"}
Coming == {"load", "commit", "touch"}
Cleaning == {"forget", "release"}

Count(labels) == Cardinality({d \in Callers : call[d].at \in labels})
Running == {s \in Sessions : phase[s] = "turn"}

\* A call that is on its way has a thread and a message; a scan or an unloading
\* that looks at a thread has that.
CallOK ==
    \A c \in Callers :
       /\ call[c].at \notin {"idle", "unload"} =>
             call[c].thread \in Threads /\ call[c].msg \in Messages
       /\ call[c].at \in InHand \cup {"unload"} => call[c].hand \in Threads
       /\ call[c].at = "idle" => call[c] = Idle

\* There is a number left for every call that may still load.
BoundOK == begun + Count(Loading) <= MaxSessions

\* A session that runs, has a turn or has mail was started, for a thread.
Used(s) == s \in alive \/ phase[s] = "turn" \/ mailbox[s] # {}
SessionsOK == \A s \in Sessions : Used(s) => s <= begun /\ owner[s] \in Threads

Base == /\ TypeOK /\ CallOK /\ BoundOK /\ SessionsOK
        /\ SlotsMatchHolders /\ GuardsMatchTurns

(***************************************************************************)
(* Moves of a call.                                                        *)
(***************************************************************************)

Others(c) == \A d \in Callers \ {c} : call'[d] = call[d]

LEMMA GotoMoves ==
    ASSUME call \in [Callers -> Calls], NEW c \in Callers, NEW a \in At, Goto(c, a)
    PROVE  /\ call' \in [Callers -> Calls] /\ Others(c)
           /\ call'[c].at = a
           /\ call'[c].thread = call[c].thread /\ call'[c].hand = call[c].hand
           /\ call'[c].msg = call[c].msg /\ call'[c].spawn = call[c].spawn
BY DEF Goto, Calls, Others

LEMMA ReturnMoves ==
    ASSUME call \in [Callers -> Calls], NEW c \in Callers, Return(c)
    PROVE  /\ call' \in [Callers -> Calls] /\ Others(c)
           /\ call'[c] = Idle /\ call'[c].at = "idle" /\ call'[c].msg = None
BY DEF Return, Calls, Others, Idle, At

LEMMA BeginMoves ==
    ASSUME call \in [Callers -> Calls], NEW c \in Callers, NEW a \in At,
           NEW t \in Threads, NEW m \in Messages, NEW b \in BOOLEAN,
           Begin(c, a, t, m, b)
    PROVE  /\ call' \in [Callers -> Calls] /\ Others(c)
           /\ call'[c].at = a /\ call'[c].thread = t /\ call'[c].msg = m
           /\ call'[c].spawn = b
           /\ UNCHANGED <<residents, pending, agents, work, sent, begun, strayed>>
BY DEF Begin, Calls, Others, Idle, At

\* How many calls are at one of some labels, after a move of one of them.
LEMMA CountMoves ==
    ASSUME NEW labels, NEW c \in Callers, Others(c)
    PROVE  /\ Count(labels) \in Nat /\ Count(labels)' \in Nat
           /\ (call[c].at \in labels <=> call'[c].at \in labels) =>
                  Count(labels)' = Count(labels)
           /\ call[c].at \in labels /\ call'[c].at \notin labels =>
                  Count(labels)' = Count(labels) - 1
           /\ call[c].at \notin labels /\ call'[c].at \in labels =>
                  Count(labels)' = Count(labels) + 1
           /\ call[c].at \in labels => Count(labels) >= 1
<1> DEFINE S == {d \in Callers : call[d].at \in labels}
           T == {d \in Callers : call'[d].at \in labels}
<1>1. S \subseteq Callers /\ T \subseteq Callers OBVIOUS
<1>2. IsFiniteSet(S) /\ IsFiniteSet(T) BY <1>1, ResidencyAssumption, FS_Subset
<1>3. Cardinality(S) \in Nat /\ Cardinality(T) \in Nat BY <1>2, FS_CardinalityType
<1>4. c \in S <=> call[c].at \in labels OBVIOUS
<1>5. c \in T <=> call'[c].at \in labels OBVIOUS
<1>6. T \ {c} = S \ {c} BY DEF Others
<1>7. Count(labels) = Cardinality(S) /\ Count(labels)' = Cardinality(T) BY DEF Count
<1> HIDE DEF S, T
<1>8. (c \in S <=> c \in T) => S = T BY <1>6
<1>9. c \in S /\ c \notin T => T = S \ {c} BY <1>6
<1>10. c \notin S /\ c \in T => T = S \cup {c} BY <1>6
<1>11. Cardinality(S \ {c}) = IF c \in S THEN Cardinality(S) - 1 ELSE Cardinality(S)
  BY <1>2, FS_RemoveElement
<1>12. Cardinality(S \cup {c}) = IF c \in S THEN Cardinality(S) ELSE Cardinality(S) + 1
  BY <1>2, FS_AddElement
<1>13. c \in S => Cardinality(S) # 0 BY <1>2, FS_EmptySet
<1>14. /\ (c \in S <=> c \in T) => Cardinality(T) = Cardinality(S)
       /\ c \in S /\ c \notin T => Cardinality(T) = Cardinality(S) - 1
       /\ c \notin S /\ c \in T => Cardinality(T) = Cardinality(S) + 1
       /\ c \in S => Cardinality(S) >= 1
  <2>1. (c \in S <=> c \in T) => Cardinality(T) = Cardinality(S) BY <1>8
  <2>2. c \in S /\ c \notin T => Cardinality(T) = Cardinality(S) - 1 BY <1>9, <1>11
  <2>3. c \notin S /\ c \in T => Cardinality(T) = Cardinality(S) + 1 BY <1>10, <1>12
  <2>4. c \in S => Cardinality(S) >= 1 BY <1>3, <1>13
  <2> QED BY <2>1, <2>2, <2>3, <2>4
<1> QED BY <1>3, <1>4, <1>5, <1>7, <1>14

\* A call keeps what it needs on its way.
CallFits(c) ==
    /\ call[c].at \notin {"idle", "unload"} =>
          call[c].thread \in Threads /\ call[c].msg \in Messages
    /\ call[c].at \in InHand \cup {"unload"} => call[c].hand \in Threads
    /\ call[c].at = "idle" => call[c] = Idle

Moves(c) == /\ call' \in [Callers -> Calls] /\ Others(c) /\ CallFits(c)'

LEMMA ReturnFits ==
    ASSUME Base, NEW c \in Callers, Return(c)
    PROVE  Moves(c)
<1>1. call \in [Callers -> Calls] BY DEF Base, TypeOK
<1> QED BY <1>1, ReturnMoves DEF Moves, CallFits, InHand

\* The next label of a call that has thread and message, and a hand if it
\* needs one.
LEMMA GotoFits ==
    ASSUME Base, NEW c \in Callers, NEW a \in At \ {"idle", "unload"}, Goto(c, a),
           call[c].at \notin {"idle", "unload"},
           a \in InHand => call[c].at \in InHand
    PROVE  Moves(c)
<1>1. call \in [Callers -> Calls] BY DEF Base, TypeOK
<1>2. CallFits(c) BY DEF Base, CallOK, CallFits
<1>3. a \in At BY DEF At
<1> QED BY <1>1, <1>2, <1>3, GotoMoves DEF Moves, CallFits, InHand

LEMMA BeginFits ==
    ASSUME Base, NEW c \in Callers, NEW a \in At \ (InHand \cup {"idle", "unload"}),
           NEW t \in Threads, NEW m \in Messages, NEW b \in BOOLEAN, Begin(c, a, t, m, b)
    PROVE  Moves(c)
<1>1. call \in [Callers -> Calls] BY DEF Base, TypeOK
<1> QED BY <1>1, BeginMoves DEF Moves, CallFits, InHand

LEMMA ScanMoves ==
    ASSUME Base, NEW c \in Callers, Scan(c)
    PROVE  Moves(c)
<1>1. call \in [Callers -> Calls] /\ residents \in Seq(Threads) /\ IsInjective(residents)
  BY DEF Base, TypeOK, SlotsMatchHolders
<1>2. CallFits(c) BY DEF Base, CallOK, CallFits
<1>3. CASE call[c].left = 0 \/ Candidates(Protected(c)) = <<>>
  BY <1>3, ReturnFits DEF Scan
<1>4. CASE ~(call[c].left = 0 \/ Candidates(Protected(c)) = <<>>)
  <2>1. Candidates(Protected(c))[1] \in Threads BY <1>1, <1>4, PoppedList
  <2> DEFINE t == Candidates(Protected(c))[1]
  <2>2. call' = [call EXCEPT ![c].at = "check", ![c].left = @ - 1, ![c].hand = t]
    BY <1>4 DEF Scan
  <2>3. call[c].left \in Nat /\ call[c].left # 0 BY <1>1, <1>4 DEF Calls
  <2>4. call[c].left - 1 \in Nat /\ t \in Threads BY <2>1, <2>3
  <2> HIDE DEF t
  <2>5. call[c].at = "scan" BY DEF Scan
  <2> DEFINE r == [call[c] EXCEPT !.at = "check", !.left = @ - 1, !.hand = t]
  <2>7. call[c] \in Calls BY <1>1
  <2>8. /\ r \in Calls /\ r.at = "check" /\ r.hand = t
        /\ r.thread = call[c].thread /\ r.msg = call[c].msg
    BY <2>4, <2>7 DEF Calls, At
  <2>9. call' = [call EXCEPT ![c] = r] BY <1>1, <2>2, <2>7 DEF Calls
  <2> HIDE DEF r
  <2>6. /\ call' \in [Callers -> Calls] /\ Others(c) /\ call'[c] = r
    BY <1>1, <2>8, <2>9 DEF Others
  <2> QED BY <2>4, <2>5, <2>6, <2>8, <1>2 DEF Moves, CallFits, InHand
<1> QED BY <1>3, <1>4

LEMMA CheckMoves ==
    ASSUME Base, NEW c \in Callers, Check(c)
    PROVE  Moves(c)
<1>1. call \in [Callers -> Calls] /\ loaded \in [Threads -> {0} \cup Sessions]
  BY DEF Base, TypeOK
<1>2. CallFits(c) BY DEF Base, CallOK, CallFits
<1>3. call[c].at = "check" BY DEF Check
<1> DEFINE s == loaded[call[c].hand]
<1>4. CASE Goto(c, "scan") BY <1>3, <1>4, GotoFits DEF InHand, At
<1>5. CASE call' = [call EXCEPT ![c].at = "ask", ![c].session = s]
  <2>1. call[c].hand \in Threads BY <1>2, <1>3 DEF CallFits, InHand
  <2>2. s \in Nat BY <2>1, <1>1 DEF Sessions
  <2> HIDE DEF s
  <2>3. /\ call' \in [Callers -> Calls] /\ Others(c) /\ call'[c].at = "ask"
        /\ call'[c].hand = call[c].hand
        /\ call'[c].thread = call[c].thread /\ call'[c].msg = call[c].msg
    BY <1>1, <1>5, <2>2 DEF Calls, Others, At
  <2> QED BY <1>2, <1>3, <2>1, <2>3 DEF Moves, CallFits, InHand
<1> QED BY <1>4, <1>5 DEF Check

\* Every step of a caller moves its own call, to a place it fits in.
LEMMA CallerMoves ==
    ASSUME Base, NEW c \in Callers, NewCall(c) \/ CallerStep(c)
    PROVE  Moves(c)
<1>1. call \in [Callers -> Calls] BY DEF Base, TypeOK
<1>2. ASSUME NewCall(c) PROVE Moves(c)
  <2>1. ASSUME NEW t \in Threads, NEW m \in Messages, Spawn(c, t, m) PROVE Moves(c)
    BY <2>1, BeginFits DEF Spawn, At, InHand
  <2>2. ASSUME NEW t \in Threads, NEW m \in Messages, Message(c, t, m) PROVE Moves(c)
    BY <2>2, BeginFits DEF Message, At, InHand
  <2>3. ASSUME NEW t \in Threads, Unload(c, t) PROVE Moves(c)
    <3>1. loaded[t] \in Nat BY DEF Base, TypeOK, Sessions
    <3>2. call' = [call EXCEPT ![c] = [Idle EXCEPT !.at = "unload",
                                       !.hand = t, !.session = loaded[t]]]
      BY <2>3 DEF Unload
    <3>3. [Idle EXCEPT !.at = "unload", !.hand = t, !.session = loaded[t]] \in Calls
      BY <3>1 DEF Idle, Calls, At
    <3>4. call' \in [Callers -> Calls] /\ Others(c) /\ call'[c].at = "unload"
          /\ call'[c].hand = t
      BY <1>1, <3>2, <3>3 DEF Others, Idle
    <3> QED BY <3>4 DEF Moves, CallFits, InHand
  <2> QED BY <1>2, <2>1, <2>2, <2>3 DEF NewCall
<1>3. CASE Reserve(c)
  <2>1. CASE HasRoom BY <1>3, <2>1, GotoFits DEF Reserve, At, InHand
  <2>2. CASE ~HasRoom
    <3>1. call' = [call EXCEPT ![c].at = "scan", ![c].left = Len(residents)]
      BY <1>3, <2>2 DEF Reserve
    <3>2. Len(residents) \in Nat BY DEF Base, TypeOK
    <3>3. /\ call' \in [Callers -> Calls] /\ Others(c) /\ call'[c].at = "scan"
          /\ call'[c].thread = call[c].thread /\ call'[c].msg = call[c].msg
      BY <1>1, <3>1, <3>2 DEF Calls, Others, At
    <3>4. call[c].at = "reserve" /\ CallFits(c)
      BY <1>3 DEF Reserve, Base, CallOK, CallFits
    <3> QED BY <3>3, <3>4 DEF Moves, CallFits, InHand
  <2> QED BY <2>1, <2>2
<1>4. CASE Scan(c) BY <1>4, ScanMoves
<1>5. CASE Check(c) BY <1>5, CheckMoves
<1>6. CASE Ask(c) BY <1>6, GotoFits DEF Ask, At, InHand
<1>7. CASE Stop(c) BY <1>7, GotoFits DEF Stop, At, InHand
<1>8. CASE Drop(c) BY <1>8, GotoFits DEF Drop, At, InHand
<1>9. CASE Touch(c) BY <1>9, GotoFits DEF Touch, At, InHand
<1>10. CASE Load(c) BY <1>10, GotoFits DEF Load, At, InHand
<1>11. CASE LoadFails(c) BY <1>11, GotoFits, ReturnFits DEF LoadFails, At, InHand
<1>12. CASE Commit(c) BY <1>12, GotoFits DEF Commit, At, InHand
<1>13. CASE Send(c) BY <1>13, GotoFits, ReturnFits DEF Send, At, InHand
<1>14. CASE Submit(c) BY <1>14, GotoFits, ReturnFits DEF Submit, At, InHand
<1>15. CASE RemoveDead(c) BY <1>15, GotoFits DEF RemoveDead, At, InHand
<1>16. CASE Forget(c) BY <1>16, GotoFits DEF Forget, At, InHand
<1>17. CASE Release(c) BY <1>17, ReturnFits DEF Release
<1>18. CASE UnloadDone(c) BY <1>18, ReturnFits DEF UnloadDone
<1> QED
  BY <1>2, <1>3, <1>4, <1>5, <1>6, <1>7, <1>8, <1>9, <1>10, <1>11, <1>12, <1>13,
     <1>14, <1>15, <1>16, <1>17, <1>18
  DEF CallerStep

\* So does its abortion.
LEMMA AbortMoves == ASSUME Base, NEW c \in Callers, Abort(c) PROVE Moves(c)
BY ReturnFits DEF Abort

(***************************************************************************)
(* Types, slots, bounds and guards.                                        *)
(***************************************************************************)

\* TypeOK without the calls.
Rest ==
    /\ residents \in Seq(Threads) /\ pending \in Nat /\ active \in Nat
    /\ loaded \in [Threads -> {0} \cup Sessions] /\ known \subseteq Threads
    /\ owner \in [Sessions -> Threads \cup {None}]
    /\ alive \subseteq Sessions
    /\ channel \in [Sessions -> Seq(Messages \cup {Shutdown})]
    /\ mailbox \in [Sessions -> SUBSET Messages]
    /\ phase \in [Sessions -> {"fresh", "turn", "done", "closed"}]
    /\ halted \subseteq Threads
    /\ seen \subseteq Messages /\ sent \subseteq Messages
    /\ begun \in 0 .. MaxSessions
    /\ strayed \subseteq Threads

LEMMA RestIsType == TypeOK <=> Rest /\ call \in [Callers -> Calls]
BY DEF TypeOK, Rest

\* What is left to show of a step that starts no session.
LEMMA CallerFrame ==
    ASSUME Base, NEW c \in Callers, Moves(c),
           UNCHANGED <<alive, phase, mailbox, active, owner, begun>>,
           Rest', SlotsMatchHolders', BoundOK'
    PROVE  Base'
<1>1. TypeOK' BY RestIsType DEF Moves, TypeOK, Rest
<1>2. CallOK'
  <2> SUFFICES ASSUME NEW d \in Callers PROVE CallFits(d)' BY DEF CallOK, CallFits
  <2>1. CASE d = c BY <2>1 DEF Moves
  <2>2. CASE d # c
    <3>1. call'[d] = call[d] BY <2>2 DEF Moves, Others
    <3>2. CallFits(d) BY DEF Base, CallOK, CallFits
    <3> QED BY <3>1, <3>2 DEF CallFits
  <2> QED BY <2>1, <2>2
<1>3. SessionsOK' BY DEF Base, SessionsOK, Used
<1>4. GuardsMatchTurns' BY DEF Base, GuardsMatchTurns
<1> QED BY <1>1, <1>2, <1>3, <1>4 DEF Base

\* The slots, when pending_slots does not change.
LEMMA SlotsKept ==
    ASSUME Base, NEW c \in Callers, Others(c), pending' = pending,
           call[c].at \in Slots <=> call'[c].at \in Slots, IsInjective(residents')
    PROVE  SlotsMatchHolders'
<1>1. pending = Count(Slots) BY DEF Base, SlotsMatchHolders, Count, Slots
<1>2. Count(Slots)' = Count(Slots) BY CountMoves
<1>3. pending' = Count(Slots)' BY <1>1, <1>2
<1> QED BY <1>3 DEF SlotsMatchHolders, Count, Slots

LEMMA SlotTaken ==
    ASSUME Base, NEW c \in Callers, Others(c), pending' = pending + 1,
           call[c].at \notin Slots, call'[c].at \in Slots, IsInjective(residents')
    PROVE  SlotsMatchHolders'
<1>1. pending = Count(Slots) BY DEF Base, SlotsMatchHolders, Count, Slots
<1>2. Count(Slots)' = Count(Slots) + 1 BY CountMoves
<1>3. pending' = Count(Slots)' BY <1>1, <1>2
<1> QED BY <1>3 DEF SlotsMatchHolders, Count, Slots

LEMMA SlotReleased ==
    ASSUME Base, NEW c \in Callers, Others(c), pending' = pending - 1,
           call[c].at \in Slots, call'[c].at \notin Slots, IsInjective(residents')
    PROVE  SlotsMatchHolders' /\ pending' \in Nat
<1>1. pending = Count(Slots) BY DEF Base, SlotsMatchHolders, Count, Slots
<1>2. /\ Count(Slots)' = Count(Slots) - 1 /\ Count(Slots) \in Nat /\ Count(Slots)' \in Nat
  BY CountMoves
<1>3. pending' = Count(Slots)' BY <1>1, <1>2
<1> QED BY <1>2, <1>3 DEF SlotsMatchHolders, Count, Slots

\* The bound, when no call that may load begins.
LEMMA BoundKept ==
    ASSUME Base, NEW c \in Callers, Others(c), begun' = begun,
           call'[c].at \in Loading => call[c].at \in Loading
    PROVE  BoundOK'
<1>1. Count(Loading)' <= Count(Loading) /\ Count(Loading) \in Nat /\ Count(Loading)' \in Nat
  BY CountMoves
<1>2. begun \in Nat /\ MaxSessions \in Nat BY ResidencyAssumption DEF Base, TypeOK
<1> QED BY <1>1, <1>2 DEF Base, BoundOK

\* Steps that only move a call and change lists, maps or channels.
LEMMA PlainMove ==
    ASSUME Base, NEW c \in Callers, Moves(c),
           UNCHANGED <<alive, phase, mailbox, active, owner, begun, pending>>,
           Rest', IsInjective(residents'),
           call[c].at \in Slots <=> call'[c].at \in Slots,
           call'[c].at \in Loading => call[c].at \in Loading
    PROVE  Base'
<1>1. Others(c) BY DEF Moves
<1>2. SlotsMatchHolders' BY <1>1, SlotsKept
<1>3. BoundOK' BY <1>1, BoundKept
<1> QED BY <1>2, <1>3, CallerFrame

\* Where the steps of a caller start and end.
LEMMA Labels ==
    ASSUME call \in [Callers -> Calls], NEW c \in Callers
    PROVE  /\ \A a \in At : Goto(c, a) => call'[c].at = a
           /\ Return(c) => call'[c].at = "idle"
BY GotoMoves, ReturnMoves

LEMMA BaseFacts ==
    ASSUME Base
    PROVE  /\ Rest /\ call \in [Callers -> Calls] /\ IsInjective(residents)
           /\ \A c \in Callers : CallFits(c)
BY RestIsType DEF Base, SlotsMatchHolders, CallOK, CallFits

\* A channel that has one more submission.
LEMMA SubmittedType ==
    ASSUME Rest, NEW s \in Sessions, NEW x \in Messages \cup {Shutdown}
    PROVE  [channel EXCEPT ![s] = Append(@, x)] \in [Sessions -> Seq(Messages \cup {Shutdown})]
<1>1. channel \in [Sessions -> Seq(Messages \cup {Shutdown})] BY DEF Rest
<1>2. Append(channel[s], x) \in Seq(Messages \cup {Shutdown}) BY <1>1
<1> QED BY <1>1, <1>2

LEMMA ReserveBase == ASSUME Base, NEW c \in Callers, Reserve(c), Moves(c) PROVE Base'
<1>1. Rest /\ call \in [Callers -> Calls] /\ IsInjective(residents) BY BaseFacts
<1>2. call[c].at = "reserve" /\ residents' = residents BY DEF Reserve
<1>3. CASE HasRoom
  <2>1. pending' = pending + 1 /\ Goto(c, "load") BY <1>3 DEF Reserve
  <2>2. call'[c].at = "load" BY <2>1, <1>1, Labels DEF At
  <2>3. SlotsMatchHolders' BY <1>1, <1>2, <2>1, <2>2, SlotTaken DEF Moves, Slots
  <2>4. begun' = begun BY DEF Reserve
  <2>5. BoundOK' BY <1>2, <2>2, <2>4, BoundKept DEF Moves, Loading
  <2>6. Rest' BY <1>1, <2>1 DEF Reserve, Rest, agents, work
  <2> QED BY <2>3, <2>5, <2>6, CallerFrame DEF Reserve, agents, work
<1>4. CASE ~HasRoom
  <2>1. call' = [call EXCEPT ![c].at = "scan", ![c].left = Len(residents)]
    BY <1>4 DEF Reserve
  <2>2. call'[c].at = "scan" BY <1>1, <2>1 DEF Calls
  <2>3. UNCHANGED pending BY <1>4 DEF Reserve
  <2>4. Rest' BY <1>1, <2>3 DEF Reserve, Rest, agents, work
  <2> QED
    BY <1>1, <1>2, <2>2, <2>3, <2>4, PlainMove DEF Reserve, agents, work, Slots, Loading
<1> QED BY <1>3, <1>4

LEMMA ScanBase == ASSUME Base, NEW c \in Callers, Scan(c), Moves(c) PROVE Base'
<1>1. Rest /\ call \in [Callers -> Calls] /\ IsInjective(residents) BY BaseFacts
<1>2. call[c].at = "scan" BY DEF Scan
<1>3. UNCHANGED <<pending, loaded, owner, known, alive, channel, mailbox, phase, halted,
                  active, seen, sent, begun, strayed>>
  BY DEF Scan, agents, work
<1>4. CASE call[c].left = 0 \/ Candidates(Protected(c)) = <<>>
  <2>1. Return(c) /\ residents' = residents BY <1>4 DEF Scan
  <2>2. call'[c].at = "idle" BY <2>1, <1>1, Labels
  <2>3. Rest' BY <1>1, <1>3, <2>1 DEF Rest
  <2> QED BY <1>1, <1>2, <1>3, <2>1, <2>2, <2>3, PlainMove DEF Slots, Loading
<1>5. CASE ~(call[c].left = 0 \/ Candidates(Protected(c)) = <<>>)
  <2>1. residents' = AfterPop(Protected(c)) BY <1>5 DEF Scan
  <2>2. residents' \in Seq(Threads) /\ IsInjective(residents')
    BY <1>1, <1>5, <2>1, PoppedList DEF Rest
  <2>3. call'[c].at = "check"
    <3>1. call' = [call EXCEPT ![c].at = "check", ![c].left = @ - 1,
                               ![c].hand = Candidates(Protected(c))[1]]
      BY <1>5 DEF Scan
    <3> QED BY <3>1, <1>1 DEF Calls
  <2>4. Rest' BY <1>1, <1>3, <2>2 DEF Rest
  <2> QED BY <1>2, <1>3, <2>2, <2>3, <2>4, PlainMove DEF Slots, Loading
<1> QED BY <1>4, <1>5

LEMMA CheckBase == ASSUME Base, NEW c \in Callers, Check(c), Moves(c) PROVE Base'
<1>1. Rest /\ call \in [Callers -> Calls] /\ IsInjective(residents) /\ CallFits(c)
  BY BaseFacts
<1>2. call[c].at = "check" BY DEF Check
<1>3. UNCHANGED <<pending, loaded, owner, known, alive, channel, mailbox, phase, halted,
                  active, seen, sent, begun, strayed>>
  BY DEF Check, agents, work
<1>4. call[c].hand \in Threads BY <1>1, <1>2 DEF CallFits, InHand
<1>5. call'[c].at \in {"scan", "ask"}
  <2>1. Goto(c, "scan") \/ call' = [call EXCEPT ![c].at = "ask",
                                               ![c].session = loaded[call[c].hand]]
    BY DEF Check
  <2>2. CASE Goto(c, "scan") BY <2>2, <1>1, Labels DEF At
  <2>3. CASE call' = [call EXCEPT ![c].at = "ask", ![c].session = loaded[call[c].hand]]
    BY <2>3, <1>1 DEF Calls
  <2> QED BY <2>1, <2>2, <2>3
<1>6. residents' = residents \/ residents' = Touched(residents, call[c].hand)
  BY DEF Check
<1>7. residents' \in Seq(Threads) /\ IsInjective(residents')
  BY <1>1, <1>4, <1>6, TouchedList DEF Rest
<1>8. Rest' BY <1>1, <1>3, <1>7 DEF Rest
<1> QED BY <1>2, <1>3, <1>5, <1>7, <1>8, PlainMove DEF Slots, Loading

LEMMA AskBase == ASSUME Base, NEW c \in Callers, Ask(c), Moves(c) PROVE Base'
<1>1. Rest /\ call \in [Callers -> Calls] /\ IsInjective(residents) BY BaseFacts
<1>2. call[c].at = "ask" /\ call'[c].at = "stop" BY <1>1, Labels DEF Ask, At
<1>3. UNCHANGED <<residents, pending, loaded, owner, known, alive, mailbox, phase, halted,
                  active, seen, sent, begun, strayed>>
  BY DEF Ask, agents
<1>4. channel' \in [Sessions -> Seq(Messages \cup {Shutdown})]
  <2> DEFINE s == call[c].session
             asks == s \in alive /\ Shutdown \notin ToSet(channel[s])
  <2>1. CASE asks
    <3>1. s \in Sessions BY <2>1, <1>1 DEF Rest
    <3> QED BY <1>1, <2>1, <3>1, SubmittedType DEF Ask
  <2>2. CASE ~asks BY <2>2, <1>1 DEF Ask, Rest
  <2> QED BY <2>1, <2>2
<1>5. Rest' BY <1>1, <1>3, <1>4 DEF Rest
<1> QED BY <1>1, <1>2, <1>3, <1>5, PlainMove DEF Slots, Loading

\* Taking a thread out of the manager's map.
LEMMA UnloadedType ==
    ASSUME Rest, NEW t \in Threads
    PROVE  [loaded EXCEPT ![t] = 0] \in [Threads -> {0} \cup Sessions]
BY DEF Rest

LEMMA DropBase ==
    ASSUME Base, NEW c \in Callers, Stop(c) \/ Drop(c) \/ RemoveDead(c), Moves(c)
    PROVE  Base'
<1>1. Rest /\ call \in [Callers -> Calls] /\ IsInjective(residents) /\ CallFits(c)
  BY BaseFacts
<1>2. UNCHANGED <<residents, pending, owner, known, alive, channel, mailbox, phase, halted,
                  active, seen, sent, begun, strayed>>
  BY DEF Stop, Drop, RemoveDead, agents, work
<1>3. \/ call[c].at = "stop" /\ call'[c].at = "drop"
      \/ call[c].at = "drop" /\ call'[c].at = "reserve"
      \/ call[c].at = "remove" /\ call'[c].at = "forget"
  BY <1>1, Labels DEF Stop, Drop, RemoveDead, At
<1>4. loaded' \in [Threads -> {0} \cup Sessions]
  <2>1. CASE Stop(c) BY <2>1, <1>1 DEF Stop, Rest, agents
  <2>2. CASE Drop(c)
    <3>1. call[c].hand \in Threads BY <2>2, <1>1 DEF Drop, CallFits, InHand
    <3> QED BY <3>1, <2>2, <1>1, UnloadedType DEF Drop
  <2>3. CASE RemoveDead(c)
    <3>1. call[c].thread \in Threads BY <2>3, <1>1 DEF RemoveDead, CallFits, InHand
    <3> QED BY <3>1, <2>3, <1>1, UnloadedType DEF RemoveDead
  <2> QED BY <2>1, <2>2, <2>3
<1>5. Rest' BY <1>1, <1>2, <1>4 DEF Rest
<1> QED BY <1>1, <1>2, <1>3, <1>5, PlainMove DEF Slots, Loading

LEMMA TouchBase ==
    ASSUME Base, NEW c \in Callers, Touch(c) \/ Forget(c) \/ Release(c), Moves(c)
    PROVE  Base'
<1>1. Rest /\ call \in [Callers -> Calls] /\ IsInjective(residents) /\ CallFits(c)
  BY BaseFacts
<1>2. UNCHANGED <<pending, loaded, owner, alive, channel, mailbox, phase, halted,
                  active, seen, sent, begun, strayed>>
  BY DEF Touch, Forget, Release, agents, work
<1>3. \/ call[c].at = "touch" /\ call'[c].at = "send"
      \/ call[c].at = "forget" /\ call'[c].at = "release"
      \/ call[c].at = "release" /\ call'[c].at = "idle"
  BY <1>1, Labels DEF Touch, Forget, Release, At
<1>4. call[c].thread \in Threads BY <1>1, <1>3 DEF CallFits
<1>5. /\ residents' = residents \/ residents' = Touched(residents, call[c].thread)
         \/ residents' = Without(residents, call[c].thread)
      /\ known' \subseteq known
  BY DEF Touch, Forget, Release, agents
<1>6. residents' \in Seq(Threads) /\ IsInjective(residents')
  BY <1>1, <1>4, <1>5, TouchedList, WithoutList DEF Rest
<1>7. Rest' BY <1>1, <1>2, <1>5, <1>6 DEF Rest
<1> QED BY <1>2, <1>3, <1>6, <1>7, PlainMove DEF Slots, Loading

\* The number of the session that a load starts is one of the sessions, and
\* no session that runs has it.
LEMMA LoadNumber ==
    ASSUME Base, NEW c \in Callers, call[c].at = "load"
    PROVE  /\ begun + 1 \in Sessions /\ ~Used(begun + 1)
           /\ begun \in Nat /\ begun + 1 <= MaxSessions
<1>1. call[c].at \in Loading BY DEF Loading
<1>2. Count(Loading) \in Nat /\ Count(Loading) >= 1
  <2> DEFINE S == {d \in Callers : call[d].at \in Loading}
  <2>1. S \subseteq Callers /\ c \in S BY <1>1
  <2>2. IsFiniteSet(S) BY <2>1, ResidencyAssumption, FS_Subset
  <2>3. Cardinality(S) \in Nat /\ Cardinality(S) # 0
    <3> HIDE DEF S
    <3> QED BY <2>1, <2>2, FS_CardinalityType, FS_EmptySet
  <2>4. Count(Loading) = Cardinality(S) BY DEF Count
  <2> HIDE DEF S
  <2> QED BY <2>3, <2>4
<1>3. begun \in Nat /\ MaxSessions \in Nat /\ begun + Count(Loading) <= MaxSessions
  BY ResidencyAssumption DEF Base, TypeOK, BoundOK
<1>4. begun + 1 \in Sessions /\ begun + 1 <= MaxSessions BY <1>2, <1>3 DEF Sessions
<1>5. \A s \in Sessions : Used(s) => s <= begun BY DEF Base, SessionsOK
<1> QED BY <1>3, <1>4, <1>5

LEMMA LoadBase == ASSUME Base, NEW c \in Callers, Load(c), Moves(c) PROVE Base'
<1>1. Rest /\ call \in [Callers -> Calls] /\ IsInjective(residents) /\ CallFits(c)
  BY BaseFacts
<1> DEFINE s == begun + 1
           t == call[c].thread
<1>2. call[c].at = "load" /\ call'[c].at = "commit" BY <1>1, Labels DEF Load, At
<1>3. s \in Sessions /\ ~Used(s) /\ begun \in Nat /\ s <= MaxSessions
  BY <1>2, LoadNumber
<1>4. t \in Threads BY <1>1, <1>2 DEF CallFits
<1>5. /\ UNCHANGED <<residents, pending, known, channel, mailbox, halted, active, seen, sent,
                     strayed>>
      /\ loaded' = [loaded EXCEPT ![t] = s] /\ owner' = [owner EXCEPT ![s] = t]
      /\ alive' = alive \cup {s} /\ begun' = s
      /\ phase' = [phase EXCEPT ![s] = IF t \in halted THEN "done" ELSE "fresh"]
  BY DEF Load
<1> HIDE DEF s, t
<1>6. Rest'
  <2>1. loaded' \in [Threads -> {0} \cup Sessions] BY <1>1, <1>3, <1>4, <1>5 DEF Rest
  <2>2. owner' \in [Sessions -> Threads \cup {None}] BY <1>1, <1>3, <1>4, <1>5 DEF Rest
  <2>3. alive' \subseteq Sessions BY <1>1, <1>3, <1>5 DEF Rest
  <2>4. phase' \in [Sessions -> {"fresh", "turn", "done", "closed"}] BY <1>1, <1>3, <1>5 DEF Rest
  <2>5. begun' \in 0 .. MaxSessions BY <1>3, <1>5, ResidencyAssumption DEF s
  <2> QED BY <1>1, <1>5, <2>1, <2>2, <2>3, <2>4, <2>5 DEF Rest
<1>7. CallOK'
  <2> SUFFICES ASSUME NEW d \in Callers PROVE CallFits(d)' BY DEF CallOK, CallFits
  <2>1. CASE d = c BY <2>1 DEF Moves
  <2>2. CASE d # c
    <3>1. call'[d] = call[d] BY <2>2 DEF Moves, Others
    <3>2. CallFits(d) BY BaseFacts
    <3> QED BY <3>1, <3>2 DEF CallFits
  <2> QED BY <2>1, <2>2
<1>8. BoundOK'
  <2>1. call[c].at \in Loading /\ call'[c].at \notin Loading BY <1>2 DEF Loading
  <2>2. Count(Loading)' = Count(Loading) - 1 /\ Count(Loading) \in Nat
    BY <2>1, CountMoves DEF Moves
  <2>3. begun + Count(Loading) <= MaxSessions BY DEF Base, BoundOK
  <2>4. begun' + Count(Loading)' <= MaxSessions
    BY <1>3, <1>5, <2>2, <2>3, ResidencyAssumption DEF s
  <2> QED BY <2>4 DEF BoundOK
<1>9. SessionsOK'
  <2> SUFFICES ASSUME NEW x \in Sessions, Used(x)'
               PROVE  x <= begun' /\ owner'[x] \in Threads
    BY DEF SessionsOK
  <2>1. CASE x = s BY <2>1, <1>1, <1>3, <1>4, <1>5 DEF Rest, Sessions
  <2>2. CASE x # s
    <3>1. Used(x) BY <2>2, <1>1, <1>5 DEF Used, Rest
    <3>2. x <= begun /\ owner[x] \in Threads BY <3>1 DEF Base, SessionsOK
    <3>3. owner'[x] = owner[x] BY <2>2, <1>1, <1>5 DEF Rest
    <3> QED BY <3>2, <3>3, <1>3, <1>5 DEF s, Sessions
  <2> QED BY <2>1, <2>2
<1>10. SlotsMatchHolders' BY <1>1, <1>2, <1>5, SlotsKept DEF Moves, Slots
<1>11. GuardsMatchTurns'
  <2>1. \A x \in Sessions : x # s => phase'[x] = phase[x] BY <1>1, <1>3, <1>5 DEF Rest
  <2>2. phase'[s] # "turn" /\ phase[s] # "turn" BY <1>1, <1>3, <1>5 DEF Rest, Used
  <2>3. {x \in Sessions : phase'[x] = "turn"} = {x \in Sessions : phase[x] = "turn"}
    BY <2>1, <2>2
  <2> QED BY <1>5, <2>3 DEF Base, GuardsMatchTurns
<1>12. TypeOK' BY <1>6 DEF TypeOK, Rest, Moves
<1> QED BY <1>7, <1>8, <1>9, <1>10, <1>11, <1>12 DEF Base

LEMMA LoadFailsBase == ASSUME Base, NEW c \in Callers, LoadFails(c), Moves(c) PROVE Base'
<1>1. Rest /\ call \in [Callers -> Calls] /\ IsInjective(residents) BY BaseFacts
<1>2. call[c].at = "load" /\ call'[c].at \in {"touch", "idle"}
  BY <1>1, Labels DEF LoadFails, At
<1>3. UNCHANGED <<residents, loaded, owner, known, alive, channel, mailbox, phase, halted,
                  active, seen, sent, begun, strayed>> /\ pending' = pending - 1
  BY DEF LoadFails, agents, work
<1>4. SlotsMatchHolders' /\ pending' \in Nat
  BY <1>1, <1>2, <1>3, SlotReleased DEF Moves, Slots
<1>5. BoundOK' BY <1>2, <1>3, BoundKept DEF Moves, Loading
<1>6. Rest' BY <1>1, <1>3, <1>4 DEF Rest
<1> QED BY <1>3, <1>4, <1>5, <1>6, CallerFrame

LEMMA CommitBase == ASSUME Base, NEW c \in Callers, Commit(c), Moves(c) PROVE Base'
<1>1. Rest /\ call \in [Callers -> Calls] /\ IsInjective(residents) /\ CallFits(c)
  BY BaseFacts
<1>2. call[c].at = "commit" /\ call'[c].at \in {"submit", "send"}
  BY <1>1, Labels DEF Commit, At
<1>3. call[c].thread \in Threads BY <1>1, <1>2 DEF CallFits
<1>4. /\ UNCHANGED <<loaded, owner, alive, channel, mailbox, phase, halted,
                     active, seen, sent, begun, strayed>>
      /\ pending' = pending - 1 /\ residents' = Touched(residents, call[c].thread)
      /\ known' \subseteq known \cup {call[c].thread}
  BY DEF Commit, work
<1>5. residents' \in Seq(Threads) /\ IsInjective(residents')
  BY <1>1, <1>3, <1>4, TouchedList DEF Rest
<1>6. SlotsMatchHolders' /\ pending' \in Nat
  BY <1>2, <1>4, <1>5, SlotReleased DEF Moves, Slots
<1>7. BoundOK' BY <1>2, <1>4, BoundKept DEF Moves, Loading
<1>8. Rest' BY <1>1, <1>3, <1>4, <1>5, <1>6 DEF Rest
<1> QED BY <1>4, <1>6, <1>7, <1>8, CallerFrame

LEMMA SubmitBase ==
    ASSUME Base, NEW c \in Callers, Send(c) \/ Submit(c), Moves(c)
    PROVE  Base'
<1>1. Rest /\ call \in [Callers -> Calls] /\ IsInjective(residents) /\ CallFits(c)
  BY BaseFacts
<1>2. UNCHANGED <<residents, pending, loaded, owner, known, alive, mailbox, phase, halted,
                  active, seen, begun, strayed>>
  BY DEF Send, Submit, agents, work
<1>3. \/ call[c].at = "send" /\ call'[c].at \in {"submit", "idle"}
      \/ call[c].at = "submit" /\ call'[c].at \in {"remove", "idle"}
  BY <1>1, Labels DEF Send, Submit, At
<1>4. call[c].thread \in Threads /\ call[c].msg \in Messages BY <1>1, <1>3 DEF CallFits
<1>5. /\ channel' \in [Sessions -> Seq(Messages \cup {Shutdown})]
      /\ sent' \subseteq Messages
  <2>1. CASE UNCHANGED <<channel, sent>> BY <2>1, <1>1 DEF Rest
  <2>2. CASE /\ loaded[call[c].thread] \in alive
             /\ Submitted(loaded[call[c].thread], call[c].msg)
             /\ sent' = sent \cup {call[c].msg}
    <3>1. loaded[call[c].thread] \in Sessions BY <2>2, <1>1 DEF Rest
    <3> QED BY <1>1, <1>4, <2>2, <3>1, SubmittedType DEF Submitted, Rest
  <2> QED BY <2>1, <2>2 DEF Send, Submit, work
<1>6. Rest' BY <1>1, <1>2, <1>5 DEF Rest
<1> QED BY <1>1, <1>2, <1>3, <1>6, PlainMove DEF Slots, Loading

LEMMA UnloadDoneBase == ASSUME Base, NEW c \in Callers, UnloadDone(c), Moves(c) PROVE Base'
<1>1. Rest /\ call \in [Callers -> Calls] /\ IsInjective(residents) /\ CallFits(c)
  BY BaseFacts
<1>2. UNCHANGED <<residents, pending, owner, known, alive, channel, mailbox, phase, halted,
                  active, seen, sent, begun, strayed>>
  BY DEF UnloadDone, work
<1>3. call[c].at = "unload" /\ call'[c].at = "idle" BY <1>1, Labels DEF UnloadDone
<1>4. call[c].hand \in Threads BY <1>1, <1>3 DEF CallFits
<1>5. loaded' = loaded \/ loaded' = [loaded EXCEPT ![call[c].hand] = 0] BY DEF UnloadDone
<1>6. Rest' BY <1>1, <1>2, <1>4, <1>5, UnloadedType DEF Rest
<1> QED BY <1>1, <1>2, <1>3, <1>6, PlainMove DEF Slots, Loading

LEMMA AbortBase == ASSUME Base, NEW c \in Callers, Abort(c), Moves(c) PROVE Base'
<1>1. Rest /\ call \in [Callers -> Calls] /\ IsInjective(residents) BY BaseFacts
<1>2. UNCHANGED <<residents, loaded, owner, known, alive, channel, mailbox, phase, halted,
                  active, seen, sent, begun>>
  BY DEF Abort, agents, work
<1>3. call'[c].at = "idle" BY <1>1, Labels DEF Abort
<1>4. (strayed \subseteq Threads)' BY <1>1 DEF Abort, LetGo, Rest
<1>5. SlotsMatchHolders' /\ pending' \in Nat
  <2>1. CASE call[c].at \in Slots
    <3>1. pending' = pending - 1 BY <2>1 DEF Abort, Slots
    <3> QED BY <1>1, <1>2, <1>3, <2>1, <3>1, SlotReleased DEF Moves, Slots
  <2>2. CASE call[c].at \notin Slots
    <3>1. pending' = pending BY <2>2 DEF Abort, Slots
    <3>2. SlotsMatchHolders' BY <1>1, <1>2, <1>3, <2>2, <3>1, SlotsKept DEF Moves, Slots
    <3> QED BY <1>1, <3>1, <3>2 DEF Rest
  <2> QED BY <2>1, <2>2
<1>6. BoundOK' BY <1>2, <1>3, BoundKept DEF Moves, Loading
<1>7. Rest' BY <1>1, <1>2, <1>4, <1>5 DEF Rest
<1> QED BY <1>2, <1>5, <1>6, <1>7, CallerFrame

\* A call that may load begins only while there is a number left for it.
LEMMA ReserveBegins ==
    ASSUME Base, NEW c \in Callers, Moves(c), call[c].at = "idle", SessionLeft,
           call'[c].at = "reserve",
           UNCHANGED <<residents, pending, agents, work, sent, begun, strayed>>
    PROVE  Base'
<1>1. Rest /\ IsInjective(residents) BY BaseFacts
<1>2. Rest' BY <1>1 DEF Rest, agents, work
<1>3. SlotsMatchHolders' BY <1>1, SlotsKept DEF Moves, Slots
<1>4. BoundOK'
  <2>1. call[c].at \notin Loading /\ call'[c].at \in Loading BY DEF Loading
  <2>2. Count(Loading)' = Count(Loading) + 1 /\ Count(Loading) \in Nat
    BY <2>1, CountMoves DEF Moves
  <2>3. begun + Count(Loading) < MaxSessions BY DEF SessionLeft, Count
  <2>4. begun \in Nat /\ MaxSessions \in Nat BY ResidencyAssumption DEF Base, TypeOK
  <2>5. begun' + Count(Loading)' <= MaxSessions BY <2>2, <2>3, <2>4
  <2> QED BY <2>5 DEF BoundOK
<1> QED BY <1>2, <1>3, <1>4, CallerFrame DEF agents, work

LEMMA NewCallBase == ASSUME Base, NEW c \in Callers, NewCall(c), Moves(c) PROVE Base'
<1>1. Rest /\ call \in [Callers -> Calls] /\ IsInjective(residents) BY BaseFacts
<1>2. ASSUME NEW t \in Threads, NEW m \in Messages, Spawn(c, t, m) PROVE Base'
  <2>1. Begin(c, "reserve", t, m, TRUE) /\ call[c] = Idle /\ SessionLeft
    BY <1>2 DEF Spawn
  <2>2. call'[c].at = "reserve" BY <1>1, <2>1, BeginMoves DEF At
  <2>3. call[c].at = "idle" BY <2>1 DEF Idle
  <2> QED BY <2>1, <2>2, <2>3, ReserveBegins DEF Begin
<1>3. ASSUME NEW t \in Threads, NEW m \in Messages, Message(c, t, m) PROVE Base'
  <2>1. call[c].at = "idle" BY <1>3 DEF Message, Idle
  <2>2. CASE Begin(c, "touch", t, m, FALSE)
    <3>1. call'[c].at = "touch" BY <1>1, <2>2, BeginMoves DEF At
    <3>2. Rest' BY <1>1, <2>2 DEF Begin, Rest, agents, work
    <3> QED BY <1>1, <2>1, <2>2, <3>1, <3>2, PlainMove
            DEF Begin, agents, work, Slots, Loading
  <2>3. CASE SessionLeft /\ Begin(c, "reserve", t, m, FALSE)
    <3>1. call'[c].at = "reserve" BY <1>1, <2>3, BeginMoves DEF At
    <3> QED BY <2>1, <2>3, <3>1, ReserveBegins DEF Begin
  <2> QED BY <1>3, <2>2, <2>3 DEF Message
<1>4. ASSUME NEW t \in Threads, Unload(c, t) PROVE Base'
  <2>1. call[c].at = "idle" BY <1>4 DEF Unload, Idle
  <2>2. call'[c].at = "unload" BY <1>1, <1>4 DEF Unload, Idle
  <2>3. UNCHANGED <<residents, pending, loaded, owner, known, alive, mailbox, phase, halted,
                    active, seen, sent, begun, strayed>>
    BY <1>4 DEF Unload, agents
  <2>4. loaded[t] \in Sessions BY <1>1, <1>4 DEF Unload, Rest
  <2>5. channel' \in [Sessions -> Seq(Messages \cup {Shutdown})]
    BY <1>1, <1>4, <2>4, SubmittedType DEF Unload, Submitted
  <2>6. Rest' BY <1>1, <2>3, <2>5 DEF Rest
  <2> QED BY <1>1, <2>1, <2>2, <2>3, <2>6, PlainMove DEF Slots, Loading
<1> QED BY <1>2, <1>3, <1>4 DEF NewCall

LEMMA CallerBase ==
    ASSUME Base, NEW c \in Callers, NewCall(c) \/ CallerStep(c)
    PROVE  Base'
<1>1. Moves(c) BY CallerMoves
<1> QED
  BY <1>1, ReserveBase, ScanBase, CheckBase, AskBase, DropBase, TouchBase, LoadBase,
     LoadFailsBase, CommitBase, SubmitBase, UnloadDoneBase, NewCallBase
  DEF CallerStep

\* A turn that starts or ends takes or gives one guard.
LEMMA GuardTaken ==
    ASSUME Base, NEW s \in Sessions, phase[s] # "turn",
           phase' = [phase EXCEPT ![s] = "turn"], active' = active + 1
    PROVE  GuardsMatchTurns'
<1>1. phase \in [Sessions -> {"fresh", "turn", "done", "closed"}]
      /\ Sessions = 1 .. MaxSessions /\ MaxSessions \in Nat
  BY ResidencyAssumption DEF Base, TypeOK, Sessions
<1>2. Running' = Running \cup {s} /\ s \notin Running BY <1>1 DEF Running
<1>3. IsFiniteSet(Running)
  <2>1. IsFiniteSet(Sessions) BY <1>1, FS_Interval
  <2> QED BY <2>1, FS_Subset DEF Running
<1>4. Cardinality(Running \cup {s}) = Cardinality(Running) + 1
  BY <1>2, <1>3, FS_AddElement
<1> QED BY <1>2, <1>4 DEF Base, GuardsMatchTurns, Running

LEMMA GuardGiven ==
    ASSUME Base, NEW s \in Sessions, phase[s] = "turn", NEW p \in {"done", "closed"},
           phase' = [phase EXCEPT ![s] = p], active' = active - 1
    PROVE  GuardsMatchTurns' /\ active' \in Nat
<1>1. phase \in [Sessions -> {"fresh", "turn", "done", "closed"}]
      /\ Sessions = 1 .. MaxSessions /\ MaxSessions \in Nat
  BY ResidencyAssumption DEF Base, TypeOK, Sessions
<1>2. Running' = Running \ {s} /\ s \in Running BY <1>1 DEF Running
<1>3. IsFiniteSet(Running)
  <2>1. IsFiniteSet(Sessions) BY <1>1, FS_Interval
  <2> QED BY <2>1, FS_Subset DEF Running
<1>4. Cardinality(Running \ {s}) = Cardinality(Running) - 1 /\ IsFiniteSet(Running \ {s})
  BY <1>2, <1>3, FS_RemoveElement
<1>5. Cardinality(Running \ {s}) \in Nat BY <1>4, FS_CardinalityType
<1> QED BY <1>2, <1>4, <1>5 DEF Base, GuardsMatchTurns, Running

\* What is left to show of a step of a session.
LEMMA SessionFrame ==
    ASSUME Base, UNCHANGED <<residents, pending, loaded, owner, known, sent, call, begun,
                             strayed>>,
           alive' \subseteq alive, \A x \in Sessions : Used(x)' => Used(x),
           (channel \in [Sessions -> Seq(Messages \cup {Shutdown})])',
           (mailbox \in [Sessions -> SUBSET Messages])',
           (phase \in [Sessions -> {"fresh", "turn", "done", "closed"}])',
           (halted \subseteq Threads)', (seen \subseteq Messages)', active' \in Nat,
           GuardsMatchTurns'
    PROVE  Base'
<1>1. TypeOK' BY DEF Base, TypeOK
<1>2. CallOK' BY DEF Base, CallOK
<1>3. BoundOK' BY DEF Base, BoundOK, Count
<1>4. SessionsOK' BY DEF Base, SessionsOK
<1>5. SlotsMatchHolders' BY DEF Base, SlotsMatchHolders
<1> QED BY <1>1, <1>2, <1>3, <1>4, <1>5 DEF Base

LEMMA StartTurnBase ==
    ASSUME Base, NEW s \in Sessions, Used(s), NEW box \in SUBSET Messages,
           StartTurn(s, box), phase[s] # "turn", alive' = alive, halted' = halted,
           (channel \in [Sessions -> Seq(Messages \cup {Shutdown})])',
           UNCHANGED <<residents, pending, loaded, owner, known, sent, call, begun, strayed>>
    PROVE  Base'
<1>1. Rest BY BaseFacts
<1>2. GuardsMatchTurns' BY GuardTaken DEF StartTurn
<1>3. (mailbox \in [Sessions -> SUBSET Messages])' BY <1>1 DEF StartTurn, Rest
<1>4. (phase \in [Sessions -> {"fresh", "turn", "done", "closed"}])'
  BY <1>1 DEF StartTurn, Rest
<1>5. (seen \subseteq Messages)' /\ active' \in Nat BY <1>1 DEF StartTurn, Rest
<1>6. (halted \subseteq Threads)' BY <1>1 DEF Rest
<1>7. \A x \in Sessions : Used(x)' => Used(x) BY <1>1 DEF StartTurn, Used, Rest
<1> QED BY <1>2, <1>3, <1>4, <1>5, <1>6, <1>7, SessionFrame

LEMMA RecordedType ==
    ASSUME Base, NEW s \in Sessions, Used(s), NEW i \in BOOLEAN, Recorded(owner[s], i)
    PROVE  (halted \subseteq Threads)'
<1>1. owner[s] \in Threads BY DEF Base, SessionsOK
<1>2. halted \subseteq Threads BY BaseFacts DEF Rest
<1> QED BY <1>1, <1>2 DEF Recorded

LEMMA TerminateBase == ASSUME Base, NEW s \in Sessions, Terminate(s) PROVE Base'
<1>1. Rest BY BaseFacts
<1> DEFINE woken == phase[s] = "turn" /\ mailbox[s] \cap Tasks # {}
<1>2. UNCHANGED <<residents, pending, loaded, owner, known, sent, call, begun, strayed,
                  channel>>
  BY DEF Terminate, agents
<1>3. s \in alive /\ alive' = alive \ {s} BY DEF Terminate
<1>4. Used(s) BY <1>3 DEF Used
<1>5. (channel \in [Sessions -> Seq(Messages \cup {Shutdown})])' BY <1>1, <1>2 DEF Rest
<1>6. CASE woken
  <2>1. /\ seen' = seen \cup mailbox[s] /\ mailbox' = [mailbox EXCEPT ![s] = {}]
        /\ UNCHANGED <<phase, active>>
        /\ \E i \in BOOLEAN : Recorded(owner[s], i)
    BY <1>6 DEF Terminate
  <2>2. (halted \subseteq Threads)' BY <1>4, <2>1, RecordedType
  <2>3. (mailbox \in [Sessions -> SUBSET Messages])' /\ (seen \subseteq Messages)'
    BY <1>1, <2>1 DEF Rest
  <2>4. \A x \in Sessions : Used(x)' => Used(x) BY <1>1, <1>3, <2>1 DEF Used, Rest
  <2>5. GuardsMatchTurns' BY <2>1 DEF Base, GuardsMatchTurns
  <2> QED BY <1>1, <1>2, <1>3, <1>5, <2>1, <2>2, <2>3, <2>4, <2>5, SessionFrame DEF Rest
<1>7. CASE ~woken
  <2>1. phase' = [phase EXCEPT ![s] = "closed"] /\ UNCHANGED <<mailbox, seen>>
    BY <1>7 DEF Terminate
  <2>2. (phase \in [Sessions -> {"fresh", "turn", "done", "closed"}])'
    BY <1>1, <2>1 DEF Rest
  <2>3. \A x \in Sessions : Used(x)' => Used(x) BY <1>1, <1>3, <2>1 DEF Used, Rest
  <2>4. (halted \subseteq Threads)' /\ GuardsMatchTurns' /\ active' \in Nat
    <3>1. CASE phase[s] = "turn"
      <4>1. active' = active - 1 /\ Recorded(owner[s], TRUE) BY <1>7, <3>1 DEF Terminate
      <4>2. (halted \subseteq Threads)' BY <1>4, <4>1, RecordedType
      <4> QED BY <2>1, <3>1, <4>1, <4>2, GuardGiven
    <3>2. CASE phase[s] # "turn"
      <4>1. active' = active /\ halted' = halted BY <3>2 DEF Terminate
      <4>2. {x \in Sessions : phase'[x] = "turn"} = {x \in Sessions : phase[x] = "turn"}
        BY <1>1, <2>1, <3>2 DEF Rest
      <4> QED BY <1>1, <4>1, <4>2 DEF Base, GuardsMatchTurns, Rest
    <3> QED BY <3>1, <3>2
  <2> QED BY <1>1, <1>2, <1>3, <1>5, <2>1, <2>2, <2>3, <2>4, SessionFrame DEF Rest
<1> QED BY <1>6, <1>7

LEMMA EndTurnBase ==
    ASSUME Base, NEW s \in Sessions, NEW i \in BOOLEAN, EndTurn(s, i)
    PROVE  Base'
<1>1. Rest BY BaseFacts
<1>2. UNCHANGED <<residents, pending, loaded, owner, known, sent, call, begun, strayed,
                  alive, channel, mailbox, seen>>
  BY DEF EndTurn, agents
<1>3. phase[s] = "turn" /\ active' = active - 1 BY DEF EndTurn
<1>4. PICK p \in {"done", "closed"} : phase' = [phase EXCEPT ![s] = p] BY DEF EndTurn
<1>5. (phase \in [Sessions -> {"fresh", "turn", "done", "closed"}])' BY <1>1, <1>4 DEF Rest
<1>6. (halted \subseteq Threads)'
  <2>1. Used(s) BY <1>3 DEF Used
  <2>2. CASE Recorded(owner[s], i) BY <2>1, <2>2, RecordedType
  <2>3. CASE UNCHANGED halted BY <1>1, <2>3 DEF Rest
  <2> QED BY <2>2, <2>3 DEF EndTurn
<1>7. GuardsMatchTurns' /\ active' \in Nat BY <1>3, <1>4, GuardGiven
<1>8. \A x \in Sessions : Used(x)' => Used(x) BY <1>1, <1>2, <1>3, <1>4 DEF Used, Rest
<1> QED BY <1>1, <1>2, <1>5, <1>6, <1>7, <1>8, SessionFrame DEF Rest

LEMMA SessionBase == ASSUME Base, NEW s \in Sessions, SessionStep(s) PROVE Base'
<1>1. Rest BY BaseFacts
<1>2. CASE Deliver(s)
  <2> DEFINE m == Head(channel[s])
             box == mailbox[s] \cup {m}
  <2>1. s \in alive /\ channel[s] # <<>> /\ m # Shutdown BY <1>2 DEF Deliver
  <2>2. channel[s] \in Seq(Messages \cup {Shutdown}) BY <1>1 DEF Rest
  <2>3. m \in Messages /\ Tail(channel[s]) \in Seq(Messages \cup {Shutdown})
    BY <2>1, <2>2
  <2>4. (channel \in [Sessions -> Seq(Messages \cup {Shutdown})])'
    BY <1>1, <1>2, <2>3 DEF Deliver, Rest
  <2>5. UNCHANGED <<residents, pending, loaded, owner, known, sent, call, begun, strayed,
                    alive, halted>>
    BY <1>2 DEF Deliver, agents
  <2>6. box \in SUBSET Messages BY <1>1, <2>3 DEF Rest
  <2>7. CASE m \in Tasks /\ phase[s] # "turn"
    <3>1. StartTurn(s, box) BY <1>2, <2>7 DEF Deliver
    <3>2. Used(s) BY <2>1 DEF Used
    <3> HIDE DEF box, m
    <3> QED BY <2>4, <2>5, <2>6, <2>7, <3>1, <3>2, StartTurnBase
  <2>8. CASE ~(m \in Tasks /\ phase[s] # "turn")
    <3>1. mailbox' = [mailbox EXCEPT ![s] = box] /\ UNCHANGED <<phase, active, seen>>
      BY <1>2, <2>8 DEF Deliver
    <3>2. (mailbox \in [Sessions -> SUBSET Messages])' BY <1>1, <2>6, <3>1 DEF Rest
    <3>3. GuardsMatchTurns' BY <3>1 DEF Base, GuardsMatchTurns
    <3>4. \A x \in Sessions : Used(x)' => Used(x)
      BY <1>1, <2>1, <2>5, <3>1 DEF Used, Rest
    <3> QED BY <1>1, <2>4, <2>5, <3>1, <3>2, <3>3, <3>4, SessionFrame DEF Rest
  <2> QED BY <2>7, <2>8
<1>3. CASE Drain(s)
  <2>1. UNCHANGED <<residents, pending, loaded, owner, known, sent, call, begun, strayed,
                    alive, channel, phase, halted, active>>
    BY <1>3 DEF Drain, agents
  <2>2. (mailbox \in [Sessions -> SUBSET Messages])' BY <1>1, <1>3 DEF Drain, Rest
  <2>3. (seen \subseteq Messages)' BY <1>1, <1>3 DEF Drain, Rest
  <2>4. GuardsMatchTurns' BY <2>1 DEF Base, GuardsMatchTurns
  <2>5. \A x \in Sessions : Used(x)' => Used(x) BY <1>1, <1>3, <2>1 DEF Drain, Used, Rest
  <2> QED BY <1>1, <2>1, <2>2, <2>3, <2>4, <2>5, SessionFrame DEF Rest
<1>4. CASE Wake(s)
  <2>1. /\ UNCHANGED <<residents, pending, loaded, owner, known, sent, call, begun, strayed,
                       alive, channel, halted>>
        /\ StartTurn(s, mailbox[s]) /\ mailbox[s] # {} /\ phase[s] # "turn"
    BY <1>4 DEF Wake, agents
  <2>2. mailbox[s] \in SUBSET Messages BY <1>1 DEF Rest
  <2>3. (channel \in [Sessions -> Seq(Messages \cup {Shutdown})])' BY <1>1, <2>1 DEF Rest
  <2>4. Used(s) BY <2>1 DEF Used
  <2> QED BY <2>1, <2>2, <2>3, <2>4, StartTurnBase
<1> QED BY <1>2, <1>3, <1>4, TerminateBase, EndTurnBase DEF SessionStep

LEMMA InitBase == Init => Base
<1> SUFFICES ASSUME Init PROVE Base OBVIOUS
<1>1. MaxSessions \in Nat /\ 0 \in 0 .. MaxSessions BY ResidencyAssumption
<1>2. \A c \in Callers : call[c] = Idle /\ call[c].at = "idle" BY DEF Init, Idle
<1>3. Idle \in Calls BY DEF Idle, Calls, At
<1>4. call \in [Callers -> Calls] BY <1>3 DEF Init
<1>5. Rest BY <1>1 DEF Init, Rest
<1>6. TypeOK BY <1>4, <1>5, RestIsType
<1>7. CallOK BY <1>2 DEF CallOK, InHand
<1>8. BoundOK
  <2>1. {d \in Callers : call[d].at \in Loading} = {} BY <1>2 DEF Loading
  <2>2. Count(Loading) = 0 BY <2>1, FS_EmptySet DEF Count
  <2> QED BY <2>2, <1>1 DEF BoundOK, Init
<1>9. SessionsOK BY DEF Init, SessionsOK, Used
<1>10. SlotsMatchHolders
  <2>1. {d \in Callers : call[d].at \in {"load", "commit"}} = {} BY <1>2
  <2>2. IsInjective(residents) BY DEF Init, IsInjective
  <2>3. pending = 0 BY DEF Init
  <2> QED BY <2>1, <2>2, <2>3, FS_EmptySet DEF SlotsMatchHolders
<1>11. GuardsMatchTurns
  <2>1. {s \in Sessions : phase[s] = "turn"} = {} BY DEF Init
  <2>2. active = 0 BY DEF Init
  <2> QED BY <2>1, <2>2, FS_EmptySet DEF GuardsMatchTurns
<1> QED BY <1>6, <1>7, <1>8, <1>9, <1>10, <1>11 DEF Base

LEMMA NextBase == Base /\ [Next]_vars => Base'
<1> SUFFICES ASSUME Base, [Next]_vars PROVE Base' OBVIOUS
<1>1. CASE UNCHANGED vars
  BY <1>1 DEF vars, Base, TypeOK, CallOK, BoundOK, Count, SessionsOK, Used,
              SlotsMatchHolders, GuardsMatchTurns
<1>2. ASSUME NEW c \in Callers, NewCall(c) \/ CallerStep(c) PROVE Base'
  BY <1>2, CallerBase
<1>3. ASSUME NEW s \in Sessions, SessionStep(s) PROVE Base' BY <1>3, SessionBase
<1>4. ASSUME NEW c \in Callers, Abort(c) PROVE Base' BY <1>4, AbortMoves, AbortBase
<1> QED BY <1>1, <1>2, <1>3, <1>4 DEF Next

(***************************************************************************)
(* Loaded agents are tracked, and the overshoot is bounded.                *)
(***************************************************************************)

\* The one thread that a call keeps from getting lost.
Tracks(c, t) ==
    \/ call[c].hand = t /\ call[c].at \in InHand
    \/ call[c].thread = t /\ call[c].at \in {"commit"} \cup Cleaning

\* A call that will enter a thread in the list, or put it back.
Follows(c, t) ==
    \/ call[c].hand = t /\ call[c].at \in InHand
    \/ call[c].thread = t /\ call[c].at \in Coming

\* All threads that are in the list or can get there without a new slot.
Counted ==
    ToSet(residents) \cup {t \in Threads : \E c \in Callers : Follows(c, t)}
                     \cup {t \in known : loaded[t] # 0}
CountedBounded == Cardinality(Counted \ strayed) < Capacity + Cardinality(Callers)

TrackInv == LoadedIsTracked /\ CountedBounded

LEMMA TrackedIs ==
    ASSUME Base, NEW t
    PROVE  Tracked(t) <=> t \in ToSet(residents) \/ \E c \in Callers : Tracks(c, t)
<1>1. residents \in Seq(Threads) BY DEF Base, TypeOK
<1>2. DOMAIN residents = 1 .. Len(residents) BY <1>1
<1>3. t \in ToSet(residents) <=> \E i \in 1 .. Len(residents) : residents[i] = t
  BY <1>2 DEF ToSet
<1> QED BY <1>3 DEF Tracked, Tracks, InHand, Cleaning

\* The list has as many members as its length says.
LEMMA ListSize ==
    ASSUME Base
    PROVE  /\ IsFiniteSet(ToSet(residents))
           /\ Cardinality(ToSet(residents)) <= Len(residents)
           /\ Len(residents) \in Nat
<1> DEFINE n == Len(residents)
<1>1. residents \in Seq(Threads) BY DEF Base, TypeOK
<1>2. n \in Nat /\ DOMAIN residents = 1 .. n BY <1>1
<1>3. IsFiniteSet(1 .. n) /\ Cardinality(1 .. n) = n
  <2> HIDE DEF n
  <2> QED BY <1>2, FS_Interval
<1>4. residents \in Surjection(1 .. n, ToSet(residents))
  <2>1. residents \in [1 .. n -> ToSet(residents)] BY <1>1, <1>2 DEF ToSet
  <2>2. \A x \in ToSet(residents) : \E i \in 1 .. n : residents[i] = x BY <1>2 DEF ToSet
  <2> QED BY <2>1, <2>2, <1>2 DEF Surjection
<1> HIDE DEF n
<1>5. IsFiniteSet(ToSet(residents)) /\ Cardinality(ToSet(residents)) <= Cardinality(1 .. n)
  BY <1>3, <1>4, FS_Surjection
<1> QED BY <1>2, <1>3, <1>5 DEF n

\* Every counted thread that no aborted call has let go of is in the list or
\* belongs to a call of its own.
LEMMA CountedSize ==
    ASSUME Base, LoadedIsTracked
    PROVE  /\ IsFiniteSet(Counted \ strayed) /\ Cardinality(Counted \ strayed) \in Nat
           /\ Cardinality(Counted \ strayed) <= Len(residents) + Cardinality(Callers)
           /\ Cardinality(Callers) \in Nat
<1> DEFINE Own(c) == IF call[c].at \in InHand THEN call[c].hand ELSE call[c].thread
           f == [c \in Callers |-> Own(c)]
           R == ToSet(residents)
           F == {f[c] : c \in Callers}
<1>1. IsFiniteSet(Callers) /\ Cardinality(Callers) \in Nat
  BY ResidencyAssumption, FS_CardinalityType
<1>2. f \in Surjection(Callers, F) BY DEF Surjection
<1>3. \A c \in Callers : \A t : Tracks(c, t) \/ Follows(c, t) => t \in F
  <2> TAKE c \in Callers
  <2> TAKE t
  <2>1. Tracks(c, t) \/ Follows(c, t) => t = Own(c)
    BY DEF Tracks, Follows, InHand, Coming, Cleaning
  <2> QED BY <2>1
<1>4. \A t \in known \ strayed : loaded[t] # 0 => t \in R \cup F
  BY <1>3, TrackedIs DEF LoadedIsTracked
<1>5. Counted \ strayed \subseteq R \cup F
  <2> HIDE DEF R, F
  <2> QED BY <1>3, <1>4 DEF Counted, R
<1> HIDE DEF f, F, Own
<1>6. IsFiniteSet(F) /\ Cardinality(F) <= Cardinality(Callers)
  BY <1>1, <1>2, FS_Surjection
<1>7. /\ IsFiniteSet(R) /\ Cardinality(R) <= Len(residents) /\ Len(residents) \in Nat
  BY ListSize
<1> HIDE DEF R
<1>8. /\ Cardinality(F) \in Nat /\ Cardinality(R) \in Nat BY <1>6, <1>7, FS_CardinalityType
<1>9. /\ IsFiniteSet(R \cup F)
      /\ Cardinality(R \cup F) = Cardinality(R) + Cardinality(F) - Cardinality(R \cap F)
  BY <1>6, <1>7, FS_Union
<1>10. Cardinality(R \cap F) \in Nat BY <1>7, FS_Intersection, FS_CardinalityType
<1>11. /\ IsFiniteSet(Counted \ strayed)
       /\ Cardinality(Counted \ strayed) <= Cardinality(R \cup F)
  BY <1>5, <1>9, FS_Subset
<1>12. Cardinality(Counted \ strayed) \in Nat BY <1>11, FS_CardinalityType
<1> QED BY <1>1, <1>6, <1>7, <1>8, <1>9, <1>10, <1>11, <1>12

\* What is left to show of a step that takes no slot.
LEMMA TrackFrame ==
    ASSUME Base, TrackInv, Base', NEW c \in Callers, Others(c),
           strayed \subseteq strayed',
           \A t \in known' \ strayed' : loaded'[t] # 0 => Tracked(t)',
           \A t \in known' : loaded'[t] # 0 => t \in Counted,
           ToSet(residents') \subseteq Counted,
           \A t \in Threads : Follows(c, t)' => t \in Counted
    PROVE  TrackInv'
<1>1. LoadedIsTracked' BY DEF LoadedIsTracked
<1>2. \A d \in Callers : \A t \in Threads : Follows(d, t)' => t \in Counted
  <2> SUFFICES ASSUME NEW d \in Callers, NEW t \in Threads, Follows(d, t)'
               PROVE  t \in Counted
    OBVIOUS
  <2>1. CASE d = c BY <2>1
  <2>2. CASE d # c
    <3>1. call'[d] = call[d] BY <2>2 DEF Others
    <3>2. Follows(d, t) BY <3>1 DEF Follows
    <3> QED BY <3>2 DEF Counted
  <2> QED BY <2>1, <2>2
<1> DEFINE N == Counted \ strayed
<1>3. N' \subseteq N BY <1>2 DEF Counted
<1>4. IsFiniteSet(N) /\ Cardinality(N) \in Nat /\ Cardinality(Callers) \in Nat
  BY CountedSize DEF TrackInv
<1>5. IsFiniteSet(N') /\ Cardinality(N') <= Cardinality(N)
  <2> HIDE DEF N
  <2> QED BY <1>3, <1>4, FS_Subset
<1>6. Cardinality(N') \in Nat BY <1>5, FS_CardinalityType
<1>7. Capacity \in Nat BY ResidencyAssumption
<1>8. CountedBounded' BY <1>4, <1>5, <1>6, <1>7 DEF TrackInv, CountedBounded
<1> QED BY <1>1, <1>8 DEF TrackInv

\* A thread stays tracked unless the one call that moves lets go of it, or
\* the list does.
LEMMA TrackKept ==
    ASSUME Base, Base', NEW c \in Callers, Others(c), NEW t, Tracked(t),
           t \in ToSet(residents) => t \in ToSet(residents') \/ Tracks(c, t)',
           Tracks(c, t) => t \in ToSet(residents') \/ Tracks(c, t)'
    PROVE  Tracked(t)'
<1>1. t \in ToSet(residents) \/ \E d \in Callers : Tracks(d, t) BY TrackedIs
<1>2. SUFFICES t \in ToSet(residents') \/ \E d \in Callers : Tracks(d, t)'
  <2>1. residents' \in Seq(Threads) BY DEF Base, TypeOK
  <2>2. DOMAIN residents' = 1 .. Len(residents') BY <2>1
  <2>3. t \in ToSet(residents') <=> \E i \in 1 .. Len(residents') : residents'[i] = t
    BY <2>2 DEF ToSet
  <2> QED BY <1>2, <2>3 DEF Tracked, Tracks, InHand, Cleaning
<1>3. CASE t \in ToSet(residents) BY <1>3
<1>4. ASSUME NEW d \in Callers, Tracks(d, t)
      PROVE  t \in ToSet(residents') \/ \E e \in Callers : Tracks(e, t)'
  <2>1. CASE d = c BY <2>1, <1>4
  <2>2. CASE d # c
    <3>1. call'[d] = call[d] BY <2>2 DEF Others
    <3> QED BY <3>1, <1>4 DEF Tracks
  <2> QED BY <2>1, <2>2
<1> QED BY <1>1, <1>3, <1>4

LEMMA CountedSizeHolds ==
    Base /\ LoadedIsTracked =>
       /\ Cardinality(Counted \ strayed) \in Nat
       /\ Cardinality(Counted \ strayed) <= Len(residents) + Cardinality(Callers)
       /\ Cardinality(Callers) \in Nat
BY CountedSize

LEMMA ReserveTracks ==
    ASSUME Base, TrackInv, Base', NEW c \in Callers, Reserve(c), Moves(c)
    PROVE  TrackInv'
<1>1. call \in [Callers -> Calls] /\ Others(c) BY BaseFacts DEF Moves
<1>2. call[c].at = "reserve" /\ UNCHANGED <<residents, loaded, known, strayed>>
  BY DEF Reserve, agents
<1>3. \A t : ~Tracks(c, t) BY <1>2 DEF Tracks, InHand, Cleaning
<1>4. \A t \in known' \ strayed' : loaded'[t] # 0 => Tracked(t)'
  <2> SUFFICES ASSUME NEW t \in known \ strayed, loaded[t] # 0 PROVE Tracked(t)'
    BY <1>2
  <2>1. Tracked(t) BY DEF TrackInv, LoadedIsTracked
  <2> QED BY <1>1, <1>2, <1>3, <2>1, TrackKept
<1>7. \A t \in known' : loaded'[t] # 0 => t \in Counted BY <1>2 DEF Counted
<1>5. CASE ~HasRoom
  <2>1. call' = [call EXCEPT ![c].at = "scan", ![c].left = Len(residents)]
    BY <1>5 DEF Reserve
  <2>2. call'[c].at = "scan" BY <2>1, <1>1 DEF Calls
  <2>3. \A t : ~Follows(c, t)' BY <2>2 DEF Follows, InHand, Coming
  <2>4. ToSet(residents') \subseteq Counted BY <1>2 DEF Counted
  <2> QED BY <1>1, <1>2, <1>4, <1>7, <2>3, <2>4, TrackFrame
<1>6. CASE HasRoom
  <2>1. LoadedIsTracked' BY <1>4 DEF LoadedIsTracked
  <2>2. (Base /\ LoadedIsTracked)' =>
           (/\ Cardinality(Counted \ strayed) \in Nat
            /\ Cardinality(Counted \ strayed) <= Len(residents) + Cardinality(Callers)
            /\ Cardinality(Callers) \in Nat)'
    BY CountedSizeHolds, PTL
  <2>3. Len(residents) + pending < Capacity BY <1>6 DEF HasRoom
  <2>4. Len(residents) \in Nat /\ pending \in Nat /\ Capacity \in Nat
    BY ResidencyAssumption DEF Base, TypeOK
  <2>5. /\ Cardinality(Counted \ strayed)' \in Nat /\ Cardinality(Callers) \in Nat
        /\ Cardinality(Counted \ strayed)' <= Len(residents) + Cardinality(Callers)
    BY <1>2, <2>1, <2>2
  <2>6. Cardinality(Counted \ strayed)' < Capacity + Cardinality(Callers) BY <2>3, <2>4, <2>5
  <2>7. CountedBounded' BY <2>6 DEF CountedBounded
  <2> QED BY <2>1, <2>7 DEF TrackInv
<1> QED BY <1>5, <1>6

\* The same for a step after which no thread is newly loaded or known.
LEMMA TrackShrink ==
    ASSUME Base, TrackInv, Base', NEW c \in Callers, Others(c),
           known' \subseteq known, \A t \in Threads : loaded'[t] # 0 => loaded[t] # 0,
           strayed \subseteq strayed',
           \A t \in known' \ strayed' : loaded'[t] # 0 =>
              /\ t \in ToSet(residents) => t \in ToSet(residents') \/ Tracks(c, t)'
              /\ Tracks(c, t) => t \in ToSet(residents') \/ Tracks(c, t)',
           ToSet(residents') \subseteq Counted,
           \A t \in Threads : Follows(c, t)' => t \in Counted
    PROVE  TrackInv'
<1>1. \A t \in known' : loaded'[t] # 0 => t \in known /\ loaded[t] # 0
  BY DEF Base, TypeOK
<1>2. \A t \in known' \ strayed' : loaded'[t] # 0 => Tracked(t)'
  <2> SUFFICES ASSUME NEW t \in known' \ strayed', loaded'[t] # 0 PROVE Tracked(t)'
    OBVIOUS
  <2>1. Tracked(t) BY <1>1 DEF TrackInv, LoadedIsTracked
  <2> QED BY <2>1, TrackKept
<1>3. \A t \in known' : loaded'[t] # 0 => t \in Counted BY <1>1 DEF Counted
<1> QED BY <1>2, <1>3, TrackFrame

LEMMA ScanTracks ==
    ASSUME Base, TrackInv, Base', NEW c \in Callers, Scan(c), Moves(c)
    PROVE  TrackInv'
<1>1. call \in [Callers -> Calls] /\ Others(c) /\ Rest /\ IsInjective(residents)
  BY BaseFacts DEF Moves
<1>2. call[c].at = "scan" /\ UNCHANGED <<loaded, known, strayed>> BY DEF Scan, agents
<1>3. \A t : ~Tracks(c, t) BY <1>2 DEF Tracks, InHand, Cleaning
<1>4. ToSet(residents) \subseteq Counted BY DEF Counted
<1>5. CASE call[c].left = 0 \/ Candidates(Protected(c)) = <<>>
  <2>1. Return(c) /\ residents' = residents BY <1>5 DEF Scan
  <2>2. call'[c].at = "idle" BY <1>1, <2>1, Labels
  <2>3. \A t : ~Follows(c, t)' BY <2>2 DEF Follows, InHand, Coming
  <2> QED BY <1>1, <1>2, <1>3, <1>4, <2>1, <2>3, TrackShrink
<1>6. CASE ~(call[c].left = 0 \/ Candidates(Protected(c)) = <<>>)
  <2> DEFINE h == Candidates(Protected(c))[1]
  <2>1. residents' = AfterPop(Protected(c)) BY <1>6 DEF Scan
  <2>2. h \in ToSet(residents) /\ ToSet(residents') = ToSet(residents) \ {h}
    BY <1>1, <1>6, <2>1, PoppedList DEF Rest
  <2>3. call'[c].at = "check" /\ call'[c].hand = h
    <3>1. call' = [call EXCEPT ![c].at = "check", ![c].left = @ - 1, ![c].hand = h]
      BY <1>6 DEF Scan
    <3> HIDE DEF h
    <3> QED BY <3>1, <1>1 DEF Calls
  <2> HIDE DEF h
  <2>4. \A t : t = h => Tracks(c, t)' BY <2>3 DEF Tracks, InHand
  <2>5. \A t : Follows(c, t)' => t = h BY <2>3 DEF Follows, InHand, Coming
  <2>6. \A t : t \in ToSet(residents) => t \in ToSet(residents') \/ Tracks(c, t)'
    BY <2>2, <2>4
  <2>7. ToSet(residents') \subseteq Counted /\ \A t : Follows(c, t)' => t \in Counted
    BY <1>4, <2>2, <2>5
  <2> QED BY <1>1, <1>2, <1>3, <2>6, <2>7, TrackShrink
<1> QED BY <1>5, <1>6

LEMMA CheckTracks ==
    ASSUME Base, TrackInv, Base', NEW c \in Callers, Check(c), Moves(c)
    PROVE  TrackInv'
<1>1. call \in [Callers -> Calls] /\ Others(c) /\ Rest /\ IsInjective(residents)
      /\ CallFits(c)
  BY BaseFacts DEF Moves
<1>2. call[c].at = "check" /\ UNCHANGED <<loaded, known, strayed>> BY DEF Check, agents
<1> DEFINE h == call[c].hand
<1>3. h \in Threads BY <1>1, <1>2 DEF CallFits, InHand
<1>4. h \in Counted /\ ToSet(residents) \subseteq Counted
  BY <1>2, <1>3 DEF Counted, Follows, InHand
<1>5. \A t : Tracks(c, t) => t = h BY <1>2 DEF Tracks, InHand, Cleaning
<1>6. CASE loaded[h] = 0 /\ Goto(c, "scan") /\ UNCHANGED residents
  <2>1. call'[c].at = "scan" BY <1>1, <1>6, Labels DEF At
  <2>2. \A t : ~Follows(c, t)' BY <2>1 DEF Follows, InHand, Coming
  <2> QED BY <1>1, <1>2, <1>4, <1>5, <1>6, <2>2, TrackShrink
<1>7. CASE residents' = Touched(residents, h) /\ Goto(c, "scan")
  <2>1. call'[c].at = "scan" BY <1>1, <1>7, Labels DEF At
  <2>2. \A t : ~Follows(c, t)' BY <2>1 DEF Follows, InHand, Coming
  <2>3. ToSet(residents') = ToSet(residents) \cup {h}
    BY <1>1, <1>3, <1>7, TouchedList DEF Rest
  <2>4. ToSet(residents') \subseteq Counted BY <1>4, <2>3
  <2> QED BY <1>1, <1>2, <1>5, <2>2, <2>3, <2>4, TrackShrink
<1>8. CASE /\ call' = [call EXCEPT ![c].at = "ask", ![c].session = loaded[h]]
           /\ UNCHANGED residents
  <2>1. call'[c].at = "ask" /\ call'[c].hand = h BY <1>1, <1>8 DEF Calls
  <2>2. \A t : Follows(c, t)' => t = h BY <2>1 DEF Follows, InHand, Coming
  <2>3. \A t : t = h => Tracks(c, t)' BY <2>1 DEF Tracks, InHand
  <2> QED BY <1>1, <1>2, <1>4, <1>5, <1>8, <2>2, <2>3, TrackShrink
<1> QED BY <1>6, <1>7, <1>8 DEF Check

LEMMA UnloadTracks ==
    ASSUME Base, TrackInv, Base', NEW c \in Callers, Ask(c) \/ Stop(c) \/ Drop(c), Moves(c)
    PROVE  TrackInv'
<1>1. call \in [Callers -> Calls] /\ Others(c) /\ Rest /\ CallFits(c)
  BY BaseFacts DEF Moves
<1>2. UNCHANGED <<residents, known, strayed>> BY DEF Ask, Stop, Drop, agents
<1> DEFINE h == call[c].hand
<1>3. call[c].at \in InHand BY DEF Ask, Stop, Drop, InHand
<1>4. h \in Threads BY <1>1, <1>3 DEF CallFits
<1>5. h \in Counted /\ ToSet(residents) \subseteq Counted
  BY <1>3, <1>4 DEF Counted, Follows
<1>6. \A t : Tracks(c, t) => t = h BY <1>3 DEF Tracks, InHand, Cleaning
<1>7. CASE Ask(c) \/ Stop(c)
  <2>1. call'[c].at \in {"stop", "drop"} /\ call'[c].hand = h
    BY <1>1, <1>7, GotoMoves DEF Ask, Stop, At
  <2>2. \A t : Follows(c, t)' => t = h BY <2>1 DEF Follows, InHand, Coming
  <2>3. \A t : t = h => Tracks(c, t)' BY <2>1 DEF Tracks, InHand
  <2>4. UNCHANGED loaded BY <1>7 DEF Ask, Stop, agents
  <2> QED BY <1>1, <1>2, <1>5, <1>6, <2>2, <2>3, <2>4, TrackShrink
<1>8. CASE Drop(c)
  <2>1. call'[c].at = "reserve" BY <1>1, <1>8, Labels DEF Drop, At
  <2>2. \A t : ~Follows(c, t)' BY <2>1 DEF Follows, InHand, Coming
  <2>3. loaded' = [loaded EXCEPT ![h] = 0] BY <1>8 DEF Drop
  <2>4. loaded'[h] = 0 /\ \A t \in Threads : loaded'[t] # 0 => loaded[t] # 0
    BY <1>1, <1>4, <2>3 DEF Rest
  <2> QED BY <1>1, <1>2, <1>5, <1>6, <2>2, <2>4, TrackShrink
<1> QED BY <1>7, <1>8

LEMMA TouchTracks ==
    ASSUME Base, TrackInv, Base', NEW c \in Callers, Touch(c), Moves(c)
    PROVE  TrackInv'
<1>1. call \in [Callers -> Calls] /\ Others(c) /\ Rest /\ IsInjective(residents)
      /\ CallFits(c)
  BY BaseFacts DEF Moves
<1> DEFINE h == call[c].thread
<1>2. call[c].at = "touch" /\ UNCHANGED <<loaded, known, strayed>> BY DEF Touch, agents
<1>3. h \in Threads BY <1>1, <1>2 DEF CallFits
<1>4. h \in Counted /\ ToSet(residents) \subseteq Counted
  BY <1>2, <1>3 DEF Counted, Follows, Coming
<1>5. \A t : Tracks(c, t) => t = h BY <1>2 DEF Tracks, InHand, Cleaning
<1>6. call'[c].at = "send" BY <1>1, Labels DEF Touch, At
<1>7. \A t : ~Follows(c, t)' BY <1>6 DEF Follows, InHand, Coming
<1>8. CASE loaded[h] # 0
  <2>1. residents' = Touched(residents, h) BY <1>8 DEF Touch
  <2>2. ToSet(residents') = ToSet(residents) \cup {h}
    BY <1>1, <1>3, <2>1, TouchedList DEF Rest
  <2>3. ToSet(residents') \subseteq Counted BY <1>4, <2>2
  <2> QED BY <1>1, <1>2, <1>5, <1>7, <2>2, <2>3, TrackShrink
<1>9. CASE loaded[h] = 0
  <2>1. residents' = residents BY <1>9 DEF Touch
  <2> QED BY <1>1, <1>2, <1>4, <1>5, <1>7, <1>9, <2>1, TrackShrink
<1> QED BY <1>8, <1>9

LEMMA LoadTracks ==
    ASSUME Base, TrackInv, Base', NEW c \in Callers, Load(c), Moves(c)
    PROVE  TrackInv'
<1>1. call \in [Callers -> Calls] /\ Others(c) /\ Rest /\ CallFits(c)
  BY BaseFacts DEF Moves
<1> DEFINE h == call[c].thread
<1>2. /\ call[c].at = "load" /\ UNCHANGED <<residents, known, strayed>>
      /\ loaded' = [loaded EXCEPT ![h] = begun + 1]
  BY DEF Load
<1>3. h \in Threads BY <1>1, <1>2 DEF CallFits
<1>4. call'[c].at = "commit" /\ call'[c].thread = h BY <1>1, GotoMoves DEF Load, At
<1>5. h \in Counted /\ ToSet(residents) \subseteq Counted
  BY <1>2, <1>3 DEF Counted, Follows, Coming
<1>6. \A t : t = h => Tracks(c, t)' BY <1>4 DEF Tracks
<1>7. \A t : Follows(c, t)' => t = h BY <1>4 DEF Follows, InHand, Coming
<1>8. \A t : ~Tracks(c, t) BY <1>2 DEF Tracks, InHand, Cleaning
<1>9. \A t \in known' \ strayed' : loaded'[t] # 0 => Tracked(t)'
  <2> SUFFICES ASSUME NEW t \in known \ strayed, loaded'[t] # 0 PROVE Tracked(t)'
    BY <1>2
  <2>1. CASE t = h
    <3>1. Tracks(c, t)' BY <2>1, <1>6
    <3> QED BY <3>1 DEF Tracked, Tracks, InHand, Cleaning
  <2>2. CASE t # h
    <3>1. loaded[t] # 0 BY <2>2, <1>1, <1>2 DEF Rest
    <3>2. Tracked(t) BY <3>1 DEF TrackInv, LoadedIsTracked
    <3> QED BY <1>1, <1>2, <1>8, <3>2, TrackKept
  <2> QED BY <2>1, <2>2
<1>10. \A t \in known' : loaded'[t] # 0 => t \in Counted
  BY <1>1, <1>2, <1>5 DEF Counted, Rest
<1> QED BY <1>1, <1>2, <1>5, <1>7, <1>9, <1>10, TrackFrame

LEMMA CommitTracks ==
    ASSUME Base, TrackInv, Base', NEW c \in Callers, Commit(c), Moves(c)
    PROVE  TrackInv'
<1>1. call \in [Callers -> Calls] /\ Others(c) /\ Rest /\ IsInjective(residents)
      /\ CallFits(c)
  BY BaseFacts DEF Moves
<1> DEFINE h == call[c].thread
<1>2. /\ call[c].at = "commit" /\ UNCHANGED <<loaded, strayed>>
      /\ residents' = Touched(residents, h) /\ known' \subseteq known \cup {h}
  BY DEF Commit
<1>3. h \in Threads BY <1>1, <1>2 DEF CallFits
<1>4. call'[c].at \in {"submit", "send"} BY <1>1, Labels DEF Commit, At
<1>5. h \in Counted /\ ToSet(residents) \subseteq Counted
  BY <1>2, <1>3 DEF Counted, Follows, Coming
<1>6. ToSet(residents') = ToSet(residents) \cup {h}
  BY <1>1, <1>2, <1>3, TouchedList DEF Rest
<1>7. ToSet(residents') \subseteq Counted BY <1>5, <1>6
<1>8. \A t : ~Follows(c, t)' BY <1>4 DEF Follows, InHand, Coming
<1>9. \A t : Tracks(c, t) => t = h BY <1>2 DEF Tracks, InHand, Cleaning
<1>10. \A t \in known' \ strayed' : loaded'[t] # 0 => Tracked(t)'
  <2> SUFFICES ASSUME NEW t \in known' \ strayed, loaded[t] # 0 PROVE Tracked(t)'
    BY <1>2
  <2>1. CASE t = h
    <3>1. t \in ToSet(residents') BY <2>1, <1>6
    <3>2. residents' \in Seq(Threads) BY DEF Base, TypeOK
    <3>3. \E i \in 1 .. Len(residents') : residents'[i] = t BY <3>1, <3>2 DEF ToSet
    <3> QED BY <3>3 DEF Tracked
  <2>2. CASE t # h
    <3>1. t \in known BY <2>2, <1>2
    <3>2. Tracked(t) BY <3>1 DEF TrackInv, LoadedIsTracked
    <3> QED BY <1>1, <1>6, <1>9, <2>2, <3>2, TrackKept
  <2> QED BY <2>1, <2>2
<1>11. \A t \in known' : loaded'[t] # 0 => t \in Counted BY <1>2, <1>5 DEF Counted
<1> QED BY <1>1, <1>2, <1>7, <1>8, <1>10, <1>11, TrackFrame

\* A slot that is given back, a message that is sent, and the clean-up of a
\* session that has ended.
LEMMA SendTracks ==
    ASSUME Base, TrackInv, Base', NEW c \in Callers,
           LoadFails(c) \/ Send(c) \/ Submit(c), Moves(c)
    PROVE  TrackInv'
<1>1. call \in [Callers -> Calls] /\ Others(c) /\ Rest /\ CallFits(c)
  BY BaseFacts DEF Moves
<1>2. UNCHANGED <<residents, loaded, known, strayed>> BY DEF LoadFails, Send, Submit, agents
<1>3. call[c].at \in {"load", "send", "submit"} BY DEF LoadFails, Send, Submit
<1>4. \A t : ~Tracks(c, t) BY <1>3 DEF Tracks, InHand, Cleaning
<1>5. ToSet(residents) \subseteq Counted BY DEF Counted
<1>6. \A t \in Threads : Follows(c, t)' => t \in Counted
  <2>1. CASE LoadFails(c) /\ Goto(c, "touch")
    <3>1. call[c].at = "load" BY <2>1 DEF LoadFails
    <3>2. call'[c].at = "touch" /\ call'[c].thread = call[c].thread
      BY <1>1, <2>1, GotoMoves DEF At
    <3>3. call[c].thread \in Threads BY <1>1, <3>1 DEF CallFits
    <3>4. call[c].thread \in Counted BY <3>1, <3>3 DEF Counted, Follows, Coming
    <3>5. \A t : Follows(c, t)' => t = call[c].thread
      BY <3>2 DEF Follows, InHand, Coming
    <3> QED BY <3>4, <3>5
  <2>2. CASE call'[c].at \in {"idle", "submit", "remove"}
    BY <2>2 DEF Follows, InHand, Coming
  <2> QED BY <1>1, <2>1, <2>2, Labels DEF LoadFails, Send, Submit, At
<1> QED BY <1>1, <1>2, <1>4, <1>5, <1>6, TrackShrink

LEMMA CleanupTracks ==
    ASSUME Base, TrackInv, Base', NEW c \in Callers,
           RemoveDead(c) \/ Forget(c) \/ Release(c) \/ UnloadDone(c), Moves(c)
    PROVE  TrackInv'
<1>1. call \in [Callers -> Calls] /\ Others(c) /\ Rest /\ IsInjective(residents)
      /\ CallFits(c)
  BY BaseFacts DEF Moves
<1> DEFINE h == call[c].thread
<1>2. ToSet(residents) \subseteq Counted BY DEF Counted
<1>3. CASE RemoveDead(c)
  <2>1. /\ call[c].at = "remove" /\ UNCHANGED <<residents, known, strayed>>
        /\ loaded' = [loaded EXCEPT ![h] = 0]
    BY <1>3 DEF RemoveDead
  <2>2. h \in Threads BY <1>1, <2>1 DEF CallFits
  <2>3. call'[c].at = "forget" BY <1>1, <1>3, Labels DEF RemoveDead, At
  <2>4. \A t : Tracks(c, t) => t = h BY <2>1 DEF Tracks, InHand, Cleaning
  <2>5. \A t : ~Follows(c, t)' BY <2>3 DEF Follows, InHand, Coming
  <2>6. loaded'[h] = 0 /\ \A t \in Threads : loaded'[t] # 0 => loaded[t] # 0
    BY <1>1, <2>1, <2>2 DEF Rest
  <2> QED BY <1>1, <1>2, <2>1, <2>4, <2>5, <2>6, TrackShrink
<1>4. CASE Forget(c)
  <2>1. /\ call[c].at = "forget" /\ UNCHANGED <<loaded, known, strayed>>
        /\ residents' = Without(residents, h)
    BY <1>4 DEF Forget, agents
  <2>2. call'[c].at = "release" /\ call'[c].thread = h
    BY <1>1, <1>4, GotoMoves DEF Forget, At
  <2>3. \A t : Tracks(c, t) => t = h BY <2>1 DEF Tracks, InHand, Cleaning
  <2>4. \A t : t = h => Tracks(c, t)' BY <2>2 DEF Tracks, Cleaning
  <2>5. \A t : ~Follows(c, t)' BY <2>2 DEF Follows, InHand, Coming
  <2>6. ToSet(residents') = ToSet(residents) \ {h} BY <1>1, <2>1, WithoutList DEF Rest
  <2>7. \A t : t \in ToSet(residents) => t \in ToSet(residents') \/ Tracks(c, t)'
    BY <2>4, <2>6
  <2>8. ToSet(residents') \subseteq Counted BY <1>2, <2>6
  <2> QED BY <1>1, <2>1, <2>3, <2>4, <2>5, <2>7, <2>8, TrackShrink
<1>5. CASE Release(c)
  <2>1. /\ call[c].at = "release" /\ UNCHANGED <<residents, loaded, strayed>>
        /\ known' = known \ {h}
    BY <1>5 DEF Release
  <2>2. call'[c].at = "idle" BY <1>1, <1>5, Labels DEF Release
  <2>3. \A t : Tracks(c, t) => t = h BY <2>1 DEF Tracks, InHand, Cleaning
  <2>4. \A t : ~Follows(c, t)' BY <2>2 DEF Follows, InHand, Coming
  <2> QED BY <1>1, <1>2, <2>1, <2>3, <2>4, TrackShrink
<1>6. CASE UnloadDone(c)
  <2>1. call[c].at = "unload" /\ UNCHANGED <<residents, known, strayed>> BY <1>6 DEF UnloadDone
  <2>2. call'[c].at = "idle" BY <1>1, <1>6, Labels DEF UnloadDone
  <2>3. \A t : ~Tracks(c, t) BY <2>1 DEF Tracks, InHand, Cleaning
  <2>4. \A t : ~Follows(c, t)' BY <2>2 DEF Follows, InHand, Coming
  <2>5. loaded' = loaded \/ loaded' = [loaded EXCEPT ![call[c].hand] = 0]
    BY <1>6 DEF UnloadDone
  <2>6. \A t \in Threads : loaded'[t] # 0 => loaded[t] # 0 BY <1>1, <2>5 DEF Rest
  <2> QED BY <1>1, <1>2, <2>1, <2>3, <2>4, <2>6, TrackShrink
<1> QED BY <1>3, <1>4, <1>5, <1>6

LEMMA NewCallTracks ==
    ASSUME Base, TrackInv, Base', NEW c \in Callers, NewCall(c), Moves(c)
    PROVE  TrackInv'
<1>1. call \in [Callers -> Calls] /\ Others(c) /\ Rest BY BaseFacts DEF Moves
<1>2. call[c].at = "idle" /\ UNCHANGED <<residents, loaded, known, strayed>>
  <2>1. ASSUME NEW h \in Threads, NEW m \in Messages, Spawn(c, h, m)
        PROVE  call[c] = Idle /\ UNCHANGED <<residents, loaded, known, strayed>>
    BY <2>1 DEF Spawn, Begin, agents
  <2>2. ASSUME NEW h \in Threads, NEW m \in Messages, Message(c, h, m)
        PROVE  call[c] = Idle /\ UNCHANGED <<residents, loaded, known, strayed>>
    BY <2>2 DEF Message, Begin, agents
  <2>3. ASSUME NEW h \in Threads, Unload(c, h)
        PROVE  call[c] = Idle /\ UNCHANGED <<residents, loaded, known, strayed>>
    BY <2>3 DEF Unload, agents
  <2>4. call[c] = Idle /\ UNCHANGED <<residents, loaded, known, strayed>>
    BY <2>1, <2>2, <2>3 DEF NewCall
  <2> QED BY <2>4 DEF Idle
<1>3. \A t : ~Tracks(c, t) BY <1>2 DEF Tracks, InHand, Cleaning
<1>4. ToSet(residents) \subseteq Counted BY DEF Counted
<1>5. \A t \in Threads : Follows(c, t)' => t \in Counted
  <2>1. ASSUME NEW h \in Threads, NEW m \in Messages, Spawn(c, h, m)
        PROVE  call'[c].at = "reserve"
    <3>1. Begin(c, "reserve", h, m, TRUE) BY <2>1 DEF Spawn
    <3> QED BY <1>1, <3>1, BeginMoves DEF At
  <2>2. ASSUME NEW h \in Threads, NEW m \in Messages, Message(c, h, m)
        PROVE  \/ call'[c].at = "reserve"
               \/ call'[c].at = "touch" /\ call'[c].thread = h /\ h \in Counted
    <3>1. CASE loaded[h] # 0 /\ Begin(c, "touch", h, m, FALSE)
      <4>1. h \in Counted BY <2>2, <3>1 DEF Message, Counted
      <4> QED BY <1>1, <3>1, <4>1, BeginMoves DEF At
    <3>2. CASE Begin(c, "reserve", h, m, FALSE) BY <1>1, <3>2, BeginMoves DEF At
    <3> QED BY <2>2, <3>1, <3>2 DEF Message
  <2>3. ASSUME NEW h \in Threads, Unload(c, h) PROVE call'[c].at = "unload"
    BY <1>1, <2>3 DEF Unload, Idle
  <2>4. \/ call'[c].at \in {"reserve", "unload"}
        \/ call'[c].at = "touch" /\ call'[c].thread \in Counted
    BY <2>1, <2>2, <2>3 DEF NewCall
  <2> QED BY <2>4 DEF Follows, InHand, Coming
<1> QED BY <1>1, <1>2, <1>3, <1>4, <1>5, TrackShrink

\* A thread that an aborted call held is in no list and in no hand any more;
\* the others keep their place.
LEMMA AbortTracks ==
    ASSUME Base, TrackInv, Base', NEW c \in Callers, Abort(c), Moves(c)
    PROVE  TrackInv'
<1>1. call \in [Callers -> Calls] /\ Others(c) /\ Rest BY BaseFacts DEF Moves
<1>2. UNCHANGED <<residents, loaded, known>> /\ strayed' = strayed \cup LetGo(c)
  BY DEF Abort, agents
<1>3. call[c].at \in Awaits /\ call'[c].at = "idle" BY <1>1, Labels DEF Abort
<1>4. \A t \in Threads : Tracks(c, t) => t \in strayed'
  BY <1>2, <1>3 DEF Tracks, InHand, Cleaning, LetGo, Awaits
<1>5. \A t : ~Follows(c, t)' BY <1>3 DEF Follows, InHand, Coming
<1>6. ToSet(residents) \subseteq Counted /\ known \subseteq Threads
  BY <1>1 DEF Counted, Rest
<1> QED BY <1>1, <1>2, <1>4, <1>5, <1>6, TrackShrink

LEMMA NextTracks == Base /\ TrackInv /\ [Next]_vars => TrackInv'
<1> SUFFICES ASSUME Base, TrackInv, [Next]_vars PROVE TrackInv' OBVIOUS
<1>1. Base' BY NextBase
<1>2. CASE UNCHANGED <<residents, loaded, known, call, strayed>>
  BY <1>2 DEF TrackInv, LoadedIsTracked, Tracked, CountedBounded, Counted, Follows
<1>3. ASSUME NEW s \in Sessions, SessionStep(s)
      PROVE  UNCHANGED <<residents, loaded, known, call, strayed>>
  BY <1>3 DEF SessionStep, Deliver, Drain, Wake, Terminate, EndTurn, agents
<1>4. ASSUME NEW c \in Callers, NewCall(c) \/ CallerStep(c) PROVE TrackInv'
  <2>1. Moves(c) BY <1>4, CallerMoves
  <2> QED
    BY <1>1, <1>4, <2>1, ReserveTracks, ScanTracks, CheckTracks, UnloadTracks, TouchTracks,
       LoadTracks, CommitTracks, SendTracks, CleanupTracks, NewCallTracks
    DEF CallerStep
<1>5. ASSUME NEW c \in Callers, Abort(c) PROVE TrackInv'
  BY <1>1, <1>5, AbortMoves, AbortTracks
<1> QED BY <1>2, <1>3, <1>4, <1>5 DEF Next, vars

LEMMA InitTracks == Init => TrackInv
<1> SUFFICES ASSUME Init PROVE TrackInv OBVIOUS
<1>1. LoadedIsTracked BY DEF Init, LoadedIsTracked
<1>2. Counted = {}
  <2>1. ToSet(residents) = {} BY DEF Init, ToSet
  <2>2. \A c \in Callers : \A t : ~Follows(c, t)
    BY DEF Init, Idle, Follows, InHand, Coming
  <2>3. known = {} BY DEF Init
  <2> QED BY <2>1, <2>2, <2>3 DEF Counted
<1>3. Cardinality(Callers) \in Nat /\ Cardinality(Callers) # 0
  BY ResidencyAssumption, FS_CardinalityType, FS_EmptySet
<1>4. Capacity \in Nat BY ResidencyAssumption
<1>5. Counted \ strayed = {} BY <1>2
<1>6. CountedBounded BY <1>3, <1>4, <1>5, FS_EmptySet DEF CountedBounded
<1> QED BY <1>1, <1>6 DEF TrackInv

LEMMA InvariantHolds == Spec => [](Base /\ TrackInv)
<1>1. Init => Base /\ TrackInv BY InitBase, InitTracks
<1>2. Base /\ TrackInv /\ [Next]_vars => (Base /\ TrackInv)' BY NextBase, NextTracks
<1> QED BY <1>1, <1>2, PTL DEF Spec

LEMMA OvershootFollows == Base /\ TrackInv => OvershootBounded
<1> SUFFICES ASSUME Base, TrackInv PROVE OvershootBounded OBVIOUS
<1> DEFINE A == ToSet(residents) \cup
                {call[c].thread : c \in {d \in Callers : call[d].at \in {"load", "commit"}}}
           B == A \ strayed
           N == Counted \ strayed
<1>1. A \subseteq Counted
  <2> SUFFICES ASSUME NEW c \in Callers, call[c].at \in {"load", "commit"}
               PROVE  call[c].thread \in Counted
    BY DEF Counted
  <2>1. call[c].thread \in Threads BY BaseFacts DEF CallFits
  <2> QED BY <2>1 DEF Counted, Follows, Coming
<1>2. IsFiniteSet(N) /\ Cardinality(N) \in Nat /\ Cardinality(Callers) \in Nat
  BY CountedSize DEF TrackInv
<1> HIDE DEF A
<1>7. B \subseteq N BY <1>1
<1>8. Cardinality(N) < Capacity + Cardinality(Callers) BY DEF TrackInv, CountedBounded
<1> HIDE DEF B, N
<1>3. IsFiniteSet(B) /\ Cardinality(B) <= Cardinality(N) BY <1>2, <1>7, FS_Subset
<1>4. Cardinality(B) \in Nat BY <1>3, FS_CardinalityType
<1>5. Capacity \in Nat BY ResidencyAssumption
<1>6. Cardinality(B) < Capacity + Cardinality(Callers)
  BY <1>2, <1>3, <1>4, <1>5, <1>8
<1> QED BY <1>6 DEF A, B, OvershootBounded

\* The bookkeeping of residency.rs and execution.rs is right at every await of
\* every call, for any number of callers, threads, messages and sessions and
\* any capacity: V2ResidencySlot is given back once, the list has no thread
\* twice, AgentExecutionGuard is taken and dropped with the turns, of ended
\* sessions too, no agent that a message can reach is loaded without being
\* tracked unless an aborted call let go of it, and without those the calls
\* exceed the capacity by less than their number.
THEOREM ResidencyAgrees == Spec => []ResidencyInv
<1>1. Base /\ TrackInv => ResidencyInv
  BY OvershootFollows DEF Base, TrackInv, ResidencyInv
<1> QED BY <1>1, InvariantHolds, PTL

(***************************************************************************)
(* A message is held once.                                                 *)
(***************************************************************************)

Holds(s, m) == m \in mailbox[s] \/ m \in ToSet(channel[s])

\* A message that a call has not submitted is nobody else's.
OwnMessage ==
    /\ \A c, d \in Callers : call[c].msg = call[d].msg /\ call[c].msg # None => c = d
    /\ \A c \in Callers : call[c].msg \notin sent

\* What a session holds was accepted and no turn has taken it up; no other
\* session holds it, and what was accepted and not taken up is held.
HeldOnce ==
    /\ \A s \in Sessions, m \in Messages : Holds(s, m) => m \in sent \ seen
    /\ \A s, u \in Sessions, m \in Messages : Holds(s, m) /\ Holds(u, m) => s = u
    /\ \A m \in sent \ seen : \E s \in Sessions : Holds(s, m)
    /\ seen \subseteq sent

\* In a channel a message is once, and not in the mailbox behind it.
EachOnce(q) == \A i, j \in DOMAIN q : q[i] = q[j] /\ q[i] # Shutdown => i = j
InOnePlace ==
    \A s \in Sessions :
       /\ EachOnce(channel[s])
       /\ \A m \in mailbox[s] : m \notin ToSet(channel[s])

HeldInv == OwnMessage /\ HeldOnce /\ InOnePlace

\* A step that leaves all messages where they are.
LEMMA HeldFrame ==
    ASSUME Base, HeldInv, NEW c \in Callers, Others(c),
           UNCHANGED <<channel, mailbox, sent, seen>>,
           \/ call'[c].msg = call[c].msg \/ call'[c].msg = None
           \/ Unused(call'[c].msg)
    PROVE  HeldInv'
<1>1. None \notin sent BY ResidencyAssumption DEF Base, TypeOK
<1>2. OwnMessage'
  <2>1. \A d \in Callers : d # c => call'[d] = call[d] BY DEF Others
  <2>2. \A d \in Callers : call'[d].msg \notin sent
    BY <1>1, <2>1 DEF HeldInv, OwnMessage, Unused
  <2>3. \A d \in Callers : d # c /\ call'[c].msg = call'[d].msg => call'[c].msg = None
    BY <2>1 DEF HeldInv, OwnMessage, Unused
  <2>4. \A d, e \in Callers : d # c /\ e # c /\ call'[d].msg = call'[e].msg
                                 /\ call'[d].msg # None => d = e
    BY <2>1 DEF HeldInv, OwnMessage
  <2> QED BY <2>2, <2>3, <2>4 DEF OwnMessage
<1>3. HeldOnce' BY DEF HeldInv, HeldOnce, Holds
<1>4. InOnePlace' BY DEF HeldInv, InOnePlace
<1> QED BY <1>2, <1>3, <1>4 DEF HeldInv

\* A channel with one more submission at its end.
LEMMA Appended ==
    ASSUME Base, NEW s \in Sessions, NEW x \in Messages \cup {Shutdown},
           channel' = [channel EXCEPT ![s] = Append(@, x)]
    PROVE  /\ ToSet(channel'[s]) = ToSet(channel[s]) \cup {x}
           /\ \A u \in Sessions : u # s => channel'[u] = channel[u]
           /\ x = Shutdown \/ x \notin ToSet(channel[s]) =>
                 (EachOnce(channel[s]) => EachOnce(channel'[s]))
<1> DEFINE a == channel[s]
           b == Append(a, x)
           n == Len(a)
<1>1. channel \in [Sessions -> Seq(Messages \cup {Shutdown})] BY DEF Base, TypeOK
<1>2. a \in Seq(Messages \cup {Shutdown}) BY <1>1
<1>3. channel'[s] = b /\ \A u \in Sessions : u # s => channel'[u] = channel[u] BY <1>1
<1> HIDE DEF a
<1>4. /\ n \in Nat /\ DOMAIN a = 1 .. n /\ DOMAIN b = 1 .. n + 1
      /\ \A i \in 1 .. n : b[i] = a[i]
      /\ b[n + 1] = x
  BY <1>2
<1> HIDE DEF b
<1>5. ToSet(b) = ToSet(a) \cup {x}
  <2>1. \A i \in 1 .. n + 1 : i \in 1 .. n \/ i = n + 1 BY <1>4
  <2>2. 1 .. n \subseteq 1 .. n + 1 /\ n + 1 \in 1 .. n + 1 BY <1>4
  <2> HIDE DEF n
  <2> QED BY <1>4, <2>1, <2>2 DEF ToSet
<1>6. ASSUME x = Shutdown \/ x \notin ToSet(a),
             EachOnce(a)
      PROVE  EachOnce(b)
  <2>1. \A i \in 1 .. n : a[i] # x \/ x = Shutdown BY <1>4, <1>6 DEF ToSet
  <2>2. \A i \in 1 .. n + 1 : i \in 1 .. n \/ i = n + 1 BY <1>4
  <2> HIDE DEF n
  <2> QED BY <1>4, <1>6, <2>1, <2>2 DEF EachOnce
<1> QED BY <1>3, <1>5, <1>6 DEF a

\* The head of a channel leaves it.
LEMMA Headed ==
    ASSUME Base, NEW s \in Sessions, channel[s] # <<>>, Head(channel[s]) # Shutdown,
           EachOnce(channel[s]), channel' = [channel EXCEPT ![s] = Tail(@)]
    PROVE  /\ Head(channel[s]) \in Messages /\ Head(channel[s]) \in ToSet(channel[s])
           /\ ToSet(channel'[s]) = ToSet(channel[s]) \ {Head(channel[s])}
           /\ \A u \in Sessions : u # s => channel'[u] = channel[u]
           /\ EachOnce(channel'[s])
<1> DEFINE a == channel[s]
           b == Tail(a)
           n == Len(a)
           m == Head(a)
<1>1. channel \in [Sessions -> Seq(Messages \cup {Shutdown})] BY DEF Base, TypeOK
<1>2. a \in Seq(Messages \cup {Shutdown}) BY <1>1
<1>3. channel'[s] = b /\ \A u \in Sessions : u # s => channel'[u] = channel[u] BY <1>1
<1>4. a # <<>> /\ EachOnce(a) OBVIOUS
<1>5. m # Shutdown OBVIOUS
<1> HIDE DEF a
<1>6. /\ n \in Nat /\ n >= 1 /\ DOMAIN a = 1 .. n /\ DOMAIN b = 1 .. n - 1
      /\ \A i \in 1 .. n - 1 : b[i] = a[i + 1]
      /\ a[1] = m /\ m \in Messages \cup {Shutdown}
  BY <1>2, <1>4
<1> HIDE DEF b, m, n
<1>7. \A i \in 1 .. n - 1 : i + 1 \in 1 .. n /\ i + 1 # 1 BY <1>6
<1>8. ToSet(b) \subseteq ToSet(a) \ {m}
  <2> SUFFICES ASSUME NEW i \in 1 .. n - 1 PROVE b[i] \in ToSet(a) /\ b[i] # m
    BY <1>6 DEF ToSet
  <2>1. b[i] = a[i + 1] /\ i + 1 \in 1 .. n /\ i + 1 # 1 BY <1>6, <1>7
  <2>2. 1 \in 1 .. n BY <1>6
  <2> QED BY <1>4, <1>5, <1>6, <2>1, <2>2 DEF ToSet, EachOnce
<1>9. ToSet(a) \ {m} \subseteq ToSet(b)
  <2> SUFFICES ASSUME NEW i \in 1 .. n, a[i] # m PROVE a[i] \in ToSet(b)
    BY <1>6 DEF ToSet
  <2>1. i - 1 \in 1 .. n - 1 /\ (i - 1) + 1 = i BY <1>6
  <2>2. b[i - 1] = a[i] BY <1>6, <2>1
  <2> QED BY <1>6, <2>1, <2>2 DEF ToSet
<1>10. m \in ToSet(a)
  <2>1. 1 \in 1 .. n BY <1>6
  <2> QED BY <2>1, <1>6 DEF ToSet
<1>11. EachOnce(b)
  <2> SUFFICES ASSUME NEW i \in 1 .. n - 1, NEW j \in 1 .. n - 1, b[i] = b[j],
                      b[i] # Shutdown
               PROVE  i = j
    BY <1>6 DEF EachOnce
  <2>1. a[i + 1] = a[j + 1] /\ a[i + 1] # Shutdown BY <1>6
  <2>2. i + 1 = j + 1 BY <2>1, <1>4, <1>6, <1>7 DEF EachOnce
  <2> QED BY <2>2, <1>6
<1> QED BY <1>3, <1>5, <1>6, <1>8, <1>9, <1>10, <1>11 DEF a, m

\* A Shutdown in a channel is no message.
LEMMA HeldShutdown ==
    ASSUME Base, HeldInv, NEW c \in Callers, Others(c), NEW s \in Sessions,
           channel' = [channel EXCEPT ![s] = Append(@, Shutdown)],
           UNCHANGED <<mailbox, sent, seen>>,
           call'[c].msg = call[c].msg \/ call'[c].msg = None
    PROVE  HeldInv'
<1>1. None \notin sent /\ Shutdown \notin Messages
  BY ResidencyAssumption DEF Base, TypeOK
<1>2. /\ ToSet(channel'[s]) = ToSet(channel[s]) \cup {Shutdown}
      /\ \A u \in Sessions : u # s => channel'[u] = channel[u]
      /\ EachOnce(channel[s]) => EachOnce(channel'[s])
  BY Appended
<1>3. \A u \in Sessions, m \in Messages : Holds(u, m)' <=> Holds(u, m)
  BY <1>1, <1>2 DEF Holds
<1>4. HeldOnce'
  <2>1. sent \subseteq Messages BY DEF Base, TypeOK
  <2> QED BY <1>3, <2>1 DEF HeldInv, HeldOnce
<1>5. OwnMessage'
  <2>1. \A d \in Callers : d # c => call'[d] = call[d] BY DEF Others
  <2> QED BY <1>1, <2>1 DEF HeldInv, OwnMessage
<1>6. InOnePlace'
  <2>1. mailbox \in [Sessions -> SUBSET Messages] BY DEF Base, TypeOK
  <2> SUFFICES ASSUME NEW u \in Sessions
               PROVE  /\ EachOnce(channel'[u])
                      /\ \A m \in mailbox[u] : m \notin ToSet(channel'[u])
    BY DEF InOnePlace
  <2>2. EachOnce(channel[u]) /\ \A m \in mailbox[u] : m \notin ToSet(channel[u])
    BY DEF HeldInv, InOnePlace
  <2>3. CASE u = s BY <1>1, <1>2, <2>1, <2>2, <2>3
  <2>4. CASE u # s BY <1>2, <2>2, <2>4
  <2> QED BY <2>3, <2>4
<1> QED BY <1>4, <1>5, <1>6 DEF HeldInv

\* send_op accepts a message: the session has it, and the call is over.
LEMMA HeldSubmit ==
    ASSUME Base, HeldInv, NEW c \in Callers, Others(c), NEW s \in Sessions,
           NEW m \in Messages, m = call[c].msg, call'[c].msg = None,
           channel' = [channel EXCEPT ![s] = Append(@, m)],
           sent' = sent \cup {m}, UNCHANGED <<mailbox, seen>>
    PROVE  HeldInv'
<1>1. None \notin Messages /\ sent \subseteq Messages /\ m \notin sent /\ m # Shutdown
  BY ResidencyAssumption DEF Base, TypeOK, HeldInv, OwnMessage
<1>2. \A u \in Sessions : ~Holds(u, m) BY <1>1 DEF HeldInv, HeldOnce
<1>3. m \notin ToSet(channel[s]) /\ m \notin mailbox[s] BY <1>2 DEF Holds
<1>4. /\ ToSet(channel'[s]) = ToSet(channel[s]) \cup {m}
      /\ \A u \in Sessions : u # s => channel'[u] = channel[u]
      /\ EachOnce(channel[s]) => EachOnce(channel'[s])
  BY <1>3, Appended
<1>5. \A u \in Sessions, x \in Messages :
         Holds(u, x)' <=> Holds(u, x) \/ (u = s /\ x = m)
  BY <1>4 DEF Holds
<1>6. OwnMessage'
  <2>1. \A d \in Callers : d # c => call'[d] = call[d] BY DEF Others
  <2>2. \A d \in Callers : d # c => call[d].msg # m
    BY <1>1 DEF HeldInv, OwnMessage
  <2> QED BY <1>1, <2>1, <2>2 DEF HeldInv, OwnMessage
<1>7. HeldOnce'
  <2>1. \A u \in Sessions, x \in Messages : Holds(u, x)' => x \in sent' \ seen'
    BY <1>1, <1>5 DEF HeldInv, HeldOnce
  <2>2. \A u, v \in Sessions, x \in Messages : Holds(u, x)' /\ Holds(v, x)' => u = v
    BY <1>2, <1>5 DEF HeldInv, HeldOnce
  <2>3. \A x \in sent' \ seen' : \E u \in Sessions : Holds(u, x)'
    BY <1>1, <1>5 DEF HeldInv, HeldOnce
  <2>4. seen' \subseteq sent' BY DEF HeldInv, HeldOnce
  <2> QED BY <2>1, <2>2, <2>3, <2>4 DEF HeldOnce
<1>8. InOnePlace'
  <2> SUFFICES ASSUME NEW u \in Sessions
               PROVE  /\ EachOnce(channel'[u])
                      /\ \A x \in mailbox[u] : x \notin ToSet(channel'[u])
    BY DEF InOnePlace
  <2>1. EachOnce(channel[u]) /\ \A x \in mailbox[u] : x \notin ToSet(channel[u])
    BY DEF HeldInv, InOnePlace
  <2>2. CASE u = s BY <1>3, <1>4, <2>1, <2>2
  <2>3. CASE u # s BY <1>4, <2>1, <2>3
  <2> QED BY <2>2, <2>3
<1> QED BY <1>6, <1>7, <1>8 DEF HeldInv

\* The loop queues the head of the channel as mail.
LEMMA HeldQueued ==
    ASSUME Base, HeldInv, NEW s \in Sessions, channel[s] # <<>>,
           Head(channel[s]) # Shutdown,
           channel' = [channel EXCEPT ![s] = Tail(@)],
           mailbox' = [mailbox EXCEPT ![s] = mailbox[s] \cup {Head(channel[s])}],
           UNCHANGED <<sent, seen, call>>
    PROVE  HeldInv'
<1> DEFINE m == Head(channel[s])
<1>1. EachOnce(channel[s]) BY DEF HeldInv, InOnePlace
<1>2. /\ m \in Messages /\ m \in ToSet(channel[s])
      /\ ToSet(channel'[s]) = ToSet(channel[s]) \ {m}
      /\ \A u \in Sessions : u # s => channel'[u] = channel[u]
      /\ EachOnce(channel'[s])
  BY <1>1, Headed
<1>3. /\ mailbox'[s] = mailbox[s] \cup {m}
      /\ \A u \in Sessions : u # s => mailbox'[u] = mailbox[u]
  BY DEF Base, TypeOK
<1> HIDE DEF m
<1>4. \A u \in Sessions, x \in Messages : Holds(u, x)' <=> Holds(u, x)
  BY <1>2, <1>3 DEF Holds
<1>5. HeldOnce'
  <2>1. sent \subseteq Messages BY DEF Base, TypeOK
  <2> QED BY <1>4, <2>1 DEF HeldInv, HeldOnce
<1>6. OwnMessage' BY DEF HeldInv, OwnMessage
<1>7. InOnePlace'
  <2> SUFFICES ASSUME NEW u \in Sessions
               PROVE  /\ EachOnce(channel'[u])
                      /\ \A x \in mailbox'[u] : x \notin ToSet(channel'[u])
    BY DEF InOnePlace
  <2>1. EachOnce(channel[u]) /\ \A x \in mailbox[u] : x \notin ToSet(channel[u])
    BY DEF HeldInv, InOnePlace
  <2>2. CASE u = s BY <1>2, <1>3, <2>1, <2>2
  <2>3. CASE u # s BY <1>2, <1>3, <2>1, <2>3
  <2> QED BY <2>2, <2>3
<1> QED BY <1>5, <1>6, <1>7 DEF HeldInv

\* A turn takes up mail: what it takes, no session holds any more.
LEMMA HeldTaken ==
    ASSUME Base, HeldInv, NEW s \in Sessions, NEW box, UNCHANGED <<sent, call>>,
           seen' = seen \cup box, mailbox' = [mailbox EXCEPT ![s] = {}],
           mailbox[s] \subseteq box, \A x \in box : x \in Messages /\ Holds(s, x),
           \A u \in Sessions : u # s => channel'[u] = channel[u],
           ToSet(channel'[s]) = ToSet(channel[s]) \ box, EachOnce(channel'[s])
    PROVE  HeldInv'
<1>1. mailbox'[s] = {} /\ \A u \in Sessions : u # s => mailbox'[u] = mailbox[u]
  BY DEF Base, TypeOK
<1>2. sent \subseteq Messages BY DEF Base, TypeOK
<1>3. \A u \in Sessions, x \in Messages : Holds(u, x)' <=> Holds(u, x) /\ x \notin box
  <2> TAKE u \in Sessions, x \in Messages
  <2>1. CASE u = s BY <1>1, <2>1 DEF Holds
  <2>2. CASE u # s
    <3>1. Holds(u, x)' <=> Holds(u, x) BY <1>1, <2>2 DEF Holds
    <3>2. Holds(u, x) => x \notin box BY <2>2 DEF HeldInv, HeldOnce
    <3> QED BY <3>1, <3>2
  <2> QED BY <2>1, <2>2
<1>4. HeldOnce'
  <2>1. \A u \in Sessions, x \in Messages : Holds(u, x)' => x \in sent' \ seen'
    BY <1>3 DEF HeldInv, HeldOnce
  <2>2. \A u, v \in Sessions, x \in Messages : Holds(u, x)' /\ Holds(v, x)' => u = v
    BY <1>3 DEF HeldInv, HeldOnce
  <2>3. \A x \in sent' \ seen' : \E u \in Sessions : Holds(u, x)'
    BY <1>2, <1>3 DEF HeldInv, HeldOnce
  <2>4. seen' \subseteq sent' BY DEF HeldInv, HeldOnce
  <2> QED BY <2>1, <2>2, <2>3, <2>4 DEF HeldOnce
<1>5. OwnMessage' BY DEF HeldInv, OwnMessage
<1>6. InOnePlace'
  <2> SUFFICES ASSUME NEW u \in Sessions
               PROVE  /\ EachOnce(channel'[u])
                      /\ \A x \in mailbox'[u] : x \notin ToSet(channel'[u])
    BY DEF InOnePlace
  <2>1. EachOnce(channel[u]) /\ \A x \in mailbox[u] : x \notin ToSet(channel[u])
    BY DEF HeldInv, InOnePlace
  <2> QED BY <1>1, <2>1
<1> QED BY <1>4, <1>5, <1>6 DEF HeldInv

LEMMA SessionHolds == ASSUME Base, HeldInv, NEW s \in Sessions, SessionStep(s) PROVE HeldInv'
<1>1. /\ mailbox \in [Sessions -> SUBSET Messages] /\ mailbox[s] \subseteq Messages
  BY DEF Base, TypeOK
<1>2. EachOnce(channel[s]) /\ \A x \in mailbox[s] : x \notin ToSet(channel[s])
  BY DEF HeldInv, InOnePlace
<1>3. CASE UNCHANGED <<channel, mailbox, sent, seen, call>>
  BY <1>3 DEF HeldInv, OwnMessage, HeldOnce, InOnePlace, Holds
<1>4. ASSUME UNCHANGED <<channel, sent, call>>, seen' = seen \cup mailbox[s],
             mailbox' = [mailbox EXCEPT ![s] = {}]
      PROVE  HeldInv'
  <2> DEFINE box == mailbox[s]
  <2>1. \A x \in box : x \in Messages /\ Holds(s, x) BY <1>1 DEF Holds
  <2>2. ToSet(channel'[s]) = ToSet(channel[s]) \ box BY <1>2, <1>4
  <2>3. seen' = seen \cup box /\ mailbox[s] \subseteq box BY <1>4
  <2>4. EachOnce(channel'[s]) BY <1>2, <1>4
  <2> HIDE DEF box
  <2> QED BY <1>4, <2>1, <2>2, <2>3, <2>4, HeldTaken
<1>5. CASE Drain(s) BY <1>4, <1>5 DEF Drain
<1>6. CASE Wake(s) BY <1>4, <1>6 DEF Wake, StartTurn
<1>7. CASE Terminate(s) BY <1>3, <1>4, <1>7 DEF Terminate
<1>8. ASSUME NEW i \in BOOLEAN, EndTurn(s, i) PROVE HeldInv' BY <1>3, <1>8 DEF EndTurn
<1>9. CASE Deliver(s)
  <2> DEFINE m == Head(channel[s])
             box == mailbox[s] \cup {m}
  <2>1. /\ channel[s] # <<>> /\ m # Shutdown
        /\ channel' = [channel EXCEPT ![s] = Tail(@)] /\ UNCHANGED <<sent, call>>
    BY <1>9 DEF Deliver
  <2>2. /\ m \in Messages /\ m \in ToSet(channel[s])
        /\ ToSet(channel'[s]) = ToSet(channel[s]) \ {m}
        /\ \A u \in Sessions : u # s => channel'[u] = channel[u]
        /\ EachOnce(channel'[s])
    BY <1>2, <2>1, Headed
  <2>3. CASE m \in Tasks /\ phase[s] # "turn"
    <3>1. seen' = seen \cup box /\ mailbox' = [mailbox EXCEPT ![s] = {}]
      BY <1>9, <2>3 DEF Deliver, StartTurn
    <3> HIDE DEF m
    <3>2. \A x \in box : x \in Messages /\ Holds(s, x) BY <1>1, <2>2 DEF Holds
    <3>3. ToSet(channel'[s]) = ToSet(channel[s]) \ box /\ mailbox[s] \subseteq box
      BY <1>2, <2>2
    <3> HIDE DEF box
    <3> QED BY <2>1, <2>2, <3>1, <3>2, <3>3, HeldTaken
  <2>4. CASE ~(m \in Tasks /\ phase[s] # "turn")
    <3>1. mailbox' = [mailbox EXCEPT ![s] = box] /\ UNCHANGED seen
      BY <1>9, <2>4 DEF Deliver
    <3> QED BY <2>1, <3>1, HeldQueued
  <2> QED BY <2>3, <2>4
<1> QED BY <1>5, <1>6, <1>7, <1>8, <1>9 DEF SessionStep

LEMMA CallerHolds ==
    ASSUME Base, HeldInv, NEW c \in Callers, NewCall(c) \/ CallerStep(c)
    PROVE  HeldInv'
<1>1. Moves(c) BY CallerMoves
<1>2. call \in [Callers -> Calls] /\ Others(c) /\ Rest /\ CallFits(c)
  BY <1>1, BaseFacts DEF Moves
<1> DEFINE Quiet == UNCHANGED <<channel, mailbox, sent, seen>>
           SameMsg == call'[c].msg = call[c].msg \/ call'[c].msg = None
<1>3. ASSUME Quiet, SameMsg PROVE HeldInv' BY <1>2, <1>3, HeldFrame
<1>4. \A a \in At : Goto(c, a) => SameMsg BY <1>2, GotoMoves
<1>5. Return(c) => SameMsg /\ call'[c].msg = None BY <1>2, ReturnMoves
<1> HIDE DEF SameMsg
<1>6. CASE Reserve(c)
  <2>1. CASE HasRoom BY <1>3, <1>4, <1>6, <2>1 DEF Reserve, work, At
  <2>2. CASE ~HasRoom
    <3>1. call' = [call EXCEPT ![c].at = "scan", ![c].left = Len(residents)]
      BY <1>6, <2>2 DEF Reserve
    <3>2. SameMsg BY <1>2, <3>1 DEF Calls, SameMsg
    <3> QED BY <1>3, <1>6, <3>2 DEF Reserve, work
  <2> QED BY <2>1, <2>2
<1>7. CASE Scan(c)
  <2>1. CASE Return(c) BY <1>3, <1>5, <1>7, <2>1 DEF Scan, work
  <2>2. CASE call' = [call EXCEPT ![c].at = "check", ![c].left = @ - 1,
                                  ![c].hand = Candidates(Protected(c))[1]]
    <3>1. SameMsg BY <1>2, <2>2 DEF Calls, SameMsg
    <3> QED BY <1>3, <1>7, <3>1 DEF Scan, work
  <2> QED BY <1>7, <2>1, <2>2 DEF Scan
<1>8. CASE Check(c)
  <2>1. CASE Goto(c, "scan") BY <1>3, <1>4, <1>8, <2>1 DEF Check, work, At
  <2>2. CASE call' = [call EXCEPT ![c].at = "ask", ![c].session = loaded[call[c].hand]]
    <3>1. SameMsg BY <1>2, <2>2 DEF Calls, SameMsg
    <3> QED BY <1>3, <1>8, <3>1 DEF Check, work
  <2> QED BY <1>8, <2>1, <2>2 DEF Check
<1>9. CASE Ask(c)
  <2>1. SameMsg /\ UNCHANGED <<mailbox, sent, seen>> BY <1>4, <1>9 DEF Ask, At
  <2> DEFINE s == call[c].session
             asks == s \in alive /\ Shutdown \notin ToSet(channel[s])
  <2>2. CASE asks
    <3>1. s \in Sessions BY <1>2, <2>2 DEF Rest
    <3> QED BY <1>2, <1>9, <2>1, <2>2, <3>1, HeldShutdown DEF Ask, SameMsg
  <2>3. CASE ~asks BY <1>3, <1>9, <2>1, <2>3 DEF Ask
  <2> QED BY <2>2, <2>3
<1>10. CASE Stop(c) BY <1>3, <1>4, <1>10 DEF Stop, work, At
<1>11. CASE Drop(c) BY <1>3, <1>4, <1>11 DEF Drop, work, At
<1>12. CASE Touch(c) BY <1>3, <1>4, <1>12 DEF Touch, work, At
<1>13. CASE Load(c) BY <1>3, <1>4, <1>13 DEF Load, At
<1>14. CASE LoadFails(c) BY <1>3, <1>4, <1>5, <1>14 DEF LoadFails, work, At
<1>15. CASE Commit(c) BY <1>3, <1>4, <1>15 DEF Commit, work, At
<1>16. CASE Send(c) BY <1>3, <1>4, <1>5, <1>16 DEF Send, work, At
<1>17. CASE Submit(c)
  <2>1. UNCHANGED <<mailbox, seen>> /\ call[c].at = "submit" BY <1>17 DEF Submit
  <2>2. CASE Return(c) /\ UNCHANGED <<channel, sent>> BY <1>3, <1>5, <2>1, <2>2
  <2>3. CASE Goto(c, "remove") /\ UNCHANGED <<channel, sent>>
    BY <1>3, <1>4, <2>1, <2>3 DEF At
  <2>4. ASSUME NEW s, s = loaded[call[c].thread], s \in alive, Submitted(s, call[c].msg),
               sent' = sent \cup {call[c].msg}, Return(c)
        PROVE  HeldInv'
    <3>1. s \in Sessions BY <1>2, <2>4 DEF Rest
    <3>2. call[c].msg \in Messages BY <1>2, <2>1 DEF CallFits
    <3>3. call'[c].msg = None BY <1>5, <2>4
    <3> QED BY <1>2, <2>1, <2>4, <3>1, <3>2, <3>3, HeldSubmit DEF Submitted
  <2> QED BY <1>17, <2>2, <2>3, <2>4 DEF Submit
<1>18. CASE RemoveDead(c) BY <1>3, <1>4, <1>18 DEF RemoveDead, work, At
<1>19. CASE Forget(c) BY <1>3, <1>4, <1>19 DEF Forget, work, At
<1>20. CASE Release(c) BY <1>3, <1>5, <1>20 DEF Release, work
<1>21. CASE UnloadDone(c) BY <1>3, <1>5, <1>21 DEF UnloadDone, work
<1>22. ASSUME NEW t \in Threads, NEW m \in Messages, NEW a \in At, NEW b \in BOOLEAN,
              Unused(m), Begin(c, a, t, m, b)
       PROVE  HeldInv'
  <2>1. call'[c].msg = m /\ Quiet BY <1>2, <1>22, BeginMoves DEF work
  <2>2. Unused(call'[c].msg) BY <1>22, <2>1
  <2> QED BY <1>2, <2>1, <2>2, HeldFrame
<1>23. ASSUME NEW t \in Threads, NEW m \in Messages, Spawn(c, t, m) PROVE HeldInv'
  BY <1>22, <1>23 DEF Spawn, At
<1>24. ASSUME NEW t \in Threads, NEW m \in Messages, Message(c, t, m) PROVE HeldInv'
  BY <1>22, <1>24 DEF Message, At
<1>25. ASSUME NEW t \in Threads, Unload(c, t) PROVE HeldInv'
  <2>1. loaded[t] \in Sessions BY <1>2, <1>25 DEF Unload, Rest
  <2>2. call'[c].msg = None BY <1>2, <1>25 DEF Unload, Idle
  <2> QED BY <1>2, <1>25, <2>1, <2>2, HeldShutdown DEF Unload, Submitted
<1> QED
  BY <1>6, <1>7, <1>8, <1>9, <1>10, <1>11, <1>12, <1>13, <1>14, <1>15, <1>16, <1>17, <1>18,
     <1>19, <1>20, <1>21, <1>23, <1>24, <1>25
  DEF CallerStep, NewCall

LEMMA HeldAlways == Spec => []HeldInv
<1>1. Init => HeldInv
  <2> SUFFICES ASSUME Init PROVE HeldInv OBVIOUS
  <2>1. OwnMessage BY DEF Init, OwnMessage, Idle
  <2>2. \A s \in Sessions : \A m : ~Holds(s, m) BY DEF Init, Holds, ToSet
  <2>3. HeldOnce BY <2>2 DEF Init, HeldOnce
  <2>4. InOnePlace BY DEF Init, InOnePlace, EachOnce
  <2> QED BY <2>1, <2>3, <2>4 DEF HeldInv
<1>2. Base /\ HeldInv /\ [Next]_vars => HeldInv'
  <2> SUFFICES ASSUME Base, HeldInv, [Next]_vars PROVE HeldInv' OBVIOUS
  <2>1. CASE UNCHANGED vars
    BY <2>1 DEF vars, HeldInv, OwnMessage, HeldOnce, InOnePlace, Holds
  <2>2. ASSUME NEW c \in Callers, Abort(c) PROVE HeldInv'
    <3>1. call \in [Callers -> Calls] /\ Return(c) BY <2>2, BaseFacts DEF Abort
    <3>2. Others(c) /\ call'[c].msg = None BY <3>1, ReturnMoves
    <3> QED BY <2>2, <3>2, HeldFrame DEF Abort, work
  <2> QED BY <2>1, <2>2, CallerHolds, SessionHolds DEF Next
<1> QED BY <1>1, <1>2, InvariantHolds, PTL DEF Spec

\* A message that send_op has accepted is in one place, for any number of
\* calls, agents and reloads: a turn has taken it up, or exactly one session
\* holds it.
THEOREM MessageIsHeldOnce == Spec => []MessageHeldOnce
<1>1. Base /\ HeldInv => MessageHeldOnce
  <2> SUFFICES ASSUME Base, HeldInv PROVE MessageHeldOnce OBVIOUS
  <2>1. sent \subseteq Messages /\ seen \subseteq Messages BY DEF Base, TypeOK
  <2>2. ASSUME NEW m \in sent \ seen PROVE Cardinality(Holders(m)) = 1
    <3>1. PICK s \in Sessions : Holds(s, m) BY DEF HeldInv, HeldOnce
    <3>2. Holders(m) = {s} BY <2>1, <3>1 DEF Holders, Holds, HeldInv, HeldOnce
    <3> QED BY <3>2, FS_Singleton
  <2>3. ASSUME NEW m \in seen PROVE Holders(m) = {}
    BY <2>1 DEF Holders, Holds, HeldInv, HeldOnce
  <2> QED BY <2>2, <2>3 DEF MessageHeldOnce
<1> QED BY <1>1, InvariantHolds, HeldAlways, PTL
=============================================================================
