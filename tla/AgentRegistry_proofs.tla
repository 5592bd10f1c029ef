------------------------ MODULE AgentRegistry_proofs ------------------------
(***************************************************************************)
(* Proofs about AgentRegistry, for any finite sets of callers and threads, *)
(* any set of paths and any mix of operations.  The inductive invariant    *)
(* RegistryInv joins the four facts that need each other: the count can    *)
(* only stay natural because it covers the callers that are about to       *)
(* subtract, a commit keeps index and tree together because the path it    *)
(* takes is still held for it, and that path is still held because the     *)
(* tree entry a release removes is the released thread's own.              *)
(***************************************************************************)
EXTENDS AgentRegistry, FiniteSetTheorems, TLAPS

Charges == Registered \cup Owing
WithinLimit == SpawnLimited => total <= MaxThreads
RegistryInv == TypeOK /\ IndexMatchesTree /\ PathsHeldOnce
                      /\ NeverUndercounts /\ WithinLimit

Charged(c) == call[c].at \in Starting \cup {"uncount"}

-----------------------------------------------------------------------------
\* A set with at most one element more has at most one more in cardinality.
LEMMA CardAdd ==
    ASSUME NEW S, IsFiniteSet(S), NEW x, NEW T, T \subseteq S \cup {x}
    PROVE  IsFiniteSet(T) /\ Cardinality(T) <= Cardinality(S) + 1
<1>1. /\ IsFiniteSet(S \cup {x})
      /\ Cardinality(S \cup {x}) <= Cardinality(S) + 1
      /\ Cardinality(S) \in Nat
  BY FS_AddElement, FS_CardinalityType
<1>2. IsFiniteSet(T) /\ Cardinality(T) <= Cardinality(S \cup {x})
  BY <1>1, FS_Subset
<1>3. Cardinality(T) \in Nat /\ Cardinality(S \cup {x}) \in Nat
  BY <1>1, <1>2, FS_CardinalityType
<1> QED BY <1>1, <1>2, <1>3

\* A set that lacks an element of S has fewer elements.
LEMMA CardDrop ==
    ASSUME NEW S, IsFiniteSet(S), NEW x \in S, NEW T, T \subseteq S \ {x}
    PROVE  /\ Cardinality(T) <= Cardinality(S) - 1
           /\ Cardinality(S) >= 1
<1>1. /\ IsFiniteSet(S \ {x})
      /\ Cardinality(S \ {x}) = Cardinality(S) - 1
      /\ Cardinality(S) \in Nat
  BY FS_RemoveElement, FS_CardinalityType
<1>2. IsFiniteSet(T) /\ Cardinality(T) <= Cardinality(S \ {x})
  BY <1>1, FS_Subset
<1>3. Cardinality(T) \in Nat /\ Cardinality(S \ {x}) \in Nat
  BY <1>1, <1>2, FS_CardinalityType
<1> QED BY <1>1, <1>2, <1>3

\* A set that has one element of S exchanged for another is not larger.
LEMMA CardSwap ==
    ASSUME NEW S, IsFiniteSet(S), NEW x \in S, NEW y, NEW T,
           T \subseteq (S \ {x}) \cup {y}
    PROVE  Cardinality(T) <= Cardinality(S)
<1>1. /\ IsFiniteSet(S \ {x})
      /\ Cardinality(S \ {x}) = Cardinality(S) - 1
      /\ Cardinality(S) \in Nat
  BY FS_RemoveElement, FS_CardinalityType
<1>2. IsFiniteSet(T) /\ Cardinality(T) <= Cardinality(S \ {x}) + 1
  BY <1>1, CardAdd
<1>3. Cardinality(T) \in Nat BY <1>2, FS_CardinalityType
<1> QED BY <1>1, <1>2, <1>3

\* What the counter covers is a finite set.
LEMMA ChargesFinite == IsFiniteSet(Charges) /\ Cardinality(Charges) \in Nat
<1>1. IsFiniteSet(Threads \cup Callers)
  BY RegistryAssumption, FS_Union
<1>2. Charges \subseteq Threads \cup Callers
  BY DEF Charges, Registered, Owing
<1>3. IsFiniteSet(Charges) BY <1>1, <1>2, FS_Subset
<1> QED BY <1>3, FS_CardinalityType

\* The counter starts at what it covers.
LEMMA InitInv == Init => RegistryInv
<1> SUFFICES ASSUME Init PROVE RegistryInv OBVIOUS
<1>1. TypeOK
  BY RegistryAssumption
  DEF Init, TypeOK, CallShape, Calls, Idle, At, Starting, Keys
<1>2. IndexMatchesTree
  BY RegistryAssumption DEF Init, IndexMatchesTree, Keys
<1>3. PathsHeldOnce
  BY RegistryAssumption DEF Init, PathsHeldOnce, HoldsPath, Idle, Keys
<1>4. NeverUndercounts
  <2>1. Registered = {} BY DEF Init, Registered
  <2>2. Owing = {} BY DEF Init, Owing, Idle, Starting
  <2>3. Registered \cup Owing = {} BY <2>1, <2>2
  <2> QED BY <2>3, FS_EmptySet DEF Init, NeverUndercounts
<1>5. WithinLimit BY RegistryAssumption DEF Init, WithinLimit
<1> QED BY <1>1, <1>2, <1>3, <1>4, <1>5 DEF RegistryInv

\* Steps that leave the registry and the count alone, start no path and
\* charge no caller, keep the invariant.
LEMMA QuietStep ==
    ASSUME RegistryInv, TypeOK', UNCHANGED <<tree, threadPaths, total>>,
           \A d \in Callers : Charged(d)' => Charged(d),
           \A d \in Callers : HoldsPath(d)' <=> HoldsPath(d),
           \A d \in Callers : HoldsPath(d) => call'[d].key = call[d].key
    PROVE  RegistryInv'
<1>1. IndexMatchesTree' BY DEF RegistryInv, IndexMatchesTree
<1>2. PathsHeldOnce' BY DEF RegistryInv, PathsHeldOnce
<1>3. NeverUndercounts'
  <2>1. Charges' \subseteq Charges
    BY DEF Charges, Registered, Owing, Charged
  <2>2. Cardinality(Charges') <= Cardinality(Charges)
    BY <2>1, ChargesFinite, FS_Subset
  <2>3. Cardinality(Charges') \in Nat
    BY <2>1, ChargesFinite, FS_Subset, FS_CardinalityType
  <2> QED
    BY <2>2, <2>3, ChargesFinite
    DEF RegistryInv, NeverUndercounts, Charges, TypeOK
<1>4. WithinLimit' BY DEF RegistryInv, WithinLimit
<1> QED BY <1>1, <1>2, <1>3, <1>4 DEF RegistryInv

-----------------------------------------------------------------------------
\* Every action keeps the types; only Uncount, which subtracts, needs more
\* than the types: the caller it subtracts for is covered by the count.
LEMMA TypeStep == ASSUME RegistryInv, [Next]_vars PROVE TypeOK'
<1> USE RegistryAssumption
    DEF RegistryInv, TypeOK, CallShape, Calls, At, Starting, AllOps, Keys,
        registry, manager
<1>1. ASSUME NEW c \in Callers, NEW t \in Threads, NEW k \in Keys,
             Spawn(c, t, k)
      PROVE TypeOK'
  BY <1>1 DEF Spawn, Begin
<1>2. ASSUME NEW c \in Callers, NEW t \in Threads, Resume(c, t)
      PROVE TypeOK'
  BY <1>2 DEF Resume, Begin
<1>3. ASSUME NEW c \in Callers, NEW t \in Threads,
             Close(c, t) \/ Send(c, t) \/ Unload(c, t)
      PROVE TypeOK'
  <2>1. CASE Close(c, t) BY <2>1 DEF Close, Target
  <2>2. CASE Send(c, t) BY <2>2 DEF Send, Target
  <2>3. CASE Unload(c, t)
    <3>1. asked' \subseteq Nat
      <4>1. loaded[t] \in Nat /\ asked \subseteq Nat OBVIOUS
      <4>2. asked' = asked \cup {loaded[t]} BY <2>3 DEF Unload
      <4> HIDE DEF RegistryInv, TypeOK, CallShape, Calls
      <4> QED BY <4>1, <4>2
    <3>2. (call \in [Callers -> Calls])' /\ CallShape'
      BY <2>3 DEF Unload, Target
    <3> QED BY <2>3, <3>1, <3>2 DEF Unload
  <2> QED BY <1>3, <2>1, <2>2, <2>3
<1>4. ASSUME NEW c \in Callers, Prepare(c) PROVE TypeOK'
  BY <1>4 DEF Prepare, Goto
<1>5. ASSUME NEW c \in Callers, Create(c) PROVE TypeOK'
  BY <1>5 DEF Create, Goto
<1>6. ASSUME NEW c \in Callers, CreateFails(c) PROVE TypeOK'
  BY <1>6 DEF CreateFails, ReleaseReservedPath, Goto
<1>7. ASSUME NEW c \in Callers, Commit(c) PROVE TypeOK'
  BY <1>7 DEF Commit, RegisterSpawned, TreeWith, PathsWith, Goto, Return, Idle
<1>8. ASSUME NEW c \in Callers, Uncount(c) PROVE TypeOK'
  <2>1. c \in Charges BY <1>8 DEF Uncount, Charges, Owing
  <2>2. Cardinality(Charges) >= 1
    BY <2>1, ChargesFinite, CardDrop
  <2>3. total >= 1
    BY <2>2, ChargesFinite DEF NeverUndercounts, Charges
  <2> QED BY <1>8, <2>3 DEF Uncount, Return, Idle
<1>9. ASSUME NEW c \in Callers, CloseFind(c) \/ CloseAsk(c) PROVE TypeOK'
  BY <1>9 DEF CloseFind, CloseAsk, Target, Goto, Return, Idle
<1>10. ASSUME NEW c \in Callers, CloseWait(c) \/ Remove(c) PROVE TypeOK'
  BY <1>10 DEF CloseWait, Remove, Goto
<1>11. ASSUME NEW c \in Callers, Release(c) PROVE TypeOK'
  <2>1. CASE call' = [call EXCEPT ![c].at = "uncount"]
    BY <1>11, <2>1 DEF Release
  <2>2. CASE call' = [call EXCEPT ![c] = Idle]
    BY <1>11, <2>2 DEF Release, Idle
  <2> QED BY <1>11, <2>1, <2>2 DEF Release, Goto, Return
<1>12. ASSUME NEW c \in Callers, Tell(c) \/ SendDone(c) PROVE TypeOK'
  BY <1>12 DEF Tell, SendDone, Target, Goto, Return, Idle
<1>13. ASSUME NEW c \in Callers, UnloadDone(c) PROVE TypeOK'
  BY <1>13 DEF UnloadDone, Return, Idle
<1>14. ASSUME NEW n \in alive, Terminate(n) PROVE TypeOK'
  BY <1>14 DEF Terminate
<1>15. CASE UNCHANGED vars
  BY <1>15 DEF vars
<1> QED
  BY <1>1, <1>2, <1>3, <1>4, <1>5, <1>6, <1>7, <1>8, <1>9, <1>10, <1>11,
     <1>12, <1>13, <1>14, <1>15
  DEF Next, NewCall, CallerStep

-----------------------------------------------------------------------------
\* A call that begins is charged and counted in one step.
LEMMA BeginStep ==
    ASSUME RegistryInv, TypeOK', NEW c \in Callers, call[c] = Idle,
           NEW op, NEW t, NEW k, Begin(c, op, t, k),
           SpawnLimited => total < MaxThreads
    PROVE  RegistryInv'
<1> USE DEF RegistryInv, TypeOK
<1>1. /\ \A d \in Callers \ {c} : call'[d] = call[d]
      /\ call'[c].at = "slot" /\ call[c].at = "idle"
      /\ total' = total + 1
      /\ UNCHANGED <<tree, threadPaths>>
  BY DEF Begin, Idle, registry
<1>2. IndexMatchesTree' BY <1>1 DEF IndexMatchesTree
<1>3. PathsHeldOnce'
  <2>1. \A d \in Callers : HoldsPath(d)' <=> HoldsPath(d)
    BY <1>1 DEF HoldsPath
  <2>2. \A d \in Callers : HoldsPath(d) => call'[d].key = call[d].key
    BY <1>1 DEF HoldsPath
  <2> QED BY <1>1, <2>1, <2>2 DEF PathsHeldOnce
<1>4. NeverUndercounts'
  <2>1. Charges' \subseteq Charges \cup {c}
    BY <1>1 DEF Charges, Registered, Owing
  <2>2. IsFiniteSet(Charges') /\ Cardinality(Charges') <= Cardinality(Charges) + 1
    BY <2>1, ChargesFinite, CardAdd
  <2>3. Cardinality(Charges') \in Nat BY <2>2, FS_CardinalityType
  <2> QED BY <1>1, <2>2, <2>3, ChargesFinite DEF NeverUndercounts, Charges
<1>5. WithinLimit' BY <1>1, RegistryAssumption DEF WithinLimit
<1> QED BY <1>2, <1>3, <1>4, <1>5

\* Holding a vacant path leaves the other holders and the agents alone.
LEMMA PrepareStep ==
    ASSUME RegistryInv, TypeOK', NEW c \in Callers, Prepare(c)
    PROVE  RegistryInv'
<1> USE RegistryAssumption DEF RegistryInv, TypeOK, Keys
<1> DEFINE k == call[c].key
<1>1. /\ \A d \in Callers \ {c} : call'[d] = call[d]
      /\ call[c].at = "slot" /\ call'[c].key = k
      /\ call'[c].at \in {"prepared", "uncount"}
      /\ UNCHANGED <<threadPaths, total>>
  BY DEF Prepare, Goto, Calls
<1>2. \A d \in Callers : Charged(d)' => Charged(d)
  BY <1>1 DEF Charged, Starting
<1>3. CASE UNCHANGED tree /\ (call'[c].at = "uncount" \/ k \notin Paths)
  <2>1. \A d \in Callers : HoldsPath(d)' <=> HoldsPath(d)
    BY <1>1, <1>3 DEF HoldsPath
  <2>2. \A d \in Callers : HoldsPath(d) => call'[d].key = call[d].key
    BY <1>1 DEF HoldsPath
  <2> QED BY <1>1, <1>2, <1>3, <2>1, <2>2, QuietStep
<1>4. CASE /\ k \in Paths /\ tree[k] = None /\ call'[c].at = "prepared"
           /\ tree' = [tree EXCEPT ![k] = Reserved]
  <2>1. IndexMatchesTree'
    BY <1>1, <1>4 DEF IndexMatchesTree
  <2>2. ~HoldsPath(c) /\ HoldsPath(c)'
    BY <1>1, <1>4 DEF HoldsPath
  <2>3. \A d \in Callers \ {c} : HoldsPath(d)' <=> HoldsPath(d)
    BY <1>1 DEF HoldsPath
  <2>4. \A d \in Callers : HoldsPath(d) => call[d].key # k
    BY <1>4 DEF PathsHeldOnce
  <2>5. \A d \in Callers : HoldsPath(d)' => call'[d].key \in Paths
    BY DEF HoldsPath
  <2>6. PathsHeldOnce'
    BY <1>1, <1>4, <2>2, <2>3, <2>4, <2>5 DEF PathsHeldOnce
  <2>7. NeverUndercounts'
    <3>1. Charges' = Charges
      BY <1>1, <1>4 DEF Charges, Registered, Owing, Starting
    <3> QED BY <1>1, <3>1 DEF NeverUndercounts, Charges
  <2> QED BY <1>1, <2>1, <2>6, <2>7 DEF WithinLimit
<1> QED BY <1>3, <1>4 DEF Prepare, Goto, Calls

\* A reservation that is dropped gives back the path it holds and no other.
LEMMA CreateFailsStep ==
    ASSUME RegistryInv, TypeOK', NEW c \in Callers, CreateFails(c)
    PROVE  RegistryInv'
<1> USE RegistryAssumption DEF RegistryInv, TypeOK, Keys
<1> DEFINE k == call[c].key
<1>1. /\ \A d \in Callers \ {c} : call'[d] = call[d]
      /\ call[c].at = "prepared" /\ call'[c].at = "uncount"
      /\ call'[c].key = k
      /\ UNCHANGED <<threadPaths, total>>
  BY DEF CreateFails, ReleaseReservedPath, Goto, Calls
<1>2. ~HoldsPath(c)'
  BY <1>1 DEF HoldsPath
<1>3. \A d \in Callers \ {c} : HoldsPath(d)' <=> HoldsPath(d)
  BY <1>1 DEF HoldsPath
<1>4. CASE k \notin Paths
  <2>1. UNCHANGED tree /\ ~HoldsPath(c)
    BY <1>4 DEF CreateFails, ReleaseReservedPath, HoldsPath
  <2>2. \A d \in Callers : Charged(d)' => Charged(d)
    BY <1>1 DEF Charged, Starting
  <2> QED BY <1>1, <1>2, <1>3, <2>1, <2>2, QuietStep
<1>5. CASE k \in Paths
  <2>1. HoldsPath(c) /\ tree[k] = Reserved
    BY <1>1, <1>5 DEF HoldsPath, PathsHeldOnce
  <2>2. tree' = [tree EXCEPT ![k] = None]
    BY <2>1 DEF CreateFails, ReleaseReservedPath
  <2>3. IndexMatchesTree'
    BY <1>1, <1>5, <2>1, <2>2 DEF IndexMatchesTree
  <2>4. \A d \in Callers \ {c} : HoldsPath(d) => call[d].key # k
    BY <2>1 DEF PathsHeldOnce
  <2>5. \A d \in Callers : HoldsPath(d) => call[d].key \in Paths
    BY DEF HoldsPath
  <2>6. PathsHeldOnce'
    BY <1>1, <1>2, <1>3, <1>5, <2>1, <2>2, <2>4, <2>5 DEF PathsHeldOnce
  <2>7. NeverUndercounts'
    <3>1. Charges' = Charges
      BY <1>1 DEF Charges, Registered, Owing, Starting
    <3> QED BY <1>1, <3>1 DEF NeverUndercounts, Charges
  <2> QED BY <1>1, <2>3, <2>6, <2>7 DEF WithinLimit
<1> QED BY <1>4, <1>5

\* A commit turns the reservation into an entry: the caller is no longer
\* charged, its thread is, and whoever had the key is not.
LEMMA CommitStep ==
    ASSUME RegistryInv, TypeOK', NEW c \in Callers, Commit(c)
    PROVE  RegistryInv'
<1> USE RegistryAssumption DEF RegistryInv, TypeOK, Keys
<1> DEFINE k == call[c].key
           t == call[c].thread
<1>1. /\ \A d \in Callers \ {c} : call'[d] = call[d]
      /\ call[c].at = "created" /\ call'[c].at \in {"tell", "idle"}
      /\ UNCHANGED total
  BY DEF Commit, Goto, Return, Idle, Calls
<1>2. t \in Threads /\ k \in Paths \cup {t}
  BY <1>1 DEF CallShape, Starting
<1>3. k \in Paths => tree[k] = Reserved
  BY <1>1 DEF PathsHeldOnce, HoldsPath
<1>4. tree' = TreeWith(t, k) /\ threadPaths' = PathsWith(t, k)
  BY DEF Commit, RegisterSpawned
<1>5. \A j \in Keys : tree'[j] = IF j = k THEN t
                               ELSE IF j = threadPaths[t] THEN None
                               ELSE tree[j]
  BY <1>2, <1>4 DEF TreeWith
<1>6. \A u \in Threads : threadPaths'[u] = IF u = t THEN k
                               ELSE IF u = tree[k] THEN None
                               ELSE threadPaths[u]
  BY <1>2, <1>4 DEF PathsWith
<1>7. IndexMatchesTree'
  <2> SUFFICES ASSUME NEW u \in Threads, NEW j \in Keys
               PROVE threadPaths'[u] = j <=> tree'[j] = u
    BY DEF IndexMatchesTree
  <2>1. threadPaths[u] = j <=> tree[j] = u BY DEF IndexMatchesTree
  <2>2. threadPaths[u] = k <=> tree[k] = u BY <1>2 DEF IndexMatchesTree
  <2>3. threadPaths[t] = j <=> tree[j] = t BY <1>2 DEF IndexMatchesTree
  <2> QED BY <1>2, <1>5, <1>6, <2>1, <2>2, <2>3
<1>8. PathsHeldOnce'
  <2>1. ~HoldsPath(c)' BY <1>1 DEF HoldsPath
  <2>2. \A d \in Callers \ {c} : HoldsPath(d)' <=> HoldsPath(d)
    BY <1>1 DEF HoldsPath
  <2>3. \A d \in Callers : HoldsPath(d) => call[d].key \in Paths
    BY DEF HoldsPath
  <2>4. \A d \in Callers \ {c} : HoldsPath(d) => call[d].key # k
    <3>1. k \in Paths => HoldsPath(c) BY <1>1 DEF HoldsPath
    <3> QED BY <1>2, <2>3, <3>1 DEF PathsHeldOnce
  <2>5. threadPaths[t] \in Keys => tree[threadPaths[t]] = t
    BY <1>2 DEF IndexMatchesTree
  <2>6. \A j \in Keys : tree[j] = Reserved /\ j # k => tree'[j] = Reserved
    BY <1>2, <1>5, <2>5
  <2>7. \A j \in Keys : tree'[j] = Reserved => tree[j] = Reserved /\ j # k
    BY <1>2, <1>5
  <2>8. HoldsPath(c) => call[c].key = k OBVIOUS
  <2> QED
    BY <1>1, <2>1, <2>2, <2>3, <2>4, <2>6, <2>7, <2>8 DEF PathsHeldOnce
<1>9. NeverUndercounts'
  <2>1. c \in Charges BY <1>1 DEF Charges, Owing, Starting
  <2>2. c \notin Charges'
    BY <1>1, <1>2 DEF Charges, Owing, Registered, Starting
  <2>3. Charges' \subseteq (Charges \ {c}) \cup {t}
    BY <1>1, <1>2, <1>6, <2>2 DEF Charges, Registered, Owing
  <2>4. Cardinality(Charges') <= Cardinality(Charges)
    BY <2>1, <2>3, ChargesFinite, CardSwap
  <2>5. Cardinality(Charges') \in Nat
    <3>1. IsFiniteSet(Charges')
      BY <2>3, ChargesFinite, CardAdd, FS_RemoveElement
    <3> QED BY <3>1, FS_CardinalityType
  <2> QED BY <1>1, <2>4, <2>5, ChargesFinite DEF NeverUndercounts, Charges
<1> QED BY <1>1, <1>7, <1>8, <1>9 DEF WithinLimit

\* The caller that subtracts was charged and is not any more.
LEMMA UncountStep ==
    ASSUME RegistryInv, TypeOK', NEW c \in Callers, Uncount(c)
    PROVE  RegistryInv'
<1> USE RegistryAssumption DEF RegistryInv, TypeOK
<1>1. /\ \A d \in Callers \ {c} : call'[d] = call[d]
      /\ call[c].at = "uncount" /\ call'[c].at = "idle"
      /\ total' = total - 1
      /\ UNCHANGED <<tree, threadPaths>>
  BY DEF Uncount, Return, Idle, Calls, registry
<1>2. IndexMatchesTree' BY <1>1 DEF IndexMatchesTree
<1>3. PathsHeldOnce'
  <2>1. \A d \in Callers : HoldsPath(d)' <=> HoldsPath(d)
    BY <1>1 DEF HoldsPath
  <2>2. \A d \in Callers : HoldsPath(d) => call'[d].key = call[d].key
    BY <1>1 DEF HoldsPath
  <2> QED BY <1>1, <2>1, <2>2 DEF PathsHeldOnce
<1>4. NeverUndercounts'
  <2>1. c \in Charges /\ c \notin Threads
    BY <1>1 DEF Charges, Owing
  <2>2. Charges' \subseteq Charges \ {c}
    BY <1>1, <2>1 DEF Charges, Registered, Owing, Starting
  <2>3. Cardinality(Charges') <= Cardinality(Charges) - 1
    BY <2>1, <2>2, ChargesFinite, CardDrop
  <2>4. Cardinality(Charges') \in Nat
    <3>1. Charges' \subseteq Charges BY <2>2
    <3>2. IsFiniteSet(Charges') BY <3>1, ChargesFinite, FS_Subset
    <3> QED BY <3>2, FS_CardinalityType
  <2> QED BY <1>1, <2>3, <2>4, ChargesFinite DEF NeverUndercounts, Charges
<1>5. WithinLimit' BY <1>1 DEF WithinLimit
<1> QED BY <1>2, <1>3, <1>4, <1>5

\* A release takes out the thread's own entry and moves its charge to the
\* caller, which has yet to subtract.
LEMMA ReleaseStep ==
    ASSUME RegistryInv, TypeOK', NEW c \in Callers, Release(c)
    PROVE  RegistryInv'
<1> USE RegistryAssumption DEF RegistryInv, TypeOK, Keys
<1> DEFINE t == call[c].thread
           k == threadPaths[t]
<1>1. /\ \A d \in Callers \ {c} : call'[d] = call[d]
      /\ call[c].at = "release" /\ call'[c].at \in {"uncount", "idle"}
      /\ UNCHANGED total
  BY DEF Release, Goto, Return, Idle, Calls
<1>2. t \in Threads BY <1>1 DEF CallShape
<1>3. /\ \A d \in Callers : HoldsPath(d)' <=> HoldsPath(d)
      /\ \A d \in Callers : HoldsPath(d) => call'[d].key = call[d].key
  BY <1>1 DEF HoldsPath
<1>4. CASE k = None
  <2>1. threadPaths' = threadPaths /\ tree' = tree /\ call'[c].at = "idle"
    BY <1>2, <1>4 DEF Release, Return, Idle
  <2>2. \A d \in Callers : Charged(d)' => Charged(d)
    BY <1>1, <2>1 DEF Charged, Starting
  <2> QED BY <1>1, <1>3, <2>1, <2>2, QuietStep
<1>5. CASE k # None
  <2>1. k \in Keys /\ tree[k] = t
    BY <1>2, <1>5 DEF IndexMatchesTree
  <2>2. /\ threadPaths' = [threadPaths EXCEPT ![t] = None]
        /\ tree' = [tree EXCEPT ![k] = None]
    BY <1>5 DEF Release
  <2>3. IndexMatchesTree'
    BY <1>2, <2>1, <2>2 DEF IndexMatchesTree
  <2>4. PathsHeldOnce'
    BY <1>2, <1>3, <2>1, <2>2 DEF PathsHeldOnce
  <2>5. NeverUndercounts'
    <3>1. t \in Charges BY <1>2, <1>5 DEF Charges, Registered
    <3>2. Charges' \subseteq (Charges \ {t}) \cup {c}
      BY <1>1, <1>2, <2>2 DEF Charges, Registered, Owing
    <3>3. Cardinality(Charges') <= Cardinality(Charges)
      BY <3>1, <3>2, ChargesFinite, CardSwap
    <3>4. Cardinality(Charges') \in Nat
      <4>1. IsFiniteSet(Charges')
        BY <3>2, ChargesFinite, CardAdd, FS_RemoveElement
      <4> QED BY <4>1, FS_CardinalityType
    <3> QED BY <1>1, <3>3, <3>4, ChargesFinite DEF NeverUndercounts, Charges
  <2> QED BY <1>1, <2>3, <2>4, <2>5 DEF WithinLimit
<1> QED BY <1>4, <1>5

-----------------------------------------------------------------------------
\* Every step keeps the invariant.
LEMMA StepInv == ASSUME RegistryInv, [Next]_vars PROVE RegistryInv'
<1>0. TypeOK' BY TypeStep
<1>1. ASSUME NEW c \in Callers, NewCall(c) PROVE RegistryInv'
  <2>1. ASSUME NEW u \in Threads, NEW k \in Keys, Spawn(c, u, k)
        PROVE RegistryInv'
    BY <1>0, <2>1, BeginStep DEF Spawn, SlotFree
  <2>2. ASSUME NEW u \in Threads, Resume(c, u) PROVE RegistryInv'
    BY <1>0, <2>2, BeginStep DEF Resume, SlotFree
  <2>3. ASSUME NEW u \in Threads, Close(c, u) \/ Send(c, u) \/ Unload(c, u)
        PROVE RegistryInv'
    <3>1. /\ \A d \in Callers \ {c} : call'[d] = call[d]
          /\ call[c].at = "idle"
          /\ call'[c].at \in {"close", "send", "unload"}
          /\ UNCHANGED <<tree, threadPaths, total>>
      BY <2>3 DEF Close, Send, Unload, Target, Idle, RegistryInv, TypeOK,
                  registry
    <3>2. \A d \in Callers : Charged(d)' => Charged(d)
      BY <3>1 DEF Charged, Starting
    <3>3. /\ \A d \in Callers : HoldsPath(d)' <=> HoldsPath(d)
          /\ \A d \in Callers : HoldsPath(d) => call'[d].key = call[d].key
      BY <3>1 DEF HoldsPath
    <3> QED BY <1>0, <3>1, <3>2, <3>3, QuietStep
  <2> QED BY <1>1, <2>1, <2>2, <2>3 DEF NewCall
<1>2. ASSUME NEW c \in Callers,
             Create(c) \/ CloseFind(c) \/ CloseAsk(c) \/ CloseWait(c)
             \/ Remove(c) \/ Tell(c) \/ SendDone(c) \/ UnloadDone(c)
      PROVE RegistryInv'
  <2>1. /\ \A d \in Callers \ {c} : call'[d] = call[d]
        /\ UNCHANGED <<tree, threadPaths, total>>
    BY <1>2 DEF Create, CloseFind, CloseAsk, CloseWait, Remove, Tell,
                SendDone, UnloadDone, Goto, Return, Target, RegistryInv, TypeOK, registry
  <2>2. \/ /\ call[c].at = "prepared" /\ call'[c].at = "created"
           /\ call'[c].key = call[c].key
        \/ /\ call[c].at \notin Starting \cup {"uncount"}
           /\ call'[c].at \notin Starting \cup {"uncount"}
    BY <1>2 DEF Create, CloseFind, CloseAsk, CloseWait, Remove, Tell,
                SendDone, UnloadDone, Goto, Return, Target, Idle, RegistryInv, TypeOK,
                Calls, Starting
  <2>3. \A d \in Callers : Charged(d)' => Charged(d)
    BY <2>1, <2>2 DEF Charged, Starting
  <2>4. /\ \A d \in Callers : HoldsPath(d)' <=> HoldsPath(d)
        /\ \A d \in Callers : HoldsPath(d) => call'[d].key = call[d].key
    BY <2>1, <2>2 DEF HoldsPath, Starting
  <2> QED BY <1>0, <2>1, <2>3, <2>4, QuietStep
<1>3. ASSUME UNCHANGED <<tree, threadPaths, total, call>> PROVE RegistryInv'
  <2>1. \A d \in Callers : Charged(d)' => Charged(d) BY <1>3 DEF Charged
  <2>2. /\ \A d \in Callers : HoldsPath(d)' <=> HoldsPath(d)
        /\ \A d \in Callers : HoldsPath(d) => call'[d].key = call[d].key
    BY <1>3 DEF HoldsPath
  <2> QED BY <1>0, <1>3, <2>1, <2>2, QuietStep
<1>4. ASSUME NEW c \in Callers, CallerStep(c) PROVE RegistryInv'
  BY <1>0, <1>2, <1>4, PrepareStep, CreateFailsStep, CommitStep, UncountStep,
     ReleaseStep DEF CallerStep
<1>5. CASE UNCHANGED vars BY <1>3, <1>5 DEF vars
<1>6. ASSUME NEW n \in alive, Terminate(n) PROVE RegistryInv'
  BY <1>3, <1>6 DEF Terminate, registry
<1> QED BY <1>1, <1>4, <1>5, <1>6 DEF Next

\* The inductive invariant holds in every session tree.
THEOREM RegistryInvariant == Spec => []RegistryInv
BY InitInv, StepInv, PTL DEF Spec

\* For every finite set of callers and threads: the index and the tree
\* agree, so release_spawned_thread never removes another agent's entry.
THEOREM IndexAndTreeAgree == Spec => []IndexMatchesTree
<1>1. RegistryInv => IndexMatchesTree BY DEF RegistryInv
<1> QED BY <1>1, RegistryInvariant, PTL

\* A held agent path has exactly one holder, which keeps it until it commits
\* or gives it back.
THEOREM PathsAreHeldOnce == Spec => []PathsHeldOnce
<1>1. RegistryInv => PathsHeldOnce BY DEF RegistryInv
<1> QED BY <1>1, RegistryInvariant, PTL

\* total_count never falls below what it stands for, however closes, sends,
\* spawns and resumes interleave; in particular fetch_sub never wraps.
THEOREM CountCovers == Spec => []NeverUndercounts
<1>1. RegistryInv => NeverUndercounts BY DEF RegistryInv
<1> QED BY <1>1, RegistryInvariant, PTL

\* Where every start passes max_threads, the registered and starting agents
\* never exceed it.
THEOREM LimitHolds == Spec => []RegisteredWithinLimit
<1>1. RegistryInv => RegisteredWithinLimit
  BY ChargesFinite, RegistryAssumption
  DEF RegistryInv, TypeOK, NeverUndercounts, WithinLimit,
      RegisteredWithinLimit, Charges
<1> QED BY <1>1, RegistryInvariant, PTL

\* A path never passes from an agent that has it to another in one step.
THEOREM PathKeepsItsAgent == Spec => PathNeverRebound
<1>1. ASSUME RegistryInv, [Next]_vars
      PROVE  [\A k \in Paths : tree[k] \in Threads /\ tree'[k] \in Threads
                                => tree'[k] = tree[k]]_vars
  <2> SUFFICES ASSUME Next, NEW k \in Paths,
                      tree[k] \in Threads, tree'[k] \in Threads
               PROVE  tree'[k] = tree[k]
    BY <1>1
  <2> USE RegistryAssumption DEF RegistryInv, TypeOK, Keys
  <2>1. ASSUME NEW c \in Callers, Commit(c) PROVE tree'[k] = tree[k]
    <3>1. HoldsPath(c) => call[c].key # k
      BY <1>1 DEF PathsHeldOnce
    <3>2. call[c].at = "created" /\ call[c].thread \in Threads
          /\ call[c].key \in Paths \cup {call[c].thread}
      BY <1>1, <2>1 DEF Commit, CallShape, Starting
    <3>3. call[c].key # k BY <3>1, <3>2 DEF HoldsPath
    <3> QED BY <1>1, <2>1, <3>2, <3>3 DEF Commit, RegisterSpawned, TreeWith
  <2>2. ASSUME NEW c \in Callers,
               Prepare(c) \/ CreateFails(c) \/ Release(c)
        PROVE  tree'[k] = tree[k]
    BY <1>1, <2>2 DEF Prepare, CreateFails, ReleaseReservedPath, Release
  <2>3. CASE UNCHANGED tree BY <2>3
  <2>4. ASSUME NEW c \in Callers, NewCall(c) PROVE UNCHANGED tree
    BY <2>4 DEF NewCall, Spawn, Resume, Begin, Close, Send, Unload, registry
  <2>5. ASSUME NEW c \in Callers, CallerStep(c) PROVE tree'[k] = tree[k]
    BY <2>1, <2>2, <2>5
    DEF CallerStep, Create, Uncount, CloseFind, CloseAsk, CloseWait, Remove,
        Tell, SendDone, UnloadDone, registry
  <2>6. ASSUME NEW n \in alive, Terminate(n) PROVE UNCHANGED tree
    BY <2>6 DEF Terminate, registry
  <2> QED BY <2>4, <2>5, <2>6 DEF Next
<1> QED BY <1>1, RegistryInvariant, PTL DEF Spec, PathNeverRebound
=============================================================================
