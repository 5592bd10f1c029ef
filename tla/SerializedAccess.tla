-------------------------- MODULE SerializedAccess --------------------------
(***************************************************************************)
(* What request serialization promises, without queues, tasks or wake-ups. *)
(* The requests for one resource (key) are numbered in the order in which  *)
(* they arrive.  An exclusive request begins when every earlier request of *)
(* its key has left; a shared read begins when every earlier exclusive     *)
(* request of its key has left.  A request may leave at any time, with or  *)
(* without having begun, alone or with others.                             *)
(***************************************************************************)
EXTENDS Naturals

CONSTANTS Keys, Ids

VARIABLES
    arrived,    \* the requests that have arrived, of any key
    exclusive,  \* those of them that want exclusive access
    waiting,    \* key -> requests that have not begun
    active      \* key -> requests that have begun and not left

vars == <<arrived, exclusive, waiting, active>>

Init ==
    /\ arrived = {} /\ exclusive = {}
    /\ waiting = [k \in Keys |-> {}]
    /\ active = [k \in Keys |-> {}]

Present(k) == waiting[k] \cup active[k]

Arrive(k, r) ==
    /\ \A s \in arrived : s < r
    /\ arrived' = arrived \cup {r}
    /\ exclusive' \in {exclusive, exclusive \cup {r}}
    /\ waiting' = [waiting EXCEPT ![k] = @ \cup {r}]
    /\ UNCHANGED active

Blockers(k, r) ==
    IF r \in exclusive THEN Present(k) \ {r} ELSE Present(k) \cap exclusive

Begin(k, r) ==
    /\ r \in waiting[k]
    /\ \A s \in Blockers(k, r) : r < s
    /\ waiting' = [waiting EXCEPT ![k] = @ \ {r}]
    /\ active' = [active EXCEPT ![k] = @ \cup {r}]
    /\ UNCHANGED <<arrived, exclusive>>

Leave(k, S) ==
    /\ waiting' = [waiting EXCEPT ![k] = @ \ S]
    /\ active' = [active EXCEPT ![k] = @ \ S]
    /\ UNCHANGED <<arrived, exclusive>>

Next ==
    \E k \in Keys :
        \/ \E r \in Ids : Arrive(k, r) \/ Begin(k, r)
        \/ \E S \in SUBSET Present(k) : Leave(k, S)

Spec == Init /\ [][Next]_vars
=============================================================================
