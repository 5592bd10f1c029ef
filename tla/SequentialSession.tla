------------------------- MODULE SequentialSession -------------------------
(***************************************************************************)
(* What a session promises to whoever writes to it, without slots, tasks,  *)
(* queues or reservations.  Turns follow one another: a turn begins when   *)
(* the one before it has ended, and none begins twice.  The conversation   *)
(* only grows.  Mail joins it while a turn is there to read it, once, and  *)
(* in the order in which it was posted.                                    *)
(***************************************************************************)
EXTENDS Naturals, Sequences

CONSTANTS Turns, Mails, None

VARIABLES
    current,    \* the turn that has begun and not ended, or None
    ended,      \* the turns that have ended
    posted,     \* the mail in the order of its arrival
    history     \* the conversation: mail and other items

vars == <<current, ended, posted, history>>

Init ==
    /\ current = None /\ ended = {}
    /\ posted = <<>> /\ history = <<>>

\* Mail x was posted before y, which is another one.
PostedBefore(x, y) ==
    \E a, b \in 1..Len(posted) : a < b /\ posted[a] = x /\ posted[b] = y

\* The conversation grows at its end, by mail that keeps the order.
Grows ==
    /\ Len(history) <= Len(history')
    /\ \A k \in 1..Len(history) : history'[k] = history[k]
    /\ \A j \in 1..Len(history'), k \in Len(history)+1..Len(history') :
          j < k /\ history'[j] \in Mails /\ history'[k] \in Mails
              => PostedBefore(history'[j], history'[k])

NoNewMail == \A k \in Len(history)+1..Len(history') : history'[k] \notin Mails

Post(m) ==
    /\ \A k \in 1..Len(posted) : posted[k] # m
    /\ posted' = Append(posted, m)
    /\ UNCHANGED <<current, ended, history>>

Begin(t) ==
    /\ current = None /\ t \notin ended
    /\ current' = t
    /\ UNCHANGED <<ended, posted, history>>

\* Something is said: by anybody, but mail is read by the turn there is.
Say ==
    /\ Grows /\ (NoNewMail \/ current # None)
    /\ UNCHANGED <<current, ended, posted>>

\* The turn ends, having read what was left for it.
End ==
    /\ current # None
    /\ ended' = ended \cup {current} /\ current' = None
    /\ Grows
    /\ UNCHANGED posted

Next == \/ \E m \in Mails : Post(m)
        \/ \E t \in Turns : Begin(t)
        \/ Say \/ End

Spec == Init /\ [][Next]_vars
=============================================================================
