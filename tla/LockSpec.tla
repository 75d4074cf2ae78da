------------------------------ MODULE LockSpec ------------------------------
(***************************************************************************)
(* What a lock promises to the threads that use it, with no scheduler, no  *)
(* semaphore and no priorities: a thread asks for a lock, is given it when *)
(* nobody owns it, and gives it up.  Which of the threads that ask is      *)
(* given the lock is not promised.                                         *)
(***************************************************************************)
CONSTANTS Lock, Thread, Null

VARIABLES owner,    \* the thread that owns each lock, or Null
          wanting   \* the threads that have asked for each lock

Init ==
    /\ owner = [l \in Lock |-> Null]
    /\ wanting = [l \in Lock |-> {}]

Ask(t, l) ==
    /\ owner[l] # t
    /\ \A m \in Lock : t \notin wanting[m]
    /\ wanting' = [wanting EXCEPT ![l] = @ \cup {t}]
    /\ UNCHANGED owner

Give(t, l) ==
    /\ owner[l] = Null
    /\ t \in wanting[l]
    /\ owner' = [owner EXCEPT ![l] = t]
    /\ wanting' = [wanting EXCEPT ![l] = @ \ {t}]

GiveUp(t, l) ==
    /\ owner[l] = t
    /\ \A m \in Lock : t \notin wanting[m]
    /\ owner' = [owner EXCEPT ![l] = Null]
    /\ UNCHANGED wanting

Next == \E t \in Thread, l \in Lock : Ask(t, l) \/ Give(t, l) \/ GiveUp(t, l)

Spec == Init /\ [][Next]_<<owner, wanting>>
=============================================================================
