---------------------------- MODULE SynchWakeups ----------------------------
(***************************************************************************)
(* Proof that no wakeup and no signal is lost, that a lock has one owner   *)
(* even while lock_try_acquire() is called, and that sleeping threads wake *)
(* on time.  Whatever calls the threads make, every step of the kernel is  *)
(* one of five kinds for semaphores: the running thread moves on without   *)
(* touching one, or takes a unit of one, or names itself the holder of the *)
(* lock it took, or waits, or ups one.                                     *)
(***************************************************************************)
EXTENDS SynchLocks, FiniteSetTheorems

(* A thread that is on its way to run, in the statuses st.                 *)
Awake(st, t) == st[t] \in {"READY", "RUNNING"}

(* Inside sema_down(), or in the lock_acquire() before it.                 *)
Downing(t) == pc[t] \in {"donate", "down"}

(* What a thread's place says of its arguments, whatever calls are made.   *)
ArgsOK ==
    \A t \in Thread :
        /\ status[t] = "NONE" => pc[t] = "run"
        /\ pc[t] = "tried" => sema_arg[t] \in Lock
        /\ Downing(t) => sema_arg[t] \in Lock \cup Semaphore \cup {t}
        /\ cond_arg[t] # Null => \/ pc[t] \in {"released", "reacquire", "broadcast"}
                                 \/ Downing(t) /\ sema_arg[t] \notin Semaphore

(* A thread on a semaphore's wait list is in sema_down() of that semaphore.*)
WaitersOK ==
    \A s \in Sema, t \in Thread : t \in Elems(waiters[s]) => pc[t] = "down" /\ sema_arg[t] = s

(* The threads that have taken l in lock_try_acquire() and not said so.    *)
Trying(l) == {t \in Thread : pc[t] = "tried" /\ sema_arg[t] = l}

(* OneOwner, without counting: a lock is free, being tried, or held.       *)
OwnerOK ==
    \A l \in Lock :
        \/ value[l] = 1 /\ holder[l] = Null /\ Trying(l) = {}
        \/ value[l] = 0 /\ holder[l] = Null /\ \E t \in Thread : Trying(l) = {t}
        \/ value[l] = 0 /\ holder[l] # Null /\ Trying(l) = {}

(* The threads in cond_wait() between its lock_release() and its           *)
(* lock_acquire().                                                         *)
Awaiting ==
    {t \in Thread : /\ cond_arg[t] # Null
                    /\ pc[t] = "released" \/ (pc[t] = "down" /\ sema_arg[t] = t)}

(* SignalNotLost, and that no condition has a thread on its list twice.    *)
SignalOK ==
    /\ \A c \in Condition : Distinct(cond_waiters[c])
    /\ \A c \in Condition, t \in Thread :
          t \in Elems(cond_waiters[c]) <=> t \in Awaiting /\ value[t] = 0 /\ cond_arg[t] = c
    /\ \A t \in Thread : value[t] > 0 => t \in Awaiting /\ value[t] = 1 /\ waiters[t] = <<>>

(* The inductive invariant.                                                *)
SemaphoresOK == ArgsOK /\ WaitersOK /\ OwnerOK /\ SignalOK
-----------------------------------------------------------------------------
(* schedule() wakes nobody but the idle thread, and puts nobody to sleep.  *)
LEMMA ScheduleAwake ==
    ASSUME NEW st, NEW rl, NEW prio, schedule(st, rl, prio),
           \A u \in Elems(rl) : st[u] = "READY",
           NEW t \in Thread, t # Idle
    PROVE  Awake(status', t) <=> Awake(st, t)
<1>1. PICK next \in Thread :
        /\ next = Idle \/ \E i \in DOMAIN rl : next = rl[i]
        /\ status' = [u \in Thread |->
                        IF u = next THEN "RUNNING"
                        ELSE IF u = current /\ st[u] = "DYING" /\ u # Main
                             THEN "NONE" ELSE st[u]]
  BY Zenon DEF schedule
<1>2. next = Idle \/ next \in Elems(rl)
  BY <1>1, Zenon DEF Elems
<1> QED
  BY <1>1, <1>2, Zenon DEF Awake

(* Nor does thread_yield().                                                *)
LEMMA YieldAwake ==
    ASSUME current \in Thread, NEW st \in [Thread -> Status], NEW rl \in Seq(Thread), NEW prio,
           RunQueueOK(st, rl), thread_yield(st, rl, prio), NEW t \in Thread, t # Idle
    PROVE  Awake(status', t) <=> Awake(st, t)
<1> DEFINE st2 == [st EXCEPT ![current] = "READY"]
           rl2 == IF current = Idle THEN rl ELSE list_push_back(rl, current)
<1>1. schedule(st2, rl2, prio) /\ \A u \in Thread : st2[u] = IF u = current THEN "READY" ELSE st[u]
  BY Zenon DEF thread_yield
<1>2. Elems(rl) \subseteq Thread /\ Elems(list_push_back(rl, current)) = Elems(rl) \cup {current}
  BY PushBackElems, ElemsInThread, Zenon
<1>3. rl2 = rl \/ rl2 = list_push_back(rl, current)
  BY Zenon
<1> HIDE DEF st2, rl2
<1>4. \A u \in Elems(rl2) : st2[u] = "READY"
  BY <1>1, <1>2, <1>3, Zenon DEF RunQueueOK
<1>5. Awake(status', t) <=> Awake(st2, t)
  BY <1>1, <1>4, ScheduleAwake, Zenon
<1> QED
  BY <1>1, <1>5, Zenon DEF Awake, RunQueueOK

(* thread_block() puts the running thread to sleep and nobody else.        *)
LEMMA BlockAwake ==
    ASSUME SchedTypeOK, RunQueueOK(status, ready_list), thread_block, NEW t \in Thread, t # Idle
    PROVE  Awake(status', t) <=> Awake(status, t) /\ t # current
<1> DEFINE st == [status EXCEPT ![current] = "BLOCKED"]
<1>1. /\ schedule(st, ready_list, priority)
      /\ \A u \in Thread : st[u] = IF u = current THEN "BLOCKED" ELSE status[u]
  BY Zenon DEF SchedTypeOK, thread_block
<1> HIDE DEF st
<1>2. \A u \in Elems(ready_list) : st[u] = "READY"
  BY <1>1, ElemsInThread, Zenon DEF RunQueueOK, SchedTypeOK
<1>3. Awake(status', t) <=> Awake(st, t)
  BY <1>1, <1>2, ScheduleAwake, Zenon
<1> QED
  BY <1>1, <1>3, Zenon DEF Awake

(* sema_up() of s, as seen by the threads: either nobody waits, or one     *)
(* waiter of s is taken off its list and is awake.                         *)
Wakes(s) ==
    \/ /\ waiters[s] = <<>> /\ waiters' = waiters
       /\ \A t \in Thread \ {Idle} : Awake(status', t) <=> Awake(status, t)
    \/ \E u \in Thread :
          /\ u \in Elems(waiters[s])
          /\ \A t \in Thread : t \in Elems(waiters'[s]) <=> t \in Elems(waiters[s]) /\ t # u
          /\ waiters[s] # <<>> /\ waiters'[s] \in Seq(Thread)
          /\ \A s1 \in Sema \ {s} : waiters'[s1] = waiters[s1]
          /\ \A t \in Thread \ {Idle} : Awake(status', t) <=> Awake(status, t) \/ t = u

(* This is what sema_up() does.                                            *)
LEMMA SemaUpWakes ==
    ASSUME TypeOK, ListsMatchStatus, NEW val, NEW s \in Sema, sema_up(val, s)
    PROVE  Wakes(s)
<1>1. RunQueueOK(status, ready_list) /\ WaitListsOK(status, waiters, sleep_list)
  BY PartsOfLists, Zenon
<1>2. CASE waiters[s] = <<>> /\ UNCHANGED <<schedVars, waiters>>
  BY <1>2, Zenon DEF schedVars, Wakes
<1>3. ASSUME NEW i \in DOMAIN waiters[s],
             waiters' = [waiters EXCEPT ![s] = list_remove(@, i)],
             LET t  == waiters[s][i]
                 st == [status EXCEPT ![t] = "READY"]
                 rl == list_push_back(ready_list, t)
             IN  IF priority[t] > priority[current]
                 THEN thread_yield(st, rl, priority)
                 ELSE status' = st /\ ready_list' = rl /\ UNCHANGED <<current, thread_ticks>>
      PROVE  Wakes(s)
  <2> DEFINE u  == waiters[s][i]
             st == [status EXCEPT ![u] = "READY"]
             rl == list_push_back(ready_list, u)
  <2>1. u \in Thread /\ u \in Elems(waiters[s]) /\ waiters[s] # <<>>
    BY DEF TypeOK, Elems
  <2>2. /\ \A t \in Thread : st[t] = IF t = u THEN "READY" ELSE status[t]
        /\ st \in [Thread -> Status] /\ status[u] = "BLOCKED" /\ u # Idle
    BY <1>1, <2>1, Zenon DEF TypeOK, ThreadTypeOK, Status, WaitListsOK
  <2>3. RunQueueOK(st, rl) /\ rl \in Seq(Thread)
    BY <1>1, <2>1, <2>2, UnblockLists, PushBackElems, Zenon DEF TypeOK, ThreadTypeOK
  <2>4. /\ \A s1 \in Sema \ {s} : waiters'[s1] = waiters[s1]
        /\ waiters'[s] = list_remove(waiters[s], i)
    BY <1>3, Zenon DEF TypeOK
  <2>5. /\ Elems(waiters'[s]) = Elems(waiters[s]) \ {u} /\ waiters'[s] \in Seq(Thread)
    BY <1>1, <2>4, RemoveElems DEF TypeOK, WaitListsOK
  <2>6. thread_yield(st, rl, priority) \/ status' = st
    BY <1>3, Zenon
  <2> HIDE DEF st, rl, u
  <2>7. \A t \in Thread \ {Idle} : Awake(status', t) <=> Awake(st, t)
    BY <2>2, <2>3, <2>6, YieldAwake, Zenon DEF TypeOK, ThreadTypeOK
  <2>8. \A t \in Thread \ {Idle} : Awake(status', t) <=> Awake(status, t) \/ t = u
    BY <2>2, <2>7, Zenon DEF Awake
  <2> QED
    BY <2>1, <2>4, <2>5, <2>8, Zenon DEF Wakes
<1> QED
  BY <1>2, <1>3, Zenon DEF sema_up
-----------------------------------------------------------------------------
(* The five kinds of steps.                                                *)

(* The calls of the other threads stay where they are.                     *)
OthersKeep ==
    \A t \in Thread \ {current} :
        pc'[t] = pc[t] /\ sema_arg'[t] = sema_arg[t] /\ cond_arg'[t] = cond_arg[t]

(* Places outside of the calls of synch.c.                                 *)
Outside == {"run", "created", "set_priority", "hlt", "loop"}

(* The running thread stays in its place, or goes from one to the other    *)
(* outside of synch.c.                                                     *)
Stays ==
    /\ pc'[current] = pc[current] \/ (pc[current] \in Outside /\ pc'[current] \in Outside)
    /\ sema_arg'[current] = sema_arg[current] /\ cond_arg'[current] = cond_arg[current]

(* It goes from one place in synch.c to the next, or in or out of a call.  *)
GoesOn ==
    \/ /\ pc[current] = "donate" /\ pc'[current] = "down"
       /\ sema_arg'[current] = sema_arg[current] /\ cond_arg'[current] = cond_arg[current]
    \/ /\ pc[current] = "run" /\ pc'[current] = "down"
       /\ sema_arg'[current] \in Semaphore /\ cond_arg'[current] = cond_arg[current]
    \/ /\ pc[current] \in {"run", "reacquire"} /\ pc'[current] \in {"donate", "down"}
       /\ sema_arg'[current] \in Lock /\ cond_arg'[current] = cond_arg[current]
    \/ /\ pc[current] = "run" /\ pc'[current] = "broadcast"
       /\ sema_arg'[current] = sema_arg[current] /\ cond_arg'[current] \in Condition
    \/ /\ pc[current] = "broadcast" /\ pc'[current] = "run"
       /\ sema_arg'[current] = sema_arg[current] /\ cond_arg'[current] = Null
    \/ /\ pc[current] = "released" /\ pc'[current] = "run" /\ cond_arg[current] = Null
       /\ sema_arg'[current] = sema_arg[current] /\ cond_arg'[current] = Null
    \/ /\ pc[current] = "released" /\ pc'[current] = "down" /\ cond_arg[current] # Null
       /\ sema_arg'[current] = current /\ cond_arg'[current] = cond_arg[current]

(* Either of them, with no semaphore, holder or condition touched.         *)
Walks ==
    /\ UNCHANGED <<value, waiters, holder, cond_waiters>>
    /\ OthersKeep /\ (Stays \/ GoesOn)
    /\ \A t \in Thread : Downing(t) /\ Awake(status, t) => Awake(status', t)

(* The running thread takes a unit of s: in sema_try_down(), in            *)
(* lock_try_acquire(), in lock_acquire(), or in another sema_down().       *)
Takes(s) ==
    /\ value[s] > 0 /\ value' = [value EXCEPT ![s] = @ - 1]
    /\ UNCHANGED <<waiters, cond_waiters, status>> /\ OthersKeep
    /\ \/ s \in Semaphore /\ UNCHANGED <<holder, pc, sema_arg, cond_arg>>
       \/ /\ s \in Lock /\ UNCHANGED holder /\ pc[current] = "run" /\ pc'[current] = "tried"
          /\ sema_arg'[current] = s /\ cond_arg'[current] = cond_arg[current]
       \/ /\ s \in Lock /\ holder' = [holder EXCEPT ![s] = current]
          /\ pc[current] = "down" /\ sema_arg[current] = s
          /\ pc'[current] = "run" /\ sema_arg'[current] = Null /\ cond_arg'[current] = Null
       \/ /\ s \notin Lock /\ UNCHANGED holder /\ pc[current] = "down" /\ sema_arg[current] = s
          /\ pc'[current] = IF s = current THEN "reacquire" ELSE "run"
          /\ sema_arg'[current] = Null /\ cond_arg'[current] = cond_arg[current]

(* It names itself the holder of the lock it took in lock_try_acquire().   *)
Names(l) ==
    /\ UNCHANGED <<value, waiters, cond_waiters, status>> /\ OthersKeep
    /\ holder' = [holder EXCEPT ![l] = current]
    /\ pc[current] = "tried" /\ sema_arg[current] = l
    /\ pc'[current] = "run" /\ sema_arg'[current] = Null /\ cond_arg'[current] = cond_arg[current]

(* It finds the value of s 0 and waits.                                    *)
Waits(s) ==
    /\ pc[current] = "down" /\ sema_arg[current] = s /\ value[s] = 0
    /\ UNCHANGED <<value, holder, cond_waiters, pc, sema_arg, cond_arg>>
    /\ waiters' = [waiters EXCEPT ![s] = list_push_back(@, current)]
    /\ \A t \in Thread \ {Idle} : Awake(status', t) <=> Awake(status, t) /\ t # current

(* It ups s, or an interrupt handler does: in sema_up(), in lock_release(),*)
(* possibly for cond_wait(), or in cond_signal().                          *)
Ups(s) ==
    /\ value' = [value EXCEPT ![s] = @ + 1] /\ Wakes(s)
    /\ OthersKeep /\ UNCHANGED sema_arg
    /\ \/ s \in Semaphore /\ UNCHANGED <<holder, cond_waiters>> /\ Stays
       \/ /\ s \in Lock /\ holder[s] = current /\ holder' = [holder EXCEPT ![s] = Null]
          /\ pc[current] = "run" /\ pc'[current] = "released"
          /\ \/ UNCHANGED <<cond_waiters, cond_arg>>
             \/ \E c \in Condition :
                   /\ cond_arg'[current] = c
                   /\ cond_waiters' = [cond_waiters EXCEPT ![c] = list_push_back(@, current)]
       \/ /\ s \in Thread /\ UNCHANGED <<holder, pc, cond_arg>>
          /\ \E c \in Condition : \E i \in DOMAIN cond_waiters[c] :
                /\ s = cond_waiters[c][i]
                /\ cond_waiters' = [cond_waiters EXCEPT ![c] = list_remove(@, i)]

SemaphoreStepKinds ==
    Walks \/ (\E s \in Sema : Takes(s) \/ Waits(s) \/ Ups(s)) \/ (\E l \in Lock : Names(l))
-----------------------------------------------------------------------------
(* Facts every lemma on kinds of steps uses.                               *)
LEMMA SemaphoreNames ==
    /\ Lock \subseteq Sema /\ Semaphore \subseteq Sema /\ Thread \subseteq Sema
    /\ Lock \cap Semaphore = {} /\ Lock \cap Thread = {} /\ Semaphore \cap Thread = {}
    /\ Null \notin Lock /\ Null \notin Semaphore /\ Null \notin Thread /\ Null \notin Condition
    /\ IrqSemaphore \subseteq Semaphore
  BY SynchAssumption, Zenon DEF Sema

(* Every kind of step keeps places and arguments in agreement.             *)
LEMMA KindsKeepArgs ==
    ASSUME TypeOK, ArgsOK, SemaphoreStepKinds, NEW t \in Thread
    PROVE  /\ pc'[t] = "tried" => sema_arg'[t] \in Lock
           /\ Downing(t)' => sema_arg'[t] \in Lock \cup Semaphore \cup {t}
           /\ cond_arg'[t] # Null => \/ pc'[t] \in {"released", "reacquire", "broadcast"}
                                     \/ Downing(t)' /\ sema_arg'[t] \notin Semaphore
<1> USE SemaphoreNames
<1>1. CASE t # current
  <2>1. pc'[t] = pc[t] /\ sema_arg'[t] = sema_arg[t] /\ cond_arg'[t] = cond_arg[t]
    BY <1>1, Zenon DEF SemaphoreStepKinds, Walks, Takes, Names, Waits, Ups, OthersKeep
  <2> QED
    BY <2>1, Zenon DEF ArgsOK, Downing
<1>2. CASE t = current
  <2>1. CASE Stays
    BY <1>2, <2>1, Zenon DEF Stays, Outside, ArgsOK, Downing
  <2>2. CASE GoesOn
    BY <1>2, <2>2, Zenon DEF GoesOn, ArgsOK, Downing
  <2>3. ASSUME NEW s \in Sema, Takes(s) PROVE Stays \/
            /\ pc[t] \in {"run", "down"} /\ pc'[t] \in {"tried", "run", "reacquire"}
            /\ pc'[t] = "tried" => sema_arg'[t] \in Lock
            /\ cond_arg'[t] = Null \/ cond_arg'[t] = cond_arg[t]
            /\ pc'[t] = "run" => cond_arg'[t] = Null \/ (pc[t] = "down" /\ sema_arg[t] \in Semaphore)
            /\ pc'[t] = "tried" => pc[t] = "run"
    BY <1>2, <2>3, Zenon DEF Takes, Stays, ArgsOK, Downing
  <2>4. ASSUME NEW s \in Sema, Ups(s) PROVE Stays \/ pc'[t] = "released"
    BY <1>2, <2>4, Zenon DEF Ups, Stays
  <2> QED
    BY <1>2, <2>1, <2>2, <2>3, <2>4, Zenon
    DEF SemaphoreStepKinds, Walks, Names, Waits, Stays, ArgsOK, Downing
<1> QED
  BY <1>1, <1>2, Zenon

(* Every kind of step keeps the wait lists to threads in sema_down().      *)
LEMMA KindsKeepWaiters ==
    ASSUME TypeOK, ListsMatchStatus, WaitersOK, SemaphoreStepKinds
    PROVE  WaitersOK'
<1> USE SemaphoreNames
<1>0. /\ current \in Thread /\ waiters \in [Sema -> Seq(Thread)]
      /\ \A s \in Sema : current \notin Elems(waiters[s])
  <2>1. current \in Thread /\ waiters \in [Sema -> Seq(Thread)] /\ status[current] = "RUNNING"
    BY Zenon DEF TypeOK, ThreadTypeOK, ListsMatchStatus
  <2>2. WaitListsOK(status, waiters, sleep_list)
    BY PartsOfLists, Zenon
  <2> QED
    BY <2>1, <2>2, Zenon DEF WaitListsOK
<1>1. ASSUME \A s \in Sema, t \in Thread : t \in Elems(waiters'[s]) => t \in Elems(waiters[s]),
             OthersKeep
      PROVE  WaitersOK'
  <2> SUFFICES ASSUME NEW s \in Sema, NEW t \in Thread, t \in Elems(waiters'[s])
               PROVE  pc'[t] = "down" /\ sema_arg'[t] = s
    BY Zenon DEF WaitersOK
  <2>1. t \in Elems(waiters[s])
    BY <1>1, Zenon
  <2>2. t # current /\ pc[t] = "down" /\ sema_arg[t] = s
    BY <1>0, <2>1, Zenon DEF WaitersOK
  <2> QED
    BY <1>1, <2>2, Zenon DEF OthersKeep
<1>2. CASE Walks
  BY <1>1, <1>2, Zenon DEF Walks
<1>3. ASSUME NEW s \in Sema, Takes(s) PROVE WaitersOK'
  BY <1>1, <1>3, Zenon DEF Takes
<1>4. ASSUME NEW l \in Lock, Names(l) PROVE WaitersOK'
  BY <1>1, <1>4, Zenon DEF Names
<1>5. ASSUME NEW s \in Sema, Ups(s) PROVE WaitersOK'
  <2>1. \A s1 \in Sema, t \in Thread : t \in Elems(waiters'[s1]) => t \in Elems(waiters[s1])
    BY <1>5, Zenon DEF Ups, Wakes
  <2> QED
    BY <1>1, <1>5, <2>1, Zenon DEF Ups
<1>6. ASSUME NEW s \in Sema, Waits(s) PROVE WaitersOK'
  <2>1. \A s1 \in Sema \ {s} : waiters'[s1] = waiters[s1]
    BY <1>0, <1>6, Zenon DEF Waits
  <2>2. waiters'[s] = list_push_back(waiters[s], current)
    BY <1>0, <1>6, Zenon DEF Waits
  <2>3. Elems(waiters'[s]) = Elems(waiters[s]) \cup {current}
    BY <1>0, <2>2, PushBackElems
  <2> SUFFICES ASSUME NEW s1 \in Sema, NEW t \in Thread, t \in Elems(waiters'[s1])
               PROVE  pc'[t] = "down" /\ sema_arg'[t] = s1
    BY Zenon DEF WaitersOK
  <2>4. (s1 = s /\ t = current) \/ t \in Elems(waiters[s1])
    BY <2>1, <2>3, Zenon
  <2> QED
    BY <1>6, <2>4, Zenon DEF Waits, WaitersOK
<1> QED
  BY <1>2, <1>3, <1>4, <1>5, <1>6, Zenon DEF SemaphoreStepKinds

(* Every kind of step keeps a lock free, being tried, or held.             *)
LEMMA KindsKeepOwner ==
    ASSUME TypeOK, ArgsOK, OwnerOK, SemaphoreStepKinds
    PROVE  OwnerOK'
<1> USE SemaphoreNames
<1>0. /\ current \in Thread /\ value \in [Sema -> Nat] /\ holder \in [Lock -> Thread \cup {Null}]
  BY Zenon DEF TypeOK, ThreadTypeOK
<1> SUFFICES ASSUME NEW l \in Lock
             PROVE \/ value'[l] = 1 /\ holder'[l] = Null /\ Trying(l)' = {}
                   \/ value'[l] = 0 /\ holder'[l] = Null /\ \E t \in Thread : Trying(l)' = {t}
                   \/ value'[l] = 0 /\ holder'[l] # Null /\ Trying(l)' = {}
  BY Zenon DEF OwnerOK
<1>1. /\ Trying(l) \subseteq Thread /\ Trying(l)' \subseteq Thread
      /\ current \in Trying(l) <=> pc[current] = "tried" /\ sema_arg[current] = l
      /\ current \in Trying(l)' <=> pc'[current] = "tried" /\ sema_arg'[current] = l
  BY <1>0, Zenon DEF Trying
<1>2. \/ value[l] = 1 /\ holder[l] = Null /\ Trying(l) = {}
      \/ value[l] = 0 /\ holder[l] = Null /\ \E t \in Thread : Trying(l) = {t}
      \/ value[l] = 0 /\ holder[l] # Null /\ Trying(l) = {}
  BY Zenon DEF OwnerOK
<1>3. \A t \in Thread \ {current} : t \in Trying(l)' <=> t \in Trying(l)
  BY Zenon DEF SemaphoreStepKinds, Walks, Takes, Names, Waits, Ups, OthersKeep, Trying
<1> DEFINE same == /\ value'[l] = value[l] /\ holder'[l] = holder[l]
                   /\ current \in Trying(l)' <=> current \in Trying(l)
           tried == /\ value[l] > 0 /\ value'[l] = value[l] - 1 /\ holder'[l] = holder[l]
                    /\ current \in Trying(l)'
           taken == /\ value[l] > 0 /\ value'[l] = value[l] - 1 /\ holder'[l] = current
                    /\ current \notin Trying(l)'
           named == /\ value'[l] = value[l] /\ holder'[l] = current
                    /\ current \in Trying(l) /\ current \notin Trying(l)'
           given == /\ holder[l] = current /\ holder'[l] = Null /\ value'[l] = value[l] + 1
                    /\ current \notin Trying(l)'
<1>4. same \/ tried \/ taken \/ named \/ given
  <2>1. CASE Walks
    BY <1>1, <2>1, Zenon DEF Walks, Stays, GoesOn, Outside
  <2>2. ASSUME NEW s \in Sema, Takes(s) PROVE same \/ tried \/ taken
    <3>1. value'[l] = IF l = s THEN value[l] - 1 ELSE value[l]
      BY <1>0, <2>2, Zenon DEF Takes
    <3>2. CASE s = l
      BY <1>0, <1>1, <2>2, <3>1, <3>2, Zenon DEF Takes
    <3>3. CASE s # l
      BY <1>0, <1>1, <2>2, <3>1, <3>3, Zenon DEF Takes
    <3> QED
      BY <3>2, <3>3, Zenon
  <2>3. ASSUME NEW m \in Lock, Names(m) PROVE same \/ named
    BY <1>0, <1>1, <2>3, Zenon DEF Names
  <2>4. ASSUME NEW s \in Sema, Waits(s) PROVE same
    BY <1>1, <2>4, Zenon DEF Waits
  <2>5. ASSUME NEW s \in Sema, Ups(s) PROVE same \/ given
    <3>1. value'[l] = IF l = s THEN value[l] + 1 ELSE value[l]
      BY <1>0, <2>5, Zenon DEF Ups
    <3> QED
      BY <1>0, <1>1, <2>5, <3>1, Zenon DEF Ups, Stays, Outside
  <2> HIDE DEF same, tried, taken, named, given
  <2> QED
    BY <2>1, <2>2, <2>3, <2>4, <2>5, Zenon DEF SemaphoreStepKinds
<1>5. CASE same
  <2>1. Trying(l)' = Trying(l)
    BY <1>0, <1>1, <1>3, <1>5
  <2> QED
    BY <1>2, <1>5, <2>1, Zenon
<1>6. CASE tried
  <2>1. value[l] = 1 /\ holder'[l] = Null /\ value'[l] = 0
    BY <1>2, <1>6
  <2>2. Trying(l)' = {current}
    BY <1>0, <1>1, <1>2, <1>3, <1>6, <2>1
  <2> QED
    BY <1>0, <2>1, <2>2, Zenon
<1>7. CASE taken
  <2>1. value'[l] = 0 /\ holder'[l] # Null
    BY <1>0, <1>2, <1>7
  <2>2. Trying(l)' = {}
    BY <1>0, <1>1, <1>2, <1>3, <1>7, <2>1
  <2> QED
    BY <2>1, <2>2, Zenon
<1>8. CASE named
  <2>1. value[l] = 0 /\ \E t \in Thread : Trying(l) = {t}
    BY <1>2, <1>8, Zenon
  <2>2. Trying(l)' = {}
    BY <1>1, <1>3, <1>8, <2>1, Zenon
  <2> QED
    BY <1>0, <1>8, <2>1, <2>2, Zenon
<1>9. CASE given
  <2>1. value'[l] = 1
    BY <1>0, <1>2, <1>9
  <2>2. Trying(l) = {}
    BY <1>0, <1>2, <1>9, Zenon
  <2>3. Trying(l)' = {}
    BY <1>1, <1>3, <1>9, <2>2, Zenon
  <2> QED
    BY <1>9, <2>1, <2>3, Zenon
<1> QED
  BY <1>4, <1>5, <1>6, <1>7, <1>8, <1>9, Zenon

(* A step that touches no condition, and no semaphore of a condition's     *)
(* waiter, keeps the signals.                                              *)
LEMMA SignalsStay ==
    ASSUME SignalOK, UNCHANGED cond_waiters,
           \A t \in Thread : value'[t] = value[t] /\ (value[t] > 0 => waiters'[t] = waiters[t]),
           \A t \in Thread : /\ t \in Awaiting' <=> t \in Awaiting
                             /\ t \in Awaiting => cond_arg'[t] = cond_arg[t]
    PROVE  SignalOK'
<1>1. \A c \in Condition, t \in Thread : t \in Elems(cond_waiters'[c])
         <=> t \in Awaiting' /\ value'[t] = 0 /\ cond_arg'[t] = c
  BY Zenon DEF SignalOK
<1>2. \A t \in Thread : value'[t] > 0 => t \in Awaiting' /\ value'[t] = 1 /\ waiters'[t] = <<>>
  BY Zenon DEF SignalOK
<1>3. \A c \in Condition : Distinct(cond_waiters'[c])
  BY Zenon DEF SignalOK
<1> QED
  BY <1>1, <1>2, <1>3, Zenon DEF SignalOK

(* The other threads are in cond_wait() or not as they were.               *)
LEMMA OthersAwait ==
    ASSUME OthersKeep, NEW t \in Thread, t # current
    PROVE  (t \in Awaiting' <=> t \in Awaiting) /\ cond_arg'[t] = cond_arg[t]
  BY Zenon DEF OthersKeep, Awaiting

(* Who is in cond_wait() now and next, by definition.                      *)
LEMMA AwaitingMeans ==
    ASSUME NEW t \in Thread
    PROVE  /\ t \in Awaiting <=> cond_arg[t] # Null
                 /\ (pc[t] = "released" \/ (pc[t] = "down" /\ sema_arg[t] = t))
           /\ t \in Awaiting' <=> cond_arg'[t] # Null
                 /\ (pc'[t] = "released" \/ (pc'[t] = "down" /\ sema_arg'[t] = t))
  BY Zenon DEF Awaiting

(* Every kind of step but an up keeps the signals.                         *)
LEMMA KindsKeepSignals ==
    ASSUME TypeOK, PlacesOK, ArgsOK, SignalOK,
           Walks \/ (\E s \in Sema : Takes(s) \/ Waits(s)) \/ (\E l \in Lock : Names(l))
    PROVE  SignalOK'
<1> USE SemaphoreNames
<1>0. /\ current \in Thread /\ value \in [Sema -> Nat] /\ waiters \in [Sema -> Seq(Thread)]
      /\ cond_arg \in [Thread -> Condition \cup {Null}]
      /\ pc[current] = "donate" => sema_arg[current] \in Lock
  BY Zenon DEF TypeOK, ThreadTypeOK, PlacesOK
<1>1. ASSUME OthersKeep, current \in Awaiting' <=> current \in Awaiting,
             current \in Awaiting => cond_arg'[current] = cond_arg[current]
      PROVE  \A t \in Thread : /\ t \in Awaiting' <=> t \in Awaiting
                               /\ t \in Awaiting => cond_arg'[t] = cond_arg[t]
  BY <1>0, <1>1, OthersAwait, Zenon
<1>2. CASE Walks
  <2>1. /\ current \in Awaiting' <=> current \in Awaiting
        /\ current \in Awaiting => cond_arg'[current] = cond_arg[current]
    BY <1>0, <1>2, AwaitingMeans, ZenonT(60) DEF Walks, Stays, GoesOn, Outside
  <2> QED
    BY <1>1, <1>2, <2>1, SignalsStay, Zenon DEF Walks
<1>3. ASSUME NEW s \in Sema, Takes(s) PROVE SignalOK'
  <2>0. \A x \in Sema : value'[x] = IF x = s THEN value[x] - 1 ELSE value[x]
    BY <1>0, <1>3, Zenon DEF Takes
  <2>1. CASE s \notin Thread
    <3>1. /\ current \in Awaiting' <=> current \in Awaiting
          /\ current \in Awaiting => cond_arg'[current] = cond_arg[current]
      BY <1>0, <1>3, <2>1, AwaitingMeans, ZenonT(60) DEF Takes
    <3>2. \A t \in Thread : value'[t] = value[t]
      BY <2>0, <2>1, Zenon
    <3> QED
      BY <1>1, <1>3, <3>1, <3>2, SignalsStay, Zenon DEF Takes
  <2>2. CASE s \in Thread
    <3>1. s = current /\ pc'[current] = "reacquire"
      BY <1>0, <1>3, <2>2, Zenon DEF Takes, ArgsOK, Downing
    <3>2. /\ current \notin Awaiting' /\ value[current] > 0 /\ value[current] = 1
          /\ value'[current] = 0
      <4>1. current \notin Awaiting'
        BY <1>0, <3>1, AwaitingMeans, Zenon
      <4>2. value[current] > 0 /\ value[current] = 1
        BY <1>0, <1>3, <3>1, Zenon DEF Takes, SignalOK
      <4> QED
        BY <2>0, <3>1, <4>1, <4>2
    <3>3. \A t \in Thread \ {current} : /\ value'[t] = value[t] /\ t \in Awaiting' <=> t \in Awaiting
                                        /\ cond_arg'[t] = cond_arg[t]
      BY <1>3, <2>0, <3>1, OthersAwait, Zenon DEF Takes
    <3>4. \A c \in Condition, t \in Thread : t \in Elems(cond_waiters'[c])
             <=> t \in Awaiting' /\ value'[t] = 0 /\ cond_arg'[t] = c
      BY <1>3, <3>2, <3>3 DEF SignalOK, Takes
    <3>5. \A t \in Thread : value'[t] > 0 => t \in Awaiting' /\ value'[t] = 1 /\ waiters'[t] = <<>>
      BY <1>3, <3>2, <3>3 DEF SignalOK, Takes
    <3>6. \A c \in Condition : Distinct(cond_waiters'[c])
      BY <1>3, Zenon DEF SignalOK, Takes
    <3> QED
      BY <3>4, <3>5, <3>6, Zenon DEF SignalOK
  <2> QED
    BY <2>1, <2>2, Zenon
<1>4. ASSUME NEW l \in Lock, Names(l) PROVE SignalOK'
  <2>1. current \notin Awaiting' /\ current \notin Awaiting
    BY <1>0, <1>4, AwaitingMeans, Zenon DEF Names
  <2> QED
    BY <1>1, <1>4, <2>1, SignalsStay, Zenon DEF Names
<1>5. ASSUME NEW s \in Sema, Waits(s) PROVE SignalOK'
  <2>1. \A t \in Thread : /\ t \in Awaiting' <=> t \in Awaiting
                          /\ t \in Awaiting => cond_arg'[t] = cond_arg[t]
    BY <1>5, AwaitingMeans, Zenon DEF Waits
  <2>2. \A t \in Thread : value[t] > 0 => waiters'[t] = waiters[t]
    BY <1>0, <1>5 DEF Waits
  <2> QED
    BY <1>5, <2>1, <2>2, SignalsStay, Zenon DEF Waits
<1> QED
  BY <1>2, <1>3, <1>4, <1>5, Zenon

(* An up keeps them: of an ordinary semaphore; of a lock, possibly for     *)
(* cond_wait(), which has joined the list before; or of the semaphore of   *)
(* the thread that the signal takes off the list.                          *)
LEMMA UpsKeepSignals ==
    ASSUME TypeOK, PlacesOK, ArgsOK, WaitersOK, SignalOK, NEW s \in Sema, Ups(s)
    PROVE  SignalOK'
<1> USE SemaphoreNames
<1>0. /\ current \in Thread /\ value \in [Sema -> Nat] /\ waiters \in [Sema -> Seq(Thread)]
      /\ cond_arg \in [Thread -> Condition \cup {Null}]
      /\ cond_waiters \in [Condition -> Seq(Thread)]
  BY Zenon DEF TypeOK, ThreadTypeOK
<1>1. \A x \in Sema : value'[x] = IF x = s THEN value[x] + 1 ELSE value[x]
  BY <1>0, Zenon DEF Ups
<1>2. \A t \in Thread : t # s => waiters'[t] = waiters[t]
  BY Zenon DEF Ups, Wakes
<1>3. \A t \in Thread \ {current} : /\ t \in Awaiting' <=> t \in Awaiting
                                    /\ cond_arg'[t] = cond_arg[t]
  BY OthersAwait, Zenon DEF Ups
<1>4. ASSUME s \notin Thread, UNCHANGED cond_waiters,
             current \in Awaiting' <=> current \in Awaiting,
             current \in Awaiting => cond_arg'[current] = cond_arg[current]
      PROVE  SignalOK'
  <2>1. \A t \in Thread : /\ value'[t] = value[t] /\ waiters'[t] = waiters[t]
                          /\ t \in Awaiting' <=> t \in Awaiting
                          /\ t \in Awaiting => cond_arg'[t] = cond_arg[t]
    BY <1>0, <1>1, <1>2, <1>3, <1>4, Zenon
  <2> QED
    BY <1>4, <2>1, SignalsStay, Zenon
<1>5. CASE s \in Semaphore
  <2>1. UNCHANGED cond_waiters /\ Stays
    BY <1>5, Zenon DEF Ups
  <2>2. /\ current \in Awaiting' <=> current \in Awaiting
        /\ current \in Awaiting => cond_arg'[current] = cond_arg[current]
    BY <1>0, <2>1, AwaitingMeans, Zenon DEF Stays, Outside
  <2> QED
    BY <1>4, <1>5, <2>1, <2>2, Zenon
<1>6. CASE s \in Lock
  <2>1. /\ pc[current] = "run" /\ pc'[current] = "released"
        /\ cond_arg[current] = Null /\ current \notin Awaiting /\ value[current] = 0
    <3>1. pc[current] = "run" /\ pc'[current] = "released"
      BY <1>6, Zenon DEF Ups
    <3>2. cond_arg[current] = Null /\ current \notin Awaiting
      BY <1>0, <3>1, AwaitingMeans, Zenon DEF ArgsOK, Downing
    <3>3. value[current] = 0
      BY <1>0, <3>2 DEF SignalOK
    <3> QED
      BY <3>1, <3>2, <3>3, Zenon
  <2>2. CASE UNCHANGED <<cond_waiters, cond_arg>>
    <3>1. current \notin Awaiting'
      BY <1>0, <2>1, <2>2, AwaitingMeans, Zenon
    <3> QED
      BY <1>4, <1>6, <2>1, <2>2, <3>1, Zenon
  <2>3. ASSUME NEW c \in Condition, cond_arg'[current] = c,
               cond_waiters' = [cond_waiters EXCEPT ![c] = list_push_back(@, current)]
        PROVE  SignalOK'
    <3>1. /\ cond_waiters'[c] = list_push_back(cond_waiters[c], current)
          /\ \A c2 \in Condition \ {c} : cond_waiters'[c2] = cond_waiters[c2]
      BY <1>0, <2>3, Zenon
    <3>2. \A c2 \in Condition : current \notin Elems(cond_waiters[c2])
      BY <1>0, <2>1, Zenon DEF SignalOK
    <3>3. Elems(cond_waiters'[c]) = Elems(cond_waiters[c]) \cup {current} /\ Distinct(cond_waiters'[c])
      BY <1>0, <3>1, <3>2, PushBackElems DEF SignalOK
    <3>4. current \in Awaiting' /\ value'[current] = 0
      BY <1>0, <1>1, <1>6, <2>1, <2>3, AwaitingMeans, Zenon
    <3>5. \A t \in Thread : value'[t] = value[t] /\ waiters'[t] = waiters[t]
      BY <1>1, <1>2, <1>6, Zenon
    <3>6. ASSUME NEW c2 \in Condition, NEW t \in Thread
          PROVE  t \in Elems(cond_waiters'[c2]) <=> t \in Awaiting' /\ value'[t] = 0 /\ cond_arg'[t] = c2
      <4>1. CASE t = current
        BY <2>3, <3>1, <3>2, <3>3, <3>4, <4>1, Zenon
      <4>2. CASE t # current
        <5>1. t \in Elems(cond_waiters'[c2]) <=> t \in Elems(cond_waiters[c2])
          BY <3>1, <3>3, <4>2, Zenon
        <5> QED
          BY <1>3, <3>5, <4>2, <5>1, Zenon DEF SignalOK
      <4> QED
        BY <4>1, <4>2, Zenon
    <3>7. \A t \in Thread : value'[t] > 0 => t \in Awaiting' /\ value'[t] = 1 /\ waiters'[t] = <<>>
      BY <1>0, <1>3, <2>1, <3>5, Zenon DEF SignalOK
    <3>8. \A c2 \in Condition : Distinct(cond_waiters'[c2])
      BY <3>1, <3>3, Zenon DEF SignalOK
    <3> QED
      BY <3>6, <3>7, <3>8, Zenon DEF SignalOK
  <2> QED
    BY <1>6, <2>2, <2>3, Zenon DEF Ups
<1>7. CASE s \in Thread
  <2>0. PICK c \in Condition : \E i \in DOMAIN cond_waiters[c] :
           s = cond_waiters[c][i] /\ cond_waiters' = [cond_waiters EXCEPT ![c] = list_remove(@, i)]
    BY <1>7, Zenon DEF Ups
  <2>1. PICK i \in DOMAIN cond_waiters[c] :
           s = cond_waiters[c][i] /\ cond_waiters' = [cond_waiters EXCEPT ![c] = list_remove(@, i)]
    BY <2>0, Zenon
  <2>2. UNCHANGED <<pc, sema_arg, cond_arg>>
    BY <1>7, Zenon DEF Ups
  <2>3. Awaiting' = Awaiting
    BY <2>2, Zenon DEF Awaiting
  <2>4. s \in Awaiting /\ value[s] = 0 /\ cond_arg[s] = c /\ value'[s] = 1
    <3>1. s \in Elems(cond_waiters[c])
      BY <2>1, Zenon DEF Elems
    <3>2. s \in Awaiting /\ value[s] = 0 /\ cond_arg[s] = c
      BY <1>7, <3>1, Zenon DEF SignalOK
    <3> QED
      BY <1>1, <3>2
  <2>5. /\ cond_waiters'[c] = list_remove(cond_waiters[c], i)
        /\ \A c2 \in Condition \ {c} : cond_waiters'[c2] = cond_waiters[c2]
    BY <1>0, <2>1, Zenon
  <2>6. Elems(cond_waiters'[c]) = Elems(cond_waiters[c]) \ {s} /\ Distinct(cond_waiters'[c])
    BY <1>0, <2>1, <2>5, RemoveElems DEF SignalOK
  <2>7. ASSUME NEW c2 \in Condition, NEW t \in Thread
        PROVE  t \in Elems(cond_waiters'[c2]) <=> t \in Awaiting' /\ value'[t] = 0 /\ cond_arg'[t] = c2
    <3>1. CASE t = s
      <4>1. t \notin Elems(cond_waiters'[c2])
        BY <2>4, <2>5, <2>6, <3>1, Zenon DEF SignalOK
      <4> QED
        BY <2>4, <3>1, <4>1
    <3>2. CASE t # s
      <4>1. t \in Elems(cond_waiters'[c2]) <=> t \in Elems(cond_waiters[c2])
        BY <2>5, <2>6, <3>2, Zenon
      <4> QED
        BY <1>1, <2>2, <2>3, <3>2, <4>1, Zenon DEF SignalOK
    <3> QED
      BY <3>1, <3>2, Zenon
  <2>8. waiters'[s] = <<>>
    <3>1. ASSUME NEW u \in Thread, u \in Elems(waiters[s]) PROVE u = s
      <4>1. pc[u] = "down" /\ sema_arg[u] = s
        BY <3>1, Zenon DEF WaitersOK
      <4> QED
        BY <1>7, <4>1, Zenon DEF ArgsOK, Downing
    <3>2. CASE waiters[s] = <<>> /\ waiters' = waiters
      BY <3>2, Zenon
    <3>3. ASSUME NEW u \in Thread, u \in Elems(waiters[s]), waiters'[s] \in Seq(Thread),
                 \A t \in Thread : t \in Elems(waiters'[s]) <=> t \in Elems(waiters[s]) /\ t # u
          PROVE  waiters'[s] = <<>>
      <4>1. \A t \in Thread : t \notin Elems(waiters'[s])
        BY <3>1, <3>3, Zenon
      <4> QED
        BY <3>3, <4>1 DEF Elems
    <3> QED
      BY <3>2, <3>3, Zenon DEF Ups, Wakes
  <2>9. \A t \in Thread : value'[t] > 0 => t \in Awaiting' /\ value'[t] = 1 /\ waiters'[t] = <<>>
    BY <1>1, <1>2, <2>3, <2>4, <2>8, Zenon DEF SignalOK
  <2>10. \A c2 \in Condition : Distinct(cond_waiters'[c2])
    BY <2>5, <2>6, Zenon DEF SignalOK
  <2> QED
    BY <2>7, <2>9, <2>10, Zenon DEF SignalOK
<1> QED
  BY <1>5, <1>6, <1>7, Zenon DEF Sema
-----------------------------------------------------------------------------
(* What a step may do to semaphore s without losing a wakeup.              *)
WakeupKept(s) ==
    \/ waiters'[s] = <<>>
    \/ value'[s] = 0
    \/ /\ waiters[s] # <<>>
       /\ value'[s] \in {value[s], value[s] - 1} /\ AboutToDown(s) \subseteq AboutToDown(s)'
    \/ /\ waiters[s] # <<>> /\ value'[s] = value[s] + 1
       /\ \E u \in Thread : u \notin AboutToDown(s) /\ AboutToDown(s) \cup {u} \subseteq AboutToDown(s)'
    \/ /\ waiters[s] # <<>> /\ value'[s] = value[s] - 1
       /\ \E u \in AboutToDown(s) : AboutToDown(s) \ {u} \subseteq AboutToDown(s)'

(* Counting: such a step keeps NoLostWakeup.                               *)
LEMMA WakeupCount ==
    ASSUME TypeOK, NEW s \in Sema, WakeupKept(s),
           waiters[s] # <<>> => value[s] <= Cardinality(AboutToDown(s)), waiters'[s] # <<>>
    PROVE  value'[s] <= Cardinality(AboutToDown(s)')
<1> DEFINE A == AboutToDown(s)
           B == AboutToDown(s)'
<1>1. IsFiniteSet(A) /\ IsFiniteSet(B)
  <2>1. A \subseteq Thread /\ B \subseteq Thread
    BY Zenon DEF AboutToDown
  <2> HIDE DEF A, B
  <2> QED
    BY <2>1, FiniteAssumption, FS_Subset, Zenon
<1>2. value[s] \in Nat
  BY Zenon DEF TypeOK
<1>3. \/ value'[s] = 0
      \/ value[s] <= Cardinality(A) /\ value'[s] \in {value[s], value[s] - 1} /\ A \subseteq B
      \/ /\ value[s] <= Cardinality(A) /\ value'[s] = value[s] + 1
         /\ \E u \in Thread : u \notin A /\ A \cup {u} \subseteq B
      \/ /\ value[s] <= Cardinality(A) /\ value'[s] = value[s] - 1
         /\ \E u \in A : A \ {u} \subseteq B
  BY Zenon DEF WakeupKept
<1> HIDE DEF A, B
<1>4. Cardinality(A) \in Nat /\ Cardinality(B) \in Nat
  BY <1>1, FS_CardinalityType, Zenon
<1>5. CASE value'[s] = 0
  BY <1>4, <1>5 DEF B
<1>6. ASSUME value[s] <= Cardinality(A), value'[s] \in {value[s], value[s] - 1}, A \subseteq B
      PROVE  value'[s] <= Cardinality(B)
  <2>1. Cardinality(A) <= Cardinality(B)
    BY <1>1, <1>6, FS_Subset, Zenon
  <2> QED
    BY <1>2, <1>4, <1>6, <2>1
<1>7. ASSUME NEW u \in Thread, value[s] <= Cardinality(A), value'[s] = value[s] + 1,
             u \notin A, A \cup {u} \subseteq B
      PROVE  value'[s] <= Cardinality(B)
  <2>1. Cardinality(A \cup {u}) = Cardinality(A) + 1
    BY <1>1, <1>7, FS_AddElement, Zenon
  <2>2. Cardinality(A \cup {u}) <= Cardinality(B)
    BY <1>1, <1>7, FS_Subset, Zenon
  <2> QED
    BY <1>2, <1>4, <1>7, <2>1, <2>2
<1>8. ASSUME NEW u \in A, value[s] <= Cardinality(A), value'[s] = value[s] - 1, A \ {u} \subseteq B
      PROVE  value'[s] <= Cardinality(B)
  <2>1. Cardinality(A \ {u}) = Cardinality(A) - 1
    BY <1>1, FS_RemoveElement, Zenon
  <2>2. Cardinality(A \ {u}) <= Cardinality(B)
    BY <1>1, <1>8, FS_Subset, Zenon
  <2> QED
    BY <1>2, <1>4, <1>8, <2>1, <2>2
<1>9. value'[s] <= Cardinality(B)
  BY <1>3, <1>5, <1>6, <1>7, <1>8, Zenon DEF B
<1> QED
  BY <1>9, Zenon DEF B

(* Every kind of step keeps the wakeups of every semaphore.                *)
LEMMA KindsKeepWakeups ==
    ASSUME TypeOK, PlacesOK, ListsMatchStatus, WaitersOK, SemaphoreStepKinds, NEW s \in Sema
    PROVE  WakeupKept(s)
<1> USE SemaphoreNames
<1>0. /\ current \in Thread /\ value \in [Sema -> Nat] /\ waiters \in [Sema -> Seq(Thread)]
      /\ status[current] = "RUNNING"
  BY Zenon DEF TypeOK, ThreadTypeOK, ListsMatchStatus
<1>1. \A t \in Thread : /\ t \in AboutToDown(s) <=> Awake(status, t) /\ Downing(t) /\ sema_arg[t] = s
                        /\ t \in AboutToDown(s)' <=> Awake(status', t) /\ pc'[t] \in {"donate", "down"}
                                                        /\ sema_arg'[t] = s
                        /\ t \in AboutToDown(s) => t \in Thread \ {Idle}
  BY Zenon DEF AboutToDown, Awake, Downing, PlacesOK
<1>2. AboutToDown(s) \subseteq Thread
  BY Zenon DEF AboutToDown
<1>3. CASE Walks
  <2>1. ASSUME NEW t \in AboutToDown(s) PROVE t \in AboutToDown(s)'
    BY <1>0, <1>1, <1>2, <1>3, <2>1, Zenon DEF Walks, OthersKeep, Stays, GoesOn, Outside, Downing
  <2> QED
    BY <1>0, <1>3, <2>1, Zenon DEF WakeupKept, Walks
<1>4. ASSUME NEW x \in Sema, Takes(x) PROVE WakeupKept(s)
  <2>1. /\ value'[s] = IF s = x THEN value[s] - 1 ELSE value[s]
        /\ waiters' = waiters /\ status' = status
    BY <1>0, <1>4, Zenon DEF Takes
  <2>2. ASSUME NEW t \in AboutToDown(s), t # current PROVE t \in AboutToDown(s)'
    BY <1>1, <1>2, <1>4, <2>1, <2>2, Zenon DEF Takes, OthersKeep, Downing
  <2>3. current \in AboutToDown(s) => s = x \/ current \in AboutToDown(s)'
    BY <1>0, <1>1, <1>4, <2>1, Zenon DEF Takes, Downing
  <2>4. CASE AboutToDown(s) \subseteq AboutToDown(s)'
    BY <1>0, <2>1, <2>4, Zenon DEF WakeupKept
  <2>5. CASE s = x /\ current \in AboutToDown(s)
    BY <2>1, <2>2, <2>5, Zenon DEF WakeupKept
  <2> QED
    BY <2>2, <2>3, <2>4, <2>5, Zenon
<1>5. ASSUME NEW l \in Lock, Names(l) PROVE WakeupKept(s)
  <2>1. ASSUME NEW t \in AboutToDown(s) PROVE t \in AboutToDown(s)'
    BY <1>0, <1>1, <1>2, <1>5, <2>1, Zenon DEF Names, OthersKeep, Downing
  <2> QED
    BY <1>0, <1>5, <2>1, Zenon DEF WakeupKept, Names
<1>6. ASSUME NEW x \in Sema, Waits(x) PROVE WakeupKept(s)
  <2>1. CASE s = x
    BY <1>6, <2>1, Zenon DEF WakeupKept, Waits
  <2>2. CASE s # x
    <3>1. ASSUME NEW t \in AboutToDown(s) PROVE t \in AboutToDown(s)'
      BY <1>1, <1>2, <1>6, <2>2, <3>1, Zenon DEF Waits, Downing
    <3>2. waiters'[s] = waiters[s] /\ value' = value
      BY <1>0, <1>6, <2>2, Zenon DEF Waits
    <3> QED
      BY <1>0, <3>1, <3>2, Zenon DEF WakeupKept
  <2> QED
    BY <2>1, <2>2, Zenon
<1>7. ASSUME NEW x \in Sema, Ups(x) PROVE WakeupKept(s)
  <2>1. ASSUME NEW t \in AboutToDown(s) PROVE t \in AboutToDown(s)'
    <3>1. Awake(status', t)
      BY <1>1, <1>2, <1>7, Zenon DEF Ups, Wakes
    <3>2. pc'[t] \in {"donate", "down"} /\ sema_arg'[t] = s
      BY <1>0, <1>1, <1>2, <1>7, Zenon DEF Ups, OthersKeep, Stays, Outside, Downing
    <3> QED
      BY <1>1, <1>2, <3>1, <3>2, Zenon
  <2>2. CASE s # x
    BY <1>0, <1>7, <2>1, <2>2, Zenon DEF WakeupKept, Ups, Wakes
  <2>3. CASE s = x /\ waiters[s] = <<>> /\ waiters' = waiters
    BY <2>3, Zenon DEF WakeupKept
  <2>4. ASSUME s = x, NEW u \in Thread, u \in Elems(waiters[s]), waiters[s] # <<>>,
               \A t \in Thread \ {Idle} : Awake(status', t) <=> Awake(status, t) \/ t = u
        PROVE  WakeupKept(s)
    <3>1. pc[u] = "down" /\ sema_arg[u] = s /\ u # Idle
      BY <2>4, Zenon DEF WaitersOK, PlacesOK
    <3>2. status[u] = "BLOCKED"
      <4>1. WaitListsOK(status, waiters, sleep_list)
        BY PartsOfLists, Zenon
      <4> QED
        BY <2>4, <4>1, Zenon DEF WaitListsOK
    <3>3. u \notin AboutToDown(s) /\ u # current
      BY <1>0, <1>1, <3>2, Zenon DEF Awake
    <3>4. u \in AboutToDown(s)'
      BY <1>1, <1>7, <2>4, <3>1, <3>3, Zenon DEF Ups, OthersKeep
    <3>5. value'[s] = value[s] + 1
      BY <1>0, <1>7, <2>4, Zenon DEF Ups
    <3> QED
      BY <2>1, <2>4, <3>3, <3>4, <3>5, Zenon DEF WakeupKept
  <2> QED
    BY <1>7, <2>2, <2>3, <2>4, Zenon DEF Ups, Wakes
<1> QED
  BY <1>3, <1>4, <1>5, <1>6, <1>7, Zenon DEF SemaphoreStepKinds
-----------------------------------------------------------------------------
(* Every step is of one of the kinds.                                      *)

(* The running thread goes to place q, or an EXCEPT says that it stays.    *)
LEMMA MoveOfCurrent ==
    ASSUME TypeOK, NEW q, pc' = [pc EXCEPT ![current] = q]
    PROVE  pc'[current] = q /\ \A t \in Thread \ {current} : pc'[t] = pc[t]
  BY Zenon DEF TypeOK, ThreadTypeOK

(* The operations of thread.c and the timer interrupt.                     *)
LEMMA ThreadStepWalks ==
    ASSUME TypeOK, PlacesOK, ListsMatchStatus, ArgsOK,
           (ThreadStep /\ UNCHANGED synchVars) \/ ThreadSetPriorityReturn \/ ThreadExit
    PROVE  Walks
<1>0. /\ SchedTypeOK /\ current \in Thread /\ RunQueueOK(status, ready_list)
      /\ status[current] = "RUNNING" /\ sleep_list \in Seq(Thread)
      /\ pc[current] \in {"hlt", "loop"} <=> current = Idle
      /\ \A t \in Thread : Downing(t) => t # Idle
      /\ \A t \in Thread : status[t] = "NONE" => pc[t] = "run"
  BY PartsOfLists, Zenon
  DEF TypeOK, ThreadTypeOK, SchedTypeOK, ListsMatchStatus, PlacesOK, ArgsOK, Downing
<1>1. UNCHANGED <<value, waiters, holder, cond_waiters, sema_arg, cond_arg>>
  BY Zenon DEF synchVars, semaVars, argVars, ThreadSetPriorityReturn, ThreadExit
<1> DEFINE awake == \A t \in Thread : Downing(t) /\ Awake(status, t) => Awake(status', t)
           moves == /\ \A t \in Thread \ {current} : pc'[t] = pc[t]
                    /\ \/ pc'[current] = pc[current]
                       \/ pc[current] \in Outside /\ pc'[current] \in Outside
<1>2. awake /\ moves => Walks
  BY <1>1, Zenon DEF Walks, OthersKeep, Stays
<1>3. ASSUME NEW prio, thread_yield(status, ready_list, prio) PROVE awake
  BY <1>0, <1>3, YieldAwake, Zenon DEF SchedTypeOK
<1>4. ASSUME UNCHANGED status PROVE awake
  BY <1>4, Zenon DEF Awake
<1>5. ASSUME thread_block, ~Downing(current) PROVE awake
  BY <1>0, <1>5, BlockAwake, Zenon
<1>6. ASSUME UNCHANGED pc PROVE moves
  BY <1>6, Zenon
<1>7. ASSUME NEW q \in Outside, pc' = [pc EXCEPT ![current] = q], pc[current] \in Outside PROVE moves
  BY <1>7, MoveOfCurrent, Zenon
<1> HIDE DEF awake, moves
<1>8. CASE Yield
  BY <1>2, <1>3, <1>6, <1>8, Zenon DEF Yield
<1>9. ASSUME NEW u \in Thread, NEW p \in Priority, thread_create(u, p) PROVE Walks
  <2>1. /\ pc[current] = "run" /\ status[u] = "NONE" /\ status' = [status EXCEPT ![u] = "READY"]
        /\ pc' = [pc EXCEPT ![current] = "created", ![u] = "run"]
    BY <1>9, Zenon DEF thread_create, Calling
  <2>2. awake
    BY <1>0, <2>1, Zenon DEF awake, Downing, Awake, SchedTypeOK
  <2>3. \A t \in Thread : pc'[t] = IF t = u THEN "run" ELSE IF t = current THEN "created" ELSE pc[t]
    BY <1>0, <2>1, Zenon DEF TypeOK
  <2>4. moves
    BY <1>0, <2>1, <2>3, Zenon DEF moves, Outside
  <2> QED
    BY <1>2, <2>2, <2>4, Zenon
<1>10. CASE thread_create_return
  BY <1>2, <1>3, <1>4, <1>7, <1>10, Zenon DEF thread_create_return, schedVars, At, Outside
<1>11. ASSUME NEW p \in Priority, thread_set_priority(p) PROVE Walks
  BY <1>2, <1>4, <1>7, <1>11, Zenon DEF thread_set_priority, schedVars, Calling, Outside
<1>12. CASE ThreadSetPriorityReturn
  BY <1>2, <1>3, <1>4, <1>7, <1>12, Zenon
  DEF ThreadSetPriorityReturn, thread_set_priority_return, schedVars, At, Outside
<1>13. ASSUME NEW n \in 1 .. MaxSleep, timer_sleep(n) PROVE Walks
  BY <1>2, <1>5, <1>6, <1>13, Zenon DEF timer_sleep, Calling, Downing
<1>14. CASE idle
  <2>1. current = Idle
    BY <1>0, <1>14, Zenon DEF idle, At
  <2> QED
    BY <1>2, <1>5, <1>7, <1>14, <2>1, Zenon DEF idle, At, Downing, Outside
<1>15. CASE timer_interrupt
  <2>1. pc' = [pc EXCEPT ![current] = IF pc[current] = "hlt" THEN "loop" ELSE pc[current]]
    BY <1>15, Zenon DEF timer_interrupt, Interrupted
  <2>2. moves
    BY <2>1, MoveOfCurrent, Zenon DEF moves, Outside
  <2> QED
    BY <1>2, <1>4, <1>15, <2>2, Zenon DEF timer_interrupt, schedVars
<1>16. CASE thread_tick_wake
  <2>1. PICK i \in DOMAIN sleep_list : status' = [status EXCEPT ![sleep_list[i]] = "READY"]
    BY <1>16, Zenon DEF thread_tick_wake
  <2>2. awake
    BY <1>0, <2>1, Zenon DEF awake, Awake, SchedTypeOK
  <2> QED
    BY <1>2, <1>6, <1>16, <2>2, Zenon DEF thread_tick_wake
<1>17. CASE thread_tick_return
  BY <1>2, <1>3, <1>4, <1>6, <1>17, Zenon DEF thread_tick_return
<1>18. CASE ThreadExit
  <2> DEFINE st == [status EXCEPT ![current] = "DYING"]
  <2>1. /\ schedule(st, ready_list, priority) /\ UNCHANGED pc /\ pc[current] = "run"
        /\ \A t \in Thread : st[t] = IF t = current THEN "DYING" ELSE status[t]
    BY <1>0, <1>18, Zenon DEF ThreadExit, thread_exit, Calling, SchedTypeOK
  <2> HIDE DEF st
  <2>2. \A t \in Elems(ready_list) : st[t] = "READY"
    BY <1>0, <2>1, ElemsInThread, Zenon DEF RunQueueOK, SchedTypeOK
  <2>3. awake
    BY <1>0, <2>1, <2>2, ScheduleAwake, Zenon DEF awake, Awake, Downing
  <2> QED
    BY <1>2, <1>6, <2>1, <2>3, Zenon
<1> QED
  BY <1>8, <1>9, <1>10, <1>11, <1>12, <1>13, <1>14, <1>15, <1>16, <1>17, <1>18, Zenon
  DEF ThreadStep, Tick

(* The operations of semaphores.                                           *)
LEMMA SemaphoreStepIsOf ==
    ASSUME TypeOK, PlacesOK, ListsMatchStatus, ArgsOK, SemaphoreStep
    PROVE  SemaphoreStepKinds
<1> USE SemaphoreNames
<1>0. /\ SchedTypeOK /\ current \in Thread /\ RunQueueOK(status, ready_list)
      /\ WaitListsOK(status, waiters, sleep_list) /\ waiters \in [Sema -> Seq(Thread)]
      /\ sema_arg \in [Thread -> Sema \cup {Null}] /\ cond_arg \in [Thread -> Condition \cup {Null}]
  BY PartsOfLists, Zenon DEF TypeOK, ThreadTypeOK, SchedTypeOK
<1>1. ASSUME NEW s \in Semaphore, SemaDown(s) PROVE Walks
  <2>1. /\ pc[current] = "run" /\ pc' = [pc EXCEPT ![current] = "down"]
        /\ sema_arg' = [sema_arg EXCEPT ![current] = s]
        /\ UNCHANGED <<value, waiters, holder, cond_waiters, cond_arg, status>>
    BY <1>1, Zenon DEF SemaDown, EnterSemaDown, Calling, semaVars, schedVars
  <2>2. sema_arg'[current] = s /\ \A t \in Thread \ {current} : sema_arg'[t] = sema_arg[t]
    BY <1>0, <2>1, Zenon
  <2> QED
    BY <2>1, <2>2, MoveOfCurrent, Zenon DEF Walks, OthersKeep, GoesOn, Awake
<1>2. ASSUME NEW s \in Semaphore, SemaTryDown(s) PROVE Takes(s)
  BY <1>2, Zenon DEF SemaTryDown, Takes, OthersKeep, threadVars, schedVars, argVars
<1>3. ASSUME NEW s \in Semaphore, SemaUp(s) PROVE Ups(s)
  <2>1. Wakes(s)
    BY <1>3, SemaUpWakes, Zenon DEF SemaUp
  <2> QED
    BY <1>3, <2>1, Zenon DEF SemaUp, sema_up, Ups, OthersKeep, Stays, argVars
<1>4. ASSUME NEW s \in IrqSemaphore, IrqSemaUp(s) PROVE Ups(s)
  <2>1. Wakes(s)
    <3>1. CASE waiters[s] = <<>> /\ UNCHANGED <<status, waiters>>
      BY <3>1, Zenon DEF Wakes
    <3>2. ASSUME NEW i \in DOMAIN waiters[s],
                 waiters' = [waiters EXCEPT ![s] = list_remove(@, i)],
                 status' = [status EXCEPT ![waiters[s][i]] = "READY"]
          PROVE  Wakes(s)
      <4> DEFINE u == waiters[s][i]
      <4>1. u \in Thread /\ u \in Elems(waiters[s]) /\ waiters[s] # <<>>
        BY <1>0 DEF Elems
      <4>2. \A t \in Thread : status'[t] = IF t = u THEN "READY" ELSE status[t]
        BY <1>0, <3>2, <4>1, Zenon DEF SchedTypeOK
      <4>3. /\ \A s2 \in Sema \ {s} : waiters'[s2] = waiters[s2]
            /\ waiters'[s] = list_remove(waiters[s], i)
        BY <1>0, <3>2, Zenon
      <4>4. Elems(waiters'[s]) = Elems(waiters[s]) \ {u} /\ waiters'[s] \in Seq(Thread)
        BY <1>0, <4>3, RemoveElems DEF WaitListsOK
      <4> HIDE DEF u
      <4>5. \A t \in Thread \ {Idle} : Awake(status', t) <=> Awake(status, t) \/ t = u
        BY <4>2, Zenon DEF Awake
      <4> QED
        BY <4>1, <4>3, <4>4, <4>5, Zenon DEF Wakes
    <3> QED
      BY <1>4, <3>1, <3>2, Zenon DEF IrqSemaUp
  <2>2. pc' = [pc EXCEPT ![current] = IF pc[current] = "hlt" THEN "loop" ELSE pc[current]]
    BY <1>4, Zenon DEF IrqSemaUp, Interrupted
  <2>3. /\ pc'[current] = IF pc[current] = "hlt" THEN "loop" ELSE pc[current]
        /\ \A t \in Thread \ {current} : pc'[t] = pc[t]
    BY <2>2, MoveOfCurrent, Zenon
  <2> QED
    BY <1>4, <2>1, <2>3, Zenon DEF IrqSemaUp, Ups, OthersKeep, Stays, Outside, argVars
<1>5. CASE sema_down_wait
  <2>1. \A t \in Thread \ {Idle} : Awake(status', t) <=> Awake(status, t) /\ t # current
    BY <1>0, <1>5, BlockAwake, Zenon DEF sema_down_wait
  <2>2. sema_arg[current] \in Sema
    BY <1>0, <1>5, Zenon DEF sema_down_wait, At, PlacesOK
  <2>3. Waits(sema_arg[current])
    BY <1>5, <2>1, Zenon DEF sema_down_wait, At, Waits, argVars
  <2> QED
    BY <2>2, <2>3, Zenon DEF SemaphoreStepKinds
<1>6. CASE sema_down_return
  <2> DEFINE s == sema_arg[current]
  <2>1. s \in Sema /\ pc[current] = "down"
    BY <1>0, <1>6, Zenon DEF sema_down_return, At, PlacesOK
  <2>2. /\ value[s] > 0 /\ value' = [value EXCEPT ![s] = @ - 1]
        /\ UNCHANGED <<waiters, cond_waiters, status>>
        /\ pc' = [pc EXCEPT ![current] = IF s = current THEN "reacquire" ELSE "run"]
        /\ sema_arg' = [sema_arg EXCEPT ![current] = Null]
        /\ \/ /\ s \in Lock /\ holder' = [holder EXCEPT ![s] = current]
              /\ cond_arg' = [cond_arg EXCEPT ![current] = Null]
           \/ s \notin Lock /\ UNCHANGED <<holder, cond_arg>>
    BY <1>6, Zenon DEF sema_down_return, schedVars
  <2>3. /\ pc'[current] = IF s = current THEN "reacquire" ELSE "run"
        /\ \A t \in Thread \ {current} : pc'[t] = pc[t]
    BY <2>2, MoveOfCurrent, Zenon
  <2>4. sema_arg'[current] = Null /\ \A t \in Thread \ {current} : sema_arg'[t] = sema_arg[t]
    BY <1>0, <2>2, Zenon
  <2>5. \A t \in Thread \ {current} : cond_arg'[t] = cond_arg[t]
    BY <1>0, <2>2, Zenon
  <2>6. s \in Lock => cond_arg'[current] = Null /\ pc'[current] = "run"
    BY <1>0, <2>2, <2>3, Zenon
  <2>7. OthersKeep
    BY <2>3, <2>4, <2>5, Zenon DEF OthersKeep
  <2> HIDE DEF s
  <2>8. Takes(s)
    BY <2>1, <2>2, <2>3, <2>4, <2>6, <2>7, Zenon DEF Takes, s
  <2> QED
    BY <2>1, <2>8, Zenon DEF SemaphoreStepKinds
<1> QED
  BY <1>1, <1>2, <1>3, <1>4, <1>5, <1>6, Zenon DEF SemaphoreStep, SemaphoreStepKinds

(* The running thread enters lock_acquire().                               *)
LEMMA LockAcquireWalks ==
    ASSUME TypeOK, PlacesOK, NEW l \in Lock, lock_acquire(l), pc[current] \in {"run", "reacquire"}
    PROVE  Walks
<1>1. /\ sema_arg' = [sema_arg EXCEPT ![current] = l]
      /\ UNCHANGED <<value, waiters, holder, cond_waiters, cond_arg, status>>
      /\ pc' = [pc EXCEPT ![current] = "donate"] \/ pc' = [pc EXCEPT ![current] = "down"]
  BY Zenon DEF lock_acquire, semaVars, schedVars
<1>2. /\ current \in Thread /\ sema_arg'[current] = l
      /\ \A t \in Thread \ {current} : sema_arg'[t] = sema_arg[t]
  BY <1>1, Zenon DEF TypeOK, ThreadTypeOK
<1>3. pc'[current] \in {"donate", "down"} /\ \A t \in Thread \ {current} : pc'[t] = pc[t]
  BY <1>1, MoveOfCurrent, Zenon
<1> QED
  BY <1>1, <1>2, <1>3, Zenon DEF Walks, OthersKeep, GoesOn, Awake

(* The first half of lock_release().                                       *)
LEMMA LockReleaseUps ==
    ASSUME TypeOK, ListsMatchStatus, NEW l \in Lock, lock_release(value, l), pc[current] = "run",
           \/ UNCHANGED <<cond_waiters, cond_arg>>
           \/ \E c \in Condition :
                 /\ cond_arg' = [cond_arg EXCEPT ![current] = c]
                 /\ cond_waiters' = [cond_waiters EXCEPT ![c] = list_push_back(@, current)]
    PROVE  Ups(l)
<1> USE SemaphoreNames
<1>1. Wakes(l)
  BY SemaUpWakes, Zenon DEF lock_release
<1>2. /\ value' = [value EXCEPT ![l] = @ + 1] /\ UNCHANGED sema_arg
      /\ holder[l] = current /\ holder' = [holder EXCEPT ![l] = Null]
      /\ pc' = [pc EXCEPT ![current] = "released"]
  BY Zenon DEF lock_release, sema_up
<1>3. pc'[current] = "released" /\ \A t \in Thread \ {current} : pc'[t] = pc[t]
  BY <1>2, MoveOfCurrent, Zenon
<1>4. \A t \in Thread \ {current} : cond_arg'[t] = cond_arg[t]
  BY Zenon DEF TypeOK
<1>5. \/ UNCHANGED <<cond_waiters, cond_arg>>
      \/ \E c \in Condition :
            /\ cond_arg'[current] = c
            /\ cond_waiters' = [cond_waiters EXCEPT ![c] = list_push_back(@, current)]
  BY Zenon DEF TypeOK, ThreadTypeOK
<1> QED
  BY <1>1, <1>2, <1>3, <1>4, <1>5, Zenon DEF Ups, OthersKeep

(* The operations of locks.                                                *)
LEMMA LockStepIsOf ==
    ASSUME TypeOK, PlacesOK, ListsMatchStatus, ArgsOK, LockStep
    PROVE  SemaphoreStepKinds
<1> USE SemaphoreNames
<1>0. /\ SchedTypeOK /\ current \in Thread /\ RunQueueOK(status, ready_list)
      /\ sema_arg \in [Thread -> Sema \cup {Null}]
  BY PartsOfLists, Zenon DEF TypeOK, ThreadTypeOK, SchedTypeOK
<1>1. ASSUME UNCHANGED <<value, waiters, holder, cond_waiters, sema_arg, cond_arg, status>>, OthersKeep,
             \/ pc'[current] = pc[current]
             \/ pc[current] = "donate" /\ pc'[current] = "down"
      PROVE  Walks
  BY <1>1, Zenon DEF Walks, Stays, GoesOn, Awake
<1>2. ASSUME NEW l \in Lock, LockAcquire(l) PROVE Walks
  BY <1>2, LockAcquireWalks, Zenon DEF LockAcquire, Calling
<1>3. ASSUME NEW l \in Lock, LockRelease(l) PROVE Ups(l)
  BY <1>3, LockReleaseUps, Zenon DEF LockRelease, Calling
<1>4. ASSUME NEW l \in Lock, LockTryAcquire(l) PROVE Takes(l)
  <2>1. /\ value[l] > 0 /\ value' = [value EXCEPT ![l] = @ - 1] /\ pc[current] = "run"
        /\ UNCHANGED <<waiters, cond_waiters, status, holder, cond_arg>>
        /\ pc' = [pc EXCEPT ![current] = "tried"] /\ sema_arg' = [sema_arg EXCEPT ![current] = l]
    BY <1>4, Zenon DEF LockTryAcquire, Calling, schedVars
  <2>2. sema_arg'[current] = l /\ \A t \in Thread \ {current} : sema_arg'[t] = sema_arg[t]
    BY <1>0, <2>1, Zenon
  <2>3. pc'[current] = "tried" /\ \A t \in Thread \ {current} : pc'[t] = pc[t]
    BY <2>1, MoveOfCurrent, Zenon
  <2> QED
    BY <2>1, <2>2, <2>3, Zenon DEF Takes, OthersKeep
<1>5. CASE donate_priority_fault \/ \E l \in Lock : lock_release_fault(l)
  <2>1. UNCHANGED <<value, waiters, holder, cond_waiters, sema_arg, cond_arg, status, pc>>
    BY <1>5, Zenon DEF donate_priority_fault, lock_release_fault, synchVars, semaVars, argVars, schedVars
  <2> QED
    BY <1>1, <2>1, Zenon DEF OthersKeep, SemaphoreStepKinds
<1>6. CASE donate_priority
  <2>1. /\ UNCHANGED <<value, waiters, holder, cond_waiters, sema_arg, cond_arg, status>>
        /\ pc[current] = "donate"
        /\ pc' = [pc EXCEPT ![current] = "donate"] \/ pc' = [pc EXCEPT ![current] = "down"]
    BY <1>6, Zenon DEF donate_priority, At, semaVars, schedVars
  <2>2. /\ \A t \in Thread \ {current} : pc'[t] = pc[t]
        /\ pc'[current] = pc[current] \/ pc'[current] = "down"
    BY <2>1, MoveOfCurrent, Zenon
  <2> QED
    BY <1>1, <2>1, <2>2, Zenon DEF OthersKeep, SemaphoreStepKinds
<1>7. CASE lock_release_return
  <2>1. /\ UNCHANGED <<value, waiters, holder, cond_waiters, cond_arg>> /\ pc[current] = "released"
        /\ UNCHANGED status \/ thread_yield(status, ready_list, priority')
        /\ \/ /\ cond_arg[current] # Null /\ sema_arg' = [sema_arg EXCEPT ![current] = current]
              /\ pc' = [pc EXCEPT ![current] = "down"]
           \/ /\ cond_arg[current] = Null /\ UNCHANGED sema_arg
              /\ pc' = [pc EXCEPT ![current] = "run"]
    BY <1>7, Zenon DEF lock_release_return, At, EnterSemaDown, semaVars, schedVars
  <2>2. \A t \in Thread : Downing(t) /\ Awake(status, t) => Awake(status', t)
    <3>1. \A t \in Thread : Downing(t) => t # Idle
      BY Zenon DEF PlacesOK, Downing
    <3>2. ASSUME NEW prio, thread_yield(status, ready_list, prio), NEW t \in Thread \ {Idle}
          PROVE  Awake(status', t) <=> Awake(status, t)
      BY <1>0, <3>2, YieldAwake, Zenon DEF SchedTypeOK
    <3> QED
      BY <2>1, <3>1, <3>2, Zenon DEF Awake
  <2>3. \A t \in Thread \ {current} : sema_arg'[t] = sema_arg[t] /\ pc'[t] = pc[t]
    BY <1>0, <2>1, MoveOfCurrent, Zenon
  <2>4. \/ cond_arg[current] # Null /\ sema_arg'[current] = current /\ pc'[current] = "down"
        \/ /\ cond_arg[current] = Null /\ sema_arg'[current] = sema_arg[current]
           /\ pc'[current] = "run"
    BY <1>0, <2>1, MoveOfCurrent, Zenon
  <2> QED
    BY <2>1, <2>2, <2>3, <2>4, Zenon DEF Walks, OthersKeep, GoesOn, SemaphoreStepKinds
<1>8. CASE lock_try_acquire_return
  <2>1. /\ pc[current] = "tried" /\ holder' = [holder EXCEPT ![sema_arg[current]] = current]
        /\ pc' = [pc EXCEPT ![current] = "run"] /\ sema_arg' = [sema_arg EXCEPT ![current] = Null]
        /\ UNCHANGED <<value, waiters, cond_waiters, cond_arg, status>>
    BY <1>8, Zenon DEF lock_try_acquire_return, At, semaVars, schedVars
  <2>2. sema_arg[current] \in Lock
    BY <1>0, <2>1, Zenon DEF ArgsOK
  <2>3. sema_arg'[current] = Null /\ \A t \in Thread \ {current} : sema_arg'[t] = sema_arg[t]
    BY <1>0, <2>1, Zenon
  <2>4. pc'[current] = "run" /\ \A t \in Thread \ {current} : pc'[t] = pc[t]
    BY <2>1, MoveOfCurrent, Zenon
  <2>5. Names(sema_arg[current])
    BY <2>1, <2>3, <2>4, Zenon DEF Names, OthersKeep
  <2> QED
    BY <2>2, <2>5, Zenon DEF SemaphoreStepKinds
<1> QED
  BY <1>2, <1>3, <1>4, <1>5, <1>6, <1>7, <1>8, Zenon DEF LockStep, SemaphoreStepKinds

(* cond_signal() by the running thread, from cond_broadcast() or not.      *)
LEMMA CondSignalUps ==
    ASSUME TypeOK, ListsMatchStatus, NEW c \in Condition, cond_signal(c)
    PROVE  SemaphoreStepKinds
<1> USE SemaphoreNames
<1>1. PICK i \in DOMAIN cond_waiters[c] :
            /\ cond_waiters' = [cond_waiters EXCEPT ![c] = list_remove(@, i)]
            /\ sema_up(value, cond_waiters[c][i])
  BY Zenon DEF cond_signal
<1> DEFINE u == cond_waiters[c][i]
<1>2. u \in Thread
  BY DEF TypeOK
<1> HIDE DEF u
<1>3. sema_up(value, u) /\ UNCHANGED <<pc, holder, sema_arg, cond_arg>>
  BY <1>1, Zenon DEF cond_signal, argVars, u
<1>4. Wakes(u) /\ value' = [value EXCEPT ![u] = @ + 1]
  BY <1>2, <1>3, SemaUpWakes, Zenon DEF sema_up
<1>5. Ups(u)
  BY <1>1, <1>2, <1>3, <1>4, Zenon DEF Ups, OthersKeep, u
<1> QED
  BY <1>2, <1>5, Zenon DEF SemaphoreStepKinds

(* The operations of condition variables.                                  *)
LEMMA ConditionStepIsOf ==
    ASSUME TypeOK, PlacesOK, ListsMatchStatus, SignalOK, ConditionStep
    PROVE  SemaphoreStepKinds
<1> USE SemaphoreNames
<1>0. /\ current \in Thread /\ value \in [Sema -> Nat] /\ CondLock \in [Condition -> Lock]
      /\ cond_arg \in [Thread -> Condition \cup {Null}]
      /\ pc[current] \in {"reacquire", "broadcast"} => cond_arg[current] \in Condition
  BY SynchAssumption, Zenon DEF TypeOK, ThreadTypeOK, PlacesOK
<1>1. ASSUME NEW c \in Condition, CondWait(c) PROVE Ups(CondLock[c])
  <2>1. pc[current] = "run"
    BY <1>1, Zenon DEF CondWait, Calling
  <2>2. current \notin Awaiting
    BY <2>1, Zenon DEF Awaiting
  <2>3. value[current] = 0
    BY <1>0, <2>2 DEF SignalOK
  <2>4. [value EXCEPT ![current] = 0] = value
    BY <1>0, <2>3, Zenon
  <2>5. lock_release(value, CondLock[c])
    BY <1>1, <2>4, Zenon DEF CondWait
  <2>6. /\ cond_arg' = [cond_arg EXCEPT ![current] = c]
        /\ cond_waiters' = [cond_waiters EXCEPT ![c] = list_push_back(@, current)]
    BY <1>1, Zenon DEF CondWait
  <2> QED
    BY <1>0, <2>1, <2>5, <2>6, LockReleaseUps, Zenon
<1>2. ASSUME NEW c \in Condition, CondBroadcast(c) PROVE Walks
  <2>1. /\ pc[current] = "run" /\ pc' = [pc EXCEPT ![current] = "broadcast"]
        /\ cond_arg' = [cond_arg EXCEPT ![current] = c]
        /\ UNCHANGED <<value, waiters, holder, cond_waiters, sema_arg, status>>
    BY <1>2, Zenon DEF CondBroadcast, Calling, semaVars, schedVars
  <2>2. cond_arg'[current] = c /\ \A t \in Thread \ {current} : cond_arg'[t] = cond_arg[t]
    BY <1>0, <2>1, Zenon
  <2> QED
    BY <2>1, <2>2, MoveOfCurrent, Zenon DEF Walks, OthersKeep, GoesOn, Awake
<1>3. CASE cond_broadcast_return
  <2>1. /\ pc[current] = "broadcast" /\ pc' = [pc EXCEPT ![current] = "run"]
        /\ cond_arg' = [cond_arg EXCEPT ![current] = Null]
        /\ UNCHANGED <<value, waiters, holder, cond_waiters, sema_arg, status>>
    BY <1>3, Zenon DEF cond_broadcast_return, At, semaVars, schedVars
  <2>2. cond_arg'[current] = Null /\ \A t \in Thread \ {current} : cond_arg'[t] = cond_arg[t]
    BY <1>0, <2>1, Zenon
  <2> QED
    BY <2>1, <2>2, MoveOfCurrent, Zenon DEF Walks, OthersKeep, GoesOn, Awake, SemaphoreStepKinds
<1>4. CASE CondReacquire
  BY <1>0, <1>4, LockAcquireWalks, Zenon DEF CondReacquire, At, SemaphoreStepKinds
<1>5. CASE cond_broadcast_signal
  BY <1>0, <1>5, CondSignalUps, Zenon DEF cond_broadcast_signal, At
<1>6. ASSUME NEW c \in Condition, CondSignal(c) PROVE SemaphoreStepKinds
  BY <1>6, CondSignalUps, Zenon DEF CondSignal
<1> QED
  BY <1>0, <1>1, <1>2, <1>3, <1>4, <1>5, <1>6, Zenon DEF ConditionStep, SemaphoreStepKinds

(* Every step is of one of the kinds.                                      *)
LEMMA EveryStepIsOf ==
    ASSUME TypeOK, PlacesOK, ListsMatchStatus, SemaphoresOK, [Next]_vars
    PROVE  SemaphoreStepKinds
<1>1. ArgsOK /\ SignalOK
  BY Zenon DEF SemaphoresOK
<1>2. CASE UNCHANGED vars
  <2>1. UNCHANGED <<value, waiters, holder, cond_waiters, sema_arg, cond_arg, pc, status>>
    BY <1>2, Zenon DEF vars, threadVars, schedVars, synchVars, semaVars, argVars
  <2> QED
    BY <2>1, Zenon DEF SemaphoreStepKinds, Walks, Stays, OthersKeep, Awake
<1> QED
  BY <1>1, <1>2, ThreadStepWalks, SemaphoreStepIsOf, LockStepIsOf, ConditionStepIsOf, Zenon
  DEF Next, SemaphoreStepKinds

(* So every step keeps the inductive invariant.                            *)
LEMMA StepKeepsSemaphores ==
    ASSUME TypeOK, PlacesOK, ListsMatchStatus, SemaphoresOK, [Next]_vars
    PROVE  SemaphoresOK'
<1>0. /\ ArgsOK /\ WaitersOK /\ OwnerOK /\ SignalOK /\ SemaphoreStepKinds
      /\ status[current] = "RUNNING" /\ current \in Thread
  BY EveryStepIsOf, Zenon DEF SemaphoresOK, TypeOK, ThreadTypeOK, ListsMatchStatus
<1>1. ASSUME NEW t \in Thread, status'[t] = "NONE" PROVE pc'[t] = "run"
  <2>1. CASE status[t] = "NONE"
    <3>1. t # current /\ pc[t] = "run"
      BY <1>0, <2>1, Zenon DEF ArgsOK
    <3>2. OthersKeep
      BY <1>0, Zenon DEF SemaphoreStepKinds, Walks, Takes, Waits, Ups, Names, OthersKeep
    <3> QED
      BY <3>1, <3>2, Zenon DEF OthersKeep
  <2>2. CASE t = current /\ ThreadExit
    BY <2>2, Zenon DEF ThreadExit, thread_exit, Calling
  <2> QED
    BY <1>1, <2>1, <2>2, NoneStep, Zenon
<1>2. ArgsOK'
  BY <1>0, <1>1, KindsKeepArgs, Zenon DEF ArgsOK
<1>3. WaitersOK' /\ OwnerOK'
  BY <1>0, KindsKeepWaiters, KindsKeepOwner, Zenon
<1>4. SignalOK'
  BY <1>0, KindsKeepSignals, UpsKeepSignals, Zenon DEF SemaphoreStepKinds
<1> QED
  BY <1>2, <1>3, <1>4, Zenon DEF SemaphoresOK

(* It holds when main() has initialised the kernel.                        *)
LEMMA InitSemaphores == Init => SemaphoresOK
<1> USE SemaphoreNames
<1> SUFFICES ASSUME Init PROVE SemaphoresOK
  BY Zenon
<1>0. Elems(<<>>) = {} /\ Distinct(<<>>)
  BY DEF Elems, Distinct
<1>1. /\ \A t \in Thread : /\ pc[t] \in {"run", "hlt"} /\ cond_arg[t] = Null /\ value[t] = 0
                           /\ status[t] = "NONE" => pc[t] = "run"
      /\ \A s \in Sema : waiters[s] = <<>>
      /\ \A l \in Lock : value[l] = 1 /\ holder[l] = Null
      /\ \A c \in Condition : cond_waiters[c] = <<>>
  BY ThreadAssumption, Zenon DEF Init, ThreadInit
<1>2. ArgsOK /\ WaitersOK
  BY <1>0, <1>1, Zenon DEF ArgsOK, WaitersOK, Downing
<1>3. OwnerOK
  BY <1>1, Zenon DEF OwnerOK, Trying
<1>4. \A t \in Thread : t \notin Awaiting /\ ~(value[t] > 0)
  BY <1>1 DEF Awaiting
<1>5. SignalOK
  BY <1>0, <1>1, <1>4, Zenon DEF SignalOK
<1> QED
  BY <1>2, <1>3, <1>5, Zenon DEF SemaphoresOK

(* The inductive invariant holds throughout, whatever calls are made.      *)
LEMMA SemaphoresInvariant ==
    Spec => [](TypeOK /\ PlacesOK /\ ListsMatchStatus /\ SemaphoresOK)
<1>1. TypeOK /\ PlacesOK /\ ListsMatchStatus /\ SemaphoresOK /\ [Next]_vars => SemaphoresOK'
  BY StepKeepsSemaphores, Zenon
<1> QED
  BY <1>1, InitSemaphores, TypesAndPlacesInvariant, ListsInvariant, PTL DEF Spec
-----------------------------------------------------------------------------
(* No wakeup of a thread waiting for a semaphore, a lock or a signal is    *)
(* lost, however many threads, locks and semaphores there are and whatever *)
(* interrupt handlers up: the value never exceeds the number of threads on *)
(* their way to test it while others wait.                                 *)
THEOREM WakeupsInvariant == Spec => []NoLostWakeup
<1> DEFINE Inv == TypeOK /\ PlacesOK /\ ListsMatchStatus /\ SemaphoresOK
<1>1. Init => NoLostWakeup
  BY Zenon DEF Init, NoLostWakeup
<1>2. Inv /\ NoLostWakeup /\ [Next]_vars => NoLostWakeup'
  <2> SUFFICES ASSUME Inv, NoLostWakeup, [Next]_vars, NEW s \in Sema, waiters'[s] # <<>>
               PROVE  value'[s] <= Cardinality(AboutToDown(s)')
    BY Zenon DEF NoLostWakeup
  <2>1. WakeupKept(s)
    BY EveryStepIsOf, KindsKeepWakeups, Zenon DEF SemaphoresOK
  <2>2. waiters[s] # <<>> => value[s] <= Cardinality(AboutToDown(s))
    BY Zenon DEF NoLostWakeup
  <2> QED
    BY <2>1, <2>2, WakeupCount, Zenon
<1> QED
  BY <1>1, <1>2, SemaphoresInvariant, PTL DEF Spec

(* A lock is free, held, or taken by the one thread that has yet to name   *)
(* itself the holder, also while lock_try_acquire() is called.             *)
THEOREM OwnerInvariant == Spec => []OneOwner
<1>1. SemaphoresOK => OneOwner
  <2> SUFFICES ASSUME SemaphoresOK, NEW l \in Lock
               PROVE  value[l] + Cardinality(Trying(l)) + (IF holder[l] = Null THEN 0 ELSE 1) = 1
    BY Zenon DEF OneOwner, Trying
  <2>1. /\ Trying(l) = {} => Cardinality(Trying(l)) = 0
        /\ \A t \in Thread : Trying(l) = {t} => Cardinality(Trying(l)) = 1
    BY FS_EmptySet, FS_Singleton, Zenon
  <2>2. \/ value[l] = 1 /\ holder[l] = Null /\ Trying(l) = {}
        \/ value[l] = 0 /\ holder[l] = Null /\ \E t \in Thread : Trying(l) = {t}
        \/ value[l] = 0 /\ holder[l] # Null /\ Trying(l) = {}
    BY Zenon DEF SemaphoresOK, OwnerOK
  <2> QED
    BY <2>1, <2>2
<1> QED
  BY <1>1, SemaphoresInvariant, PTL

(* No signal of a condition variable is lost, and none is counted twice.   *)
THEOREM SignalsInvariant == Spec => []SignalNotLost
<1>1. TypeOK /\ SemaphoresOK => SignalNotLost
  <2> SUFFICES ASSUME TypeOK, SemaphoresOK, NEW t \in Thread
               PROVE  /\ {c \in Condition : t \in Elems(cond_waiters[c])} =
                            IF t \in Awaiting /\ value[t] = 0 THEN {cond_arg[t]} ELSE {}
                      /\ value[t] > 0 => t \in Awaiting /\ value[t] = 1 /\ waiters[t] = <<>>
    BY AwaitingMeans, Zenon DEF SignalNotLost
  <2>1. t \in Awaiting => cond_arg[t] \in Condition
    BY AwaitingMeans, Zenon DEF TypeOK
  <2>2. /\ \A c \in Condition : t \in Elems(cond_waiters[c])
                                  <=> t \in Awaiting /\ value[t] = 0 /\ cond_arg[t] = c
        /\ value[t] > 0 => t \in Awaiting /\ value[t] = 1 /\ waiters[t] = <<>>
    BY Zenon DEF SemaphoresOK, SignalOK
  <2>3. CASE t \in Awaiting /\ value[t] = 0
    BY <2>1, <2>2, <2>3, Zenon
  <2>4. CASE ~(t \in Awaiting /\ value[t] = 0)
    BY <2>2, <2>4, Zenon
  <2> QED
    BY <2>3, <2>4, Zenon
<1> QED
  BY <1>1, SemaphoresInvariant, PTL
-----------------------------------------------------------------------------
(* A thread with ticks left to sleep is on sleep_list, in the handler too. *)
SleepOK == SleepersOnTime /\ \A t \in Thread : sleep_left[t] > 0 => t \in Elems(sleep_list)

(* The timer, thread_tick() and timer_sleep() keep it so, and nothing else *)
(* touches sleep_list.                                                     *)
LEMMA StepKeepsSleep ==
    ASSUME TypeOK, ListsMatchStatus, SleepOK, [Next]_vars
    PROVE  SleepOK'
<1>0. /\ sleep_left \in [Thread -> 0 .. MaxSleep] /\ sleep_list \in Seq(Thread) /\ current \in Thread
      /\ Distinct(sleep_list) /\ in_external_intr \in BOOLEAN
      /\ Elems(sleep_list) \subseteq Thread
  BY ElemsInThread, Zenon DEF TypeOK, ThreadTypeOK, ListsMatchStatus
<1>1. CASE UNCHANGED <<sleepVars, in_external_intr>>
  BY <1>1, Zenon DEF SleepOK, SleepersOnTime, sleepVars
<1>2. ASSUME NEW n \in 1 .. MaxSleep, timer_sleep(n) PROVE SleepOK'
  <2>1. /\ ~in_external_intr /\ sleep_left' = [sleep_left EXCEPT ![current] = n]
        /\ sleep_list' = list_push_back(sleep_list, current)
    BY <1>2, Zenon DEF timer_sleep, Calling
  <2>2. Elems(sleep_list') = Elems(sleep_list) \cup {current}
    BY <1>0, <2>1, PushThread, Zenon
  <2>3. \A t \in Thread : sleep_left'[t] = IF t = current THEN n ELSE sleep_left[t]
    BY <1>0, <2>1, Zenon
  <2>4. n > 0
    BY <1>2 DEF timer_sleep
  <2> QED
    BY <2>1, <2>2, <2>3, <2>4, Zenon DEF SleepOK, SleepersOnTime
<1>3. CASE timer_interrupt
  <2>1. in_external_intr' /\ sleep_list' = sleep_list
    BY <1>3, Zenon DEF timer_interrupt
  <2>2. \A t \in Thread : sleep_left'[t] > 0 => sleep_left[t] > 0
    BY <1>3 DEF timer_interrupt
  <2> QED
    BY <2>1, <2>2, Zenon DEF SleepOK, SleepersOnTime
<1>4. CASE thread_tick_wake
  <2>1. PICK i \in DOMAIN sleep_list :
            /\ Due(sleep_list[i]) /\ sleep_list' = list_remove(sleep_list, i)
            /\ UNCHANGED <<in_external_intr, sleep_left>>
    BY <1>4, Zenon DEF thread_tick_wake
  <2>2. Elems(sleep_list') = Elems(sleep_list) \ {sleep_list[i]}
    BY <1>0, <2>1, RemoveElems, Zenon
  <2>3. ~(sleep_left[sleep_list[i]] > 0)
    BY <1>0, <2>1 DEF Due
  <2>4. in_external_intr /\ in_external_intr' /\ UNCHANGED sleep_left
    BY <1>4, <2>1 DEF thread_tick_wake
  <2> QED
    BY <2>2, <2>3, <2>4, Zenon DEF SleepOK, SleepersOnTime
<1>5. CASE thread_tick_return
  <2>1. UNCHANGED sleepVars /\ \A i \in DOMAIN sleep_list : ~Due(sleep_list[i])
    BY <1>5, Zenon DEF thread_tick_return
  <2>2. \A t \in Elems(sleep_list) : ~Due(t)
    BY <2>1, Zenon DEF Elems
  <2>3. \A t \in Thread : ~Due(t) => sleep_left[t] > 0
    BY <1>0 DEF Due
  <2> QED
    BY <1>0, <2>1, <2>2, <2>3, Zenon DEF SleepOK, SleepersOnTime, sleepVars
<1>6. CASE UNCHANGED vars
  BY <1>1, <1>6, Zenon DEF vars, threadVars
<1>7. CASE SemaphoreStep
  BY <1>1, <1>7, Zenon
  DEF SemaphoreStep, SemaDown, SemaTryDown, SemaUp, IrqSemaUp, sema_down_wait, sema_down_return, threadVars
<1>8. CASE LockStep
  BY <1>1, <1>8, Zenon
  DEF LockStep, LockAcquire, LockRelease, LockTryAcquire, lock_acquire, lock_release, lock_release_fault,
      donate_priority, donate_priority_fault, lock_release_return, lock_try_acquire_return
<1>9. CASE ConditionStep
  BY <1>1, <1>9, Zenon
  DEF ConditionStep, CondWait, CondSignal, CondBroadcast, CondReacquire, cond_broadcast_signal,
      cond_broadcast_return, cond_signal, lock_acquire, lock_release
<1>10. CASE ThreadExit \/ ThreadSetPriorityReturn
  BY <1>1, <1>10, Zenon DEF ThreadExit, thread_exit, ThreadSetPriorityReturn, thread_set_priority_return
<1>11. CASE ThreadStep
  BY <1>1, <1>2, <1>3, <1>4, <1>5, <1>11, Zenon
  DEF ThreadStep, Tick, Yield, thread_create, thread_create_return, thread_set_priority, idle
<1> QED
  BY <1>6, <1>7, <1>8, <1>9, <1>10, <1>11, Zenon DEF Next

(* timer_sleep() suspends a thread "until time has advanced by at least    *)
(* TICKS timer ticks": nobody is woken earlier, and nobody sleeps on once  *)
(* the handler that counted the last tick has returned.                    *)
THEOREM SleepersInvariant == Spec => []SleepersOnTime
<1>1. Init => SleepOK
  <2>1. Elems(<<>>) = {}
    BY DEF Elems
  <2>2. Init => \A t \in Thread : ~(sleep_left[t] > 0)
    BY DEF Init, ThreadInit
  <2> QED
    BY <2>1, <2>2, Zenon DEF Init, ThreadInit, SleepOK, SleepersOnTime
<1>2. TypeOK /\ ListsMatchStatus /\ SleepOK /\ [Next]_vars => SleepOK'
  BY StepKeepsSleep, Zenon
<1>3. SleepOK => SleepersOnTime
  BY Zenon DEF SleepOK
<1> QED
  BY <1>1, <1>2, <1>3, SemaphoresInvariant, PTL DEF Spec
=============================================================================
