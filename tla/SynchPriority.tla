--------------------------- MODULE SynchPriority ---------------------------
(***************************************************************************)
(* Proofs about lock_priority records and priorities: how many records are *)
(* in use, that no kernel ASSERT fails and no null pointer is followed,    *)
(* that donations dominate and are returned, and that the scheduler runs   *)
(* the thread of highest priority.                                         *)
(***************************************************************************)
EXTENDS SynchLocks, FiniteSetTheorems, FunctionTheorems

(* The locks that are held, and the threads in lock_acquire() or           *)
(* sema_down().                                                            *)
Held == {l \in Lock : holder[l] # Null}
Down == {t \in Thread : pc[t] \in {"donate", "down"}}

(* What a record, as the pair of its thread and its position, stands for:  *)
(* a lock held by the thread, or the thread waiting.                       *)
WaitingRecords == {r \in RecordsInUse : lock_priority_list[r[1]][r[2]].waiting}
HeldRecords == {r \in RecordsInUse : ~lock_priority_list[r[1]][r[2]].waiting}

(* The records in use, by definition.                                      *)
LEMMA RecordPairs ==
    ASSUME TypeOK, NEW r \in RecordsInUse
    PROVE  /\ r = <<r[1], r[2]>> /\ r[1] \in Thread /\ r[2] \in DOMAIN lock_priority_list[r[1]]
           /\ lock_priority_list[r[1]][r[2]] \in LockPriority
           /\ lock_priority_list[r[1]][r[2]].lock \in Lock
<1>1. PICK t \in Thread : r \in {t} \X DOMAIN lock_priority_list[t]
  BY Zenon DEF RecordsInUse
<1>2. /\ r = <<r[1], r[2]>> /\ r[1] = t /\ r[2] \in DOMAIN lock_priority_list[t]
  BY <1>1
<1>3. lock_priority_list[t] \in Seq(LockPriority)
  BY DEF TypeOK
<1>4. lock_priority_list[t][r[2]] \in LockPriority
  BY <1>2, <1>3
<1> QED
  BY <1>2, <1>4 DEF LockPriority

(* The clauses of RecordsOK about the record of thread t at position i.    *)
LEMMA RecordMeans ==
    ASSUME RecordsOK, NEW t \in Thread, NEW i \in DOMAIN lock_priority_list[t]
    PROVE  /\ lock_priority_list[t][i].waiting
                 <=> i = 1 /\ Wanted[t] = lock_priority_list[t][i].lock
           /\ lock_priority_list[t][i].lock \in Lock /\ ~lock_priority_list[t][i].waiting
                 => holder[lock_priority_list[t][i].lock] = t
           /\ \A j \in DOMAIN lock_priority_list[t] :
                 lock_priority_list[t][i].lock = lock_priority_list[t][j].lock => i = j
<1>1. lock_priority_list[t][i].waiting <=> i = 1 /\ Wanted[t] = lock_priority_list[t][i].lock
  <2>1. \A u \in Thread : \A k \in DOMAIN lock_priority_list[u] :
           lock_priority_list[u][k].waiting <=> k = 1 /\ Wanted[u] = lock_priority_list[u][k].lock
    BY Zenon DEF RecordsOK
  <2> QED
    BY <2>1, Zenon
<1>2. ASSUME NEW l \in Lock, lock_priority_list[t][i].lock = l, ~lock_priority_list[t][i].waiting
      PROVE  holder[l] = t
  BY <1>2, Zenon DEF RecordsOK
<1>3. \A k, j \in DOMAIN lock_priority_list[t] :
          lock_priority_list[t][k].lock = lock_priority_list[t][j].lock => k = j
  BY Zenon DEF RecordsOK
<1> QED
  BY <1>1, <1>2, <1>3, Zenon

(* A thread has one waiting record at most, and only in lock_acquire().    *)
LEMMA WaitingRecordsCount ==
    ASSUME TypeOK, RecordsOK
    PROVE  IsFiniteSet(WaitingRecords) /\ Cardinality(WaitingRecords) <= Cardinality(Down)
<1> DEFINE f == [r \in WaitingRecords |-> r[1]]
<1>1. IsFiniteSet(Down)
  <2>1. Down \in SUBSET Thread
    BY Zenon DEF Down
  <2> QED
    BY <2>1, FiniteAssumption, FS_Subset, Zenon
<1>2. ASSUME NEW r \in WaitingRecords PROVE r = <<r[1], 1>> /\ r[1] \in Down
  <2>1. /\ r = <<r[1], r[2]>> /\ r[1] \in Thread /\ r[2] \in DOMAIN lock_priority_list[r[1]]
        /\ lock_priority_list[r[1]][r[2]].lock \in Lock
        /\ lock_priority_list[r[1]][r[2]].waiting
    BY <1>2, RecordPairs, Zenon DEF WaitingRecords
  <2>2. r[2] = 1 /\ Wanted[r[1]] = lock_priority_list[r[1]][r[2]].lock
    BY <2>1, RecordMeans
  <2>3. Wanted[r[1]] # Null
    BY <2>1, <2>2, SynchAssumption, Zenon DEF Sema
  <2>4. r[1] \in Down
    BY <2>1, <2>3, Zenon DEF Wanted, Down
  <2> QED
    BY <2>1, <2>2, <2>4, Zenon
<1>3. f \in [WaitingRecords -> Down] /\ \A r, q \in WaitingRecords : f[r] = f[q] => r = q
  BY <1>2, Zenon
<1> HIDE DEF f
<1>4. f \in Injection(WaitingRecords, Down)
  BY <1>3, Fun_IsInj, Zenon
<1> QED
  BY <1>1, <1>4, FS_Injection, Zenon

(* The other records are for different locks, each held.                   *)
LEMMA HeldRecordsCount ==
    ASSUME TypeOK, RecordsOK
    PROVE  IsFiniteSet(HeldRecords) /\ Cardinality(HeldRecords) <= Cardinality(Held)
<1> DEFINE f == [r \in HeldRecords |-> lock_priority_list[r[1]][r[2]].lock]
<1>1. IsFiniteSet(Held)
  <2>1. Held \in SUBSET Lock
    BY Zenon DEF Held
  <2> QED
    BY <2>1, FiniteAssumption, FS_Subset, Zenon
<1>2. ASSUME NEW r \in HeldRecords
      PROVE  /\ r = <<r[1], r[2]>> /\ r[1] \in Thread /\ r[2] \in DOMAIN lock_priority_list[r[1]]
             /\ lock_priority_list[r[1]][r[2]].lock \in Held
             /\ holder[lock_priority_list[r[1]][r[2]].lock] = r[1]
  <2>1. /\ r = <<r[1], r[2]>> /\ r[1] \in Thread /\ r[2] \in DOMAIN lock_priority_list[r[1]]
        /\ lock_priority_list[r[1]][r[2]].lock \in Lock
        /\ ~lock_priority_list[r[1]][r[2]].waiting
    BY <1>2, RecordPairs, Zenon DEF HeldRecords
  <2>2. holder[lock_priority_list[r[1]][r[2]].lock] = r[1]
    BY <2>1, RecordMeans
  <2> QED
    BY <2>1, <2>2, SynchAssumption, Zenon DEF Held
<1>3. ASSUME NEW r \in HeldRecords, NEW q \in HeldRecords, f[r] = f[q] PROVE r = q
  <2>0. lock_priority_list[r[1]][r[2]].lock = lock_priority_list[q[1]][q[2]].lock
    BY <1>3, Zenon
  <2>1. r[1] = q[1]
    BY <1>2, <2>0
  <2>2. r[2] = q[2]
    BY <1>2, <2>0, <2>1, RecordMeans
  <2> QED
    BY <1>2, <2>1, <2>2, Zenon
<1>4. f \in [HeldRecords -> Held]
  BY <1>2, Zenon
<1> HIDE DEF f
<1>5. f \in Injection(HeldRecords, Held)
  BY <1>3, <1>4, Fun_IsInj, Zenon
<1> QED
  BY <1>1, <1>5, FS_Injection, Zenon

(* So there are as many records as held locks and waiting threads at most. *)
LEMMA RecordsCount ==
    ASSUME TypeOK, RecordsOK
    PROVE  Cardinality(RecordsInUse) \in Nat /\ RecordsBounded
<1>1. RecordsInUse = WaitingRecords \cup HeldRecords /\ WaitingRecords \cap HeldRecords = {}
  BY Zenon DEF WaitingRecords, HeldRecords
<1>2. /\ IsFiniteSet(WaitingRecords) /\ Cardinality(WaitingRecords) <= Cardinality(Down)
      /\ IsFiniteSet(HeldRecords) /\ Cardinality(HeldRecords) <= Cardinality(Held)
  BY WaitingRecordsCount, HeldRecordsCount, Zenon
<1>3. /\ Cardinality(WaitingRecords) \in Nat /\ Cardinality(HeldRecords) \in Nat
  BY <1>2, FS_CardinalityType, Zenon
<1>4. IsFiniteSet(Held) /\ IsFiniteSet(Down)
  <2>1. Held \in SUBSET Lock /\ Down \in SUBSET Thread
    BY Zenon DEF Held, Down
  <2> QED
    BY <2>1, FiniteAssumption, FS_Subset, Zenon
<1>5. Cardinality(Held) \in Nat /\ Cardinality(Down) \in Nat
  BY <1>4, FS_CardinalityType, Zenon
<1>6. Cardinality({}) = 0
  BY FS_EmptySet, Zenon
<1>7. Cardinality(RecordsInUse) = Cardinality(WaitingRecords) + Cardinality(HeldRecords) - 0
  <2>1. Cardinality(WaitingRecords \cup HeldRecords)
           = Cardinality(WaitingRecords) + Cardinality(HeldRecords)
                - Cardinality(WaitingRecords \cap HeldRecords)
    BY <1>2, FS_Union, Zenon
  <2> QED
    BY <1>1, <1>6, <2>1, Zenon
<1>8. Cardinality(RecordsInUse) <= Cardinality(Held) + Cardinality(Down)
  BY <1>2, <1>3, <1>5, <1>7
<1>9. RecordsBounded
  BY <1>8, Zenon DEF RecordsBounded, Held, Down
<1> QED
  BY <1>3, <1>7, <1>9

(* lock_priority_page needs room for one record per held lock and one per  *)
(* waiting thread, and no more.                                            *)
THEOREM RecordsBoundedInvariant ==
    ASSUME "lock_try_acquire" \notin Calls
    PROVE  Spec => []RecordsBounded
<1>1. TypeOK /\ RecordsOK => RecordsBounded
  BY RecordsCount, Zenon
<1> QED
  BY <1>1, RecordsInvariant, PTL
-----------------------------------------------------------------------------
(* A holder has a record for its lock, which find_lock_priority() finds.   *)
LEMMA HolderHasRecord ==
    ASSUME TypeOK, RecordsOK, NEW l \in Lock, NEW t \in Thread, holder[l] = t
    PROVE  \E i \in DOMAIN lock_priority_list[t] : find_lock_priority(lock_priority_list[t], l, i)
<1>1. \E i \in DOMAIN lock_priority_list[t] : lock_priority_list[t][i].lock = l
  <2>1. holder[l] = t <=> \E i \in DOMAIN lock_priority_list[t] :
                             /\ lock_priority_list[t][i].lock = l
                             /\ ~lock_priority_list[t][i].waiting
    BY DEF RecordsOK
  <2> QED
    BY <2>1, Zenon
<1>2. PICK i \in DOMAIN lock_priority_list[t] : lock_priority_list[t][i].lock = l
  BY <1>1, Zenon
<1>3. \A j \in DOMAIN lock_priority_list[t] : lock_priority_list[t][j].lock = l => i = j
  BY <1>2, RecordMeans
<1>4. \A j \in DOMAIN lock_priority_list[t] : j < i => j # i
  <2>1. DOMAIN lock_priority_list[t] \subseteq Int
    BY DEF TypeOK
  <2> QED
    BY <2>1
<1> QED
  BY <1>2, <1>3, <1>4, Zenon DEF find_lock_priority

(* When the running thread calls lock_acquire() there is a record left, if *)
(* the page has room for one per lock and one per thread other than the    *)
(* idle one.                                                               *)
LEMMA RecordLeft ==
    ASSUME TypeOK, PlacesOK, RecordsOK, pc[current] \in {"run", "reacquire"},
           LOCK_PRIORITY_LIMIT >= Cardinality(Lock) + Cardinality(Thread) - 1
    PROVE  ~get_new_lock_priority_fails
<1>1. /\ current \in Thread /\ Idle \in Thread /\ current # Idle
      /\ current \notin Down /\ Idle \notin Down
  BY ThreadAssumption, Zenon DEF TypeOK, ThreadTypeOK, PlacesOK, Down
<1> DEFINE T1 == Thread \ {Idle}
           T2 == T1 \ {current}
<1>2. /\ IsFiniteSet(T1) /\ Cardinality(T1) = Cardinality(Thread) - 1
  <2>1. Cardinality(T1) = IF Idle \in Thread THEN Cardinality(Thread) - 1 ELSE Cardinality(Thread)
    BY FiniteAssumption, FS_RemoveElement, Zenon
  <2> QED
    BY <1>1, <2>1, FiniteAssumption, FS_RemoveElement, Zenon
<1>3. current \in T1
  BY <1>1
<1>4. T2 = T1 \ {current}
  OBVIOUS
<1>5. Down \in SUBSET T2 /\ Held \in SUBSET Lock
  BY <1>1, Zenon DEF Down, Held
<1> HIDE DEF T1, T2
<1>6. IsFiniteSet(T2) /\ Cardinality(T2) = Cardinality(T1) - 1
  <2>1. Cardinality(T2) = IF current \in T1 THEN Cardinality(T1) - 1 ELSE Cardinality(T1)
    BY <1>2, <1>4, FS_RemoveElement, Zenon
  <2> QED
    BY <1>2, <1>3, <1>4, <2>1, FS_RemoveElement, Zenon
<1>7. /\ Cardinality(Down) <= Cardinality(T2) /\ Cardinality(Held) <= Cardinality(Lock)
      /\ IsFiniteSet(Down) /\ IsFiniteSet(Held)
  BY <1>5, <1>6, FiniteAssumption, FS_Subset, Zenon
<1>8. /\ Cardinality(Down) \in Nat /\ Cardinality(Held) \in Nat /\ Cardinality(Thread) \in Nat
      /\ Cardinality(Lock) \in Nat
  BY <1>7, FiniteAssumption, FS_CardinalityType, Zenon
<1>9. /\ Cardinality(RecordsInUse) \in Nat
      /\ Cardinality(RecordsInUse) <= Cardinality(Held) + Cardinality(Down)
  BY RecordsCount, Zenon DEF RecordsBounded, Held, Down
<1>10. LOCK_PRIORITY_LIMIT \in Nat
  BY SynchAssumption, Zenon
<1> QED
  BY <1>2, <1>6, <1>7, <1>8, <1>9, <1>10 DEF get_new_lock_priority_fails

(* sema_up() wakes threads that are blocked.                               *)
LEMMA SemaUpCalm ==
    ASSUME TypeOK, ListsMatchStatus, ~panic, NEW val, NEW s \in Sema, sema_up(val, s),
           UNCHANGED sleepVars
    PROVE  ~panic'
  BY SemaUpLists, Zenon DEF sleepVars

(* No ASSERT fails and no null pointer is followed in a step of the        *)
(* operations of thread.c ...                                              *)
LEMMA ThreadStepCalm ==
    ASSUME TypeOK, ListsMatchStatus, ~panic,
           (ThreadStep /\ UNCHANGED synchVars) \/ ThreadSetPriorityReturn \/ ThreadExit
    PROVE  ~panic'
<1>1. CASE thread_tick_wake
  <2>1. PICK i \in DOMAIN sleep_list : ASSERT(status[sleep_list[i]] = "BLOCKED")
    BY <1>1, Zenon DEF thread_tick_wake
  <2>2. sleep_list[i] \in Elems(sleep_list) /\ sleep_list[i] \in Thread
    BY DEF TypeOK, ThreadTypeOK, Elems
  <2>3. status[sleep_list[i]] = "BLOCKED"
    BY <2>2, PartsOfLists, Zenon DEF WaitListsOK
  <2> QED
    BY <2>1, <2>3, Zenon DEF ASSERT
<1> QED
  BY <1>1, Zenon
  DEF ThreadStep, Tick, Yield, thread_create, thread_create_return, thread_set_priority, timer_sleep,
      idle, timer_interrupt, thread_tick_return, ThreadSetPriorityReturn, thread_set_priority_return,
      ThreadExit, thread_exit

(* ... of semaphores and condition variables ...                           *)
LEMMA SemaphoreStepCalm ==
    ASSUME TypeOK, PlacesOK, ListsMatchStatus, ~panic, SemaphoreStep, "irq_sema_up" \notin Calls
    PROVE  ~panic'
<1>1. Semaphore \subseteq Sema
  BY Zenon DEF Sema
<1>2. ASSUME NEW s \in Semaphore, SemaUp(s) PROVE ~panic'
  BY <1>1, <1>2, SemaUpCalm, Zenon DEF SemaUp
<1> QED
  BY <1>2, Zenon
  DEF SemaphoreStep, SemaDown, SemaTryDown, IrqSemaUp, sema_down_wait, sema_down_return, threadVars

(* ... and of locks, when there is room for the records they need.         *)
LEMMA LockStepCalm ==
    ASSUME TypeOK, PlacesOK, ListsMatchStatus, RecordsOK, ~panic, LockStep \/ ConditionStep,
           LOCK_PRIORITY_LIMIT >= Cardinality(Lock) + Cardinality(Thread) - 1
    PROVE  ~panic'
<1>0. /\ current \in Thread /\ CondLock \in [Condition -> Lock] /\ Lock \subseteq Sema
      /\ Thread \subseteq Sema
      /\ pc[current] \in {"reacquire", "broadcast"} => cond_arg[current] \in Condition
  BY SynchAssumption, Zenon DEF TypeOK, ThreadTypeOK, PlacesOK, Sema
<1>1. ASSUME NEW l \in Lock, lock_acquire(l), pc[current] \in {"run", "reacquire"} PROVE ~panic'
  BY <1>1, RecordLeft, Zenon DEF lock_acquire, ASSERT
<1>2. ASSUME NEW l \in Lock, NEW val, lock_release(val, l) PROVE ~panic'
  BY <1>0, <1>2, SemaUpCalm, Zenon DEF lock_release
<1>3. ASSUME NEW l \in Lock, lock_release_fault(l) PROVE FALSE
  BY <1>0, <1>3, HolderHasRecord, Zenon DEF lock_release_fault
<1>4. ~donate_priority_fault
  <2>1. pc[current] = "donate" => donee \in Lock /\ holder[donee] \in Thread
    BY <1>0, Zenon DEF PlacesOK
  <2> QED
    BY <2>1, HolderHasRecord, Zenon DEF donate_priority_fault, At
<1>5. ASSUME NEW c \in Condition, cond_signal(c) PROVE ~panic'
  <2>1. \A i \in DOMAIN cond_waiters[c] : cond_waiters[c][i] \in Thread
    BY DEF TypeOK
  <2> QED
    BY <1>0, <1>5, <2>1, SemaUpCalm, Zenon DEF cond_signal
<1>6. CASE LockStep
  BY <1>1, <1>2, <1>3, <1>4, <1>6, Zenon
  DEF LockStep, LockAcquire, Calling, LockRelease, LockTryAcquire, donate_priority,
      lock_release_return, lock_try_acquire_return
<1>7. CASE ConditionStep
  <2>1. ASSUME NEW c \in Condition, CondWait(c) PROVE ~panic'
    BY <1>0, <1>2, <2>1, Zenon DEF CondWait
  <2>2. CASE CondReacquire
    BY <1>0, <1>1, <2>2, Zenon DEF CondReacquire, At
  <2>3. CASE cond_broadcast_signal
    BY <1>0, <1>5, <2>3, Zenon DEF cond_broadcast_signal, At
  <2> QED
    BY <1>5, <1>7, <2>1, <2>2, <2>3, Zenon
    DEF ConditionStep, CondSignal, CondBroadcast, cond_broadcast_return
<1> QED
  BY <1>6, <1>7, Zenon

(* As long as nobody calls lock_try_acquire() and no interrupt handler     *)
(* calls sema_up(), no kernel ASSERT fails, no null pointer is followed    *)
(* and lock_priority_page is not exhausted, if it has room for one record  *)
(* per lock and one per thread.                                            *)
THEOREM NoPanicInvariant ==
    ASSUME "lock_try_acquire" \notin Calls, "irq_sema_up" \notin Calls,
           LOCK_PRIORITY_LIMIT >= Cardinality(Lock) + Cardinality(Thread) - 1
    PROVE  Spec => []NoPanic
<1> DEFINE Inv == TypeOK /\ PlacesOK /\ ListsMatchStatus /\ RecordsOK /\ UntriedOK
<1>1. Init => NoPanic
  BY Zenon DEF Init, ThreadInit, NoPanic
<1>2. Inv /\ NoPanic /\ [Next]_vars => NoPanic'
  <2> SUFFICES ASSUME Inv, ~panic, [Next]_vars PROVE ~panic'
    BY Zenon DEF NoPanic
  <2>1. CASE UNCHANGED vars
    BY <2>1, Zenon DEF vars, threadVars
  <2> QED
    BY <2>1, ThreadStepCalm, SemaphoreStepCalm, LockStepCalm, Zenon DEF Next
<1> QED
  BY <1>1, <1>2, RecordsInvariant, PTL DEF Spec
-----------------------------------------------------------------------------
(* The places where a thread's priority is yet to be brought in line with  *)
(* its records and its original priority.                                  *)
Unsettled == {"released", "set_priority"}

(* DonationReturned, in all the other places: it is inductive, since a     *)
(* thread that is donated to has a record, and the last lock_release() and *)
(* thread_set_priority() settle the priority before they return.           *)
ReturnedOK ==
    \A t \in Thread : lock_priority_list[t] = <<>> /\ pc[t] \notin Unsettled
                         => priority[t] = original_priority[t]

(* It is kept while no thread's priorities or records change and no thread *)
(* leaves those places.                                                    *)
LEMMA ReturnedSame ==
    ASSUME TypeOK, ReturnedOK, UNCHANGED <<priority, original_priority>>,
           \A t \in Thread : lock_priority_list'[t] = <<>> => lock_priority_list[t] = <<>>,
           \A t \in Thread : pc[t] \in Unsettled => pc'[t] \in Unsettled
    PROVE  ReturnedOK'
  BY Zenon DEF ReturnedOK

(* The same for a step that moves the running thread only.                 *)
LEMMA ReturnedMove ==
    ASSUME TypeOK, ReturnedOK, UNCHANGED <<priority, original_priority, lock_priority_list>>,
           \/ pc' = pc
           \/ \E q \in Places : pc' = [pc EXCEPT ![current] = q] /\ pc[current] \notin Unsettled
           \/ \E q \in Unsettled : pc' = [pc EXCEPT ![current] = q]
           \/ pc' = Interrupted
           \/ pc' = [pc EXCEPT ![Idle] = "hlt"] /\ pc[Idle] \notin Unsettled
    PROVE  ReturnedOK'
<1>1. \A t \in Thread : pc[t] \in Unsettled => pc'[t] \in Unsettled
  BY ThreadAssumption, Zenon DEF TypeOK, ThreadTypeOK, Interrupted, Unsettled
<1> QED
  BY <1>1, ReturnedSame, Zenon

(* And for one that changes the priorities of one thread u.                *)
LEMMA ReturnedBut ==
    ASSUME TypeOK, ReturnedOK, NEW u \in Thread,
           \A t \in Thread \ {u} : /\ priority'[t] = priority[t]
                                   /\ original_priority'[t] = original_priority[t]
                                   /\ lock_priority_list'[t] = <<>> => lock_priority_list[t] = <<>>
                                   /\ pc[t] \in Unsettled => pc'[t] \in Unsettled,
           \/ lock_priority_list'[u] # <<>>
           \/ pc'[u] \in Unsettled
           \/ priority'[u] = original_priority'[u]
    PROVE  ReturnedOK'
  BY Zenon DEF ReturnedOK

(* A list without positions is empty.                                      *)
LEMMA NoPositions ==
    ASSUME NEW S, NEW list \in Seq(S), DOMAIN list = {}
    PROVE  list = <<>>
<1>1. Len(list) \in Nat /\ DOMAIN list = 1 .. Len(list)
  OBVIOUS
<1>2. Len(list) = 0
  BY <1>1
<1> QED
  BY <1>2

(* The operations of thread.c.                                             *)
LEMMA ThreadStepReturned ==
    ASSUME TypeOK, PlacesOK, ReturnedOK,
           (ThreadStep /\ UNCHANGED synchVars) \/ ThreadSetPriorityReturn \/ ThreadExit
    PROVE  ReturnedOK'
<1>0. /\ current \in Thread /\ lock_priority_list' = lock_priority_list
      /\ priority \in [Thread -> Priority] /\ original_priority \in [Thread -> Priority]
      /\ pc \in [Thread -> Places] /\ pc[Idle] \notin Unsettled
      /\ {"run", "set_priority", "hlt", "loop"} \subseteq Places
  BY ThreadAssumption, Zenon
  DEF TypeOK, ThreadTypeOK, PlacesOK, Unsettled, Places, InterruptsOn, synchVars,
      ThreadSetPriorityReturn, ThreadExit
<1>1. CASE Yield \/ thread_tick_wake \/ thread_tick_return \/ timer_interrupt
  BY <1>0, <1>1, ReturnedMove, Zenon
  DEF Yield, thread_tick_wake, thread_tick_return, timer_interrupt, prioVars
<1>2. CASE idle \/ \E n \in 1 .. MaxSleep : timer_sleep(n)
  BY <1>0, <1>2, ReturnedMove, Zenon DEF idle, timer_sleep, prioVars
<1>3. CASE thread_create_return
  <2>1. /\ pc[current] \notin Unsettled /\ pc' = [pc EXCEPT ![current] = "run"]
        /\ UNCHANGED <<priority, original_priority>>
    BY <1>3, Zenon DEF thread_create_return, At, Unsettled, prioVars
  <2> QED
    BY <1>0, <2>1, ReturnedMove, Zenon
<1>4. ASSUME NEW t \in Thread, NEW p \in Priority, thread_create(t, p) PROVE ReturnedOK'
  <2>1. /\ \A u \in Thread : priority'[u] = IF u = t THEN p ELSE priority[u]
        /\ \A u \in Thread : original_priority'[u] = IF u = t THEN p ELSE original_priority[u]
    BY <1>0, <1>4, Zenon DEF thread_create
  <2>2. \A u \in Thread \ {t} : pc[u] \in Unsettled => pc'[u] \in Unsettled
    <3>1. /\ pc[current] = "run" /\ pc' = [[pc EXCEPT ![current] = "created"] EXCEPT ![t] = "run"]
      BY <1>4, Zenon DEF thread_create, Calling
    <3> QED
      BY <1>0, <3>1, Zenon DEF Unsettled
  <2> QED
    BY <1>0, <2>1, <2>2, ReturnedBut, Zenon
<1>5. ASSUME NEW p \in Priority, thread_set_priority(p) PROVE ReturnedOK'
  <2>1. pc' = [pc EXCEPT ![current] = "set_priority"] /\ UNCHANGED priority
        /\ original_priority' = [original_priority EXCEPT ![current] = p]
    BY <1>5, Zenon DEF thread_set_priority
  <2> QED
    BY <1>0, <2>1, ReturnedBut, Zenon DEF Unsettled
<1>6. CASE ThreadSetPriorityReturn
  <2>1. /\ \A t \in Thread \ {current} : priority'[t] = priority[t]
        /\ priority'[current] = original_priority[current] \/ lock_priority_list[current] # <<>>
        /\ UNCHANGED original_priority /\ pc' = [pc EXCEPT ![current] = "run"]
    BY <1>0, <1>6, Zenon DEF ThreadSetPriorityReturn, thread_set_priority_return
  <2> QED
    BY <1>0, <2>1, ReturnedBut, Zenon
<1>7. CASE ThreadExit
  <2>1. /\ original_priority' = [original_priority EXCEPT ![current] = PRI_MIN]
        /\ priority' = [priority EXCEPT ![current] = PRI_MIN] /\ UNCHANGED pc
    BY <1>7, Zenon DEF ThreadExit, thread_exit
  <2> QED
    BY <1>0, <2>1, ReturnedBut, Zenon
<1> QED
  BY <1>1, <1>2, <1>3, <1>4, <1>5, <1>6, <1>7, Zenon DEF ThreadStep, Tick

(* The operations of semaphores.                                           *)
LEMMA SemaphoreStepReturned ==
    ASSUME TypeOK, PlacesOK, ReturnedOK, SemaphoreStep
    PROVE  ReturnedOK'
<1>0. /\ current \in Thread /\ {"run", "down", "reacquire"} \subseteq Places /\ pc \in [Thread -> Places]
      /\ lock_priority_list \in [Thread -> Seq(LockPriority)]
  BY Zenon DEF TypeOK, ThreadTypeOK, Places, InterruptsOn
<1>1. ASSUME NEW s \in Semaphore, SemaDown(s) PROVE ReturnedOK'
  <2>1. /\ pc[current] \notin Unsettled /\ pc' = [pc EXCEPT ![current] = "down"]
        /\ UNCHANGED <<priority, original_priority, lock_priority_list>>
    BY <1>1, Zenon DEF SemaDown, EnterSemaDown, Calling, Unsettled, prioVars
  <2> QED
    BY <1>0, <2>1, ReturnedMove, Zenon
<1>2. ASSUME NEW s \in Semaphore, SemaTryDown(s) \/ SemaUp(s) PROVE ReturnedOK'
  BY <1>2, ReturnedMove, Zenon DEF SemaTryDown, SemaUp, threadVars, prioVars
<1>3. ASSUME NEW s \in IrqSemaphore, IrqSemaUp(s) PROVE ReturnedOK'
  BY <1>3, ReturnedMove, Zenon DEF IrqSemaUp, prioVars
<1>4. CASE sema_down_wait
  BY <1>4, ReturnedMove, Zenon DEF sema_down_wait, prioVars
<1>5. CASE sema_down_return
  <2>1. /\ pc[current] \notin Unsettled /\ UNCHANGED <<priority, original_priority>>
        /\ \E q \in Places : pc' = [pc EXCEPT ![current] = q]
        /\ \/ UNCHANGED lock_priority_list
           \/ lock_priority_list' = [lock_priority_list EXCEPT ![current][1].waiting = FALSE]
    BY <1>0, <1>5, Zenon DEF sema_down_return, At, Unsettled, prioVars
  <2>2. \A t \in Thread : DOMAIN lock_priority_list'[t] = DOMAIN lock_priority_list[t]
    BY <1>0, <2>1, Zenon
  <2>3. ASSUME NEW t \in Thread, lock_priority_list'[t] = <<>> PROVE lock_priority_list[t] = <<>>
    <3>1. DOMAIN lock_priority_list[t] = {} /\ lock_priority_list[t] \in Seq(LockPriority)
      BY <1>0, <2>2, <2>3
    <3> QED
      BY <3>1, NoPositions, Zenon
  <2>4. \A t \in Thread : pc[t] \in Unsettled => pc'[t] \in Unsettled
    BY <1>0, <2>1, Zenon
  <2> QED
    BY <2>1, <2>3, <2>4, ReturnedSame, Zenon
<1> QED
  BY <1>1, <1>2, <1>3, <1>4, <1>5, Zenon DEF SemaphoreStep

(* The operations of locks and condition variables.                        *)
LEMMA LockStepReturned ==
    ASSUME TypeOK, PlacesOK, ReturnedOK, LockStep \/ ConditionStep
    PROVE  ReturnedOK'
<1>0. /\ current \in Thread /\ {"run", "down", "tried", "broadcast"} \subseteq Places
      /\ pc \in [Thread -> Places]
      /\ lock_priority_list \in [Thread -> Seq(LockPriority)] /\ priority \in [Thread -> Priority]
  BY Zenon DEF TypeOK, ThreadTypeOK, Places, InterruptsOn
<1>1. ASSUME NEW l, lock_acquire(l) PROVE ReturnedOK'
  <2>1. /\ lock_priority_list' = [lock_priority_list EXCEPT ![current] = list_push_front(@,
                [lock |-> l, waiting |-> TRUE, priority |-> priority[current]])]
        /\ UNCHANGED <<priority, original_priority>>
        /\ \A t \in Thread \ {current} : pc'[t] = pc[t]
    BY <1>0, <1>1, Zenon DEF lock_acquire, prioVars
  <2>2. /\ \A t \in Thread \ {current} : lock_priority_list'[t] = lock_priority_list[t]
        /\ lock_priority_list'[current] # <<>>
    BY <1>0, <2>1 DEF list_push_front
  <2> QED
    BY <1>0, <2>1, <2>2, ReturnedBut, Zenon
<1>2. ASSUME NEW l, NEW val, lock_release(val, l) PROVE ReturnedOK'
  <2>1. /\ pc' = [pc EXCEPT ![current] = "released"] /\ UNCHANGED <<priority, original_priority>>
        /\ \A t \in Thread \ {current} : lock_priority_list'[t] = lock_priority_list[t]
    BY <1>0, <1>2, Zenon DEF lock_release, prioVars
  <2> QED
    BY <1>0, <2>1, ReturnedBut, Zenon DEF Unsettled
<1>3. CASE donate_priority
  <2> DEFINE h == holder[donee]
             new == DonatedRecords(lock_priority_list[h], donee, priority[current])
  <2>1. /\ pc[current] = "donate" /\ h \in Thread
        /\ \E i \in DOMAIN lock_priority_list[h] : TRUE
        /\ priority' = priority \/ priority' = [priority EXCEPT ![h] = priority[current]]
        /\ lock_priority_list' = [lock_priority_list EXCEPT ![h] = new]
        /\ UNCHANGED original_priority /\ \E q \in Places : pc' = [pc EXCEPT ![current] = q]
    <3>1. pc[current] = "donate" /\ {"donate", "down"} \subseteq Places
      BY <1>3, Zenon DEF donate_priority, At, Places
    <3> QED
      BY <1>0, <1>3, <3>1, Zenon DEF donate_priority, PlacesOK
  <2>2. lock_priority_list'[h] = new /\ DOMAIN new = DOMAIN lock_priority_list[h]
    BY <1>0, <2>1, Zenon DEF DonatedRecords
  <2>3. DOMAIN <<>> = {}
    OBVIOUS
  <2>4. lock_priority_list'[h] # <<>>
    BY <2>1, <2>2, <2>3, Zenon
  <2> HIDE DEF h, new
  <2>5. \A t \in Thread : pc[t] \in Unsettled => pc'[t] \in Unsettled
    BY <1>0, <2>1, Zenon DEF Unsettled
  <2>6. \A t \in Thread \ {h} : priority'[t] = priority[t] /\ lock_priority_list'[t] = lock_priority_list[t]
    BY <1>0, <2>1, Zenon
  <2> QED
    BY <2>1, <2>4, <2>5, <2>6, ReturnedBut, Zenon
<1>4. CASE lock_release_return
  <2>1. PICK p \in Priority :
          /\ PriorityAfterRelease(original_priority[current], lock_priority_list[current], p)
          /\ priority' = [priority EXCEPT ![current] = p]
    BY <1>4, Zenon DEF lock_release_return
  <2>2. /\ \A t \in Thread \ {current} : pc'[t] = pc[t]
        /\ UNCHANGED <<original_priority, lock_priority_list>>
    BY <1>0, <1>4, Zenon DEF lock_release_return, EnterSemaDown
  <2>3. lock_priority_list[current] = <<>> => p = original_priority[current]
    BY <2>1 DEF PriorityAfterRelease
  <2> QED
    BY <1>0, <2>1, <2>2, <2>3, ReturnedBut, Zenon
<1>5. CASE LockStep
  <2>1. ASSUME NEW l \in Lock, LockTryAcquire(l) PROVE ReturnedOK'
    <3>1. /\ pc[current] \notin Unsettled /\ pc' = [pc EXCEPT ![current] = "tried"]
          /\ UNCHANGED <<priority, original_priority, lock_priority_list>>
      BY <2>1, Zenon DEF LockTryAcquire, Calling, Unsettled, prioVars
    <3> QED
      BY <1>0, <3>1, ReturnedMove, Zenon
  <2>2. CASE lock_try_acquire_return
    <3>1. /\ pc[current] \notin Unsettled /\ pc' = [pc EXCEPT ![current] = "run"]
          /\ UNCHANGED <<priority, original_priority, lock_priority_list>>
      BY <2>2, Zenon DEF lock_try_acquire_return, At, Unsettled, prioVars
    <3> QED
      BY <1>0, <3>1, ReturnedMove, Zenon
  <2>3. CASE donate_priority_fault \/ \E l \in Lock : lock_release_fault(l)
    BY <2>3, ReturnedMove, Zenon DEF donate_priority_fault, lock_release_fault, prioVars, synchVars
  <2> QED
    BY <1>1, <1>2, <1>3, <1>4, <1>5, <2>1, <2>2, <2>3, Zenon DEF LockStep, LockAcquire, LockRelease
<1>6. CASE ConditionStep
  <2>1. ASSUME NEW c, cond_signal(c) PROVE ReturnedOK'
    BY <2>1, ReturnedMove, Zenon DEF cond_signal, prioVars
  <2>2. ASSUME NEW c \in Condition, CondBroadcast(c) PROVE ReturnedOK'
    <3>1. /\ pc[current] \notin Unsettled /\ pc' = [pc EXCEPT ![current] = "broadcast"]
          /\ UNCHANGED <<priority, original_priority, lock_priority_list>>
      BY <2>2, Zenon DEF CondBroadcast, Calling, Unsettled, prioVars
    <3> QED
      BY <1>0, <3>1, ReturnedMove, Zenon
  <2>3. CASE cond_broadcast_return
    <3>1. /\ pc[current] \notin Unsettled /\ pc' = [pc EXCEPT ![current] = "run"]
          /\ UNCHANGED <<priority, original_priority, lock_priority_list>>
      BY <2>3, Zenon DEF cond_broadcast_return, At, Unsettled, prioVars
    <3> QED
      BY <1>0, <3>1, ReturnedMove, Zenon
  <2> QED
    BY <1>1, <1>2, <1>6, <2>1, <2>2, <2>3, Zenon
    DEF ConditionStep, CondWait, CondSignal, CondReacquire, cond_broadcast_signal
<1> QED
  BY <1>5, <1>6, Zenon

(* Whatever calls are made, a thread that holds no lock and is in its own  *)
(* code has no donation left.                                              *)
THEOREM DonationReturnedInvariant == Spec => []DonationReturned
<1>1. Init => ReturnedOK
  BY Zenon DEF Init, ThreadInit, ReturnedOK
<1>2. TypeOK /\ PlacesOK /\ ReturnedOK /\ [Next]_vars => ReturnedOK'
  <2> SUFFICES ASSUME TypeOK, PlacesOK, ReturnedOK, [Next]_vars PROVE ReturnedOK'
    BY Zenon
  <2>1. CASE UNCHANGED vars
    BY <2>1, ReturnedMove, Zenon DEF vars, threadVars, synchVars, prioVars
  <2> QED
    BY <2>1, ThreadStepReturned, SemaphoreStepReturned, LockStepReturned, Zenon DEF Next
<1>3. ReturnedOK => DonationReturned
  BY Zenon DEF ReturnedOK, DonationReturned, Unsettled
<1> QED
  BY <1>1, <1>2, <1>3, TypesAndPlacesInvariant, PTL DEF Spec
-----------------------------------------------------------------------------
(* No record of list has a priority higher than p.                         *)
Below(list, p) == \A i \in DOMAIN list : list[i].priority <= p

(* What the changes to a list of records do to that.                       *)
LEMMA BelowFront ==
    ASSUME NEW list \in Seq(LockPriority), NEW rec \in LockPriority, NEW p,
           Below(list, p), rec.priority <= p
    PROVE  Below(list_push_front(list, rec), p)
<1> DEFINE new == list_push_front(list, rec)
<1>1. /\ DOMAIN new = 1 .. Len(list) + 1 /\ DOMAIN list = 1 .. Len(list) /\ Len(list) \in Nat
      /\ new[1] = rec /\ \A i \in 1 .. Len(list) + 1 : i # 1 => new[i] = list[i - 1]
  BY PushFrontShifts
<1>2. \A i \in 1 .. Len(list) + 1 : i # 1 => i - 1 \in DOMAIN list
  BY <1>1
<1> HIDE DEF new
<1>3. \A i \in DOMAIN new : new[i].priority <= p
  BY <1>1, <1>2, Zenon DEF Below
<1> QED
  BY <1>3, Zenon DEF Below, new

(* list_remove() of one of them.                                          *)
LEMMA BelowRemove ==
    ASSUME NEW list \in Seq(LockPriority), NEW i \in DOMAIN list, NEW p, Below(list, p)
    PROVE  Below(list_remove(list, i), p)
<1>1. Elems(list_remove(list, i)) \subseteq Elems(list)
  BY RemoveElems, Zenon
<1>2. \A rec \in Elems(list) : rec.priority <= p
  BY Zenon DEF Elems, Below
<1>3. \A j \in DOMAIN list_remove(list, i) : list_remove(list, i)[j] \in Elems(list)
  BY <1>1, Zenon DEF Elems
<1> QED
  BY <1>2, <1>3, Zenon DEF Below

(* The front one no longer waiting.                                        *)
LEMMA BelowMark ==
    ASSUME NEW list \in Seq(LockPriority), NEW p, Below(list, p)
    PROVE  Below([list EXCEPT ![1].waiting = FALSE], p)
  BY MarkOwned, Zenon DEF Below

(* One of them raised to p.                                                *)
LEMMA BelowDonated ==
    ASSUME NEW list \in Seq(LockPriority), NEW lock, NEW p \in Priority, NEW q \in Priority, NEW r,
           Below(list, q), p <= r, q <= r, r \in Priority
    PROVE  Below(DonatedRecords(list, lock, p), r)
<1>1. ASSUME NEW i \in DOMAIN list PROVE DonatedRecords(list, lock, p)[i].priority <= r
  <2>1. list[i] \in LockPriority
    OBVIOUS
  <2>2. list[i].priority \in Priority /\ list[i].priority <= q
    BY <2>1, Zenon DEF LockPriority, Below
  <2>3. list[i].priority <= r
    BY <2>2, ThreadAssumption DEF Priority
  <2>4. [list[i] EXCEPT !.priority = p].priority = p
    BY <2>1, Zenon DEF LockPriority
  <2>5. \/ DonatedRecords(list, lock, p)[i] = list[i]
        \/ DonatedRecords(list, lock, p)[i] = [list[i] EXCEPT !.priority = p]
    BY Zenon DEF DonatedRecords
  <2> QED
    BY <2>3, <2>4, <2>5, Zenon
<1>2. DOMAIN DonatedRecords(list, lock, p) = DOMAIN list
  BY Zenon DEF DonatedRecords
<1> QED
  BY <1>1, <1>2, Zenon DEF Below

(* The threads whose effective priority dominates their original one and   *)
(* their records.                                                          *)
Dominated == {t \in Thread : /\ original_priority[t] <= priority[t]
                             /\ Below(lock_priority_list[t], priority[t])}

(* PriorityDominates of all pages, with a thread or not, and what makes it *)
(* inductive: nobody is in thread_set_priority(), and a page without a     *)
(* thread has no records.                                                  *)
DominatesOK ==
    /\ Dominated = Thread
    /\ \A t \in Thread : pc[t] # "set_priority"
    /\ \A t \in Thread : status[t] = "NONE" => lock_priority_list[t] = <<>>

(* The lists of the threads other than the running one stay empty if they  *)
(* are.                                                                    *)
EmptyStay ==
    \A t \in Thread \ {current} : lock_priority_list[t] = <<>> => lock_priority_list'[t] = <<>>

(* A step that changes the priorities and the records of u only.           *)
LEMMA DominatedBut ==
    ASSUME Dominated = Thread, NEW u \in Thread,
           \A t \in Thread \ {u} : /\ priority'[t] = priority[t]
                                   /\ original_priority'[t] = original_priority[t]
                                   /\ lock_priority_list'[t] = lock_priority_list[t],
           original_priority'[u] <= priority'[u], Below(lock_priority_list'[u], priority'[u])
    PROVE  Dominated' = Thread
<1>1. \A t \in Thread : /\ original_priority[t] <= priority[t]
                        /\ Below(lock_priority_list[t], priority[t])
  BY Zenon DEF Dominated
<1>2. \A t \in Thread : /\ original_priority'[t] <= priority'[t]
                        /\ Below(lock_priority_list'[t], priority'[t])
  BY <1>1, Zenon DEF Below
<1> QED
  BY <1>2, Zenon DEF Dominated, Below

(* One that changes nobody's.                                              *)
LEMMA DominatedSame ==
    ASSUME Dominated = Thread, UNCHANGED <<prioVars, lock_priority_list>>
    PROVE  Dominated' = Thread /\ EmptyStay
  BY Zenon DEF Dominated, Below, EmptyStay, prioVars

(* A thread with a right to exit has no records.                           *)
LEMMA ExitEmpty ==
    ASSUME TypeOK, RecordsOK, ThreadExit
    PROVE  lock_priority_list[current] = <<>>
<1>1. /\ current \in Thread /\ pc[current] = "run" /\ \A l \in Lock : holder[l] # current
      /\ lock_priority_list[current] \in Seq(LockPriority)
  BY Zenon DEF TypeOK, ThreadTypeOK, ThreadExit, thread_exit, Calling
<1>2. Wanted[current] = Null
  BY <1>1, Zenon DEF Wanted
<1>3. ASSUME NEW i \in DOMAIN lock_priority_list[current] PROVE FALSE
  <2>1. lock_priority_list[current][i] \in LockPriority
    BY <1>1
  <2>2. lock_priority_list[current][i].lock \in Lock
    BY <2>1, Zenon DEF LockPriority
  <2>3. lock_priority_list[current][i].lock # Null
    BY <2>2, SynchAssumption, Zenon DEF Sema
  <2>4. ~lock_priority_list[current][i].waiting
    BY <1>1, <1>2, <2>3, RecordMeans
  <2> QED
    BY <1>1, <2>2, <2>4, RecordMeans
<1>4. DOMAIN lock_priority_list[current] = {}
  BY <1>3, Zenon
<1> QED
  BY <1>1, <1>4, NoPositions, Zenon

(* Nobody enters thread_set_priority() if nobody calls it.                 *)
LEMMA ThreadStepUnset ==
    ASSUME TypeOK, \A t \in Thread : pc[t] # "set_priority",
           (ThreadStep /\ UNCHANGED synchVars) \/ ThreadSetPriorityReturn \/ ThreadExit,
           "thread_set_priority" \notin Calls
    PROVE  \A t \in Thread : pc'[t] # "set_priority"
<1>0. current \in Thread /\ pc \in [Thread -> Places]
  BY Zenon DEF TypeOK, ThreadTypeOK
<1>1. ~ThreadSetPriorityReturn /\ \A p \in Priority : ~thread_set_priority(p)
  BY <1>0, Zenon DEF ThreadSetPriorityReturn, thread_set_priority_return, At, thread_set_priority, Calling
<1>2. ASSUME \/ pc' = pc \/ \E q \in {"run", "hlt"} : \E u \in Thread : pc' = [pc EXCEPT ![u] = q]
             \/ pc' = Interrupted
      PROVE  \A t \in Thread : pc'[t] # "set_priority"
  BY <1>0, <1>2, Zenon DEF Interrupted
<1>3. ASSUME NEW t \in Thread, NEW p \in Priority, thread_create(t, p)
      PROVE  \A u \in Thread : pc'[u] # "set_priority"
  BY <1>0, <1>3, Zenon DEF thread_create
<1>4. Idle \in Thread
  BY ThreadAssumption, Zenon
<1> QED
  BY <1>0, <1>1, <1>2, <1>3, <1>4, Zenon
  DEF ThreadStep, Tick, Yield, thread_create_return, timer_sleep, idle, timer_interrupt,
      thread_tick_wake, thread_tick_return, ThreadExit, thread_exit

(* The operations of thread.c but thread_set_priority().                   *)
LEMMA ThreadStepDominates ==
    ASSUME TypeOK, RecordsOK, DominatesOK,
           (ThreadStep /\ UNCHANGED synchVars) \/ ThreadSetPriorityReturn \/ ThreadExit,
           "thread_set_priority" \notin Calls
    PROVE  /\ Dominated' = Thread /\ EmptyStay
           /\ ThreadExit => lock_priority_list'[current] = <<>>
           /\ \A t \in Thread : pc'[t] # "set_priority"
<1>0. /\ current \in Thread /\ lock_priority_list' = lock_priority_list
      /\ priority \in [Thread -> Priority] /\ original_priority \in [Thread -> Priority]
      /\ pc \in [Thread -> Places] /\ Dominated = Thread /\ EmptyStay
      /\ \A t \in Thread : pc[t] # "set_priority" /\ \A p \in Priority : p <= p
      /\ PRI_MIN <= PRI_MIN
  <2>1. \A p \in Priority : p <= p /\ PRI_MIN <= PRI_MIN
    BY ThreadAssumption DEF Priority
  <2>2. PRI_MIN <= PRI_MIN
    BY ThreadAssumption
  <2> QED
    BY <2>1, <2>2, Zenon
    DEF TypeOK, ThreadTypeOK, DominatesOK, synchVars, ThreadSetPriorityReturn, ThreadExit, EmptyStay
<1>1. ~ThreadSetPriorityReturn /\ \A p \in Priority : ~thread_set_priority(p)
  BY <1>0, Zenon DEF ThreadSetPriorityReturn, thread_set_priority_return, At, thread_set_priority, Calling
<1>2. \A t \in Thread : pc'[t] # "set_priority"
  BY <1>0, ThreadStepUnset, Zenon
<1>3. ASSUME NEW t \in Thread, NEW p \in Priority, thread_create(t, p)
      PROVE  Dominated' = Thread
  <2>1. /\ priority' = [priority EXCEPT ![t] = p] /\ status[t] = "NONE"
        /\ original_priority' = [original_priority EXCEPT ![t] = p]
    BY <1>3, Zenon DEF thread_create
  <2>2. lock_priority_list'[t] = <<>>
    BY <1>0, <2>1, Zenon DEF DominatesOK
  <2>3. Below(lock_priority_list'[t], priority'[t])
    BY <2>2 DEF Below
  <2>4. priority'[t] = p /\ original_priority'[t] = p /\ p <= p
    BY <1>0, <2>1, Zenon
  <2> QED
    BY <1>0, <2>1, <2>3, <2>4, DominatedBut, Zenon
<1>4. CASE ThreadExit
  <2>1. /\ original_priority' = [original_priority EXCEPT ![current] = PRI_MIN]
        /\ priority' = [priority EXCEPT ![current] = PRI_MIN]
    BY <1>4, Zenon DEF ThreadExit, thread_exit
  <2>2. lock_priority_list'[current] = <<>>
    BY <1>0, <1>4, ExitEmpty, Zenon
  <2>3. Below(lock_priority_list'[current], priority'[current])
    BY <2>2 DEF Below
  <2>4. Dominated' = Thread
    BY <1>0, <2>1, <2>3, DominatedBut, Zenon
  <2> QED
    BY <1>0, <1>2, <2>2, <2>4, Zenon
<1>5. CASE ThreadStep
  <2>1. Dominated' = Thread
    BY <1>0, <1>1, <1>3, <1>5, DominatedSame, Zenon
    DEF ThreadStep, Tick, Yield, thread_create_return, timer_sleep, idle, timer_interrupt,
        thread_tick_wake, thread_tick_return
  <2>2. ThreadExit => lock_priority_list'[current] = <<>>
    BY <1>4, <1>0, ExitEmpty, Zenon
  <2> QED
    BY <1>0, <1>2, <2>1, <2>2, Zenon
<1> QED
  BY <1>1, <1>4, <1>5, Zenon

(* No step but those of thread_set_priority() leads into it.               *)
LEMMA OtherStepUnset ==
    ASSUME TypeOK, \A t \in Thread : pc[t] # "set_priority",
           SemaphoreStep \/ LockStep \/ ConditionStep
    PROVE  \A t \in Thread : pc'[t] # "set_priority"
<1>0. current \in Thread /\ pc \in [Thread -> Places]
  BY Zenon DEF TypeOK, ThreadTypeOK
<1>1. ASSUME NEW q, q # "set_priority", pc' = [pc EXCEPT ![current] = q]
      PROVE  \A t \in Thread : pc'[t] # "set_priority"
  BY <1>0, <1>1, Zenon
<1>2. ASSUME pc' = pc \/ pc' = Interrupted PROVE \A t \in Thread : pc'[t] # "set_priority"
  BY <1>0, <1>2, Zenon DEF Interrupted
<1>3. CASE SemaphoreStep
  BY <1>1, <1>2, <1>3, Zenon
  DEF SemaphoreStep, SemaDown, EnterSemaDown, SemaTryDown, SemaUp, IrqSemaUp, sema_down_wait,
      sema_down_return, threadVars
<1>4. CASE LockStep
  BY <1>1, <1>2, <1>4, Zenon
  DEF LockStep, LockAcquire, LockRelease, LockTryAcquire, lock_acquire, lock_release, lock_release_fault,
      donate_priority, donate_priority_fault, lock_release_return, EnterSemaDown, lock_try_acquire_return
<1>5. CASE ConditionStep
  BY <1>1, <1>2, <1>5, Zenon
  DEF ConditionStep, CondWait, CondSignal, CondBroadcast, CondReacquire, cond_broadcast_signal,
      cond_broadcast_return, cond_signal, lock_acquire, lock_release
<1> QED
  BY <1>3, <1>4, <1>5, Zenon

(* The operations of semaphores, locks and condition variables.            *)
LEMMA OtherStepDominates ==
    ASSUME TypeOK, PlacesOK, Dominated = Thread, SemaphoreStep \/ LockStep \/ ConditionStep
    PROVE  Dominated' = Thread /\ EmptyStay
<1>0. /\ current \in Thread /\ lock_priority_list \in [Thread -> Seq(LockPriority)]
      /\ priority \in [Thread -> Priority] /\ original_priority \in [Thread -> Priority]
      /\ CondLock \in [Condition -> Lock]
      /\ pc[current] = "reacquire" => cond_arg[current] \in Condition
      /\ pc[current] = "donate" => donee \in Lock /\ holder[donee] \in Thread
  BY SynchAssumption, Zenon DEF TypeOK, ThreadTypeOK, PlacesOK
<1>1. \A t \in Thread : /\ original_priority[t] <= priority[t]
                        /\ Below(lock_priority_list[t], priority[t])
  BY Zenon DEF Dominated
<1>2. ASSUME NEW new, Below(new, priority[current]), UNCHANGED prioVars,
             lock_priority_list' = [lock_priority_list EXCEPT ![current] = new]
      PROVE  Dominated' = Thread /\ EmptyStay
  <2>1. /\ lock_priority_list'[current] = new /\ UNCHANGED <<priority, original_priority>>
        /\ \A t \in Thread \ {current} : lock_priority_list'[t] = lock_priority_list[t]
    BY <1>0, <1>2, Zenon DEF prioVars
  <2>2. Below(lock_priority_list'[current], priority'[current])
    BY <1>2, <2>1, Zenon
  <2> QED
    BY <1>0, <1>1, <2>1, <2>2, DominatedBut, Zenon DEF EmptyStay
<1>3. ASSUME NEW l \in Lock, lock_acquire(l) PROVE Dominated' = Thread /\ EmptyStay
  <2> DEFINE rec == [lock |-> l, waiting |-> TRUE, priority |-> priority[current]]
  <2>1. rec \in LockPriority /\ rec.priority <= priority[current]
    <3>1. priority[current] \in Int /\ priority[current] \in Priority
      BY <1>0, ThreadAssumption DEF Priority
    <3> QED
      BY <3>1 DEF LockPriority
  <2> HIDE DEF rec
  <2>2. Below(list_push_front(lock_priority_list[current], rec), priority[current])
    BY <1>0, <1>1, <2>1, BelowFront, Zenon
  <2> QED
    BY <1>2, <1>3, <2>2, Zenon DEF lock_acquire, rec
<1>4. ASSUME NEW l, NEW val, lock_release(val, l) PROVE Dominated' = Thread /\ EmptyStay
  <2>1. PICK i \in DOMAIN lock_priority_list[current] :
            lock_priority_list' = [lock_priority_list EXCEPT ![current] = list_remove(@, i)]
    BY <1>4, Zenon DEF lock_release
  <2>2. Below(list_remove(lock_priority_list[current], i), priority[current])
    BY <1>0, <1>1, BelowRemove, Zenon
  <2> QED
    BY <1>2, <1>4, <2>1, <2>2, Zenon DEF lock_release
<1>5. CASE sema_down_return
  <2>1. Below([lock_priority_list[current] EXCEPT ![1].waiting = FALSE], priority[current])
    BY <1>0, <1>1, BelowMark, Zenon
  <2> QED
    BY <1>2, <1>5, <2>1, DominatedSame, Zenon DEF sema_down_return
<1>6. CASE donate_priority
  <2> DEFINE h == holder[donee]
             p == priority[current]
             new == DonatedRecords(lock_priority_list[h], donee, p)
             r == IF p > priority[h] THEN p ELSE priority[h]
  <2>1. /\ pc[current] = "donate" /\ UNCHANGED original_priority
        /\ lock_priority_list' = [lock_priority_list EXCEPT ![h] = new]
        /\ priority' = IF p > priority[h] THEN [priority EXCEPT ![h] = p] ELSE priority
    BY <1>6, Zenon DEF donate_priority, At
  <2>2. h \in Thread
    BY <1>0, <2>1, Zenon
  <2>3. /\ priority[h] \in Priority /\ p \in Priority /\ original_priority[h] \in Priority
        /\ original_priority[h] <= priority[h] /\ Below(lock_priority_list[h], priority[h])
        /\ lock_priority_list[h] \in Seq(LockPriority)
    BY <1>0, <1>1, <2>2, Zenon
  <2>4. p <= r /\ priority[h] <= r /\ r \in Priority /\ original_priority[h] <= r
    BY <2>3, ThreadAssumption DEF Priority
  <2>5. /\ priority'[h] = r /\ lock_priority_list'[h] = new
        /\ \A t \in Thread \ {h} : /\ priority'[t] = priority[t]
                                   /\ lock_priority_list'[t] = lock_priority_list[t]
    BY <1>0, <2>1, <2>2, Zenon
  <2>6. lock_priority_list[h] = <<>> => new = <<>>
    <3>1. DOMAIN new = DOMAIN lock_priority_list[h] /\ new \in Seq(LockPriority)
      BY <2>3, DonatedTypes, Zenon DEF DonatedRecords
    <3>2. DOMAIN <<>> = {}
      OBVIOUS
    <3> HIDE DEF new
    <3> QED
      BY <3>1, <3>2, NoPositions, Zenon
  <2>7. Below(new, r)
    <3> HIDE DEF h, p, r
    <3> QED
      BY <2>3, <2>4, BelowDonated, Zenon
  <2> HIDE DEF h, p, new, r
  <2>8. Dominated' = Thread
    BY <2>1, <2>2, <2>4, <2>5, <2>7, DominatedBut, Zenon
  <2> QED
    BY <2>2, <2>5, <2>6, <2>8, Zenon DEF EmptyStay
<1>7. CASE lock_release_return
  <2>1. PICK p \in Priority :
          /\ PriorityAfterRelease(original_priority[current], lock_priority_list[current], p)
          /\ priority' = [priority EXCEPT ![current] = p]
    BY <1>7, Zenon DEF lock_release_return
  <2>2. UNCHANGED <<original_priority, lock_priority_list>>
    BY <1>7, Zenon DEF lock_release_return
  <2>3. original_priority[current] <= p
    BY <1>0, <2>1, ThreadAssumption DEF PriorityAfterRelease, Priority
  <2>4. Below(lock_priority_list'[current], p)
    BY <2>1, <2>2, Zenon DEF PriorityAfterRelease, Below
  <2> QED
    BY <1>0, <2>1, <2>2, <2>3, <2>4, DominatedBut, Zenon DEF EmptyStay
<1>8. CASE SemaphoreStep
  BY <1>5, <1>8, DominatedSame, Zenon
  DEF SemaphoreStep, SemaDown, SemaTryDown, SemaUp, IrqSemaUp, sema_down_wait, threadVars
<1>9. CASE LockStep
  BY <1>3, <1>4, <1>6, <1>7, <1>9, DominatedSame, Zenon
  DEF LockStep, LockAcquire, LockRelease, LockTryAcquire, lock_release_fault, donate_priority_fault,
      lock_try_acquire_return, synchVars
<1>10. CASE ConditionStep
  BY <1>0, <1>3, <1>4, <1>10, DominatedSame, Zenon
  DEF ConditionStep, CondWait, CondSignal, CondBroadcast, CondReacquire, At, cond_broadcast_signal,
      cond_broadcast_return, cond_signal
<1> QED
  BY <1>8, <1>9, <1>10, Zenon

(* As long as nobody calls lock_try_acquire() or thread_set_priority(), a  *)
(* thread's effective priority is at least its original one and that of    *)
(* each of its records.                                                    *)
THEOREM PriorityDominatesInvariant ==
    ASSUME "lock_try_acquire" \notin Calls, "thread_set_priority" \notin Calls
    PROVE  Spec => []PriorityDominates
<1> DEFINE Inv == TypeOK /\ PlacesOK /\ ListsMatchStatus /\ RecordsOK /\ UntriedOK
<1>1. Init => DominatesOK
  <2> SUFFICES ASSUME Init PROVE DominatesOK
    BY Zenon
  <2>1. /\ priority = original_priority
        /\ \A t \in Thread : pc[t] # "set_priority" /\ lock_priority_list[t] = <<>>
    BY Zenon DEF Init, ThreadInit
  <2>2. \A t \in Thread : priority[t] <= priority[t]
    BY InitTypes, ThreadAssumption DEF TypesAndPlaces, TypeOK, ThreadTypeOK, Priority
  <2>3. \A t \in Thread : Below(lock_priority_list[t], priority[t])
    BY <2>1 DEF Below
  <2> QED
    BY <2>1, <2>2, <2>3, Zenon DEF DominatesOK, Dominated
<1>2. Inv /\ DominatesOK /\ [Next]_vars => DominatesOK'
  <2> SUFFICES ASSUME Inv, DominatesOK, [Next]_vars PROVE DominatesOK'
    BY Zenon
  <2>0. status[current] = "RUNNING" /\ current \in Thread
    BY Zenon DEF ListsMatchStatus, TypeOK, ThreadTypeOK
  <2>1. /\ Dominated' = Thread /\ EmptyStay
        /\ ThreadExit => lock_priority_list'[current] = <<>>
        /\ \A t \in Thread : pc'[t] # "set_priority"
    <3>1. CASE UNCHANGED vars
      <4>1. UNCHANGED <<prioVars, lock_priority_list, pc>>
        BY <3>1, Zenon DEF vars, threadVars, synchVars
      <4>2. ThreadExit => lock_priority_list'[current] = <<>>
        BY <4>1, ExitEmpty, Zenon
      <4> QED
        BY <4>1, <4>2, DominatedSame, Zenon DEF DominatesOK
    <3>2. CASE SemaphoreStep \/ LockStep \/ ConditionStep
      <4>1. ThreadExit => lock_priority_list'[current] = <<>>
        BY ExitEmpty, Zenon DEF ThreadExit, synchVars
      <4> QED
        BY <3>2, <4>1, OtherStepUnset, OtherStepDominates, Zenon DEF DominatesOK
    <3> QED
      BY <3>1, <3>2, ThreadStepDominates, Zenon DEF Next
  <2>2. ASSUME NEW t \in Thread, status'[t] = "NONE" PROVE lock_priority_list'[t] = <<>>
    <3>1. CASE status[t] = "NONE"
      BY <2>0, <2>1, <3>1, Zenon DEF DominatesOK, EmptyStay
    <3> QED
      BY <2>1, <2>2, <3>1, NoneStep, Zenon
  <2> QED
    BY <2>1, <2>2, Zenon DEF DominatesOK
<1>3. TypeOK /\ DominatesOK => PriorityDominates
  <2> SUFFICES ASSUME TypeOK, DominatesOK, NEW t \in Thread
               PROVE  /\ priority[t] >= original_priority[t]
                      /\ \A i \in DOMAIN lock_priority_list[t] :
                            lock_priority_list[t][i].priority <= priority[t]
    BY Zenon DEF PriorityDominates
  <2>1. original_priority[t] <= priority[t] /\ Below(lock_priority_list[t], priority[t])
    BY Zenon DEF DominatesOK, Dominated
  <2>2. priority[t] \in Int /\ original_priority[t] \in Int
    BY ThreadAssumption DEF TypeOK, ThreadTypeOK, Priority
  <2>3. priority[t] >= original_priority[t]
    BY <2>1, <2>2
  <2> QED
    BY <2>1, <2>3, Zenon DEF Below
<1> QED
  BY <1>1, <1>2, <1>3, RecordsInvariant, PTL DEF Spec
-----------------------------------------------------------------------------
(* HighestRuns.  The running thread has the highest priority of those that *)
(* can run; in thread_create(), of those but the new thread.               *)

Top == \A t \in Elems(ready_list) : priority[t] <= priority[current]

Highest ==
    \A t \in Elems(ready_list) :
        \/ priority[t] <= priority[current]
        \/ pc[current] = "created" /\ priority[t] <= saved[current]

(* It is kept as long as thread_tick() wakes nobody and no thread lowers   *)
(* its own priority; a sema_up() in an interrupt handler either keeps it   *)
(* or fails its ASSERT.                                                    *)
HighestOK ==
    /\ sleep_list = <<>>
    /\ \A t \in Thread : pc[t] # "set_priority"
    /\ Highest \/ (panic /\ "irq_sema_up" \in Calls)

(* The thread that schedule() chooses is as high as those it leaves.       *)
LEMMA ScheduleHighest ==
    ASSUME NEW st, NEW rl \in Seq(Thread), NEW prio, schedule(st, rl, prio)
    PROVE  \A t \in Elems(ready_list') :
              prio[t] <= prio[current'] /\ t \in Elems(rl) /\ current' \in Elems(rl)
<1>1. CASE rl = <<>> /\ ready_list' = rl
  BY <1>1 DEF Elems
<1>2. ASSUME NEW i \in DOMAIN rl, list_max(rl, prio, i), current' = rl[i],
             ready_list' = list_remove(rl, i)
      PROVE  \A t \in Elems(ready_list') :
                prio[t] <= prio[current'] /\ t \in Elems(rl) /\ current' \in Elems(rl)
  <2>1. Elems(ready_list') \subseteq Elems(rl)
    BY <1>2, RemoveElems, Zenon
  <2>2. current' \in Elems(rl)
    BY <1>2, Zenon DEF Elems
  <2>3. \A t \in Elems(rl) : prio[t] <= prio[current']
    BY <1>2, Zenon DEF list_max, Elems
  <2> QED
    BY <2>1, <2>2, <2>3, Zenon
<1> QED
  BY <1>1, <1>2, Zenon DEF schedule

(* So is the one that thread_yield() switches to ...                       *)
LEMMA YieldHighest ==
    ASSUME current \in Thread, NEW st, NEW rl \in Seq(Thread), NEW prio,
           thread_yield(st, rl, prio), priority' = prio
    PROVE  Top'
<1> DEFINE rl2 == IF current = Idle THEN rl ELSE list_push_back(rl, current)
           st2 == [st EXCEPT ![current] = "READY"]
<1>1. rl2 \in Seq(Thread)
  BY PushBackElems, Zenon
<1>2. schedule(st2, rl2, prio)
  BY Zenon DEF thread_yield
<1> HIDE DEF rl2, st2
<1>3. \A t \in Elems(ready_list') : prio[t] <= prio[current']
  BY <1>1, <1>2, ScheduleHighest, Zenon
<1> QED
  BY <1>3, Zenon DEF Top, Elems

(* ... and that thread_block() switches to.                                *)
LEMMA BlockHighest ==
    ASSUME TypeOK, thread_block, UNCHANGED priority
    PROVE  Top'
<1>1. ready_list \in Seq(Thread)
  BY Zenon DEF TypeOK, ThreadTypeOK
<1>2. \A t \in Elems(ready_list') : priority[t] <= priority[current']
  BY <1>1, ScheduleHighest, Zenon DEF thread_block
<1> QED
  BY <1>2, Zenon DEF Top, Elems

(* A step that moves the running thread from one place to another.         *)
LEMMA TopSame ==
    ASSUME Top, UNCHANGED <<current, ready_list, priority>>
    PROVE  Top'
  BY Zenon DEF Top, Elems

(* One that unblocks a thread no higher than the running one.              *)
LEMMA TopUnblock ==
    ASSUME TypeOK, Top, UNCHANGED <<current, priority>>,
           NEW t \in Thread, ready_list' = list_push_back(ready_list, t),
           priority[t] <= priority[current]
    PROVE  Top'
<1>1. ready_list \in Seq(Thread)
  BY Zenon DEF TypeOK, ThreadTypeOK
<1>2. Elems(ready_list') = Elems(ready_list) \cup {t}
  <2>1. Elems(list_push_back(ready_list, t)) = Elems(ready_list) \cup {t}
    BY <1>1, PushThread, Zenon
  <2>2. Elems(ready_list') = Elems(list_push_back(ready_list, t))
    BY Zenon
  <2> QED
    BY <2>1, <2>2, Zenon
<1>3. \A u \in Elems(ready_list') : priority[u] <= priority[current]
  BY <1>2, Zenon DEF Top
<1> QED
  BY <1>3, Zenon DEF Top, Elems

(* sema_up() yields to the thread it unblocks if that one is higher.       *)
LEMMA SemaUpHighest ==
    ASSUME TypeOK, Top, NEW val, NEW s \in Sema, sema_up(val, s), UNCHANGED priority
    PROVE  Top'
<1>0. /\ current \in Thread /\ ready_list \in Seq(Thread) /\ priority \in [Thread -> Priority]
      /\ waiters[s] \in Seq(Thread)
  BY Zenon DEF TypeOK, ThreadTypeOK
<1>1. CASE UNCHANGED schedVars
  BY <1>1, TopSame, Zenon DEF schedVars
<1>2. ASSUME NEW i \in DOMAIN waiters[s], NEW t, t = waiters[s][i],
             NEW st, NEW rl, rl = list_push_back(ready_list, t),
             IF priority[t] > priority[current]
             THEN thread_yield(st, rl, priority)
             ELSE ready_list' = rl /\ current' = current
      PROVE  Top'
  <2>1. t \in Thread
    BY <1>0, <1>2
  <2>2. rl \in Seq(Thread)
    BY <1>0, <1>2, <2>1, PushBackElems, Zenon
  <2>3. priority[t] > priority[current] \/ priority[t] <= priority[current]
    BY <1>0, <2>1, ThreadAssumption DEF Priority
  <2>4. CASE priority[t] > priority[current]
    BY <1>0, <1>2, <2>2, <2>4, YieldHighest, Zenon
  <2>5. CASE ~(priority[t] > priority[current])
    BY <1>2, <2>1, <2>3, <2>5, TopUnblock, Zenon
  <2> QED
    BY <2>4, <2>5, Zenon
<1> QED
  BY <1>1, <1>2, Zenon DEF sema_up

(* A step that leaves the running thread where it is.                      *)
LEMMA HighestSame ==
    ASSUME Highest, UNCHANGED <<current, ready_list, priority, saved>>,
           pc[current] = "created" => pc'[current] = "created"
    PROVE  Highest'
<1>1. \A t \in Elems(ready_list) : \/ priority'[t] <= priority'[current']
                                   \/ pc'[current'] = "created" /\ priority'[t] <= saved'[current']
  BY Zenon DEF Highest
<1>2. Elems(ready_list') = Elems(ready_list)
  BY Zenon
<1> QED
  BY <1>1, <1>2, Zenon DEF Highest, Elems

(* The operations of thread.c.                                             *)
LEMMA ThreadStepHighest ==
    ASSUME TypeOK, PlacesOK, ListsMatchStatus, sleep_list = <<>>, Highest,
           \A t \in Thread : pc[t] # "set_priority",
           (ThreadStep /\ UNCHANGED synchVars) \/ ThreadSetPriorityReturn \/ ThreadExit,
           "timer_sleep" \notin Calls, "thread_set_priority" \notin Calls
    PROVE  sleep_list' = <<>> /\ Highest'
<1>0. /\ current \in Thread /\ ready_list \in Seq(Thread) /\ pc \in [Thread -> Places]
      /\ priority \in [Thread -> Priority] /\ saved \in [Thread -> Priority]
      /\ status[current] = "RUNNING" /\ current \notin Elems(ready_list)
  BY Zenon DEF TypeOK, ThreadTypeOK, ListsMatchStatus
<1>1. /\ ~ThreadSetPriorityReturn /\ \A p \in Priority : ~thread_set_priority(p)
      /\ \A n \in 1 .. MaxSleep : ~timer_sleep(n)
  BY <1>0, Zenon
  DEF ThreadSetPriorityReturn, thread_set_priority_return, At, thread_set_priority, timer_sleep, Calling
<1>2. ~thread_tick_wake
  <2>1. DOMAIN sleep_list = {}
    OBVIOUS
  <2> QED
    BY <2>1, Zenon DEF thread_tick_wake
<1>3. ASSUME Top' PROVE Highest'
  BY <1>3, Zenon DEF Top, Highest
<1>4. ASSUME pc[current] # "created" PROVE Top
  BY <1>4, Zenon DEF Top, Highest
<1>5. ASSUME NEW t \in Thread, NEW p \in Priority, thread_create(t, p) PROVE Highest'
  <2>1. /\ current' = current /\ t # current /\ pc[current] # "created"
        /\ priority' = [priority EXCEPT ![t] = p]
        /\ ready_list' = list_push_back(ready_list, t)
        /\ pc' = [pc EXCEPT ![current] = "created", ![t] = "run"]
        /\ saved' = [saved EXCEPT ![current] = p]
    BY <1>0, <1>5, Zenon DEF thread_create, Calling
  <2>2. Elems(ready_list') = Elems(ready_list) \cup {t} /\ Elems(ready_list) \subseteq Thread
    BY <1>0, <2>1, PushBackElems, ElemsInThread, Zenon
  <2>3. /\ pc'[current] = "created" /\ saved'[current] = p /\ priority'[t] = p
        /\ \A u \in Thread \ {t} : priority'[u] = priority[u]
    BY <1>0, <2>1, Zenon
  <2>4. p <= p
    BY ThreadAssumption DEF Priority
  <2>5. \A u \in Elems(ready_list) : u # t => priority'[u] <= priority'[current]
    BY <1>0, <1>4, <2>1, <2>2, <2>3, Zenon DEF Top
  <2>6. \A u \in Elems(ready_list') : \/ priority'[u] <= priority'[current]
                                      \/ pc'[current] = "created" /\ priority'[u] <= saved'[current]
    BY <2>2, <2>3, <2>4, <2>5, Zenon
  <2> QED
    BY <2>1, <2>6, Zenon DEF Highest, Elems
<1>6. ASSUME thread_create_return PROVE Highest'
  <2>1. CASE saved[current] > priority[current]
    <3>1. thread_yield(status, ready_list, priority) /\ UNCHANGED priority
      BY <1>6, <2>1, Zenon DEF thread_create_return, prioVars
    <3> QED
      BY <1>0, <1>3, <3>1, YieldHighest, Zenon
  <2>2. CASE ~(saved[current] > priority[current])
    <3>1. ASSUME NEW t \in Elems(ready_list) PROVE priority[t] <= priority[current]
      <4>1. t \in Thread
        BY <1>0, ElemsInThread, Zenon
      <4>2. priority[t] \in Int /\ priority[current] \in Int /\ saved[current] \in Int
        BY <1>0, <4>1, ThreadAssumption DEF Priority
      <4>3. priority[t] <= priority[current] \/ priority[t] <= saved[current]
        BY Zenon DEF Highest
      <4> QED
        BY <2>2, <4>2, <4>3
    <3>2. Top
      BY <3>1, Zenon DEF Top
    <3>3. UNCHANGED <<current, ready_list, priority>>
      BY <1>6, <2>2, Zenon DEF thread_create_return, schedVars, prioVars
    <3> QED
      BY <1>3, <3>2, <3>3, TopSame, Zenon
  <2> QED
    BY <2>1, <2>2, Zenon
<1>7. ASSUME timer_interrupt PROVE Highest'
  <2>1. /\ UNCHANGED <<current, ready_list, priority, saved>>
        /\ pc'[current] = "created" <=> pc[current] = "created"
    BY <1>0, <1>7, Zenon DEF timer_interrupt, Interrupted, schedVars, prioVars
  <2> QED
    BY <2>1, HighestSame, Zenon
<1>8. ASSUME thread_tick_return PROVE Highest'
  <2>1. CASE thread_yield(status, ready_list, priority)
    <3>1. UNCHANGED priority
      BY <1>8, Zenon DEF thread_tick_return, prioVars
    <3> QED
      BY <1>0, <1>3, <2>1, <3>1, YieldHighest, Zenon
  <2>2. CASE UNCHANGED <<current, ready_list>>
    BY <1>8, <2>2, HighestSame, Zenon DEF thread_tick_return, prioVars
  <2> QED
    BY <1>8, <2>1, <2>2, Zenon DEF thread_tick_return
<1>9. ASSUME ThreadExit PROVE Highest'
  <2> DEFINE st == [status EXCEPT ![current] = "DYING"]
  <2>1. schedule(st, ready_list, priority) /\ priority' = [priority EXCEPT ![current] = PRI_MIN]
    BY <1>9, Zenon DEF ThreadExit, thread_exit
  <2> HIDE DEF st
  <2>2. \A t \in Elems(ready_list') : /\ priority[t] <= priority[current']
                                      /\ t \in Elems(ready_list) /\ current' \in Elems(ready_list)
    BY <1>0, <2>1, ScheduleHighest, Zenon
  <2>3. \A t \in Elems(ready_list) : priority'[t] = priority[t]
    BY <1>0, <2>1, ElemsInThread, Zenon
  <2>4. \A t \in Elems(ready_list') : priority'[t] <= priority'[current']
    BY <2>2, <2>3, Zenon
  <2>5. Top'
    BY <2>4, Zenon DEF Top, Elems
  <2> QED
    BY <1>3, <2>5, Zenon
<1>10. CASE ThreadStep
  <2>1. Yield => Highest'
    BY <1>0, <1>3, YieldHighest, Zenon DEF Yield, prioVars
  <2>2. idle => Highest'
    BY <1>3, BlockHighest, Zenon DEF idle, prioVars
  <2>3. Highest'
    BY <1>1, <1>2, <1>5, <1>6, <1>7, <1>8, <1>10, <2>1, <2>2, Zenon DEF ThreadStep, Tick
  <2>4. sleep_list' = sleep_list
    BY <1>1, <1>2, <1>10, Zenon
    DEF ThreadStep, Tick, Yield, thread_create, thread_create_return, idle, timer_interrupt,
        thread_tick_return, sleepVars
  <2> QED
    BY <2>3, <2>4, Zenon
<1> QED
  BY <1>1, <1>9, <1>10, Zenon DEF ThreadExit, thread_exit, sleepVars

(* An interrupt handler's sema_up() ends in a failed ASSERT where it would *)
(* have to yield.                                                          *)
LEMMA IrqHighest ==
    ASSUME TypeOK, Highest, NEW s \in IrqSemaphore, IrqSemaUp(s)
    PROVE  Highest' \/ panic'
<1>0. /\ current \in Thread /\ ready_list \in Seq(Thread) /\ pc \in [Thread -> Places]
      /\ s \in Sema /\ waiters[s] \in Seq(Thread) /\ priority' = priority /\ saved' = saved
      /\ current' = current
  BY SynchAssumption, Zenon DEF TypeOK, ThreadTypeOK, Sema, IrqSemaUp, prioVars
<1>1. pc'[current] = "created" <=> pc[current] = "created"
  BY <1>0, Zenon DEF IrqSemaUp, Interrupted
<1>2. CASE ready_list' = ready_list
  BY <1>0, <1>1, <1>2, HighestSame, Zenon
<1>3. ASSUME NEW i \in DOMAIN waiters[s], NEW t, t = waiters[s][i],
             ready_list' = list_push_back(ready_list, t),
             ASSERT(status[t] = "BLOCKED" /\ priority[t] <= priority[current])
      PROVE  Highest' \/ panic'
  <2>1. t \in Thread
    BY <1>0, <1>3
  <2>2. Elems(ready_list') = Elems(ready_list) \cup {t}
    <3>1. Elems(list_push_back(ready_list, t)) = Elems(ready_list) \cup {t}
      BY <1>0, <2>1, PushThread, Zenon
    <3> QED
      BY <1>3, <3>1, Zenon
  <2>3. CASE priority[t] <= priority[current]
    <3>1. \A u \in Elems(ready_list') : \/ priority[u] <= priority[current]
                                        \/ pc[current] = "created" /\ priority[u] <= saved[current]
      BY <2>2, <2>3, Zenon DEF Highest
    <3> QED
      BY <1>0, <1>1, <3>1, Zenon DEF Highest, Elems
  <2> QED
    BY <1>3, <2>3, Zenon DEF ASSERT
<1> QED
  BY <1>2, <1>3, Zenon DEF IrqSemaUp

(* The operations of semaphores, locks and condition variables.            *)
LEMMA OtherStepHighest ==
    ASSUME TypeOK, PlacesOK, Highest, SemaphoreStep \/ LockStep \/ ConditionStep
    PROVE  Highest' \/ (panic' /\ "irq_sema_up" \in Calls)
<1>0. /\ current \in Thread /\ ready_list \in Seq(Thread) /\ priority \in [Thread -> Priority]
      /\ original_priority \in [Thread -> Priority] /\ CondLock \in [Condition -> Lock]
      /\ Semaphore \subseteq Sema /\ Lock \subseteq Sema /\ Thread \subseteq Sema
      /\ \A c \in Condition : cond_waiters[c] \in Seq(Thread)
      /\ pc[current] = "broadcast" => cond_arg[current] \in Condition
      /\ pc[current] = "donate" => donee \in Lock /\ holder[donee] \in Thread
  BY SynchAssumption, Zenon DEF TypeOK, ThreadTypeOK, Sema, PlacesOK
<1>1. ASSUME Top' PROVE Highest'
  BY <1>1, Zenon DEF Top, Highest
<1>2. ASSUME pc[current] # "created" PROVE Top
  BY <1>2, Zenon DEF Top, Highest
<1>3. ASSUME pc[current] # "created", UNCHANGED <<current, ready_list, priority>> PROVE Highest'
  BY <1>1, <1>2, <1>3, TopSame, Zenon
<1>4. ASSUME pc[current] # "created", UNCHANGED priority, NEW val, NEW s \in Sema, sema_up(val, s)
      PROVE  Highest'
  BY <1>1, <1>2, <1>4, SemaUpHighest, Zenon
<1>5. ASSUME NEW l, lock_acquire(l), pc[current] # "created" PROVE Highest'
  BY <1>3, <1>5, Zenon DEF lock_acquire, schedVars, prioVars
<1>6. ASSUME NEW l \in Lock, NEW val, lock_release(val, l), pc[current] # "created" PROVE Highest'
  BY <1>0, <1>4, <1>6, Zenon DEF lock_release, prioVars
<1>7. ASSUME NEW c \in Condition, cond_signal(c), pc[current] # "created" PROVE Highest'
  <2>1. PICK i \in DOMAIN cond_waiters[c] : sema_up(value, cond_waiters[c][i])
    BY <1>7, Zenon DEF cond_signal
  <2>2. cond_waiters[c][i] \in Thread
    <3>1. cond_waiters[c] \in Seq(Thread)
      BY <1>0, Zenon
    <3> QED
      BY <3>1
  <2> QED
    BY <1>0, <1>4, <1>7, <2>1, <2>2, Zenon DEF cond_signal, prioVars
<1>8. ASSUME donate_priority PROVE Highest'
  <2> DEFINE h == holder[donee]
             p == priority[current]
  <2>1. /\ pc[current] = "donate" /\ UNCHANGED <<current, ready_list>>
        /\ priority' = IF p > priority[h] THEN [priority EXCEPT ![h] = p] ELSE priority
    BY <1>8, Zenon DEF donate_priority, At, schedVars
  <2>2. h \in Thread /\ pc[current] # "created"
    BY <1>0, <2>1, Zenon
  <2>3. p <= p /\ p \in Int
    BY <1>0, ThreadAssumption DEF Priority
  <2>4. \A t \in Thread : priority'[t] = priority[t] \/ priority'[t] = p
    BY <1>0, <2>1, <2>2, Zenon
  <2>5. priority'[current] = p
    BY <1>0, <2>4, Zenon
  <2>6. \A t \in Elems(ready_list) : priority'[t] <= priority'[current]
    BY <1>0, <1>2, <2>2, <2>3, <2>4, <2>5, ElemsInThread, Zenon DEF Top
  <2>7. Top'
    BY <2>1, <2>6, Zenon DEF Top, Elems
  <2> QED
    BY <1>1, <2>7, Zenon
<1>9. ASSUME lock_release_return PROVE Highest'
  <2>1. PICK p \in Priority :
          /\ priority' = [priority EXCEPT ![current] = p]
          /\ IF priority[current] > p
             THEN thread_yield(status, ready_list, priority')
             ELSE UNCHANGED schedVars
    BY <1>9, Zenon DEF lock_release_return
  <2>2. pc[current] # "created"
    BY <1>9, Zenon DEF lock_release_return, At
  <2>3. CASE priority[current] > p
    BY <1>0, <1>1, <2>1, <2>3, YieldHighest, Zenon
  <2>4. CASE ~(priority[current] > p)
    <3>1. UNCHANGED <<current, ready_list>>
      BY <2>1, <2>4, Zenon DEF schedVars
    <3>2. ASSUME NEW t \in Elems(ready_list) PROVE priority'[t] <= priority'[current]
      <4>1. t \in Thread
        BY <1>0, ElemsInThread, Zenon
      <4>2. priority[t] \in Int /\ priority[current] \in Int /\ p \in Int
        BY <1>0, <4>1, ThreadAssumption DEF Priority
      <4>3. priority[t] <= priority[current]
        BY <1>2, <2>2, Zenon DEF Top
      <4>4. priority[t] <= p /\ p <= p
        BY <2>4, <4>2, <4>3
      <4>5. priority'[current] = p /\ (priority'[t] = p \/ priority'[t] = priority[t])
        BY <1>0, <2>1, <4>1, Zenon
      <4> QED
        BY <4>4, <4>5, Zenon
    <3>3. Top'
      BY <3>1, <3>2, Zenon DEF Top, Elems
    <3> QED
      BY <1>1, <3>3, Zenon
  <2> QED
    BY <2>3, <2>4, Zenon
<1>10. ASSUME sema_down_wait PROVE Highest'
  BY <1>1, <1>10, BlockHighest, Zenon DEF sema_down_wait, prioVars
<1>11. ASSUME NEW s \in IrqSemaphore, IrqSemaUp(s)
       PROVE  Highest' \/ (panic' /\ "irq_sema_up" \in Calls)
  BY <1>11, IrqHighest, Zenon DEF IrqSemaUp
<1>12. CASE SemaphoreStep
  BY <1>0, <1>3, <1>4, <1>10, <1>11, <1>12, Zenon
  DEF SemaphoreStep, SemaDown, SemaTryDown, SemaUp, sema_down_return, Calling, At, threadVars,
      schedVars, prioVars
<1>13. CASE LockStep
  BY <1>3, <1>5, <1>6, <1>8, <1>9, <1>13, Zenon
  DEF LockStep, LockAcquire, LockRelease, LockTryAcquire, lock_release_fault, donate_priority_fault,
      lock_try_acquire_return, Calling, At, schedVars, prioVars
<1>14. CASE ConditionStep
  <2>1. ASSUME NEW c \in Condition, CondWait(c) \/ CondSignal(c) \/ CondBroadcast(c) PROVE Highest'
    BY <1>0, <1>3, <1>6, <1>7, <2>1, Zenon
    DEF CondWait, CondSignal, CondBroadcast, Calling, schedVars, prioVars
  <2> QED
    BY <1>0, <1>3, <1>5, <1>7, <1>14, <2>1, Zenon
    DEF ConditionStep, CondReacquire, cond_broadcast_signal, cond_broadcast_return, At, schedVars,
        prioVars
<1> QED
  BY <1>12, <1>13, <1>14, Zenon

(* They put nobody to sleep.                                               *)
LEMMA OtherStepAwake ==
    ASSUME SemaphoreStep \/ LockStep \/ ConditionStep
    PROVE  UNCHANGED sleep_list
<1>1. CASE SemaphoreStep
  BY <1>1, Zenon
  DEF SemaphoreStep, SemaDown, SemaTryDown, SemaUp, IrqSemaUp, sema_down_wait, sema_down_return,
      threadVars, sleepVars
<1>2. CASE LockStep
  BY <1>2, Zenon
  DEF LockStep, LockAcquire, LockRelease, LockTryAcquire, lock_acquire, lock_release, lock_release_fault,
      donate_priority, donate_priority_fault, lock_release_return, lock_try_acquire_return, sleepVars
<1>3. CASE ConditionStep
  BY <1>3, Zenon
  DEF ConditionStep, CondWait, CondSignal, CondBroadcast, CondReacquire, cond_broadcast_signal,
      cond_broadcast_return, cond_signal, lock_acquire, lock_release, sleepVars
<1> QED
  BY <1>1, <1>2, <1>3, Zenon

(* Nothing runs after a failed ASSERT.                                     *)
LEMMA SteppedCalm ==
    Next => ~panic
<1>1. ThreadStep \/ ThreadSetPriorityReturn \/ ThreadExit => ~panic
  BY Zenon
  DEF ThreadStep, Yield, thread_create, thread_create_return, thread_set_priority, timer_sleep, idle,
      Tick, timer_interrupt, thread_tick_wake, thread_tick_return, ThreadSetPriorityReturn,
      thread_set_priority_return, ThreadExit, thread_exit, Calling, At
<1>2. SemaphoreStep => ~panic
  BY Zenon
  DEF SemaphoreStep, SemaDown, SemaTryDown, SemaUp, IrqSemaUp, sema_down_wait, sema_down_return,
      Calling, At
<1>3. LockStep => ~panic
  BY Zenon
  DEF LockStep, LockAcquire, LockRelease, LockTryAcquire, lock_release_fault, donate_priority,
      donate_priority_fault, lock_release_return, lock_try_acquire_return, Calling, At
<1>4. ConditionStep => ~panic
  BY Zenon
  DEF ConditionStep, CondWait, CondSignal, CondBroadcast, CondReacquire, cond_broadcast_signal,
      cond_broadcast_return, Calling, At
<1> QED
  BY <1>1, <1>2, <1>3, <1>4, Zenon DEF Next

(* The invariant holds as long as nobody calls timer_sleep() or            *)
(* thread_set_priority().                                                  *)
LEMMA HighestInvariant ==
    ASSUME "timer_sleep" \notin Calls, "thread_set_priority" \notin Calls
    PROVE  Spec => []HighestOK
<1>1. Init => HighestOK
  <2> SUFFICES ASSUME Init PROVE HighestOK
    BY Zenon
  <2>1. sleep_list = <<>> /\ ready_list = <<>> /\ \A t \in Thread : pc[t] # "set_priority"
    BY Zenon DEF Init, ThreadInit
  <2>2. Highest
    BY <2>1 DEF Highest, Elems
  <2> QED
    BY <2>1, <2>2, Zenon DEF HighestOK
<1>2. TypeOK /\ PlacesOK /\ ListsMatchStatus /\ HighestOK /\ [Next]_vars => HighestOK'
  <2> SUFFICES ASSUME TypeOK, PlacesOK, ListsMatchStatus, HighestOK, [Next]_vars PROVE HighestOK'
    BY Zenon
  <2>1. CASE UNCHANGED vars
    <3>1. UNCHANGED <<current, ready_list, priority, saved, pc, sleep_list, panic>>
      BY <2>1, Zenon DEF vars, threadVars, schedVars, prioVars, sleepVars
    <3>2. Highest => Highest'
      BY <3>1, HighestSame, Zenon
    <3> QED
      BY <3>1, <3>2, Zenon DEF HighestOK
  <2>2. CASE Next
    <3>1. ~panic
      BY <2>2, SteppedCalm, Zenon
    <3>2. CASE SemaphoreStep \/ LockStep \/ ConditionStep
      BY <3>1, <3>2, OtherStepUnset, OtherStepAwake, OtherStepHighest, Zenon DEF HighestOK
    <3>3. CASE (ThreadStep /\ UNCHANGED synchVars) \/ ThreadSetPriorityReturn \/ ThreadExit
      BY <3>1, <3>3, ThreadStepUnset, ThreadStepHighest, Zenon DEF HighestOK
    <3> QED
      BY <2>2, <3>2, <3>3, Zenon DEF Next
  <2> QED
    BY <2>1, <2>2, Zenon
<1> QED
  BY <1>1, <1>2, TypesAndPlacesInvariant, ListsInvariant, PTL DEF Spec

(* The scheduler's promise, as long as nobody sleeps or sets priorities: a *)
(* ready thread outranks the running one in a state after a failed ASSERT  *)
(* only, which an interrupt handler's sema_up() can bring about.           *)
THEOREM HighestUntilPanic ==
    ASSUME "timer_sleep" \notin Calls, "thread_set_priority" \notin Calls
    PROVE  Spec => [](NoPanic => HighestRuns)
<1>1. HighestOK /\ NoPanic => HighestRuns
  BY Zenon DEF HighestOK, Highest, HighestRuns, NoPanic
<1> QED
  BY <1>1, HighestInvariant, PTL

(* And without such interrupts it holds in every state.                    *)
THEOREM HighestRunsInvariant ==
    ASSUME "timer_sleep" \notin Calls, "thread_set_priority" \notin Calls, "irq_sema_up" \notin Calls
    PROVE  Spec => []HighestRuns
<1>1. HighestOK => HighestRuns
  BY Zenon DEF HighestOK, Highest, HighestRuns
<1> QED
  BY <1>1, HighestInvariant, PTL
=============================================================================
