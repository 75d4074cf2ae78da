------------------------------- MODULE Synch -------------------------------
(***************************************************************************)
(* Semaphores, locks with priority donation, and condition variables       *)
(* (threads/synch.c) over the threads of module Threads, with              *)
(* priority_donation_enabled, as it is once main() has called synch_init().*)
(*                                                                         *)
(* The places of this module, all but "broadcast" and "tried" with         *)
(* interrupts off:                                                         *)
(*   "donate"     in lock_acquire(), one level of                          *)
(*                donate_priority_recursively() ahead, for lock donee      *)
(*   "down"       at the loop of sema_down() on semaphore sema_arg[t]      *)
(*   "released"   in lock_release(), after its sema_up()                   *)
(*   "reacquire"  in cond_wait(), about to call lock_acquire()             *)
(*   "broadcast"  at the loop of cond_broadcast()                          *)
(*   "tried"      in lock_try_acquire(), after a successful sema_try_down()*)
(*                                                                         *)
(* A lock's semaphore is named by the lock, and the semaphore in the       *)
(* struct condition_waiter on a thread's stack by the thread.              *)
(***************************************************************************)
EXTENDS Threads, FiniteSets

CONSTANTS Lock, Semaphore, Condition,
          IrqSemaphore,        \* the semaphores an interrupt handler ups
          CondLock,            \* the one lock each condition is used with
          LOCK_PRIORITY_LIMIT, \* records that fit on lock_priority_page
          MaxValue,            \* bound: the value a semaphore is upped to
          Null

Sema == Lock \cup Semaphore \cup Thread

ASSUME SynchAssumption ==
    /\ Lock \cap Semaphore = {} /\ Lock \cap Thread = {} /\ Semaphore \cap Thread = {}
    /\ Null \notin Thread /\ Null \notin Sema /\ Null \notin Condition
    /\ IrqSemaphore \subseteq Semaphore
    /\ CondLock \in [Condition -> Lock]
    /\ LOCK_PRIORITY_LIMIT \in Nat
    /\ MaxValue \in Nat

(* Threads live in pages of memory, locks are declared in the source.      *)
ASSUME FiniteAssumption == IsFiniteSet(Thread) /\ IsFiniteSet(Lock)

VARIABLES
    value, waiters,      \* struct semaphore
    holder,              \* struct lock
    lock_priority_list,  \* struct thread: its lock_priority records
    cond_waiters,        \* struct condition
    sema_arg,            \* the argument of the sema_down() a thread is in
    cond_arg,            \* the argument of cond_wait() or cond_broadcast()
    donee                \* the argument of donate_priority_recursively()

semaVars == <<value, waiters>>
argVars  == <<sema_arg, cond_arg, donee>>
synchVars == <<semaVars, holder, lock_priority_list, cond_waiters, argVars>>
vars == <<threadVars, synchVars>>

LockPriority == [lock : Lock, waiting : BOOLEAN, priority : Priority]

Places == InterruptsOn \cup {"donate", "down", "released", "reacquire"}

TypeOK ==
    /\ ThreadTypeOK
    /\ pc \in [Thread -> Places]
    /\ value \in [Sema -> Nat]
    /\ waiters \in [Sema -> Seq(Thread)]
    /\ holder \in [Lock -> Thread \cup {Null}]
    /\ lock_priority_list \in [Thread -> Seq(LockPriority)]
    /\ cond_waiters \in [Condition -> Seq(Thread)]
    /\ sema_arg \in [Thread -> Sema \cup {Null}]
    /\ cond_arg \in [Thread -> Condition \cup {Null}]
    /\ donee \in Lock \cup {Null}

(* sema_init() and lock_init() of all of them.                             *)
Init ==
    /\ ThreadInit
    /\ value = [s \in Sema |-> IF s \in Lock THEN 1 ELSE 0]
    /\ waiters = [s \in Sema |-> <<>>]
    /\ holder = [l \in Lock |-> Null]
    /\ lock_priority_list = [t \in Thread |-> <<>>]
    /\ cond_waiters = [c \in Condition |-> <<>>]
    /\ sema_arg = [t \in Thread |-> Null]
    /\ cond_arg = [t \in Thread |-> Null]
    /\ donee = Null
-----------------------------------------------------------------------------
(* The lock_priority records.                                              *)

(* find_lock_priority() returns the record at position i.                  *)
find_lock_priority(list, lock, i) ==
    /\ i \in DOMAIN list
    /\ list[i].lock = lock
    /\ \A j \in DOMAIN list : j < i => list[j].lock # lock

(* The records of all threads that are in use on lock_priority_page.       *)
RecordsInUse == UNION {{t} \X DOMAIN lock_priority_list[t] : t \in Thread}

get_new_lock_priority_fails == Cardinality(RecordsInUse) >= LOCK_PRIORITY_LIMIT

(* The effective priority lock_release() leaves a thread with original     *)
(* priority p and records list.                                            *)
PriorityAfterRelease(p, list, new_priority) ==
    /\ new_priority \in {p} \cup {list[i].priority : i \in DOMAIN list}
    /\ new_priority >= p
    /\ \A i \in DOMAIN list : list[i].priority <= new_priority
-----------------------------------------------------------------------------
(* Semaphores.                                                             *)

(* Mutant: the value rises but no waiting thread is unblocked.             *)
sema_up_no_wake(val, s) ==
    /\ value' = [val EXCEPT ![s] = @ + 1]
    /\ UNCHANGED <<schedVars, waiters, panic>>

(* Mutant: the unblocked thread stays on the list of waiters.              *)
sema_up_linked(val, s) ==
    /\ value' = [val EXCEPT ![s] = @ + 1]
    /\ UNCHANGED waiters
    /\ \/ waiters[s] = <<>> /\ UNCHANGED <<schedVars, panic>>
       \/ \E i \in DOMAIN waiters[s] :
            LET t  == waiters[s][i]
                st == [status EXCEPT ![t] = "READY"]
                rl == list_push_back(ready_list, t)
            IN  /\ list_max(waiters[s], priority, i)
                /\ ASSERT(status[t] = "BLOCKED")
                /\ IF priority[t] > priority[current]
                   THEN thread_yield(st, rl, priority)
                   ELSE status' = st /\ ready_list' = rl /\ UNCHANGED <<current, thread_ticks>>

(* sema_up() of s by the running thread, with the semaphore values val:    *)
(* the value rises, and the waiting thread of highest priority is          *)
(* unblocked and preempts the running one if its priority is higher.       *)
sema_up(val, s) ==
    /\ value' = [val EXCEPT ![s] = @ + 1]
    /\ \/ /\ waiters[s] = <<>>
          /\ UNCHANGED <<schedVars, waiters, panic>>
       \/ \E i \in DOMAIN waiters[s] :
            LET t  == waiters[s][i]
                st == [status EXCEPT ![t] = "READY"]
                rl == list_push_back(ready_list, t)
            IN  /\ list_max(waiters[s], priority, i)
                /\ waiters' = [waiters EXCEPT ![s] = list_remove(@, i)]
                /\ ASSERT(status[t] = "BLOCKED")
                /\ IF priority[t] > priority[current]
                   THEN thread_yield(st, rl, priority)
                   ELSE status' = st /\ ready_list' = rl /\ UNCHANGED <<current, thread_ticks>>

(* The running thread enters sema_down(s).                                 *)
EnterSemaDown(s) ==
    /\ pc' = [pc EXCEPT ![current] = "down"]
    /\ sema_arg' = [sema_arg EXCEPT ![current] = s]

SemaDown(s) ==
    /\ Calling("sema_down")
    /\ EnterSemaDown(s)
    /\ UNCHANGED <<schedVars, prioVars, sleepVars, in_external_intr, saved, panic,
                   semaVars, holder, lock_priority_list, cond_waiters, cond_arg, donee>>

(* The loop of sema_down() finds the value 0: the thread waits, and tests  *)
(* the value again once it has been unblocked and scheduled.               *)
sema_down_wait ==
    LET s == sema_arg[current]
    IN  /\ At("down")
        /\ value[s] = 0
        /\ waiters' = [waiters EXCEPT ![s] = list_push_back(@, current)]
        /\ thread_block
        /\ UNCHANGED <<prioVars, sleepVars, in_external_intr, pc, saved, panic,
                       value, holder, lock_priority_list, cond_waiters, argVars>>

(* Mutant: the value is tested and not decremented.                        *)
sema_down_return_not_taken ==
    LET s == sema_arg[current]
    IN  /\ At("down")
        /\ value[s] > 0
        /\ sema_arg' = [sema_arg EXCEPT ![current] = Null]
        /\ pc' = [pc EXCEPT ![current] = IF s = current THEN "reacquire" ELSE "run"]
        /\ IF s \in Lock
           THEN /\ holder' = [holder EXCEPT ![s] = current]
                /\ lock_priority_list' = [lock_priority_list EXCEPT ![current][1].waiting = FALSE]
                /\ cond_arg' = [cond_arg EXCEPT ![current] = Null]
           ELSE UNCHANGED <<holder, lock_priority_list, cond_arg>>
        /\ UNCHANGED <<schedVars, prioVars, sleepVars, in_external_intr, saved, panic,
                       semaVars, cond_waiters, donee>>

(* The loop ends and sema_down() returns to its caller: to lock_acquire(), *)
(* which makes the thread the holder and its record, the front one, no     *)
(* longer waiting; to cond_wait(); or to the thread's own code.            *)
sema_down_return ==
    LET s == sema_arg[current]
    IN  /\ At("down")
        /\ value[s] > 0
        /\ value' = [value EXCEPT ![s] = @ - 1]
        /\ sema_arg' = [sema_arg EXCEPT ![current] = Null]
        /\ pc' = [pc EXCEPT ![current] = IF s = current THEN "reacquire" ELSE "run"]
        /\ IF s \in Lock
           THEN /\ holder' = [holder EXCEPT ![s] = current]
                /\ lock_priority_list' = [lock_priority_list EXCEPT ![current][1].waiting = FALSE]
                /\ cond_arg' = [cond_arg EXCEPT ![current] = Null]
           ELSE UNCHANGED <<holder, lock_priority_list, cond_arg>>
        /\ UNCHANGED <<schedVars, prioVars, sleepVars, in_external_intr, saved, panic,
                       waiters, cond_waiters, donee>>

SemaTryDown(s) ==
    /\ Calling("sema_try_down")
    /\ value[s] > 0
    /\ value' = [value EXCEPT ![s] = @ - 1]
    /\ UNCHANGED <<threadVars, waiters, holder, lock_priority_list, cond_waiters, argVars>>

SemaUp(s) ==
    /\ Calling("sema_up")
    /\ value[s] < MaxValue
    /\ sema_up(value, s)
    /\ UNCHANGED <<prioVars, sleepVars, in_external_intr, pc, saved,
                   holder, lock_priority_list, cond_waiters, argVars>>

(* Mutant: the handler's sema_up() unblocks nobody.                        *)
IrqSemaUp_no_wake(s) ==
    /\ "irq_sema_up" \in Calls
    /\ ~panic /\ ~in_external_intr
    /\ pc[current] \in InterruptsOn
    /\ value[s] < MaxValue
    /\ value' = [value EXCEPT ![s] = @ + 1]
    /\ pc' = Interrupted
    /\ UNCHANGED <<schedVars, prioVars, sleepVars, in_external_intr, saved, panic,
                   waiters, holder, lock_priority_list, cond_waiters, argVars>>

(* A device interrupt whose handler calls sema_up(s), as the disk's does.  *)
(* The preemption of sema_up() is a thread_yield(), which fails its        *)
(* ASSERT (!intr_context ()).                                              *)
IrqSemaUp(s) ==
    /\ "irq_sema_up" \in Calls
    /\ ~panic /\ ~in_external_intr
    /\ pc[current] \in InterruptsOn
    /\ value[s] < MaxValue
    /\ value' = [value EXCEPT ![s] = @ + 1]
    /\ pc' = Interrupted
    /\ \/ /\ waiters[s] = <<>>
          /\ UNCHANGED <<status, ready_list, waiters, panic>>
       \/ \E i \in DOMAIN waiters[s] :
            LET t == waiters[s][i]
            IN  /\ list_max(waiters[s], priority, i)
                /\ waiters' = [waiters EXCEPT ![s] = list_remove(@, i)]
                /\ status' = [status EXCEPT ![t] = "READY"]
                /\ ready_list' = list_push_back(ready_list, t)
                /\ ASSERT(status[t] = "BLOCKED" /\ priority[t] <= priority[current])
    /\ UNCHANGED <<current, thread_ticks, prioVars, sleepVars, in_external_intr, saved,
                   holder, lock_priority_list, cond_waiters, argVars>>
-----------------------------------------------------------------------------
(* Locks.                                                                  *)

(* Mutant: the record goes to the back of the list.                        *)
lock_acquire_back(l) ==
    /\ holder[l] # current
    /\ ASSERT(~get_new_lock_priority_fails)
    /\ lock_priority_list' = [lock_priority_list EXCEPT ![current] =
            list_push_back(@, [lock |-> l, waiting |-> TRUE, priority |-> priority[current]])]
    /\ sema_arg' = [sema_arg EXCEPT ![current] = l]
    /\ IF holder[l] # Null
       THEN donee' = l /\ pc' = [pc EXCEPT ![current] = "donate"]
       ELSE donee' = Null /\ pc' = [pc EXCEPT ![current] = "down"]
    /\ UNCHANGED <<schedVars, prioVars, sleepVars, in_external_intr, saved,
                   semaVars, holder, cond_waiters, cond_arg>>

(* lock_acquire() up to the donation or, when nobody holds the lock, up to *)
(* the sema_down(): the thread's record for the lock, marked waiting,      *)
(* becomes the front one of its list.                                      *)
lock_acquire(l) ==
    /\ holder[l] # current
    /\ ASSERT(~get_new_lock_priority_fails)
    /\ lock_priority_list' = [lock_priority_list EXCEPT ![current] =
            list_push_front(@, [lock |-> l, waiting |-> TRUE, priority |-> priority[current]])]
    /\ sema_arg' = [sema_arg EXCEPT ![current] = l]
    /\ IF holder[l] # Null
       THEN donee' = l /\ pc' = [pc EXCEPT ![current] = "donate"]
       ELSE donee' = Null /\ pc' = [pc EXCEPT ![current] = "down"]
    /\ UNCHANGED <<schedVars, prioVars, sleepVars, in_external_intr, saved,
                   semaVars, holder, cond_waiters, cond_arg>>

LockAcquire(l) == Calling("lock_acquire") /\ lock_acquire(l)

(* cond_wait() acquires its lock again.                                    *)
CondReacquire == At("reacquire") /\ lock_acquire(CondLock[cond_arg[current]])

(* The records after donate_priority(lock, p): the holder's record for the *)
(* lock is raised to p.                                                    *)
DonatedRecords(list, lock, p) ==
    [i \in DOMAIN list |->
        IF find_lock_priority(list, lock, i) /\ list[i].priority < p
        THEN [list[i] EXCEPT !.priority = p] ELSE list[i]]

(* Mutant: only the record is raised, not the holder.                      *)
donate_priority_record_only ==
    LET h == holder[donee]
    IN  /\ At("donate")
        /\ lock_priority_list' = [lock_priority_list EXCEPT ![h] =
                                     DonatedRecords(@, donee, priority[current])]
        /\ donee' = Null
        /\ pc' = [pc EXCEPT ![current] = "down"]
        /\ UNCHANGED <<schedVars, prioVars, sleepVars, in_external_intr, saved, panic,
                       semaVars, holder, cond_waiters, sema_arg, cond_arg>>

(* One level of donate_priority_recursively(): donate to the holder of     *)
(* donee, and if that raised the holder and the holder itself waits for a  *)
(* lock that is held, go on with that lock.                                *)
donate_priority ==
    LET h       == holder[donee]
        p       == priority[current]
        donated == p > priority[h]
        top     == lock_priority_list[h][1]
        deeper  == donated /\ top.waiting /\ holder[top.lock] # Null
    IN  /\ At("donate")
        /\ \E i \in DOMAIN lock_priority_list[h] :
                find_lock_priority(lock_priority_list[h], donee, i)
        /\ priority' = IF donated THEN [priority EXCEPT ![h] = p] ELSE priority
        /\ lock_priority_list' = [lock_priority_list EXCEPT ![h] = DonatedRecords(@, donee, p)]
        /\ donee' = IF deeper THEN top.lock ELSE Null
        /\ pc' = [pc EXCEPT ![current] = IF deeper THEN "donate" ELSE "down"]
        /\ UNCHANGED <<schedVars, original_priority, sleepVars, in_external_intr, saved, panic,
                       semaVars, holder, cond_waiters, sema_arg, cond_arg>>

(* donate_priority() when the holder has no record for the lock, because   *)
(* it got it from lock_try_acquire(): a null pointer is followed.          *)
donate_priority_fault ==
    /\ At("donate")
    /\ \A i \in DOMAIN lock_priority_list[holder[donee]] :
            ~find_lock_priority(lock_priority_list[holder[donee]], donee, i)
    /\ ASSERT(FALSE)
    /\ UNCHANGED <<schedVars, prioVars, sleepVars, in_external_intr, pc, saved, synchVars>>

(* Mutant: the record is never taken out.                                  *)
lock_release_leak(val, l) ==
    /\ holder[l] = current
    /\ holder' = [holder EXCEPT ![l] = Null]
    /\ sema_up(val, l)
    /\ pc' = [pc EXCEPT ![current] = "released"]
    /\ UNCHANGED <<prioVars, sleepVars, in_external_intr, saved, lock_priority_list,
                   sema_arg, donee>>

(* Mutant: the front record is taken out, whatever lock it is for.         *)
lock_release_front(val, l) ==
    /\ holder[l] = current
    /\ holder' = [holder EXCEPT ![l] = Null]
    /\ lock_priority_list[current] # <<>>
    /\ lock_priority_list' = [lock_priority_list EXCEPT ![current] = list_remove(@, 1)]
    /\ sema_up(val, l)
    /\ pc' = [pc EXCEPT ![current] = "released"]
    /\ UNCHANGED <<prioVars, sleepVars, in_external_intr, saved, sema_arg, donee>>

(* Mutant: the holder is not reset.                                        *)
lock_release_keeps_holder(val, l) ==
    /\ holder[l] = current
    /\ \E i \in DOMAIN lock_priority_list[current] :
        /\ find_lock_priority(lock_priority_list[current], l, i)
        /\ lock_priority_list' = [lock_priority_list EXCEPT ![current] = list_remove(@, i)]
    /\ sema_up(val, l)
    /\ pc' = [pc EXCEPT ![current] = "released"]
    /\ UNCHANGED <<prioVars, sleepVars, in_external_intr, saved, holder, sema_arg, donee>>

(* lock_release() up to and including its sema_up().  A thread releases    *)
(* only locks it holds.                                                    *)
lock_release(val, l) ==
    /\ holder[l] = current
    /\ holder' = [holder EXCEPT ![l] = Null]
    /\ \E i \in DOMAIN lock_priority_list[current] :
        /\ find_lock_priority(lock_priority_list[current], l, i)
        /\ lock_priority_list' = [lock_priority_list EXCEPT ![current] = list_remove(@, i)]
    /\ sema_up(val, l)
    /\ pc' = [pc EXCEPT ![current] = "released"]
    /\ UNCHANGED <<prioVars, sleepVars, in_external_intr, saved, sema_arg, donee>>

LockRelease(l) ==
    /\ Calling("lock_release")
    /\ lock_release(value, l)
    /\ UNCHANGED <<cond_waiters, cond_arg>>

(* lock_release() of a lock that lock_try_acquire() took.                  *)
lock_release_fault(l) ==
    /\ Calling("lock_release")
    /\ holder[l] = current
    /\ \A i \in DOMAIN lock_priority_list[current] :
            ~find_lock_priority(lock_priority_list[current], l, i)
    /\ ASSERT(FALSE)
    /\ UNCHANGED <<schedVars, prioVars, sleepVars, in_external_intr, pc, saved, synchVars>>

(* Mutant: the thread falls back to its original priority, whatever other  *)
(* locks it holds.                                                         *)
lock_release_return_original ==
    /\ At("released")
    /\ priority' = [priority EXCEPT ![current] = original_priority[current]]
    /\ IF priority[current] > original_priority[current]
       THEN thread_yield(status, ready_list, priority')
       ELSE UNCHANGED schedVars
    /\ IF cond_arg[current] # Null
       THEN EnterSemaDown(current)
       ELSE pc' = [pc EXCEPT ![current] = "run"] /\ UNCHANGED sema_arg
    /\ UNCHANGED <<original_priority, sleepVars, in_external_intr, saved, panic,
                   semaVars, holder, lock_priority_list, cond_waiters, cond_arg, donee>>

(* Mutant: the donated priority is kept.                                   *)
lock_release_return_donated ==
    /\ At("released")
    /\ IF cond_arg[current] # Null
       THEN EnterSemaDown(current)
       ELSE pc' = [pc EXCEPT ![current] = "run"] /\ UNCHANGED sema_arg
    /\ UNCHANGED <<schedVars, prioVars, sleepVars, in_external_intr, saved, panic,
                   semaVars, holder, lock_priority_list, cond_waiters, cond_arg, donee>>

(* The rest of lock_release(): the thread falls back to the highest        *)
(* priority it still has a claim to, and yields if that is lower.  Then it *)
(* returns, or, in cond_wait(), goes on to wait for the signal.            *)
lock_release_return ==
    /\ At("released")
    /\ \E p \in Priority :
        /\ PriorityAfterRelease(original_priority[current], lock_priority_list[current], p)
        /\ priority' = [priority EXCEPT ![current] = p]
        /\ IF priority[current] > p
           THEN thread_yield(status, ready_list, priority')
           ELSE UNCHANGED schedVars
    /\ IF cond_arg[current] # Null
       THEN EnterSemaDown(current)
       ELSE pc' = [pc EXCEPT ![current] = "run"] /\ UNCHANGED sema_arg
    /\ UNCHANGED <<original_priority, sleepVars, in_external_intr, saved, panic,
                   semaVars, holder, lock_priority_list, cond_waiters, cond_arg, donee>>

(* Mutant: the semaphore is tested and not taken.                          *)
LockTryAcquire_test_only(l) ==
    /\ Calling("lock_try_acquire")
    /\ holder[l] # current
    /\ value[l] > 0
    /\ pc' = [pc EXCEPT ![current] = "tried"]
    /\ sema_arg' = [sema_arg EXCEPT ![current] = l]
    /\ UNCHANGED <<schedVars, prioVars, sleepVars, in_external_intr, saved, panic,
                   semaVars, holder, lock_priority_list, cond_waiters, cond_arg, donee>>

(* lock_try_acquire(): the value is taken with interrupts off, the holder  *)
(* is set after they are on again, and no record is made.                  *)
LockTryAcquire(l) ==
    /\ Calling("lock_try_acquire")
    /\ holder[l] # current
    /\ value[l] > 0
    /\ value' = [value EXCEPT ![l] = @ - 1]
    /\ pc' = [pc EXCEPT ![current] = "tried"]
    /\ sema_arg' = [sema_arg EXCEPT ![current] = l]
    /\ UNCHANGED <<schedVars, prioVars, sleepVars, in_external_intr, saved, panic,
                   waiters, holder, lock_priority_list, cond_waiters, cond_arg, donee>>

lock_try_acquire_return ==
    /\ At("tried")
    /\ holder' = [holder EXCEPT ![sema_arg[current]] = current]
    /\ pc' = [pc EXCEPT ![current] = "run"]
    /\ sema_arg' = [sema_arg EXCEPT ![current] = Null]
    /\ UNCHANGED <<schedVars, prioVars, sleepVars, in_external_intr, saved, panic,
                   semaVars, lock_priority_list, cond_waiters, cond_arg, donee>>
-----------------------------------------------------------------------------
(* Condition variables.                                                    *)

(* cond_wait() up to the first half of its lock_release(), which can       *)
(* already give up the CPU.                                                *)
CondWait(c) ==
    /\ Calling("cond_wait")
    /\ cond_waiters' = [cond_waiters EXCEPT ![c] = list_push_back(@, current)]
    /\ cond_arg' = [cond_arg EXCEPT ![current] = c]
    /\ lock_release([value EXCEPT ![current] = 0], CondLock[c])

(* Mutant: the first waiter is taken off the list and the one of highest   *)
(* priority is signalled.                                                  *)
cond_signal_front(c) ==
    /\ holder[CondLock[c]] = current
    /\ \E i \in DOMAIN cond_waiters[c] :
        /\ list_max(cond_waiters[c], priority, i)
        /\ cond_waiters' = [cond_waiters EXCEPT ![c] = list_remove(@, 1)]
        /\ sema_up(value, cond_waiters[c][i])
    /\ UNCHANGED <<prioVars, sleepVars, in_external_intr, pc, saved,
                   holder, lock_priority_list, argVars>>

(* cond_signal() with a thread waiting: the one of highest priority goes.  *)
cond_signal(c) ==
    /\ holder[CondLock[c]] = current
    /\ \E i \in DOMAIN cond_waiters[c] :
        /\ list_max(cond_waiters[c], priority, i)
        /\ cond_waiters' = [cond_waiters EXCEPT ![c] = list_remove(@, i)]
        /\ sema_up(value, cond_waiters[c][i])
    /\ UNCHANGED <<prioVars, sleepVars, in_external_intr, pc, saved,
                   holder, lock_priority_list, argVars>>

CondSignal(c) == Calling("cond_signal") /\ cond_signal(c)

CondBroadcast(c) ==
    /\ Calling("cond_broadcast")
    /\ holder[CondLock[c]] = current
    /\ pc' = [pc EXCEPT ![current] = "broadcast"]
    /\ cond_arg' = [cond_arg EXCEPT ![current] = c]
    /\ UNCHANGED <<schedVars, prioVars, sleepVars, in_external_intr, saved, panic,
                   semaVars, holder, lock_priority_list, cond_waiters, sema_arg, donee>>

cond_broadcast_signal == At("broadcast") /\ cond_signal(cond_arg[current])

cond_broadcast_return ==
    /\ At("broadcast")
    /\ cond_waiters[cond_arg[current]] = <<>>
    /\ pc' = [pc EXCEPT ![current] = "run"]
    /\ cond_arg' = [cond_arg EXCEPT ![current] = Null]
    /\ UNCHANGED <<schedVars, prioVars, sleepVars, in_external_intr, saved, panic,
                   semaVars, holder, lock_priority_list, cond_waiters, sema_arg, donee>>
-----------------------------------------------------------------------------
(* A thread exits only when it holds no lock.                              *)
ThreadExit ==
    /\ \A l \in Lock : holder[l] # current
    /\ thread_exit
    /\ UNCHANGED synchVars

ThreadSetPriorityReturn ==
    /\ thread_set_priority_return(lock_priority_list[current] # <<>>)
    /\ UNCHANGED synchVars

SemaphoreStep ==
    \/ \E s \in Semaphore : SemaDown(s) \/ SemaTryDown(s) \/ SemaUp(s)
    \/ \E s \in IrqSemaphore : IrqSemaUp(s)
    \/ sema_down_wait
    \/ sema_down_return

LockStep ==
    \/ \E l \in Lock : LockAcquire(l) \/ LockRelease(l) \/ LockTryAcquire(l) \/ lock_release_fault(l)
    \/ donate_priority
    \/ donate_priority_fault
    \/ lock_release_return
    \/ lock_try_acquire_return

ConditionStep ==
    \/ \E c \in Condition : CondWait(c) \/ CondSignal(c) \/ CondBroadcast(c)
    \/ CondReacquire
    \/ cond_broadcast_signal
    \/ cond_broadcast_return

Next ==
    \/ ThreadStep /\ UNCHANGED synchVars
    \/ ThreadSetPriorityReturn
    \/ ThreadExit
    \/ SemaphoreStep
    \/ LockStep
    \/ ConditionStep

Spec == Init /\ [][Next]_vars
-----------------------------------------------------------------------------
(* Properties.                                                             *)

(* A kernel ASSERT fails or a null pointer is followed in no reachable     *)
(* state: thread_unblock() is only given blocked threads, a holder has a   *)
(* record for each lock it is asked to pass a donation through, and        *)
(* lock_priority_page is not exhausted.                                    *)
NoPanic == ~panic

(* The comment on struct thread's elem: only a thread in the ready state   *)
(* is on the run queue, only a blocked one on a wait list, and on one list *)
(* at a time.  Conversely no thread is lost: a ready thread is on the run  *)
(* queue, a blocked one on a wait list or on sleep_list; the idle thread   *)
(* alone is on neither.                                                    *)
ListsMatchStatus ==
    /\ \A t \in Thread : status[t] = "RUNNING" <=> t = current
    /\ Distinct(ready_list) /\ Distinct(sleep_list)
    /\ Elems(ready_list) = {t \in Thread : status[t] = "READY"} \ {Idle}
    /\ \A s \in Sema : Distinct(waiters[s])
    /\ \A s1, s2 \in Sema : s1 # s2 => Elems(waiters[s1]) \cap Elems(waiters[s2]) = {}
    /\ \A s \in Sema : Elems(waiters[s]) \cap Elems(sleep_list) = {}
    /\ Elems(sleep_list) \cup UNION {Elems(waiters[s]) : s \in Sema}
           = {t \in Thread : status[t] = "BLOCKED"} \ {Idle}

(* Mutual exclusion: a thread that has returned from lock_acquire() and    *)
(* not yet called lock_release(), which is what a record not waiting says, *)
(* is the lock's one holder, and the lock's semaphore is binary and taken  *)
(* exactly while somebody holds the lock.                                  *)
MutualExclusion ==
    \A l \in Lock :
        /\ value[l] = IF holder[l] = Null THEN 1 ELSE 0
        /\ \A t \in Thread :
            holder[l] = t <=> \E i \in DOMAIN lock_priority_list[t] :
                                 /\ lock_priority_list[t][i].lock = l
                                 /\ ~lock_priority_list[t][i].waiting

(* The same of the semaphore alone, for instances that call                *)
(* lock_try_acquire(): a lock is free, or held, or taken by the one thread *)
(* that has yet to name itself the holder.                                 *)
OneOwner ==
    \A l \in Lock :
        LET trying == {t \in Thread : pc[t] = "tried" /\ sema_arg[t] = l}
        IN  value[l] + Cardinality(trying) + (IF holder[l] = Null THEN 0 ELSE 1) = 1

(* A thread has at most one record for a lock, and a record marked waiting *)
(* is the front one of a thread inside lock_acquire() for that very lock:  *)
(* this is what lets donate_priority_recursively() follow the front record *)
(* of a holder, and only that one.                                         *)
FrontRecordIsWaiting ==
    \A t \in Thread : LET list == lock_priority_list[t] IN
        /\ \A i, j \in DOMAIN list : list[i].lock = list[j].lock => i = j
        /\ \A i \in DOMAIN list :
              list[i].waiting <=> i = 1 /\ pc[t] \in {"donate", "down"} /\ sema_arg[t] = list[i].lock

(* The threads that have been woken for semaphore s, or have not waited    *)
(* yet, and are about to test its value.                                   *)
AboutToDown(s) ==
    {t \in Thread : /\ status[t] \in {"READY", "RUNNING"}
                    /\ pc[t] \in {"donate", "down"} /\ sema_arg[t] = s}

(* No wakeup is lost: while threads wait for a semaphore, every unit of    *)
(* its value is matched by a thread on its way to take it, even when units *)
(* are taken by threads that never waited.                                 *)
NoLostWakeup ==
    \A s \in Sema : waiters[s] # <<>> => value[s] <= Cardinality(AboutToDown(s))

(* No signal is lost: a thread in cond_wait() that has not been signalled  *)
(* is on the list of that condition, and one that has been taken off the   *)
(* list finds its own semaphore upped, however lock_release() and          *)
(* sema_down() inside cond_wait() were interleaved with the signal.        *)
SignalNotLost ==
    \A t \in Thread :
        LET waits == /\ cond_arg[t] # Null
                     /\ pc[t] = "released" \/ (pc[t] = "down" /\ sema_arg[t] = t)
            on    == {c \in Condition : t \in Elems(cond_waiters[c])}
        IN  /\ on = IF waits /\ value[t] = 0 THEN {cond_arg[t]} ELSE {}
            /\ value[t] > 0 => waits /\ value[t] = 1 /\ waiters[t] = <<>>

(* The effective priority never falls below the original one or below any  *)
(* priority recorded for a lock the thread holds or waits for, other than  *)
(* inside thread_set_priority().                                           *)
PriorityDominates ==
    \A t \in Thread : status[t] \notin {"NONE", "DYING"} =>
        /\ pc[t] # "set_priority" => priority[t] >= original_priority[t]
        /\ \A i \in DOMAIN lock_priority_list[t] :
              lock_priority_list[t][i].priority <= priority[t]

(* "If it has released all locks and hence no longer have any              *)
(* lock_priorities, its original priority will be the new effective        *)
(* priority": a thread in its own code holding no lock has no donation.    *)
DonationReturned ==
    \A t \in Thread : pc[t] = "run" /\ lock_priority_list[t] = <<>>
                         => priority[t] = original_priority[t]

(* One record per held lock and one per waiting thread: this is how many   *)
(* lock_priority_page has to have room for.                                *)
RecordsBounded ==
    Cardinality(RecordsInUse) <= Cardinality({l \in Lock : holder[l] # Null})
                                 + Cardinality({t \in Thread : pc[t] \in {"donate", "down"}})

(* timer_sleep() suspends a thread "until time has advanced by at least    *)
(* TICKS timer ticks", and thread_tick() lets nobody sleep past that: out  *)
(* of the handler, the sleeping threads are those with ticks left.         *)
SleepersOnTime ==
    ~in_external_intr => \A t \in Thread : t \in Elems(sleep_list) <=> sleep_left[t] > 0

(* The scheduler's promise: no ready thread has a higher priority than the *)
(* thread running in its own code.                                         *)
HighestRuns ==
    ~in_external_intr /\ pc[current] \in {"run", "broadcast", "tried"} =>
        \A t \in Elems(ready_list) : priority[t] <= priority[current]

(* "the holder of LOCK has a higher effective priority, and it would have  *)
(* already donated that priority to any lock it's waiting on": the holder  *)
(* of a lock has at least the priority of each thread waiting for it.      *)
DonationCoversWaiters ==
    pc[current] # "donate" =>
        \A l \in Lock : holder[l] # Null =>
            \A t \in Elems(waiters[l]) : priority[t] <= priority[holder[l]]

(* Where threads may be: the idle thread never calls the kernel; an        *)
(* interrupt only finds a thread where interrupts are on; a donation is    *)
(* under way for the running thread only, through a lock that is held; and *)
(* a thread inside a call has the call's argument at hand.                 *)
PlacesOK ==
    /\ status[Idle] \notin {"NONE", "DYING"}
    /\ \A t \in Thread : pc[t] \in {"hlt", "loop"} <=> t = Idle
    /\ in_external_intr => pc[current] \in InterruptsOn
    /\ \A t \in Thread : pc[t] = "donate" =>
          t = current /\ donee \in Lock /\ holder[donee] \in Thread /\ sema_arg[t] \in Lock
    /\ \A t \in Thread : pc[t] \in {"donate", "down"} => sema_arg[t] \in Sema
    /\ \A t \in Thread : pc[t] = "down" /\ sema_arg[t] = t => cond_arg[t] \in Condition
    /\ \A t \in Thread : pc[t] \in {"reacquire", "broadcast"} => cond_arg[t] \in Condition

(* "and the current thread is holding locks, then the effective priority   *)
(* isn't changed and is kept the same as the highest donated priority":    *)
(* thread_set_priority() to a lower priority leaves a lock holder's        *)
(* effective priority alone.                                               *)
SetPriorityKeepsDonation ==
    [][At("set_priority") /\ lock_priority_list[current] # <<>>
         => priority'[current] >= priority[current]]_<<pc, priority>>
-----------------------------------------------------------------------------
(* Locks implement LockSpec: a lock is owned by its holder and wanted by   *)
(* the threads whose record for it is marked waiting.                      *)
LockAbstraction ==
    INSTANCE LockSpec WITH
        owner <- holder,
        wanting <- [l \in Lock |->
                      {t \in Thread : \E i \in DOMAIN lock_priority_list[t] :
                          /\ lock_priority_list[t][i].lock = l
                          /\ lock_priority_list[t][i].waiting}]

ImplementsLockSpec == LockAbstraction!Spec
-----------------------------------------------------------------------------
(* Liveness.                                                               *)

(* The thread t, inside the kernel and with the CPU, takes its next step:  *)
(* the code there has no loop that waits without blocking.  A thread in    *)
(* its own code need not call the kernel again.                            *)
Continue(t) ==
    /\ current = t /\ ~in_external_intr /\ pc[t] # "run"
    /\ Next
    /\ ~in_external_intr'

Handle == in_external_intr /\ Next

(* A pending timer interrupt is taken when interrupts are on: the          *)
(* interrupt controller keeps it pending while they are off.               *)
TimerFires == timer_interrupt /\ UNCHANGED synchVars

(* Fairness is strong where interrupts can come between: a thread makes    *)
(* some progress between two ticks, and ticks come between its steps.      *)
FairSpec ==
    /\ Spec
    /\ WF_vars(Handle)
    /\ SF_vars(TimerFires)
    /\ \A t \in Thread : SF_vars(Continue(t))

(* Every sleeping thread is eventually taken off sleep_list.               *)
SleepersWake ==
    \A t \in Thread : (t \in Elems(sleep_list)) ~> (t \notin Elems(sleep_list))

(* A ready thread whose priority stays above all others' gets the CPU at   *)
(* the end of the running thread's time slice, if not earlier.             *)
Urgent(t) == /\ status[t] = "READY"
             /\ \A u \in Thread \ {t} : priority[u] < priority[t]

UrgentNotStarved == \A t \in Thread : []<>~Urgent(t)

(* A thread that holds a lock and has the CPU again and again releases it. *)
HoldersRelease == SF_vars(\E l \in Lock : LockRelease(l))

(* Priority inversion is bounded: if holders release their locks, the      *)
(* thread of highest original priority that asks for a lock gets it,       *)
(* however long threads of middle priority keep the CPU busy.              *)
Foremost(t) == \A u \in Thread \ {t} : original_priority[u] < original_priority[t]

ForemostGetsLock ==
    HoldersRelease =>
        \A t \in Thread, l \in Lock :
            (pc[t] \in {"donate", "down"} /\ sema_arg[t] = l)
                ~> (holder[l] = t \/ ~Foremost(t))
=============================================================================
