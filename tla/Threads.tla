------------------------------ MODULE Threads ------------------------------
(***************************************************************************)
(* Kernel threads (threads/thread.c) and the timer that drives them        *)
(* (devices/timer.c), on the one CPU the kernel runs on, from the moment   *)
(* main() has called thread_start() and synch_init().                      *)
(*                                                                         *)
(* A thread is named by the page its struct thread lives in.  Code that    *)
(* runs with interrupts off is one step, or several steps in which only    *)
(* the running thread can move.  pc[t] is the place in the kernel where t  *)
(* continues when it next has the CPU:                                     *)
(*   "run"           in its own code, about to make a kernel call          *)
(*   "set_priority"  in thread_set_priority(), old_priority read           *)
(*   "created"       in thread_create(), the new thread is on ready_list   *)
(*   "hlt", "loop"   the idle thread, halted and about to block again      *)
(* The other values belong to module Synch.                                *)
(***************************************************************************)
EXTENDS KernelList

CONSTANTS Thread,      \* the pages that can hold a struct thread
          Main, Idle,  \* initial_thread and idle_thread
          PRI_MIN, PRI_MAX, PRI_DEFAULT,
          TIME_SLICE,  \* ticks a thread may run before it is preempted
          MaxSleep,    \* bound: the longest timer_sleep() a thread asks for
          Calls        \* the kernel calls the threads of an instance make

ASSUME ThreadAssumption ==
    /\ Main \in Thread /\ Idle \in Thread /\ Main # Idle
    /\ PRI_MIN \in Int /\ PRI_MAX \in Int /\ PRI_DEFAULT \in PRI_MIN .. PRI_MAX
    /\ TIME_SLICE \in Nat \ {0}
    /\ MaxSleep \in Nat

Priority == PRI_MIN .. PRI_MAX

(* "NONE" is the status of a page that holds no thread.                    *)
Status == {"RUNNING", "READY", "BLOCKED", "DYING", "NONE"}

VARIABLES
    current,            \* the thread that has the CPU
    status,             \* struct thread
    ready_list,
    thread_ticks,       \* ticks since the last thread switch
    original_priority, priority,
    sleep_list,
    sleep_left,         \* awake_tick minus the ticks that have passed
    in_external_intr,   \* an external interrupt is being handled
    pc,
    saved,              \* a priority held in a local variable over a preemption
    panic               \* an ASSERT failed or a null pointer was followed

schedVars == <<current, status, ready_list, thread_ticks>>
prioVars  == <<original_priority, priority>>
sleepVars == <<sleep_list, sleep_left>>
threadVars == <<schedVars, prioVars, sleepVars, in_external_intr, pc, saved, panic>>

(* Places where interrupts are on.                                         *)
InterruptsOn == {"run", "set_priority", "created", "broadcast", "tried", "hlt", "loop"}

ThreadTypeOK ==
    /\ current \in Thread
    /\ status \in [Thread -> Status]
    /\ ready_list \in Seq(Thread)
    /\ thread_ticks \in 0 .. TIME_SLICE - 1
    /\ original_priority \in [Thread -> Priority]
    /\ priority \in [Thread -> Priority]
    /\ sleep_list \in Seq(Thread)
    /\ sleep_left \in [Thread -> 0 .. MaxSleep]
    /\ in_external_intr \in BOOLEAN
    /\ saved \in [Thread -> Priority]
    /\ panic \in BOOLEAN
-----------------------------------------------------------------------------
(* main() is running, the idle thread has blocked for the first time.      *)
ThreadInit ==
    /\ current = Main
    /\ status = [t \in Thread |-> IF t = Main THEN "RUNNING"
                                  ELSE IF t = Idle THEN "BLOCKED" ELSE "NONE"]
    /\ ready_list = <<>>
    /\ thread_ticks = 0
    /\ original_priority = [t \in Thread |-> IF t = Main THEN PRI_DEFAULT ELSE PRI_MIN]
    /\ priority = original_priority
    /\ sleep_list = <<>>
    /\ sleep_left = [t \in Thread |-> 0]
    /\ in_external_intr = FALSE
    /\ pc = [t \in Thread |-> IF t = Idle THEN "hlt" ELSE "run"]
    /\ saved = [t \in Thread |-> PRI_MIN]
    /\ panic = FALSE

(* The code being run executes ASSERT (cond).                              *)
ASSERT(cond) == panic' = ~cond

(* schedule() and thread_schedule_tail(), with the caller's changes to the *)
(* statuses, the ready list and the priorities already made: switch to     *)
(* next_thread_to_run(), start its time slice, and free the page of the    *)
(* thread switched from if it is dying.                                    *)
schedule(st, rl, prio) ==
    \E next \in Thread :
        /\ \/ rl = <<>> /\ next = Idle /\ ready_list' = rl
           \/ \E i \in DOMAIN rl : /\ list_max(rl, prio, i)
                                   /\ next = rl[i]
                                   /\ ready_list' = list_remove(rl, i)
        /\ current' = next
        /\ status' = [t \in Thread |->
                        IF t = next THEN "RUNNING"
                        ELSE IF t = current /\ st[t] = "DYING" /\ t # Main
                             THEN "NONE" ELSE st[t]]
        /\ thread_ticks' = 0

(* The running thread calls thread_yield() in a kernel state with statuses *)
(* st, ready list rl and priorities prio.                                  *)
thread_yield(st, rl, prio) ==
    schedule([st EXCEPT ![current] = "READY"],
             IF current = Idle THEN rl ELSE list_push_back(rl, current),
             prio)

(* The running thread calls thread_block().                                *)
thread_block == schedule([status EXCEPT ![current] = "BLOCKED"], ready_list, priority)

(* The running thread is in its own code and makes the kernel call c.      *)
Calling(c) ==
    /\ ~panic /\ ~in_external_intr
    /\ pc[current] = "run"
    /\ c \in Calls

(* The running thread continues at place p, and no interrupt intervenes.   *)
At(p) == ~panic /\ ~in_external_intr /\ pc[current] = p
-----------------------------------------------------------------------------
(* Operations of thread.c that a thread calls.                             *)

Yield ==
    /\ Calling("thread_yield")
    /\ thread_yield(status, ready_list, priority)
    /\ UNCHANGED <<prioVars, sleepVars, in_external_intr, pc, saved, panic>>

(* thread_create() of a thread with priority p in the free page t, up to   *)
(* the comparison of priorities.  The locks that palloc_get_page() and     *)
(* allocate_tid() take and release on the way are locks of module Synch,   *)
(* taken and released in steps of their own.  A failing palloc_get_page()  *)
(* changes nothing.                                                        *)
thread_create(t, p) ==
    /\ Calling("thread_create")
    /\ status[t] = "NONE"
    /\ status' = [status EXCEPT ![t] = "READY"]
    /\ ready_list' = list_push_back(ready_list, t)
    /\ original_priority' = [original_priority EXCEPT ![t] = p]
    /\ priority' = [priority EXCEPT ![t] = p]
    /\ pc' = [pc EXCEPT ![current] = "created", ![t] = "run"]
    /\ saved' = [saved EXCEPT ![current] = p]
    /\ UNCHANGED <<current, thread_ticks, sleepVars, in_external_intr, panic>>

(* Mutant: the creating thread never gives way to the new one.             *)
thread_create_return_no_yield ==
    /\ At("created")
    /\ pc' = [pc EXCEPT ![current] = "run"]
    /\ saved' = [saved EXCEPT ![current] = PRI_MIN]
    /\ UNCHANGED <<schedVars, prioVars, sleepVars, in_external_intr, panic>>

(* The rest of thread_create(): a new thread of higher priority runs first. *)
thread_create_return ==
    /\ At("created")
    /\ IF saved[current] > priority[current]
       THEN thread_yield(status, ready_list, priority)
       ELSE UNCHANGED schedVars
    /\ pc' = [pc EXCEPT ![current] = "run"]
    /\ saved' = [saved EXCEPT ![current] = PRI_MIN]
    /\ UNCHANGED <<prioVars, sleepVars, in_external_intr, panic>>

(* The page is freed by the thread that runs next, so what it holds is of  *)
(* no further interest and its priorities are set to a fixed value.        *)
thread_exit ==
    /\ Calling("thread_exit")
    /\ schedule([status EXCEPT ![current] = "DYING"], ready_list, priority)
    /\ original_priority' = [original_priority EXCEPT ![current] = PRI_MIN]
    /\ priority' = [priority EXCEPT ![current] = PRI_MIN]
    /\ UNCHANGED <<sleepVars, in_external_intr, pc, saved, panic>>

(* thread_set_priority() runs with interrupts on: its first half writes    *)
(* original_priority and reads the effective priority into a local ...     *)
thread_set_priority(new_priority) ==
    /\ Calling("thread_set_priority")
    /\ original_priority' = [original_priority EXCEPT ![current] = new_priority]
    /\ saved' = [saved EXCEPT ![current] = priority[current]]
    /\ pc' = [pc EXCEPT ![current] = "set_priority"]
    /\ UNCHANGED <<schedVars, priority, sleepVars, in_external_intr, panic>>

(* Mutant: a lower priority never becomes the effective one.               *)
thread_set_priority_return_raise_only(holdsRecord) ==
    LET new_priority == original_priority[current]
    IN  /\ At("set_priority")
        /\ priority' = IF saved[current] <= new_priority
                       THEN [priority EXCEPT ![current] = new_priority]
                       ELSE priority
        /\ UNCHANGED schedVars
        /\ pc' = [pc EXCEPT ![current] = "run"]
        /\ saved' = [saved EXCEPT ![current] = PRI_MIN]
        /\ UNCHANGED <<original_priority, sleepVars, in_external_intr, panic>>

(* ... and its second half uses that local.  holdsRecord says whether the  *)
(* thread's lock_priority_list is not empty.  Interrupts are on throughout *)
(* but a preemption after the assignment only makes the thread yield once  *)
(* more.                                                                   *)
thread_set_priority_return(holdsRecord) ==
    LET old_priority == saved[current]
        new_priority == original_priority[current]
    IN  /\ At("set_priority")
        /\ priority' = IF old_priority <= new_priority \/ ~holdsRecord
                       THEN [priority EXCEPT ![current] = new_priority]
                       ELSE priority
        /\ IF old_priority > new_priority
           THEN thread_yield(status, ready_list, priority')
           ELSE UNCHANGED schedVars
        /\ pc' = [pc EXCEPT ![current] = "run"]
        /\ saved' = [saved EXCEPT ![current] = PRI_MIN]
        /\ UNCHANGED <<original_priority, sleepVars, in_external_intr, panic>>

(* timer_sleep() and thread_sleep(); a sleep of no ticks returns at once.  *)
timer_sleep(n) ==
    /\ Calling("timer_sleep")
    /\ n > 0
    /\ sleep_left' = [sleep_left EXCEPT ![current] = n]
    /\ sleep_list' = list_push_back(sleep_list, current)
    /\ thread_block
    /\ UNCHANGED <<prioVars, in_external_intr, pc, saved, panic>>

(* One turn of the loop of idle(): it was interrupted in "hlt", blocks,    *)
(* and when it is scheduled again it halts.                                *)
idle ==
    /\ At("loop")
    /\ thread_block
    /\ pc' = [pc EXCEPT ![Idle] = "hlt"]
    /\ UNCHANGED <<prioVars, sleepVars, in_external_intr, saved, panic>>
-----------------------------------------------------------------------------
(* The timer interrupt.  No thread runs while it is handled.               *)

(* Mutant: a thread is woken one tick too early.                           *)
Due_early(t) == sleep_left[t] <= 1

(* A sleeping thread is due when current_tick >= awake_tick.               *)
Due(t) == sleep_left[t] = 0

(* Where the interrupted thread continues: "hlt" ends.                     *)
Interrupted == [pc EXCEPT ![current] = IF @ = "hlt" THEN "loop" ELSE @]

(* Mutant: ticks are not counted while the idle thread runs.               *)
timer_interrupt_not_idle ==
    /\ ~panic /\ ~in_external_intr
    /\ pc[current] \in InterruptsOn
    /\ in_external_intr' = TRUE
    /\ sleep_left' = [t \in Thread |-> IF sleep_left[t] > 0 /\ current # Idle
                                      THEN sleep_left[t] - 1 ELSE sleep_left[t]]
    /\ pc' = Interrupted
    /\ UNCHANGED <<schedVars, prioVars, sleep_list, saved, panic>>

timer_interrupt ==
    /\ ~panic /\ ~in_external_intr
    /\ pc[current] \in InterruptsOn
    /\ in_external_intr' = TRUE
    /\ sleep_left' = [t \in Thread |-> IF sleep_left[t] > 0 THEN sleep_left[t] - 1 ELSE 0]
    /\ pc' = Interrupted
    /\ UNCHANGED <<schedVars, prioVars, sleep_list, saved, panic>>

(* thread_tick(): the scan of sleep_list takes out the next thread that is *)
(* due and unblocks it.                                                    *)
thread_tick_wake ==
    /\ ~panic /\ in_external_intr
    /\ \E i \in DOMAIN sleep_list :
        /\ Due(sleep_list[i])
        /\ \A j \in DOMAIN sleep_list : j < i => ~Due(sleep_list[j])
        /\ sleep_list' = list_remove(sleep_list, i)
        /\ ASSERT(status[sleep_list[i]] = "BLOCKED")
        /\ ready_list' = list_push_back(ready_list, sleep_list[i])
        /\ status' = [status EXCEPT ![sleep_list[i]] = "READY"]
    /\ UNCHANGED <<current, thread_ticks, prioVars, sleep_left, in_external_intr, pc, saved>>

(* Mutant: the slice is compared before the tick is counted.               *)
thread_tick_return_late ==
    /\ ~panic /\ in_external_intr
    /\ \A i \in DOMAIN sleep_list : ~Due(sleep_list[i])
    /\ in_external_intr' = FALSE
    /\ IF thread_ticks >= TIME_SLICE
       THEN thread_yield(status, ready_list, priority)
       ELSE /\ thread_ticks' = thread_ticks + 1
            /\ UNCHANGED <<current, status, ready_list>>
    /\ UNCHANGED <<prioVars, sleepVars, pc, saved, panic>>

(* Mutant: the end of the slice is noticed but nobody is preempted.        *)
thread_tick_return_no_yield ==
    /\ ~panic /\ in_external_intr
    /\ \A i \in DOMAIN sleep_list : ~Due(sleep_list[i])
    /\ in_external_intr' = FALSE
    /\ thread_ticks' = (thread_ticks + 1) % TIME_SLICE
    /\ UNCHANGED <<current, status, ready_list, prioVars, sleepVars, pc, saved, panic>>

(* The end of thread_tick() and of intr_handler(): the running thread is   *)
(* preempted when its time slice is used up.                               *)
thread_tick_return ==
    /\ ~panic /\ in_external_intr
    /\ \A i \in DOMAIN sleep_list : ~Due(sleep_list[i])
    /\ in_external_intr' = FALSE
    /\ IF thread_ticks + 1 >= TIME_SLICE
       THEN thread_yield(status, ready_list, priority)
       ELSE /\ thread_ticks' = thread_ticks + 1
            /\ UNCHANGED <<current, status, ready_list>>
    /\ UNCHANGED <<prioVars, sleepVars, pc, saved, panic>>

Tick == timer_interrupt \/ thread_tick_wake \/ thread_tick_return

ThreadStep ==
    \/ Yield
    \/ \E t \in Thread, p \in Priority : thread_create(t, p)
    \/ thread_create_return
    \/ \E p \in Priority : thread_set_priority(p)
    \/ \E n \in 1 .. MaxSleep : timer_sleep(n)
    \/ idle
    \/ Tick
=============================================================================
