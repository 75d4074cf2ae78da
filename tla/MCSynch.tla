------------------------------ MODULE MCSynch ------------------------------
(***************************************************************************)
(* Instances of module Synch for TLC.                                      *)
(***************************************************************************)
EXTENDS Synch, TLC

CONSTANTS main, idle_t, a, b, c, l1, l2, s1, c1

MCThread4 == {main, idle_t, a, b}
MCThread5 == {main, idle_t, a, b, c}

MCCondLock == [x \in Condition |-> l1]

(* Threads other than main and idle are interchangeable.                   *)
MCSymmetry4 == Permutations({a, b})
MCSymmetry5 == Permutations({a, b, c})

LockCalls == {"thread_create", "thread_exit", "lock_acquire", "lock_release"}
SleepCalls == LockCalls \cup {"timer_sleep"}
PriorityCalls == LockCalls \cup {"thread_set_priority", "thread_yield"}
PrimitiveCalls == PriorityCalls \cup {"cond_wait", "cond_signal", "cond_broadcast", "sema_down",
                                      "sema_up", "sema_try_down", "irq_sema_up",
                                      "lock_try_acquire"}
IrqCalls == {"thread_create", "sema_down", "irq_sema_up"}
=============================================================================
