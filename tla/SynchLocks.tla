----------------------------- MODULE SynchLocks -----------------------------
(***************************************************************************)
(* What the list operations of module KernelList do to the elements of a   *)
(* list of any length; the proof that module Synch keeps the types of its  *)
(* variables and the places of its threads, for any number of threads,     *)
(* locks, semaphores, conditions and priorities; and the proof that the    *)
(* kernel's lists and the threads' statuses agree: no thread is on two     *)
(* lists, and none is lost.                                                *)
(*                                                                         *)
(* Then the proof that locks exclude each other's holders, and that they   *)
(* implement LockSpec, as long as nobody calls lock_try_acquire(): no code *)
(* of the kernel does.  The argument follows the lock_priority records:    *)
(* every step leaves them and the holders alone, or asks for a lock, or    *)
(* obtains it, or gives it back, and each of these keeps records, holders  *)
(* and semaphores in agreement.                                            *)
(***************************************************************************)
EXTENDS Synch, SequenceTheorems, TLAPS


(* list_push_back() adds its element to those of the list, at the back.    *)
LEMMA PushBackElems ==
    ASSUME NEW S, NEW list \in Seq(S), NEW elem \in S
    PROVE  /\ list_push_back(list, elem) \in Seq(S)
           /\ Elems(list_push_back(list, elem)) = Elems(list) \cup {elem}
           /\ Distinct(list) /\ elem \notin Elems(list) => Distinct(list_push_back(list, elem))
<1> DEFINE new == list_push_back(list, elem)
<1>1. /\ new \in Seq(S) /\ Len(new) = Len(list) + 1
      /\ \A i \in 1 .. Len(list) : new[i] = list[i]
      /\ new[Len(list) + 1] = elem
      /\ DOMAIN list = 1 .. Len(list) /\ DOMAIN new = 1 .. Len(list) + 1
      /\ Len(list) \in Nat
  BY DEF list_push_back
<1> HIDE DEF new
<1>2. Elems(new) = Elems(list) \cup {elem}
  BY <1>1 DEF Elems
<1>3. Distinct(list) /\ elem \notin Elems(list) => Distinct(new)
  BY <1>1 DEF Elems, Distinct
<1> QED
  BY <1>1, <1>2, <1>3 DEF new

(* So it does with a thread and a list of threads.                         *)
LEMMA PushThread ==
    ASSUME NEW list \in Seq(Thread), NEW t \in Thread
    PROVE  Elems(list_push_back(list, t)) = Elems(list) \cup {t}
  BY PushBackElems, SMT

(* list_push_front() puts its element before those of the list, whose      *)
(* positions shift by one.                                                 *)
LEMMA PushFrontShifts ==
    ASSUME NEW S, NEW list \in Seq(S), NEW elem \in S
    PROVE  /\ list_push_front(list, elem) \in Seq(S)
           /\ DOMAIN list_push_front(list, elem) = 1 .. Len(list) + 1
           /\ DOMAIN list = 1 .. Len(list) /\ Len(list) \in Nat
           /\ list_push_front(list, elem)[1] = elem
           /\ \A i \in 1 .. Len(list) + 1 :
                 i # 1 => list_push_front(list, elem)[i] = list[i - 1]
<1>1. /\ <<elem>> \in Seq(S) /\ Len(<<elem>>) = 1 /\ <<elem>>[1] = elem
      /\ DOMAIN list = 1 .. Len(list) /\ Len(list) \in Nat
  OBVIOUS
<1> DEFINE one == <<elem>>
<1> HIDE DEF one
<1>2. /\ one \o list \in Seq(S) /\ Len(one \o list) = 1 + Len(list)
      /\ \A i \in 1 .. 1 + Len(list) :
            (one \o list)[i] = IF i <= 1 THEN one[i] ELSE list[i - 1]
  BY <1>1, ConcatProperties DEF one
<1>3. DOMAIN (one \o list) = 1 .. Len(list) + 1
  BY <1>1, <1>2
<1>4. (one \o list)[1] = elem
  BY <1>1, <1>2 DEF one
<1>5. \A i \in 1 .. Len(list) + 1 : i # 1 => (one \o list)[i] = list[i - 1]
  BY <1>1, <1>2
<1> QED
  BY <1>1, <1>2, <1>3, <1>4, <1>5, Zenon DEF list_push_front, one

(* list_remove() takes out the element at a position and keeps the order   *)
(* of the others.                                                          *)
LEMMA RemoveAtPositions ==
    ASSUME NEW S, NEW list \in Seq(S), NEW i \in DOMAIN list
    PROVE  /\ list_remove(list, i) \in Seq(S)
           /\ Len(list_remove(list, i)) = Len(list) - 1
           /\ \A j \in 1 .. Len(list) - 1 :
                 list_remove(list, i)[j] = IF j < i THEN list[j] ELSE list[j + 1]
<1> DEFINE front == SubSeq(list, 1, i - 1)
           back  == SubSeq(list, i + 1, Len(list))
<1>1. Len(list) \in Nat /\ i \in 1 .. Len(list)
  OBVIOUS
<1>2. /\ front \in Seq(S) /\ Len(front) = i - 1
      /\ \A j \in 1 .. i - 1 : front[j] = list[j]
  BY <1>1
<1>3. /\ back \in Seq(S) /\ Len(back) = Len(list) - i
      /\ \A j \in 1 .. Len(list) - i : back[j] = list[i + j]
  BY <1>1
<1>4. list_remove(list, i) = front \o back
  BY DEF list_remove
<1> HIDE DEF front, back
<1>5. front \o back \in Seq(S) /\ Len(front \o back) = Len(list) - 1
  BY <1>1, <1>2, <1>3
<1>6. ASSUME NEW j \in 1 .. Len(list) - 1
      PROVE  (front \o back)[j] = IF j < i THEN list[j] ELSE list[j + 1]
  <2>1. CASE j < i
    BY <1>1, <1>2, <1>3, <2>1
  <2>2. CASE ~(j < i)
    <3>1. j \in 1 .. Len(front) + Len(back) /\ ~(j <= Len(front))
      BY <1>1, <1>2, <1>3, <2>2
    <3>2. (front \o back)[j] = back[j - Len(front)]
      BY <1>2, <1>3, <3>1, ConcatProperties, SMTT(30)
    <3>3. j - Len(front) \in 1 .. Len(list) - i /\ i + (j - Len(front)) = j + 1
      BY <1>1, <1>2, <2>2
    <3> QED
      BY <1>3, <2>2, <3>2, <3>3
  <2> QED
    BY <2>1, <2>2, Zenon
<1> QED
  BY <1>4, <1>5, <1>6

(* list_remove() of a list whose elements are distinct takes the removed   *)
(* element, and no other, out of the list.                                 *)
LEMMA RemoveElems ==
    ASSUME NEW S, NEW list \in Seq(S), NEW i \in DOMAIN list
    PROVE  /\ list_remove(list, i) \in Seq(S)
           /\ Elems(list_remove(list, i)) \subseteq Elems(list)
           /\ Distinct(list) => /\ Elems(list_remove(list, i)) = Elems(list) \ {list[i]}
                                /\ Distinct(list_remove(list, i))
<1> DEFINE new == list_remove(list, i)
<1>1. /\ new \in Seq(S) /\ Len(new) = Len(list) - 1
      /\ \A j \in 1 .. Len(list) - 1 : new[j] = IF j < i THEN list[j] ELSE list[j + 1]
  BY RemoveAtPositions
<1>2. Len(list) \in Nat /\ i \in 1 .. Len(list) /\ DOMAIN list = 1 .. Len(list)
  OBVIOUS
<1> HIDE DEF new
<1>3. DOMAIN new = 1 .. Len(list) - 1
  BY <1>1, <1>2
<1>4. Elems(new) \subseteq Elems(list)
  BY <1>1, <1>2, <1>3 DEF Elems
<1>5. ASSUME Distinct(list) PROVE Distinct(new)
  <2> DEFINE old(j) == IF j < i THEN j ELSE j + 1
  <2>1. \A j \in DOMAIN new : old(j) \in DOMAIN list /\ new[j] = list[old(j)]
    BY <1>1, <1>2, <1>3
  <2>2. \A j, k \in DOMAIN new : old(j) = old(k) => j = k
    BY <1>2, <1>3
  <2> HIDE DEF old
  <2> QED
    BY <1>5, <2>1, <2>2 DEF Distinct
<1>6. ASSUME Distinct(list) PROVE list[i] \notin Elems(new)
  BY <1>1, <1>2, <1>3, <1>6 DEF Distinct, Elems
<1>7. ASSUME NEW x \in Elems(list), x # list[i] PROVE x \in Elems(new)
  <2>1. PICK j \in 1 .. Len(list) : x = list[j]
    BY <1>2 DEF Elems
  <2>2. CASE j < i
    <3>1. j \in 1 .. Len(list) - 1 /\ new[j] = x
      BY <1>1, <1>2, <2>1, <2>2
    <3> QED
      BY <3>1, <1>3 DEF Elems
  <2>3. CASE j > i
    <3>1. j - 1 \in 1 .. Len(list) - 1 /\ new[j - 1] = x
      BY <1>1, <1>2, <2>1, <2>3
    <3> QED
      BY <3>1, <1>3 DEF Elems
  <2> QED
    BY <1>2, <1>7, <2>1, <2>2, <2>3
<1> QED
  BY <1>1, <1>4, <1>5, <1>6, <1>7 DEF new
-----------------------------------------------------------------------------

(* The part of TypeOK that schedule() may disturb.                         *)
SchedTypeOK ==
    /\ current \in Thread
    /\ status \in [Thread -> Status]
    /\ ready_list \in Seq(Thread)
    /\ thread_ticks \in 0 .. TIME_SLICE - 1

(* schedule() keeps the scheduler's variables well typed, and no thread    *)
(* other than a dying one loses its page.                                  *)
LEMMA ScheduleTypes ==
    ASSUME current \in Thread,
           NEW st \in [Thread -> Status], NEW rl \in Seq(Thread), NEW prio,
           schedule(st, rl, prio)
    PROVE  /\ SchedTypeOK'
           /\ \A t \in Thread : /\ st[t] # "DYING" /\ st[t] # "NONE" => status'[t] # "NONE"
                                /\ st[t] # "DYING" => status'[t] # "DYING"
<1>1. ASSUME NEW i \in DOMAIN rl PROVE rl[i] \in Thread /\ list_remove(rl, i) \in Seq(Thread)
  BY <1>1, RemoveElems
<1>2. PICK next \in Thread :
        /\ \/ rl = <<>> /\ next = Idle /\ ready_list' = rl
           \/ \E i \in DOMAIN rl : next = rl[i] /\ ready_list' = list_remove(rl, i)
        /\ current' = next
        /\ status' = [t \in Thread |->
                        IF t = next THEN "RUNNING"
                        ELSE IF t = current /\ st[t] = "DYING" /\ t # Main
                             THEN "NONE" ELSE st[t]]
        /\ thread_ticks' = 0
  BY Zenon DEF schedule
<1>3. ready_list' \in Seq(Thread)
  BY <1>1, <1>2, Zenon
<1>4. status' \in [Thread -> Status] /\ current' \in Thread
  BY <1>2, Zenon DEF Status
<1>5. thread_ticks' \in 0 .. TIME_SLICE - 1
  BY <1>2, ThreadAssumption
<1>6. \A t \in Thread : /\ st[t] # "DYING" /\ st[t] # "NONE" => status'[t] # "NONE"
                        /\ st[t] # "DYING" => status'[t] # "DYING"
  BY <1>2, Zenon
<1> QED
  BY <1>3, <1>4, <1>5, <1>6, Zenon DEF SchedTypeOK

(* So does thread_yield().                                                 *)
LEMMA YieldTypes ==
    ASSUME current \in Thread,
           NEW st \in [Thread -> Status], NEW rl \in Seq(Thread), NEW prio,
           thread_yield(st, rl, prio)
    PROVE  /\ SchedTypeOK'
           /\ \A t \in Thread : /\ st[t] # "DYING" /\ st[t] # "NONE" => status'[t] # "NONE"
                                /\ st[t] # "DYING" => status'[t] # "DYING"
<1> DEFINE st2 == [st EXCEPT ![current] = "READY"]
           rl2 == IF current = Idle THEN rl ELSE list_push_back(rl, current)
<1>1. st2 \in [Thread -> Status] /\ rl2 \in Seq(Thread)
  BY PushBackElems, Zenon DEF Status
<1>2. schedule(st2, rl2, prio)
  BY Zenon DEF thread_yield
<1>3. \A t \in Thread : st2[t] = IF t = current THEN "READY" ELSE st[t]
  BY Zenon
<1> HIDE DEF st2, rl2
<1> QED
  BY <1>1, <1>2, <1>3, ScheduleTypes, Zenon

(* And thread_block().                                                     *)
LEMMA BlockTypes ==
    ASSUME SchedTypeOK, thread_block
    PROVE  /\ SchedTypeOK'
           /\ \A t \in Thread : /\ status[t] # "DYING" /\ status[t] # "NONE" => status'[t] # "NONE"
                                /\ status[t] # "DYING" => status'[t] # "DYING"
<1> DEFINE st == [status EXCEPT ![current] = "BLOCKED"]
<1>1. st \in [Thread -> Status] /\ schedule(st, ready_list, priority)
  BY Zenon DEF SchedTypeOK, Status, thread_block
<1>2. \A t \in Thread : st[t] = IF t = current THEN "BLOCKED" ELSE status[t]
  BY Zenon DEF SchedTypeOK
<1> HIDE DEF st
<1> QED
  BY <1>1, <1>2, ScheduleTypes, Zenon DEF SchedTypeOK

(* sema_up() keeps the semaphores and the scheduler's variables well typed. *)
LEMMA SemaUpTypes ==
    ASSUME TypeOK, NEW val \in [Sema -> Nat], NEW s \in Sema, sema_up(val, s)
    PROVE  /\ SchedTypeOK'
           /\ value' \in [Sema -> Nat] /\ waiters' \in [Sema -> Seq(Thread)]
           /\ panic' \in BOOLEAN
           /\ \A t \in Thread : /\ status[t] # "DYING" /\ status[t] # "NONE" => status'[t] # "NONE"
                                /\ status[t] # "DYING" => status'[t] # "DYING"
<1> USE DEF TypeOK, ThreadTypeOK
<1>1. value' \in [Sema -> Nat]
  BY DEF sema_up
<1>2. CASE waiters[s] = <<>> /\ UNCHANGED <<schedVars, waiters, panic>>
  BY <1>1, <1>2, Zenon DEF SchedTypeOK, schedVars
<1>3. ASSUME NEW i \in DOMAIN waiters[s],
             waiters' = [waiters EXCEPT ![s] = list_remove(@, i)],
             ASSERT(status[waiters[s][i]] = "BLOCKED"),
             LET t  == waiters[s][i]
                 st == [status EXCEPT ![t] = "READY"]
                 rl == list_push_back(ready_list, t)
             IN  IF priority[t] > priority[current]
                 THEN thread_yield(st, rl, priority)
                 ELSE status' = st /\ ready_list' = rl /\ UNCHANGED <<current, thread_ticks>>
      PROVE  /\ SchedTypeOK' /\ waiters' \in [Sema -> Seq(Thread)] /\ panic' \in BOOLEAN
             /\ \A t \in Thread : /\ status[t] # "DYING" /\ status[t] # "NONE" => status'[t] # "NONE"
                                  /\ status[t] # "DYING" => status'[t] # "DYING"
  <2> DEFINE u  == waiters[s][i]
             st == [status EXCEPT ![u] = "READY"]
             rl == list_push_back(ready_list, u)
  <2>1. u \in Thread /\ list_remove(waiters[s], i) \in Seq(Thread)
    BY RemoveElems
  <2>2. waiters' \in [Sema -> Seq(Thread)] /\ panic' \in BOOLEAN
    BY <1>3, <2>1, Zenon DEF ASSERT
  <2>3. st \in [Thread -> Status] /\ rl \in Seq(Thread)
    BY <2>1, PushBackElems, Zenon DEF Status
  <2>4. \A t \in Thread : st[t] = IF t = u THEN "READY" ELSE status[t]
    BY <2>1, Zenon
  <2>5. \/ thread_yield(st, rl, priority)
        \/ status' = st /\ ready_list' = rl /\ UNCHANGED <<current, thread_ticks>>
    BY <1>3, Zenon
  <2> HIDE DEF u, st, rl
  <2>6. CASE thread_yield(st, rl, priority)
    BY <2>2, <2>3, <2>4, <2>6, YieldTypes, Zenon
  <2>7. CASE status' = st /\ ready_list' = rl /\ UNCHANGED <<current, thread_ticks>>
    BY <2>2, <2>3, <2>4, <2>7, Zenon DEF SchedTypeOK
  <2> QED
    BY <2>5, <2>6, <2>7, Zenon
<1> QED
  BY <1>1, <1>2, <1>3, Zenon DEF sema_up
-----------------------------------------------------------------------------
(* The inductive invariant: TypeOK is not inductive by itself, since the   *)
(* argument a step uses is only there because of where the thread is.      *)
TypesAndPlaces == TypeOK /\ PlacesOK

(* It holds when main() starts.                                            *)
LEMMA InitTypes == Init => TypesAndPlaces
<1> SUFFICES ASSUME Init PROVE TypeOK /\ PlacesOK
  BY Zenon DEF TypesAndPlaces
<1> USE ThreadAssumption, SynchAssumption DEF Init, ThreadInit
<1>1. SchedTypeOK
  BY DEF SchedTypeOK, Status
<1>2. original_priority \in [Thread -> Priority] /\ saved \in [Thread -> Priority]
  BY DEF Priority
<1>3. ThreadTypeOK
  <2>1. sleep_list \in Seq(Thread) /\ sleep_left \in [Thread -> 0 .. MaxSleep]
    OBVIOUS
  <2>2. priority \in [Thread -> Priority]
    BY <1>2, Zenon
  <2>3. in_external_intr \in BOOLEAN /\ panic \in BOOLEAN
    BY Zenon
  <2> QED
    BY <1>1, <1>2, <2>1, <2>2, <2>3, Zenon DEF ThreadTypeOK, SchedTypeOK
<1>4. pc \in [Thread -> Places]
  BY Zenon DEF Places, InterruptsOn
<1>5. value \in [Sema -> Nat] /\ waiters \in [Sema -> Seq(Thread)]
  OBVIOUS
<1>6. /\ holder \in [Lock -> Thread \cup {Null}]
      /\ sema_arg \in [Thread -> Sema \cup {Null}]
      /\ cond_arg \in [Thread -> Condition \cup {Null}]
  BY Zenon
<1>7. TypeOK
  BY <1>3, <1>4, <1>5, <1>6 DEF TypeOK
<1>8. PlacesOK
  BY Zenon DEF PlacesOK
<1> QED
  BY <1>7, <1>8, Zenon

(* The operations of threads and the timer interrupt keep types and        *)
(* places.                                                                 *)
LEMMA ThreadStepTypes ==
    ASSUME TypesAndPlaces, ThreadStep, UNCHANGED synchVars
    PROVE  TypesAndPlaces'
<1>1. SchedTypeOK
  BY Zenon DEF TypesAndPlaces, TypeOK, ThreadTypeOK, SchedTypeOK
<1>2. ASSUME SchedTypeOK', status'[Idle] \notin {"NONE", "DYING"},
             original_priority' \in [Thread -> Priority], priority' \in [Thread -> Priority],
             sleep_list' \in Seq(Thread), sleep_left' \in [Thread -> 0 .. MaxSleep],
             in_external_intr' \in BOOLEAN, panic' \in BOOLEAN,
             pc' \in [Thread -> Places], saved' \in [Thread -> Priority],
             \A t \in Thread : pc'[t] \in {"hlt", "loop"} <=> t = Idle,
             in_external_intr' => pc'[current'] \in InterruptsOn,
             pc[current] # "donate",
             \A t \in Thread : pc'[t] \in {"donate", "down", "reacquire", "broadcast"}
                                  => pc'[t] = pc[t]
      PROVE  TypesAndPlaces'
  BY <1>2, Zenon
  DEF TypesAndPlaces, TypeOK, ThreadTypeOK, SchedTypeOK, PlacesOK, synchVars, semaVars, argVars
<1> USE DEF TypeOK, ThreadTypeOK, PlacesOK, prioVars, sleepVars
<1>0. TypeOK /\ PlacesOK
  BY Zenon DEF TypesAndPlaces
<1>3. CASE Yield
  <2>1. SchedTypeOK' /\ status'[Idle] \notin {"NONE", "DYING"}
    BY <1>0, <1>1, <1>3, YieldTypes, ThreadAssumption, Zenon DEF Yield, SchedTypeOK
  <2>2. /\ pc' \in [Thread -> Places] /\ pc[current] # "donate"
        /\ \A t \in Thread : pc'[t] \in {"hlt", "loop"} <=> t = Idle
        /\ \A t \in Thread : pc'[t] \in {"donate", "down", "reacquire", "broadcast"}
                             => pc'[t] = pc[t]
    BY <1>0, <1>3, Zenon DEF Yield, Calling
  <2>3. /\ original_priority' \in [Thread -> Priority] /\ priority' \in [Thread -> Priority]
        /\ saved' \in [Thread -> Priority]
        /\ sleep_list' \in Seq(Thread) /\ sleep_left' \in [Thread -> 0 .. MaxSleep]
    BY <1>0, <1>3, Zenon DEF Yield
  <2>4. /\ in_external_intr' \in BOOLEAN /\ panic' \in BOOLEAN
        /\ in_external_intr' => pc'[current'] \in InterruptsOn
    BY <1>0, <1>3, Zenon DEF Yield, Calling
  <2> QED
    BY <1>2, <2>1, <2>2, <2>3, <2>4, Zenon
<1>4. ASSUME NEW u \in Thread, NEW p \in Priority, thread_create(u, p)
      PROVE  TypesAndPlaces'
  <2>1. SchedTypeOK' /\ status'[Idle] \notin {"NONE", "DYING"}
    BY <1>0, <1>1, <1>4, PushBackElems, ThreadAssumption, Zenon DEF thread_create, SchedTypeOK, Status
  <2>2. /\ pc' \in [Thread -> Places] /\ pc[current] # "donate"
        /\ \A t \in Thread : pc'[t] \in {"hlt", "loop"} <=> t = Idle
        /\ \A t \in Thread : pc'[t] \in {"donate", "down", "reacquire", "broadcast"}
                             => pc'[t] = pc[t]
    BY <1>0, <1>4, Zenon DEF thread_create, Calling, Places, InterruptsOn
  <2>3. /\ original_priority' \in [Thread -> Priority] /\ priority' \in [Thread -> Priority]
        /\ saved' \in [Thread -> Priority]
        /\ sleep_list' \in Seq(Thread) /\ sleep_left' \in [Thread -> 0 .. MaxSleep]
    BY <1>0, <1>4, Zenon DEF thread_create
  <2>4. /\ in_external_intr' \in BOOLEAN /\ panic' \in BOOLEAN
        /\ in_external_intr' => pc'[current'] \in InterruptsOn
    BY <1>0, <1>4, Zenon DEF thread_create, Calling
  <2> QED
    BY <1>2, <2>1, <2>2, <2>3, <2>4, Zenon
<1>5. CASE thread_create_return
  <2>1. SchedTypeOK' /\ status'[Idle] \notin {"NONE", "DYING"}
    BY <1>0, <1>1, <1>5, YieldTypes, ThreadAssumption, Zenon DEF thread_create_return, SchedTypeOK, schedVars
  <2>2. /\ pc' \in [Thread -> Places] /\ pc[current] # "donate"
        /\ \A t \in Thread : pc'[t] \in {"hlt", "loop"} <=> t = Idle
        /\ \A t \in Thread : pc'[t] \in {"donate", "down", "reacquire", "broadcast"}
                             => pc'[t] = pc[t]
    BY <1>0, <1>5, Zenon DEF thread_create_return, At, Places, InterruptsOn
  <2>3. /\ original_priority' \in [Thread -> Priority] /\ priority' \in [Thread -> Priority]
        /\ saved' \in [Thread -> Priority]
        /\ sleep_list' \in Seq(Thread) /\ sleep_left' \in [Thread -> 0 .. MaxSleep]
    <3>1. PRI_MIN \in Priority
      BY ThreadAssumption DEF Priority
    <3> QED
      BY <1>0, <1>5, <3>1, Zenon DEF thread_create_return
  <2>4. /\ in_external_intr' \in BOOLEAN /\ panic' \in BOOLEAN
        /\ in_external_intr' => pc'[current'] \in InterruptsOn
    BY <1>0, <1>5, Zenon DEF thread_create_return, At
  <2> QED
    BY <1>2, <2>1, <2>2, <2>3, <2>4, Zenon
<1>6. ASSUME NEW p \in Priority, thread_set_priority(p)
      PROVE  TypesAndPlaces'
  <2>1. SchedTypeOK' /\ status'[Idle] \notin {"NONE", "DYING"}
    BY <1>0, <1>1, <1>6, Zenon DEF thread_set_priority, SchedTypeOK, schedVars
  <2>2. /\ pc' \in [Thread -> Places] /\ pc[current] # "donate"
        /\ \A t \in Thread : pc'[t] \in {"hlt", "loop"} <=> t = Idle
        /\ \A t \in Thread : pc'[t] \in {"donate", "down", "reacquire", "broadcast"}
                             => pc'[t] = pc[t]
    BY <1>0, <1>6, Zenon DEF thread_set_priority, Calling, Places, InterruptsOn
  <2>3. /\ original_priority' \in [Thread -> Priority] /\ priority' \in [Thread -> Priority]
        /\ saved' \in [Thread -> Priority]
        /\ sleep_list' \in Seq(Thread) /\ sleep_left' \in [Thread -> 0 .. MaxSleep]
    BY <1>0, <1>6, Zenon DEF thread_set_priority
  <2>4. /\ in_external_intr' \in BOOLEAN /\ panic' \in BOOLEAN
        /\ in_external_intr' => pc'[current'] \in InterruptsOn
    BY <1>0, <1>6, Zenon DEF thread_set_priority, Calling
  <2> QED
    BY <1>2, <2>1, <2>2, <2>3, <2>4, Zenon
<1>7. ASSUME NEW n \in 1 .. MaxSleep, timer_sleep(n)
      PROVE  TypesAndPlaces'
  <2>1. SchedTypeOK' /\ status'[Idle] \notin {"NONE", "DYING"}
    BY <1>0, <1>1, <1>7, BlockTypes, ThreadAssumption, Zenon DEF timer_sleep
  <2>2. /\ pc' \in [Thread -> Places] /\ pc[current] # "donate"
        /\ \A t \in Thread : pc'[t] \in {"hlt", "loop"} <=> t = Idle
        /\ \A t \in Thread : pc'[t] \in {"donate", "down", "reacquire", "broadcast"}
                             => pc'[t] = pc[t]
    BY <1>0, <1>7, Zenon DEF timer_sleep, Calling
  <2>3. /\ original_priority' \in [Thread -> Priority] /\ priority' \in [Thread -> Priority]
        /\ saved' \in [Thread -> Priority]
        /\ sleep_list' \in Seq(Thread) /\ sleep_left' \in [Thread -> 0 .. MaxSleep]
    <3>1. n \in 0 .. MaxSleep
      BY ThreadAssumption
    <3> QED
      BY <1>0, <1>7, <3>1, PushBackElems, Zenon DEF timer_sleep
  <2>4. /\ in_external_intr' \in BOOLEAN /\ panic' \in BOOLEAN
        /\ in_external_intr' => pc'[current'] \in InterruptsOn
    BY <1>0, <1>7, Zenon DEF timer_sleep, Calling
  <2> QED
    BY <1>2, <2>1, <2>2, <2>3, <2>4, Zenon
<1>8. CASE idle
  <2>1. SchedTypeOK' /\ status'[Idle] \notin {"NONE", "DYING"}
    BY <1>0, <1>1, <1>8, BlockTypes, ThreadAssumption, Zenon DEF idle
  <2>2. /\ pc' \in [Thread -> Places] /\ pc[current] # "donate"
        /\ \A t \in Thread : pc'[t] \in {"hlt", "loop"} <=> t = Idle
        /\ \A t \in Thread : pc'[t] \in {"donate", "down", "reacquire", "broadcast"}
                             => pc'[t] = pc[t]
    BY <1>0, <1>8, ThreadAssumption, Zenon DEF idle, At, Places, InterruptsOn
  <2>3. /\ original_priority' \in [Thread -> Priority] /\ priority' \in [Thread -> Priority]
        /\ saved' \in [Thread -> Priority]
        /\ sleep_list' \in Seq(Thread) /\ sleep_left' \in [Thread -> 0 .. MaxSleep]
    BY <1>0, <1>8, Zenon DEF idle
  <2>4. /\ in_external_intr' \in BOOLEAN /\ panic' \in BOOLEAN
        /\ in_external_intr' => pc'[current'] \in InterruptsOn
    BY <1>0, <1>8, Zenon DEF idle, At
  <2> QED
    BY <1>2, <2>1, <2>2, <2>3, <2>4, Zenon
<1>9. CASE timer_interrupt
  <2>1. SchedTypeOK' /\ status'[Idle] \notin {"NONE", "DYING"}
    BY <1>0, <1>1, <1>9, Zenon DEF timer_interrupt, SchedTypeOK, schedVars
  <2>2. /\ pc' \in [Thread -> Places] /\ pc[current] # "donate"
        /\ \A t \in Thread : pc'[t] \in {"hlt", "loop"} <=> t = Idle
        /\ \A t \in Thread : pc'[t] \in {"donate", "down", "reacquire", "broadcast"}
                             => pc'[t] = pc[t]
    BY <1>0, <1>9, Zenon DEF timer_interrupt, Interrupted, Places, InterruptsOn
  <2>3. /\ original_priority' \in [Thread -> Priority] /\ priority' \in [Thread -> Priority]
        /\ saved' \in [Thread -> Priority]
        /\ sleep_list' \in Seq(Thread) /\ sleep_left' \in [Thread -> 0 .. MaxSleep]
    BY <1>0, <1>9, ThreadAssumption DEF timer_interrupt
  <2>4. /\ in_external_intr' \in BOOLEAN /\ panic' \in BOOLEAN
        /\ in_external_intr' => pc'[current'] \in InterruptsOn
    BY <1>0, <1>9, <2>2, Zenon DEF timer_interrupt, ASSERT, schedVars, InterruptsOn, Interrupted
  <2> QED
    BY <1>2, <2>1, <2>2, <2>3, <2>4, Zenon
<1>10. CASE thread_tick_wake
  <2>1. SchedTypeOK' /\ status'[Idle] \notin {"NONE", "DYING"}
    BY <1>0, <1>1, <1>10, PushBackElems, ThreadAssumption DEF thread_tick_wake, SchedTypeOK, Status
  <2>2. /\ pc' \in [Thread -> Places] /\ pc[current] # "donate"
        /\ \A t \in Thread : pc'[t] \in {"hlt", "loop"} <=> t = Idle
        /\ \A t \in Thread : pc'[t] \in {"donate", "down", "reacquire", "broadcast"}
                             => pc'[t] = pc[t]
    BY <1>0, <1>10, Zenon DEF thread_tick_wake, InterruptsOn
  <2>3. /\ original_priority' \in [Thread -> Priority] /\ priority' \in [Thread -> Priority]
        /\ saved' \in [Thread -> Priority]
        /\ sleep_list' \in Seq(Thread) /\ sleep_left' \in [Thread -> 0 .. MaxSleep]
    BY <1>0, <1>10, RemoveElems DEF thread_tick_wake
  <2>4. /\ in_external_intr' \in BOOLEAN /\ panic' \in BOOLEAN
        /\ in_external_intr' => pc'[current'] \in InterruptsOn
    BY <1>0, <1>10, <2>2, Zenon DEF thread_tick_wake, ASSERT, schedVars, InterruptsOn, Interrupted
  <2> QED
    BY <1>2, <2>1, <2>2, <2>3, <2>4, Zenon
<1>11. CASE thread_tick_return
  <2>1. SchedTypeOK' /\ status'[Idle] \notin {"NONE", "DYING"}
    <3>1. CASE thread_ticks + 1 >= TIME_SLICE
      BY <1>0, <1>1, <1>11, <3>1, YieldTypes, ThreadAssumption, Zenon DEF thread_tick_return, SchedTypeOK
    <3>2. CASE ~(thread_ticks + 1 >= TIME_SLICE)
      BY <1>0, <1>1, <1>11, <3>2, ThreadAssumption DEF thread_tick_return, SchedTypeOK
    <3> QED
      BY <3>1, <3>2, Zenon
  <2>2. /\ pc' \in [Thread -> Places] /\ pc[current] # "donate"
        /\ \A t \in Thread : pc'[t] \in {"hlt", "loop"} <=> t = Idle
        /\ \A t \in Thread : pc'[t] \in {"donate", "down", "reacquire", "broadcast"}
                             => pc'[t] = pc[t]
    BY <1>0, <1>11, Zenon DEF thread_tick_return, InterruptsOn
  <2>3. /\ original_priority' \in [Thread -> Priority] /\ priority' \in [Thread -> Priority]
        /\ saved' \in [Thread -> Priority]
        /\ sleep_list' \in Seq(Thread) /\ sleep_left' \in [Thread -> 0 .. MaxSleep]
    BY <1>0, <1>11, Zenon DEF thread_tick_return
  <2>4. /\ in_external_intr' \in BOOLEAN /\ panic' \in BOOLEAN
        /\ in_external_intr' => pc'[current'] \in InterruptsOn
    BY <1>0, <1>11, <2>2, Zenon DEF thread_tick_return, ASSERT, schedVars, InterruptsOn, Interrupted
  <2> QED
    BY <1>2, <2>1, <2>2, <2>3, <2>4, Zenon
<1> QED
  BY <1>3, <1>4, <1>5, <1>6, <1>7, <1>8, <1>9, <1>10, <1>11, Zenon DEF ThreadStep, Tick
-----------------------------------------------------------------------------
(* The parts of TypesAndPlaces that different actions disturb.             *)
RestTypeOK ==
    /\ original_priority \in [Thread -> Priority] /\ priority \in [Thread -> Priority]
    /\ saved \in [Thread -> Priority]
    /\ sleep_list \in Seq(Thread) /\ sleep_left \in [Thread -> 0 .. MaxSleep]

FlagsOK == in_external_intr \in BOOLEAN /\ panic \in BOOLEAN

SynchTypeOK ==
    /\ value \in [Sema -> Nat]
    /\ waiters \in [Sema -> Seq(Thread)]
    /\ holder \in [Lock -> Thread \cup {Null}]
    /\ lock_priority_list \in [Thread -> Seq(LockPriority)]
    /\ cond_waiters \in [Condition -> Seq(Thread)]
    /\ sema_arg \in [Thread -> Sema \cup {Null}]
    /\ cond_arg \in [Thread -> Condition \cup {Null}]
    /\ donee \in Lock \cup {Null}

PlacesRestOK ==
    /\ \A t \in Thread : pc[t] \in {"hlt", "loop"} <=> t = Idle
    /\ in_external_intr => pc[current] \in InterruptsOn
    /\ \A t \in Thread : pc[t] = "donate" =>
          t = current /\ donee \in Lock /\ holder[donee] \in Thread /\ sema_arg[t] \in Lock
    /\ \A t \in Thread : pc[t] \in {"donate", "down"} => sema_arg[t] \in Sema
    /\ \A t \in Thread : pc[t] = "down" /\ sema_arg[t] = t => cond_arg[t] \in Condition
    /\ \A t \in Thread : pc[t] \in {"reacquire", "broadcast"} => cond_arg[t] \in Condition

(* What a step has to show of the variables it may change.                 *)
LEMMA PartsOfTypesAndPlaces ==
    /\ TypesAndPlaces <=>
          /\ SchedTypeOK /\ status[Idle] \notin {"NONE", "DYING"}
          /\ RestTypeOK /\ FlagsOK /\ SynchTypeOK
          /\ pc \in [Thread -> Places] /\ PlacesRestOK
    /\ (SchedTypeOK /\ status[Idle] \notin {"NONE", "DYING"}
          /\ RestTypeOK /\ FlagsOK /\ SynchTypeOK
          /\ pc \in [Thread -> Places] /\ PlacesRestOK)' => TypesAndPlaces'
  BY Zenon DEF TypesAndPlaces, TypeOK, ThreadTypeOK, PlacesOK, SchedTypeOK, RestTypeOK, FlagsOK,
         SynchTypeOK, PlacesRestOK

(* lock_acquire() marks the front record of a list as owned.               *)
LEMMA MarkOwned ==
    ASSUME NEW list \in Seq(LockPriority)
    PROVE  LET new == [list EXCEPT ![1].waiting = FALSE]
           IN  /\ new \in Seq(LockPriority)
               /\ DOMAIN new = DOMAIN list
               /\ \A i \in DOMAIN list : /\ new[i].lock = list[i].lock
                                         /\ new[i].priority = list[i].priority
                                         /\ new[i].waiting = (i # 1 /\ list[i].waiting)
<1> DEFINE front == [list[1] EXCEPT !.waiting = FALSE]
           new   == [list EXCEPT ![1] = front]
<1>1. DOMAIN list = 1 .. Len(list) /\ Len(list) \in Nat
  OBVIOUS
<1>2. \A i \in DOMAIN list : list[i] \in LockPriority
  OBVIOUS
<1>3. 1 \in DOMAIN list => front \in LockPriority /\ front.lock = list[1].lock
                             /\ front.priority = list[1].priority /\ front.waiting = FALSE
  BY <1>2, Zenon DEF LockPriority
<1> HIDE DEF front
<1>4. DOMAIN new = DOMAIN list /\ \A i \in DOMAIN list : new[i] = IF i = 1 THEN front ELSE list[i]
  BY Zenon
<1>5. new \in Seq(LockPriority)
  <2>1. CASE 1 \in DOMAIN list
    BY <1>1, <1>3, <2>1, ExceptSeq, Zenon
  <2>2. CASE 1 \notin DOMAIN list
    <3>1. list \in [1 .. Len(list) -> LockPriority] /\ Len(list) = 0
      BY <1>1, <2>2
    <3>2. new = [i \in DOMAIN list |-> list[i]]
      BY <2>2, Zenon
    <3>3. [i \in DOMAIN list |-> list[i]] \in [1 .. Len(list) -> LockPriority]
      BY <1>1, <1>2, Zenon
    <3> HIDE DEF new
    <3>4. new \in [1 .. Len(list) -> LockPriority]
      BY <3>2, <3>3, Zenon
    <3> QED
      BY <1>1, <3>4, SeqDef, Zenon
  <2> QED
    BY <2>1, <2>2, Zenon
<1>6. \A i \in DOMAIN list : list[i].waiting \in BOOLEAN
  BY <1>2, Zenon DEF LockPriority
<1> HIDE DEF new
<1>7. \A i \in DOMAIN list : new[i].waiting = (i # 1 /\ list[i].waiting)
  BY <1>3, <1>4, <1>6, Zenon
<1> QED
  BY <1>3, <1>4, <1>5, <1>7, Zenon DEF new, front

(* The operations of semaphores keep types and places.                     *)
LEMMA SemaphoreStepTypes ==
    ASSUME TypesAndPlaces, SemaphoreStep
    PROVE  TypesAndPlaces'
<1>0. /\ SchedTypeOK /\ status[Idle] \notin {"NONE", "DYING"}
      /\ RestTypeOK /\ FlagsOK /\ SynchTypeOK
      /\ pc \in [Thread -> Places] /\ PlacesRestOK
      /\ Idle \in Thread
      /\ TypeOK
  BY PartsOfTypesAndPlaces, ThreadAssumption, Zenon DEF TypesAndPlaces
<1>1. SchedTypeOK' /\ status'[Idle] \notin {"NONE", "DYING"} /\ RestTypeOK' /\ FlagsOK'
        /\ SynchTypeOK' /\ pc' \in [Thread -> Places] /\ PlacesRestOK' => TypesAndPlaces'
  BY PartsOfTypesAndPlaces, Zenon
<1> USE DEF prioVars, sleepVars, semaVars, argVars
<1>2. ASSUME NEW s \in Semaphore, SemaDown(s)
      PROVE  TypesAndPlaces'
  <2>1. SchedTypeOK' /\ status'[Idle] \notin {"NONE", "DYING"}
    BY <1>0, <1>2, Zenon DEF SchedTypeOK, schedVars, SemaDown
  <2>2. RestTypeOK' /\ FlagsOK'
    BY <1>0, <1>2, Zenon DEF RestTypeOK, SemaDown, FlagsOK
  <2>3. SynchTypeOK'
    BY <1>0, <1>2, Zenon DEF SynchTypeOK, SchedTypeOK, SemaDown, EnterSemaDown, Sema
  <2>4. pc' \in [Thread -> Places] /\ PlacesRestOK'
    BY <1>0, <1>2, ThreadAssumption, SynchAssumption DEF PlacesRestOK, Places, InterruptsOn, SchedTypeOK, SynchTypeOK, SemaDown, EnterSemaDown, Calling, Sema
  <2> QED
    BY <1>1, <2>1, <2>2, <2>3, <2>4, Zenon
<1>3. CASE sema_down_wait
  <2>1. SchedTypeOK' /\ status'[Idle] \notin {"NONE", "DYING"}
    BY <1>0, <1>3, BlockTypes, Zenon DEF sema_down_wait
  <2>2. RestTypeOK' /\ FlagsOK'
    BY <1>0, <1>3, Zenon DEF RestTypeOK, sema_down_wait, FlagsOK
  <2>3. SynchTypeOK'
    BY <1>0, <1>3, PushBackElems, Zenon DEF SynchTypeOK, SchedTypeOK, sema_down_wait
  <2>4. pc' \in [Thread -> Places] /\ PlacesRestOK'
    BY <1>0, <1>3, ThreadAssumption, SynchAssumption, Zenon DEF PlacesRestOK, Places, InterruptsOn, SchedTypeOK, SynchTypeOK, sema_down_wait, At
  <2> QED
    BY <1>1, <2>1, <2>2, <2>3, <2>4, Zenon
<1>4. CASE sema_down_return
  <2>1. SchedTypeOK' /\ status'[Idle] \notin {"NONE", "DYING"}
    BY <1>0, <1>4, Zenon DEF SchedTypeOK, schedVars, sema_down_return
  <2>2. RestTypeOK' /\ FlagsOK'
    BY <1>0, <1>4, Zenon DEF RestTypeOK, sema_down_return, FlagsOK
  <2>3. SynchTypeOK'
    <3> DEFINE s == sema_arg[current]
               list == lock_priority_list[current]
    <3>1. value' \in [Sema -> Nat]
      <4>1. CASE s \in Sema
        <5>1. value[s] \in Nat /\ value[s] > 0 /\ value' = [value EXCEPT ![s] = value[s] - 1]
          BY <1>0, <1>4, <4>1, Zenon DEF SynchTypeOK, sema_down_return
        <5>2. value[s] - 1 \in Nat /\ value \in [Sema -> Nat]
          BY <1>0, <5>1 DEF SynchTypeOK
        <5> HIDE DEF s
        <5> QED
          BY <5>1, <5>2, Zenon
      <4>2. CASE s \notin Sema
        BY <1>0, <1>4, <4>2, Zenon DEF SynchTypeOK, sema_down_return
      <4> QED
        BY <4>1, <4>2, Zenon
    <3>2. sema_arg' \in [Thread -> Sema \cup {Null}] /\ cond_arg' \in [Thread -> Condition \cup {Null}]
      BY <1>0, <1>4, Zenon DEF SynchTypeOK, sema_down_return
    <3>3. holder' \in [Lock -> Thread \cup {Null}]
      BY <1>0, <1>4, Zenon DEF SynchTypeOK, SchedTypeOK, sema_down_return
    <3>4. lock_priority_list' \in [Thread -> Seq(LockPriority)]
      <4>1. [list EXCEPT ![1].waiting = FALSE] \in Seq(LockPriority)
        BY <1>0, MarkOwned, Zenon DEF SynchTypeOK, SchedTypeOK
      <4>2. \/ lock_priority_list' = lock_priority_list
            \/ lock_priority_list' = [lock_priority_list EXCEPT ![current] =
                                         [list EXCEPT ![1].waiting = FALSE]]
        BY <1>4, Zenon DEF sema_down_return
      <4> HIDE DEF list
      <4> QED
        BY <1>0, <4>1, <4>2, Zenon DEF SynchTypeOK
    <3> QED
      BY <1>0, <1>4, <3>1, <3>2, <3>3, <3>4, Zenon DEF SynchTypeOK, sema_down_return
  <2>4. pc' \in [Thread -> Places] /\ PlacesRestOK'
    <3> DEFINE s == sema_arg[current]
    <3>1. /\ pc[current] = "down" /\ ~in_external_intr /\ s \in Sema /\ current \in Thread
          /\ pc' = [pc EXCEPT ![current] = IF s = current THEN "reacquire" ELSE "run"]
          /\ sema_arg' = [sema_arg EXCEPT ![current] = Null]
          /\ UNCHANGED <<current, in_external_intr, donee>>
          /\ cond_arg' = IF s \in Lock THEN [cond_arg EXCEPT ![current] = Null] ELSE cond_arg
          /\ holder' = IF s \in Lock THEN [holder EXCEPT ![s] = current] ELSE holder
      BY <1>0, <1>4, Zenon DEF PlacesRestOK, SchedTypeOK, sema_down_return, At, schedVars
    <3>2. s = current => cond_arg[current] \in Condition /\ s \notin Lock
      BY <1>0, <3>1, SynchAssumption, Zenon DEF PlacesRestOK
    <3>3. \A t \in Thread : pc[t] # "donate"
      BY <1>0, <3>1, Zenon DEF PlacesRestOK
    <3> HIDE DEF s
    <3>4. \A t \in Thread : t # current =>
            pc'[t] = pc[t] /\ sema_arg'[t] = sema_arg[t] /\ cond_arg'[t] = cond_arg[t]
      BY <1>0, <3>1, Zenon DEF SynchTypeOK
    <3>5. pc' \in [Thread -> Places]
      BY <1>0, <3>1, Zenon DEF Places, InterruptsOn
    <3>6. /\ pc'[current] = IF s = current THEN "reacquire" ELSE "run"
          /\ s = current => cond_arg'[current] \in Condition
      BY <1>0, <3>1, <3>2, Zenon
    <3> QED
      BY <1>0, <3>1, <3>3, <3>4, <3>5, <3>6, ZenonT(40) DEF PlacesRestOK
  <2> QED
    BY <1>1, <2>1, <2>2, <2>3, <2>4, Zenon
<1>5. ASSUME NEW s \in Semaphore, SemaTryDown(s)
      PROVE  TypesAndPlaces'
  <2>1. SchedTypeOK' /\ status'[Idle] \notin {"NONE", "DYING"}
    BY <1>0, <1>5, Zenon DEF SchedTypeOK, schedVars, SemaTryDown, threadVars
  <2>2. RestTypeOK' /\ FlagsOK'
    BY <1>0, <1>5, Zenon DEF RestTypeOK, SemaTryDown, threadVars, FlagsOK
  <2>3. SynchTypeOK'
    <3>1. s \in Sema
      BY Zenon DEF Sema
    <3> QED
      BY <1>0, <1>5, <3>1 DEF SynchTypeOK, SemaTryDown
  <2>4. pc' \in [Thread -> Places] /\ PlacesRestOK'
    BY <1>0, <1>5, ThreadAssumption, SynchAssumption, Zenon DEF PlacesRestOK, Places, InterruptsOn, SchedTypeOK, SynchTypeOK, SemaTryDown, threadVars, schedVars
  <2> QED
    BY <1>1, <2>1, <2>2, <2>3, <2>4, Zenon
<1>6. ASSUME NEW s \in Semaphore, SemaUp(s)
      PROVE  TypesAndPlaces'
  <2>1. SchedTypeOK' /\ status'[Idle] \notin {"NONE", "DYING"}
    BY <1>0, <1>6, SemaUpTypes, Zenon DEF SemaUp, Sema, SynchTypeOK
  <2>2. RestTypeOK' /\ FlagsOK'
    BY <1>0, <1>6, SemaUpTypes, Zenon DEF RestTypeOK, SemaUp, FlagsOK, Sema, SynchTypeOK
  <2>3. SynchTypeOK'
    BY <1>0, <1>6, SemaUpTypes, Zenon DEF SynchTypeOK, SemaUp, Sema
  <2>4. pc' \in [Thread -> Places] /\ PlacesRestOK'
    BY <1>0, <1>6, ThreadAssumption, SynchAssumption, Zenon DEF PlacesRestOK, Places, InterruptsOn, SchedTypeOK, SynchTypeOK, SemaUp, Calling
  <2> QED
    BY <1>1, <2>1, <2>2, <2>3, <2>4, Zenon
<1>7. ASSUME NEW s \in IrqSemaphore, IrqSemaUp(s)
      PROVE  TypesAndPlaces'
  <2>0. s \in Sema
    BY SynchAssumption, Zenon DEF Sema
  <2>1. SchedTypeOK' /\ status'[Idle] \notin {"NONE", "DYING"}
    <3>1. CASE UNCHANGED <<status, ready_list, waiters, panic>>
      BY <1>0, <1>7, <3>1, Zenon DEF SchedTypeOK, IrqSemaUp
    <3>2. ASSUME NEW i \in DOMAIN waiters[s],
                 status' = [status EXCEPT ![waiters[s][i]] = "READY"],
                 ready_list' = list_push_back(ready_list, waiters[s][i])
          PROVE  SchedTypeOK' /\ status'[Idle] \notin {"NONE", "DYING"}
      <4>1. waiters[s][i] \in Thread
        BY <1>0, <2>0 DEF SynchTypeOK
      <4> QED
        BY <1>0, <1>7, <3>2, <4>1, PushBackElems, Zenon DEF SchedTypeOK, Status, IrqSemaUp
    <3> QED
      BY <1>7, <3>1, <3>2, Zenon DEF IrqSemaUp
  <2>2. RestTypeOK' /\ FlagsOK'
    BY <1>0, <1>7, Zenon DEF RestTypeOK, IrqSemaUp, FlagsOK, ASSERT
  <2>3. SynchTypeOK'
    <3>1. value' \in [Sema -> Nat]
      BY <1>0, <1>7, <2>0 DEF SynchTypeOK, IrqSemaUp
    <3>2. waiters' \in [Sema -> Seq(Thread)]
      <4>1. \A i \in DOMAIN waiters[s] : list_remove(waiters[s], i) \in Seq(Thread)
        BY <1>0, <2>0, RemoveElems, Zenon DEF SynchTypeOK
      <4>2. \/ waiters' = waiters
            \/ \E i \in DOMAIN waiters[s] :
                  waiters' = [waiters EXCEPT ![s] = list_remove(waiters[s], i)]
        BY <1>7, Zenon DEF IrqSemaUp
      <4> QED
        BY <1>0, <4>1, <4>2, Zenon DEF SynchTypeOK
    <3> QED
      BY <1>0, <1>7, <3>1, <3>2, Zenon DEF SynchTypeOK, IrqSemaUp
  <2>4. pc' \in [Thread -> Places] /\ PlacesRestOK'
    <3>1. /\ ~in_external_intr /\ pc[current] \in InterruptsOn
          /\ pc' = [pc EXCEPT ![current] = IF @ = "hlt" THEN "loop" ELSE @]
      BY <1>7, Zenon DEF IrqSemaUp, Interrupted
    <3>2. UNCHANGED <<current, in_external_intr, holder, sema_arg, cond_arg, donee>>
      BY <1>7, Zenon DEF IrqSemaUp, argVars
    <3>3. /\ pc' \in [Thread -> Places]
          /\ \A t \in Thread : pc'[t] = pc[t] \/ (pc[t] = "hlt" /\ pc'[t] = "loop")
      BY <1>0, <3>1, Zenon DEF Places, InterruptsOn, SchedTypeOK
    <3> QED
      BY <1>0, <3>1, <3>2, <3>3, Zenon DEF PlacesRestOK, SchedTypeOK, InterruptsOn
  <2> QED
    BY <1>1, <2>1, <2>2, <2>3, <2>4, Zenon
<1> QED
  BY <1>2, <1>3, <1>4, <1>5, <1>6, <1>7, Zenon DEF SemaphoreStep
-----------------------------------------------------------------------------
(* lock_acquire(), called by a thread in its own code or by cond_wait().   *)
LEMMA LockAcquireTypes ==
    ASSUME TypesAndPlaces, NEW l \in Lock, lock_acquire(l),
           pc[current] \in {"run", "reacquire"}, ~in_external_intr
    PROVE  TypesAndPlaces'
<1>0. /\ SchedTypeOK /\ status[Idle] \notin {"NONE", "DYING"}
      /\ RestTypeOK /\ FlagsOK /\ SynchTypeOK
      /\ pc \in [Thread -> Places] /\ PlacesRestOK
  BY PartsOfTypesAndPlaces, Zenon
<1>1. SchedTypeOK' /\ status'[Idle] \notin {"NONE", "DYING"} /\ RestTypeOK'
  BY <1>0, Zenon DEF SchedTypeOK, RestTypeOK, lock_acquire, schedVars, prioVars, sleepVars
<1>2. FlagsOK'
  BY <1>0, Zenon DEF FlagsOK, lock_acquire, ASSERT
<1>3. SynchTypeOK'
  <2> DEFINE record == [lock |-> l, waiting |-> TRUE, priority |-> priority[current]]
  <2>1. record \in LockPriority
    BY <1>0, Zenon DEF LockPriority, RestTypeOK, SchedTypeOK
  <2>2. lock_priority_list' \in [Thread -> Seq(LockPriority)]
    BY <1>0, <2>1, PushFrontShifts, Zenon DEF SynchTypeOK, SchedTypeOK, lock_acquire
  <2>3. sema_arg' \in [Thread -> Sema \cup {Null}] /\ donee' \in Lock \cup {Null}
    BY <1>0, Zenon DEF SynchTypeOK, lock_acquire, Sema
  <2> QED
    BY <1>0, <2>2, <2>3, Zenon DEF SynchTypeOK, lock_acquire, semaVars
<1>4. pc' \in [Thread -> Places] /\ PlacesRestOK'
  <2>1. /\ current' = current /\ in_external_intr' = in_external_intr
        /\ holder' = holder /\ cond_arg' = cond_arg
        /\ sema_arg' = [sema_arg EXCEPT ![current] = l]
        /\ \/ /\ holder[l] \in Thread /\ donee' = l
              /\ pc' = [pc EXCEPT ![current] = "donate"]
           \/ pc' = [pc EXCEPT ![current] = "down"]
    BY <1>0, Zenon DEF lock_acquire, schedVars, SynchTypeOK
  <2>2. \A t \in Thread : pc[t] # "donate"
    BY <1>0, Zenon DEF PlacesRestOK
  <2>3. current \in Thread /\ current # Idle /\ l \in Sema /\ l # current
    BY <1>0, SynchAssumption, Zenon DEF SchedTypeOK, PlacesRestOK, Sema
  <2>4. \A t \in Thread : t # current => pc'[t] = pc[t] /\ sema_arg'[t] = sema_arg[t]
    BY <1>0, <2>1, Zenon DEF SynchTypeOK
  <2>5. sema_arg'[current] = l /\ pc'[current] \in {"donate", "down"}
    BY <1>0, <2>1, <2>3, Zenon DEF SynchTypeOK
  <2>6. pc' \in [Thread -> Places]
    BY <1>0, <2>1, Zenon DEF Places
  <2> QED
    BY <1>0, <2>1, <2>2, <2>3, <2>4, <2>5, <2>6, Zenon DEF PlacesRestOK
<1> QED
  BY <1>1, <1>2, <1>3, <1>4, PartsOfTypesAndPlaces, Zenon

(* lock_release(), called by a thread in its own code or by cond_wait().   *)
LEMMA LockReleaseTypes ==
    ASSUME TypesAndPlaces, NEW l \in Lock, NEW val \in [Sema -> Nat], lock_release(val, l),
           pc[current] = "run", ~in_external_intr,
           cond_waiters' \in [Condition -> Seq(Thread)],
           cond_arg' \in [Thread -> Condition \cup {Null}],
           \A t \in Thread : t # current => cond_arg'[t] = cond_arg[t]
    PROVE  TypesAndPlaces'
<1>0. /\ SchedTypeOK /\ status[Idle] \notin {"NONE", "DYING"}
      /\ RestTypeOK /\ FlagsOK /\ SynchTypeOK
      /\ pc \in [Thread -> Places] /\ PlacesRestOK
  BY PartsOfTypesAndPlaces, Zenon
<1>1. /\ SchedTypeOK' /\ panic' \in BOOLEAN
      /\ value' \in [Sema -> Nat] /\ waiters' \in [Sema -> Seq(Thread)]
      /\ status'[Idle] \notin {"NONE", "DYING"}
  BY <1>0, SemaUpTypes, ThreadAssumption, Zenon DEF TypesAndPlaces, lock_release, Sema
<1>2. RestTypeOK' /\ FlagsOK'
  BY <1>0, <1>1, Zenon DEF RestTypeOK, FlagsOK, lock_release, prioVars, sleepVars
<1>3. SynchTypeOK'
  <2>1. lock_priority_list' \in [Thread -> Seq(LockPriority)]
    BY <1>0, RemoveElems DEF SynchTypeOK, SchedTypeOK, lock_release
  <2>2. holder' \in [Lock -> Thread \cup {Null}]
    BY <1>0, Zenon DEF SynchTypeOK, lock_release
  <2> QED
    BY <1>0, <1>1, <2>1, <2>2, Zenon DEF SynchTypeOK, lock_release
<1>4. pc' \in [Thread -> Places] /\ PlacesRestOK'
  BY <1>0 DEF PlacesRestOK, Places, InterruptsOn, SchedTypeOK, SynchTypeOK, lock_release
<1> QED
  BY <1>1, <1>2, <1>3, <1>4, PartsOfTypesAndPlaces, Zenon

(* donate_priority() keeps the holder's records well typed.                *)
LEMMA DonatedTypes ==
    ASSUME NEW list \in Seq(LockPriority), NEW l, NEW p \in Priority
    PROVE  DonatedRecords(list, l, p) \in Seq(LockPriority)
<1> DEFINE new(i) == IF find_lock_priority(list, l, i) /\ list[i].priority < p
                     THEN [list[i] EXCEPT !.priority = p] ELSE list[i]
<1>1. DOMAIN list = 1 .. Len(list) /\ Len(list) \in Nat
  OBVIOUS
<1>2. \A i \in DOMAIN list : list[i] \in LockPriority
  OBVIOUS
<1>3. \A i \in DOMAIN list : new(i) \in LockPriority
  BY <1>2, Zenon DEF LockPriority
<1> HIDE DEF new
<1>4. [i \in DOMAIN list |-> new(i)] \in [1 .. Len(list) -> LockPriority]
  BY <1>1, <1>3, Zenon
<1>5. [i \in DOMAIN list |-> new(i)] \in Seq(LockPriority)
  BY <1>1, <1>4, SeqDef, ZenonT(40)
<1> QED
  BY <1>5, Zenon DEF DonatedRecords, new

(* The operations of locks keep types and places.                          *)
LEMMA LockStepTypes ==
    ASSUME TypesAndPlaces, LockStep
    PROVE  TypesAndPlaces'
<1>0. /\ SchedTypeOK /\ status[Idle] \notin {"NONE", "DYING"}
      /\ RestTypeOK /\ FlagsOK /\ SynchTypeOK
      /\ pc \in [Thread -> Places] /\ PlacesRestOK
      /\ Idle \in Thread
      /\ TypeOK
  BY PartsOfTypesAndPlaces, ThreadAssumption, Zenon DEF TypesAndPlaces
<1>1. SchedTypeOK' /\ status'[Idle] \notin {"NONE", "DYING"} /\ RestTypeOK' /\ FlagsOK'
        /\ SynchTypeOK' /\ pc' \in [Thread -> Places] /\ PlacesRestOK' => TypesAndPlaces'
  BY PartsOfTypesAndPlaces, Zenon
<1> USE DEF prioVars, sleepVars, semaVars, argVars
<1>2. ASSUME NEW l \in Lock, LockAcquire(l)
      PROVE  TypesAndPlaces'
  BY <1>2, LockAcquireTypes, Zenon DEF LockAcquire, Calling
<1>3. ASSUME NEW l \in Lock, LockRelease(l)
      PROVE  TypesAndPlaces'
  BY <1>0, <1>3, LockReleaseTypes, Zenon DEF LockRelease, Calling, SynchTypeOK
<1>4. ASSUME NEW l \in Lock, LockTryAcquire(l)
      PROVE  TypesAndPlaces'
  <2>1. SchedTypeOK' /\ status'[Idle] \notin {"NONE", "DYING"}
    BY <1>0, <1>4, Zenon DEF SchedTypeOK, schedVars, LockTryAcquire
  <2>2. RestTypeOK' /\ FlagsOK'
    BY <1>0, <1>4, Zenon DEF RestTypeOK, LockTryAcquire, FlagsOK
  <2>3. SynchTypeOK'
    <3>1. l \in Sema
      BY Zenon DEF Sema
    <3>2. value' \in [Sema -> Nat]
      BY <1>0, <1>4, <3>1 DEF SynchTypeOK, LockTryAcquire
    <3>3. sema_arg' \in [Thread -> Sema \cup {Null}]
      BY <1>0, <1>4, <3>1, Zenon DEF SynchTypeOK, LockTryAcquire
    <3> QED
      BY <1>0, <1>4, <3>2, <3>3, Zenon DEF SynchTypeOK, LockTryAcquire
  <2>4. pc' \in [Thread -> Places] /\ PlacesRestOK'
    BY <1>0, <1>4, ThreadAssumption, SynchAssumption
    DEF PlacesRestOK, Places, InterruptsOn, SchedTypeOK, SynchTypeOK, LockTryAcquire, Calling, schedVars
  <2> QED
    BY <1>1, <2>1, <2>2, <2>3, <2>4, Zenon
<1>5. ASSUME NEW l \in Lock, lock_release_fault(l)
      PROVE  TypesAndPlaces'
  <2>1. SchedTypeOK' /\ status'[Idle] \notin {"NONE", "DYING"}
    BY <1>0, <1>5, Zenon DEF SchedTypeOK, schedVars, lock_release_fault
  <2>2. RestTypeOK' /\ FlagsOK'
    BY <1>0, <1>5, Zenon DEF RestTypeOK, lock_release_fault, FlagsOK, ASSERT
  <2>3. SynchTypeOK'
    BY <1>0, <1>5, Zenon DEF SynchTypeOK, lock_release_fault, synchVars
  <2>4. pc' \in [Thread -> Places] /\ PlacesRestOK'
    BY <1>0, <1>5, Zenon DEF PlacesRestOK, lock_release_fault, synchVars, schedVars
  <2> QED
    BY <1>1, <2>1, <2>2, <2>3, <2>4, Zenon
<1>6. CASE donate_priority
  <2>1. SchedTypeOK' /\ status'[Idle] \notin {"NONE", "DYING"}
    BY <1>0, <1>6, Zenon DEF SchedTypeOK, schedVars, donate_priority
  <2>2. RestTypeOK' /\ FlagsOK'
    BY <1>0, <1>6, Zenon DEF RestTypeOK, SchedTypeOK, donate_priority, FlagsOK
  <2>3. SynchTypeOK'
    <3> DEFINE h == holder[donee]
               list == lock_priority_list[h]
    <3>1. donee \in Lock /\ h \in Thread /\ current \in Thread
      BY <1>0, <1>6, Zenon DEF PlacesRestOK, SchedTypeOK, donate_priority, At
    <3>2. DonatedRecords(list, donee, priority[current]) \in Seq(LockPriority)
      BY <1>0, <3>1, DonatedTypes, Zenon DEF SynchTypeOK, RestTypeOK
    <3>3. lock_priority_list' \in [Thread -> Seq(LockPriority)]
      BY <1>0, <1>6, <3>2, Zenon DEF SynchTypeOK, donate_priority
    <3>4. donee' \in Lock \cup {Null}
      <4>1. list \in Seq(LockPriority) /\ 1 \in DOMAIN list
        BY <1>0, <1>6, <3>1 DEF SynchTypeOK, donate_priority, find_lock_priority
      <4>2. list[1] \in LockPriority
        BY <4>1
      <4>3. list[1].lock \in Lock
        BY <4>2, Zenon DEF LockPriority
      <4> QED
        BY <1>6, <4>3, Zenon DEF donate_priority
    <3> QED
      BY <1>0, <1>6, <3>3, <3>4, Zenon DEF SynchTypeOK, donate_priority
  <2>4. pc' \in [Thread -> Places] /\ PlacesRestOK'
    <3> DEFINE list == lock_priority_list[holder[donee]]
               deeper == pc'[current] = "donate"
    <3>1. /\ pc[current] = "donate" /\ ~in_external_intr
          /\ UNCHANGED <<current, in_external_intr, holder, sema_arg, cond_arg>>
          /\ \/ /\ pc' = [pc EXCEPT ![current] = "donate"]
                /\ donee' = list[1].lock /\ holder[list[1].lock] # Null
             \/ pc' = [pc EXCEPT ![current] = "down"]
      BY <1>0, <1>6, Zenon DEF donate_priority, At, schedVars
    <3>2. donee \in Lock /\ holder[donee] \in Thread /\ current \in Thread
      BY <1>0, <3>1, Zenon DEF PlacesRestOK, SchedTypeOK
    <3>3. list[1].lock \in Lock /\ (holder[list[1].lock] # Null => holder[list[1].lock] \in Thread)
      <4>1. list \in Seq(LockPriority) /\ 1 \in DOMAIN list
        BY <1>0, <1>6, <3>2 DEF SynchTypeOK, donate_priority, find_lock_priority
      <4>2. list[1] \in LockPriority
        BY <4>1
      <4> QED
        BY <1>0, <4>2, Zenon DEF LockPriority, SynchTypeOK
    <3>4. sema_arg[current] \in Lock /\ sema_arg[current] \in Sema /\ sema_arg[current] # current
      <4>1. sema_arg[current] \in Lock
        BY <1>0, <3>1, <3>2, Zenon DEF PlacesRestOK
      <4> QED
        BY <3>2, <4>1, SynchAssumption, Zenon DEF Sema
    <3> HIDE DEF list
    <3>5. pc' \in [Thread -> Places] /\ \A t \in Thread : t # current => pc'[t] = pc[t]
      BY <1>0, <3>1, Zenon DEF Places
    <3>6. pc'[current] \in {"donate", "down"}
      BY <1>0, <3>1, <3>2, Zenon
    <3> QED
      BY <1>0, <3>1, <3>2, <3>3, <3>4, <3>5, <3>6, Zenon DEF PlacesRestOK
  <2> QED
    BY <1>1, <2>1, <2>2, <2>3, <2>4, Zenon
<1>7. CASE donate_priority_fault
  <2>1. SchedTypeOK' /\ status'[Idle] \notin {"NONE", "DYING"}
    BY <1>0, <1>7, Zenon DEF SchedTypeOK, schedVars, donate_priority_fault
  <2>2. RestTypeOK' /\ FlagsOK'
    BY <1>0, <1>7, Zenon DEF RestTypeOK, donate_priority_fault, FlagsOK, ASSERT
  <2>3. SynchTypeOK'
    BY <1>0, <1>7, Zenon DEF SynchTypeOK, donate_priority_fault, synchVars
  <2>4. pc' \in [Thread -> Places] /\ PlacesRestOK'
    BY <1>0, <1>7, Zenon DEF PlacesRestOK, donate_priority_fault, synchVars, schedVars
  <2> QED
    BY <1>1, <2>1, <2>2, <2>3, <2>4, Zenon
<1>8. CASE lock_release_return
  <2>1. SchedTypeOK' /\ status'[Idle] \notin {"NONE", "DYING"}
    BY <1>0, <1>8, YieldTypes, Zenon DEF SchedTypeOK, schedVars, lock_release_return
  <2>2. RestTypeOK' /\ FlagsOK'
    BY <1>0, <1>8, Zenon DEF RestTypeOK, lock_release_return, FlagsOK
  <2>3. SynchTypeOK'
    <3>1. current \in Sema
      BY <1>0, Zenon DEF SchedTypeOK, Sema
    <3>2. \/ sema_arg' = [sema_arg EXCEPT ![current] = current]
          \/ sema_arg' = sema_arg
      BY <1>8, Zenon DEF lock_release_return, EnterSemaDown
    <3>3. sema_arg' \in [Thread -> Sema \cup {Null}]
      BY <1>0, <3>1, <3>2, Zenon DEF SynchTypeOK
    <3>4. UNCHANGED <<semaVars, holder, lock_priority_list, cond_waiters, cond_arg, donee>>
      BY <1>8, Zenon DEF lock_release_return
    <3> QED
      BY <1>0, <3>3, <3>4, Zenon DEF SynchTypeOK, semaVars
  <2>4. pc' \in [Thread -> Places] /\ PlacesRestOK'
    <3>1. /\ pc[current] = "released" /\ current \in Thread /\ ~in_external_intr
          /\ UNCHANGED <<in_external_intr, holder, cond_arg, donee>>
          /\ \/ /\ pc' = [pc EXCEPT ![current] = "down"]
                /\ cond_arg[current] \in Condition
                /\ sema_arg' = [sema_arg EXCEPT ![current] = current]
             \/ pc' = [pc EXCEPT ![current] = "run"] /\ sema_arg' = sema_arg
      BY <1>0, <1>8, Zenon DEF lock_release_return, EnterSemaDown, At, SchedTypeOK, SynchTypeOK
    <3>2. current # Idle /\ current \in Sema /\ \A t \in Thread : pc[t] # "donate"
      BY <1>0, <3>1, Zenon DEF PlacesRestOK, Sema
    <3>3. /\ pc' \in [Thread -> Places]
          /\ \A t \in Thread : t # current => pc'[t] = pc[t] /\ sema_arg'[t] = sema_arg[t]
      BY <1>0, <3>1, Zenon DEF Places, InterruptsOn, SynchTypeOK
    <3>4. \/ pc'[current] = "run"
          \/ pc'[current] = "down" /\ sema_arg'[current] = current /\ cond_arg[current] \in Condition
      BY <1>0, <3>1, Zenon DEF SynchTypeOK
    <3> QED
      BY <1>0, <3>1, <3>2, <3>3, <3>4, Zenon DEF PlacesRestOK
  <2> QED
    BY <1>1, <2>1, <2>2, <2>3, <2>4, Zenon
<1>9. CASE lock_try_acquire_return
  <2>1. SchedTypeOK' /\ status'[Idle] \notin {"NONE", "DYING"}
    BY <1>0, <1>9, Zenon DEF SchedTypeOK, schedVars, lock_try_acquire_return
  <2>2. RestTypeOK' /\ FlagsOK'
    BY <1>0, <1>9, Zenon DEF RestTypeOK, lock_try_acquire_return, FlagsOK
  <2>3. SynchTypeOK'
    BY <1>0, <1>9, Zenon DEF SynchTypeOK, SchedTypeOK, lock_try_acquire_return
  <2>4. pc' \in [Thread -> Places] /\ PlacesRestOK'
    BY <1>0, <1>9, ThreadAssumption, SynchAssumption
    DEF PlacesRestOK, Places, InterruptsOn, SchedTypeOK, SynchTypeOK, lock_try_acquire_return, At, schedVars
  <2> QED
    BY <1>1, <2>1, <2>2, <2>3, <2>4, Zenon
<1> QED
  BY <1>2, <1>3, <1>4, <1>5, <1>6, <1>7, <1>8, <1>9, Zenon DEF LockStep

(* cond_signal() of a condition, by the lock's holder.                     *)
LEMMA CondSignalTypes ==
    ASSUME TypesAndPlaces, NEW c \in Condition, cond_signal(c),
           pc[current] \in {"run", "broadcast"}, ~in_external_intr
    PROVE  TypesAndPlaces'
<1>0. /\ SchedTypeOK /\ status[Idle] \notin {"NONE", "DYING"}
      /\ RestTypeOK /\ FlagsOK /\ SynchTypeOK
      /\ pc \in [Thread -> Places] /\ PlacesRestOK
      /\ Idle \in Thread
      /\ TypeOK
  BY PartsOfTypesAndPlaces, ThreadAssumption, Zenon DEF TypesAndPlaces
<1>1. SchedTypeOK' /\ status'[Idle] \notin {"NONE", "DYING"} /\ RestTypeOK' /\ FlagsOK'
        /\ SynchTypeOK' /\ pc' \in [Thread -> Places] /\ PlacesRestOK' => TypesAndPlaces'
  BY PartsOfTypesAndPlaces, Zenon
<1> USE DEF prioVars, sleepVars, semaVars, argVars
<1>2. PICK i \in DOMAIN cond_waiters[c] :
        /\ cond_waiters' = [cond_waiters EXCEPT ![c] = list_remove(cond_waiters[c], i)]
        /\ sema_up(value, cond_waiters[c][i])
  BY Zenon DEF cond_signal
<1>3. cond_waiters[c][i] \in Thread /\ list_remove(cond_waiters[c], i) \in Seq(Thread)
  <2>1. cond_waiters[c] \in Seq(Thread)
    BY <1>0, Zenon DEF SynchTypeOK
  <2>2. list_remove(cond_waiters[c], i) \in Seq(Thread)
    BY <2>1, RemoveElems, Zenon
  <2>3. cond_waiters[c][i] \in Thread
    BY <2>1
  <2> QED
    BY <2>2, <2>3, Zenon
<1>4. /\ SchedTypeOK' /\ panic' \in BOOLEAN
      /\ value' \in [Sema -> Nat] /\ waiters' \in [Sema -> Seq(Thread)]
      /\ status'[Idle] \notin {"NONE", "DYING"}
  BY <1>0, <1>2, <1>3, SemaUpTypes, Zenon DEF SynchTypeOK, Sema
<1>5. RestTypeOK' /\ FlagsOK'
  BY <1>0, <1>4, Zenon DEF RestTypeOK, FlagsOK, cond_signal
<1>6. SynchTypeOK'
  BY <1>0, <1>2, <1>3, <1>4, Zenon DEF SynchTypeOK, cond_signal
<1>7. pc' \in [Thread -> Places] /\ PlacesRestOK'
  BY <1>0, Zenon DEF PlacesRestOK, SchedTypeOK, cond_signal
<1> QED
  BY <1>1, <1>4, <1>5, <1>6, <1>7, Zenon

(* The operations of condition variables keep types and places.            *)
LEMMA ConditionStepTypes ==
    ASSUME TypesAndPlaces, ConditionStep
    PROVE  TypesAndPlaces'
<1>0. /\ SchedTypeOK /\ status[Idle] \notin {"NONE", "DYING"}
      /\ RestTypeOK /\ FlagsOK /\ SynchTypeOK
      /\ pc \in [Thread -> Places] /\ PlacesRestOK
      /\ Idle \in Thread
      /\ TypeOK
  BY PartsOfTypesAndPlaces, ThreadAssumption, Zenon DEF TypesAndPlaces
<1>1. SchedTypeOK' /\ status'[Idle] \notin {"NONE", "DYING"} /\ RestTypeOK' /\ FlagsOK'
        /\ SynchTypeOK' /\ pc' \in [Thread -> Places] /\ PlacesRestOK' => TypesAndPlaces'
  BY PartsOfTypesAndPlaces, Zenon
<1> USE DEF prioVars, sleepVars, semaVars, argVars
<1>2. ASSUME NEW c \in Condition, CondWait(c)
      PROVE  TypesAndPlaces'
  <2>1. CondLock[c] \in Lock /\ current \in Thread
    BY <1>0, SynchAssumption, Zenon DEF SchedTypeOK
  <2>2. [value EXCEPT ![current] = 0] \in [Sema -> Nat]
    BY <1>0, Zenon DEF SynchTypeOK
  <2>3. cond_waiters' \in [Condition -> Seq(Thread)]
    BY <1>0, <1>2, <2>1, PushBackElems, Zenon DEF CondWait, SynchTypeOK
  <2>4. /\ cond_arg' \in [Thread -> Condition \cup {Null}]
        /\ \A t \in Thread : t # current => cond_arg'[t] = cond_arg[t]
    BY <1>0, <1>2, Zenon DEF CondWait, SynchTypeOK
  <2> QED
    BY <1>2, <2>1, <2>2, <2>3, <2>4, LockReleaseTypes, Zenon DEF CondWait, Calling
<1>3. ASSUME NEW c \in Condition, CondSignal(c)
      PROVE  TypesAndPlaces'
  BY <1>3, CondSignalTypes, Zenon DEF CondSignal, Calling
<1>4. ASSUME NEW c \in Condition, CondBroadcast(c)
      PROVE  TypesAndPlaces'
  <2>1. SchedTypeOK' /\ status'[Idle] \notin {"NONE", "DYING"}
    BY <1>0, <1>4, Zenon DEF SchedTypeOK, schedVars, CondBroadcast
  <2>2. RestTypeOK' /\ FlagsOK' /\ SynchTypeOK'
    BY <1>0, <1>4, Zenon DEF RestTypeOK, FlagsOK, SynchTypeOK, CondBroadcast
  <2>3. pc' \in [Thread -> Places] /\ PlacesRestOK'
    BY <1>0, <1>4, Zenon
    DEF PlacesRestOK, Places, InterruptsOn, SchedTypeOK, SynchTypeOK, CondBroadcast, Calling, schedVars
  <2> QED
    BY <1>1, <2>1, <2>2, <2>3, Zenon
<1>5. CASE CondReacquire
  <2>1. current \in Thread /\ CondLock[cond_arg[current]] \in Lock
    BY <1>0, <1>5, SynchAssumption, Zenon DEF CondReacquire, At, PlacesRestOK, SchedTypeOK
  <2> QED
    BY <1>5, <2>1, LockAcquireTypes, Zenon DEF CondReacquire, At
<1>6. CASE cond_broadcast_signal
  <2>1. current \in Thread /\ cond_arg[current] \in Condition
    BY <1>0, <1>6, Zenon DEF cond_broadcast_signal, At, PlacesRestOK, SchedTypeOK
  <2> QED
    BY <1>6, <2>1, CondSignalTypes, Zenon DEF cond_broadcast_signal, At
<1>7. CASE cond_broadcast_return
  <2>1. SchedTypeOK' /\ status'[Idle] \notin {"NONE", "DYING"}
    BY <1>0, <1>7, Zenon DEF SchedTypeOK, schedVars, cond_broadcast_return
  <2>2. RestTypeOK' /\ FlagsOK' /\ SynchTypeOK'
    BY <1>0, <1>7, Zenon DEF RestTypeOK, FlagsOK, SynchTypeOK, cond_broadcast_return
  <2>3. pc' \in [Thread -> Places] /\ PlacesRestOK'
    BY <1>0, <1>7, Zenon
    DEF PlacesRestOK, Places, InterruptsOn, SchedTypeOK, SynchTypeOK, cond_broadcast_return, At, schedVars
  <2> QED
    BY <1>1, <2>1, <2>2, <2>3, Zenon
<1> QED
  BY <1>2, <1>3, <1>4, <1>5, <1>6, <1>7, Zenon DEF ConditionStep
-----------------------------------------------------------------------------
(* thread_exit() and the second half of thread_set_priority() do too.      *)
LEMMA OtherStepTypes ==
    ASSUME TypesAndPlaces, ThreadExit \/ ThreadSetPriorityReturn
    PROVE  TypesAndPlaces'
<1>0. /\ SchedTypeOK /\ status[Idle] \notin {"NONE", "DYING"}
      /\ RestTypeOK /\ FlagsOK /\ SynchTypeOK
      /\ pc \in [Thread -> Places] /\ PlacesRestOK
      /\ Idle \in Thread
      /\ TypeOK
  BY PartsOfTypesAndPlaces, ThreadAssumption, Zenon DEF TypesAndPlaces
<1>1. SchedTypeOK' /\ status'[Idle] \notin {"NONE", "DYING"} /\ RestTypeOK' /\ FlagsOK'
        /\ SynchTypeOK' /\ pc' \in [Thread -> Places] /\ PlacesRestOK' => TypesAndPlaces'
  BY PartsOfTypesAndPlaces, Zenon
<1> USE DEF prioVars, sleepVars, semaVars, argVars, synchVars
<1>2. CASE ThreadExit
  <2> DEFINE st == [status EXCEPT ![current] = "DYING"]
  <2>1. pc[current] = "run" /\ current \in Thread /\ current # Idle
    BY <1>0, <1>2, Zenon DEF ThreadExit, thread_exit, Calling, PlacesRestOK, SchedTypeOK
  <2>2. SchedTypeOK' /\ status'[Idle] \notin {"NONE", "DYING"}
    <3>1. st \in [Thread -> Status] /\ st[Idle] = status[Idle] /\ schedule(st, ready_list, priority)
      BY <1>0, <1>2, <2>1, Zenon DEF ThreadExit, thread_exit, SchedTypeOK, Status
    <3> HIDE DEF st
    <3> QED
      BY <1>0, <2>1, <3>1, ScheduleTypes, Zenon DEF SchedTypeOK
  <2>3. RestTypeOK' /\ FlagsOK'
    <3>1. PRI_MIN \in Priority
      BY ThreadAssumption DEF Priority
    <3> QED
      BY <1>0, <1>2, <3>1, Zenon DEF RestTypeOK, FlagsOK, ThreadExit, thread_exit
  <2>4. SynchTypeOK'
    BY <1>0, <1>2, Zenon DEF SynchTypeOK, ThreadExit
  <2>5. pc' \in [Thread -> Places] /\ PlacesRestOK'
    BY <1>0, <1>2, <2>1, Zenon DEF PlacesRestOK, ThreadExit, thread_exit, Calling
  <2> QED
    BY <1>1, <2>2, <2>3, <2>4, <2>5, Zenon
<1>3. CASE ThreadSetPriorityReturn
  <2>1. SchedTypeOK' /\ status'[Idle] \notin {"NONE", "DYING"}
    BY <1>0, <1>3, YieldTypes, Zenon
    DEF SchedTypeOK, schedVars, ThreadSetPriorityReturn, thread_set_priority_return
  <2>2. RestTypeOK' /\ FlagsOK'
    <3>1. PRI_MIN \in Priority
      BY ThreadAssumption DEF Priority
    <3>2. /\ original_priority[current] \in Priority
          /\ \/ priority' = [priority EXCEPT ![current] = original_priority[current]]
             \/ priority' = priority
          /\ saved' = [saved EXCEPT ![current] = PRI_MIN]
          /\ UNCHANGED <<original_priority, sleepVars, in_external_intr, panic>>
      BY <1>0, <1>3, Zenon
      DEF RestTypeOK, SchedTypeOK, ThreadSetPriorityReturn, thread_set_priority_return
    <3>3. priority' \in [Thread -> Priority] /\ saved' \in [Thread -> Priority]
      BY <1>0, <3>1, <3>2, Zenon DEF RestTypeOK
    <3> QED
      BY <1>0, <3>2, <3>3, Zenon DEF RestTypeOK, FlagsOK, sleepVars
  <2>3. SynchTypeOK'
    BY <1>0, <1>3, Zenon DEF SynchTypeOK, ThreadSetPriorityReturn
  <2>4. pc' \in [Thread -> Places] /\ PlacesRestOK'
    BY <1>0, <1>3, Zenon
    DEF PlacesRestOK, Places, InterruptsOn, SchedTypeOK, ThreadSetPriorityReturn,
        thread_set_priority_return, At
  <2> QED
    BY <1>1, <2>1, <2>2, <2>3, <2>4, Zenon
<1> QED
  BY <1>2, <1>3, Zenon

(* Every variable keeps its type and every thread a place it may be in,    *)
(* whatever kernel calls the threads make and interrupts arrive.           *)
THEOREM TypesAndPlacesInvariant == Spec => [](TypeOK /\ PlacesOK)
<1>1. Init => TypesAndPlaces
  BY InitTypes, Zenon
<1>2. TypesAndPlaces /\ [Next]_vars => TypesAndPlaces'
  <2>1. TypesAndPlaces /\ Next => TypesAndPlaces'
    BY ThreadStepTypes, SemaphoreStepTypes, LockStepTypes, ConditionStepTypes, OtherStepTypes, Zenon DEF Next
  <2>2. TypesAndPlaces /\ UNCHANGED vars => TypesAndPlaces'
    BY DEF TypesAndPlaces, TypeOK, ThreadTypeOK, PlacesOK, vars, threadVars, synchVars,
           schedVars, prioVars, sleepVars, semaVars, argVars
  <2> QED
    BY <2>1, <2>2, Zenon
<1> QED
  BY <1>1, <1>2, PTL DEF Spec, TypesAndPlaces
-----------------------------------------------------------------------------
(* The part of ListsMatchStatus about the run queue, with statuses st and  *)
(* ready list rl.                                                          *)
RunQueueOK(st, rl) ==
    /\ \A t \in Thread : st[t] = "RUNNING" <=> t = current
    /\ Distinct(rl)
    /\ \A t \in Thread : t \in Elems(rl) <=> st[t] = "READY" /\ t # Idle

(* The part about semaphores' wait lists w and the sleep list sl.          *)
WaitListsOK(st, w, sl) ==
    /\ Distinct(sl)
    /\ \A s \in Sema : Distinct(w[s])
    /\ \A s1, s2 \in Sema, t \in Thread : t \in Elems(w[s1]) /\ t \in Elems(w[s2]) => s1 = s2
    /\ \A s \in Sema, t \in Thread : ~(t \in Elems(w[s]) /\ t \in Elems(sl))
    /\ \A t \in Thread : (t \in Elems(sl) \/ \E s \in Sema : t \in Elems(w[s]))
                            <=> st[t] = "BLOCKED" /\ t # Idle

(* The elements of a list of threads are threads.                          *)
LEMMA ElemsInThread ==
    ASSUME NEW list \in Seq(Thread) PROVE Elems(list) \subseteq Thread
  BY DEF Elems

(* ListsMatchStatus in two parts, the one about the run queue and the one  *)
(* about wait lists, which different actions disturb.                      *)
LEMMA PartsOfLists ==
    TypeOK => (ListsMatchStatus <=> /\ RunQueueOK(status, ready_list)
                                    /\ WaitListsOK(status, waiters, sleep_list))
<1> SUFFICES ASSUME TypeOK
             PROVE  ListsMatchStatus <=> /\ RunQueueOK(status, ready_list)
                                         /\ WaitListsOK(status, waiters, sleep_list)
  BY Zenon
<1>1. /\ Elems(ready_list) \subseteq Thread /\ Elems(sleep_list) \subseteq Thread
      /\ \A s \in Sema : Elems(waiters[s]) \subseteq Thread
  BY ElemsInThread, Zenon DEF TypeOK, ThreadTypeOK
<1>2. ListsMatchStatus => RunQueueOK(status, ready_list)
  BY Zenon DEF ListsMatchStatus, RunQueueOK
<1>3. ListsMatchStatus => WaitListsOK(status, waiters, sleep_list)
  BY <1>1 DEF ListsMatchStatus, WaitListsOK
<1>4. ASSUME RunQueueOK(status, ready_list), WaitListsOK(status, waiters, sleep_list)
      PROVE  ListsMatchStatus
  <2>1. Elems(ready_list) = {t \in Thread : status[t] = "READY"} \ {Idle}
    BY <1>1, <1>4, Zenon DEF RunQueueOK
  <2>2. \A s1, s2 \in Sema : s1 # s2 => Elems(waiters[s1]) \cap Elems(waiters[s2]) = {}
    BY <1>1, <1>4, Zenon DEF WaitListsOK
  <2>3. \A s \in Sema : Elems(waiters[s]) \cap Elems(sleep_list) = {}
    BY <1>1, <1>4, Zenon DEF WaitListsOK
  <2>4. Elems(sleep_list) \cup UNION {Elems(waiters[s]) : s \in Sema}
           = {t \in Thread : status[t] = "BLOCKED"} \ {Idle}
    BY <1>1, <1>4 DEF WaitListsOK
  <2> QED
    BY <1>4, <2>1, <2>2, <2>3, <2>4, Zenon DEF ListsMatchStatus, RunQueueOK, WaitListsOK
<1> QED
  BY <1>2, <1>3, <1>4, Zenon

(* The same in the next state.                                             *)
LEMMA PartsOfListsNext ==
    TypeOK' => (ListsMatchStatus' <=> /\ RunQueueOK(status, ready_list)'
                                      /\ WaitListsOK(status, waiters, sleep_list)')
  BY PartsOfLists, PTL
-----------------------------------------------------------------------------
(* thread_unblock() of a thread t that neither runs nor is ready keeps the *)
(* run queue in order.                                                     *)
LEMMA UnblockLists ==
    ASSUME NEW st \in [Thread -> Status], NEW rl \in Seq(Thread), RunQueueOK(st, rl),
           NEW t \in Thread, t # Idle, st[t] \notin {"RUNNING", "READY"}
    PROVE  RunQueueOK([st EXCEPT ![t] = "READY"], list_push_back(rl, t))
<1> DEFINE st2 == [st EXCEPT ![t] = "READY"]
           rl2 == list_push_back(rl, t)
<1>1. \A u \in Thread : st2[u] = IF u = t THEN "READY" ELSE st[u]
  BY Zenon
<1>2. t \notin Elems(rl)
  BY Zenon DEF RunQueueOK
<1>3. Elems(rl2) = Elems(rl) \cup {t} /\ Distinct(rl2)
  BY <1>2, PushBackElems DEF RunQueueOK
<1> HIDE DEF st2, rl2
<1>4. RunQueueOK(st2, rl2)
  BY <1>1, <1>3, Zenon DEF RunQueueOK
<1> QED
  BY <1>4, Zenon DEF st2, rl2

(* schedule(), called when no thread is marked running, leaves the chosen  *)
(* thread running and off the run queue, and blocks or unblocks nobody.    *)
LEMMA ScheduleLists ==
    ASSUME current \in Thread,
           NEW st \in [Thread -> Status], NEW rl \in Seq(Thread), NEW prio,
           \A t \in Thread : st[t] # "RUNNING",
           Distinct(rl),
           \A t \in Thread : t \in Elems(rl) <=> st[t] = "READY" /\ t # Idle,
           schedule(st, rl, prio)
    PROVE  /\ RunQueueOK(status, ready_list)'
           /\ \A t \in Thread \ {Idle} : status'[t] = "BLOCKED" <=> st[t] = "BLOCKED"
<1>1. PICK next \in Thread :
        /\ \/ rl = <<>> /\ next = Idle /\ ready_list' = rl
           \/ \E i \in DOMAIN rl : next = rl[i] /\ ready_list' = list_remove(rl, i)
        /\ current' = next
        /\ status' = [t \in Thread |->
                        IF t = next THEN "RUNNING"
                        ELSE IF t = current /\ st[t] = "DYING" /\ t # Main
                             THEN "NONE" ELSE st[t]]
  BY Zenon DEF schedule
<1>2. \A t \in Thread : status'[t] = "RUNNING" <=> t = current'
  BY <1>1, Zenon
<1>3. CASE rl = <<>> /\ next = Idle /\ ready_list' = rl
  BY <1>1, <1>2, <1>3, Zenon DEF RunQueueOK
<1>4. ASSUME NEW i \in DOMAIN rl, next = rl[i], ready_list' = list_remove(rl, i)
      PROVE  /\ RunQueueOK(status, ready_list)'
             /\ \A t \in Thread \ {Idle} : status'[t] = "BLOCKED" <=> st[t] = "BLOCKED"
  <2>1. Elems(ready_list') = Elems(rl) \ {next} /\ Distinct(ready_list')
    BY <1>4, RemoveElems, Zenon
  <2>2. next \in Elems(rl)
    BY <1>4, Zenon DEF Elems
  <2>3. st[next] = "READY" /\ next # Idle
    BY <2>2, Zenon
  <2> QED
    BY <1>1, <1>2, <2>1, <2>3, Zenon DEF RunQueueOK
<1> QED
  BY <1>1, <1>3, <1>4, Zenon

(* So does thread_yield(), called by the running thread.                   *)
LEMMA YieldLists ==
    ASSUME current \in Thread,
           NEW st \in [Thread -> Status], NEW rl \in Seq(Thread), NEW prio,
           RunQueueOK(st, rl), thread_yield(st, rl, prio)
    PROVE  /\ RunQueueOK(status, ready_list)'
           /\ \A t \in Thread \ {Idle} : status'[t] = "BLOCKED" <=> st[t] = "BLOCKED"
<1> DEFINE st2 == [st EXCEPT ![current] = "READY"]
           rl2 == IF current = Idle THEN rl ELSE list_push_back(rl, current)
<1>1. st2 \in [Thread -> Status] /\ schedule(st2, rl2, prio)
  BY Zenon DEF Status, thread_yield
<1>2. \A t \in Thread : st2[t] = IF t = current THEN "READY" ELSE st[t]
  BY Zenon
<1>3. current \notin Elems(rl) /\ st[current] = "RUNNING"
  BY Zenon DEF RunQueueOK
<1>4. /\ rl2 \in Seq(Thread) /\ Distinct(rl2)
      /\ Elems(rl2) = IF current = Idle THEN Elems(rl) ELSE Elems(rl) \cup {current}
  <2>1. CASE current = Idle
    BY <2>1, Zenon DEF RunQueueOK
  <2>2. CASE current # Idle
    BY <1>3, <2>2, PushBackElems DEF RunQueueOK
  <2> QED
    BY <2>1, <2>2, Zenon
<1> HIDE DEF st2, rl2
<1>5. \A t \in Thread : st2[t] # "RUNNING" /\ (t \in Elems(rl2) <=> st2[t] = "READY" /\ t # Idle)
  BY <1>2, <1>4 DEF RunQueueOK
<1>6. /\ RunQueueOK(status, ready_list)'
      /\ \A t \in Thread \ {Idle} : status'[t] = "BLOCKED" <=> st2[t] = "BLOCKED"
  BY <1>1, <1>4, <1>5, ScheduleLists, Zenon
<1> QED
  BY <1>2, <1>3, <1>6, Zenon

(* And thread_block(), called by the running thread.                       *)
LEMMA BlockLists ==
    ASSUME SchedTypeOK, RunQueueOK(status, ready_list), thread_block
    PROVE  /\ RunQueueOK(status, ready_list)'
           /\ \A t \in Thread \ {Idle} :
                 status'[t] = "BLOCKED" <=> t = current \/ status[t] = "BLOCKED"
<1> DEFINE st == [status EXCEPT ![current] = "BLOCKED"]
<1>1. st \in [Thread -> Status] /\ schedule(st, ready_list, priority)
  BY Zenon DEF SchedTypeOK, Status, thread_block
<1>2. \A t \in Thread : st[t] = IF t = current THEN "BLOCKED" ELSE status[t]
  BY Zenon DEF SchedTypeOK
<1> HIDE DEF st
<1>3. /\ \A t \in Thread : st[t] # "RUNNING" /\ (t \in Elems(ready_list) <=> st[t] = "READY" /\ t # Idle)
      /\ Distinct(ready_list)
  BY <1>2, Zenon DEF RunQueueOK
<1>4. /\ RunQueueOK(status, ready_list)'
      /\ \A t \in Thread \ {Idle} : status'[t] = "BLOCKED" <=> st[t] = "BLOCKED"
  BY <1>1, <1>3, ScheduleLists, Zenon DEF SchedTypeOK
<1> QED
  BY <1>2, <1>4, Zenon
-----------------------------------------------------------------------------
(* The wait lists only depend on who is blocked.                           *)
LEMMA SameBlocked ==
    ASSUME NEW st1, NEW st2, NEW w, NEW sl, WaitListsOK(st1, w, sl),
           \A t \in Thread \ {Idle} : st2[t] = "BLOCKED" <=> st1[t] = "BLOCKED"
    PROVE  WaitListsOK(st2, w, sl)
  BY Zenon DEF WaitListsOK

(* The waiter at position i of s is unblocked: st2 and w2 are the statuses *)
(* and the lists of waiters after that.                                    *)
Woken(st, w, s, i, st2, w2) ==
    /\ \A t \in Thread \ {Idle} : st2[t] = "BLOCKED" <=> t # w[s][i] /\ st[t] = "BLOCKED"
    /\ w2[s] = list_remove(w[s], i)
    /\ \A s1 \in Sema \ {s} : w2[s1] = w[s1]

(* A thread taken off a semaphore's wait list to be unblocked was blocked, *)
(* and is on no wait list any more.                                        *)
LEMMA WakeLists ==
    ASSUME NEW st \in [Thread -> Status], NEW w \in [Sema -> Seq(Thread)],
           NEW sl \in Seq(Thread), WaitListsOK(st, w, sl),
           NEW s \in Sema, NEW i \in DOMAIN w[s], NEW st2, NEW w2, Woken(st, w, s, i, st2, w2)
    PROVE  /\ w[s][i] \in Thread /\ w[s][i] # Idle /\ st[w[s][i]] = "BLOCKED"
           /\ WaitListsOK(st2, w2, sl)
<1> DEFINE u  == w[s][i]
<1>1. u \in Thread /\ u \in Elems(w[s])
  BY DEF Elems
<1>2. u # Idle /\ st[u] = "BLOCKED"
  BY <1>1, Zenon DEF WaitListsOK
<1>3. Distinct(w2[s]) /\ Elems(w2[s]) = Elems(w[s]) \ {u}
  BY RemoveElems DEF WaitListsOK, Woken
<1>4. \A s1 \in Sema \ {s} : w2[s1] = w[s1]
  BY Zenon DEF Woken
<1> HIDE DEF u
<1>5. \A t \in Thread, s1 \in Sema : t \in Elems(w2[s1]) <=> t \in Elems(w[s1]) /\ t # u
  BY <1>1, <1>3, <1>4 DEF WaitListsOK
<1>6. \A t \in Thread \ {Idle} : st2[t] = "BLOCKED" <=> t # u /\ st[t] = "BLOCKED"
  BY Zenon DEF u, Woken
<1>7. u \notin Elems(sl)
  BY <1>1, Zenon DEF WaitListsOK
<1>8. WaitListsOK(st2, w2, sl)
  <2>1. \A s1 \in Sema : Distinct(w2[s1])
    BY <1>3, <1>4, Zenon DEF WaitListsOK
  <2>2. \A t \in Thread : (t \in Elems(sl) \/ \E s1 \in Sema : t \in Elems(w2[s1]))
                            <=> st2[t] = "BLOCKED" /\ t # Idle
    BY <1>2, <1>5, <1>6, <1>7, Zenon DEF WaitListsOK
  <2> QED
    BY <1>5, <2>1, <2>2, Zenon DEF WaitListsOK
<1> QED
  BY <1>1, <1>2, <1>8, Zenon DEF u

(* The same of a thread taken off the sleep list.                          *)
LEMMA WakeSleeper ==
    ASSUME NEW st \in [Thread -> Status], NEW w, NEW sl \in Seq(Thread), WaitListsOK(st, w, sl),
           NEW i \in DOMAIN sl, NEW st2,
           \A t \in Thread \ {Idle} : st2[t] = "BLOCKED" <=> t # sl[i] /\ st[t] = "BLOCKED"
    PROVE  /\ sl[i] \in Thread /\ sl[i] # Idle /\ st[sl[i]] = "BLOCKED"
           /\ WaitListsOK(st2, w, list_remove(sl, i))
<1>1. sl[i] \in Thread /\ sl[i] \in Elems(sl)
  BY DEF Elems
<1>2. sl[i] # Idle /\ st[sl[i]] = "BLOCKED" /\ \A s \in Sema : sl[i] \notin Elems(w[s])
  BY <1>1, Zenon DEF WaitListsOK
<1>3. Distinct(list_remove(sl, i)) /\ Elems(list_remove(sl, i)) = Elems(sl) \ {sl[i]}
  BY RemoveElems, Zenon DEF WaitListsOK
<1>4. WaitListsOK(st2, w, list_remove(sl, i))
  BY <1>1, <1>2, <1>3 DEF WaitListsOK
<1> QED
  BY <1>1, <1>2, <1>4, Zenon

(* A running thread that blocks on a semaphore joins its wait list only.   *)
LEMMA WaitOnSema ==
    ASSUME NEW st \in [Thread -> Status], NEW w \in [Sema -> Seq(Thread)],
           NEW sl \in Seq(Thread), WaitListsOK(st, w, sl),
           NEW s \in Sema, NEW u \in Thread, u # Idle, st[u] # "BLOCKED", NEW st2,
           \A t \in Thread \ {Idle} : st2[t] = "BLOCKED" <=> t = u \/ st[t] = "BLOCKED"
    PROVE  WaitListsOK(st2, [w EXCEPT ![s] = list_push_back(@, u)], sl)
<1> DEFINE w2 == [w EXCEPT ![s] = list_push_back(w[s], u)]
<1>1. u \notin Elems(sl) /\ \A s1 \in Sema : u \notin Elems(w[s1])
  BY Zenon DEF WaitListsOK
<1>2. Distinct(w2[s]) /\ Elems(w2[s]) = Elems(w[s]) \cup {u}
  BY <1>1, PushBackElems DEF WaitListsOK
<1>3. \A s1 \in Sema \ {s} : w2[s1] = w[s1]
  BY Zenon
<1> HIDE DEF w2
<1>4. \A t \in Thread, s1 \in Sema : t \in Elems(w2[s1]) <=> t \in Elems(w[s1]) \/ (t = u /\ s1 = s)
  BY <1>1, <1>2, <1>3, Zenon
<1>5. \A s1 \in Sema : Distinct(w2[s1])
  BY <1>2, <1>3, Zenon DEF WaitListsOK
<1>6. \A t \in Thread : (t \in Elems(sl) \/ \E s1 \in Sema : t \in Elems(w2[s1]))
                            <=> st2[t] = "BLOCKED" /\ t # Idle
  BY <1>1, <1>4, Zenon DEF WaitListsOK
<1>7. WaitListsOK(st2, w2, sl)
  BY <1>1, <1>4, <1>5, <1>6 DEF WaitListsOK
<1> QED
  BY <1>7, Zenon DEF w2

(* A running thread that goes to sleep joins the sleep list only.          *)
LEMMA WaitOnSleep ==
    ASSUME NEW st \in [Thread -> Status], NEW w, NEW sl \in Seq(Thread), WaitListsOK(st, w, sl),
           NEW u \in Thread, u # Idle, st[u] # "BLOCKED", NEW st2,
           \A t \in Thread \ {Idle} : st2[t] = "BLOCKED" <=> t = u \/ st[t] = "BLOCKED"
    PROVE  WaitListsOK(st2, w, list_push_back(sl, u))
<1>1. u \notin Elems(sl) /\ \A s \in Sema : u \notin Elems(w[s])
  BY Zenon DEF WaitListsOK
<1>2. /\ Distinct(list_push_back(sl, u))
      /\ Elems(list_push_back(sl, u)) = Elems(sl) \cup {u}
  BY <1>1, PushBackElems DEF WaitListsOK
<1> QED
  BY <1>1, <1>2, Zenon DEF WaitListsOK
-----------------------------------------------------------------------------
(* sema_up() moves the thread it wakes from the wait list to the run queue *)
(* or to the CPU, and its thread_unblock() finds that thread blocked.      *)
LEMMA SemaUpLists ==
    ASSUME TypeOK, ListsMatchStatus, NEW val, NEW s \in Sema, sema_up(val, s),
           sleep_list' = sleep_list
    PROVE  /\ RunQueueOK(status, ready_list)' /\ WaitListsOK(status, waiters, sleep_list)'
           /\ panic' => panic
<1>1. RunQueueOK(status, ready_list) /\ WaitListsOK(status, waiters, sleep_list)
  BY PartsOfLists, Zenon
<1>2. CASE UNCHANGED <<schedVars, waiters, panic>>
  BY <1>1, <1>2, Zenon DEF schedVars, RunQueueOK, WaitListsOK
<1>3. ASSUME NEW i \in DOMAIN waiters[s],
             waiters' = [waiters EXCEPT ![s] = list_remove(@, i)],
             ASSERT(status[waiters[s][i]] = "BLOCKED"),
             LET t  == waiters[s][i]
                 st == [status EXCEPT ![t] = "READY"]
                 rl == list_push_back(ready_list, t)
             IN  IF priority[t] > priority[current]
                 THEN thread_yield(st, rl, priority)
                 ELSE status' = st /\ ready_list' = rl /\ UNCHANGED <<current, thread_ticks>>
      PROVE  /\ RunQueueOK(status, ready_list)' /\ WaitListsOK(status, waiters, sleep_list)'
             /\ panic' => panic
  <2> DEFINE u  == waiters[s][i]
             st == [status EXCEPT ![u] = "READY"]
             rl == list_push_back(ready_list, u)
             w  == [waiters EXCEPT ![s] = list_remove(@, i)]
  <2>1. u \in Thread
    BY DEF TypeOK
  <2>2. \A t \in Thread : st[t] = IF t = u THEN "READY" ELSE status[t]
    BY <2>1, Zenon DEF TypeOK, ThreadTypeOK
  <2>3. \A t \in Thread \ {Idle} : st[t] = "BLOCKED" <=> t # u /\ status[t] = "BLOCKED"
    BY <2>2
  <2>4. u # Idle /\ status[u] = "BLOCKED" /\ WaitListsOK(st, w, sleep_list)
    <3>1. /\ status \in [Thread -> Status] /\ waiters \in [Sema -> Seq(Thread)]
          /\ sleep_list \in Seq(Thread)
      BY Zenon DEF TypeOK, ThreadTypeOK
    <3>2. Woken(status, waiters, s, i, st, w)
      BY <2>3, <3>1, Zenon DEF Woken
    <3> HIDE DEF st, w
    <3> QED
      BY <1>1, <3>1, <3>2, WakeLists, Zenon
  <2>5. RunQueueOK(st, rl) /\ st \in [Thread -> Status] /\ rl \in Seq(Thread)
    BY <1>1, <2>1, <2>4, UnblockLists, PushBackElems, Zenon DEF TypeOK, ThreadTypeOK, Status
  <2>6. ~panic'
    BY <1>3, <2>4, Zenon DEF ASSERT
  <2>7. waiters' = w
    BY <1>3, Zenon
  <2>8. \/ thread_yield(st, rl, priority)
        \/ status' = st /\ ready_list' = rl /\ current' = current
    BY <1>3, Zenon
  <2> HIDE DEF u, st, rl, w
  <2>9. CASE thread_yield(st, rl, priority)
    <3>1. /\ RunQueueOK(status, ready_list)'
          /\ \A t \in Thread \ {Idle} : status'[t] = "BLOCKED" <=> st[t] = "BLOCKED"
      BY <2>5, <2>9, YieldLists, Zenon DEF TypeOK, ThreadTypeOK
    <3>2. WaitListsOK(status', w, sleep_list)
      BY <2>4, <3>1, SameBlocked, Zenon
    <3> QED
      BY <2>6, <2>7, <3>1, <3>2, Zenon DEF WaitListsOK
  <2>10. CASE status' = st /\ ready_list' = rl /\ current' = current
    BY <2>4, <2>5, <2>6, <2>7, <2>10, Zenon DEF WaitListsOK, RunQueueOK
  <2> QED
    BY <2>8, <2>9, <2>10, Zenon
<1> QED
  BY <1>2, <1>3, Zenon DEF sema_up

(* The operations of threads and the timer interrupt.                      *)
LEMMA ThreadStepLists ==
    ASSUME TypeOK, PlacesOK, ListsMatchStatus, ThreadStep, UNCHANGED waiters
    PROVE  RunQueueOK(status, ready_list)' /\ WaitListsOK(status, waiters, sleep_list)'
<1>1. /\ RunQueueOK(status, ready_list) /\ WaitListsOK(status, waiters, sleep_list)
      /\ SchedTypeOK /\ sleep_list \in Seq(Thread) /\ Idle \in Thread
      /\ status[Idle] # "NONE" /\ \A t \in Thread : pc[t] = "run" => t # Idle
  BY PartsOfLists, ThreadAssumption, Zenon DEF TypeOK, ThreadTypeOK, SchedTypeOK, PlacesOK
<1>2. ASSUME thread_yield(status, ready_list, priority), sleep_list' = sleep_list
      PROVE  RunQueueOK(status, ready_list)' /\ WaitListsOK(status, waiters, sleep_list)'
  <2>1. /\ RunQueueOK(status, ready_list)'
        /\ \A t \in Thread \ {Idle} : status'[t] = "BLOCKED" <=> status[t] = "BLOCKED"
    BY <1>1, <1>2, YieldLists, Zenon DEF SchedTypeOK
  <2>2. WaitListsOK(status', waiters, sleep_list)
    BY <1>1, <2>1, SameBlocked, Zenon
  <2> QED
    BY <1>2, <2>1, <2>2, Zenon DEF WaitListsOK
<1>3. ASSUME UNCHANGED <<current, status, ready_list, sleep_list>>
      PROVE  RunQueueOK(status, ready_list)' /\ WaitListsOK(status, waiters, sleep_list)'
  BY <1>1, <1>3, Zenon DEF RunQueueOK, WaitListsOK
<1>4. CASE Yield
  BY <1>2, <1>4, Zenon DEF Yield, sleepVars
<1>5. ASSUME NEW u \in Thread, NEW p \in Priority, thread_create(u, p)
      PROVE  RunQueueOK(status, ready_list)' /\ WaitListsOK(status, waiters, sleep_list)'
  <2>1. status[u] = "NONE" /\ u # Idle
    BY <1>1, <1>5, Zenon DEF thread_create
  <2>2. RunQueueOK(status', ready_list')
    BY <1>1, <1>5, <2>1, UnblockLists, Zenon DEF thread_create, SchedTypeOK
  <2>3. \A t \in Thread \ {Idle} : status'[t] = "BLOCKED" <=> status[t] = "BLOCKED"
    BY <1>1, <1>5, <2>1, Zenon DEF thread_create, SchedTypeOK
  <2>4. WaitListsOK(status', waiters, sleep_list)
    BY <1>1, <2>3, SameBlocked, Zenon
  <2> QED
    BY <1>5, <2>2, <2>4, Zenon DEF WaitListsOK, RunQueueOK, thread_create, sleepVars
<1>6. CASE thread_create_return
  BY <1>2, <1>3, <1>6, Zenon DEF thread_create_return, sleepVars, schedVars
<1>7. ASSUME NEW p \in Priority, thread_set_priority(p)
      PROVE  RunQueueOK(status, ready_list)' /\ WaitListsOK(status, waiters, sleep_list)'
  BY <1>3, <1>7, Zenon DEF thread_set_priority, sleepVars, schedVars
<1>8. ASSUME NEW n \in 1 .. MaxSleep, timer_sleep(n)
      PROVE  RunQueueOK(status, ready_list)' /\ WaitListsOK(status, waiters, sleep_list)'
  <2>1. current \in Thread /\ current # Idle /\ status[current] # "BLOCKED"
    BY <1>1, <1>8, Zenon DEF timer_sleep, Calling, SchedTypeOK, RunQueueOK
  <2>2. /\ RunQueueOK(status, ready_list)'
        /\ \A t \in Thread \ {Idle} :
              status'[t] = "BLOCKED" <=> t = current \/ status[t] = "BLOCKED"
    BY <1>1, <1>8, BlockLists, Zenon DEF timer_sleep
  <2>3. WaitListsOK(status', waiters, list_push_back(sleep_list, current))
    BY <1>1, <2>1, <2>2, WaitOnSleep, Zenon DEF SchedTypeOK
  <2> QED
    BY <1>8, <2>2, <2>3, Zenon DEF WaitListsOK, timer_sleep
<1>9. CASE idle
  <2>1. current = Idle
    BY <1>1, <1>9, Zenon DEF idle, At, PlacesOK, SchedTypeOK
  <2>2. /\ RunQueueOK(status, ready_list)'
        /\ \A t \in Thread \ {Idle} :
              status'[t] = "BLOCKED" <=> t = current \/ status[t] = "BLOCKED"
    BY <1>1, <1>9, BlockLists, Zenon DEF idle
  <2>3. WaitListsOK(status', waiters, sleep_list)
    BY <1>1, <2>1, <2>2, SameBlocked, Zenon
  <2> QED
    BY <1>9, <2>2, <2>3, Zenon DEF WaitListsOK, idle, sleepVars
<1>10. CASE timer_interrupt
  BY <1>3, <1>10, Zenon DEF timer_interrupt, schedVars
<1>11. CASE thread_tick_wake
  <2>1. PICK i \in DOMAIN sleep_list :
          /\ sleep_list' = list_remove(sleep_list, i)
          /\ ready_list' = list_push_back(ready_list, sleep_list[i])
          /\ status' = [status EXCEPT ![sleep_list[i]] = "READY"]
    BY <1>11, Zenon DEF thread_tick_wake
  <2>2. \A t \in Thread : status'[t] = IF t = sleep_list[i] THEN "READY" ELSE status[t]
    BY <1>1, <2>1, Zenon DEF SchedTypeOK
  <2>3. /\ sleep_list[i] \in Thread /\ sleep_list[i] # Idle /\ status[sleep_list[i]] = "BLOCKED"
        /\ WaitListsOK(status', waiters, list_remove(sleep_list, i))
    BY <1>1, <2>2, WakeSleeper DEF SchedTypeOK
  <2>4. RunQueueOK(status', ready_list')
    BY <1>1, <2>1, <2>3, UnblockLists, Zenon DEF SchedTypeOK
  <2> QED
    BY <1>11, <2>1, <2>3, <2>4, Zenon DEF WaitListsOK, RunQueueOK, thread_tick_wake
<1>12. CASE thread_tick_return
  BY <1>2, <1>3, <1>12, Zenon DEF thread_tick_return, sleepVars
<1> QED
  BY <1>4, <1>5, <1>6, <1>7, <1>8, <1>9, <1>10, <1>11, <1>12, Zenon DEF ThreadStep, Tick

(* The operations of semaphores.                                           *)
LEMMA SemaphoreStepLists ==
    ASSUME TypeOK, PlacesOK, ListsMatchStatus, SemaphoreStep
    PROVE  RunQueueOK(status, ready_list)' /\ WaitListsOK(status, waiters, sleep_list)'
<1>1. /\ RunQueueOK(status, ready_list) /\ WaitListsOK(status, waiters, sleep_list)
      /\ SchedTypeOK /\ sleep_list \in Seq(Thread) /\ waiters \in [Sema -> Seq(Thread)]
  BY PartsOfLists, Zenon DEF TypeOK, ThreadTypeOK, SchedTypeOK
<1>2. ASSUME UNCHANGED <<current, status, ready_list, sleep_list, waiters>>
      PROVE  RunQueueOK(status, ready_list)' /\ WaitListsOK(status, waiters, sleep_list)'
  BY <1>1, <1>2, Zenon DEF RunQueueOK, WaitListsOK
<1>3. ASSUME NEW s \in Semaphore, SemaDown(s) \/ SemaTryDown(s)
      PROVE  RunQueueOK(status, ready_list)' /\ WaitListsOK(status, waiters, sleep_list)'
  BY <1>2, <1>3, Zenon DEF SemaDown, SemaTryDown, threadVars, schedVars, sleepVars, semaVars
<1>4. CASE sema_down_wait
  <2> DEFINE s == sema_arg[current]
  <2>1. current \in Thread /\ current # Idle /\ status[current] # "BLOCKED" /\ s \in Sema
    BY <1>1, <1>4, Zenon DEF sema_down_wait, At, SchedTypeOK, PlacesOK, RunQueueOK
  <2>2. /\ RunQueueOK(status, ready_list)'
        /\ \A t \in Thread \ {Idle} :
              status'[t] = "BLOCKED" <=> t = current \/ status[t] = "BLOCKED"
    BY <1>1, <1>4, BlockLists, Zenon DEF sema_down_wait
  <2>3. WaitListsOK(status', [waiters EXCEPT ![s] = list_push_back(@, current)], sleep_list)
    <3> HIDE DEF s
    <3> QED
      BY <1>1, <2>1, <2>2, WaitOnSema, Zenon DEF SchedTypeOK
  <2> QED
    BY <1>4, <2>2, <2>3, Zenon DEF WaitListsOK, sema_down_wait, sleepVars
<1>5. CASE sema_down_return
  BY <1>2, <1>5, Zenon DEF sema_down_return, schedVars, sleepVars
<1>6. ASSUME NEW s \in Semaphore, SemaUp(s)
      PROVE  RunQueueOK(status, ready_list)' /\ WaitListsOK(status, waiters, sleep_list)'
  BY <1>6, SemaUpLists, Zenon DEF SemaUp, Sema, sleepVars
<1>7. ASSUME NEW s \in IrqSemaphore, IrqSemaUp(s)
      PROVE  RunQueueOK(status, ready_list)' /\ WaitListsOK(status, waiters, sleep_list)'
  <2>1. s \in Sema /\ current' = current /\ sleep_list' = sleep_list
    BY <1>7, SynchAssumption, Zenon DEF Sema, IrqSemaUp, sleepVars
  <2>2. ASSUME NEW i \in DOMAIN waiters[s],
               waiters' = [waiters EXCEPT ![s] = list_remove(@, i)],
               status' = [status EXCEPT ![waiters[s][i]] = "READY"],
               ready_list' = list_push_back(ready_list, waiters[s][i])
        PROVE  RunQueueOK(status, ready_list)' /\ WaitListsOK(status, waiters, sleep_list)'
    <3>1. \A t \in Thread : status'[t] = IF t = waiters[s][i] THEN "READY" ELSE status[t]
      BY <1>1, <2>2, Zenon DEF SchedTypeOK
    <3>2. Woken(status, waiters, s, i, status', waiters')
      BY <1>1, <2>1, <2>2, <3>1 DEF Woken
    <3>3. /\ waiters[s][i] \in Thread /\ waiters[s][i] # Idle
          /\ status[waiters[s][i]] = "BLOCKED"
          /\ WaitListsOK(status', waiters', sleep_list)
      BY <1>1, <2>1, <3>2, WakeLists, Zenon DEF SchedTypeOK
    <3>4. RunQueueOK(status', ready_list')
      BY <1>1, <2>2, <3>3, UnblockLists, Zenon DEF SchedTypeOK
    <3> QED
      BY <2>1, <2>2, <3>3, <3>4, Zenon DEF WaitListsOK, RunQueueOK
  <2> QED
    BY <1>2, <1>7, <2>1, <2>2, Zenon DEF IrqSemaUp
<1> QED
  BY <1>3, <1>4, <1>5, <1>6, <1>7, Zenon DEF SemaphoreStep

(* The operations of locks and conditions, thread_exit() and the second    *)
(* half of thread_set_priority().                                          *)
LEMMA OtherStepLists ==
    ASSUME TypeOK, PlacesOK, ListsMatchStatus,
           LockStep \/ ConditionStep \/ ThreadExit \/ ThreadSetPriorityReturn
    PROVE  RunQueueOK(status, ready_list)' /\ WaitListsOK(status, waiters, sleep_list)'
<1> USE DEF sleepVars
<1>1. /\ RunQueueOK(status, ready_list) /\ WaitListsOK(status, waiters, sleep_list)
      /\ SchedTypeOK
  BY PartsOfLists, Zenon DEF TypeOK, ThreadTypeOK, SchedTypeOK
<1>2. ASSUME UNCHANGED <<schedVars, sleep_list, waiters>>
      PROVE  RunQueueOK(status, ready_list)' /\ WaitListsOK(status, waiters, sleep_list)'
  BY <1>1, <1>2, Zenon DEF RunQueueOK, WaitListsOK, schedVars
<1>3. ASSUME NEW prio, thread_yield(status, ready_list, prio), UNCHANGED <<sleep_list, waiters>>
      PROVE  RunQueueOK(status, ready_list)' /\ WaitListsOK(status, waiters, sleep_list)'
  <2>1. /\ RunQueueOK(status, ready_list)'
        /\ \A t \in Thread \ {Idle} : status'[t] = "BLOCKED" <=> status[t] = "BLOCKED"
    BY <1>1, <1>3, YieldLists, Zenon DEF SchedTypeOK
  <2>2. WaitListsOK(status', waiters, sleep_list)
    BY <1>1, <2>1, SameBlocked, Zenon
  <2> QED
    BY <1>3, <2>1, <2>2, Zenon DEF WaitListsOK
<1>4. CASE LockStep
  <2>1. ASSUME NEW l \in Lock, LockAcquire(l) \/ LockTryAcquire(l) \/ lock_release_fault(l)
        PROVE  UNCHANGED <<schedVars, sleep_list, waiters>>
    BY <2>1, Zenon DEF LockAcquire, lock_acquire, LockTryAcquire, lock_release_fault, semaVars, synchVars
  <2>2. ASSUME NEW l \in Lock, LockRelease(l)
        PROVE  RunQueueOK(status, ready_list)' /\ WaitListsOK(status, waiters, sleep_list)'
    BY <2>2, SemaUpLists, Zenon DEF LockRelease, lock_release, Sema
  <2>3. CASE donate_priority \/ donate_priority_fault \/ lock_try_acquire_return
    BY <1>2, <2>3, Zenon
    DEF donate_priority, donate_priority_fault, lock_try_acquire_return, semaVars, synchVars
  <2>4. CASE lock_release_return
    BY <1>2, <1>3, <2>4, Zenon DEF lock_release_return, semaVars
  <2> QED
    BY <1>2, <1>4, <2>1, <2>2, <2>3, <2>4, Zenon DEF LockStep
<1>5. CASE ConditionStep
  <2>1. ASSUME NEW c \in Condition, cond_signal(c)
        PROVE  RunQueueOK(status, ready_list)' /\ WaitListsOK(status, waiters, sleep_list)'
    <3>1. \A i \in DOMAIN cond_waiters[c] : cond_waiters[c][i] \in Sema
      BY DEF TypeOK, Sema
    <3> QED
      BY <2>1, <3>1, SemaUpLists, Zenon DEF cond_signal
  <2>2. ASSUME NEW c \in Condition, CondWait(c)
        PROVE  RunQueueOK(status, ready_list)' /\ WaitListsOK(status, waiters, sleep_list)'
    <3>1. CondLock[c] \in Sema
      BY SynchAssumption, Zenon DEF Sema
    <3> QED
      BY <2>2, <3>1, SemaUpLists, Zenon DEF CondWait, lock_release
  <2>3. ASSUME NEW c \in Condition, CondBroadcast(c)
        PROVE  UNCHANGED <<schedVars, sleep_list, waiters>>
    BY <2>3, Zenon DEF CondBroadcast, semaVars
  <2>4. CASE CondReacquire \/ cond_broadcast_return
    BY <1>2, <2>4, Zenon DEF CondReacquire, lock_acquire, cond_broadcast_return, semaVars
  <2>5. CASE cond_broadcast_signal
    <3>1. cond_arg[current] \in Condition
      BY <1>1, <2>5, Zenon DEF cond_broadcast_signal, At, PlacesOK, SchedTypeOK
    <3> QED
      BY <2>1, <2>5, <3>1, Zenon DEF cond_broadcast_signal
  <2> QED
    BY <1>2, <1>5, <2>1, <2>2, <2>3, <2>4, <2>5, Zenon DEF ConditionStep, CondSignal
<1>6. CASE ThreadExit
  <2> DEFINE st == [status EXCEPT ![current] = "DYING"]
  <2>1. /\ st \in [Thread -> Status] /\ schedule(st, ready_list, priority)
        /\ UNCHANGED <<sleep_list, waiters>>
    BY <1>1, <1>6, Zenon DEF ThreadExit, thread_exit, SchedTypeOK, Status, synchVars, semaVars
  <2>2. \A t \in Thread : st[t] = IF t = current THEN "DYING" ELSE status[t]
    BY <1>1, Zenon DEF SchedTypeOK
  <2> HIDE DEF st
  <2>3. /\ \A t \in Thread : st[t] # "RUNNING" /\ (t \in Elems(ready_list) <=> st[t] = "READY" /\ t # Idle)
        /\ Distinct(ready_list)
    BY <1>1, <2>2, Zenon DEF RunQueueOK
  <2>4. /\ RunQueueOK(status, ready_list)'
        /\ \A t \in Thread \ {Idle} : status'[t] = "BLOCKED" <=> st[t] = "BLOCKED"
    BY <1>1, <2>1, <2>3, ScheduleLists, Zenon DEF SchedTypeOK
  <2>5. \A t \in Thread \ {Idle} : status'[t] = "BLOCKED" <=> status[t] = "BLOCKED"
    BY <1>1, <2>2, <2>4, Zenon DEF RunQueueOK
  <2>6. WaitListsOK(status', waiters, sleep_list)
    BY <1>1, <2>5, SameBlocked, Zenon
  <2> QED
    BY <2>1, <2>4, <2>6, Zenon DEF WaitListsOK
<1>7. CASE ThreadSetPriorityReturn
  BY <1>2, <1>3, <1>7, Zenon
  DEF ThreadSetPriorityReturn, thread_set_priority_return, synchVars, semaVars
<1> QED
  BY <1>4, <1>5, <1>6, <1>7, Zenon

(* The lists and the statuses of threads agree in every reachable state:   *)
(* the struct thread's one elem is never linked into two lists, a ready    *)
(* thread is on ready_list, and a blocked thread is on the list of what it *)
(* waits for, so that an unblocked thread is always one that was blocked   *)
(* and none is forgotten.                                                  *)
THEOREM ListsInvariant == Spec => []ListsMatchStatus
<1> DEFINE Inv == TypeOK /\ PlacesOK /\ ListsMatchStatus
<1>1. Init => ListsMatchStatus
  <2> SUFFICES ASSUME Init PROVE ListsMatchStatus
    BY Zenon
  <2>1. TypeOK
    BY InitTypes, Zenon DEF TypesAndPlaces
  <2>2. Elems(<<>>) = {} /\ Distinct(<<>>)
    BY DEF Elems, Distinct
  <2>3. RunQueueOK(status, ready_list)
    BY <2>2, ThreadAssumption, Zenon DEF Init, ThreadInit, RunQueueOK
  <2>4. WaitListsOK(status, waiters, sleep_list)
    BY <2>2, ThreadAssumption, Zenon DEF Init, ThreadInit, WaitListsOK
  <2> QED
    BY <2>1, <2>3, <2>4, PartsOfLists, Zenon
<1>2. TypeOK /\ PlacesOK /\ TypeOK' /\ ListsMatchStatus /\ [Next]_vars => ListsMatchStatus'
  <2> SUFFICES ASSUME TypeOK, PlacesOK, TypeOK', ListsMatchStatus, [Next]_vars
               PROVE  RunQueueOK(status, ready_list)' /\ WaitListsOK(status, waiters, sleep_list)'
    BY PartsOfListsNext, Zenon
  <2>1. CASE ThreadStep /\ UNCHANGED synchVars
    BY <2>1, ThreadStepLists, Zenon DEF synchVars, semaVars
  <2>2. CASE UNCHANGED vars
    BY <2>2, PartsOfLists, Zenon
    DEF RunQueueOK, WaitListsOK, vars, threadVars, synchVars, schedVars, sleepVars, semaVars
  <2> QED
    BY <2>1, <2>2, SemaphoreStepLists, OtherStepLists, Zenon DEF Next
<1> QED
  BY <1>1, <1>2, TypesAndPlacesInvariant, PTL DEF Spec
-----------------------------------------------------------------------------
(* The lock whose lock_acquire() a thread is in, if any.                   *)
Wanted ==
    [t \in Thread |-> IF pc[t] \in {"donate", "down"} /\ sema_arg[t] \in Lock
                      THEN sema_arg[t] ELSE Null]

(* The inductive invariant: MutualExclusion and FrontRecordIsWaiting, and  *)
(* what makes them inductive, that a thread in lock_acquire() has the      *)
(* record of its lock at the front of its list.                            *)
RecordsOK ==
    /\ \A l \in Lock : value[l] = IF holder[l] = Null THEN 1 ELSE 0
    /\ \A l \in Lock, t \in Thread :
          holder[l] = t <=> \E i \in DOMAIN lock_priority_list[t] :
                               /\ lock_priority_list[t][i].lock = l
                               /\ ~lock_priority_list[t][i].waiting
    /\ \A t \in Thread : \A i, j \in DOMAIN lock_priority_list[t] :
          lock_priority_list[t][i].lock = lock_priority_list[t][j].lock => i = j
    /\ \A t \in Thread : \A i \in DOMAIN lock_priority_list[t] :
          lock_priority_list[t][i].waiting
             <=> i = 1 /\ Wanted[t] = lock_priority_list[t][i].lock
    /\ \A t \in Thread : Wanted[t] # Null =>
          1 \in DOMAIN lock_priority_list[t] /\ lock_priority_list[t][1].lock = Wanted[t]

(* Nobody is in lock_try_acquire(), and a page without a thread is where   *)
(* the last one in it called thread_exit().                                *)
UntriedOK ==
    /\ \A t \in Thread : pc[t] # "tried"
    /\ \A t \in Thread : status[t] = "NONE" => pc[t] = "run"
-----------------------------------------------------------------------------
(* The four kinds of steps.                                                *)

(* The step is of no concern to locks: at most priorities are recorded.    *)
KeepLocks ==
    /\ \A l \in Lock : value'[l] = value[l] /\ holder'[l] = holder[l]
    /\ \A t \in Thread :
          /\ Wanted'[t] = Wanted[t]
          /\ DOMAIN lock_priority_list'[t] = DOMAIN lock_priority_list[t]
          /\ \A i \in DOMAIN lock_priority_list[t] :
                /\ lock_priority_list'[t][i].lock = lock_priority_list[t][i].lock
                /\ lock_priority_list'[t][i].waiting = lock_priority_list[t][i].waiting

(* t calls lock_acquire(l).                                                *)
AskFor(t, l) ==
    /\ holder[l] # t /\ Wanted[t] = Null
    /\ \A m \in Lock : value'[m] = value[m] /\ holder'[m] = holder[m]
    /\ \A u \in Thread \ {t} : /\ lock_priority_list'[u] = lock_priority_list[u]
                               /\ Wanted'[u] = Wanted[u]
    /\ Wanted'[t] = l
    /\ \E p \in Priority :
          lock_priority_list'[t] = list_push_front(lock_priority_list[t],
                                      [lock |-> l, waiting |-> TRUE, priority |-> p])

(* The sema_down() in t's lock_acquire(l) returns.                         *)
Obtain(t, l) ==
    /\ Wanted[t] = l /\ value[l] > 0
    /\ value'[l] = value[l] - 1 /\ holder'[l] = t
    /\ \A m \in Lock \ {l} : value'[m] = value[m] /\ holder'[m] = holder[m]
    /\ \A u \in Thread \ {t} : /\ lock_priority_list'[u] = lock_priority_list[u]
                               /\ Wanted'[u] = Wanted[u]
    /\ Wanted'[t] = Null
    /\ lock_priority_list'[t] = [lock_priority_list[t] EXCEPT ![1].waiting = FALSE]

(* t calls lock_release(l), itself or in cond_wait().                      *)
GiveBack(t, l) ==
    /\ holder[l] = t /\ Wanted[t] = Null
    /\ value'[l] = value[l] + 1 /\ holder'[l] = Null
    /\ \A m \in Lock \ {l} : value'[m] = value[m] /\ holder'[m] = holder[m]
    /\ \A u \in Thread : Wanted'[u] = Wanted[u]
    /\ \A u \in Thread \ {t} : lock_priority_list'[u] = lock_priority_list[u]
    /\ \E i \in DOMAIN lock_priority_list[t] :
          /\ find_lock_priority(lock_priority_list[t], l, i)
          /\ lock_priority_list'[t] = list_remove(lock_priority_list[t], i)
-----------------------------------------------------------------------------
(* A step that is of no concern to locks keeps the invariant.              *)
LEMMA KeepLocksOK ==
    ASSUME TypeOK, RecordsOK, KeepLocks PROVE RecordsOK'
<1>1. /\ \A l \in Lock : value'[l] = value[l] /\ holder'[l] = holder[l]
      /\ \A t \in Thread : Wanted'[t] = Wanted[t]
      /\ \A t \in Thread : DOMAIN lock_priority_list'[t] = DOMAIN lock_priority_list[t]
      /\ \A t \in Thread : \A i \in DOMAIN lock_priority_list[t] :
                /\ lock_priority_list'[t][i].lock = lock_priority_list[t][i].lock
                /\ lock_priority_list'[t][i].waiting = lock_priority_list[t][i].waiting
  BY Zenon DEF KeepLocks
<1> QED
  BY <1>1 DEF RecordsOK

(* Asking for a lock keeps it.                                             *)
LEMMA AskForOK ==
    ASSUME TypeOK, RecordsOK, NEW t \in Thread, NEW l \in Lock, AskFor(t, l)
    PROVE  RecordsOK'
<1> DEFINE old == lock_priority_list[t]
           new == lock_priority_list'[t]
<1>1. PICK p \in Priority :
         new = list_push_front(old, [lock |-> l, waiting |-> TRUE, priority |-> p])
  BY Zenon DEF AskFor
<1> DEFINE rec == [lock |-> l, waiting |-> TRUE, priority |-> p]
<1>2. /\ old \in Seq(LockPriority) /\ new = list_push_front(old, rec)
      /\ rec \in LockPriority /\ rec.lock = l /\ rec.waiting = TRUE
  BY <1>1, Zenon DEF TypeOK, LockPriority
<1> HIDE DEF old, new, rec
<1>3. /\ DOMAIN new = 1 .. Len(old) + 1 /\ DOMAIN old = 1 .. Len(old) /\ Len(old) \in Nat
      /\ new[1].lock = l /\ new[1].waiting = TRUE
      /\ \A i \in 1 .. Len(old) + 1 : i # 1 => i - 1 \in DOMAIN old /\ new[i] = old[i - 1]
  <2>1. /\ DOMAIN new = 1 .. Len(old) + 1 /\ DOMAIN old = 1 .. Len(old) /\ Len(old) \in Nat
        /\ new[1] = rec
        /\ \A i \in 1 .. Len(old) + 1 : i # 1 => new[i] = old[i - 1]
    <3> DEFINE pushed == list_push_front(old, rec)
    <3>0. old \in Seq(LockPriority) /\ rec \in LockPriority
      BY <1>2, Zenon
    <3>1. /\ DOMAIN pushed = 1 .. Len(old) + 1 /\ DOMAIN old = 1 .. Len(old) /\ Len(old) \in Nat
          /\ pushed[1] = rec
          /\ \A i \in 1 .. Len(old) + 1 : i # 1 => pushed[i] = old[i - 1]
      BY <3>0, PushFrontShifts
    <3> QED
      BY <1>2, <3>1, Zenon
  <2> QED
    BY <1>2, <2>1
<1>4. \A i \in DOMAIN old : i + 1 \in DOMAIN new /\ new[i + 1] = old[i]
  BY <1>3
<1>5. l # Null /\ Wanted[t] = Null /\ Wanted'[t] = l /\ holder[l] # t
  BY SynchAssumption, Zenon DEF AskFor, Sema
<1>6. \A i \in DOMAIN old : ~old[i].waiting /\ old[i].lock \in Lock /\ old[i].lock # l
  <2>1. \A i \in DOMAIN old : old[i].lock \in Lock /\ old[i].lock # Null
    <3>1. \A i \in DOMAIN old : old[i] \in LockPriority
      BY <1>2
    <3> QED
      BY <3>1, SynchAssumption, Zenon DEF LockPriority, Sema
  <2> QED
    BY <1>5, <2>1 DEF RecordsOK, old
<1>7. \A m \in Lock : (\E i \in DOMAIN new : new[i].lock = m /\ ~new[i].waiting)
                        <=> (\E i \in DOMAIN old : old[i].lock = m /\ ~old[i].waiting)
  BY <1>3, <1>4, Zenon
<1>8. \A i, j \in DOMAIN new : new[i].lock = new[j].lock => i = j
  <2>1. \A i, j \in DOMAIN old : old[i].lock = old[j].lock => i = j
    BY Zenon DEF RecordsOK, old
  <2>2. \A i \in DOMAIN new : i # 1 => i - 1 \in DOMAIN old /\ new[i].lock = old[i - 1].lock
    BY <1>3, Zenon
  <2>3. \A i \in DOMAIN new : i # 1 => new[i].lock # l
    BY <1>6, <2>2, Zenon
  <2>4. DOMAIN new \subseteq Nat /\ new[1].lock = l
    BY <1>3
  <2> HIDE DEF new
  <2> QED
    BY <2>1, <2>2, <2>3, <2>4
<1>9. \A i \in DOMAIN new : new[i].waiting <=> i = 1 /\ Wanted'[t] = new[i].lock
  BY <1>3, <1>5, <1>6, Zenon
<1>10. 1 \in DOMAIN new
  BY <1>3
<1>11. /\ \A m \in Lock : value'[m] = value[m] /\ holder'[m] = holder[m]
       /\ \A u \in Thread : u # t => /\ lock_priority_list'[u] = lock_priority_list[u]
                                     /\ Wanted'[u] = Wanted[u]
  BY Zenon DEF AskFor
<1> QED
  <2>1. \A m \in Lock : value'[m] = IF holder'[m] = Null THEN 1 ELSE 0
    BY <1>11 DEF RecordsOK
  <2>2. \A m \in Lock, u \in Thread :
          holder'[m] = u <=> \E i \in DOMAIN lock_priority_list'[u] :
                               /\ lock_priority_list'[u][i].lock = m
                               /\ ~lock_priority_list'[u][i].waiting
    BY <1>7, <1>11 DEF RecordsOK, old, new
  <2>3. \A u \in Thread : \A i, j \in DOMAIN lock_priority_list'[u] :
          lock_priority_list'[u][i].lock = lock_priority_list'[u][j].lock => i = j
    BY <1>8, <1>11 DEF RecordsOK, old, new
  <2>4. \A u \in Thread : \A i \in DOMAIN lock_priority_list'[u] :
          lock_priority_list'[u][i].waiting
             <=> i = 1 /\ Wanted'[u] = lock_priority_list'[u][i].lock
    BY <1>9, <1>11 DEF RecordsOK, old, new
  <2>5. \A u \in Thread : Wanted'[u] # Null =>
          1 \in DOMAIN lock_priority_list'[u] /\ lock_priority_list'[u][1].lock = Wanted'[u]
    BY <1>3, <1>5, <1>10, <1>11 DEF RecordsOK, old, new
  <2> QED
    BY <2>1, <2>2, <2>3, <2>4, <2>5, Zenon DEF RecordsOK

(* Obtaining a lock keeps it.                                              *)
LEMMA ObtainOK ==
    ASSUME TypeOK, RecordsOK, NEW t \in Thread, NEW l \in Lock, Obtain(t, l)
    PROVE  RecordsOK'
<1> DEFINE old == lock_priority_list[t]
           new == lock_priority_list'[t]
<1>1. /\ old \in Seq(LockPriority) /\ new = [old EXCEPT ![1].waiting = FALSE]
      /\ Wanted[t] = l /\ l # Null /\ Wanted'[t] = Null
  BY SynchAssumption, Zenon DEF TypeOK, Obtain, Sema
<1>2. /\ DOMAIN new = DOMAIN old
      /\ \A i \in DOMAIN old : /\ new[i].lock = old[i].lock
                                /\ new[i].waiting = (i # 1 /\ old[i].waiting)
  <2> HIDE DEF old, new
  <2>1. old \in Seq(LockPriority)
    BY <1>1, Zenon
  <2>2. LET mark == [old EXCEPT ![1].waiting = FALSE]
        IN  /\ DOMAIN mark = DOMAIN old
            /\ \A i \in DOMAIN old : /\ mark[i].lock = old[i].lock
                                      /\ mark[i].waiting = (i # 1 /\ old[i].waiting)
    BY <2>1, MarkOwned, Zenon
  <2> QED
    BY <1>1, <2>2, Zenon
<1>3. \A i \in DOMAIN old : old[i].lock \in Lock /\ old[i].lock # Null
  <2>1. \A i \in DOMAIN old : old[i] \in LockPriority
    BY <1>1
  <2> QED
    BY <2>1, SynchAssumption, Zenon DEF LockPriority, Sema
<1>4. /\ 1 \in DOMAIN old /\ old[1].lock = l
      /\ \A i, j \in DOMAIN old : old[i].lock = old[j].lock => i = j
      /\ \A i \in DOMAIN old : old[i].waiting <=> i = 1
  BY <1>1 DEF RecordsOK
<1>5. holder[l] = Null /\ value[l] = 1
  <2>1. value[l] \in Nat /\ value[l] > 0
    BY Zenon DEF TypeOK, Sema, Obtain
  <2> QED
    BY <2>1 DEF RecordsOK
<1>6. /\ value'[l] = 0 /\ holder'[l] = t /\ t # Null
      /\ \A m \in Lock : m # l => value'[m] = value[m] /\ holder'[m] = holder[m]
      /\ \A u \in Thread : u # t => /\ lock_priority_list'[u] = lock_priority_list[u]
                                    /\ Wanted'[u] = Wanted[u]
  BY <1>5, SynchAssumption DEF Obtain
<1>7. \A m \in Lock : (\E i \in DOMAIN new : new[i].lock = m /\ ~new[i].waiting)
                        <=> m = l \/ (\E i \in DOMAIN old : old[i].lock = m /\ ~old[i].waiting)
  <2> HIDE DEF old, new
  <2> QED
    BY <1>2, <1>4, ZenonT(40)
<1>8. \A i \in DOMAIN new : ~new[i].waiting /\ new[i].lock # Null
  <2> HIDE DEF old, new
  <2> QED
    BY <1>2, <1>3, <1>4, Zenon
<1>9. \A m \in Lock, u \in Thread :
          holder[m] = u <=> \E i \in DOMAIN lock_priority_list[u] :
                              /\ lock_priority_list[u][i].lock = m
                              /\ ~lock_priority_list[u][i].waiting
  BY Zenon DEF RecordsOK
<1> QED
  <2>1. \A m \in Lock : value'[m] = IF holder'[m] = Null THEN 1 ELSE 0
    BY <1>6 DEF RecordsOK
  <2>2. \A m \in Lock, u \in Thread :
          holder'[m] = u <=> \E i \in DOMAIN lock_priority_list'[u] :
                               /\ lock_priority_list'[u][i].lock = m
                               /\ ~lock_priority_list'[u][i].waiting
    <3> SUFFICES ASSUME NEW m \in Lock, NEW u \in Thread
                 PROVE  holder'[m] = u <=> \E i \in DOMAIN lock_priority_list'[u] :
                                              /\ lock_priority_list'[u][i].lock = m
                                              /\ ~lock_priority_list'[u][i].waiting
      BY Zenon
    <3>1. CASE u = t
      BY <1>6, <1>7, <1>9, <3>1
    <3>2. CASE u # t
      BY <1>5, <1>6, <1>9, <3>2, SynchAssumption
    <3> QED
      BY <3>1, <3>2, Zenon
  <2>3. \A u \in Thread : \A i, j \in DOMAIN lock_priority_list'[u] :
          lock_priority_list'[u][i].lock = lock_priority_list'[u][j].lock => i = j
    BY <1>2, <1>4, <1>6 DEF RecordsOK
  <2>4. \A u \in Thread : \A i \in DOMAIN lock_priority_list'[u] :
          lock_priority_list'[u][i].waiting
             <=> i = 1 /\ Wanted'[u] = lock_priority_list'[u][i].lock
    <3> SUFFICES ASSUME NEW u \in Thread, NEW i \in DOMAIN lock_priority_list'[u]
                 PROVE  lock_priority_list'[u][i].waiting
                           <=> i = 1 /\ Wanted'[u] = lock_priority_list'[u][i].lock
      BY Zenon
    <3>1. CASE u = t
      BY <1>1, <1>8, <3>1, Zenon
    <3>2. CASE u # t
      BY <1>6, <3>2 DEF RecordsOK
    <3> QED
      BY <3>1, <3>2, Zenon
  <2>5. \A u \in Thread : Wanted'[u] # Null =>
          1 \in DOMAIN lock_priority_list'[u] /\ lock_priority_list'[u][1].lock = Wanted'[u]
    BY <1>1, <1>6 DEF RecordsOK
  <2> QED
    BY <2>1, <2>2, <2>3, <2>4, <2>5, Zenon DEF RecordsOK

(* Giving a lock back keeps it.                                            *)
LEMMA GiveBackOK ==
    ASSUME TypeOK, RecordsOK, NEW t \in Thread, NEW l \in Lock, GiveBack(t, l)
    PROVE  RecordsOK'
<1> DEFINE old == lock_priority_list[t]
           new == lock_priority_list'[t]
<1>1. PICK k \in DOMAIN old : old[k].lock = l /\ new = list_remove(old, k)
  BY Zenon DEF GiveBack, find_lock_priority
<1>2. /\ old \in Seq(LockPriority) /\ holder[l] = t /\ t # Null /\ Wanted[t] = Null
      /\ value[l] = 0
  <2>1. old \in Seq(LockPriority)
    BY Zenon DEF TypeOK
  <2>2. holder[l] = t /\ t # Null /\ Wanted[t] = Null
    BY SynchAssumption, Zenon DEF GiveBack
  <2>3. value[l] = IF holder[l] = Null THEN 1 ELSE 0
    BY Zenon DEF RecordsOK
  <2> QED
    BY <2>1, <2>2, <2>3, Zenon
<1>3. /\ DOMAIN old = 1 .. Len(old) /\ Len(old) \in Nat /\ k \in 1 .. Len(old)
      /\ DOMAIN new = 1 .. Len(old) - 1
      /\ \A j \in 1 .. Len(old) - 1 : new[j] = IF j < k THEN old[j] ELSE old[j + 1]
  <2> HIDE DEF old, new
  <2>1. DOMAIN old = 1 .. Len(old) /\ Len(old) \in Nat /\ k \in 1 .. Len(old)
    BY <1>1, <1>2
  <2>2. list_remove(old, k) \in Seq(LockPriority) /\ Len(list_remove(old, k)) = Len(old) - 1
    BY <1>1, <1>2, RemoveAtPositions, Zenon
  <2>3. DOMAIN list_remove(old, k) = 1 .. Len(old) - 1
    BY <2>2
  <2>4. \A j \in 1 .. Len(old) - 1 :
            list_remove(old, k)[j] = IF j < k THEN old[j] ELSE old[j + 1]
    BY <1>1, <1>2, RemoveAtPositions, ZenonT(40)
  <2> QED
    BY <1>1, <2>1, <2>3, <2>4, Zenon
<1>4. /\ \A i \in DOMAIN old : ~old[i].waiting /\ old[i].lock # Null
      /\ \A i, j \in DOMAIN old : old[i].lock = old[j].lock => i = j
  <2>1. \A i \in DOMAIN old : old[i].lock \in Lock /\ old[i].lock # Null
    <3>1. \A i \in DOMAIN old : old[i] \in LockPriority
      BY <1>2
    <3> QED
      BY <3>1, SynchAssumption, Zenon DEF LockPriority, Sema
  <2>2. \A i \in DOMAIN old : old[i].waiting <=> i = 1 /\ Wanted[t] = old[i].lock
    BY Zenon DEF RecordsOK
  <2>3. \A i, j \in DOMAIN old : old[i].lock = old[j].lock => i = j
    BY Zenon DEF RecordsOK
  <2> HIDE DEF old, new
  <2> QED
    BY <1>2, <2>1, <2>2, <2>3, Zenon
<1> DEFINE from(j) == IF j < k THEN j ELSE j + 1
<1>5. /\ \A j \in DOMAIN new : from(j) \in DOMAIN old /\ from(j) # k /\ new[j] = old[from(j)]
      /\ \A i \in DOMAIN old : i # k => \E j \in DOMAIN new : from(j) = i
      /\ \A i, j \in DOMAIN new : from(i) = from(j) => i = j
  <2> HIDE DEF old, new
  <2>1. \A j \in DOMAIN new : from(j) \in DOMAIN old /\ from(j) # k /\ new[j] = old[from(j)]
    BY <1>3
  <2>2. ASSUME NEW i \in DOMAIN old, i # k
        PROVE  \E j \in DOMAIN new : from(j) = i
    <3>1. CASE i < k
      BY <1>3, <2>2, <3>1
    <3>2. CASE ~(i < k)
      <4>1. i - 1 \in DOMAIN new /\ from(i - 1) = i
        BY <1>3, <2>2, <3>2
      <4> QED
        BY <4>1, Zenon
    <3> QED
      BY <3>1, <3>2, Zenon
  <2>3. \A i, j \in DOMAIN new : from(i) = from(j) => i = j
    BY <1>3
  <2> QED
    BY <2>1, <2>2, <2>3, Zenon
<1> HIDE DEF from
<1>6. /\ \A i \in DOMAIN new : ~new[i].waiting /\ new[i].lock # Null
      /\ \A i, j \in DOMAIN new : new[i].lock = new[j].lock => i = j
  <2> HIDE DEF old, new
  <2> QED
    BY <1>4, <1>5
<1>7. \A m \in Lock : (\E i \in DOMAIN new : new[i].lock = m /\ ~new[i].waiting)
                        <=> m # l /\ (\E i \in DOMAIN old : old[i].lock = m /\ ~old[i].waiting)
  <2> HIDE DEF old, new
  <2> QED
    BY <1>1, <1>4, <1>5
<1>8. /\ value'[l] = 1 /\ holder'[l] = Null
      /\ \A m \in Lock : m # l => value'[m] = value[m] /\ holder'[m] = holder[m]
      /\ \A u \in Thread : u # t => lock_priority_list'[u] = lock_priority_list[u]
      /\ \A u \in Thread : Wanted'[u] = Wanted[u]
  BY <1>2 DEF GiveBack
<1>9. \A m \in Lock, u \in Thread :
          holder[m] = u <=> \E i \in DOMAIN lock_priority_list[u] :
                              /\ lock_priority_list[u][i].lock = m
                              /\ ~lock_priority_list[u][i].waiting
  BY Zenon DEF RecordsOK
<1> QED
  <2>1. \A m \in Lock : value'[m] = IF holder'[m] = Null THEN 1 ELSE 0
    BY <1>8 DEF RecordsOK
  <2>2. \A m \in Lock, u \in Thread :
          holder'[m] = u <=> \E i \in DOMAIN lock_priority_list'[u] :
                               /\ lock_priority_list'[u][i].lock = m
                               /\ ~lock_priority_list'[u][i].waiting
    <3> SUFFICES ASSUME NEW m \in Lock, NEW u \in Thread
                 PROVE  holder'[m] = u <=> \E i \in DOMAIN lock_priority_list'[u] :
                                              /\ lock_priority_list'[u][i].lock = m
                                              /\ ~lock_priority_list'[u][i].waiting
      BY Zenon
    <3>1. CASE u = t
      BY <1>2, <1>7, <1>8, <1>9, <3>1
    <3>2. CASE u # t
      BY <1>2, <1>8, <1>9, <3>2, SynchAssumption
    <3> QED
      BY <3>1, <3>2, Zenon
  <2>3. \A u \in Thread : \A i, j \in DOMAIN lock_priority_list'[u] :
          lock_priority_list'[u][i].lock = lock_priority_list'[u][j].lock => i = j
    BY <1>6, <1>8 DEF RecordsOK
  <2>4. \A u \in Thread : \A i \in DOMAIN lock_priority_list'[u] :
          lock_priority_list'[u][i].waiting
             <=> i = 1 /\ Wanted'[u] = lock_priority_list'[u][i].lock
    BY <1>2, <1>6, <1>8 DEF RecordsOK
  <2>5. \A u \in Thread : Wanted'[u] # Null =>
          1 \in DOMAIN lock_priority_list'[u] /\ lock_priority_list'[u][1].lock = Wanted'[u]
    BY <1>2, <1>8 DEF RecordsOK
  <2> QED
    BY <2>1, <2>2, <2>3, <2>4, <2>5, Zenon DEF RecordsOK
-----------------------------------------------------------------------------
(* schedule() empties the page of a dying thread only.                     *)
LEMMA ScheduleNone ==
    ASSUME NEW st, NEW rl, NEW prio, schedule(st, rl, prio), NEW t \in Thread,
           status'[t] = "NONE"
    PROVE  st[t] = "NONE" \/ (t = current /\ st[t] = "DYING")
  BY Zenon DEF schedule

(* A thread that yields is neither dying nor without a page.               *)
LEMMA YieldNone ==
    ASSUME NEW st \in [Thread -> Status], NEW rl, NEW prio, thread_yield(st, rl, prio),
           current \in Thread, NEW t \in Thread, status'[t] = "NONE"
    PROVE  st[t] = "NONE"
<1> DEFINE ready == [st EXCEPT ![current] = "READY"]
           queue == IF current = Idle THEN rl ELSE list_push_back(rl, current)
<1>1. schedule(ready, queue, prio)
  BY Zenon DEF thread_yield
<1>2. \A u \in Thread : ready[u] = IF u = current THEN "READY" ELSE st[u]
  BY Zenon
<1> HIDE DEF ready, queue
<1> QED
  BY <1>1, <1>2, ScheduleNone, Zenon

(* Nor is one that blocks.                                                 *)
LEMMA BlockNone ==
    ASSUME SchedTypeOK, thread_block, NEW t \in Thread, status'[t] = "NONE"
    PROVE  status[t] = "NONE"
<1> DEFINE blocked == [status EXCEPT ![current] = "BLOCKED"]
<1>1. schedule(blocked, ready_list, priority)
  BY Zenon DEF thread_block
<1>2. \A u \in Thread : blocked[u] = IF u = current THEN "BLOCKED" ELSE status[u]
  BY Zenon DEF SchedTypeOK
<1> HIDE DEF blocked
<1> QED
  BY <1>1, <1>2, ScheduleNone, Zenon

(* sema_up() empties no page.                                              *)
LEMMA SemaUpNone ==
    ASSUME TypeOK, NEW val, NEW s \in Sema, sema_up(val, s), NEW t \in Thread,
           status'[t] = "NONE"
    PROVE  status[t] = "NONE"
<1>1. CASE status' = status
  BY <1>1, Zenon
<1>2. ASSUME NEW u \in Thread, NEW rl,
             \/ thread_yield([status EXCEPT ![u] = "READY"], rl, priority)
             \/ status' = [status EXCEPT ![u] = "READY"]
      PROVE  status[t] = "NONE"
  <2> DEFINE st == [status EXCEPT ![u] = "READY"]
  <2>1. /\ current \in Thread /\ st \in [Thread -> Status]
        /\ \A v \in Thread : st[v] = IF v = u THEN "READY" ELSE status[v]
    BY Zenon DEF TypeOK, ThreadTypeOK, Status
  <2>2. thread_yield(st, rl, priority) \/ status' = st
    BY <1>2, Zenon
  <2> HIDE DEF st
  <2> QED
    BY <2>1, <2>2, YieldNone, Zenon
<1>3. \/ status' = status
      \/ \E i \in DOMAIN waiters[s] :
            \/ thread_yield([status EXCEPT ![waiters[s][i]] = "READY"],
                            list_push_back(ready_list, waiters[s][i]), priority)
            \/ status' = [status EXCEPT ![waiters[s][i]] = "READY"]
  BY Zenon DEF sema_up, schedVars
<1>4. \A i \in DOMAIN waiters[s] : waiters[s][i] \in Thread
  BY DEF TypeOK
<1> QED
  BY <1>1, <1>2, <1>3, <1>4, Zenon

(* Only thread_exit() empties a page.                                      *)
LEMMA NoneStep ==
    ASSUME TypeOK, PlacesOK, [Next]_vars, NEW t \in Thread, status'[t] = "NONE"
    PROVE  status[t] = "NONE" \/ (t = current /\ ThreadExit)
<1>0. SchedTypeOK
  BY Zenon DEF TypeOK, ThreadTypeOK, SchedTypeOK
<1>1. ASSUME \/ status' = status
             \/ thread_yield(status, ready_list, priority)
             \/ thread_yield(status, ready_list, priority')
             \/ thread_block
             \/ \E s \in Sema, val \in {value, [value EXCEPT ![current] = 0]} : sema_up(val, s)
             \/ \E u \in Thread : status' = [status EXCEPT ![u] = "READY"]
      PROVE  status[t] = "NONE"
  <2>1. ASSUME NEW prio, thread_yield(status, ready_list, prio) PROVE status[t] = "NONE"
    BY <1>0, <2>1, YieldNone, Zenon DEF SchedTypeOK
  <2>2. ASSUME NEW s \in Sema, NEW val, sema_up(val, s) PROVE status[t] = "NONE"
    BY <2>2, SemaUpNone, Zenon
  <2>3. ASSUME NEW u \in Thread, status' = [status EXCEPT ![u] = "READY"]
        PROVE  status[t] = "NONE"
    BY <1>0, <2>3, Zenon DEF SchedTypeOK
  <2> QED
    BY <1>0, <1>1, <2>1, <2>2, <2>3, BlockNone, Zenon
<1>2. CASE ThreadStep /\ UNCHANGED synchVars
  <2>1. CASE Yield \/ thread_create_return \/ \E p \in Priority : thread_set_priority(p)
    BY <1>1, <2>1, Zenon DEF Yield, thread_create_return, thread_set_priority, schedVars
  <2>2. ASSUME NEW u \in Thread, NEW p \in Priority, thread_create(u, p)
        PROVE  status[t] = "NONE"
    BY <1>1, <2>2, Zenon DEF thread_create
  <2>3. CASE idle \/ \E n \in 1 .. MaxSleep : timer_sleep(n)
    BY <1>1, <2>3, Zenon DEF idle, timer_sleep
  <2>4. CASE timer_interrupt \/ thread_tick_return
    BY <1>1, <2>4, Zenon DEF timer_interrupt, thread_tick_return, schedVars
  <2>5. CASE thread_tick_wake
    <3>1. \A i \in DOMAIN sleep_list : sleep_list[i] \in Thread
      BY DEF TypeOK, ThreadTypeOK
    <3> QED
      BY <1>1, <2>5, <3>1, Zenon DEF thread_tick_wake
  <2> QED
    BY <1>2, <2>1, <2>2, <2>3, <2>4, <2>5, Zenon DEF ThreadStep, Tick
<1>3. CASE ThreadSetPriorityReturn
  BY <1>1, <1>3, Zenon DEF ThreadSetPriorityReturn, thread_set_priority_return, schedVars
<1>4. CASE ThreadExit
  <2> DEFINE st == [status EXCEPT ![current] = "DYING"]
  <2>1. /\ schedule(st, ready_list, priority)
        /\ \A u \in Thread : u # current => st[u] = status[u]
    BY <1>0, <1>4, Zenon DEF ThreadExit, thread_exit, SchedTypeOK
  <2> HIDE DEF st
  <2> QED
    BY <1>4, <2>1, ScheduleNone, Zenon
<1>5. CASE SemaphoreStep
  <2>1. Semaphore \subseteq Sema /\ IrqSemaphore \subseteq Sema
    BY SynchAssumption, Zenon DEF Sema
  <2>2. ASSUME NEW s \in Semaphore, SemaDown(s) \/ SemaTryDown(s) PROVE status' = status
    BY <2>2, Zenon DEF SemaDown, SemaTryDown, threadVars, schedVars
  <2>3. ASSUME NEW s \in Semaphore, SemaUp(s) PROVE status[t] = "NONE"
    BY <1>1, <2>1, <2>3, Zenon DEF SemaUp
  <2>4. ASSUME NEW s \in IrqSemaphore, IrqSemaUp(s) PROVE status[t] = "NONE"
    <3>1. \A i \in DOMAIN waiters[s] : waiters[s][i] \in Thread
      BY <2>1 DEF TypeOK
    <3> QED
      BY <1>1, <2>4, <3>1, Zenon DEF IrqSemaUp
  <2>5. CASE sema_down_wait \/ sema_down_return
    BY <1>1, <2>5, Zenon DEF sema_down_wait, sema_down_return, schedVars
  <2> QED
    BY <1>1, <1>5, <2>2, <2>3, <2>4, <2>5, Zenon DEF SemaphoreStep
<1>6. CASE LockStep
  <2>1. ASSUME NEW l \in Lock, LockAcquire(l) \/ LockTryAcquire(l) \/ lock_release_fault(l)
        PROVE  status' = status
    BY <2>1, Zenon DEF LockAcquire, lock_acquire, LockTryAcquire, lock_release_fault, schedVars
  <2>2. ASSUME NEW l \in Lock, LockRelease(l) PROVE status[t] = "NONE"
    BY <1>1, <2>2, Zenon DEF LockRelease, lock_release, Sema
  <2>3. CASE donate_priority \/ donate_priority_fault \/ lock_try_acquire_return
    BY <1>1, <2>3, Zenon DEF donate_priority, donate_priority_fault, lock_try_acquire_return, schedVars
  <2>4. CASE lock_release_return
    BY <1>1, <2>4, Zenon DEF lock_release_return, schedVars
  <2> QED
    BY <1>1, <1>6, <2>1, <2>2, <2>3, <2>4, Zenon DEF LockStep
<1>7. CASE ConditionStep
  <2>1. ASSUME NEW c \in Condition, cond_signal(c) PROVE status[t] = "NONE"
    <3>1. \A i \in DOMAIN cond_waiters[c] : cond_waiters[c][i] \in Sema
      BY DEF TypeOK, Sema
    <3> QED
      BY <1>1, <2>1, <3>1, Zenon DEF cond_signal
  <2>2. ASSUME NEW c \in Condition, CondWait(c) PROVE status[t] = "NONE"
    <3>1. CondLock[c] \in Sema
      BY SynchAssumption, Zenon DEF Sema
    <3> QED
      BY <1>1, <2>2, <3>1, Zenon DEF CondWait, lock_release
  <2>3. ASSUME NEW c \in Condition, CondBroadcast(c) PROVE status' = status
    BY <2>3, Zenon DEF CondBroadcast, schedVars
  <2>4. CASE CondReacquire \/ cond_broadcast_return
    BY <1>1, <2>4, Zenon DEF CondReacquire, lock_acquire, cond_broadcast_return, schedVars
  <2>5. CASE cond_broadcast_signal
    <3>1. cond_arg[current] \in Condition
      BY <1>0, <2>5, Zenon DEF cond_broadcast_signal, At, PlacesOK, SchedTypeOK
    <3> QED
      BY <2>1, <2>5, <3>1, Zenon DEF cond_broadcast_signal
  <2> QED
    BY <1>1, <1>7, <2>1, <2>2, <2>3, <2>4, <2>5, Zenon DEF ConditionStep, CondSignal
<1>8. CASE UNCHANGED vars
  BY <1>8, Zenon DEF vars, threadVars, schedVars
<1> QED
  BY <1>2, <1>3, <1>4, <1>5, <1>6, <1>7, <1>8, Zenon DEF Next
-----------------------------------------------------------------------------
(* A thread keeps its place, or moves between places outside of            *)
(* lock_acquire().                                                         *)
KeepsPlace(t) ==
    \/ pc'[t] = pc[t] /\ sema_arg'[t] = sema_arg[t]
    \/ Wanted[t] = Null /\ Wanted'[t] = Null

(* Only the running thread moves, and a thread it creates is at its start. *)
OthersStay ==
    \A t \in Thread \ {current} : \/ pc'[t] = pc[t]
                                  \/ status[t] = "NONE" /\ pc'[t] = "run"

(* Such a step of all threads that leaves the locks alone is of no concern *)
(* to locks.                                                               *)
LEMMA QuietStep ==
    ASSUME \A t \in Thread : KeepsPlace(t),
           \A l \in Lock : value'[l] = value[l],
           UNCHANGED <<holder, lock_priority_list>>
    PROVE  KeepLocks
<1>1. \A t \in Thread : Wanted'[t] = Wanted[t]
  BY Zenon DEF KeepsPlace, Wanted
<1> QED
  BY <1>1, Zenon DEF KeepLocks

(* The places the operations of thread.c lead to.                          *)
LEMMA ThreadStepPlaces ==
    ASSUME TypeOK, PlacesOK, UntriedOK,
           (ThreadStep /\ UNCHANGED synchVars) \/ ThreadSetPriorityReturn \/ ThreadExit
    PROVE  KeepLocks /\ OthersStay /\ pc'[current] # "tried"
<1>0. current \in Thread /\ pc \in [Thread -> Places] /\ pc[current] # "tried"
  BY Zenon DEF TypeOK, ThreadTypeOK, UntriedOK
<1>1. /\ UNCHANGED <<value, holder, lock_priority_list, sema_arg>>
  BY Zenon DEF synchVars, semaVars, argVars, ThreadSetPriorityReturn, ThreadExit
<1> DEFINE quiet == {"run", "created", "set_priority", "hlt", "loop"}
           moves == \/ pc'[current] = pc[current]
                    \/ pc[current] \in quiet /\ pc'[current] \in quiet
<1>2. OthersStay /\ moves
  <2>1. CASE pc' = pc
    BY <2>1, Zenon DEF OthersStay
  <2>2. ASSUME NEW p \in quiet, pc' = [pc EXCEPT ![current] = p], pc[current] \in quiet
        PROVE  OthersStay /\ moves
    BY <1>0, <2>2, Zenon DEF OthersStay
  <2>3. CASE Yield \/ thread_tick_wake \/ thread_tick_return \/ ThreadExit
             \/ \E n \in 1 .. MaxSleep : timer_sleep(n)
    BY <2>1, <2>3, Zenon DEF Yield, thread_tick_wake, thread_tick_return, ThreadExit, thread_exit, timer_sleep
  <2>4. CASE \E t \in Thread, p \in Priority : thread_create(t, p)
    <3>1. PICK t \in Thread, p \in Priority : thread_create(t, p)
      BY <2>4, Zenon
    <3>2. /\ pc' = [pc EXCEPT ![current] = "created", ![t] = "run"]
          /\ pc[current] = "run" /\ status[t] = "NONE"
      BY <3>1, Zenon DEF thread_create, Calling
    <3>3. \A u \in Thread : pc'[u] = IF u = t THEN "run" ELSE IF u = current THEN "created" ELSE pc[u]
      BY <1>0, <3>2, Zenon
    <3> QED
      BY <1>0, <3>2, <3>3, Zenon DEF OthersStay
  <2>5. CASE thread_create_return \/ ThreadSetPriorityReturn \/ \E p \in Priority : thread_set_priority(p)
    BY <2>2, <2>5, Zenon
    DEF thread_create_return, ThreadSetPriorityReturn, thread_set_priority_return,
        thread_set_priority, At, Calling
  <2>6. CASE idle
    <3>1. current = Idle
      BY <1>0, <2>6, Zenon DEF idle, At, PlacesOK
    <3> QED
      BY <2>2, <2>6, <3>1, Zenon DEF idle, At
  <2>7. CASE timer_interrupt
    <3>1. pc' = [pc EXCEPT ![current] = IF pc[current] = "hlt" THEN "loop" ELSE pc[current]]
      BY <2>7, Zenon DEF timer_interrupt, Interrupted
    <3>2. CASE pc[current] = "hlt"
      BY <2>2, <3>1, <3>2, Zenon
    <3>3. CASE pc[current] # "hlt"
      BY <1>0, <2>1, <3>1, <3>3, Zenon
    <3> QED
      BY <3>2, <3>3, Zenon
  <2> QED
    BY <2>3, <2>4, <2>5, <2>6, <2>7, Zenon DEF ThreadStep, Tick
<1>3. \A t \in Thread : KeepsPlace(t)
  <2>1. \A t \in Thread : status[t] = "NONE" => pc[t] = "run"
    BY Zenon DEF UntriedOK
  <2> QED
    BY <1>1, <1>2, <2>1, Zenon DEF KeepsPlace, Wanted, OthersStay
<1>4. KeepLocks
  BY <1>1, <1>3, QuietStep, Zenon
<1> QED
  BY <1>0, <1>2, <1>4, Zenon

(* One of the four kinds of steps.                                         *)
StepKind ==
    KeepLocks \/ \E t \in Thread, l \in Lock : AskFor(t, l) \/ Obtain(t, l) \/ GiveBack(t, l)

(* The running thread moves from p to q, both outside of lock_acquire().   *)
LEMMA QuietMove ==
    ASSUME TypeOK, NEW q, pc' = [pc EXCEPT ![current] = q], q # "tried",
           \A t \in Thread \ {current} : sema_arg'[t] = sema_arg[t],
           Wanted[current] = Null, q \in {"donate", "down"} => sema_arg'[current] \notin Lock
    PROVE  (\A t \in Thread : KeepsPlace(t)) /\ OthersStay /\ pc'[current] # "tried"
<1>1. current \in Thread /\ \A t \in Thread : pc'[t] = IF t = current THEN q ELSE pc[t]
  BY Zenon DEF TypeOK, ThreadTypeOK
<1>2. Wanted'[current] = Null
  BY <1>1, Zenon DEF Wanted
<1> QED
  BY <1>1, <1>2, Zenon DEF KeepsPlace, OthersStay

(* The kind of a step of a semaphore.                                      *)
LEMMA SemaphoreStepKind ==
    ASSUME TypeOK, PlacesOK, RecordsOK, UntriedOK, SemaphoreStep
    PROVE  StepKind /\ OthersStay /\ pc'[current] # "tried"
<1>0. /\ current \in Thread /\ pc \in [Thread -> Places] /\ pc[current] # "tried"
      /\ sema_arg \in [Thread -> Sema \cup {Null}] /\ value \in [Sema -> Nat]
      /\ Semaphore \cap Lock = {} /\ Lock \cap Thread = {} /\ Null \notin Lock
      /\ Lock \subseteq Sema /\ Semaphore \subseteq Sema /\ IrqSemaphore \subseteq Semaphore
  BY SynchAssumption, Zenon DEF TypeOK, ThreadTypeOK, UntriedOK, Sema
<1>1. pc[current] \notin {"donate", "down"} \/ sema_arg[current] \notin Lock => Wanted[current] = Null
  BY <1>0, Zenon DEF Wanted
<1>2. ASSUME UNCHANGED <<pc, sema_arg>>
      PROVE  (\A t \in Thread : KeepsPlace(t)) /\ OthersStay /\ pc'[current] # "tried"
  BY <1>0, <1>2, Zenon DEF KeepsPlace, OthersStay
<1>3. ASSUME NEW s \in Semaphore, SemaDown(s)
      PROVE  StepKind /\ OthersStay /\ pc'[current] # "tried"
  <2>1. /\ pc' = [pc EXCEPT ![current] = "down"] /\ sema_arg' = [sema_arg EXCEPT ![current] = s]
        /\ pc[current] = "run" /\ UNCHANGED <<value, holder, lock_priority_list>>
    BY <1>3, Zenon DEF SemaDown, EnterSemaDown, Calling, semaVars
  <2>2. (\A t \in Thread : KeepsPlace(t)) /\ OthersStay /\ pc'[current] # "tried"
    BY <1>0, <1>1, <2>1, QuietMove, Zenon
  <2> QED
    BY <2>1, <2>2, QuietStep, Zenon DEF StepKind
<1>4. ASSUME NEW s \in Semaphore, SemaTryDown(s) \/ SemaUp(s)
      PROVE  StepKind /\ OthersStay /\ pc'[current] # "tried"
  <2>1. /\ value' = [value EXCEPT ![s] = value[s] - 1] \/ value' = [value EXCEPT ![s] = value[s] + 1]
        /\ UNCHANGED <<pc, sema_arg, holder, lock_priority_list>>
    BY <1>4, Zenon DEF SemaTryDown, SemaUp, sema_up, threadVars, argVars
  <2>2. \A l \in Lock : value'[l] = value[l]
    BY <1>0, <2>1, Zenon
  <2> QED
    BY <1>2, <2>1, <2>2, QuietStep, Zenon DEF StepKind
<1>5. ASSUME NEW s \in IrqSemaphore, IrqSemaUp(s)
      PROVE  StepKind /\ OthersStay /\ pc'[current] # "tried"
  <2>1. /\ value' = [value EXCEPT ![s] = value[s] + 1]
        /\ UNCHANGED <<sema_arg, holder, lock_priority_list>>
        /\ pc' = [pc EXCEPT ![current] = IF pc[current] = "hlt" THEN "loop" ELSE pc[current]]
        /\ pc[current] \in InterruptsOn
    BY <1>5, Zenon DEF IrqSemaUp, argVars, Interrupted
  <2>2. \A l \in Lock : value'[l] = value[l]
    BY <1>0, <2>1, Zenon
  <2>3. Wanted[current] = Null /\ pc[current] \notin {"donate", "down", "tried"}
    BY <1>0, <1>1, <2>1, Zenon DEF InterruptsOn
  <2>4. (\A t \in Thread : KeepsPlace(t)) /\ OthersStay /\ pc'[current] # "tried"
    <3> DEFINE q == IF pc[current] = "hlt" THEN "loop" ELSE pc[current]
    <3>1. q \notin {"donate", "down", "tried"} /\ pc' = [pc EXCEPT ![current] = q]
      BY <2>1, <2>3, Zenon
    <3> HIDE DEF q
    <3> QED
      BY <2>1, <2>3, <3>1, QuietMove, Zenon
  <2> QED
    BY <2>1, <2>2, <2>4, QuietStep, Zenon DEF StepKind
<1>6. CASE sema_down_wait
  <2>1. UNCHANGED <<pc, sema_arg, value, holder, lock_priority_list>>
    BY <1>6, Zenon DEF sema_down_wait, argVars
  <2> QED
    BY <1>2, <2>1, QuietStep, Zenon DEF StepKind
<1>7. CASE sema_down_return
  <2> DEFINE s == sema_arg[current]
             q == IF s = current THEN "reacquire" ELSE "run"
  <2>1. /\ pc[current] = "down" /\ s \in Sema /\ value[s] > 0
        /\ value' = [value EXCEPT ![s] = value[s] - 1]
        /\ sema_arg' = [sema_arg EXCEPT ![current] = Null]
        /\ pc' = [pc EXCEPT ![current] = q] /\ q \in {"reacquire", "run"}
        /\ s \in Lock => /\ holder' = [holder EXCEPT ![s] = current]
                         /\ lock_priority_list' = [lock_priority_list EXCEPT ![current] =
                                                      [@ EXCEPT ![1].waiting = FALSE]]
        /\ s \notin Lock => UNCHANGED <<holder, lock_priority_list>>
    BY <1>0, <1>7, Zenon DEF sema_down_return, At, PlacesOK
  <2>2. \A t \in Thread : /\ pc'[t] = IF t = current THEN q ELSE pc[t]
                          /\ sema_arg'[t] = IF t = current THEN Null ELSE sema_arg[t]
    BY <1>0, <2>1, Zenon
  <2>3. OthersStay /\ pc'[current] # "tried"
    BY <1>0, <2>1, <2>2, Zenon DEF OthersStay
  <2>4. /\ Wanted'[current] = Null
        /\ \A t \in Thread \ {current} : Wanted'[t] = Wanted[t]
    BY <1>0, <2>2, Zenon DEF Wanted
  <2>5. CASE s \in Lock
    <3>1. Wanted[current] = s
      BY <1>0, <2>1, <2>5, Zenon DEF Wanted
    <3>2. /\ value'[s] = value[s] - 1 /\ holder'[s] = current
          /\ \A m \in Lock \ {s} : value'[m] = value[m] /\ holder'[m] = holder[m]
      BY <1>0, <2>1, <2>5, Zenon DEF TypeOK
    <3>3. /\ lock_priority_list'[current] = [lock_priority_list[current] EXCEPT ![1].waiting = FALSE]
          /\ \A u \in Thread \ {current} : lock_priority_list'[u] = lock_priority_list[u]
      BY <1>0, <2>1, <2>5, Zenon DEF TypeOK
    <3>4. Obtain(current, s)
      BY <2>1, <2>4, <3>1, <3>2, <3>3, Zenon DEF Obtain
    <3> QED
      BY <1>0, <2>3, <2>5, <3>4, Zenon DEF StepKind
  <2>6. CASE s \notin Lock
    <3>1. (\A t \in Thread : KeepsPlace(t)) /\ \A l \in Lock : value'[l] = value[l]
      BY <1>0, <1>1, <2>1, <2>2, <2>4, <2>6, Zenon DEF KeepsPlace
    <3> QED
      BY <2>1, <2>3, <2>6, <3>1, QuietStep, Zenon DEF StepKind
  <2> QED
    BY <2>5, <2>6, Zenon
<1> QED
  BY <1>3, <1>4, <1>5, <1>6, <1>7, Zenon DEF SemaphoreStep

(* A donation changes nothing but priorities in the records.               *)
LEMMA DonatedShape ==
    ASSUME NEW list \in Seq(LockPriority), NEW lock, NEW p
    PROVE  /\ DOMAIN DonatedRecords(list, lock, p) = DOMAIN list
           /\ \A i \in DOMAIN list :
                 /\ DonatedRecords(list, lock, p)[i].lock = list[i].lock
                 /\ DonatedRecords(list, lock, p)[i].waiting = list[i].waiting
<1>1. \A i \in DOMAIN list : list[i] \in LockPriority
  OBVIOUS
<1>2. ASSUME NEW rec \in LockPriority
      PROVE  /\ [rec EXCEPT !.priority = p].lock = rec.lock
             /\ [rec EXCEPT !.priority = p].waiting = rec.waiting
  BY Zenon DEF LockPriority
<1>3. ASSUME NEW i \in DOMAIN list
      PROVE  /\ DonatedRecords(list, lock, p)[i].lock = list[i].lock
             /\ DonatedRecords(list, lock, p)[i].waiting = list[i].waiting
  <2>1. \/ DonatedRecords(list, lock, p)[i] = list[i]
        \/ DonatedRecords(list, lock, p)[i] = [list[i] EXCEPT !.priority = p]
    BY Zenon DEF DonatedRecords
  <2> QED
    BY <1>1, <1>2, <2>1, Zenon
<1>4. DOMAIN DonatedRecords(list, lock, p) = DOMAIN list
  BY Zenon DEF DonatedRecords
<1> QED
  BY <1>3, <1>4, Zenon

(* The kind of lock_acquire() is AskFor.                                   *)
LEMMA LockAcquireKind ==
    ASSUME TypeOK, NEW l \in Lock, lock_acquire(l), pc[current] \notin {"donate", "down"}
    PROVE  AskFor(current, l) /\ OthersStay /\ pc'[current] # "tried"
<1> DEFINE q == IF holder[l] # Null THEN "donate" ELSE "down"
<1>1. /\ current \in Thread /\ priority[current] \in Priority /\ holder[l] # current
      /\ pc' = [pc EXCEPT ![current] = q] /\ q \in {"donate", "down"}
      /\ sema_arg' = [sema_arg EXCEPT ![current] = l]
      /\ lock_priority_list' = [lock_priority_list EXCEPT ![current] =
            list_push_front(@, [lock |-> l, waiting |-> TRUE, priority |-> priority[current]])]
      /\ UNCHANGED <<value, holder>>
  BY Zenon DEF lock_acquire, semaVars, TypeOK, ThreadTypeOK
<1> HIDE DEF q
<1>2. \A t \in Thread : /\ pc'[t] = IF t = current THEN q ELSE pc[t]
                        /\ sema_arg'[t] = IF t = current THEN l ELSE sema_arg[t]
  BY <1>1, Zenon DEF TypeOK
<1>3. /\ Wanted[current] = Null /\ Wanted'[current] = l
      /\ \A t \in Thread \ {current} : Wanted'[t] = Wanted[t]
  BY <1>1, <1>2, Zenon DEF Wanted
<1>4. /\ lock_priority_list'[current] = list_push_front(lock_priority_list[current],
            [lock |-> l, waiting |-> TRUE, priority |-> priority[current]])
      /\ \A t \in Thread \ {current} : lock_priority_list'[t] = lock_priority_list[t]
  BY <1>1, Zenon DEF TypeOK
<1>5. AskFor(current, l)
  BY <1>1, <1>3, <1>4, Zenon DEF AskFor
<1> QED
  BY <1>1, <1>2, <1>5, Zenon DEF OthersStay

(* The kind of lock_release() is GiveBack.                                 *)
LEMMA LockReleaseKind ==
    ASSUME TypeOK, NEW val \in [Sema -> Nat], \A m \in Lock : val[m] = value[m],
           NEW l \in Lock, lock_release(val, l), pc[current] \notin {"donate", "down"}
    PROVE  GiveBack(current, l) /\ OthersStay /\ pc'[current] # "tried"
<1>1. /\ current \in Thread /\ holder[l] = current /\ Lock \subseteq Sema
      /\ holder' = [holder EXCEPT ![l] = Null]
      /\ pc' = [pc EXCEPT ![current] = "released"] /\ sema_arg' = sema_arg
      /\ value' = [val EXCEPT ![l] = val[l] + 1]
  BY Zenon DEF lock_release, sema_up, TypeOK, ThreadTypeOK, Sema
<1>2. PICK i \in DOMAIN lock_priority_list[current] :
         /\ find_lock_priority(lock_priority_list[current], l, i)
         /\ lock_priority_list' = [lock_priority_list EXCEPT ![current] = list_remove(@, i)]
  BY Zenon DEF lock_release
<1>3. \A t \in Thread : pc'[t] = IF t = current THEN "released" ELSE pc[t]
  BY <1>1, Zenon DEF TypeOK
<1>4. Wanted[current] = Null /\ \A t \in Thread : Wanted'[t] = Wanted[t]
  BY <1>1, <1>3 DEF Wanted
<1>5. /\ value'[l] = value[l] + 1 /\ holder'[l] = Null
      /\ \A m \in Lock \ {l} : value'[m] = value[m] /\ holder'[m] = holder[m]
  BY <1>1, Zenon DEF TypeOK
<1>6. /\ lock_priority_list'[current] = list_remove(lock_priority_list[current], i)
      /\ \A t \in Thread \ {current} : lock_priority_list'[t] = lock_priority_list[t]
  BY <1>1, <1>2, Zenon DEF TypeOK
<1>7. GiveBack(current, l)
  BY <1>1, <1>2, <1>4, <1>5, <1>6, Zenon DEF GiveBack
<1> QED
  BY <1>1, <1>3, <1>7 DEF OthersStay

(* The kind of a step of a lock.                                           *)
LEMMA LockStepKind ==
    ASSUME TypeOK, PlacesOK, RecordsOK, UntriedOK, LockStep, "lock_try_acquire" \notin Calls
    PROVE  StepKind /\ OthersStay /\ pc'[current] # "tried"
<1>0. /\ current \in Thread /\ pc \in [Thread -> Places] /\ pc[current] # "tried"
      /\ sema_arg \in [Thread -> Sema \cup {Null}] /\ value \in [Sema -> Nat]
      /\ Lock \cap Thread = {} /\ Null \notin Lock
  BY SynchAssumption, Zenon DEF TypeOK, ThreadTypeOK, UntriedOK, Sema
<1>1. ASSUME NEW l \in Lock, LockAcquire(l)
      PROVE  StepKind /\ OthersStay /\ pc'[current] # "tried"
  BY <1>0, <1>1, LockAcquireKind, Zenon DEF LockAcquire, Calling, StepKind
<1>2. ASSUME NEW l \in Lock, LockRelease(l)
      PROVE  StepKind /\ OthersStay /\ pc'[current] # "tried"
  BY <1>0, <1>2, LockReleaseKind, Zenon DEF LockRelease, Calling, StepKind
<1>3. ~lock_try_acquire_return /\ \A l \in Lock : ~LockTryAcquire(l)
  BY <1>0, Zenon DEF LockTryAcquire, lock_try_acquire_return, Calling, At
<1>4. ASSUME UNCHANGED <<pc, sema_arg, value, holder, lock_priority_list>>
      PROVE  StepKind /\ OthersStay /\ pc'[current] # "tried"
  BY <1>0, <1>4, QuietStep, Zenon DEF KeepsPlace, OthersStay, StepKind
<1>5. ASSUME NEW l \in Lock, lock_release_fault(l)
      PROVE  StepKind /\ OthersStay /\ pc'[current] # "tried"
  BY <1>4, <1>5, Zenon DEF lock_release_fault, synchVars, semaVars, argVars
<1>6. CASE donate_priority_fault
  BY <1>4, <1>6, Zenon DEF donate_priority_fault, synchVars, semaVars, argVars
<1>7. CASE donate_priority
  <2>1. /\ holder[donee] \in Thread /\ pc[current] = "donate" /\ sema_arg[current] \in Lock
        /\ UNCHANGED <<sema_arg, value, holder>>
        /\ lock_priority_list' = [lock_priority_list EXCEPT ![holder[donee]] =
                                     DonatedRecords(@, donee, priority[current])]
    BY <1>0, <1>7, Zenon DEF donate_priority, At, PlacesOK, semaVars
  <2>2. PICK q \in {"donate", "down"} : pc' = [pc EXCEPT ![current] = q]
    BY <1>7, Zenon DEF donate_priority
  <2>3. \A t \in Thread : pc'[t] = IF t = current THEN q ELSE pc[t]
    BY <1>0, <2>2, Zenon
  <2>4. \A t \in Thread : Wanted'[t] = Wanted[t]
    BY <1>0, <2>1, <2>2, <2>3, Zenon DEF Wanted
  <2>5. \A t \in Thread :
           /\ DOMAIN lock_priority_list'[t] = DOMAIN lock_priority_list[t]
           /\ \A i \in DOMAIN lock_priority_list[t] :
                 /\ lock_priority_list'[t][i].lock = lock_priority_list[t][i].lock
                 /\ lock_priority_list'[t][i].waiting = lock_priority_list[t][i].waiting
    <3> DEFINE h == holder[donee]
               new == DonatedRecords(lock_priority_list[h], donee, priority[current])
    <3>1. /\ DOMAIN new = DOMAIN lock_priority_list[h]
          /\ \A i \in DOMAIN lock_priority_list[h] :
                 /\ new[i].lock = lock_priority_list[h][i].lock
                 /\ new[i].waiting = lock_priority_list[h][i].waiting
      BY <2>1, DonatedShape DEF TypeOK
    <3>2. \A t \in Thread : lock_priority_list'[t] = IF t = h THEN new ELSE lock_priority_list[t]
      BY <2>1, Zenon DEF TypeOK
    <3> HIDE DEF h, new
    <3> QED
      BY <3>1, <3>2, Zenon
  <2>6. KeepLocks
    BY <2>1, <2>4, <2>5, Zenon DEF KeepLocks
  <2> QED
    BY <1>0, <2>2, <2>3, <2>6, Zenon DEF StepKind, OthersStay
<1>8. CASE lock_release_return
  <2>1. pc[current] = "released" /\ UNCHANGED <<value, holder, lock_priority_list>>
    BY <1>8, Zenon DEF lock_release_return, At, semaVars
  <2>2. Wanted[current] = Null
    BY <1>0, <2>1, Zenon DEF Wanted
  <2>3. \/ /\ pc' = [pc EXCEPT ![current] = "down"]
           /\ sema_arg' = [sema_arg EXCEPT ![current] = current]
        \/ pc' = [pc EXCEPT ![current] = "run"] /\ sema_arg' = sema_arg
    BY <1>8, Zenon DEF lock_release_return, EnterSemaDown
  <2>4. (\A t \in Thread : KeepsPlace(t)) /\ OthersStay /\ pc'[current] # "tried"
    BY <1>0, <2>2, <2>3, QuietMove, Zenon
  <2> QED
    BY <2>1, <2>4, QuietStep, Zenon DEF StepKind
<1> QED
  BY <1>1, <1>2, <1>3, <1>5, <1>6, <1>7, <1>8, Zenon DEF LockStep

(* The kind of a step of a condition.                                      *)
LEMMA ConditionStepKind ==
    ASSUME TypeOK, PlacesOK, RecordsOK, UntriedOK, ConditionStep
    PROVE  StepKind /\ OthersStay /\ pc'[current] # "tried"
<1>0. /\ current \in Thread /\ pc \in [Thread -> Places] /\ pc[current] # "tried"
      /\ value \in [Sema -> Nat] /\ Lock \cap Thread = {} /\ Thread \subseteq Sema
      /\ \A c \in Condition : CondLock[c] \in Lock
  BY SynchAssumption, Zenon DEF TypeOK, ThreadTypeOK, UntriedOK, Sema
<1>1. ASSUME NEW c \in Condition, cond_signal(c)
      PROVE  StepKind /\ OthersStay /\ pc'[current] # "tried"
  <2>1. PICK i \in DOMAIN cond_waiters[c] : sema_up(value, cond_waiters[c][i])
    BY <1>1, Zenon DEF cond_signal
  <2>2. /\ cond_waiters[c][i] \in Thread
        /\ value' = [value EXCEPT ![cond_waiters[c][i]] = value[cond_waiters[c][i]] + 1]
        /\ UNCHANGED <<pc, sema_arg, holder, lock_priority_list>>
    <3>1. cond_waiters[c][i] \in Thread
      BY DEF TypeOK
    <3>2. UNCHANGED <<pc, sema_arg, holder, lock_priority_list>>
      BY <1>1, Zenon DEF cond_signal, argVars
    <3> QED
      BY <2>1, <3>1, <3>2, Zenon DEF sema_up
  <2>3. (\A t \in Thread : KeepsPlace(t)) /\ \A l \in Lock : value'[l] = value[l]
    BY <1>0, <2>2 DEF KeepsPlace
  <2> QED
    BY <1>0, <2>2, <2>3, QuietStep, Zenon DEF OthersStay, StepKind
<1>2. ASSUME NEW c \in Condition, CondWait(c)
      PROVE  StepKind /\ OthersStay /\ pc'[current] # "tried"
  <2> DEFINE val == [value EXCEPT ![current] = 0]
  <2>1. /\ lock_release(val, CondLock[c]) /\ pc[current] = "run"
        /\ val \in [Sema -> Nat] /\ \A m \in Lock : val[m] = value[m]
    BY <1>0, <1>2, Zenon DEF CondWait, Calling, Sema
  <2> HIDE DEF val
  <2>2. GiveBack(current, CondLock[c]) /\ OthersStay /\ pc'[current] # "tried"
    BY <1>0, <2>1, LockReleaseKind, Zenon
  <2> QED
    BY <1>0, <2>2, Zenon DEF StepKind
<1>3. ASSUME NEW c \in Condition, CondBroadcast(c)
      PROVE  StepKind /\ OthersStay /\ pc'[current] # "tried"
  <2>1. /\ pc[current] = "run" /\ pc' = [pc EXCEPT ![current] = "broadcast"]
        /\ UNCHANGED <<sema_arg, value, holder, lock_priority_list>>
    BY <1>3, Zenon DEF CondBroadcast, Calling, semaVars
  <2>2. Wanted[current] = Null
    BY <1>0, <2>1, Zenon DEF Wanted
  <2> QED
    BY <2>1, <2>2, QuietMove, QuietStep, Zenon DEF StepKind
<1>4. CASE CondReacquire
  <2>1. /\ pc[current] = "reacquire" /\ CondLock[cond_arg[current]] \in Lock
        /\ lock_acquire(CondLock[cond_arg[current]])
    BY <1>0, <1>4, Zenon DEF CondReacquire, At, PlacesOK
  <2>2. AskFor(current, CondLock[cond_arg[current]]) /\ OthersStay /\ pc'[current] # "tried"
    BY <2>1, LockAcquireKind, Zenon
  <2> QED
    BY <1>0, <2>1, <2>2, Zenon DEF StepKind
<1>5. CASE cond_broadcast_signal
  BY <1>0, <1>1, <1>5, Zenon DEF cond_broadcast_signal, At, PlacesOK
<1>6. CASE cond_broadcast_return
  <2>1. /\ pc[current] = "broadcast" /\ pc' = [pc EXCEPT ![current] = "run"]
        /\ UNCHANGED <<sema_arg, value, holder, lock_priority_list>>
    BY <1>6, Zenon DEF cond_broadcast_return, At, semaVars
  <2>2. Wanted[current] = Null
    BY <1>0, <2>1, Zenon DEF Wanted
  <2> QED
    BY <2>1, <2>2, QuietMove, QuietStep, Zenon DEF StepKind
<1> QED
  BY <1>1, <1>2, <1>3, <1>4, <1>5, <1>6, Zenon DEF ConditionStep, CondSignal

(* Every step is of one of the four kinds and keeps UntriedOK.             *)
LEMMA EveryStep ==
    ASSUME TypeOK, PlacesOK, ListsMatchStatus, RecordsOK, UntriedOK, [Next]_vars,
           "lock_try_acquire" \notin Calls
    PROVE  StepKind /\ UntriedOK'
<1>1. StepKind /\ OthersStay /\ pc'[current] # "tried"
  <2>1. CASE UNCHANGED vars
    <3>1. UNCHANGED <<pc, value, holder, lock_priority_list, sema_arg>>
      BY <2>1, Zenon DEF vars, threadVars, synchVars, semaVars, argVars
    <3>2. current \in Thread /\ pc[current] # "tried"
      BY Zenon DEF TypeOK, ThreadTypeOK, UntriedOK
    <3> QED
      BY <3>1, <3>2, QuietStep, Zenon DEF KeepsPlace, OthersStay, StepKind
  <2> QED
    BY <2>1, ThreadStepPlaces, SemaphoreStepKind, LockStepKind, ConditionStepKind, Zenon
    DEF Next, StepKind
<1>2. \A t \in Thread : pc'[t] # "tried"
  BY <1>1, Zenon DEF OthersStay, UntriedOK
<1>3. ASSUME NEW t \in Thread, status'[t] = "NONE" PROVE pc'[t] = "run"
  <2>1. CASE status[t] = "NONE"
    <3>1. t # current
      BY <2>1, Zenon DEF ListsMatchStatus, TypeOK, ThreadTypeOK
    <3> QED
      BY <1>1, <2>1, <3>1, Zenon DEF OthersStay, UntriedOK
  <2>2. CASE t = current /\ ThreadExit
    BY <2>2, Zenon DEF ThreadExit, thread_exit, Calling
  <2> QED
    BY <1>3, <2>1, <2>2, NoneStep, Zenon
<1> QED
  BY <1>1, <1>2, <1>3, Zenon DEF UntriedOK

(* What the invariant says of the records is what the properties say.      *)
LEMMA RecordsOKMeans ==
    TypeOK /\ RecordsOK => MutualExclusion /\ FrontRecordIsWaiting
<1> SUFFICES ASSUME TypeOK, RecordsOK PROVE MutualExclusion /\ FrontRecordIsWaiting
  BY Zenon
<1>1. MutualExclusion
  BY Zenon DEF RecordsOK, MutualExclusion
<1>2. \A t \in Thread : \A i \in DOMAIN lock_priority_list[t] :
         lock_priority_list[t][i].lock \in Lock /\ lock_priority_list[t][i].lock # Null
  <2>1. \A t \in Thread : \A i \in DOMAIN lock_priority_list[t] :
           lock_priority_list[t][i] \in LockPriority
    BY DEF TypeOK
  <2> QED
    BY <2>1, SynchAssumption DEF LockPriority, Sema
<1>3. FrontRecordIsWaiting
  BY <1>2 DEF RecordsOK, FrontRecordIsWaiting, Wanted
<1> QED
  BY <1>1, <1>3, Zenon

(* The invariant of the records.                                           *)
LEMMA RecordsInvariant ==
    ASSUME "lock_try_acquire" \notin Calls
    PROVE  Spec => [](TypeOK /\ PlacesOK /\ ListsMatchStatus /\ RecordsOK /\ UntriedOK)
<1>1. Init => RecordsOK /\ UntriedOK
  <2> SUFFICES ASSUME Init PROVE RecordsOK /\ UntriedOK
    BY Zenon
  <2>1. \A t \in Thread : pc[t] \in {"run", "hlt"} /\ (t # Idle => pc[t] = "run")
    BY Zenon DEF Init, ThreadInit
  <2>2. \A t \in Thread : Wanted[t] = Null /\ DOMAIN lock_priority_list[t] = {}
    BY <2>1 DEF Init, Wanted
  <2>3. \A l \in Lock : value[l] = 1 /\ holder[l] = Null
    BY Zenon DEF Init, Sema
  <2>4. RecordsOK
    BY <2>2, <2>3, SynchAssumption, Zenon DEF RecordsOK
  <2>5. UntriedOK
    BY <2>1, ThreadAssumption, Zenon DEF UntriedOK, Init, ThreadInit
  <2> QED
    BY <2>4, <2>5, Zenon
<1>2. TypeOK /\ PlacesOK /\ ListsMatchStatus /\ RecordsOK /\ UntriedOK /\ [Next]_vars
         => RecordsOK' /\ UntriedOK'
  BY EveryStep, KeepLocksOK, AskForOK, ObtainOK, GiveBackOK, Zenon DEF StepKind
<1> QED
  BY <1>1, <1>2, TypesAndPlacesInvariant, ListsInvariant, PTL DEF Spec

(* Mutual exclusion: of the threads that have returned from lock_acquire() *)
(* and not called lock_release(), there is one at most, it is the holder,  *)
(* and the lock's semaphore is 0 exactly while there is one.               *)
THEOREM MutexInvariant ==
    ASSUME "lock_try_acquire" \notin Calls
    PROVE  Spec => []MutualExclusion
  BY RecordsInvariant, RecordsOKMeans, PTL

(* donate_priority_recursively() may follow the front record of a holder.  *)
THEOREM FrontRecordInvariant ==
    ASSUME "lock_try_acquire" \notin Calls
    PROVE  Spec => []FrontRecordIsWaiting
  BY RecordsInvariant, RecordsOKMeans, PTL
-----------------------------------------------------------------------------
(* The threads that want each lock.                                        *)
Wanting == [l \in Lock |-> {t \in Thread : Wanted[t] = l}]

(* They are the threads with a waiting record for it, which LockSpec's     *)
(* wanting stands for.                                                     *)
WantingOK ==
    Wanting = [l \in Lock |-> {t \in Thread : \E i \in DOMAIN lock_priority_list[t] :
                                  /\ lock_priority_list[t][i].lock = l
                                  /\ lock_priority_list[t][i].waiting}]

(* This follows from the invariant of the records.                         *)
LEMMA WantingRecords == TypeOK /\ RecordsOK => WantingOK
<1> SUFFICES ASSUME TypeOK, RecordsOK, NEW l \in Lock, NEW t \in Thread
             PROVE  Wanted[t] = l <=> \E i \in DOMAIN lock_priority_list[t] :
                                         /\ lock_priority_list[t][i].lock = l
                                         /\ lock_priority_list[t][i].waiting
  BY DEF Wanting, WantingOK
<1>1. l # Null
  BY SynchAssumption, Zenon DEF Sema
<1> QED
  BY <1>1 DEF RecordsOK

(* In the next state too.                                                  *)
LEMMA WantingRecordsNext == TypeOK' /\ RecordsOK' => WantingOK'
  BY WantingRecords, PTL

(* Each kind of step is a step of LockSpec, or none.                       *)
LEMMA KindsImplement ==
    ASSUME TypeOK, RecordsOK, TypeOK', StepKind
    PROVE  \/ UNCHANGED <<holder, Wanting>>
           \/ \E t \in Thread, l \in Lock :
                \/ /\ holder[l] # t
                   /\ \A m \in Lock : t \notin Wanting[m]
                   /\ Wanting' = [Wanting EXCEPT ![l] = @ \cup {t}]
                   /\ UNCHANGED holder
                \/ /\ holder[l] = Null
                   /\ t \in Wanting[l]
                   /\ holder' = [holder EXCEPT ![l] = t]
                   /\ Wanting' = [Wanting EXCEPT ![l] = @ \ {t}]
                \/ /\ holder[l] = t
                   /\ \A m \in Lock : t \notin Wanting[m]
                   /\ holder' = [holder EXCEPT ![l] = Null]
                   /\ UNCHANGED Wanting
<1>0. /\ Null \notin Lock /\ holder \in [Lock -> Thread \cup {Null}]
      /\ holder' \in [Lock -> Thread \cup {Null}]
      /\ \A t \in Thread, l \in Lock : t \in Wanting[l] <=> Wanted[t] = l
  BY SynchAssumption, Zenon DEF Sema, TypeOK, Wanting
<1>1. CASE KeepLocks
  BY <1>0, <1>1 DEF KeepLocks, Wanting
<1>2. ASSUME NEW t \in Thread, NEW l \in Lock, AskFor(t, l)
      PROVE  /\ holder[l] # t /\ \A m \in Lock : t \notin Wanting[m]
             /\ Wanting' = [Wanting EXCEPT ![l] = @ \cup {t}] /\ UNCHANGED holder
  <2>1. \A m \in Lock : {u \in Thread : Wanted'[u] = m}
                           = IF m = l THEN {u \in Thread : Wanted[u] = l} \cup {t}
                                      ELSE {u \in Thread : Wanted[u] = m}
    <3>1. Wanted'[t] = l /\ Wanted[t] = Null /\ \A u \in Thread \ {t} : Wanted'[u] = Wanted[u]
      BY <1>2, Zenon DEF AskFor
    <3>2. Null \notin Lock
      BY <1>0, Zenon
    <3> QED
      BY <3>1, <3>2
  <2>2. Wanting' = [Wanting EXCEPT ![l] = @ \cup {t}]
    BY <2>1, Zenon DEF Wanting
  <2>3. \A m \in Lock : t \notin Wanting[m]
    BY <1>0, <1>2, Zenon DEF AskFor
  <2>4. \A m \in Lock : holder'[m] = holder[m]
    BY <1>2, Zenon DEF AskFor
  <2>5. UNCHANGED holder
    BY <1>0, <2>4
  <2> QED
    BY <1>2, <2>2, <2>3, <2>5, Zenon DEF AskFor
<1>3. ASSUME NEW t \in Thread, NEW l \in Lock, Obtain(t, l)
      PROVE  /\ holder[l] = Null /\ t \in Wanting[l]
             /\ holder' = [holder EXCEPT ![l] = t]
             /\ Wanting' = [Wanting EXCEPT ![l] = @ \ {t}]
  <2>1. \A m \in Lock : {u \in Thread : Wanted'[u] = m}
                           = IF m = l THEN {u \in Thread : Wanted[u] = l} \ {t}
                                      ELSE {u \in Thread : Wanted[u] = m}
    BY <1>0, <1>3 DEF Obtain
  <2>2. Wanting' = [Wanting EXCEPT ![l] = @ \ {t}]
    BY <2>1, Zenon DEF Wanting
  <2>3. holder[l] = Null
    BY <1>3 DEF Obtain, RecordsOK
  <2>4. holder' = [holder EXCEPT ![l] = t]
    BY <1>0, <1>3 DEF Obtain
  <2> QED
    BY <1>0, <1>3, <2>2, <2>3, <2>4, Zenon DEF Obtain
<1>4. ASSUME NEW t \in Thread, NEW l \in Lock, GiveBack(t, l)
      PROVE  /\ holder[l] = t /\ \A m \in Lock : t \notin Wanting[m]
             /\ holder' = [holder EXCEPT ![l] = Null] /\ UNCHANGED Wanting
  <2>1. holder' = [holder EXCEPT ![l] = Null]
    BY <1>0, <1>4, Zenon DEF GiveBack
  <2>2. Wanting' = Wanting
    BY <1>4, Zenon DEF GiveBack, Wanting
  <2> QED
    BY <1>0, <1>4, <2>1, <2>2 DEF GiveBack
<1> QED
  BY <1>1, <1>2, <1>3, <1>4, Zenon DEF StepKind

(* Locks implement LockSpec: lock_acquire() asks for a lock and is given   *)
(* it when nobody owns it, lock_release() gives it up, and nothing else in *)
(* the kernel touches it, however it schedules, donates and preempts.      *)
THEOREM LocksImplementLockSpec ==
    ASSUME "lock_try_acquire" \notin Calls
    PROVE  Spec => ImplementsLockSpec
<1> DEFINE Inv == TypeOK /\ PlacesOK /\ ListsMatchStatus /\ RecordsOK /\ UntriedOK
<1>1. Init => LockAbstraction!Init
  BY DEF Init, LockAbstraction!Init
<1>2. Inv /\ Inv' /\ [Next]_vars
        => [LockAbstraction!Next]_<<holder, [l \in Lock |->
              {t \in Thread : \E i \in DOMAIN lock_priority_list[t] :
                  /\ lock_priority_list[t][i].lock = l
                  /\ lock_priority_list[t][i].waiting}]>>
  <2> SUFFICES ASSUME Inv, Inv', [Next]_vars
               PROVE  [LockAbstraction!Next]_<<holder, [l \in Lock |->
                         {t \in Thread : \E i \in DOMAIN lock_priority_list[t] :
                             /\ lock_priority_list[t][i].lock = l
                             /\ lock_priority_list[t][i].waiting}]>>
    BY Zenon
  <2> DEFINE W == [l \in Lock |-> {t \in Thread : \E i \in DOMAIN lock_priority_list[t] :
                             /\ lock_priority_list[t][i].lock = l
                             /\ lock_priority_list[t][i].waiting}]
  <2>1. Wanting = W /\ Wanting' = W'
    BY WantingRecords, WantingRecordsNext, Zenon DEF WantingOK
  <2>2. StepKind
    BY EveryStep, Zenon
  <2> HIDE DEF W
  <2>3. [LockAbstraction!Next]_<<holder, W>>
    BY <2>1, <2>2, KindsImplement, Zenon
    DEF LockAbstraction!Next, LockAbstraction!Ask, LockAbstraction!Give, LockAbstraction!GiveUp, W
  <2> QED
    BY <2>3, Zenon DEF W
<1>3. Spec => []Inv
  BY RecordsInvariant, Zenon
<1> QED
  BY <1>1, <1>2, <1>3, PTL DEF Spec, ImplementsLockSpec, LockAbstraction!Spec
=============================================================================
