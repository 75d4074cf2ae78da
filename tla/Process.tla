------------------------------ MODULE Process ------------------------------
(***************************************************************************)
(* Processes (userprog/process.c) with the system calls and exceptions     *)
(* that start, await and end them, over the pages of the kernel pool they  *)
(* live in.  A pid is the thread's tid; pid 1 is the process that main()   *)
(* runs and waits for.                                                     *)
(*                                                                         *)
(* Pointers are kept as pointers: a monitor (struct process_status) is     *)
(* named by its page and its index on it, and a page that has been freed,  *)
(* or handed out again, is read as what it then holds.  pc[p] is the place *)
(* where p continues:                                                      *)
(*   "user"      in user code                                              *)
(*   "create"    in process_execute(), about to call thread_create()       *)
(*   "execute"   in process_execute(), in sema_down() on the temporary page*)
(*   "setup"     in start_process(), about to allocate its monitors' page  *)
(*   "load"      in start_process(), about to allocate its descriptors'    *)
(*               page and to load the program                              *)
(*   "tell"      in start_process(), the outcome known                     *)
(*   "handoff"   in start_process(), about to read *pstatus                *)
(*   "wait"      in process_wait(), in sema_down() on the child's monitor  *)
(*   "exit"      in process_exit(), about to take process_exit_lock        *)
(*   "report", "release"  in process_exit(), with process_exit_lock        *)
(*   "files"     in process_exit(), about to close the files               *)
(*   "dead", "none"  the thread is gone, or not created yet                *)
(***************************************************************************)
EXTENDS KernelList

CONSTANTS MaxPid,         \* bound: the processes of one behaviour
          PoolSizes,      \* pages of the kernel pool that main() has not taken
          MonitorCount,   \* how many struct process_status fit on a page
          ExitStatus,     \* the statuses user programs pass to exit()
          PreemptHandoff, \* can a tick fall between lines 185 and 190 of start_process()?
          Null, Garbage   \* the null pointer, and a pointer read from 0xcc bytes

ASSUME ProcessAssumption ==
    /\ MaxPid \in Nat \ {0} /\ MonitorCount \in Nat
    /\ PoolSizes \subseteq Nat \ (0 .. 2)
    /\ \E n \in PoolSizes : \A m \in PoolSizes : m <= n

Pid == 1 .. MaxPid
PID_ERROR == -1
Slot == 1 .. MonitorCount
Page == 1 .. CHOOSE n \in PoolSizes : \A m \in PoolSizes : m <= n
Monitor == Page \X Slot

ASSUME NullAssumption ==
    /\ Null \notin Page /\ Null \notin Pid /\ Null \notin Monitor
    /\ Garbage \notin Monitor /\ Garbage # Null

VARIABLES
    kpage,                   \* what each page of the kernel pool holds
    pc,
    temp_kpage,              \* the temporary page of the exec a process is part of
    thread_page,             \* the page of struct thread
    subprocess_status_page,  \* struct thread
    subprocess_status_list,
    file_descriptor_page,
    pstatus,
    successful,              \* start_process(): the outcome of load()
    awaited,                 \* process_wait(): the monitor waited on
    exit_status,             \* process_exit(): the argument
    process_exit_lock,       \* the process that holds it
    power,                   \* "on", "panic" or "off"
    parent, monitorOf,       \* history: who created a process, the monitor it took for it
    result                   \* history: what process_wait() returned for a process

locals == <<successful, awaited, exit_status>>
procVars == <<thread_page, subprocess_status_page, subprocess_status_list,
              file_descriptor_page, pstatus, locals>>
history == <<parent, monitorOf, result>>
vars == <<kpage, pc, temp_kpage, procVars, process_exit_lock, power, history>>

ZeroStatus == [in_use |-> FALSE, sema |-> 0, pid |-> 0, exit_status |-> 0]

Free == [kind |-> "free"]
Reserved == [kind |-> "reserved"]
MonitorsPage == [kind |-> "monitors", status |-> [i \in Slot |-> ZeroStatus]]
TempPage == [kind |-> "temp", pid |-> PID_ERROR, sema |-> 0, pstatus |-> Null]

(* bitmap_scan() for one page and the loops over monitors: the first index *)
(* of S, Null when the scan ends without one.                              *)
First(S) == {i \in S : \A j \in S : i <= j}
Scan(S) == IF First(S) = {} THEN Null ELSE CHOOSE i \in First(S) : TRUE

(* palloc_get_page() takes the first free page, palloc_free_page() fills   *)
(* it with 0xcc and gives it back.                                         *)
palloc_get_page(k) == Scan({g \in DOMAIN k : k[g] = Free})
palloc_free_page(k, g) == [k EXCEPT ![g] = Free]

(* The monitor m points to, and a write to it.                             *)
Status(m) == kpage[m[1]].status[m[2]]
SetStatus(k, m, new) == [k EXCEPT ![m[1]].status[m[2]] = new]

(* Mutant: the search ignores in_use.                                      *)
get_new_subprocess_monitor_first(p) == <<subprocess_status_page[p], 1>>

(* get_new_subprocess_monitor(), get_subprocess_monitor()                  *)
get_new_subprocess_monitor(p) ==
    LET g == subprocess_status_page[p]
        i == Scan({x \in Slot : ~kpage[g].status[x].in_use})
    IN IF i = Null THEN Null ELSE <<g, i>>
get_subprocess_monitor(p, pid) ==
    LET list == subprocess_status_list[p]
        i == Scan({x \in DOMAIN list : Status(list[x]).pid = pid})
    IN IF i = Null THEN Null ELSE list[i]

(* run_task() of main() has executed the first process and waits for it.   *)
(* Bound: it runs no other; the first process reports to nobody else.      *)
Init ==
    /\ \E n \in PoolSizes :
          kpage = [g \in Page |-> CASE g = 1 -> MonitorsPage
                                    [] g = 2 -> [kind |-> "files"]
                                    [] g = 3 -> [kind |-> "thread"]
                                    [] g > n -> Reserved
                                    [] OTHER -> Free]
    /\ pc = [p \in Pid |-> IF p = 1 THEN "user" ELSE "none"]
    /\ temp_kpage = [p \in Pid |-> Null]
    /\ thread_page = [p \in Pid |-> IF p = 1 THEN 3 ELSE Null]
    /\ subprocess_status_page = [p \in Pid |-> IF p = 1 THEN 1 ELSE Null]
    /\ subprocess_status_list = [p \in Pid |-> <<>>]
    /\ file_descriptor_page = [p \in Pid |-> IF p = 1 THEN 2 ELSE Null]
    /\ pstatus = [p \in Pid |-> Null]
    /\ successful = [p \in Pid |-> FALSE]
    /\ awaited = [p \in Pid |-> Null]
    /\ exit_status = [p \in Pid |-> 0]
    /\ process_exit_lock = Null
    /\ power = "on"
    /\ parent = [p \in Pid |-> Null]
    /\ monitorOf = [p \in Pid |-> Null]
    /\ result = [p \in Pid |-> Null]

Goto(p, where) == pc' = [pc EXCEPT ![p] = where]
At(p, where) == power = "on" /\ pc[p] = where

(* A failed ASSERT, PANIC() or a fault in kernel code (kill(), SEL_KCSEG). *)
Panic == power' = "panic" /\ UNCHANGED <<kpage, pc, temp_kpage, procVars, process_exit_lock,
                                         history>>
-----------------------------------------------------------------------------
(* process_execute() up to the call of thread_create().  With no page left *)
(* it returns PID_ERROR.  If the command line does not fit, or no monitor  *)
(* is free, *pstatus stays NULL and the memset() at the end gets it.       *)
process_execute(p, fits) ==
    /\ At(p, "user") /\ palloc_get_page(kpage) # Null
    /\ LET m == get_new_subprocess_monitor(p)
           g == palloc_get_page(kpage)
       IN IF ~fits \/ m = Null
          THEN Panic
          ELSE /\ kpage' = SetStatus([kpage EXCEPT ![g] = [TempPage EXCEPT !.pstatus = m]],
                                     m, [Status(m) EXCEPT !.in_use = TRUE, !.sema = 0])
               /\ temp_kpage' = [temp_kpage EXCEPT ![p] = g]
               /\ Goto(p, "create")
               /\ UNCHANGED <<procVars, process_exit_lock, power, history>>

(* thread_create(), whose failure process_execute() does not look at.      *)
(* Bound: with no pid left the caller goes no further.                     *)
process_execute_create(p) ==
    /\ At(p, "create")
    /\ LET g == palloc_get_page(kpage)
       IN IF g = Null
          THEN Goto(p, "execute") /\ UNCHANGED <<kpage, temp_kpage, thread_page, parent, monitorOf>>
          ELSE \E c \in Pid :
               /\ pc[c] = "none" /\ \A d \in 1 .. c : d = c \/ pc[d] # "none"
               /\ kpage' = [kpage EXCEPT ![g] = [kind |-> "thread"]]
               /\ thread_page' = [thread_page EXCEPT ![c] = g]
               /\ temp_kpage' = [temp_kpage EXCEPT ![c] = temp_kpage[p]]
               /\ pc' = [pc EXCEPT ![p] = "execute", ![c] = "setup"]
               /\ parent' = [parent EXCEPT ![c] = p]
               /\ monitorOf' = [monitorOf EXCEPT ![c] = kpage[temp_kpage[p]].pstatus]
    /\ UNCHANGED <<subprocess_status_page, subprocess_status_list, file_descriptor_page,
                   pstatus, locals, process_exit_lock, power, result>>

(* process_execute() once the child has told its outcome.  The parent gets *)
(* the CPU before the child has read *pstatus only if a tick falls between *)
(* the child's sema_up() and the next line.                                *)
process_execute_return(p) ==
    /\ At(p, "execute") /\ kpage[temp_kpage[p]].sema > 0
    /\ PreemptHandoff \/ \A c \in Pid : parent[c] = p => pc[c] # "handoff"
    /\ LET pid == kpage[temp_kpage[p]].pid
           m == kpage[temp_kpage[p]].pstatus
           new == IF pid = PID_ERROR THEN ZeroStatus ELSE [Status(m) EXCEPT !.pid = pid]
       IN /\ kpage' = palloc_free_page(SetStatus(kpage, m, new), temp_kpage[p])
          /\ subprocess_status_list' = IF pid = PID_ERROR THEN subprocess_status_list
                ELSE [subprocess_status_list EXCEPT ![p] = list_push_back(@, m)]
    /\ temp_kpage' = [temp_kpage EXCEPT ![p] = Null]
    /\ Goto(p, "user")
    /\ UNCHANGED <<thread_page, subprocess_status_page, file_descriptor_page, pstatus, locals,
                   process_exit_lock, power, history>>
-----------------------------------------------------------------------------
(* start_process(): setup_subprocess_list(), setup_file_descriptors() and  *)
(* load(), which fails for reasons of its own.                             *)
setup_subprocess_list(c) ==
    /\ At(c, "setup")
    /\ LET g == palloc_get_page(kpage)
       IN IF g = Null
          THEN /\ Goto(c, "tell") /\ successful' = [successful EXCEPT ![c] = FALSE]
               /\ UNCHANGED <<kpage, subprocess_status_page>>
          ELSE /\ kpage' = [kpage EXCEPT ![g] = MonitorsPage]
               /\ subprocess_status_page' = [subprocess_status_page EXCEPT ![c] = g]
               /\ Goto(c, "load") /\ UNCHANGED successful
    /\ UNCHANGED <<temp_kpage, thread_page, subprocess_status_list, file_descriptor_page,
                   pstatus, awaited, exit_status, process_exit_lock, power, history>>

setup_file_descriptors(c) ==
    /\ At(c, "load")
    /\ LET g == palloc_get_page(kpage)
       IN IF g = Null
          THEN /\ successful' = [successful EXCEPT ![c] = FALSE]
               /\ UNCHANGED <<kpage, file_descriptor_page>>
          ELSE /\ kpage' = [kpage EXCEPT ![g] = [kind |-> "files"]]
               /\ file_descriptor_page' = [file_descriptor_page EXCEPT ![c] = g]
               /\ \E loaded \in BOOLEAN : successful' = [successful EXCEPT ![c] = loaded]
    /\ Goto(c, "tell")
    /\ UNCHANGED <<temp_kpage, thread_page, subprocess_status_page, subprocess_status_list,
                   pstatus, awaited, exit_status, process_exit_lock, power, history>>

(* What a read of *pstatus on page g finds: a page of monitors or of       *)
(* descriptors is zero there, a struct thread has its stack there.         *)
ReadPstatus(g) ==
    CASE kpage[g].kind = "temp" -> {kpage[g].pstatus}
      [] kpage[g].kind = "free" -> {Garbage}
      [] kpage[g].kind = "thread" -> {Null, Garbage}
      [] OTHER -> {Null}

(* Mutant: the parent is signalled only when the program could be loaded.  *)
start_process_silent(c) ==
    /\ At(c, "tell")
    /\ kpage' = IF successful[c]
                THEN [kpage EXCEPT ![temp_kpage[c]].pid = c, ![temp_kpage[c]].sema = @ + 1]
                ELSE kpage
    /\ Goto(c, IF successful[c] THEN "handoff" ELSE "exit")
    /\ UNCHANGED <<temp_kpage, procVars, process_exit_lock, power, history>>

(* start_process() tells the parent: *pid, then sema_up(), which does not  *)
(* yield to a parent of the same priority.                                 *)
start_process(c) ==
    /\ At(c, "tell")
    /\ kpage' = [kpage EXCEPT ![temp_kpage[c]].pid = IF successful[c] THEN c ELSE PID_ERROR,
                              ![temp_kpage[c]].sema = @ + 1]
    /\ Goto(c, IF successful[c] THEN "handoff" ELSE "exit")
    /\ pstatus' = [pstatus EXCEPT ![c] = Null]
    /\ exit_status' = [exit_status EXCEPT ![c] = -1]
    /\ UNCHANGED <<temp_kpage, thread_page, subprocess_status_page, subprocess_status_list,
                   file_descriptor_page, successful, awaited, process_exit_lock, power, history>>

(* start_process() reads *pstatus from the temporary page, or from what    *)
(* that page has become.                                                   *)
start_process_handoff(c) ==
    /\ At(c, "handoff")
    /\ \E m \in ReadPstatus(temp_kpage[c]) : pstatus' = [pstatus EXCEPT ![c] = m]
    /\ temp_kpage' = [temp_kpage EXCEPT ![c] = Null]
    /\ Goto(c, "user")
    /\ UNCHANGED <<kpage, thread_page, subprocess_status_page, subprocess_status_list,
                   file_descriptor_page, locals, process_exit_lock, power, history>>
-----------------------------------------------------------------------------
(* process_wait(); for a pid without a monitor it returns -1 and changes   *)
(* nothing.                                                                *)
process_wait(p, pid) ==
    /\ At(p, "user") /\ get_subprocess_monitor(p, pid) # Null
    /\ awaited' = [awaited EXCEPT ![p] = get_subprocess_monitor(p, pid)]
    /\ Goto(p, "wait")
    /\ UNCHANGED <<kpage, temp_kpage, thread_page, subprocess_status_page,
                   subprocess_status_list, file_descriptor_page, pstatus,
                   successful, exit_status, process_exit_lock, power, history>>

(* Mutant: the status is read without waiting for the child.               *)
process_wait_return_early(p) ==
    LET m == awaited[p] IN
    /\ At(p, "wait")
    /\ result' = [result EXCEPT ![Status(m).pid] = Status(m).exit_status]
    /\ Goto(p, "user")
    /\ UNCHANGED <<kpage, temp_kpage, procVars, process_exit_lock, power, parent, monitorOf>>

process_wait_return(p) ==
    LET m == awaited[p] IN
    /\ At(p, "wait") /\ Status(m).sema > 0
    /\ result' = [result EXCEPT ![Status(m).pid] = Status(m).exit_status]
    /\ \E i \in DOMAIN subprocess_status_list[p] :
          /\ subprocess_status_list[p][i] = m
          /\ subprocess_status_list' = [subprocess_status_list EXCEPT ![p] = list_remove(@, i)]
    /\ kpage' = SetStatus(kpage, m, ZeroStatus)
    /\ awaited' = [awaited EXCEPT ![p] = Null]
    /\ Goto(p, "user")
    /\ UNCHANGED <<temp_kpage, thread_page, subprocess_status_page, file_descriptor_page,
                   pstatus, successful, exit_status, process_exit_lock, power, parent, monitorOf>>
-----------------------------------------------------------------------------
(* thread_exit(status): the exit system call, or -1 from kill(), from an   *)
(* argument check_valid_pointer() refuses or from an unknown system call.  *)
thread_exit(p, status) ==
    /\ At(p, "user")
    /\ exit_status' = [exit_status EXCEPT ![p] = status]
    /\ Goto(p, "exit")
    /\ UNCHANGED <<kpage, temp_kpage, thread_page, subprocess_status_page,
                   subprocess_status_list, file_descriptor_page, pstatus,
                   successful, awaited, process_exit_lock, power, history>>

(* The test that precedes the report: is_kaddr_valid() asserts that the    *)
(* address lies in the pool; in_use is then read from whatever the page    *)
(* holds, and a semaphore found on a page of another kind is no semaphore. *)
process_exit(p) ==
    LET m == pstatus[p] IN
    /\ At(p, "exit") /\ process_exit_lock = Null
    /\ \/ /\ m = Garbage \/ (m \in Monitor /\ kpage[m[1]].kind \in {"temp", "thread", "files"})
          /\ Panic
       \/ /\ m # Garbage
          /\ \E in_use \in IF m = Null THEN {FALSE}
                           ELSE CASE kpage[m[1]].kind = "free" -> {FALSE}
                                  [] kpage[m[1]].kind = "monitors" -> {Status(m).in_use}
                                  [] OTHER -> {FALSE} :
                Goto(p, IF in_use THEN "report" ELSE "release")
          /\ process_exit_lock' = p
          /\ UNCHANGED <<kpage, temp_kpage, procVars, power, history>>

process_exit_report(p) ==
    LET m == pstatus[p] IN
    /\ At(p, "report")
    /\ kpage' = SetStatus(kpage, m, [Status(m) EXCEPT !.exit_status = exit_status[p],
                                                      !.sema = @ + 1])
    /\ Goto(p, "release")
    /\ UNCHANGED <<temp_kpage, procVars, process_exit_lock, power, history>>

(* Mutant: the page of monitors is not freed.                              *)
process_exit_release_leak(p) ==
    /\ At(p, "release") /\ subprocess_status_page[p] # Null
    /\ subprocess_status_list' = [subprocess_status_list EXCEPT ![p] = <<>>]
    /\ process_exit_lock' = Null
    /\ Goto(p, "files")
    /\ UNCHANGED <<kpage, temp_kpage, thread_page, subprocess_status_page,
                   file_descriptor_page, pstatus, locals, power, history>>

(* The list is emptied and its page freed.  A list that was never          *)
(* initialized is followed to NULL.                                        *)
process_exit_release(p) ==
    /\ At(p, "release")
    /\ IF subprocess_status_page[p] = Null
       THEN Panic
       ELSE /\ kpage' = palloc_free_page(kpage, subprocess_status_page[p])
            /\ subprocess_status_list' = [subprocess_status_list EXCEPT ![p] = <<>>]
            /\ process_exit_lock' = Null
            /\ Goto(p, "files")
            /\ UNCHANGED <<temp_kpage, thread_page, subprocess_status_page,
                           file_descriptor_page, pstatus, locals, power, history>>

(* The rest of process_exit(); the page of struct thread is freed by the   *)
(* next thread's thread_schedule_tail().                                   *)
process_exit_files(p) ==
    /\ At(p, "files")
    /\ IF file_descriptor_page[p] = Null
       THEN Panic
       ELSE /\ kpage' = palloc_free_page(palloc_free_page(kpage, file_descriptor_page[p]),
                                         thread_page[p])
            /\ Goto(p, "dead")
            /\ UNCHANGED <<temp_kpage, procVars, process_exit_lock, power, history>>

(* The halt system call.                                                   *)
halt(p) ==
    /\ At(p, "user") /\ power' = "off"
    /\ UNCHANGED <<kpage, pc, temp_kpage, procVars, process_exit_lock, history>>
-----------------------------------------------------------------------------
(* syscall_handler() and the exceptions, as far as they act on processes.  *)
syscall_handler(p) ==
    \/ \E fits \in BOOLEAN : process_execute(p, fits)
    \/ \E pid \in Pid : process_wait(p, pid)
    \/ \E status \in ExitStatus \cup {-1} : thread_exit(p, status)
    \/ halt(p)

(* Steps inside the kernel, which the scheduler lets every process take.   *)
KernelStep(p) ==
    \/ process_execute_create(p) \/ process_execute_return(p)
    \/ setup_subprocess_list(p) \/ setup_file_descriptors(p)
    \/ start_process(p) \/ start_process_handoff(p)
    \/ process_wait_return(p)
    \/ process_exit(p) \/ process_exit_report(p)
    \/ process_exit_release(p) \/ process_exit_files(p)

Next == \E p \in Pid : syscall_handler(p) \/ KernelStep(p)

Spec == Init /\ [][Next]_vars

(* Processes share one priority and the timer preempts them in turn; a     *)
(* lock or semaphore goes to the thread that waited longest, so a process  *)
(* that can take its kernel step again and again takes it.                 *)
FairSpec == Spec /\ \A p \in Pid : SF_vars(KernelStep(p))
-----------------------------------------------------------------------------
Alive(p) == pc[p] \notin {"none", "files", "dead"}

(* The processes that hold a pointer to page g by which it will be freed.  *)
OwnersOf(g) ==
    {<<"temp", p>> : p \in {q \in Pid : temp_kpage[q] = g /\ pc[q] \in {"create", "execute"}}}
    \cup {<<"thread", p>> : p \in {q \in Pid : thread_page[q] = g /\ pc[q] # "dead"}}
    \cup {<<"monitors", p>> : p \in {q \in Pid : subprocess_status_page[q] = g /\ Alive(q)}}
    \cup {<<"files", p>> : p \in {q \in Pid : file_descriptor_page[q] = g /\ pc[q] # "dead"}}

(* Every page taken from the pool has one owner that will free it and      *)
(* knows it as what it is; a free page has none: execs that fail, exits    *)
(* and waits in any order neither leak a page nor free it twice.           *)
PagesOwned ==
    power = "on" => \A g \in Page :
        IF kpage[g] \in {Free, Reserved} THEN OwnersOf(g) = {}
        ELSE \E p \in Pid : OwnersOf(g) = {<<kpage[g].kind, p>>}

(* The page of c's monitor has not been the page of another process whose  *)
(* children outlived it: they still point to it and report their exit to   *)
(* whatever monitor is in use there.                                       *)
NoOrphanPointsTo(c) == \A d \in Pid : pstatus[d] = monitorOf[c] => parent[d] = parent[c]

(* While its parent lives, a process that runs reports to the monitor its  *)
(* parent took for it: start_process() hands the pointer over before       *)
(* process_execute() frees the page that holds it.                         *)
ReportsToOwnMonitor ==
    power = "on" => \A c \in Pid :
        /\ parent[c] # Null /\ pc[c] \in {"user", "create", "execute", "wait"}
        /\ Alive(parent[c]) /\ NoOrphanPointsTo(c)
        => /\ pstatus[c] = monitorOf[c]
           /\ Status(monitorOf[c]).in_use
           /\ Status(monitorOf[c]).pid \in {0, c}

(* What process_wait() returned for a process is the status that process   *)
(* passed to thread_exit(), however exec, exit and wait were interleaved.  *)
WaitReturnsStatus ==
    \A c \in Pid : result[c] # Null /\ NoOrphanPointsTo(c) =>
        pc[c] \in {"release", "files", "dead"} /\ result[c] = exit_status[c]

(* process_execute() returns once its child exists: whatever the child     *)
(* does, the parent learns the outcome.  process_wait() returns once the   *)
(* awaited process is exiting.  Only the machine's stop may prevent it.    *)
CallsReturn ==
    \A p, c \in Pid :
        /\ (pc[p] = "execute" /\ pc[c] = "setup" /\ temp_kpage[p] = temp_kpage[c])
               ~> (pc[p] = "user" \/ power # "on")
        /\ (pc[p] = "wait" /\ parent[c] = p /\ Status(awaited[p]).pid = c /\ pc[c] = "exit")
               ~> (pc[p] = "user" \/ power # "on")
=============================================================================
