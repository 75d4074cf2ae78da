--------------------------- MODULE ProcessProofs ---------------------------
(***************************************************************************)
(* For any number of processes, monitors and pages, wherever a tick falls: *)
(* no page of the kernel pool is lost or freed twice. Then the invariant   *)
(* of the monitors, what it gives, the steps that keep it because they     *)
(* leave the monitors that are in use alone, and those that write to them; *)
(* with it every report reaches the monitor that was taken for the child,  *)
(* and every wait returns the child's status.                              *)
(***************************************************************************)
EXTENDS Process, TLAPS

Kind == {"free", "reserved", "temp", "thread", "monitors", "files"}

(* What the proofs need to know of the contents of a page; a write to a    *)
(* field other than kind preserves it.                                     *)
PageOK(r) == /\ r = [x \in DOMAIN r |-> r[x]]
             /\ "kind" \in DOMAIN r /\ r.kind \in Kind
             /\ r.kind = "free" => r = Free
             /\ r.kind = "reserved" => r = Reserved
PoolOK(k) == /\ k = [g \in Page |-> k[g]]
             /\ \A g \in Page : PageOK(k[g])

(* The pages of palloc.c are numbered from 1, and there are at least the   *)
(* three that Init uses.                                                   *)
LEMMA PageIsInterval == \E n \in Nat \ (0 .. 2) : Page = 1 .. n
BY ProcessAssumption, Zenon DEF Page

(* A scan finds a member of the set it goes through, or nothing.           *)
LEMMA ScanFinds == ASSUME NEW S, Scan(S) # Null
                   PROVE  Scan(S) \in S
<1>1. First(S) # {} /\ Scan(S) = CHOOSE i \in First(S) : TRUE
  BY Zenon DEF Scan
<1>2. Scan(S) \in First(S)
  BY <1>1, Zenon
<1> QED
  BY <1>2, Zenon DEF First

(* palloc_get_page() returns a page that is free.                          *)
LEMMA PallocTakesFree ==
    ASSUME NEW k, PoolOK(k), palloc_get_page(k) # Null
    PROVE  palloc_get_page(k) \in Page /\ k[palloc_get_page(k)] = Free
<1> DEFINE free == {g \in DOMAIN k : k[g] = Free}
<1>1. Scan(free) \in free /\ palloc_get_page(k) = Scan(free)
  BY ScanFinds, Zenon DEF palloc_get_page
<1>2. DOMAIN k = Page
  BY Zenon DEF PoolOK
<1> QED
  BY <1>1, <1>2, Zenon

(* A write to a field of a page leaves it a page of the same kind.         *)
LEMMA FieldWritten == ASSUME NEW r, PageOK(r), NEW f, f # "kind", NEW v
                      PROVE  PageOK([r EXCEPT ![f] = v]) /\ [r EXCEPT ![f] = v].kind = r.kind
BY Zenon DEF PageOK, Free, Reserved

(* The same kinds of pages; and page g, which had another kind, with kind  *)
(* n now.                                                                  *)
SameKinds(k, l) == \A g \in Page : l[g].kind = k[g].kind
Becomes(k, l, g, n) == /\ g \in Page /\ l[g].kind = n
                       /\ \A h \in Page \ {g} : l[h].kind = k[h].kind

(* A write through a pointer, stale or not, changes no kind of a page.     *)
LEMMA PageWritten == ASSUME NEW k, PoolOK(k), NEW x, NEW f, f # "kind", NEW v
                     PROVE  LET l == [k EXCEPT ![x] = [k[x] EXCEPT ![f] = v]]
                            IN PoolOK(l) /\ SameKinds(k, l)
<1> DEFINE l == [k EXCEPT ![x] = [k[x] EXCEPT ![f] = v]]
<1>1. \A g \in Page : PageOK(l[g]) /\ l[g].kind = k[g].kind
  <2> SUFFICES ASSUME NEW g \in Page PROVE PageOK(l[g]) /\ l[g].kind = k[g].kind BY Zenon
  <2>1. PageOK(k[g]) BY Zenon DEF PoolOK
  <2>2. CASE g = x
    <3>1. l[g] = [k[g] EXCEPT ![f] = v] BY <2>2, Zenon DEF PoolOK
    <3> QED BY <2>1, <3>1, FieldWritten
  <2>3. CASE g # x
    <3>1. l[g] = k[g] BY <2>3, Zenon DEF PoolOK
    <3> QED BY <2>1, <3>1, Zenon
  <2> QED BY <2>2, <2>3, Zenon
<1>2. l = [g \in Page |-> l[g]] BY Zenon DEF PoolOK
<1> QED BY <1>1, <1>2, Zenon DEF PoolOK, SameKinds

(* So does a write to a monitor.                                           *)
LEMMA StatusWritten == ASSUME NEW k, PoolOK(k), NEW m, NEW new
                       PROVE  PoolOK(SetStatus(k, m, new)) /\ SameKinds(k, SetStatus(k, m, new))
<1> DEFINE status == [k[m[1]].status EXCEPT ![m[2]] = new]
<1>1. SetStatus(k, m, new) = [k EXCEPT ![m[1]] = [k[m[1]] EXCEPT !["status"] = status]]
  BY Zenon DEF SetStatus
<1> HIDE DEF status
<1>2. LET l == [k EXCEPT ![m[1]] = [k[m[1]] EXCEPT !["status"] = status]]
      IN PoolOK(l) /\ SameKinds(k, l)
  BY PageWritten, Zenon
<1> QED BY <1>1, <1>2, Zenon

(* A page that is taken or freed is the only one whose kind changes.       *)
LEMMA PageReplaced == ASSUME NEW k, PoolOK(k), NEW g \in Page, NEW r, PageOK(r),
                             NEW l, l = [k EXCEPT ![g] = r]
                      PROVE  PoolOK(l) /\ Becomes(k, l, g, r.kind)
BY Zenon DEF PoolOK, Becomes

(* The pages the code fills in when it takes one are pages.                *)
LEMMA NewPagesOK == /\ PageOK(Free) /\ PageOK(Reserved) /\ PageOK(MonitorsPage)
                    /\ PageOK([kind |-> "thread"]) /\ PageOK([kind |-> "files"])
                    /\ \A m : PageOK([TempPage EXCEPT !.pstatus = m])
                    /\ Free.kind = "free" /\ Reserved.kind = "reserved"
                    /\ MonitorsPage.kind = "monitors"
                    /\ \A m : [TempPage EXCEPT !.pstatus = m].kind = "temp"
<1>1. PageOK(Free) /\ Free.kind = "free" BY Zenon DEF PageOK, Free, Kind
<1>2. PageOK(Reserved) /\ Reserved.kind = "reserved" BY Zenon DEF PageOK, Reserved, Kind
<1>3. PageOK(MonitorsPage) /\ MonitorsPage.kind = "monitors" BY Zenon DEF PageOK, MonitorsPage, Kind
<1>4. PageOK([kind |-> "thread"]) /\ PageOK([kind |-> "files"]) BY Zenon DEF PageOK, Kind
<1>5. PageOK(TempPage) /\ TempPage.kind = "temp" BY Zenon DEF PageOK, TempPage, Kind
<1>6. \A m : PageOK([TempPage EXCEPT !.pstatus = m]) /\ [TempPage EXCEPT !.pstatus = m].kind = "temp"
  BY <1>5, FieldWritten, Zenon
<1> QED BY <1>1, <1>2, <1>3, <1>4, <1>6, Zenon
-----------------------------------------------------------------------------
Place == {"none", "user", "create", "execute", "setup", "load", "tell", "handoff", "wait", "exit",
          "report", "release", "files", "dead"}

(* What a process has a page for: the pointer, and while it is the owner.  *)
Purpose == {"temp", "thread", "monitors", "files"}
Pointer(n, p) == CASE n = "temp" -> temp_kpage[p] [] n = "thread" -> thread_page[p]
                   [] n = "monitors" -> subprocess_status_page[p]
                   [] n = "files" -> file_descriptor_page[p]
Owns(n, p, g) == /\ Pointer(n, p) = g
                 /\ n = "temp" => pc[p] \in {"create", "execute"}
                 /\ n = "monitors" => Alive(p)
                 /\ n \in {"thread", "files"} => pc[p] # "dead"

TypesOK == /\ PoolOK(kpage)
           /\ pc \in [Pid -> Place]
           /\ temp_kpage \in [Pid -> Page \cup {Null}]
           /\ thread_page \in [Pid -> Page \cup {Null}]
           /\ subprocess_status_page \in [Pid -> Page \cup {Null}]
           /\ file_descriptor_page \in [Pid -> Page \cup {Null}]

(* An owner knows its page as what it is, no two have the same page, and   *)
(* every page that is in use has an owner.                                 *)
Ownership == /\ \A n \in Purpose, p \in Pid, g \in Page : Owns(n, p, g) => kpage[g].kind = n
             /\ \A n \in Purpose, p, q \in Pid, g \in Page : Owns(n, p, g) /\ Owns(n, q, g) => p = q
             /\ \A n \in Purpose, g \in Page : kpage[g].kind = n => \E p \in Pid : Owns(n, p, g)

(* A pointer is not set before its page is allocated.                      *)
NotYet == \A p \in Pid :
    /\ pc[p] = "none" <=> thread_page[p] = Null
    /\ pc[p] \in {"none", "setup"} => subprocess_status_page[p] = Null
    /\ pc[p] \in {"none", "setup", "load"} => file_descriptor_page[p] = Null
    /\ pc[p] \in {"create", "execute"} => temp_kpage[p] # Null

OwnershipInv == TypesOK /\ (power = "on" => Ownership /\ NotYet)

(* The inductive invariant gives PagesOwned, what exec, wait and exit      *)
(* promise.                                                                *)
LEMMA OwnershipGivesPagesOwned == ASSUME OwnershipInv PROVE PagesOwned
<1> SUFFICES ASSUME power = "on", NEW g \in Page
             PROVE  IF kpage[g] \in {Free, Reserved} THEN OwnersOf(g) = {}
                    ELSE \E p \in Pid : OwnersOf(g) = {<<kpage[g].kind, p>>}
  BY Zenon DEF PagesOwned
<1>1. \A x : x \in OwnersOf(g) <=> \E n \in Purpose, p \in Pid : x = <<n, p>> /\ Owns(n, p, g)
  <2>1. \A x : x \in OwnersOf(g) <=> \E p \in Pid :
            \/ x = <<"temp", p>> /\ temp_kpage[p] = g /\ pc[p] \in {"create", "execute"}
            \/ x = <<"thread", p>> /\ thread_page[p] = g /\ pc[p] # "dead"
            \/ x = <<"monitors", p>> /\ subprocess_status_page[p] = g /\ Alive(p)
            \/ x = <<"files", p>> /\ file_descriptor_page[p] = g /\ pc[p] # "dead"
    BY Zenon DEF OwnersOf
  <2>2. \A p \in Pid : /\ Owns("temp", p, g) <=> temp_kpage[p] = g /\ pc[p] \in {"create", "execute"}
                       /\ Owns("thread", p, g) <=> thread_page[p] = g /\ pc[p] # "dead"
                       /\ Owns("monitors", p, g) <=> subprocess_status_page[p] = g /\ Alive(p)
                       /\ Owns("files", p, g) <=> file_descriptor_page[p] = g /\ pc[p] # "dead"
    BY Zenon DEF Owns, Pointer
  <2> QED BY <2>1, <2>2, Zenon DEF Purpose
<1>2. PageOK(kpage[g]) BY Zenon DEF OwnershipInv, TypesOK, PoolOK
<1>3. \A n \in Purpose, p \in Pid : Owns(n, p, g) => kpage[g].kind = n BY Zenon DEF OwnershipInv, Ownership
<1>4. CASE kpage[g] \in {Free, Reserved}
  <2>1. kpage[g].kind \notin Purpose BY <1>4 DEF Free, Reserved, Purpose
  <2> QED BY <1>1, <1>3, <1>4, <2>1, Zenon
<1>5. CASE kpage[g] \notin {Free, Reserved}
  <2>1. kpage[g].kind \in Purpose BY <1>2, <1>5, Zenon DEF PageOK, Kind, Purpose
  <2>2. PICK p \in Pid : Owns(kpage[g].kind, p, g) BY <2>1, Zenon DEF OwnershipInv, Ownership
  <2>3. \A q \in Pid : Owns(kpage[g].kind, q, g) => q = p BY <2>1, <2>2, Zenon DEF OwnershipInv, Ownership
  <2>4. OwnersOf(g) = {<<kpage[g].kind, p>>} BY <1>1, <1>3, <2>1, <2>2, <2>3, Zenon
  <2> QED BY <1>5, <2>4, Zenon
<1> QED BY <1>4, <1>5, Zenon
-----------------------------------------------------------------------------
(* A step that gives the pages of F back, none if F is empty, and one that *)
(* takes a free page g for a purpose of process p.                         *)
Frees(F) == /\ \A h \in Page : kpage'[h].kind = IF h \in F THEN "free" ELSE kpage[h].kind
            /\ \A n \in Purpose, p \in Pid, h \in Page :
                   Owns(n, p, h)' <=> Owns(n, p, h) /\ h \notin F
Takes(n, p, g) == /\ kpage[g].kind = "free" /\ Becomes(kpage, kpage', g, n)
                  /\ \A m \in Purpose, q \in Pid, h \in Page :
                         Owns(m, q, h)' <=> Owns(m, q, h) \/ (m = n /\ q = p /\ h = g)

(* A step that frees what its caller owns keeps ownership.                 *)
LEMMA FreesKeepsOwnership == ASSUME Ownership, NEW F, Frees(F) PROVE Ownership'
<1>1. ASSUME NEW n \in Purpose, NEW p \in Pid, NEW g \in Page, Owns(n, p, g)'
      PROVE  kpage'[g].kind = n
  BY <1>1, Zenon DEF Ownership, Frees
<1>2. ASSUME NEW n \in Purpose, NEW p \in Pid, NEW q \in Pid, NEW g \in Page,
             Owns(n, p, g)', Owns(n, q, g)'
      PROVE  p = q
  BY <1>2 DEF Ownership, Frees
<1>3. ASSUME NEW n \in Purpose, NEW g \in Page, kpage'[g].kind = n
      PROVE  \E p \in Pid : Owns(n, p, g)'
  <2>1. g \notin F /\ kpage[g].kind = n BY <1>3, Zenon DEF Frees, Purpose
  <2>2. PICK p \in Pid : Owns(n, p, g) BY <2>1, Zenon DEF Ownership
  <2> QED BY <1>3, <2>1, <2>2, Zenon DEF Frees
<1> QED BY <1>1, <1>2, <1>3, Zenon DEF Ownership

(* A step that takes a free page for one process keeps ownership.          *)
LEMMA TakesKeepsOwnership ==
    ASSUME Ownership, NEW n \in Purpose, NEW p \in Pid, NEW g \in Page, Takes(n, p, g)
    PROVE  Ownership'
<1>1. \A m \in Purpose, q \in Pid : ~Owns(m, q, g) BY Zenon DEF Ownership, Takes, Purpose
<1>2. ASSUME NEW m \in Purpose, NEW q \in Pid, NEW h \in Page, Owns(m, q, h)'
      PROVE  kpage'[h].kind = m
  BY <1>1, <1>2 DEF Ownership, Takes, Becomes
<1>3. ASSUME NEW m \in Purpose, NEW q \in Pid, NEW r \in Pid, NEW h \in Page,
             Owns(m, q, h)', Owns(m, r, h)'
      PROVE  q = r
  BY <1>1, <1>3 DEF Ownership, Takes
<1>4. ASSUME NEW m \in Purpose, NEW h \in Page, kpage'[h].kind = m
      PROVE  \E q \in Pid : Owns(m, q, h)'
  <2>1. CASE h = g BY <1>4, <2>1, Zenon DEF Takes, Becomes
  <2>2. CASE h # g
    <3>1. kpage[h].kind = m BY <1>4, <2>2, Zenon DEF Takes, Becomes
    <3>2. PICK q \in Pid : Owns(m, q, h) BY <3>1, Zenon DEF Ownership
    <3> QED BY <3>2, Zenon DEF Takes
  <2> QED BY <2>1, <2>2, Zenon
<1> QED BY <1>2, <1>3, <1>4, Zenon DEF Ownership

(* The same for the whole invariant.                                       *)
LEMMA FreesStep == ASSUME OwnershipInv, power = "on", TypesOK', NotYet', NEW F, Frees(F)
                   PROVE  OwnershipInv'
BY FreesKeepsOwnership, Zenon DEF OwnershipInv

(* The same for the whole invariant.                                       *)
LEMMA TakesStep == ASSUME OwnershipInv, power = "on", TypesOK', NotYet',
                          NEW n \in Purpose, NEW p \in Pid, NEW g \in Page, Takes(n, p, g)
                   PROVE  OwnershipInv'
BY TakesKeepsOwnership, Zenon DEF OwnershipInv
-----------------------------------------------------------------------------
(* Steps that take no page and free none.                                  *)
Between == {"user", "tell", "handoff", "wait", "exit", "report", "release"}

(* A step between two places where the same pages are owned, which writes  *)
(* to pages at most, keeps the invariant.                                  *)
LEMMA MoveStep ==
    ASSUME OwnershipInv, power = "on", NEW p \in Pid, pc[p] \in Between \cup {"setup", "load"},
           NEW w \in Between, Goto(p, w), PoolOK(kpage'), SameKinds(kpage, kpage'),
           temp_kpage' = temp_kpage \/ temp_kpage' = [temp_kpage EXCEPT ![p] = Null],
           UNCHANGED <<thread_page, subprocess_status_page, file_descriptor_page>>
    PROVE  OwnershipInv'
<1>1. TypesOK /\ Ownership /\ NotYet BY Zenon DEF OwnershipInv
<1>2. TypesOK' BY <1>1, Zenon DEF TypesOK, Goto, Between, Place
<1>3. /\ pc'[p] = w /\ \A q \in Pid \ {p} : pc'[q] = pc[q]
      /\ \A q \in Pid \ {p} : temp_kpage'[q] = temp_kpage[q]
  BY <1>1, Zenon DEF TypesOK, Goto
<1>4. NotYet' BY <1>1, <1>3, Zenon DEF NotYet, Between
<1>5. ASSUME NEW n \in Purpose, NEW q \in Pid, NEW h \in Page
      PROVE  Owns(n, q, h)' <=> Owns(n, q, h)
  <2>1. CASE q = p BY <1>3, <2>1, Zenon DEF Owns, Pointer, Purpose, Alive, Between
  <2>2. CASE q # p BY <1>3, <2>2, Zenon DEF Owns, Pointer, Purpose, Alive
  <2> QED BY <2>1, <2>2, Zenon
<1>6. Frees({}) BY <1>5, Zenon DEF Frees, SameKinds
<1> QED BY <1>2, <1>4, <1>6, FreesStep, Zenon

(* After a panic or halt() nothing is promised.                            *)
LEMMA StopStep == ASSUME OwnershipInv, power' # "on",
                         UNCHANGED <<kpage, pc, temp_kpage, procVars>>
                  PROVE  OwnershipInv'
BY Zenon DEF OwnershipInv, TypesOK, procVars

(* process_wait() up to its sema_down().                                   *)
LEMMA WaitStep == ASSUME OwnershipInv, NEW p \in Pid, NEW pid \in Pid, process_wait(p, pid)
                  PROVE  OwnershipInv'
<1>1. PoolOK(kpage') /\ SameKinds(kpage, kpage')
  BY Zenon DEF process_wait, OwnershipInv, TypesOK, SameKinds
<1> QED BY <1>1, MoveStep, Zenon DEF process_wait, At, Between

(* exit(), and kill() of a process.                                        *)
LEMMA ExitCallStep == ASSUME OwnershipInv, NEW p \in Pid, NEW status, thread_exit(p, status)
                      PROVE  OwnershipInv'
<1>1. PoolOK(kpage') /\ SameKinds(kpage, kpage')
  BY Zenon DEF thread_exit, OwnershipInv, TypesOK, SameKinds
<1> QED BY <1>1, MoveStep, Zenon DEF thread_exit, At, Between

(* start_process() after its sema_up() reads *pstatus.                     *)
LEMMA HandoffStep == ASSUME OwnershipInv, NEW c \in Pid, start_process_handoff(c)
                     PROVE  OwnershipInv'
<1>1. PoolOK(kpage') /\ SameKinds(kpage, kpage')
  BY Zenon DEF start_process_handoff, OwnershipInv, TypesOK, SameKinds
<1> QED BY <1>1, MoveStep, Zenon DEF start_process_handoff, At, Between

(* process_exit() up to its report.                                        *)
LEMMA ExitStep == ASSUME OwnershipInv, NEW p \in Pid, process_exit(p) PROVE OwnershipInv'
<1>1. CASE Panic BY <1>1, StopStep, Zenon DEF Panic
<1>2. CASE ~Panic
  <2>1. PICK w \in {"report", "release"} : Goto(p, w) BY <1>2, Zenon DEF process_exit
  <2>2. At(p, "exit") /\ UNCHANGED <<kpage, temp_kpage, procVars>> BY <1>2, Zenon DEF process_exit
  <2>3. PoolOK(kpage') /\ SameKinds(kpage, kpage') BY <2>2, Zenon DEF OwnershipInv, TypesOK, SameKinds
  <2> QED BY <2>1, <2>2, <2>3, MoveStep, Zenon DEF At, Between, procVars
<1> QED BY <1>1, <1>2, Zenon

(* start_process() writes the outcome and ups the semaphore, through a     *)
(* pointer that may be stale.                                              *)
LEMMA TellStep == ASSUME OwnershipInv, NEW c \in Pid, start_process(c) PROVE OwnershipInv'
<1> DEFINE x == temp_kpage[c]
           pid == IF successful[c] THEN c ELSE PID_ERROR
           k == [kpage EXCEPT ![x] = [kpage[x] EXCEPT !["pid"] = pid]]
<1>1. kpage' = [k EXCEPT ![x] = [k[x] EXCEPT !["sema"] = k[x].sema + 1]] BY Zenon DEF start_process
<1>2. PoolOK(k) /\ SameKinds(kpage, k) BY PageWritten, Zenon DEF OwnershipInv, TypesOK
<1> HIDE DEF k
<1>3. PoolOK(kpage') /\ SameKinds(k, kpage') BY <1>1, <1>2, PageWritten, Zenon
<1>4. SameKinds(kpage, kpage') BY <1>2, <1>3, Zenon DEF SameKinds
<1>5. PICK w \in {"handoff", "exit"} : Goto(c, w) BY Zenon DEF start_process
<1> QED BY <1>3, <1>4, <1>5, MoveStep, Zenon DEF start_process, At, Between

(* process_exit() writes the status to the monitor, through a pointer that *)
(* may be stale.                                                           *)
LEMMA ReportStep == ASSUME OwnershipInv, NEW p \in Pid, process_exit_report(p) PROVE OwnershipInv'
<1>1. \E new : kpage' = SetStatus(kpage, pstatus[p], new) BY Zenon DEF process_exit_report
<1>2. PoolOK(kpage') /\ SameKinds(kpage, kpage') BY <1>1, StatusWritten, Zenon DEF OwnershipInv, TypesOK
<1> QED BY <1>2, MoveStep, Zenon DEF process_exit_report, At, Between, procVars

(* process_wait() reads the monitor and clears it.                         *)
LEMMA WaitReturnStep == ASSUME OwnershipInv, NEW p \in Pid, process_wait_return(p)
                        PROVE  OwnershipInv'
<1>1. kpage' = SetStatus(kpage, awaited[p], ZeroStatus) BY Zenon DEF process_wait_return
<1>2. PoolOK(kpage') /\ SameKinds(kpage, kpage') BY <1>1, StatusWritten, Zenon DEF OwnershipInv, TypesOK
<1> QED BY <1>2, MoveStep, Zenon DEF process_wait_return, At, Between
-----------------------------------------------------------------------------
(* Steps that take a page.                                                 *)
LEMMA SetupStep == ASSUME OwnershipInv, NEW c \in Pid, setup_subprocess_list(c)
                   PROVE  OwnershipInv'
<1> DEFINE g == palloc_get_page(kpage)
<1>0. power = "on" /\ TypesOK /\ Ownership /\ NotYet
  BY Zenon DEF setup_subprocess_list, At, OwnershipInv
<1>1. CASE g = Null
  <2>1. PoolOK(kpage') /\ SameKinds(kpage, kpage')
    BY <1>0, <1>1, Zenon DEF setup_subprocess_list, TypesOK, SameKinds
  <2> QED BY <1>1, <2>1, MoveStep, Zenon DEF setup_subprocess_list, At, Between
<1>2. CASE g # Null
  <2>1. g \in Page /\ kpage[g].kind = "free"
    BY <1>0, <1>2, PallocTakesFree, NewPagesOK, Zenon DEF TypesOK
  <2>2. /\ kpage' = [kpage EXCEPT ![g] = MonitorsPage]
        /\ subprocess_status_page' = [subprocess_status_page EXCEPT ![c] = g]
        /\ pc' = [pc EXCEPT ![c] = "load"] /\ pc[c] = "setup"
        /\ UNCHANGED <<temp_kpage, thread_page, file_descriptor_page>>
    BY <1>2, Zenon DEF setup_subprocess_list, At, Goto
  <2> HIDE DEF g
  <2>3. PoolOK(kpage') /\ Becomes(kpage, kpage', g, "monitors")
    <3>1. PoolOK(kpage) /\ PageOK(MonitorsPage) /\ MonitorsPage.kind = "monitors"
      BY <1>0, NewPagesOK, Zenon DEF TypesOK
    <3>2. PoolOK(kpage') /\ Becomes(kpage, kpage', g, MonitorsPage.kind)
      BY <2>1, <2>2, <3>1, PageReplaced, Zenon
    <3> QED BY <3>1, <3>2, Zenon
  <2>4. TypesOK' BY <1>0, <2>1, <2>2, <2>3, Zenon DEF TypesOK, Place
  <2>5. subprocess_status_page[c] = Null BY <1>0, <2>2, Zenon DEF NotYet
  <2>6. NotYet' BY <1>0, <2>2, Zenon DEF NotYet, TypesOK
  <2>7. ASSUME NEW m \in Purpose, NEW q \in Pid, NEW h \in Page
        PROVE  Owns(m, q, h)' <=> Owns(m, q, h) \/ (m = "monitors" /\ q = c /\ h = g)
    <3>1. CASE q = c
      BY <1>0, <2>1, <2>2, <2>5, <3>1, NullAssumption, Zenon DEF Owns, Pointer, Purpose, Alive, TypesOK
    <3>2. CASE q # c BY <1>0, <2>2, <3>2, Zenon DEF Owns, Pointer, Purpose, Alive, TypesOK
    <3> QED BY <3>1, <3>2, Zenon
  <2>8. Takes("monitors", c, g) BY <2>1, <2>3, <2>7, Zenon DEF Takes
  <2> QED BY <1>0, <2>1, <2>4, <2>6, <2>8, TakesStep, Zenon DEF Purpose
<1> QED BY <1>1, <1>2, Zenon

(* setup_file_descriptors() takes the page of descriptors, or fails.       *)
LEMMA DescriptorsStep == ASSUME OwnershipInv, NEW c \in Pid, setup_file_descriptors(c)
                         PROVE  OwnershipInv'
<1> DEFINE g == palloc_get_page(kpage)
<1>0. power = "on" /\ TypesOK /\ Ownership /\ NotYet
  BY Zenon DEF setup_file_descriptors, At, OwnershipInv
<1>1. CASE g = Null
  <2>1. PoolOK(kpage') /\ SameKinds(kpage, kpage')
    BY <1>0, <1>1, Zenon DEF setup_file_descriptors, TypesOK, SameKinds
  <2> QED BY <1>1, <2>1, MoveStep, Zenon DEF setup_file_descriptors, At, Between
<1>2. CASE g # Null
  <2>1. g \in Page /\ kpage[g].kind = "free"
    BY <1>0, <1>2, PallocTakesFree, NewPagesOK, Zenon DEF TypesOK
  <2>2. /\ kpage' = [kpage EXCEPT ![g] = [kind |-> "files"]]
        /\ file_descriptor_page' = [file_descriptor_page EXCEPT ![c] = g]
        /\ pc' = [pc EXCEPT ![c] = "tell"] /\ pc[c] = "load"
        /\ UNCHANGED <<temp_kpage, thread_page, subprocess_status_page>>
    BY <1>2, Zenon DEF setup_file_descriptors, At, Goto
  <2> HIDE DEF g
  <2>3. PoolOK(kpage') /\ Becomes(kpage, kpage', g, "files")
    <3>1. PoolOK(kpage) /\ PageOK([kind |-> "files"]) /\ [kind |-> "files"].kind = "files"
      BY <1>0, NewPagesOK, Zenon DEF TypesOK
    <3>2. PoolOK(kpage') /\ Becomes(kpage, kpage', g, [kind |-> "files"].kind)
      BY <2>1, <2>2, <3>1, PageReplaced, Zenon
    <3> QED BY <3>1, <3>2, Zenon
  <2>4. TypesOK' BY <1>0, <2>1, <2>2, <2>3, Zenon DEF TypesOK, Place
  <2>5. file_descriptor_page[c] = Null BY <1>0, <2>2, Zenon DEF NotYet
  <2>6. NotYet' BY <1>0, <2>2, Zenon DEF NotYet, TypesOK
  <2>7. ASSUME NEW m \in Purpose, NEW q \in Pid, NEW h \in Page
        PROVE  Owns(m, q, h)' <=> Owns(m, q, h) \/ (m = "files" /\ q = c /\ h = g)
    <3>1. CASE q = c
      BY <1>0, <2>1, <2>2, <2>5, <3>1, NullAssumption, Zenon DEF Owns, Pointer, Purpose, Alive, TypesOK
    <3>2. CASE q # c BY <1>0, <2>2, <3>2, Zenon DEF Owns, Pointer, Purpose, Alive, TypesOK
    <3> QED BY <3>1, <3>2, Zenon
  <2>8. Takes("files", c, g) BY <2>1, <2>3, <2>7, Zenon DEF Takes
  <2> QED BY <1>0, <2>1, <2>4, <2>6, <2>8, TakesStep, Zenon DEF Purpose
<1> QED BY <1>1, <1>2, Zenon

(* process_execute() takes the temporary page, or fails.                   *)
LEMMA ExecuteStep == ASSUME OwnershipInv, NEW p \in Pid, NEW fits \in BOOLEAN,
                            process_execute(p, fits)
                     PROVE  OwnershipInv'
<1>0. power = "on" /\ TypesOK /\ Ownership /\ NotYet
  BY ZenonT(40) DEF process_execute, At, OwnershipInv
<1> DEFINE g == palloc_get_page(kpage)
           m == get_new_subprocess_monitor(p)
<1>1. CASE ~fits \/ m = Null BY <1>1, StopStep, Zenon DEF process_execute, Panic
<1>2. CASE ~(~fits \/ m = Null)
  <2>1. g \in Page /\ kpage[g].kind = "free"
    BY <1>0, PallocTakesFree, NewPagesOK, ZenonT(40) DEF process_execute, TypesOK
  <2> DEFINE r == [TempPage EXCEPT !.pstatus = m]
             k == [kpage EXCEPT ![g] = r]
             new == [Status(m) EXCEPT !.in_use = TRUE, !.sema = 0]
  <2>2. /\ kpage' = SetStatus(k, m, new)
        /\ temp_kpage' = [temp_kpage EXCEPT ![p] = g]
        /\ pc' = [pc EXCEPT ![p] = "create"] /\ pc[p] = "user"
        /\ UNCHANGED <<thread_page, subprocess_status_page, file_descriptor_page>>
    BY <1>2, Zenon DEF process_execute, At, Goto, procVars
  <2>3. PoolOK(kpage) /\ PageOK(r) /\ r.kind = "temp" BY <1>0, NewPagesOK, Zenon DEF TypesOK
  <2> HIDE DEF g, m, new, r
  <2>4. PoolOK(k) /\ Becomes(kpage, k, g, "temp") BY <2>1, <2>3, PageReplaced, Zenon
  <2> HIDE DEF k
  <2>6. PoolOK(kpage') /\ SameKinds(k, kpage') BY <2>2, <2>4, StatusWritten, Zenon
  <2>7. Becomes(kpage, kpage', g, "temp") BY <2>4, <2>6, Zenon DEF SameKinds, Becomes
  <2>8. TypesOK' BY <1>0, <2>1, <2>2, <2>6, Zenon DEF TypesOK, Place
  <2>9. NotYet' BY <1>0, <2>1, <2>2, NullAssumption, Zenon DEF NotYet, TypesOK
  <2>10. ASSUME NEW n \in Purpose, NEW q \in Pid, NEW h \in Page
         PROVE  Owns(n, q, h)' <=> Owns(n, q, h) \/ (n = "temp" /\ q = p /\ h = g)
    <3>1. CASE q = p BY <1>0, <2>2, <3>1, Zenon DEF Owns, Pointer, Purpose, Alive, TypesOK
    <3>2. CASE q # p BY <1>0, <2>2, <3>2, Zenon DEF Owns, Pointer, Purpose, Alive, TypesOK
    <3> QED BY <3>1, <3>2, Zenon
  <2>11. Takes("temp", p, g) BY <2>1, <2>7, <2>10, Zenon DEF Takes
  <2> QED BY <1>0, <2>1, <2>8, <2>9, <2>11, TakesStep, Zenon DEF Purpose
<1> QED BY <1>1, <1>2, Zenon

(* thread_create() takes the page of the thread, or fails.                 *)
LEMMA CreateStep == ASSUME OwnershipInv, NEW p \in Pid, process_execute_create(p)
                    PROVE  OwnershipInv'
<1> DEFINE g == palloc_get_page(kpage)
<1>0. power = "on" /\ TypesOK /\ Ownership /\ NotYet /\ pc[p] = "create"
  BY Zenon DEF process_execute_create, At, OwnershipInv
<1>1. CASE g = Null
  <2>1. /\ pc' = [pc EXCEPT ![p] = "execute"]
        /\ UNCHANGED <<kpage, temp_kpage, thread_page, subprocess_status_page, file_descriptor_page>>
    BY <1>1, Zenon DEF process_execute_create, Goto
  <2>2. TypesOK' BY <1>0, <2>1, Zenon DEF TypesOK, Place
  <2>3. NotYet' BY <1>0, <2>1, Zenon DEF NotYet, TypesOK
  <2>4. ASSUME NEW n \in Purpose, NEW q \in Pid, NEW h \in Page
        PROVE  Owns(n, q, h)' <=> Owns(n, q, h)
    BY <1>0, <2>1, Zenon DEF Owns, Pointer, Purpose, Alive, TypesOK
  <2>5. Frees({}) BY <2>1, <2>4, Zenon DEF Frees
  <2> QED BY <1>0, <2>2, <2>3, <2>5, FreesStep, Zenon
<1>2. CASE g # Null
  <2>1. g \in Page /\ kpage[g].kind = "free"
    BY <1>0, <1>2, PallocTakesFree, NewPagesOK, Zenon DEF TypesOK
  <2>2. PICK c \in Pid :
          /\ pc[c] = "none" /\ pc' = [pc EXCEPT ![p] = "execute", ![c] = "setup"]
          /\ kpage' = [kpage EXCEPT ![g] = [kind |-> "thread"]]
          /\ thread_page' = [thread_page EXCEPT ![c] = g]
          /\ temp_kpage' = [temp_kpage EXCEPT ![c] = temp_kpage[p]]
          /\ UNCHANGED <<subprocess_status_page, file_descriptor_page>>
    BY <1>2, Zenon DEF process_execute_create
  <2> HIDE DEF g
  <2>3. PoolOK(kpage') /\ Becomes(kpage, kpage', g, "thread")
    <3>1. PoolOK(kpage) /\ PageOK([kind |-> "thread"]) /\ [kind |-> "thread"].kind = "thread"
      BY <1>0, NewPagesOK, Zenon DEF TypesOK
    <3>2. PoolOK(kpage') /\ Becomes(kpage, kpage', g, [kind |-> "thread"].kind)
      BY <2>1, <2>2, <3>1, PageReplaced, Zenon
    <3> QED BY <3>1, <3>2, Zenon
  <2>4. TypesOK' BY <1>0, <2>1, <2>2, <2>3, Zenon DEF TypesOK, Place
  <2>5. c # p /\ thread_page[c] = Null /\ subprocess_status_page[c] = Null
        /\ file_descriptor_page[c] = Null
    BY <1>0, <2>2, Zenon DEF NotYet
  <2>6. NotYet' BY <1>0, <2>1, <2>2, <2>5, NullAssumption, Zenon DEF NotYet, TypesOK
  <2>7. ASSUME NEW n \in Purpose, NEW q \in Pid, NEW h \in Page
        PROVE  Owns(n, q, h)' <=> Owns(n, q, h) \/ (n = "thread" /\ q = c /\ h = g)
    <3>1. CASE q = c
      BY <1>0, <2>2, <2>5, <3>1, NullAssumption, Zenon DEF Owns, Pointer, Purpose, Alive, TypesOK
    <3>2. CASE q = p BY <1>0, <2>2, <2>5, <3>2, Zenon DEF Owns, Pointer, Purpose, Alive, TypesOK
    <3>3. CASE q \notin {c, p} BY <1>0, <2>2, <3>3, Zenon DEF Owns, Pointer, Purpose, Alive, TypesOK
    <3> QED BY <3>1, <3>2, <3>3, Zenon
  <2>8. Takes("thread", c, g) BY <2>1, <2>3, <2>7, Zenon DEF Takes
  <2> QED BY <1>0, <2>1, <2>4, <2>6, <2>8, TakesStep, Zenon DEF Purpose
<1> QED BY <1>1, <1>2, Zenon
-----------------------------------------------------------------------------
(* Steps that free pages: what is freed is the caller's own, and the       *)
(* caller goes where it owns it no longer.                                 *)
LEMMA ReturnStep == ASSUME OwnershipInv, NEW p \in Pid, process_execute_return(p)
                    PROVE  OwnershipInv'
<1>0. power = "on" /\ TypesOK /\ Ownership /\ NotYet /\ pc[p] = "execute"
  BY Zenon DEF process_execute_return, At, OwnershipInv
<1>1. temp_kpage[p] \in Page BY <1>0, Zenon DEF NotYet, TypesOK
<1> DEFINE g == temp_kpage[p]
           m == kpage[g].pstatus
           pid == kpage[g].pid
           new == IF pid = PID_ERROR THEN ZeroStatus ELSE [Status(m) EXCEPT !.pid = pid]
           k == SetStatus(kpage, m, new)
<1>2. /\ kpage' = [k EXCEPT ![g] = Free]
      /\ temp_kpage' = [temp_kpage EXCEPT ![p] = Null] /\ pc' = [pc EXCEPT ![p] = "user"]
      /\ UNCHANGED <<thread_page, subprocess_status_page, file_descriptor_page>>
  BY Zenon DEF process_execute_return, palloc_free_page, Goto
<1> HIDE DEF new
<1>3. PoolOK(k) /\ SameKinds(kpage, k) BY <1>0, StatusWritten, Zenon DEF TypesOK
<1> HIDE DEF k
<1>4. PoolOK(kpage') /\ Becomes(k, kpage', g, "free") BY <1>1, <1>2, <1>3, PageReplaced, NewPagesOK, Zenon
<1>5. TypesOK' BY <1>0, <1>2, <1>4, Zenon DEF TypesOK, Place
<1>6. NotYet' BY <1>0, <1>2, Zenon DEF NotYet, TypesOK
<1>7. \A h \in Page : kpage'[h].kind = IF h \in {g} THEN "free" ELSE kpage[h].kind
  BY <1>3, <1>4, Zenon DEF SameKinds, Becomes
<1>8. ASSUME NEW n \in Purpose, NEW q \in Pid, NEW h \in Page
      PROVE  Owns(n, q, h)' <=> Owns(n, q, h) /\ h \notin {g}
  <2>1. Owns("temp", p, g) BY <1>0, Zenon DEF Owns, Pointer
  <2>2. Owns(n, q, g) => n = "temp" /\ q = p BY <1>0, <1>1, <2>1 DEF Ownership, Purpose
  <2>3. CASE q = p BY <1>0, <1>2, <2>2, <2>3, Zenon DEF Owns, Pointer, Purpose, Alive, TypesOK
  <2>4. CASE q # p BY <1>0, <1>2, <2>2, <2>4, Zenon DEF Owns, Pointer, Purpose, Alive, TypesOK
  <2> QED BY <2>3, <2>4, Zenon
<1>9. Frees({g}) BY <1>7, <1>8, Zenon DEF Frees
<1> QED BY <1>0, <1>5, <1>6, <1>9, FreesStep, Zenon

(* process_exit() frees the page of monitors.                              *)
LEMMA ReleaseStep == ASSUME OwnershipInv, NEW p \in Pid, process_exit_release(p)
                     PROVE  OwnershipInv'
<1> DEFINE g == subprocess_status_page[p]
<1>0. power = "on" /\ TypesOK /\ Ownership /\ NotYet /\ pc[p] = "release"
  BY Zenon DEF process_exit_release, At, OwnershipInv
<1>1. CASE g = Null BY <1>1, StopStep, Zenon DEF process_exit_release, Panic
<1>2. CASE g # Null
  <2>1. g \in Page BY <1>0, <1>2, Zenon DEF TypesOK
  <2>2. /\ kpage' = [kpage EXCEPT ![g] = Free] /\ pc' = [pc EXCEPT ![p] = "files"]
        /\ UNCHANGED <<temp_kpage, thread_page, subprocess_status_page, file_descriptor_page>>
    BY <1>2, Zenon DEF process_exit_release, palloc_free_page, Goto
  <2>3. PoolOK(kpage') /\ Becomes(kpage, kpage', g, "free")
    BY <1>0, <2>1, <2>2, PageReplaced, NewPagesOK, ZenonT(40) DEF TypesOK
  <2>4. TypesOK' BY <1>0, <2>2, <2>3, Zenon DEF TypesOK, Place
  <2>5. NotYet' BY <1>0, <2>2, Zenon DEF NotYet, TypesOK
  <2>6. ASSUME NEW n \in Purpose, NEW q \in Pid, NEW h \in Page
        PROVE  Owns(n, q, h)' <=> Owns(n, q, h) /\ h \notin {g}
    <3>1. Owns("monitors", p, g) BY <1>0, Zenon DEF Owns, Pointer, Alive
    <3>2. Owns(n, q, g) => n = "monitors" /\ q = p BY <1>0, <2>1, <3>1 DEF Ownership, Purpose
    <3>3. CASE q = p BY <1>0, <2>2, <3>2, <3>3, Zenon DEF Owns, Pointer, Purpose, Alive, TypesOK
    <3>4. CASE q # p BY <1>0, <2>2, <3>2, <3>4, Zenon DEF Owns, Pointer, Purpose, Alive, TypesOK
    <3> QED BY <3>3, <3>4, Zenon
  <2>7. Frees({g}) BY <2>3, <2>6, Zenon DEF Frees, Becomes
  <2> QED BY <1>0, <2>4, <2>5, <2>7, FreesStep, Zenon
<1> QED BY <1>1, <1>2, Zenon

(* The end of process_exit() and of the thread frees the page of           *)
(* descriptors and the page of the thread.                                 *)
LEMMA FilesStep == ASSUME OwnershipInv, NEW p \in Pid, process_exit_files(p) PROVE OwnershipInv'
<1> DEFINE f == file_descriptor_page[p]
           g == thread_page[p]
           k == [kpage EXCEPT ![f] = Free]
<1>0. power = "on" /\ TypesOK /\ Ownership /\ NotYet /\ pc[p] = "files"
  BY Zenon DEF process_exit_files, At, OwnershipInv
<1>1. CASE f = Null BY <1>1, StopStep, Zenon DEF process_exit_files, Panic
<1>2. CASE f # Null
  <2>1. f \in Page /\ g \in Page BY <1>0, <1>2, Zenon DEF TypesOK, NotYet
  <2>2. /\ kpage' = [k EXCEPT ![g] = Free] /\ pc' = [pc EXCEPT ![p] = "dead"]
        /\ UNCHANGED <<temp_kpage, thread_page, subprocess_status_page, file_descriptor_page>>
    BY <1>2, Zenon DEF process_exit_files, palloc_free_page, Goto, procVars
  <2>3. PoolOK(k) /\ Becomes(kpage, k, f, "free")
    BY <1>0, <2>1, PageReplaced, NewPagesOK DEF TypesOK
  <2> HIDE DEF k
  <2>4. /\ PoolOK(kpage')
        /\ \A h \in Page : kpage'[h].kind = IF h \in {f, g} THEN "free" ELSE kpage[h].kind
    <3>1. PoolOK(kpage') /\ Becomes(k, kpage', g, "free")
      BY <2>1, <2>2, <2>3, PageReplaced, NewPagesOK, Zenon
    <3> QED BY <2>3, <3>1, Zenon DEF Becomes
  <2>5. TypesOK' BY <1>0, <2>2, <2>4, Zenon DEF TypesOK, Place
  <2>6. NotYet' BY <1>0, <2>2, Zenon DEF NotYet, TypesOK
  <2>7. ASSUME NEW n \in Purpose, NEW q \in Pid, NEW h \in Page
        PROVE  Owns(n, q, h)' <=> Owns(n, q, h) /\ h \notin {f, g}
    <3>1. Owns("files", p, f) /\ Owns("thread", p, g) BY <1>0, Zenon DEF Owns, Pointer
    <3>2. Owns(n, q, h) /\ h = f => n = "files" /\ q = p BY <1>0, <3>1 DEF Ownership, Purpose
    <3>3. Owns(n, q, h) /\ h = g => n = "thread" /\ q = p BY <1>0, <3>1 DEF Ownership, Purpose
    <3>4. CASE q = p BY <1>0, <2>2, <3>2, <3>3, <3>4, Zenon DEF Owns, Pointer, Purpose, Alive, TypesOK
    <3>5. CASE q # p BY <1>0, <2>2, <3>2, <3>3, <3>5, Zenon DEF Owns, Pointer, Purpose, Alive, TypesOK
    <3> QED BY <3>4, <3>5, Zenon
  <2>8. Frees({f, g}) BY <2>4, <2>7, Zenon DEF Frees
  <2> QED BY <1>0, <2>5, <2>6, <2>8, FreesStep, Zenon
<1> QED BY <1>1, <1>2, Zenon
-----------------------------------------------------------------------------
(* The pages main() has taken when it has started its process.             *)
LEMMA InitPool ==
    ASSUME Init
    PROVE  /\ kpage = [g \in Page |-> kpage[g]] /\ 1 \in Pid /\ 1 .. 3 \subseteq Page
           /\ kpage[1] = MonitorsPage /\ kpage[2] = [kind |-> "files"] /\ kpage[3] = [kind |-> "thread"]
           /\ \A g \in Page \ {1, 2, 3} : kpage[g] \in {Free, Reserved}
<1>1. PICK b \in PoolSizes : kpage = [g \in Page |-> CASE g = 1 -> MonitorsPage
                                                     [] g = 2 -> [kind |-> "files"]
                                                     [] g = 3 -> [kind |-> "thread"]
                                                     [] g > b -> Reserved
                                                     [] OTHER -> Free]
  BY Zenon DEF Init
<1>2. b \in Nat \ (0 .. 2) /\ 1 \in Pid /\ Page \subseteq Nat /\ 1 .. 3 \subseteq Page
  BY ProcessAssumption, PageIsInterval DEF Pid
<1> QED
  BY <1>1, <1>2

(* The invariant holds when main() has started its process.                *)
LEMMA InitOwnership == ASSUME Init PROVE OwnershipInv
<1>2. 1 \in Pid /\ 1 .. 3 \subseteq Page
  BY InitPool, Zenon
<1>3. /\ kpage[1] = MonitorsPage /\ kpage[2] = [kind |-> "files"] /\ kpage[3] = [kind |-> "thread"]
      /\ \A g \in Page \ {1, 2, 3} : kpage[g] \in {Free, Reserved}
  BY InitPool, Zenon
<1>4. PoolOK(kpage)
  <2>1. \A g \in Page : PageOK(kpage[g]) BY <1>2, <1>3, NewPagesOK, Zenon
  <2> QED BY <2>1, InitPool, Zenon DEF PoolOK
<1>5. /\ pc = [p \in Pid |-> IF p = 1 THEN "user" ELSE "none"]
      /\ temp_kpage = [p \in Pid |-> Null]
      /\ thread_page = [p \in Pid |-> IF p = 1 THEN 3 ELSE Null]
      /\ subprocess_status_page = [p \in Pid |-> IF p = 1 THEN 1 ELSE Null]
      /\ file_descriptor_page = [p \in Pid |-> IF p = 1 THEN 2 ELSE Null]
  BY Zenon DEF Init
<1>6. TypesOK BY <1>2, <1>4, <1>5 DEF TypesOK, Place
<1>7. NotYet BY <1>2, <1>5, NullAssumption DEF NotYet
<1>8. ASSUME NEW n \in Purpose, NEW p \in Pid, NEW g \in Page
      PROVE  Owns(n, p, g) <=> p = 1 /\ <<n, g>> \in {<<"monitors", 1>>, <<"files", 2>>, <<"thread", 3>>}
  <2>1. CASE p = 1
    <3>1. /\ pc[p] = "user" /\ temp_kpage[p] = Null /\ thread_page[p] = 3
          /\ subprocess_status_page[p] = 1 /\ file_descriptor_page[p] = 2
      BY <1>5, <2>1, Zenon
    <3> QED BY <2>1, <3>1, NullAssumption, Zenon DEF Owns, Pointer, Purpose, Alive
  <2>2. CASE p # 1
    <3>1. /\ temp_kpage[p] = Null /\ thread_page[p] = Null
          /\ subprocess_status_page[p] = Null /\ file_descriptor_page[p] = Null
      BY <1>5, <2>2, Zenon
    <3> QED BY <2>2, <3>1, NullAssumption, Zenon DEF Owns, Pointer, Purpose
  <2> QED BY <2>1, <2>2, Zenon
<1>9. /\ kpage[1].kind = "monitors" /\ kpage[2].kind = "files" /\ kpage[3].kind = "thread"
      /\ \A g \in Page \ {1, 2, 3} : kpage[g].kind \notin Purpose
  BY <1>3, NewPagesOK DEF Purpose
<1>10. Ownership
  <2>1. \A n \in Purpose, p \in Pid, g \in Page : Owns(n, p, g) => kpage[g].kind = n
    BY <1>8, <1>9, Zenon
  <2>2. ASSUME NEW n \in Purpose, NEW g \in Page, kpage[g].kind = n PROVE Owns(n, 1, g)
    BY <1>2, <1>8, <1>9, <2>2, Zenon
  <2> QED BY <1>2, <1>8, <2>1, <2>2 DEF Ownership
<1> QED BY <1>6, <1>7, <1>10, Zenon DEF OwnershipInv

(* Every step keeps the invariant.                                         *)
LEMMA NextOwnership == ASSUME OwnershipInv, [Next]_vars PROVE OwnershipInv'
<1>1. ASSUME NEW p \in Pid, syscall_handler(p) PROVE OwnershipInv'
  <2>1. CASE halt(p) BY <2>1, StopStep, Zenon DEF halt
  <2> QED BY <1>1, <2>1, ExecuteStep, WaitStep, ExitCallStep, Zenon DEF syscall_handler
<1>2. ASSUME NEW p \in Pid, KernelStep(p) PROVE OwnershipInv'
  BY Zenon, <1>2, CreateStep, ReturnStep, SetupStep, DescriptorsStep, TellStep, HandoffStep,
     WaitReturnStep, ExitStep, ReportStep, ReleaseStep, FilesStep DEF KernelStep
<1>3. CASE UNCHANGED vars
  <2>1. UNCHANGED <<kpage, pc, temp_kpage, thread_page, subprocess_status_page,
                    file_descriptor_page, power>>
    BY <1>3, Zenon DEF vars, procVars
  <2>2. CASE power # "on" BY <2>1, <2>2, Zenon DEF OwnershipInv, TypesOK
  <2>3. CASE power = "on"
    <3>1. TypesOK' /\ NotYet' BY <2>1, <2>3, Zenon DEF OwnershipInv, TypesOK, NotYet
    <3>2. ASSUME NEW n \in Purpose, NEW p \in Pid, NEW h \in Page
          PROVE  Owns(n, p, h)' <=> Owns(n, p, h)
      BY <2>1, Zenon DEF Owns, Pointer, Purpose, Alive
    <3>3. Frees({}) BY <2>1, <3>2, Zenon DEF Frees
    <3> QED BY <2>3, <3>1, <3>3, FreesStep, Zenon
  <2> QED BY <2>2, <2>3, Zenon
<1> QED BY <1>1, <1>2, <1>3, Zenon DEF Next

(* process.c with palloc.c: through execs that fail at any allocation,     *)
(* exits and waits in any order, and wherever a tick falls, every page     *)
(* taken from the kernel pool has exactly one owner, which knows it as     *)
(* what it is, and a free page has none, until the machine stops.          *)
THEOREM PagesAlwaysOwned == Spec => []PagesOwned
<1>1. Init => OwnershipInv BY InitOwnership, Zenon
<1>2. OwnershipInv /\ [Next]_vars => OwnershipInv' BY NextOwnership, Zenon
<1>3. OwnershipInv => PagesOwned BY OwnershipGivesPagesOwned, Zenon
<1> QED BY <1>1, <1>2, <1>3, PTL DEF Spec
-----------------------------------------------------------------------------
(* The monitors.  Where a process is before it has been handed its         *)
(* pointer, and once it has reported.                                      *)
Starting == {"setup", "load", "tell", "handoff"}
Gone == {"release", "files", "dead"}

StatusRecord == [in_use : BOOLEAN, sema : Nat, pid : Pid \cup {0},
                 exit_status : ExitStatus \cup {-1, 0}]
TempRecord == [kind : {"temp"}, pid : Pid \cup {PID_ERROR}, sema : Nat, pstatus : Monitor]

(* What is on the pages of k.                                              *)
ContentsOK(k) ==
    \A g \in Page :
        /\ k[g].kind = "monitors" => "status" \in DOMAIN k[g] /\ k[g].status \in [Slot -> StatusRecord]
        /\ k[g].kind = "temp" => k[g] \in TempRecord

ValuesOK ==
    /\ ContentsOK(kpage)
    /\ subprocess_status_list \in [Pid -> Seq(Monitor)]
    /\ pstatus \in [Pid -> Monitor \cup {Null}]
    /\ awaited \in [Pid -> Monitor \cup {Null}]
    /\ successful \in [Pid -> BOOLEAN]
    /\ exit_status \in [Pid -> ExitStatus \cup {-1, 0}]
    /\ parent \in [Pid -> Pid \cup {Null}]
    /\ monitorOf \in [Pid -> Monitor \cup {Null}]
    /\ result \in [Pid -> ExitStatus \cup {-1, 0, Null}]

(* A monitor of p, and the fields of the temporary page of p's exec.       *)
Has(p, m) == Alive(p) /\ m \in Monitor /\ m[1] = subprocess_status_page[p]
InExec(p) == pc[p] \in {"create", "execute"}
ExecSema(p) == kpage[temp_kpage[p]].sema
ExecPid(p) == kpage[temp_kpage[p]].pid
ExecMonitor(p) == kpage[temp_kpage[p]].pstatus

(* What a process has at each of its stages: a process that runs has its   *)
(* page of monitors, one that reports holds process_exit_lock and has a    *)
(* monitor to report to.                                                   *)
StagesOK ==
    \A p \in Pid :
        /\ pc[p] \in {"user", "create", "execute", "wait", "handoff", "load"} => subprocess_status_page[p] # Null
        /\ pc[p] = "tell" /\ successful[p] => subprocess_status_page[p] # Null
        /\ pc[p] \in {"report", "release"} => process_exit_lock = p
        /\ pc[p] = "report" => pstatus[p] # Null /\ kpage[pstatus[p][1]].kind = "monitors"

(* Parents and children: a process points to the monitor it was created    *)
(* for or to none, and that monitor is on the page of its parent.          *)
FamilyOK ==
    /\ \A c \in Pid : /\ pc[c] = "none" => parent[c] = Null /\ result[c] = Null
                      /\ parent[c] = Null => pstatus[c] = Null /\ result[c] = Null
    /\ \A c, p \in Pid : parent[c] = p =>
          /\ monitorOf[c] # Null /\ pstatus[c] \in {Null, monitorOf[c]}
          /\ pc[p] \notin Starting \cup {"none"}
          /\ Alive(p) => monitorOf[c][1] = subprocess_status_page[p]
          /\ pc[c] \in {"user", "create", "execute", "wait"} => pstatus[c] = monitorOf[c]

(* A child that starts shares the temporary page with its parent, which    *)
(* waits for it in process_execute(); it is the only one that does.        *)
BirthsOK ==
    /\ \A c \in Pid : pc[c] \in Starting => parent[c] # Null /\ pstatus[c] = Null
    /\ \A c, p \in Pid : pc[c] \in Starting /\ parent[c] = p =>
          /\ pc[p] = "execute" /\ temp_kpage[c] = temp_kpage[p] /\ ExecMonitor(p) = monitorOf[c]
          /\ pc[c] # "handoff" => ExecSema(p) = 0
          /\ pc[c] = "handoff" => ExecSema(p) > 0 /\ ExecPid(p) = c
    /\ \A c, d \in Pid : pc[c] \in Starting /\ pc[d] \in Starting /\ parent[c] = parent[d] => c = d

(* No other process's child points to monitor m of p.                      *)
Untainted(m, p) == \A d \in Pid : pstatus[d] = m => parent[d] = p

(* c is the child that monitor m of p is in use for.                       *)
Uses(p, m, c) ==
    \/ Status(m).pid = c
    \/ /\ pc[p] = "execute" /\ ExecSema(p) > 0 /\ ExecPid(p) = c
       /\ ExecMonitor(p) = m /\ pc[c] # "handoff"

(* The monitor m that the exec of p has taken: it has no pid yet, and if   *)
(* the child has told its pid it is the child m was taken for.             *)
ExecOK(p, m) ==
    /\ m[1] = subprocess_status_page[p] /\ Status(m).in_use /\ Status(m).pid = 0
    /\ pc[p] = "create" => ExecSema(p) = 0
    /\ \A c \in Pid : ExecSema(p) > 0 /\ ExecPid(p) = c =>
          parent[c] = p /\ monitorOf[c] = m /\ pc[c] \notin {"none", "setup", "load", "tell"}
    /\ Untainted(m, p) /\ (\A c \in Pid : ~Uses(p, m, c)) => Status(m).sema = 0

ExecsOK == \A p \in Pid, m \in Monitor : InExec(p) /\ ExecMonitor(p) = m => ExecOK(p, m)

(* A monitor m of p with a pid is the one of that child.                   *)
SlotOK(p, m) ==
    /\ ~Status(m).in_use => Status(m).pid = 0
    /\ \A c \in Pid : Status(m).pid = c => parent[c] = p /\ monitorOf[c] = m

(* Only the child that m is in use for will report to it; m's semaphore is *)
(* up once that child has, and then m has its exit status.                 *)
ReportsOK(p, m) ==
    /\ \A d \in Pid : pstatus[d] = m /\ pc[d] \notin Gone => Uses(p, m, d)
    /\ \A c \in Pid : Uses(p, m, c) =>
          /\ pstatus[c] = m /\ Status(m).in_use
          /\ pc[c] \notin Gone => Status(m).sema = 0
          /\ pc[c] \in Gone => Status(m).sema > 0 /\ Status(m).exit_status = exit_status[c]

SlotsOK == \A p \in Pid, m \in Monitor :
              Has(p, m) => SlotOK(p, m) /\ (Untainted(m, p) => ReportsOK(p, m))

(* The list of a process and what it waits for are monitors of its page.   *)
WaitsOK ==
    /\ \A p \in Pid : \A i \in DOMAIN subprocess_status_list[p] :
                       subprocess_status_list[p][i][1] = subprocess_status_page[p]
    /\ \A p \in Pid : pc[p] = "wait" => awaited[p] # Null
    /\ \A p \in Pid, m \in Monitor : pc[p] = "wait" /\ awaited[p] = m =>
          m[1] = subprocess_status_page[p] /\ Status(m).pid # 0

MonitorsOK == StagesOK /\ FamilyOK /\ BirthsOK /\ ExecsOK /\ SlotsOK /\ WaitsOK

MonitorsInv == ValuesOK /\ (power = "on" => MonitorsOK) /\ WaitReturnsStatus

(* The inductive invariant gives what process_exit() relies on.            *)
LEMMA MonitorsGiveReports == ASSUME OwnershipInv, MonitorsInv PROVE ReportsToOwnMonitor
<1> SUFFICES ASSUME power = "on", NEW c \in Pid, parent[c] # Null,
                    pc[c] \in {"user", "create", "execute", "wait"},
                    Alive(parent[c]), NoOrphanPointsTo(c)
             PROVE  /\ pstatus[c] = monitorOf[c] /\ Status(monitorOf[c]).in_use
                    /\ Status(monitorOf[c]).pid \in {0, c}
  BY Zenon DEF ReportsToOwnMonitor
<1> DEFINE p == parent[c]
           m == monitorOf[c]
<1>1. p \in Pid /\ m \in Monitor
  BY Zenon DEF MonitorsInv, ValuesOK, MonitorsOK, FamilyOK
<1>2. pstatus[c] = m /\ Has(p, m) /\ Untainted(m, p)
  BY <1>1, Zenon DEF MonitorsInv, MonitorsOK, FamilyOK, Has, NoOrphanPointsTo, Untainted
<1>3. ReportsOK(p, m)
  BY <1>1, <1>2, Zenon DEF MonitorsInv, MonitorsOK, SlotsOK
<1>4. pc[c] \notin Gone
  BY Zenon DEF Gone
<1>5. Uses(p, m, c) /\ Status(m).in_use
  BY <1>2, <1>3, <1>4, Zenon DEF ReportsOK
<1>6. Status(m).pid \in {0, c}
  <2>1. CASE Status(m).pid = c
    BY <2>1, Zenon
  <2>2. CASE pc[p] = "execute" /\ ExecMonitor(p) = m
    BY <1>1, <2>2, Zenon DEF MonitorsInv, MonitorsOK, ExecsOK, ExecOK, InExec
  <2> QED
    BY <1>5, <2>1, <2>2, Zenon DEF Uses
<1> QED
  BY <1>2, <1>5, <1>6, Zenon
-----------------------------------------------------------------------------
(* What a write to the fields of a monitor leaves of it: when it is taken, *)
(* when it gets its pid, and when an exit is reported to it.               *)
LEMMA TakenFields ==
    ASSUME NEW s \in StatusRecord
    PROVE  LET n == [s EXCEPT !.in_use = TRUE, !.sema = 0]
           IN n \in StatusRecord /\ n.in_use /\ n.sema = 0 /\ n.pid = s.pid
<1> DEFINE n == [s EXCEPT !.in_use = TRUE, !.sema = 0]
<1>1. n \in StatusRecord
  BY Zenon DEF StatusRecord
<1>2. n.in_use
  BY Zenon DEF StatusRecord
<1>3. n.sema = 0 /\ n.pid = s.pid
  BY Zenon DEF StatusRecord
<1> QED
  BY <1>1, <1>2, <1>3, Zenon

(* The second.                                                             *)
LEMMA NamedFields ==
    ASSUME NEW s \in StatusRecord, NEW c \in Pid
    PROVE  LET n == [s EXCEPT !.pid = c]
           IN /\ n \in StatusRecord /\ n.in_use = s.in_use /\ n.pid = c
              /\ n.sema = s.sema /\ n.exit_status = s.exit_status
<1> DEFINE n == [s EXCEPT !.pid = c]
<1>1. n \in StatusRecord
  BY Zenon DEF StatusRecord
<1>2. n.in_use = s.in_use
  BY Zenon DEF StatusRecord
<1>3. n.pid = c /\ n.sema = s.sema /\ n.exit_status = s.exit_status
  BY Zenon DEF StatusRecord
<1> QED
  BY <1>1, <1>2, <1>3, Zenon

(* The third.                                                              *)
LEMMA ReportedFields ==
    ASSUME NEW s \in StatusRecord, NEW e \in ExitStatus \cup {-1, 0}
    PROVE  LET n == [s EXCEPT !.exit_status = e, !.sema = @ + 1]
           IN /\ n \in StatusRecord /\ n.in_use = s.in_use /\ n.pid = s.pid
              /\ n.sema > 0 /\ n.exit_status = e
<1> DEFINE n == [s EXCEPT !.exit_status = e, !.sema = @ + 1]
<1>1. n \in StatusRecord
  <2>1. s.sema + 1 \in Nat
    BY DEF StatusRecord
  <2>2. \A v \in Nat : [s EXCEPT !.exit_status = e, !.sema = v] \in StatusRecord
    BY Zenon DEF StatusRecord
  <2>3. n = [s EXCEPT !.exit_status = e, !.sema = s.sema + 1]
    BY Zenon DEF StatusRecord
  <2> QED
    BY <2>1, <2>2, <2>3, Zenon
<1>2. n.in_use = s.in_use
  BY Zenon DEF StatusRecord
<1>3. n.pid = s.pid /\ n.sema > 0 /\ n.exit_status = e
  BY DEF StatusRecord
<1> QED
  BY <1>1, <1>2, <1>3, Zenon

(* A monitor that is reset.                                                *)
LEMMA ZeroFields == ZeroStatus \in StatusRecord /\ ~ZeroStatus.in_use /\ ZeroStatus.pid = 0
  BY Zenon DEF StatusRecord, ZeroStatus

(* A write to a monitor changes that monitor only.                         *)
LEMMA SlotWritten ==
    ASSUME NEW k, PoolOK(k), ContentsOK(k), NEW m \in Monitor, k[m[1]].kind = "monitors",
           NEW new \in StatusRecord
    PROVE  LET l == SetStatus(k, m, new)
           IN /\ ContentsOK(l)
              /\ \A n \in Monitor : k[n[1]].kind = "monitors" =>
                    l[n[1]].status[n[2]] = IF n = m THEN new ELSE k[n[1]].status[n[2]]
              /\ \A g \in Page : k[g].kind # "monitors" => l[g] = k[g]
<1> DEFINE l == SetStatus(k, m, new)
           x == m[1]
           i == m[2]
           status == [k[x].status EXCEPT ![i] = new]
<1>1. x \in Page /\ i \in Slot /\ m = <<x, i>>
  BY DEF Monitor
<1>2. l = [k EXCEPT ![x] = [k[x] EXCEPT !["status"] = status]]
  BY Zenon DEF SetStatus
<1>3. /\ k[x].status \in [Slot -> StatusRecord] /\ "status" \in DOMAIN k[x]
      /\ k = [g \in Page |-> k[g]] /\ k[x] = [f \in DOMAIN k[x] |-> k[x][f]] /\ "kind" \in DOMAIN k[x]
  BY <1>1, Zenon DEF ContentsOK, PoolOK, PageOK
<1> HIDE DEF l, status, x, i
<1>4. status \in [Slot -> StatusRecord] /\ \A j \in Slot : status[j] = IF j = i THEN new ELSE k[x].status[j]
  BY <1>1, <1>3, Zenon DEF status
<1>5. /\ l[x] = [k[x] EXCEPT !["status"] = status]
      /\ \A g \in Page : g # x => l[g] = k[g]
  BY <1>1, <1>2, <1>3, Zenon
<1>6. l[x].status = status /\ l[x].kind = "monitors" /\ "status" \in DOMAIN l[x]
  BY <1>3, <1>5, Zenon DEF x
<1>7. ContentsOK(l)
  BY <1>4, <1>5, <1>6, Zenon DEF ContentsOK
<1>8. ASSUME NEW n \in Monitor, k[n[1]].kind = "monitors"
      PROVE  l[n[1]].status[n[2]] = IF n = m THEN new ELSE k[n[1]].status[n[2]]
  <2>1. n[1] \in Page /\ n[2] \in Slot /\ n = <<n[1], n[2]>>
    BY DEF Monitor
  <2>2. CASE n[1] = x
    <3>1. l[n[1]].status[n[2]] = IF n[2] = i THEN new ELSE k[n[1]].status[n[2]]
      BY <1>4, <1>6, <2>1, <2>2, Zenon
    <3>2. n[2] = i <=> n = m
      BY <1>1, <2>1, <2>2
    <3> QED
      BY <3>1, <3>2, Zenon
  <2>3. CASE n[1] # x
    BY <1>5, <2>1, <2>3, Zenon DEF x
  <2> QED
    BY <2>2, <2>3, Zenon
<1>9. \A g \in Page : k[g].kind # "monitors" => l[g] = k[g]
  BY <1>5, Zenon DEF x
<1> QED
  BY <1>7, <1>8, <1>9, Zenon DEF l

(* Whose monitors and temporary pages are whose.                           *)
LEMMA OwnPages ==
    ASSUME OwnershipInv, power = "on"
    PROVE  /\ \A p \in Pid, m \in Monitor : Has(p, m) => kpage[m[1]].kind = "monitors" /\ m[1] \in Page
           /\ \A p, q \in Pid, m \in Monitor : Has(p, m) /\ Has(q, m) => p = q
           /\ \A p \in Pid : InExec(p) => temp_kpage[p] \in Page /\ kpage[temp_kpage[p]].kind = "temp"
           /\ \A p, q \in Pid : InExec(p) /\ InExec(q) /\ temp_kpage[p] = temp_kpage[q] => p = q
<1>1. TypesOK /\ Ownership /\ NotYet
  BY Zenon DEF OwnershipInv
<1>2. "monitors" \in Purpose /\ "temp" \in Purpose
  BY Zenon DEF Purpose
<1>3. \A p \in Pid, m \in Monitor : Has(p, m) => m[1] \in Page /\ Owns("monitors", p, m[1])
  BY Zenon DEF Has, Owns, Pointer, Monitor
<1>4. \A p \in Pid : InExec(p) => temp_kpage[p] \in Page /\ Owns("temp", p, temp_kpage[p])
  BY <1>1, Zenon DEF InExec, Owns, Pointer, TypesOK, NotYet
<1> QED
  BY <1>1, <1>2, <1>3, <1>4 DEF Ownership
-----------------------------------------------------------------------------
(* A step that leaves the monitors and the temporary pages in use alone.   *)
Frame ==
    /\ \A q \in Pid, m \in Monitor : Has(q, m)' => Has(q, m) /\ Status(m)' = Status(m)
    /\ \A q \in Pid : InExec(q)' =>
          /\ InExec(q) /\ ExecSema(q)' = ExecSema(q) /\ ExecPid(q)' = ExecPid(q)
          /\ ExecMonitor(q)' = ExecMonitor(q)

(* Steps of one process that need no more care than that.                  *)
PlainMoves == {<<"user", "wait">>, <<"user", "exit">>, <<"exit", "report">>, <<"setup", "tell">>,
               <<"load", "tell">>, <<"exit", "release">>, <<"release", "files">>, <<"files", "dead">>,
               <<"create", "execute">>}

(* They keep what is said of monitors.                                     *)
LEMMA PlainMoveKeeps ==
    ASSUME OwnershipInv, ValuesOK, FamilyOK, BirthsOK, ExecsOK, SlotsOK,
           NEW p \in Pid, NEW w, <<pc[p], w>> \in PlainMoves, Goto(p, w), Frame,
           UNCHANGED <<temp_kpage, subprocess_status_page, pstatus, parent, monitorOf, result>>,
           w = "release" => \A q \in Pid, m \in Monitor : Has(q, m) /\ Untainted(m, q) => ~Uses(q, m, p),
           \A c \in Pid : pc[c] \in Gone => exit_status'[c] = exit_status[c]
    PROVE  FamilyOK' /\ BirthsOK' /\ ExecsOK' /\ SlotsOK'
<1>1. pc'[p] = w /\ \A q \in Pid \ {p} : pc'[q] = pc[q]
  BY Zenon DEF OwnershipInv, TypesOK, Goto
<1>2. \/ pc[p] = "user" /\ w \in {"wait", "exit"}
      \/ pc[p] = "exit" /\ w \in {"report", "release"}
      \/ pc[p] \in {"setup", "load"} /\ w = "tell"
      \/ pc[p] = "release" /\ w = "files"
      \/ pc[p] = "files" /\ w = "dead"
      \/ pc[p] = "create" /\ w = "execute"
  BY Zenon DEF PlainMoves
<1>3. \A q \in Pid :
        /\ pc'[q] = "none" <=> pc[q] = "none"
        /\ pc'[q] = "handoff" <=> pc[q] = "handoff"
        /\ pc[q] = "execute" => pc'[q] = "execute"
        /\ pc'[q] = "create" => pc[q] = "create"
        /\ pc'[q] = "execute" => pc[q] \in {"execute", "create"}
        /\ pc'[q] \in Starting <=> pc[q] \in Starting
        /\ pc[q] \in Gone => pc'[q] \in Gone
        /\ pc'[q] \in Gone => pc[q] \in Gone \/ (q = p /\ w = "release")
        /\ Alive(q)' => Alive(q)
        /\ pc'[q] \in {"user", "create", "execute", "wait"} => pc[q] \in {"user", "create", "execute", "wait"}
        /\ pc'[q] \in {"none", "setup", "load", "tell"} => pc[q] \in {"none", "setup", "load", "tell"}
  BY <1>1, <1>2, Zenon DEF Starting, Gone, Alive
<1>4. FamilyOK'
  BY <1>3 DEF FamilyOK
<1>5. BirthsOK'
  BY <1>3 DEF BirthsOK, Frame, InExec
<1>6. ASSUME NEW q \in Pid, NEW m \in Monitor, Has(q, m)', NEW c \in Pid
      PROVE  Uses(q, m, c)' <=> Uses(q, m, c)
  BY <1>3, <1>6 DEF Uses, Frame, InExec, ExecsOK, ExecOK
<1>7. \A q \in Pid, m \in Monitor : Untainted(m, q)' <=> Untainted(m, q)
  BY Zenon DEF Untainted
<1>8. ExecsOK'
  <2> SUFFICES ASSUME NEW q \in Pid, NEW m \in Monitor, InExec(q)', ExecMonitor(q)' = m
               PROVE  ExecOK(q, m)'
    BY Zenon DEF ExecsOK
  <2>1. InExec(q) /\ ExecMonitor(q) = m /\ ExecOK(q, m)
    BY Zenon DEF Frame, ExecsOK
  <2>2. Has(q, m)'
    BY <2>1, Zenon DEF ExecOK, Has, InExec, Alive
  <2>3. Status(m)' = Status(m) /\ ExecSema(q)' = ExecSema(q) /\ ExecPid(q)' = ExecPid(q)
    BY <2>2, Zenon DEF Frame
  <2> QED
    BY <1>3, <1>6, <1>7, <2>1, <2>2, <2>3, ZenonT(30) DEF ExecOK
<1>9. SlotsOK'
  <2> SUFFICES ASSUME NEW q \in Pid, NEW m \in Monitor, Has(q, m)'
               PROVE  SlotOK(q, m)' /\ (Untainted(m, q)' => ReportsOK(q, m)')
    BY Zenon DEF SlotsOK
  <2>1. Has(q, m) /\ Status(m)' = Status(m) /\ SlotOK(q, m) /\ (Untainted(m, q) => ReportsOK(q, m))
    BY Zenon DEF SlotsOK, Frame
  <2>2. SlotOK(q, m)'
    BY <2>1, Zenon DEF SlotOK
  <2>3. Untainted(m, q) => ReportsOK(q, m)'
    BY <1>3, <1>6, <2>1, ZenonT(30) DEF ReportsOK
  <2> QED
    BY <1>7, <2>2, <2>3, Zenon
<1> QED
  BY <1>4, <1>5, <1>8, <1>9, Zenon

(* What process_wait() has returned stays right.                           *)
LEMMA ReturnsKept ==
    ASSUME WaitReturnsStatus, UNCHANGED <<result, pstatus, parent, monitorOf>>,
           \A c \in Pid : pc[c] \in Gone => pc'[c] \in Gone /\ exit_status'[c] = exit_status[c]
    PROVE  WaitReturnsStatus'
  BY Zenon DEF WaitReturnsStatus, NoOrphanPointsTo, Gone

(* So do the lists of monitors, and what is awaited.                       *)
LEMMA WaitsKept ==
    ASSUME WaitsOK, Frame, UNCHANGED <<subprocess_status_list, subprocess_status_page, awaited>>,
           \A q \in Pid : (pc'[q] = "wait" => pc[q] = "wait") /\ (Alive(q)' => Alive(q))
    PROVE  WaitsOK'
<1>1. ASSUME NEW q \in Pid, NEW m \in Monitor, pc'[q] = "wait", awaited'[q] = m
      PROVE  m[1] = subprocess_status_page'[q] /\ Status(m)'.pid # 0
  <2>1. pc[q] = "wait" /\ m[1] = subprocess_status_page[q] /\ Status(m).pid # 0
    BY <1>1, Zenon DEF WaitsOK
  <2>2. Has(q, m)'
    BY <1>1, <2>1, Zenon DEF Has, Alive
  <2> QED
    BY <2>1, <2>2, Zenon DEF Frame
<1> QED
  BY <1>1, Zenon DEF WaitsOK

(* The pages outside F are left alone, and F is nobody's afterwards.       *)
LEMMA FrameOf ==
    ASSUME OwnershipInv, power = "on", NEW F,
           \A g \in Page \ F : kpage[g].kind \in {"monitors", "temp"} => kpage'[g] = kpage[g],
           \A q \in Pid, m \in Monitor : Has(q, m)' => Has(q, m) /\ m[1] \notin F,
           \A q \in Pid : InExec(q)' => InExec(q) /\ temp_kpage'[q] = temp_kpage[q] /\ temp_kpage[q] \notin F
    PROVE  Frame
<1>1. ASSUME NEW q \in Pid, NEW m \in Monitor, Has(q, m)'
      PROVE  Has(q, m) /\ Status(m)' = Status(m)
  <2>1. Has(q, m) /\ m[1] \in Page /\ kpage[m[1]].kind = "monitors" /\ m[1] \notin F
    BY <1>1, OwnPages, Zenon
  <2>2. kpage'[m[1]] = kpage[m[1]]
    BY <2>1, Zenon
  <2> QED
    BY <2>1, <2>2, Zenon DEF Status
<1>2. ASSUME NEW q \in Pid, InExec(q)'
      PROVE  /\ InExec(q) /\ ExecSema(q)' = ExecSema(q) /\ ExecPid(q)' = ExecPid(q)
             /\ ExecMonitor(q)' = ExecMonitor(q)
  <2>1. /\ InExec(q) /\ temp_kpage[q] \in Page /\ kpage[temp_kpage[q]].kind = "temp"
        /\ temp_kpage[q] \notin F /\ temp_kpage'[q] = temp_kpage[q]
    BY <1>2, OwnPages, Zenon
  <2>2. kpage'[temp_kpage'[q]] = kpage[temp_kpage[q]]
    BY <2>1
  <2> QED
    BY <2>1, <2>2, Zenon DEF ExecSema, ExecPid, ExecMonitor
<1> QED
  BY <1>1, <1>2, Zenon DEF Frame

(* The same for a step that leaves all of them alone.                      *)
LEMMA FrameOfAll ==
    ASSUME OwnershipInv, power = "on",
           \A g \in Page : kpage[g].kind \in {"monitors", "temp"} => kpage'[g] = kpage[g],
           UNCHANGED <<temp_kpage, subprocess_status_page>>,
           \A q \in Pid : (Alive(q)' => Alive(q)) /\ (InExec(q)' => InExec(q))
    PROVE  Frame
<1> DEFINE F == {}
<1>1. \A q \in Pid, m \in Monitor : Has(q, m)' => Has(q, m) /\ m[1] \notin F
  BY Zenon DEF Has
<1>2. \A q \in Pid : InExec(q)' => InExec(q) /\ temp_kpage'[q] = temp_kpage[q] /\ temp_kpage[q] \notin F
  BY Zenon
<1>3. \A g \in Page \ F : kpage[g].kind \in {"monitors", "temp"} => kpage'[g] = kpage[g]
  BY Zenon
<1> HIDE DEF F
<1> QED
  BY <1>1, <1>2, <1>3, FrameOf, Zenon

(* A page that is replaced as a whole.                                     *)
LEMMA ContentsReplaced ==
    ASSUME NEW k, PoolOK(k), ContentsOK(k), NEW g \in Page, NEW r,
           r.kind = "monitors" => "status" \in DOMAIN r /\ r.status \in [Slot -> StatusRecord],
           r.kind = "temp" => r \in TempRecord
    PROVE  ContentsOK([k EXCEPT ![g] = r])
<1> DEFINE l == [k EXCEPT ![g] = r]
<1>1. l[g] = r /\ \A h \in Page \ {g} : l[h] = k[h]
  BY Zenon DEF PoolOK
<1> HIDE DEF l
<1>2. ContentsOK(l)
  BY <1>1, Zenon DEF ContentsOK
<1> QED
  BY <1>2, Zenon DEF l

(* A plain move keeps the invariant.                                       *)
LEMMA PlainMove ==
    ASSUME OwnershipInv, MonitorsInv, power = "on",
           NEW p \in Pid, NEW w, <<pc[p], w>> \in PlainMoves, Goto(p, w), Frame,
           UNCHANGED <<temp_kpage, subprocess_status_page, pstatus, parent, monitorOf, result>>,
           \A c \in Pid : c # p \/ pc[p] # "user" => exit_status'[c] = exit_status[c],
           w = "release" => \A q \in Pid, m \in Monitor : Has(q, m) /\ Untainted(m, q) => ~Uses(q, m, p),
           ValuesOK', StagesOK', WaitsOK'
    PROVE  MonitorsInv'
<1>1. pc'[p] = w /\ \A q \in Pid \ {p} : pc'[q] = pc[q]
  BY Zenon DEF OwnershipInv, TypesOK, Goto
<1>2. pc[p] \in Gone => w \in Gone
  BY Zenon DEF PlainMoves, Gone
<1>3. \A c \in Pid : pc[c] \in Gone => pc'[c] \in Gone /\ exit_status'[c] = exit_status[c]
  BY <1>1, <1>2, Zenon DEF Gone
<1>4. FamilyOK' /\ BirthsOK' /\ ExecsOK' /\ SlotsOK'
  BY <1>3, PlainMoveKeeps, Zenon DEF MonitorsInv, MonitorsOK
<1>5. WaitReturnsStatus'
  BY <1>3, ReturnsKept, Zenon DEF MonitorsInv
<1> QED
  BY <1>4, <1>5, Zenon DEF MonitorsInv, MonitorsOK
-----------------------------------------------------------------------------
(* process_wait() finds a monitor of the caller's that has the pid.        *)
LEMMA FoundMonitor ==
    ASSUME ValuesOK, NEW p \in Pid, NEW pid, get_subprocess_monitor(p, pid) # Null
    PROVE  \E i \in DOMAIN subprocess_status_list[p] :
              /\ get_subprocess_monitor(p, pid) = subprocess_status_list[p][i]
              /\ Status(subprocess_status_list[p][i]).pid = pid
<1> DEFINE list == subprocess_status_list[p]
           found == {i \in DOMAIN list : Status(list[i]).pid = pid}
<1>1. Scan(found) # Null /\ get_subprocess_monitor(p, pid) = list[Scan(found)]
  BY Zenon DEF get_subprocess_monitor
<1>2. Scan(found) \in found
  BY <1>1, ScanFinds, Zenon
<1> QED
  BY <1>1, <1>2, Zenon

(* process_wait() up to its sema_down().                                   *)
LEMMA WaitKeeps == ASSUME OwnershipInv, MonitorsInv, NEW p \in Pid, NEW pid \in Pid, process_wait(p, pid)
                   PROVE  MonitorsInv'
<1> DEFINE a == get_subprocess_monitor(p, pid)
<1>0. /\ power = "on" /\ pc[p] = "user" /\ Goto(p, "wait") /\ a # Null
      /\ awaited' = [awaited EXCEPT ![p] = a]
      /\ UNCHANGED <<kpage, temp_kpage, thread_page, subprocess_status_page,
                     subprocess_status_list, file_descriptor_page, pstatus,
                     successful, exit_status, process_exit_lock, power, history>>
  BY Zenon DEF process_wait, At
<1>1. ValuesOK /\ MonitorsOK /\ pc'[p] = "wait" /\ \A q \in Pid \ {p} : pc'[q] = pc[q]
  BY <1>0, Zenon DEF MonitorsInv, OwnershipInv, TypesOK, Goto
<1>2. PICK i \in DOMAIN subprocess_status_list[p] :
         a = subprocess_status_list[p][i] /\ Status(subprocess_status_list[p][i]).pid = pid
  BY <1>0, <1>1, FoundMonitor, Zenon
<1> HIDE DEF a
<1>3. a \in Monitor /\ a[1] = subprocess_status_page[p] /\ Status(a).pid = pid /\ pid # 0
  <2>1. subprocess_status_list[p] \in Seq(Monitor)
    BY <1>1, Zenon DEF ValuesOK
  <2>2. Alive(p)
    BY <1>0, Zenon DEF Alive
  <2>3. a[1] = subprocess_status_page[p] /\ Status(a).pid = pid
    BY <1>1, <1>2, <2>2, Zenon DEF MonitorsOK, WaitsOK
  <2> QED
    BY <1>2, <2>1, <2>3, ProcessAssumption, SMTT(30) DEF Pid
<1>4. \A q \in Pid : (Alive(q)' => Alive(q)) /\ (InExec(q)' => InExec(q))
  BY <1>0, <1>1, Zenon DEF Alive, InExec
<1>5. Frame
  BY <1>0, <1>4, FrameOfAll, Zenon
<1>6. ValuesOK'
  BY <1>0, <1>1, <1>3, Zenon DEF ValuesOK, history
<1>7. StagesOK'
  BY <1>0, <1>1, Zenon DEF MonitorsOK, StagesOK
<1>8. WaitsOK'
  <2>1. \A q \in Pid : \A j \in DOMAIN subprocess_status_list'[q] :
                        subprocess_status_list'[q][j][1] = subprocess_status_page'[q]
    BY <1>0, <1>1, <1>4, Zenon DEF MonitorsOK, WaitsOK
  <2>2. awaited'[p] = a /\ \A q \in Pid \ {p} : awaited'[q] = awaited[q]
    BY <1>0, <1>1, Zenon DEF ValuesOK
  <2>3. a # Null
    BY <1>3, NullAssumption, Zenon
  <2>4. \A m : Status(m)' = Status(m)
    BY <1>0, Zenon DEF Status
  <2>5. ASSUME NEW q \in Pid, pc'[q] = "wait"
        PROVE  awaited'[q] # Null
    BY <1>1, <2>2, <2>3, <2>5, Zenon DEF MonitorsOK, WaitsOK
  <2>6. ASSUME NEW q \in Pid, NEW m \in Monitor, pc'[q] = "wait", awaited'[q] = m
        PROVE  m[1] = subprocess_status_page'[q] /\ Status(m)'.pid # 0
    <3>1. CASE q = p
      BY <1>0, <1>3, <2>2, <2>4, <2>6, <3>1, Zenon
    <3>2. CASE q # p
      BY <1>0, <1>1, <2>2, <2>4, <2>6, <3>2, SMTT(30) DEF MonitorsOK, WaitsOK
    <3> QED
      BY <3>1, <3>2, Zenon
  <2> QED
    BY <2>1, <2>5, <2>6, Zenon DEF WaitsOK
<1>9. UNCHANGED <<temp_kpage, subprocess_status_page, pstatus, parent, monitorOf, result>>
  BY <1>0, Zenon DEF history
<1>10. <<pc[p], "wait">> \in PlainMoves
  BY <1>0, Zenon DEF PlainMoves
<1>11. \A c \in Pid : c # p \/ pc[p] # "user" => exit_status'[c] = exit_status[c]
  BY <1>0, Zenon
<1> QED
  BY <1>0, <1>5, <1>6, <1>7, <1>8, <1>9, <1>10, <1>11, PlainMove, Zenon

(* The other plain moves.                                                  *)
LEMMA PlainStep ==
    ASSUME OwnershipInv, MonitorsInv, power = "on",
           NEW p \in Pid, NEW w, <<pc[p], w>> \in PlainMoves, w # "wait", Goto(p, w),
           \A g \in Page : kpage[g].kind \in {"monitors", "temp"} => kpage'[g] = kpage[g],
           UNCHANGED <<temp_kpage, subprocess_status_page, subprocess_status_list, awaited, pstatus,
                       parent, monitorOf, result>>,
           \A c \in Pid : c # p \/ pc[p] # "user" => exit_status'[c] = exit_status[c],
           w = "release" => \A q \in Pid, m \in Monitor : Has(q, m) /\ Untainted(m, q) => ~Uses(q, m, p),
           ValuesOK', StagesOK'
    PROVE  MonitorsInv'
<1>1. pc'[p] = w /\ \A q \in Pid \ {p} : pc'[q] = pc[q]
  BY Zenon DEF OwnershipInv, TypesOK, Goto
<1>2. \A q \in Pid : (Alive(q)' => Alive(q)) /\ (InExec(q)' => InExec(q)) /\ (pc'[q] = "wait" => pc[q] = "wait")
  BY <1>1, Zenon DEF PlainMoves, Alive, InExec
<1>3. Frame
  BY <1>2, FrameOfAll, Zenon
<1>4. WaitsOK /\ UNCHANGED <<subprocess_status_list, subprocess_status_page, awaited>>
  BY Zenon DEF MonitorsInv, MonitorsOK
<1>5. WaitsOK'
  BY <1>2, <1>3, <1>4, WaitsKept, Zenon
<1>6. UNCHANGED <<temp_kpage, subprocess_status_page, pstatus, parent, monitorOf, result>>
  BY Zenon
<1> QED
  BY <1>3, <1>5, <1>6, PlainMove, Zenon

(* exit(), and kill() of a process.                                        *)
LEMMA ExitCallKeeps == ASSUME OwnershipInv, MonitorsInv, NEW p \in Pid,
                              NEW status \in ExitStatus \cup {-1}, thread_exit(p, status)
                       PROVE  MonitorsInv'
<1>0. /\ power = "on" /\ pc[p] = "user" /\ Goto(p, "exit")
      /\ exit_status' = [exit_status EXCEPT ![p] = status]
      /\ UNCHANGED <<kpage, temp_kpage, subprocess_status_page, subprocess_status_list, pstatus,
                     successful, awaited, process_exit_lock, parent, monitorOf, result>>
  BY Zenon DEF thread_exit, At, history
<1>1. ValuesOK /\ StagesOK /\ pc'[p] = "exit" /\ \A q \in Pid \ {p} : pc'[q] = pc[q]
  BY <1>0, Zenon DEF MonitorsInv, MonitorsOK, OwnershipInv, TypesOK, Goto
<1>2. ValuesOK'
  BY <1>0, <1>1, Zenon DEF ValuesOK
<1>3. StagesOK'
  BY <1>0, <1>1, Zenon DEF StagesOK
<1>4. \A c \in Pid : c # p \/ pc[p] # "user" => exit_status'[c] = exit_status[c]
  BY <1>0, <1>1, Zenon DEF ValuesOK
<1>5. <<pc[p], "exit">> \in PlainMoves
  BY <1>0, Zenon DEF PlainMoves
<1> QED
  BY <1>0, <1>2, <1>3, <1>4, <1>5, PlainStep, Zenon

(* setup_file_descriptors() takes the page of descriptors, or fails.       *)
LEMMA DescriptorsKeep == ASSUME OwnershipInv, MonitorsInv, NEW c \in Pid, setup_file_descriptors(c)
                         PROVE  MonitorsInv'
<1> DEFINE g == palloc_get_page(kpage)
<1>0. /\ power = "on" /\ pc[c] = "load" /\ Goto(c, "tell")
      /\ UNCHANGED <<temp_kpage, subprocess_status_page, subprocess_status_list, pstatus,
                     awaited, exit_status, process_exit_lock, parent, monitorOf, result>>
      /\ \E b \in BOOLEAN : successful' = [successful EXCEPT ![c] = b]
      /\ kpage' = kpage \/ (g # Null /\ kpage' = [kpage EXCEPT ![g] = [kind |-> "files"]])
  BY Zenon DEF setup_file_descriptors, At, history
<1>1. /\ PoolOK(kpage) /\ ContentsOK(kpage) /\ ValuesOK /\ StagesOK
      /\ pc'[c] = "tell" /\ \A q \in Pid \ {c} : pc'[q] = pc[q]
  BY <1>0, Zenon DEF MonitorsInv, MonitorsOK, ValuesOK, OwnershipInv, TypesOK, Goto
<1>2. g # Null => g \in Page /\ kpage[g].kind = "free"
  BY <1>1, PallocTakesFree, NewPagesOK, Zenon
<1> HIDE DEF g
<1>3. \A h \in Page : kpage[h].kind \in {"monitors", "temp"} => kpage'[h] = kpage[h]
  BY <1>0, <1>1, <1>2, Zenon DEF PoolOK
<1>4. ContentsOK(kpage')
  BY <1>0, <1>1, <1>2, ContentsReplaced, SMTT(30)
<1>5. ValuesOK'
  BY <1>0, <1>1, <1>4, Zenon DEF ValuesOK
<1>6. StagesOK'
  <2>1. \A q \in Pid : pc[q] = "report" => pstatus[q][1] \in Page
    BY <1>1, Zenon DEF ValuesOK, StagesOK, Monitor
  <2>2. \A q \in Pid : pc[q] = "report" => kpage'[pstatus[q][1]].kind = "monitors"
    BY <1>1, <1>3, <2>1, Zenon DEF StagesOK
  <2>3. \A q \in Pid \ {c} : successful'[q] = successful[q]
    BY <1>0, <1>1, Zenon DEF ValuesOK
  <2> QED
    BY <1>0, <1>1, <2>2, <2>3, SMTT(30) DEF StagesOK
<1>7. <<pc[c], "tell">> \in PlainMoves
  BY <1>0, Zenon DEF PlainMoves
<1> QED
  BY <1>0, <1>3, <1>5, <1>6, <1>7, PlainStep, Zenon

(* The rest of process_exit() frees pages that hold neither.               *)
LEMMA FilesKeep == ASSUME OwnershipInv, MonitorsInv, NEW p \in Pid, process_exit_files(p),
                          file_descriptor_page[p] # Null
                   PROVE  MonitorsInv'
<1> DEFINE f == file_descriptor_page[p]
           t == thread_page[p]
           k == palloc_free_page(kpage, f)
<1>0. /\ power = "on" /\ pc[p] = "files" /\ Goto(p, "dead") /\ kpage' = palloc_free_page(k, t)
      /\ UNCHANGED <<temp_kpage, subprocess_status_page, subprocess_status_list, pstatus, successful,
                     awaited, exit_status, process_exit_lock, parent, monitorOf, result>>
  BY Zenon DEF process_exit_files, At, procVars, locals, history
<1>1. /\ PoolOK(kpage) /\ ContentsOK(kpage) /\ ValuesOK /\ StagesOK
      /\ pc'[p] = "dead" /\ \A q \in Pid \ {p} : pc'[q] = pc[q]
  BY <1>0, Zenon DEF MonitorsInv, MonitorsOK, ValuesOK, OwnershipInv, TypesOK, Goto
<1>2. /\ f \in Page /\ Owns("files", p, f) /\ t \in Page /\ Owns("thread", p, t)
  BY <1>0, Zenon DEF OwnershipInv, TypesOK, NotYet, Owns, Pointer
<1>3. kpage[f].kind = "files" /\ kpage[t].kind = "thread"
  BY <1>0, <1>2, Zenon DEF OwnershipInv, Ownership, Purpose
<1>4. PoolOK(k) /\ ContentsOK(k) /\ \A g \in Page \ {f} : k[g] = kpage[g]
  <2>1. PageOK(Free) /\ Free.kind = "free"
    BY NewPagesOK, Zenon
  <2>2. k = [kpage EXCEPT ![f] = Free]
    BY Zenon DEF palloc_free_page
  <2> HIDE DEF k, f
  <2>3. ContentsOK(k)
    BY <1>1, <1>2, <2>1, <2>2, ContentsReplaced, Zenon
  <2>4. PoolOK(k)
    BY <1>1, <1>2, <2>1, <2>2, PageReplaced, Zenon
  <2> QED
    BY <1>1, <1>2, <2>2, <2>3, <2>4, Zenon DEF PoolOK
<1> HIDE DEF k, f, t
<1>5. ContentsOK(kpage') /\ \A g \in Page \ {t} : kpage'[g] = k[g]
  <2>1. Free.kind = "free"
    BY NewPagesOK, Zenon
  <2>2. kpage' = [k EXCEPT ![t] = Free]
    BY <1>0, Zenon DEF palloc_free_page
  <2>3. ContentsOK(kpage')
    BY <1>2, <1>4, <2>1, <2>2, ContentsReplaced, Zenon
  <2> QED
    BY <1>2, <1>4, <2>2, <2>3, Zenon DEF PoolOK
<1>6. \A g \in Page : kpage[g].kind \in {"monitors", "temp"} => kpage'[g] = kpage[g]
  BY <1>3, <1>4, <1>5, Zenon
<1>7. ValuesOK'
  BY <1>0, <1>1, <1>5, Zenon DEF ValuesOK
<1>8. StagesOK'
  <2>1. \A q \in Pid : pc[q] = "report" => pstatus[q][1] \in Page
    BY <1>1, Zenon DEF ValuesOK, StagesOK, Monitor
  <2>2. \A q \in Pid : pc[q] = "report" => kpage'[pstatus[q][1]].kind = "monitors"
    BY <1>1, <1>6, <2>1, Zenon DEF StagesOK
  <2> QED
    BY <1>0, <1>1, <2>2, Zenon DEF StagesOK
<1>9. <<pc[p], "dead">> \in PlainMoves
  BY <1>0, Zenon DEF PlainMoves
<1> QED
  BY <1>0, <1>6, <1>7, <1>8, <1>9, PlainStep, Zenon

(* setup_subprocess_list() with no page left.                              *)
LEMMA SetupFailKeeps == ASSUME OwnershipInv, MonitorsInv, NEW c \in Pid, setup_subprocess_list(c),
                               palloc_get_page(kpage) = Null
                        PROVE  MonitorsInv'
<1>0. /\ power = "on" /\ pc[c] = "setup" /\ Goto(c, "tell")
      /\ successful' = [successful EXCEPT ![c] = FALSE]
      /\ UNCHANGED <<kpage, temp_kpage, subprocess_status_page, subprocess_status_list, pstatus,
                     awaited, exit_status, process_exit_lock, parent, monitorOf, result>>
  BY Zenon DEF setup_subprocess_list, At, history
<1>1. ValuesOK /\ StagesOK /\ pc'[c] = "tell" /\ \A q \in Pid \ {c} : pc'[q] = pc[q]
  BY <1>0, Zenon DEF MonitorsInv, MonitorsOK, OwnershipInv, TypesOK, Goto
<1>2. ValuesOK' /\ ~successful'[c] /\ \A q \in Pid \ {c} : successful'[q] = successful[q]
  BY <1>0, <1>1, Zenon DEF ValuesOK
<1>3. StagesOK'
  BY <1>0, <1>1, <1>2, Zenon DEF StagesOK
<1>4. <<pc[c], "tell">> \in PlainMoves
  BY <1>0, Zenon DEF PlainMoves
<1> QED
  BY <1>0, <1>2, <1>3, <1>4, PlainStep, Zenon

(* thread_create() with no page left.                                      *)
LEMMA CreateFailKeeps == ASSUME OwnershipInv, MonitorsInv, NEW p \in Pid, process_execute_create(p),
                                palloc_get_page(kpage) = Null
                         PROVE  MonitorsInv'
<1>0. /\ power = "on" /\ pc[p] = "create" /\ Goto(p, "execute")
      /\ UNCHANGED <<kpage, temp_kpage, subprocess_status_page, subprocess_status_list, pstatus, successful,
                     awaited, exit_status, process_exit_lock, parent, monitorOf, result>>
  BY Zenon DEF process_execute_create, At, locals
<1>1. ValuesOK /\ StagesOK /\ pc'[p] = "execute" /\ \A q \in Pid \ {p} : pc'[q] = pc[q]
  BY <1>0, Zenon DEF MonitorsInv, MonitorsOK, OwnershipInv, TypesOK, Goto
<1>2. ValuesOK'
  BY <1>0, <1>1, Zenon DEF ValuesOK
<1>3. StagesOK'
  BY <1>0, <1>1, Zenon DEF StagesOK
<1>4. <<pc[p], "execute">> \in PlainMoves
  BY <1>0, Zenon DEF PlainMoves
<1> QED
  BY <1>0, <1>2, <1>3, <1>4, PlainStep, Zenon

(* process_exit() up to its report.                                        *)
LEMMA ExitKeeps == ASSUME OwnershipInv, MonitorsInv, NEW p \in Pid, process_exit(p), ~Panic
                   PROVE  MonitorsInv'
<1> DEFINE m == pstatus[p]
           used == m # Null /\ kpage[m[1]].kind = "monitors" /\ Status(m).in_use
<1>0. /\ power = "on" /\ pc[p] = "exit" /\ process_exit_lock = Null /\ process_exit_lock' = p
      /\ UNCHANGED <<kpage, temp_kpage, subprocess_status_page, subprocess_status_list, pstatus, successful,
                     awaited, exit_status, parent, monitorOf, result>>
  BY Zenon DEF process_exit, At, procVars, locals, history
<1>1. /\ ValuesOK /\ MonitorsOK /\ StagesOK /\ SlotsOK
  BY <1>0, Zenon DEF MonitorsInv, MonitorsOK
<1>2. PICK w \in {"report", "release"} : Goto(p, w) /\ (w = "report" <=> used)
  <2>1. PICK in_use \in IF m = Null THEN {FALSE}
                        ELSE CASE kpage[m[1]].kind = "free" -> {FALSE}
                               [] kpage[m[1]].kind = "monitors" -> {Status(m).in_use}
                               [] OTHER -> {FALSE} :
           Goto(p, IF in_use THEN "report" ELSE "release")
    BY Zenon DEF process_exit
  <2>2. in_use = IF m # Null /\ kpage[m[1]].kind = "monitors" THEN Status(m).in_use ELSE FALSE
    BY Zenon
  <2>3. in_use <=> used
    BY <2>2, Zenon
  <2> QED
    BY <2>1, <2>3, Zenon
<1>3. pc'[p] = w /\ \A q \in Pid \ {p} : pc'[q] = pc[q] /\ pc[q] \notin {"report", "release"}
  BY <1>0, <1>1, <1>2, NullAssumption, Zenon DEF OwnershipInv, TypesOK, Goto, StagesOK
<1>4. ValuesOK'
  BY <1>0, <1>1, Zenon DEF ValuesOK
<1>5. StagesOK'
  BY <1>0, <1>1, <1>2, <1>3, Zenon DEF StagesOK
<1>6. <<pc[p], w>> \in PlainMoves /\ w # "wait"
  BY <1>0, Zenon DEF PlainMoves
<1>7. ASSUME NEW q \in Pid, NEW n \in Monitor, Has(q, n), Untainted(n, q), w = "release", Uses(q, n, p)
      PROVE  FALSE
  <2>1. m = n /\ Status(n).in_use
    BY <1>1, <1>7, SMTT(30) DEF SlotsOK, ReportsOK
  <2>2. kpage[n[1]].kind = "monitors" /\ n # Null
    BY <1>0, <1>7, OwnPages, NullAssumption, Zenon
  <2> QED
    BY <1>2, <1>7, <2>1, <2>2, Zenon
<1> QED
  BY <1>0, <1>2, <1>4, <1>5, <1>6, <1>7, PlainStep, Zenon

(* process_exit() frees its page of monitors.                              *)
LEMMA ReleaseKeeps == ASSUME OwnershipInv, MonitorsInv, NEW p \in Pid, process_exit_release(p),
                             subprocess_status_page[p] # Null
                      PROVE  MonitorsInv'
<1> DEFINE g == subprocess_status_page[p]
<1>0. /\ power = "on" /\ pc[p] = "release" /\ Goto(p, "files") /\ process_exit_lock' = Null
      /\ kpage' = [kpage EXCEPT ![g] = Free]
      /\ subprocess_status_list' = [subprocess_status_list EXCEPT ![p] = <<>>]
      /\ UNCHANGED <<temp_kpage, subprocess_status_page, pstatus, successful,
                     awaited, exit_status, parent, monitorOf, result>>
  BY Zenon DEF process_exit_release, At, locals, history, palloc_free_page
<1>1. /\ PoolOK(kpage) /\ ContentsOK(kpage) /\ ValuesOK /\ StagesOK /\ WaitsOK
      /\ pc'[p] = "files" /\ \A q \in Pid \ {p} : pc'[q] = pc[q]
  BY <1>0, Zenon DEF MonitorsInv, MonitorsOK, ValuesOK, OwnershipInv, TypesOK, Goto
<1>2. g \in Page /\ Owns("monitors", p, g) /\ kpage[g].kind = "monitors"
  BY <1>0, SMTT(30) DEF OwnershipInv, TypesOK, Owns, Pointer, Alive, Ownership, Purpose
<1>3. /\ \A q \in Pid \ {p} : Alive(q) => subprocess_status_page[q] # g
      /\ \A q \in Pid : InExec(q) => temp_kpage[q] # g
  <2>1. \A q \in Pid : Alive(q) /\ subprocess_status_page[q] = g => Owns("monitors", q, g)
    BY Zenon DEF Owns, Pointer
  <2>2. \A q \in Pid : InExec(q) => kpage[temp_kpage[q]].kind = "temp"
    BY <1>0, OwnPages, Zenon
  <2> QED
    BY <1>0, <1>2, <2>1, <2>2, Zenon DEF OwnershipInv, Ownership, Purpose
<1>4. \A q \in Pid : (Alive(q)' <=> Alive(q) /\ q # p) /\ (InExec(q)' <=> InExec(q)) /\ (pc'[q] = "wait" <=> pc[q] = "wait")
  BY <1>0, <1>1, Zenon DEF Alive, InExec
<1> HIDE DEF g
<1>5. Frame
  <2> DEFINE F == {g}
  <2>1. \A h \in Page \ F : kpage[h].kind \in {"monitors", "temp"} => kpage'[h] = kpage[h]
    BY <1>0, <1>1, <1>2, Zenon DEF PoolOK
  <2>2. \A q \in Pid, m \in Monitor : Has(q, m)' => Has(q, m) /\ m[1] \notin F
    BY <1>0, <1>3, <1>4, Zenon DEF Has
  <2>3. \A q \in Pid : InExec(q)' => InExec(q) /\ temp_kpage'[q] = temp_kpage[q] /\ temp_kpage[q] \notin F
    BY <1>0, <1>3, <1>4, Zenon
  <2> HIDE DEF F
  <2> QED
    BY <1>0, <2>1, <2>2, <2>3, FrameOf, Zenon
<1>6. ValuesOK'
  <2>1. ContentsOK(kpage')
    BY <1>0, <1>1, <1>2, ContentsReplaced, NewPagesOK, Zenon
  <2>2. <<>> \in Seq(Monitor)
    BY SMTT(30)
  <2> QED
    BY <1>0, <1>1, <2>1, <2>2, Zenon DEF ValuesOK
<1>7. StagesOK'
  BY <1>0, <1>1, Zenon DEF StagesOK
<1>8. WaitsOK'
  <2>1. subprocess_status_list'[p] = <<>> /\ \A q \in Pid \ {p} : subprocess_status_list'[q] = subprocess_status_list[q]
    BY <1>0, <1>1, Zenon DEF ValuesOK
  <2>2. ASSUME NEW q \in Pid, NEW m \in Monitor, pc'[q] = "wait", awaited'[q] = m
        PROVE  m[1] = subprocess_status_page'[q] /\ Status(m)'.pid # 0
    <3>1. pc[q] = "wait" /\ m[1] = subprocess_status_page[q] /\ Status(m).pid # 0
      BY <1>0, <1>1, <1>4, <2>2, Zenon DEF WaitsOK
    <3>2. Has(q, m)'
      BY <1>0, <2>2, <3>1, Zenon DEF Has, Alive
    <3> QED
      BY <1>0, <1>5, <3>1, <3>2, Zenon DEF Frame
  <2> QED
    BY <1>0, <1>1, <1>4, <2>1, <2>2, SMTT(30) DEF WaitsOK
<1>9. <<pc[p], "files">> \in PlainMoves /\ "files" # "release"
  BY <1>0, Zenon DEF PlainMoves
<1>10. UNCHANGED <<temp_kpage, subprocess_status_page, pstatus, parent, monitorOf, result>>
  BY <1>0, Zenon
<1>11. \A c \in Pid : c # p \/ pc[p] # "user" => exit_status'[c] = exit_status[c]
  BY <1>0, Zenon
<1> QED
  BY <1>0, <1>5, <1>6, <1>7, <1>8, <1>9, <1>10, <1>11, PlainMove, Zenon
-----------------------------------------------------------------------------
(* Who created whom, and for which monitor, is not forgotten.              *)
Remembered == \A c, q \in Pid : parent[c] = q => parent'[c] = q /\ monitorOf'[c] = monitorOf[c]

(* A monitor that a step does not concern.                                 *)
Aside(q, n) ==
    /\ Status(n)' = Status(n) /\ (Untainted(n, q)' => Untainted(n, q))
    /\ \A c \in Pid : Uses(q, n, c)' <=> Uses(q, n, c)

(* What is said of it stays true.                                          *)
LEMMA SlotKept ==
    ASSUME SlotsOK, Remembered, NEW q \in Pid, NEW n \in Monitor, Has(q, n), Aside(q, n),
           \A c \in Pid : pstatus'[c] = n <=> pstatus[c] = n,
           \A c \in Pid : pstatus[c] = n => (pc'[c] \in Gone <=> pc[c] \in Gone) /\ exit_status'[c] = exit_status[c]
    PROVE  SlotOK(q, n)' /\ (Untainted(n, q)' => ReportsOK(q, n)')
<1>1. SlotOK(q, n) /\ (Untainted(n, q) => ReportsOK(q, n))
  BY Zenon DEF SlotsOK
<1>2. SlotOK(q, n)'
  BY <1>1, Zenon DEF SlotOK, Aside, Remembered
<1>3. ASSUME Untainted(n, q)' PROVE ReportsOK(q, n)'
  <2>1. ReportsOK(q, n) /\ Status(n)' = Status(n) /\ \A c \in Pid : Uses(q, n, c)' <=> Uses(q, n, c)
    BY <1>1, <1>3, Zenon DEF Aside
  <2> QED
    BY <2>1, Zenon DEF ReportsOK
<1> QED
  BY <1>2, <1>3, Zenon

(* So does what is said of an exec that it does not concern.               *)
LEMMA ExecKept ==
    ASSUME ExecsOK, Remembered, NEW q \in Pid, NEW n \in Monitor, InExec(q), ExecMonitor(q) = n, Aside(q, n),
           pc'[q] = "create" => pc[q] = "create", ExecSema(q)' = ExecSema(q), ExecPid(q)' = ExecPid(q),
           subprocess_status_page'[q] = subprocess_status_page[q],
           \A c \in Pid : pc'[c] \in {"none", "setup", "load", "tell"} => pc[c] \in {"none", "setup", "load", "tell"}
    PROVE  ExecOK(q, n)'
<1>1. ExecOK(q, n)
  BY Zenon DEF ExecsOK
<1>2. n[1] = subprocess_status_page'[q] /\ Status(n)'.in_use /\ Status(n)'.pid = 0
  BY <1>1, Zenon DEF ExecOK, Aside
<1>3. ASSUME NEW c \in Pid, ExecSema(q)' > 0, ExecPid(q)' = c
      PROVE  parent'[c] = q /\ monitorOf'[c] = n /\ pc'[c] \notin {"none", "setup", "load", "tell"}
  BY <1>1, <1>3, SMTT(30) DEF ExecOK, Remembered
<1>4. ASSUME Untainted(n, q)', \A c \in Pid : ~Uses(q, n, c)'
      PROVE  Status(n)'.sema = 0
  BY <1>1, <1>4, Zenon DEF ExecOK, Aside
<1>5. pc'[q] = "create" => ExecSema(q)' = 0
  BY <1>1, Zenon DEF ExecOK
<1> QED
  BY <1>2, <1>3, <1>4, <1>5, Zenon DEF ExecOK

(* get_new_subprocess_monitor() returns a monitor of the caller's that is  *)
(* not in use.                                                             *)
LEMMA NewMonitor ==
    ASSUME NEW p \in Pid, subprocess_status_page[p] \in Page, get_new_subprocess_monitor(p) # Null
    PROVE  LET m == get_new_subprocess_monitor(p)
           IN m \in Monitor /\ m[1] = subprocess_status_page[p] /\ ~Status(m).in_use
<1> DEFINE g == subprocess_status_page[p]
           free == {x \in Slot : ~kpage[g].status[x].in_use}
           i == Scan(free)
<1>1. i # Null /\ get_new_subprocess_monitor(p) = <<g, i>>
  BY Zenon DEF get_new_subprocess_monitor
<1>3. i \in free
  BY <1>1, ScanFinds, Zenon
<1> HIDE DEF i
<1>4. i \in Slot /\ ~kpage[g].status[i].in_use
  BY <1>3, Zenon
<1> HIDE DEF free, g
<1>5. <<g, i>> \in Monitor /\ <<g, i>>[1] = g /\ <<g, i>>[2] = i
  BY <1>4, Zenon DEF Monitor, g
<1> QED
  BY <1>1, <1>4, <1>5, Zenon DEF Status, g

(* What a step that keeps the families does for a process d without a      *)
(* parent, and for one whose parent is q: it points d to nothing but the   *)
(* monitor d was created for, and leaves q its page of monitors.           *)
Single(d) ==
    /\ pc'[d] = "none" => pc[d] = "none"
    /\ pc'[d] \in Starting \cup {"none"} => pc[d] \in Starting \cup {"none"}
    /\ parent[d] = Null => pstatus'[d] = pstatus[d] /\ result'[d] = result[d]
Related(d, q) ==
    /\ Alive(q)' => Alive(q) /\ subprocess_status_page'[q] = subprocess_status_page[q]
    /\ \/ pstatus'[d] = monitorOf[d]
       \/ /\ pstatus'[d] = pstatus[d]
          /\ pc'[d] \in {"user", "create", "execute", "wait"} => pc[d] \in {"user", "create", "execute", "wait"}

(* Such a step keeps the families.                                         *)
LEMMA FamilyKept ==
    ASSUME FamilyOK, UNCHANGED <<parent, monitorOf>>, \A d \in Pid : Single(d),
           \A d, q \in Pid : parent[d] = q => Related(d, q)
    PROVE  FamilyOK'
<1>1. ASSUME NEW c \in Pid
      PROVE  /\ pc'[c] = "none" => parent'[c] = Null /\ result'[c] = Null
             /\ parent'[c] = Null => pstatus'[c] = Null /\ result'[c] = Null
  <2>1. /\ pc[c] = "none" => parent[c] = Null /\ result[c] = Null
        /\ parent[c] = Null => pstatus[c] = Null /\ result[c] = Null
    BY Zenon DEF FamilyOK
  <2>2. Single(c) /\ parent'[c] = parent[c]
    BY Zenon
  <2> QED
    BY ONLY <2>1, <2>2, Zenon DEF Single
<1>2. ASSUME NEW c \in Pid, NEW p \in Pid, parent'[c] = p
      PROVE  /\ monitorOf'[c] # Null /\ pstatus'[c] \in {Null, monitorOf'[c]}
             /\ pc'[p] \notin Starting \cup {"none"}
             /\ Alive(p)' => monitorOf'[c][1] = subprocess_status_page'[p]
             /\ pc'[c] \in {"user", "create", "execute", "wait"} => pstatus'[c] = monitorOf'[c]
  <2>1. parent[c] = p
    BY <1>2, Zenon
  <2>2. /\ monitorOf[c] # Null /\ pstatus[c] \in {Null, monitorOf[c]}
        /\ pc[p] \notin Starting \cup {"none"}
        /\ Alive(p) => monitorOf[c][1] = subprocess_status_page[p]
        /\ pc[c] \in {"user", "create", "execute", "wait"} => pstatus[c] = monitorOf[c]
    BY <2>1, Zenon DEF FamilyOK
  <2>3. Single(p) /\ Related(c, p) /\ monitorOf'[c] = monitorOf[c]
    BY <2>1, Zenon
  <2>4. pstatus'[c] \in {Null, monitorOf'[c]} /\ monitorOf'[c] # Null
    BY ONLY <2>2, <2>3, Zenon DEF Related
  <2>5. pc'[p] \notin Starting \cup {"none"}
    BY ONLY <2>2, <2>3, Zenon DEF Single
  <2>6. Alive(p)' => monitorOf'[c][1] = subprocess_status_page'[p]
    BY ONLY <2>2, <2>3, Zenon DEF Related
  <2>7. pc'[c] \in {"user", "create", "execute", "wait"} => pstatus'[c] = monitorOf'[c]
    BY ONLY <2>2, <2>3, Zenon DEF Related
  <2> QED
    BY <2>4, <2>5, <2>6, <2>7, Zenon
<1> QED
  BY <1>1, <1>2, Zenon DEF FamilyOK

(* process_execute() takes a monitor and the temporary page.               *)
LEMMA ExecuteKeeps == ASSUME OwnershipInv, MonitorsInv, NEW p \in Pid, NEW fits, process_execute(p, fits),
                             fits /\ get_new_subprocess_monitor(p) # Null
                      PROVE  MonitorsInv'
<1> PICK m, g : m = get_new_subprocess_monitor(p) /\ g = palloc_get_page(kpage)
  BY Zenon
<1> DEFINE new == [Status(m) EXCEPT !.in_use = TRUE, !.sema = 0]
           r == [TempPage EXCEPT !.pstatus = m]
           k == [kpage EXCEPT ![g] = r]
<1>0. /\ power = "on" /\ pc[p] = "user" /\ Goto(p, "create") /\ g # Null
      /\ kpage' = SetStatus(k, m, new) /\ temp_kpage' = [temp_kpage EXCEPT ![p] = g]
      /\ UNCHANGED <<subprocess_status_page, subprocess_status_list, pstatus, successful,
                     awaited, exit_status, process_exit_lock, parent, monitorOf, result>>
  BY Zenon DEF process_execute, At, procVars, locals, history
<1>1. /\ PoolOK(kpage) /\ ContentsOK(kpage) /\ ValuesOK /\ StagesOK /\ FamilyOK /\ BirthsOK
      /\ ExecsOK /\ SlotsOK /\ WaitsOK /\ WaitReturnsStatus /\ TypesOK
  BY <1>0, Zenon DEF MonitorsInv, MonitorsOK, ValuesOK, OwnershipInv, TypesOK
<1>2. pc'[p] = "create" /\ (\A q \in Pid \ {p} : pc'[q] = pc[q])
  BY <1>0, <1>1, Zenon DEF TypesOK, Goto
<1>3. g \in Page /\ kpage[g].kind = "free"
  BY <1>0, <1>1, PallocTakesFree, NewPagesOK, Zenon
<1>4. m \in Monitor /\ m[1] = subprocess_status_page[p] /\ ~Status(m).in_use
  <2>1. subprocess_status_page[p] \in Page
    BY <1>0, <1>1, Zenon DEF StagesOK, TypesOK
  <2> QED
    BY <2>1, NewMonitor, Zenon
<1>5. Has(p, m) /\ kpage[m[1]].kind = "monitors" /\ m[1] \in Page /\ m[2] \in Slot
  BY <1>0, <1>4, OwnPages, Zenon DEF Has, Alive, Monitor
<1>6. Status(m) \in StatusRecord /\ Status(m).pid = 0
  BY <1>1, <1>4, <1>5, SMTT(30) DEF ContentsOK, Status, SlotsOK, SlotOK
<1>7. new \in StatusRecord /\ new.in_use /\ new.sema = 0 /\ new.pid = 0
  BY <1>6, TakenFields, Zenon
<1> HIDE DEF new
<1>8. /\ r \in TempRecord /\ r.kind = "temp" /\ r.sema = 0 /\ r.pid = PID_ERROR /\ r.pstatus = m /\ PageOK(r)
  BY <1>4, NewPagesOK, Zenon DEF TempRecord, TempPage
<1> HIDE DEF r
<1>9. /\ PoolOK(k) /\ ContentsOK(k) /\ k[g] = r /\ (\A h \in Page \ {g} : k[h] = kpage[h])
  <2>1. PoolOK(k)
    BY <1>1, <1>3, <1>8, PageReplaced, Zenon
  <2>2. ContentsOK(k)
    BY <1>1, <1>3, <1>8, ContentsReplaced, Zenon
  <2> QED
    BY <1>1, <1>3, <2>1, <2>2, Zenon DEF PoolOK
<1> HIDE DEF k
<1>10. /\ ContentsOK(kpage') /\ Status(m)' = new /\ kpage'[g] = r
       /\ \A n \in Monitor : n # m /\ kpage[n[1]].kind = "monitors" => Status(n)' = Status(n)
       /\ \A h \in Page : kpage[h].kind = "temp" => kpage'[h] = kpage[h]
       /\ \A h \in Page : kpage[h].kind = "monitors" => kpage'[h].kind = "monitors"
  <2>0. k[m[1]].kind = "monitors" /\ m[1] # g
    BY <1>3, <1>5, <1>9, Zenon
  <2>1. /\ ContentsOK(kpage')
        /\ \A n \in Monitor : k[n[1]].kind = "monitors" =>
                 kpage'[n[1]].status[n[2]] = IF n = m THEN new ELSE k[n[1]].status[n[2]]
        /\ \A h \in Page : k[h].kind # "monitors" => kpage'[h] = k[h]
    BY <1>0, <1>4, <1>7, <1>9, <2>0, SlotWritten, SMTT(30)
  <2>2. \A n \in Monitor : n[1] \in Page
    BY Zenon DEF Monitor
  <2>3. \A n \in Monitor : kpage[n[1]].kind = "monitors" => k[n[1]] = kpage[n[1]]
    BY <1>3, <1>9, <2>2, Zenon
  <2>4. Status(m)' = new
    BY <1>4, <2>0, <2>1, Zenon DEF Status
  <2>5. \A n \in Monitor : n # m /\ kpage[n[1]].kind = "monitors" => Status(n)' = Status(n)
    BY <2>1, <2>3, SMTT(30) DEF Status
  <2>6. \A h \in Page : kpage[h].kind = "temp" => kpage'[h] = kpage[h]
    BY <1>3, <1>9, <2>1, Zenon
  <2>7. kpage'[g] = r
    BY <1>3, <1>8, <1>9, <2>1, Zenon
  <2>8. \A h \in Page : kpage[h].kind = "monitors" => kpage'[h].kind = "monitors"
    <3>1. SameKinds(k, kpage')
      BY <1>0, <1>9, StatusWritten, Zenon
    <3> QED
      BY <1>3, <1>9, <3>1, Zenon DEF SameKinds
  <2> QED
    BY <2>1, <2>4, <2>5, <2>6, <2>7, <2>8, Zenon
<1>11. /\ \A q \in Pid : Alive(q)' <=> Alive(q)
       /\ \A q \in Pid, n \in Monitor : Has(q, n)' <=> Has(q, n)
       /\ \A q \in Pid : InExec(q)' <=> InExec(q) \/ q = p
       /\ ~InExec(p)
  BY <1>0, <1>2, Zenon DEF Alive, Has, InExec
<1>12. \A q \in Pid, n \in Monitor : Has(q, n) /\ n # m => Status(n)' = Status(n)
  BY <1>0, <1>10, OwnPages, SMTT(30)
<1>13. \A q \in Pid : InExec(q) => /\ temp_kpage'[q] = temp_kpage[q] /\ ExecSema(q)' = ExecSema(q)
                                  /\ ExecPid(q)' = ExecPid(q) /\ ExecMonitor(q)' = ExecMonitor(q)
  <2>1. \A q \in Pid : InExec(q) => temp_kpage'[q] = temp_kpage[q]
    BY <1>0, <1>1, <1>11, Zenon DEF TypesOK
  <2>2. \A q \in Pid : InExec(q) => kpage'[temp_kpage'[q]] = kpage[temp_kpage[q]]
    BY <1>0, <1>10, <2>1, OwnPages, SMTT(30)
  <2> QED
    BY <2>1, <2>2, Zenon DEF ExecSema, ExecPid, ExecMonitor
<1>14. temp_kpage'[p] = g /\ ExecSema(p)' = 0 /\ ExecMonitor(p)' = m
  BY <1>0, <1>1, <1>3, <1>8, <1>10, Zenon DEF ExecSema, ExecMonitor, TypesOK
<1>15. ASSUME NEW q \in Pid, NEW n \in Monitor, Has(q, n), NEW c \in Pid
       PROVE  Uses(q, n, c)' <=> Uses(q, n, c)
  <2>1. c # 0
    BY SMTT(30) DEF Pid
  <2>2. CASE n = m
    <3>1. q = p
      BY <1>0, <1>5, <1>15, <2>2, OwnPages, Zenon
    <3> QED
      BY <1>0, <1>2, <1>6, <1>7, <1>10, <2>1, <2>2, <3>1, Zenon DEF Uses
  <2>3. CASE n # m
    <3>1. Status(n)' = Status(n)
      BY <1>12, <1>15, <2>3, Zenon
    <3>2. pc'[c] = "handoff" <=> pc[c] = "handoff"
      BY <1>0, <1>2, Zenon
    <3>3. CASE q = p
      BY <1>0, <1>2, <3>1, <3>3, Zenon DEF Uses
    <3>4. CASE q # p
      BY <1>2, <1>13, <3>1, <3>2, <3>4, Zenon DEF Uses, InExec
    <3> QED
      BY <3>3, <3>4, Zenon
  <2> QED
    BY <2>2, <2>3, Zenon
<1>16. Remembered /\ (\A q \in Pid, n \in Monitor : Untainted(n, q)' <=> Untainted(n, q))
  BY <1>0, Zenon DEF Remembered, Untainted
<1>17. ValuesOK'
  BY <1>0, <1>1, <1>10, Zenon DEF ValuesOK
<1>18. StagesOK'
  <2>1. \A q \in Pid : pc[q] = "report" => pstatus[q] \in Monitor
    BY <1>1, Zenon DEF ValuesOK, StagesOK
  <2>2. \A q \in Pid : pc[q] = "report" => kpage'[pstatus[q][1]].kind = "monitors"
    BY <1>1, <1>10, <2>1, Zenon DEF StagesOK, Monitor
  <2> QED
    BY <1>0, <1>1, <1>2, <2>2, SMTT(30) DEF StagesOK
<1>19. FamilyOK'
  <2>1. FamilyOK /\ UNCHANGED <<parent, result, pstatus, monitorOf, subprocess_status_page>>
    BY <1>0, <1>1, Zenon
  <2>2. \A q \in Pid : /\ pc'[q] = "none" => pc[q] = "none"
                       /\ pc'[q] \in Starting \cup {"none"} => pc[q] \in Starting \cup {"none"}
                       /\ pc'[q] \in {"user", "create", "execute", "wait"}
                             => pc[q] \in {"user", "create", "execute", "wait"}
    BY <1>0, <1>2, Zenon DEF Starting
  <2> QED
    BY <1>11, <2>1, <2>2, Zenon DEF FamilyOK
<1>20. BirthsOK'
  <2>1. \A c \in Pid : (pc'[c] \in Starting <=> pc[c] \in Starting) /\ (pc'[c] = "handoff" <=> pc[c] = "handoff")
    BY <1>0, <1>2, Zenon DEF Starting
  <2>2. \A c \in Pid : pc[c] \in Starting => temp_kpage'[c] = temp_kpage[c]
    BY <1>0, <1>1, Zenon DEF TypesOK, Starting
  <2>3. \A q \in Pid : pc[q] = "execute" => pc'[q] = "execute"
    BY <1>0, <1>2, Zenon
  <2>4. BirthsOK /\ UNCHANGED <<parent, pstatus, monitorOf>>
    BY <1>0, <1>1, Zenon
  <2>5. ASSUME NEW d \in Pid, NEW q \in Pid, pc'[d] \in Starting, parent'[d] = q
        PROVE  /\ pc'[q] = "execute" /\ temp_kpage'[d] = temp_kpage'[q] /\ ExecMonitor(q)' = monitorOf'[d]
               /\ pc'[d] # "handoff" => ExecSema(q)' = 0
               /\ pc'[d] = "handoff" => ExecSema(q)' > 0 /\ ExecPid(q)' = d
    <3>1. pc[d] \in Starting /\ parent[d] = q /\ (pc'[d] = "handoff" <=> pc[d] = "handoff")
      BY <2>1, <2>4, <2>5, Zenon
    <3>2. /\ pc[q] = "execute" /\ temp_kpage[d] = temp_kpage[q] /\ ExecMonitor(q) = monitorOf[d]
          /\ pc[d] # "handoff" => ExecSema(q) = 0
          /\ pc[d] = "handoff" => ExecSema(q) > 0 /\ ExecPid(q) = d
      BY <2>4, <3>1, Zenon DEF BirthsOK
    <3>3. InExec(q)
      BY <3>2, Zenon DEF InExec
    <3> QED
      BY <1>13, <2>2, <2>3, <2>4, <3>1, <3>2, <3>3, Zenon
  <2>6. \A d \in Pid : pc'[d] \in Starting => parent'[d] # Null /\ pstatus'[d] = Null
    BY <2>1, <2>4, Zenon DEF BirthsOK
  <2>7. \A d, e \in Pid : pc'[d] \in Starting /\ pc'[e] \in Starting /\ parent'[d] = parent'[e] => d = e
    BY <2>1, <2>4, Zenon DEF BirthsOK
  <2> QED
    BY <2>5, <2>6, <2>7, Zenon DEF BirthsOK
<1>21. ExecsOK'
  <2> SUFFICES ASSUME NEW q \in Pid, NEW n \in Monitor, InExec(q)', ExecMonitor(q)' = n
               PROVE  ExecOK(q, n)'
    BY Zenon DEF ExecsOK
  <2>1. CASE q = p
    <3>1. n = m
      BY <1>14, <2>1, Zenon
    <3>2. Status(m)' = new /\ m[1] = subprocess_status_page'[p] /\ ExecSema(p)' = 0
      BY <1>0, <1>4, <1>10, <1>14, Zenon
    <3>3. ~(0 > 0)
      BY SMTT(30)
    <3> QED
      BY <1>7, <2>1, <3>1, <3>2, <3>3, Zenon DEF ExecOK
  <2>2. CASE q # p
    <3>1. InExec(q) /\ ExecMonitor(q) = n /\ ExecSema(q)' = ExecSema(q) /\ ExecPid(q)' = ExecPid(q)
      BY <1>11, <1>13, <2>2, Zenon
    <3>2. Has(q, n)
      BY <1>1, <3>1, SMTT(30) DEF ExecsOK, ExecOK, Has, InExec, Alive
    <3>3. n # m
      BY <1>0, <1>5, <2>2, <3>2, OwnPages, Zenon
    <3>4. Aside(q, n)
      BY <1>12, <1>15, <1>16, <3>2, <3>3, Zenon DEF Aside
    <3>5. \A c \in Pid : pc'[c] \in {"none", "setup", "load", "tell"} => pc[c] \in {"none", "setup", "load", "tell"}
      BY <1>2, Zenon
    <3>6. (pc'[q] = "create" => pc[q] = "create") /\ subprocess_status_page'[q] = subprocess_status_page[q]
      BY <1>0, <1>2, <2>2, Zenon
    <3> QED
      BY <1>1, <1>16, <3>1, <3>4, <3>5, <3>6, ExecKept, Zenon
  <2> QED
    BY <2>1, <2>2, Zenon
<1>22. SlotsOK'
  <2> SUFFICES ASSUME NEW q \in Pid, NEW n \in Monitor, Has(q, n)
               PROVE  SlotOK(q, n)' /\ (Untainted(n, q)' => ReportsOK(q, n)')
    BY <1>11, Zenon DEF SlotsOK
  <2>1. CASE n = m
    <3>1. q = p
      BY <1>0, <1>5, <2>1, OwnPages, Zenon
    <3>2. \A c \in Pid : ~Uses(p, m, c) /\ c # 0
      BY <1>0, <1>6, SMTT(30) DEF Uses, Pid
    <3>3. SlotOK(p, m)'
      BY <1>7, <1>10, <3>2, Zenon DEF SlotOK
    <3>4. \A c \in Pid : ~Uses(p, m, c)'
      BY <1>4, <1>5, <1>15, <3>2, Zenon
    <3>5. \A d \in Pid : pc[d] \notin Gone <=> pc'[d] \notin Gone
      BY <1>0, <1>2, Zenon DEF Gone
    <3>6. ASSUME Untainted(m, p)' PROVE ReportsOK(p, m)'
      <4>1. ReportsOK(p, m)
        BY <1>1, <1>4, <1>5, <1>16, <3>6, Zenon DEF SlotsOK
      <4>2. \A d \in Pid : ~(pstatus'[d] = m /\ pc'[d] \notin Gone)
        BY <1>0, <3>2, <3>5, <4>1, Zenon DEF ReportsOK
      <4> QED
        BY <3>4, <4>2, Zenon DEF ReportsOK
    <3> QED
      BY <2>1, <3>1, <3>3, <3>6, Zenon
  <2>2. CASE n # m
    <3>1. Aside(q, n)
      BY <1>12, <1>15, <1>16, <2>2, Zenon DEF Aside
    <3>2. \A c \in Pid : pstatus[c] = n => (pc'[c] \in Gone <=> pc[c] \in Gone) /\ exit_status'[c] = exit_status[c]
      BY <1>0, <1>2, Zenon DEF Gone
    <3>3. \A c \in Pid : pstatus'[c] = n <=> pstatus[c] = n
      BY <1>0, Zenon
    <3> QED
      BY <1>1, <1>16, <3>1, <3>2, <3>3, SlotKept, Zenon
  <2> QED
    BY <2>1, <2>2, Zenon
<1>23. WaitsOK'
  <2>1. ASSUME NEW q \in Pid, NEW n \in Monitor, pc'[q] = "wait", awaited'[q] = n
        PROVE  n[1] = subprocess_status_page'[q] /\ Status(n)'.pid # 0
    <3>1. pc[q] = "wait" /\ n[1] = subprocess_status_page[q] /\ Status(n).pid # 0
      BY <1>0, <1>1, <1>2, <2>1, Zenon DEF WaitsOK
    <3>2. Has(q, n) /\ n # m
      BY <1>6, <3>1, Zenon DEF Has, Alive
    <3> QED
      BY <1>0, <1>12, <3>1, <3>2, Zenon
  <2> QED
    BY <1>0, <1>1, <1>2, <1>11, <2>1, Zenon DEF WaitsOK
<1>24. WaitReturnsStatus'
  BY <1>0, <1>1, <1>2, ReturnsKept, Zenon DEF Gone
<1> QED
  BY <1>17, <1>18, <1>19, <1>20, <1>21, <1>22, <1>23, <1>24, Zenon DEF MonitorsInv, MonitorsOK
-----------------------------------------------------------------------------
(* Then the steps that write to a monitor, other than the one that takes   *)
(* it: a child's report, the return of process_wait(), and the steps in    *)
(* which parent and child agree on the outcome of an exec. With them       *)
(* MonitorsInv is inductive.                                               *)

(* A list with an element removed has no new elements.                     *)
LEMMA Removed ==
    ASSUME NEW S, NEW list \in Seq(S), NEW i \in DOMAIN list
    PROVE  /\ list_remove(list, i) \in Seq(S)
           /\ \A j \in DOMAIN list_remove(list, i) : \E h \in DOMAIN list : list_remove(list, i)[j] = list[h]
<1> DEFINE front == SubSeq(list, 1, i - 1)
           back == SubSeq(list, i + 1, Len(list))
<1>1. Len(list) \in Nat /\ i \in 1 .. Len(list) /\ DOMAIN list = 1 .. Len(list)
  BY SMTT(30)
<1>2. front \in Seq(S) /\ Len(front) = i - 1 /\ \A j \in 1 .. i - 1 : front[j] = list[j]
  BY <1>1, SMTT(30)
<1>3. /\ back \in Seq(S) /\ Len(back) = Len(list) - i
      /\ \A j \in 1 .. Len(list) - i : back[j] = list[i + j]
  BY <1>1, SMTT(30)
<1> HIDE DEF front, back
<1>4. front \o back \in Seq(S) /\ Len(front \o back) = Len(list) - 1
  <2>1. front \o back \in Seq(S)
    BY <1>2, <1>3, SMTT(30)
  <2>0. front \in Seq(S) /\ back \in Seq(S) /\ Len(front) \in Nat /\ Len(back) \in Nat
    BY <1>2, <1>3, SMTT(30)
  <2>2. Len(front \o back) = Len(front) + Len(back)
    BY <2>0, SMTT(30)
  <2> QED
    BY <1>1, <1>2, <1>3, <2>1, <2>2, SMTT(30)
<1>5. ASSUME NEW j \in 1 .. Len(list) - 1
      PROVE  \E h \in DOMAIN list : (front \o back)[j] = list[h]
  <2>1. CASE j < i
    <3>1. j \in 1 .. Len(front) + Len(back) /\ j <= Len(front) /\ j \in 1 .. i - 1 /\ j \in DOMAIN list
      BY <1>1, <1>2, <1>3, <2>1, SMTT(30)
    <3>2. (front \o back)[j] = front[j]
      BY <1>2, <1>3, <3>1, SMTT(30)
    <3> QED
      BY <1>2, <3>1, <3>2, Zenon
  <2>2. CASE ~(j < i)
    <3>1. j \in 1 .. Len(front) + Len(back) /\ ~(j <= Len(front))
      BY <1>1, <1>2, <1>3, <2>2, SMTT(30)
    <3>0. front \in Seq(S) /\ back \in Seq(S) /\ Len(front) \in Nat /\ Len(back) \in Nat
      BY <1>2, <1>3, SMTT(30)
    <3>2. (front \o back)[j] = back[j - Len(front)]
      BY <3>0, <3>1, SMTT(30)
    <3>3. j - Len(front) \in 1 .. Len(list) - i /\ i + (j - Len(front)) \in DOMAIN list
      BY <1>1, <1>2, <2>2, SMTT(30)
    <3> QED
      BY <1>3, <3>2, <3>3, Zenon
  <2> QED
    BY <2>1, <2>2, Zenon
<1>6. list_remove(list, i) = front \o back
  BY Zenon DEF list_remove, front, back
<1>7. DOMAIN (front \o back) = 1 .. Len(list) - 1
  BY <1>4, SMTT(30)
<1> QED
  BY <1>4, <1>5, <1>6, <1>7, Zenon

(* What a write to monitor m does.                                         *)
LEMMA MonitorWritten ==
    ASSUME PoolOK(kpage), ContentsOK(kpage), NEW m \in Monitor, kpage[m[1]].kind = "monitors",
           NEW new \in StatusRecord, kpage' = SetStatus(kpage, m, new)
    PROVE  /\ ContentsOK(kpage') /\ Status(m)' = new /\ SameKinds(kpage, kpage')
           /\ \A n \in Monitor : n # m /\ kpage[n[1]].kind = "monitors" => Status(n)' = Status(n)
           /\ \A h \in Page : kpage[h].kind = "temp" => kpage'[h] = kpage[h]
<1>1. /\ ContentsOK(kpage')
      /\ \A n \in Monitor : kpage[n[1]].kind = "monitors" =>
               kpage'[n[1]].status[n[2]] = IF n = m THEN new ELSE kpage[n[1]].status[n[2]]
      /\ \A h \in Page : kpage[h].kind # "monitors" => kpage'[h] = kpage[h]
  BY SlotWritten, SMTT(30)
<1>2. SameKinds(kpage, kpage')
  BY StatusWritten, Zenon
<1>3. Status(m)' = new /\ \A n \in Monitor : n # m /\ kpage[n[1]].kind = "monitors" => Status(n)' = Status(n)
  BY <1>1, Zenon DEF Status
<1>4. \A h \in Page : kpage[h].kind = "temp" => kpage'[h] = kpage[h]
  BY <1>1, Zenon
<1> QED
  BY <1>1, <1>2, <1>3, <1>4, Zenon

(* The temporary pages of the execs are left alone.                        *)
ExecsAside == \A q \in Pid : InExec(q) => /\ ExecSema(q)' = ExecSema(q) /\ ExecPid(q)' = ExecPid(q)
                                         /\ ExecMonitor(q)' = ExecMonitor(q)

(* So they are by a write to a monitor.                                    *)
LEMMA ExecsUntouched ==
    ASSUME OwnershipInv, power = "on", temp_kpage' = temp_kpage,
           \A h \in Page : kpage[h].kind = "temp" => kpage'[h] = kpage[h]
    PROVE  ExecsAside
<1>1. \A q \in Pid : InExec(q) => kpage'[temp_kpage'[q]] = kpage[temp_kpage[q]]
  BY OwnPages, Zenon
<1> QED
  BY <1>1, Zenon DEF ExecsAside, ExecSema, ExecPid, ExecMonitor

(* A monitor is in use for one child.                                      *)
LEMMA UsesOne ==
    ASSUME ExecsOK, NEW q \in Pid, NEW m \in Monitor, NEW c \in Pid, NEW d \in Pid, Uses(q, m, c), Uses(q, m, d)
    PROVE  c = d
<1>1. c # 0 /\ d # 0
  BY SMTT(30) DEF Pid
<1>2. InExec(q) /\ ExecMonitor(q) = m => Status(m).pid = 0
  BY Zenon DEF ExecsOK, ExecOK
<1> QED
  BY <1>1, <1>2, Zenon DEF Uses, InExec

(* A write to a monitor m, by the one who waited or by the one who         *)
(* reports, that leaves m as it should be.                                 *)
Writes(p, w, m, new) ==
    /\ <<pc[p], w>> \in {<<"wait", "user">>, <<"report", "release">>} /\ Goto(p, w)
    /\ kpage[m[1]].kind = "monitors" /\ (w = "release" => pstatus[p] = m)
    /\ kpage' = SetStatus(kpage, m, new)
    /\ UNCHANGED <<temp_kpage, subprocess_status_page, pstatus, exit_status, parent, monitorOf>>
    /\ \A q \in Pid : Has(q, m) => SlotOK(q, m)' /\ (Untainted(m, q) => ReportsOK(q, m)')
    /\ \A q \in Pid : InExec(q) /\ ExecMonitor(q) = m => ExecOK(q, m)'

(* It keeps what is said of the others.                                    *)
LEMMA WriteKeeps ==
    ASSUME OwnershipInv, MonitorsInv, power = "on", NEW p \in Pid, NEW w, NEW m \in Monitor,
           NEW new \in StatusRecord, Writes(p, w, m, new)
    PROVE  BirthsOK' /\ ExecsOK' /\ SlotsOK'
<1> USE DEF Writes
<1>1. /\ PoolOK(kpage) /\ ContentsOK(kpage) /\ BirthsOK /\ ExecsOK /\ SlotsOK /\ TypesOK
  BY Zenon DEF MonitorsInv, MonitorsOK, ValuesOK, OwnershipInv, TypesOK
<1>2. pc'[p] = w /\ (\A q \in Pid \ {p} : pc'[q] = pc[q]) /\ pc[p] \in {"wait", "report"} /\ w \in {"user", "release"}
  BY <1>1, Zenon DEF TypesOK, Goto
<1>3. \A q \in Pid : /\ (Alive(q)' <=> Alive(q)) /\ (InExec(q)' <=> InExec(q)) /\ (pc'[q] \in Starting <=> pc[q] \in Starting)
                     /\ (pc'[q] = "handoff" <=> pc[q] = "handoff") /\ (pc'[q] = "execute" <=> pc[q] = "execute")
                     /\ (pc'[q] = "create" => pc[q] = "create")
                     /\ (pc'[q] \in {"none", "setup", "load", "tell"} => pc[q] \in {"none", "setup", "load", "tell"})
  BY <1>2, Zenon DEF Alive, InExec, Starting
<1>4. /\ \A n \in Monitor : n # m /\ kpage[n[1]].kind = "monitors" => Status(n)' = Status(n)
      /\ \A h \in Page : kpage[h].kind = "temp" => kpage'[h] = kpage[h]
  BY <1>1, MonitorWritten, Zenon
<1>5. ExecsAside
  BY <1>4, ExecsUntouched, Zenon
<1>6. ASSUME NEW q \in Pid, NEW n \in Monitor, Has(q, n), n # m
      PROVE  Aside(q, n)
  <2>1. Status(n)' = Status(n)
    BY <1>4, <1>6, OwnPages, Zenon
  <2>2. \A c \in Pid : Uses(q, n, c)' <=> Uses(q, n, c)
    BY <1>3, <1>5, <2>1, Zenon DEF Uses, ExecsAside, InExec
  <2>3. Untainted(n, q)' => Untainted(n, q)
    BY Zenon DEF Untainted
  <2> QED
    BY <2>1, <2>2, <2>3, Zenon DEF Aside
<1>7. Remembered
  BY Zenon DEF Remembered
<1>8. BirthsOK'
  BY <1>1, <1>3, <1>5, SMTT(30) DEF BirthsOK, ExecsAside, InExec
<1>9. ASSUME NEW q \in Pid, NEW n \in Monitor, InExec(q)', ExecMonitor(q)' = n
      PROVE  ExecOK(q, n)'
  <2>1. /\ InExec(q) /\ ExecMonitor(q) = n /\ ExecSema(q)' = ExecSema(q) /\ ExecPid(q)' = ExecPid(q)
        /\ subprocess_status_page'[q] = subprocess_status_page[q]
    BY <1>3, <1>5, <1>9, Zenon DEF ExecsAside
  <2>2. Has(q, n)
    BY <1>1, <2>1, SMTT(30) DEF ExecsOK, ExecOK, Has, InExec, Alive
  <2>3. CASE n # m
    BY <1>1, <1>3, <1>6, <1>7, <2>1, <2>2, <2>3, ExecKept, Zenon
  <2> QED
    BY <2>1, <2>3, Zenon
<1>10. ASSUME NEW q \in Pid, NEW n \in Monitor, Has(q, n)'
       PROVE  SlotOK(q, n)' /\ (Untainted(n, q)' => ReportsOK(q, n)')
  <2>1. Has(q, n) /\ (Untainted(n, q)' <=> Untainted(n, q))
    BY <1>3, <1>10, Zenon DEF Has, Untainted
  <2>2. CASE n # m
    <3>1. \A c \in Pid : pstatus'[c] = n <=> pstatus[c] = n
      BY Zenon
    <3>2. \A c \in Pid : pstatus[c] = n => (pc'[c] \in Gone <=> pc[c] \in Gone) /\ exit_status'[c] = exit_status[c]
      BY <1>2, <2>2, Zenon DEF Gone
    <3> QED
      BY <1>1, <1>6, <1>7, <2>1, <2>2, <3>1, <3>2, SlotKept, Zenon
  <2> QED
    BY <2>1, <2>2, Zenon
<1> QED
  BY <1>8, <1>9, <1>10, Zenon DEF ExecsOK, SlotsOK

(* process_exit() reports.                                                 *)
LEMMA ReportKeeps == ASSUME OwnershipInv, MonitorsInv, NEW p \in Pid, process_exit_report(p)
                     PROVE  MonitorsInv'
<1>a. PICK m : pstatus[p] = m
  BY Zenon
<1> DEFINE new == [Status(m) EXCEPT !.exit_status = exit_status[p], !.sema = @ + 1]
<1>0. /\ power = "on" /\ pc[p] = "report" /\ Goto(p, "release") /\ pstatus[p] = m
      /\ kpage' = SetStatus(kpage, m, new)
      /\ UNCHANGED <<temp_kpage, subprocess_status_page, subprocess_status_list, pstatus, successful,
                     awaited, exit_status, process_exit_lock, parent, monitorOf, result>>
  BY <1>a, Zenon DEF process_exit_report, At, procVars, locals, history
<1>1. /\ PoolOK(kpage) /\ ContentsOK(kpage) /\ ValuesOK /\ StagesOK /\ FamilyOK /\ BirthsOK
      /\ ExecsOK /\ SlotsOK /\ WaitsOK /\ WaitReturnsStatus /\ TypesOK
  BY <1>0, Zenon DEF MonitorsInv, MonitorsOK, ValuesOK, OwnershipInv, TypesOK
<1>2. pc'[p] = "release" /\ (\A q \in Pid \ {p} : pc'[q] = pc[q] /\ pc[q] \notin {"report", "release"})
  BY <1>0, <1>1, Zenon DEF TypesOK, Goto, StagesOK
<1>3. m \in Monitor /\ kpage[m[1]].kind = "monitors"
  BY <1>0, <1>1, Zenon DEF StagesOK, ValuesOK
<1>4. Status(m) \in StatusRecord /\ exit_status[p] \in ExitStatus \cup {-1, 0}
  <2>1. m[1] \in Page /\ m[2] \in Slot
    BY <1>3, Zenon DEF Monitor
  <2> QED
    BY <1>1, <1>3, <2>1, Zenon DEF ContentsOK, Status, ValuesOK
<1>5. /\ new \in StatusRecord /\ new.in_use = Status(m).in_use /\ new.pid = Status(m).pid
      /\ new.sema > 0 /\ new.exit_status = exit_status[p]
  BY <1>4, ReportedFields, Zenon
<1> HIDE DEF new
<1>6. /\ ContentsOK(kpage') /\ Status(m)' = new /\ SameKinds(kpage, kpage')
      /\ \A n \in Monitor : n # m /\ kpage[n[1]].kind = "monitors" => Status(n)' = Status(n)
      /\ \A h \in Page : kpage[h].kind = "temp" => kpage'[h] = kpage[h]
  BY <1>0, <1>1, <1>3, <1>5, MonitorWritten, Zenon
<1>7. ExecsAside
  BY <1>0, <1>6, ExecsUntouched, Zenon
<1>8. \A q \in Pid : /\ (Alive(q)' <=> Alive(q)) /\ (InExec(q)' <=> InExec(q))
                     /\ (pc'[q] = "handoff" <=> pc[q] = "handoff") /\ (pc'[q] = "execute" <=> pc[q] = "execute")
  BY <1>0, <1>2, Zenon DEF Alive, InExec
<1>9. \A q \in Pid, c \in Pid : Uses(q, m, c)' <=> Uses(q, m, c)
  BY <1>5, <1>6, <1>7, <1>8, Zenon DEF Uses, ExecsAside, InExec
<1>10. \A q \in Pid : Untainted(m, q)' <=> Untainted(m, q)
  BY <1>0, Zenon DEF Untainted
<1>11. ASSUME NEW q \in Pid, Has(q, m), Untainted(m, q)
       PROVE  ReportsOK(q, m) /\ Uses(q, m, p)
  <2>1. ReportsOK(q, m) /\ pc[p] \notin Gone
    BY <1>0, <1>1, <1>3, <1>11, Zenon DEF SlotsOK, Gone
  <2> QED
    BY <1>0, <2>1, Zenon DEF ReportsOK
<1>12. ASSUME NEW q \in Pid, Has(q, m)
       PROVE  SlotOK(q, m)' /\ (Untainted(m, q) => ReportsOK(q, m)')
  <2>1. SlotOK(q, m)'
    BY <1>0, <1>1, <1>3, <1>5, <1>6, <1>12, SMTT(30) DEF SlotsOK, SlotOK
  <2>2. ASSUME Untainted(m, q) PROVE ReportsOK(q, m)'
    <3>1. ReportsOK(q, m) /\ Uses(q, m, p)
      BY <1>11, <1>12, <2>2, Zenon
    <3>2. ASSUME NEW d \in Pid, pstatus'[d] = m, pc'[d] \notin Gone
          PROVE  Uses(q, m, d)'
      BY <1>0, <1>2, <1>9, <3>1, <3>2, Zenon DEF ReportsOK, Gone
    <3>3. ASSUME NEW c \in Pid, Uses(q, m, c)'
          PROVE  c = p /\ pstatus'[c] = m /\ Status(m)'.in_use
      <4>1. Uses(q, m, c)
        BY <1>9, <3>3, Zenon
      <4>2. c = p
        BY <1>1, <1>3, <3>1, <4>1, UsesOne, Zenon
      <4> QED
        BY <1>0, <1>5, <1>6, <3>1, <4>2, Zenon DEF ReportsOK
    <3>4. pc'[p] \in Gone /\ Status(m)'.sema > 0 /\ Status(m)'.exit_status = exit_status'[p]
      BY <1>0, <1>2, <1>5, <1>6, Zenon DEF Gone
    <3> QED
      BY <3>2, <3>3, <3>4, Zenon DEF ReportsOK
  <2> QED
    BY <2>1, <2>2, Zenon
<1>13. ASSUME NEW q \in Pid, InExec(q), ExecMonitor(q) = m
       PROVE  ExecOK(q, m)'
  <2>1. ExecOK(q, m)
    BY <1>1, <1>3, <1>13, Zenon DEF ExecsOK
  <2>2. Has(q, m)
    BY <1>3, <1>13, <2>1, Zenon DEF ExecOK, Has, InExec, Alive
  <2>3. m[1] = subprocess_status_page'[q] /\ Status(m)'.in_use /\ Status(m)'.pid = 0
    BY <1>0, <1>5, <1>6, <2>1, Zenon DEF ExecOK
  <2>4. ExecSema(q)' = ExecSema(q) /\ ExecPid(q)' = ExecPid(q) /\ (pc'[q] = "create" => pc[q] = "create")
    BY <1>2, <1>7, <1>13, Zenon DEF ExecsAside
  <2>5. ~(Untainted(m, q)' /\ (\A c \in Pid : ~Uses(q, m, c)'))
    BY <1>9, <1>10, <1>11, <2>2, Zenon
  <2>6. \A c \in Pid : ExecSema(q)' > 0 /\ ExecPid(q)' = c =>
             parent'[c] = q /\ monitorOf'[c] = m /\ pc'[c] \notin {"none", "setup", "load", "tell"}
    BY <1>0, <1>2, <2>1, <2>4, Zenon DEF ExecOK
  <2> QED
    BY <2>1, <2>3, <2>4, <2>5, <2>6, Zenon DEF ExecOK
<1>14. BirthsOK' /\ ExecsOK' /\ SlotsOK'
  <2>1. Writes(p, "release", m, new)
    BY <1>0, <1>3, <1>12, <1>13, Zenon DEF Writes
  <2> QED
    BY <1>0, <1>3, <1>5, <2>1, WriteKeeps, Zenon
<1>15. ValuesOK'
  BY <1>0, <1>1, <1>6, Zenon DEF ValuesOK
<1>16. StagesOK'
  BY <1>0, <1>1, <1>2, Zenon DEF StagesOK
<1>17. FamilyOK'
  BY <1>0, <1>1, <1>2, <1>8, SMTT(30) DEF FamilyOK, Starting
<1>18. WaitsOK'
  <2>1. ASSUME NEW q \in Pid, NEW n \in Monitor, pc'[q] = "wait", awaited'[q] = n
        PROVE  n[1] = subprocess_status_page'[q] /\ Status(n)'.pid # 0
    <3>1. pc[q] = "wait" /\ n[1] = subprocess_status_page[q] /\ Status(n).pid # 0
      BY <1>0, <1>1, <1>2, <2>1, Zenon DEF WaitsOK
    <3>2. Has(q, n)
      BY <3>1, Zenon DEF Has, Alive
    <3>3. kpage[n[1]].kind = "monitors"
      BY <1>0, <3>2, OwnPages, Zenon
    <3> QED
      BY <1>0, <1>5, <1>6, <3>1, <3>3, Zenon
  <2> QED
    BY <1>0, <1>1, <1>2, <1>8, <2>1, Zenon DEF WaitsOK
<1>19. WaitReturnsStatus'
  BY <1>0, <1>1, <1>2, ReturnsKept, Zenon DEF Gone
<1> QED
  BY <1>14, <1>15, <1>16, <1>17, <1>18, <1>19, Zenon DEF MonitorsInv, MonitorsOK

(* process_wait() reads the monitor and clears it.                         *)
LEMMA WaitReturnKeeps == ASSUME OwnershipInv, MonitorsInv, NEW p \in Pid, process_wait_return(p)
                         PROVE  MonitorsInv'
<1>a. PICK m : awaited[p] = m
  BY Zenon
<1>b. PICK i \in DOMAIN subprocess_status_list[p] :
         subprocess_status_list' = [subprocess_status_list EXCEPT ![p] = list_remove(subprocess_status_list[p], i)]
  BY Zenon DEF process_wait_return
<1>0. /\ power = "on" /\ pc[p] = "wait" /\ Goto(p, "user") /\ awaited[p] = m /\ Status(m).sema > 0
      /\ result' = [result EXCEPT ![Status(m).pid] = Status(m).exit_status]
      /\ kpage' = SetStatus(kpage, m, ZeroStatus) /\ awaited' = [awaited EXCEPT ![p] = Null]
      /\ UNCHANGED <<temp_kpage, subprocess_status_page, pstatus, successful,
                     exit_status, process_exit_lock, parent, monitorOf>>
  BY <1>a, Zenon DEF process_wait_return, At
<1>1. /\ PoolOK(kpage) /\ ContentsOK(kpage) /\ ValuesOK /\ StagesOK /\ FamilyOK /\ BirthsOK
      /\ ExecsOK /\ SlotsOK /\ WaitsOK /\ WaitReturnsStatus /\ TypesOK
  BY <1>0, Zenon DEF MonitorsInv, MonitorsOK, ValuesOK, OwnershipInv, TypesOK
<1>2. pc'[p] = "user" /\ (\A q \in Pid \ {p} : pc'[q] = pc[q])
  BY <1>0, <1>1, Zenon DEF TypesOK, Goto
<1>3. m \in Monitor /\ m[1] = subprocess_status_page[p] /\ Status(m).pid # 0
  BY <1>0, <1>1, Zenon DEF WaitsOK, ValuesOK
<1>4. Has(p, m) /\ kpage[m[1]].kind = "monitors" /\ (\A q \in Pid : Has(q, m) => q = p)
  BY <1>0, <1>3, OwnPages, SMTT(30) DEF Has, Alive
<1>5. Status(m) \in StatusRecord
  <2>1. m[1] \in Page /\ m[2] \in Slot
    BY <1>3, Zenon DEF Monitor
  <2> QED
    BY <1>1, <1>4, <2>1, Zenon DEF ContentsOK, Status
<1>6. PICK c \in Pid : Status(m).pid = c
  BY <1>3, <1>5, Zenon DEF StatusRecord
<1>7. parent[c] = p /\ monitorOf[c] = m /\ Uses(p, m, c)
  BY <1>1, <1>3, <1>4, <1>6, SMTT(30) DEF SlotsOK, SlotOK, Uses
<1>8. /\ ContentsOK(kpage') /\ Status(m)' = ZeroStatus /\ SameKinds(kpage, kpage')
      /\ \A n \in Monitor : n # m /\ kpage[n[1]].kind = "monitors" => Status(n)' = Status(n)
      /\ \A h \in Page : kpage[h].kind = "temp" => kpage'[h] = kpage[h]
  BY <1>0, <1>1, <1>3, <1>4, ZeroFields, MonitorWritten, Zenon
<1>9. \A q \in Pid : (Alive(q)' <=> Alive(q)) /\ (pc'[q] \in Gone <=> pc[q] \in Gone)
  BY <1>0, <1>2, Zenon DEF Alive, Gone
<1>10. \A d \in Pid : ~Uses(p, m, d)'
  BY <1>2, <1>8, ZeroFields, SMTT(30) DEF Uses, Pid
<1>11. ASSUME Untainted(m, p)
       PROVE  /\ pc[c] \in Gone /\ Status(m).exit_status = exit_status[c]
              /\ \A d \in Pid : pstatus[d] = m => pc[d] \in Gone
  <2>1. ReportsOK(p, m)
    BY <1>1, <1>3, <1>4, <1>11, Zenon DEF SlotsOK
  <2>2. pc[c] \in Gone /\ Status(m).exit_status = exit_status[c]
    BY <1>0, <1>7, <2>1, SMTT(30) DEF ReportsOK
  <2>3. \A d \in Pid : Uses(p, m, d) => d = c
    BY <1>1, <1>3, <1>7, UsesOne, Zenon
  <2> QED
    BY <2>1, <2>2, <2>3, Zenon DEF ReportsOK
<1>12. BirthsOK' /\ ExecsOK' /\ SlotsOK'
  <2>1. SlotOK(p, m)'
    BY <1>8, ZeroFields, SMTT(30) DEF SlotOK, Pid
  <2>2. Untainted(m, p) => ReportsOK(p, m)'
    BY <1>0, <1>9, <1>10, <1>11, Zenon DEF ReportsOK
  <2>3. \A q \in Pid : ~(InExec(q) /\ ExecMonitor(q) = m)
    <3>1. \A q \in Pid : InExec(q) /\ ExecMonitor(q) = m => Has(q, m)
      BY <1>1, <1>3, Zenon DEF ExecsOK, ExecOK, Has, InExec, Alive
    <3> QED
      BY <1>0, <1>4, <3>1, Zenon DEF InExec
  <2>4. Writes(p, "user", m, ZeroStatus)
    BY <1>0, <1>4, <2>1, <2>2, <2>3, Zenon DEF Writes
  <2> QED
    BY <1>0, <1>3, <2>4, ZeroFields, WriteKeeps, Zenon
<1>13. result'[c] = Status(m).exit_status /\ (\A d \in Pid \ {c} : result'[d] = result[d])
  BY <1>0, <1>1, <1>6, Zenon DEF ValuesOK
<1>14. /\ subprocess_status_list' \in [Pid -> Seq(Monitor)]
       /\ \A q \in Pid : \A j \in DOMAIN subprocess_status_list'[q] :
             \E h \in DOMAIN subprocess_status_list[q] : subprocess_status_list'[q][j] = subprocess_status_list[q][h]
  <2> DEFINE list == subprocess_status_list[p]
  <2>1. list \in Seq(Monitor)
    BY <1>1, Zenon DEF ValuesOK
  <2>2. /\ list_remove(list, i) \in Seq(Monitor)
        /\ \A j \in DOMAIN list_remove(list, i) : \E h \in DOMAIN list : list_remove(list, i)[j] = list[h]
    BY <1>b, <2>1, Removed, Zenon
  <2>3. /\ subprocess_status_list'[p] = list_remove(list, i)
        /\ \A q \in Pid \ {p} : subprocess_status_list'[q] = subprocess_status_list[q]
    BY <1>b, <1>1, Zenon DEF ValuesOK
  <2>4. subprocess_status_list' \in [Pid -> Seq(Monitor)]
    BY <1>b, <1>1, <2>2, Zenon DEF ValuesOK
  <2>5. ASSUME NEW q \in Pid, NEW j \in DOMAIN subprocess_status_list'[q]
        PROVE  \E h \in DOMAIN subprocess_status_list[q] : subprocess_status_list'[q][j] = subprocess_status_list[q][h]
    <3>1. CASE q = p
      BY <2>2, <2>3, <2>5, <3>1, Zenon
    <3>2. CASE q # p
      BY <2>3, <2>5, <3>2, Zenon
    <3> QED
      BY <3>1, <3>2, Zenon
  <2> QED
    BY <2>4, <2>5, Zenon
<1>15. ValuesOK'
  <2>1. Status(m).exit_status \in ExitStatus \cup {-1, 0}
    BY <1>5, Zenon DEF StatusRecord
  <2>2. result' \in [Pid -> ExitStatus \cup {-1, 0, Null}]
    BY <1>0, <1>1, <2>1, Zenon DEF ValuesOK
  <2> QED
    BY <1>0, <1>1, <1>8, <1>14, <2>2, Zenon DEF ValuesOK
<1>16. StagesOK'
  <2>1. \A q \in Pid : pc[q] = "report" => pstatus[q] \in Monitor
    BY <1>1, Zenon DEF ValuesOK, StagesOK
  <2>2. \A q \in Pid : pc[q] = "report" => kpage'[pstatus[q][1]].kind = "monitors"
    BY <1>1, <1>8, <2>1, Zenon DEF StagesOK, Monitor, SameKinds
  <2> QED
    BY <1>0, <1>1, <1>2, <2>2, SMTT(30) DEF StagesOK
<1>17. FamilyOK'
  <2>1. pc[c] # "none" /\ parent[c] # Null
    BY <1>1, <1>7, NullAssumption, Zenon DEF FamilyOK
  <2>2. FamilyOK /\ UNCHANGED <<parent, pstatus, monitorOf, subprocess_status_page>>
    BY <1>0, <1>1, Zenon
  <2>3. \A q \in Pid : /\ pc'[q] = "none" => pc[q] = "none"
                       /\ pc'[q] \in Starting \cup {"none"} => pc[q] \in Starting \cup {"none"}
                       /\ pc'[q] \in {"user", "create", "execute", "wait"}
                             => pc[q] \in {"user", "create", "execute", "wait"}
    BY <1>0, <1>2, Zenon DEF Starting
  <2> QED
    BY <1>9, <1>13, <2>1, <2>2, <2>3, FamilyKept, Zenon DEF Single, Related
<1>18. WaitsOK'
  <2>1. ASSUME NEW q \in Pid, NEW n \in Monitor, pc'[q] = "wait", awaited'[q] = n
        PROVE  n[1] = subprocess_status_page'[q] /\ Status(n)'.pid # 0
    <3>1. q # p /\ pc[q] = "wait" /\ awaited[q] = n
      BY <1>0, <1>1, <1>2, <2>1, Zenon DEF ValuesOK
    <3>2. n[1] = subprocess_status_page[q] /\ Status(n).pid # 0
      BY <1>1, <3>1, Zenon DEF WaitsOK
    <3>3. Has(q, n)
      BY <3>1, <3>2, Zenon DEF Has, Alive
    <3>4. kpage[n[1]].kind = "monitors" /\ n # m
      BY <1>0, <1>4, <3>1, <3>3, OwnPages, Zenon
    <3> QED
      BY <1>0, <1>8, <3>2, <3>4, Zenon
  <2>2. \A q \in Pid : pc'[q] = "wait" => awaited'[q] # Null
    BY <1>0, <1>1, <1>2, Zenon DEF WaitsOK, ValuesOK
  <2>3. \A q \in Pid : \A j \in DOMAIN subprocess_status_list'[q] :
                        subprocess_status_list'[q][j][1] = subprocess_status_page'[q]
    <3>1. /\ subprocess_status_page' = subprocess_status_page
          /\ \A q \in Pid : \A h \in DOMAIN subprocess_status_list[q] :
                              subprocess_status_list[q][h][1] = subprocess_status_page[q]
      BY <1>0, <1>1, Zenon DEF WaitsOK
    <3>2. ASSUME NEW q \in Pid, NEW j \in DOMAIN subprocess_status_list'[q]
          PROVE  subprocess_status_list'[q][j][1] = subprocess_status_page[q]
      <4>1. PICK h \in DOMAIN subprocess_status_list[q] : subprocess_status_list'[q][j] = subprocess_status_list[q][h]
        BY <1>14, <3>2, Zenon
      <4> QED
        BY <3>1, <4>1, Zenon
    <3> QED
      BY <3>1, <3>2, Zenon
  <2> QED
    BY <2>1, <2>2, <2>3, Zenon DEF WaitsOK
<1>19. WaitReturnsStatus'
  <2> SUFFICES ASSUME NEW d \in Pid, result'[d] # Null, NoOrphanPointsTo(d)'
               PROVE  pc'[d] \in Gone /\ result'[d] = exit_status'[d]
    BY Zenon DEF WaitReturnsStatus, Gone
  <2>1. NoOrphanPointsTo(d)
    BY <1>0, Zenon DEF NoOrphanPointsTo
  <2>2. CASE d = c
    <3>1. Untainted(m, p)
      BY <1>7, <2>1, <2>2, Zenon DEF Untainted, NoOrphanPointsTo
    <3> QED
      BY <1>0, <1>9, <1>11, <1>13, <2>2, <3>1, Zenon
  <2>3. CASE d # c
    BY <1>0, <1>1, <1>9, <1>13, <2>1, <2>3, Zenon DEF WaitReturnsStatus, Gone
  <2> QED
    BY <2>2, <2>3, Zenon
<1> QED
  BY <1>12, <1>15, <1>16, <1>17, <1>18, <1>19, Zenon DEF MonitorsInv, MonitorsOK
-----------------------------------------------------------------------------
(* thread_create() makes the child's thread.                               *)
LEMMA CreateKeeps == ASSUME OwnershipInv, MonitorsInv, NEW p \in Pid, process_execute_create(p),
                            palloc_get_page(kpage) # Null
                     PROVE  MonitorsInv'
<1>a. PICK g, m : palloc_get_page(kpage) = g /\ ExecMonitor(p) = m
  BY Zenon
<1>b. PICK c \in Pid :
        /\ pc[c] = "none" /\ kpage' = [kpage EXCEPT ![g] = [kind |-> "thread"]]
        /\ temp_kpage' = [temp_kpage EXCEPT ![c] = temp_kpage[p]]
        /\ pc' = [pc EXCEPT ![p] = "execute", ![c] = "setup"]
        /\ parent' = [parent EXCEPT ![c] = p]
        /\ monitorOf' = [monitorOf EXCEPT ![c] = m]
  BY <1>a, Zenon DEF process_execute_create, ExecMonitor
<1>0. /\ power = "on" /\ pc[p] = "create" /\ g # Null
      /\ UNCHANGED <<subprocess_status_page, subprocess_status_list, pstatus, successful,
                     awaited, exit_status, process_exit_lock, result>>
  BY <1>a, Zenon DEF process_execute_create, At, locals
<1>1. /\ PoolOK(kpage) /\ ContentsOK(kpage) /\ ValuesOK /\ StagesOK /\ FamilyOK /\ BirthsOK
      /\ ExecsOK /\ SlotsOK /\ WaitsOK /\ WaitReturnsStatus /\ TypesOK /\ NotYet
  BY <1>0, Zenon DEF MonitorsInv, MonitorsOK, ValuesOK, OwnershipInv, TypesOK
<1>2. /\ p # c /\ pc'[p] = "execute" /\ pc'[c] = "setup" /\ (\A q \in Pid \ {p, c} : pc'[q] = pc[q])
      /\ temp_kpage'[c] = temp_kpage[p] /\ (\A q \in Pid \ {c} : temp_kpage'[q] = temp_kpage[q])
      /\ parent'[c] = p /\ (\A q \in Pid \ {c} : parent'[q] = parent[q])
      /\ monitorOf'[c] = m /\ (\A q \in Pid \ {c} : monitorOf'[q] = monitorOf[q])
  BY <1>b, <1>0, <1>1, Zenon DEF TypesOK, ValuesOK
<1>3. g \in Page /\ kpage[g].kind = "free"
  BY <1>a, <1>0, <1>1, PallocTakesFree, NewPagesOK, Zenon
<1>4. InExec(p) /\ m \in Monitor
  <2>1. InExec(p)
    BY <1>0, Zenon DEF InExec
  <2>2. temp_kpage[p] \in Page /\ kpage[temp_kpage[p]].kind = "temp"
    BY <1>0, <2>1, OwnPages, Zenon
  <2> QED
    BY <1>a, <1>1, <2>1, <2>2, Zenon DEF ContentsOK, TempRecord, ExecMonitor
<1>5. ExecOK(p, m) /\ ExecSema(p) = 0
  BY <1>a, <1>0, <1>1, <1>4, SMTT(30) DEF ExecsOK, ExecOK
<1>6. parent[c] = Null /\ pstatus[c] = Null /\ result[c] = Null /\ subprocess_status_page[c] = Null
  BY <1>b, <1>1, Zenon DEF FamilyOK, NotYet
<1>7. /\ ContentsOK(kpage') /\ (\A h \in Page : kpage[h].kind \in {"monitors", "temp"} => kpage'[h] = kpage[h])
  <2>1. ContentsOK(kpage')
    BY <1>b, <1>1, <1>3, ContentsReplaced, Zenon
  <2> QED
    BY <1>b, <1>1, <1>3, <2>1, Zenon DEF PoolOK
<1>8. \A q \in Pid : /\ InExec(q)' <=> InExec(q)
                     /\ Alive(q)' <=> Alive(q) \/ q = c
                     /\ pc'[q] \in Gone <=> pc[q] \in Gone
                     /\ pc'[q] = "handoff" <=> pc[q] = "handoff"
                     /\ pc'[q] \in Starting <=> pc[q] \in Starting \/ q = c
                     /\ pc'[q] \in {"none", "setup", "load", "tell"} => pc[q] \in {"none", "setup", "load", "tell"}
                     /\ pc'[q] = "create" => pc[q] = "create"
                     /\ pc'[q] = "execute" <=> pc[q] = "execute" \/ q = p
  BY <1>b, <1>0, <1>2, ZenonT(30) DEF InExec, Alive, Gone, Starting
<1>9. \A q \in Pid, n \in Monitor : Has(q, n)' <=> Has(q, n)
  BY <1>0, <1>6, <1>8, NullAssumption, SMTT(30) DEF Has, Monitor
<1>10. ExecsAside
  <2>1. \A q \in Pid : InExec(q) => kpage'[temp_kpage'[q]] = kpage[temp_kpage[q]]
    BY <1>b, <1>0, <1>2, <1>7, OwnPages, SMTT(30) DEF InExec
  <2> QED
    BY <2>1, Zenon DEF ExecsAside, ExecSema, ExecPid, ExecMonitor
<1>11. \A q \in Pid, n \in Monitor : Has(q, n) => Status(n)' = Status(n)
  <2>1. \A q \in Pid, n \in Monitor : Has(q, n) => kpage'[n[1]] = kpage[n[1]]
    BY <1>0, <1>7, OwnPages, Zenon
  <2> QED
    BY <2>1, Zenon DEF Status
<1>12. Remembered /\ (\A q \in Pid, n \in Monitor : Untainted(n, q)' <=> Untainted(n, q))
  <2>1. \A n \in Monitor : n # Null
    BY NullAssumption, Zenon
  <2> QED
    BY <1>0, <1>2, <1>6, <2>1, NullAssumption, SMTT(30) DEF Remembered, Untainted
<1>13. ASSUME NEW q \in Pid, NEW n \in Monitor, Has(q, n)
       PROVE  Aside(q, n)
  <2>1. Status(n)' = Status(n)
    BY <1>11, <1>13, Zenon
  <2>2. CASE q = p
    <3>1. ExecSema(p) = 0 /\ ExecSema(p)' = 0
      BY <1>4, <1>5, <1>10, Zenon DEF ExecsAside
    <3>2. ~(0 > 0)
      BY SMTT(30)
    <3>3. \A d \in Pid : Uses(q, n, d)' <=> Uses(q, n, d)
      BY <2>1, <2>2, <3>1, <3>2, Zenon DEF Uses
    <3> QED
      BY <1>12, <2>1, <3>3, Zenon DEF Aside
  <2>3. CASE q # p
    BY <1>8, <1>10, <1>12, <2>1, <2>3, Zenon DEF Uses, ExecsAside, Aside, InExec
  <2> QED
    BY <2>2, <2>3, Zenon
<1>14. ValuesOK'
  BY <1>b, <1>0, <1>1, <1>4, <1>7, Zenon DEF ValuesOK
<1>15. StagesOK'
  <2>1. \A q \in Pid : pc[q] = "report" => pstatus[q] \in Monitor
    BY <1>1, Zenon DEF ValuesOK, StagesOK
  <2>2. \A q \in Pid : pc[q] = "report" => kpage'[pstatus[q][1]].kind = "monitors"
    BY <1>1, <1>7, <2>1, Zenon DEF StagesOK, Monitor
  <2> QED
    BY <1>0, <1>1, <1>2, <2>2, SMTT(30) DEF StagesOK
<1>16. FamilyOK'
  <2>1. ASSUME NEW d \in Pid
        PROVE  /\ pc'[d] = "none" => parent'[d] = Null /\ result'[d] = Null
               /\ parent'[d] = Null => pstatus'[d] = Null /\ result'[d] = Null
    BY <1>0, <1>1, <1>2, <1>6, SMTT(30) DEF FamilyOK
  <2>2. ASSUME NEW d \in Pid, NEW q \in Pid, parent'[d] = q
        PROVE  /\ monitorOf'[d] # Null /\ pstatus'[d] \in {Null, monitorOf'[d]}
               /\ pc'[q] \notin Starting \cup {"none"}
               /\ Alive(q)' => monitorOf'[d][1] = subprocess_status_page'[q]
               /\ pc'[d] \in {"user", "create", "execute", "wait"} => pstatus'[d] = monitorOf'[d]
    <3>1. CASE d = c
      <4>1. q = p /\ monitorOf'[d] = m /\ pstatus'[d] = Null /\ m # Null
        BY <1>0, <1>2, <1>4, <1>6, <2>2, <3>1, NullAssumption, Zenon
      <4>2. pc'[q] = "execute" /\ pc'[d] = "setup" /\ m[1] = subprocess_status_page'[q]
        BY <1>0, <1>2, <1>5, <3>1, <4>1, Zenon DEF ExecOK
      <4> QED
        BY <4>1, <4>2, Zenon DEF Starting
    <3>2. CASE d # c
      <4>1. parent[d] = q /\ q # c /\ monitorOf'[d] = monitorOf[d] /\ pstatus'[d] = pstatus[d]
        <5>1. FamilyOK /\ pstatus' = pstatus /\ pc[c] = "none"
          BY <1>b, <1>0, <1>1, Zenon
        <5>2. parent[d] = q /\ monitorOf'[d] = monitorOf[d]
          BY <1>2, <2>2, <3>2, Zenon
        <5> QED
          BY <5>1, <5>2, Zenon DEF FamilyOK
      <4>2. pc'[d] \in {"user", "create", "execute", "wait"} => pc[d] \in {"user", "create", "execute", "wait"}
        BY <1>0, <1>2, <3>2, Zenon
      <4>3. /\ monitorOf[d] # Null /\ pstatus[d] \in {Null, monitorOf[d]}
            /\ pc[q] \notin Starting \cup {"none"}
            /\ Alive(q) => monitorOf[d][1] = subprocess_status_page[q]
            /\ pc[d] \in {"user", "create", "execute", "wait"} => pstatus[d] = monitorOf[d]
        BY <1>1, <4>1, Zenon DEF FamilyOK
      <4>4. pc'[q] \notin Starting \cup {"none"} /\ (Alive(q)' => Alive(q))
        BY <1>2, <1>8, <4>1, <4>3, Zenon
      <4>5. subprocess_status_page' = subprocess_status_page
        BY <1>0, Zenon
      <4> QED
        BY <4>1, <4>2, <4>3, <4>4, <4>5, Zenon
    <3> QED
      BY <3>1, <3>2, Zenon
  <2> QED
    BY <2>1, <2>2, Zenon DEF FamilyOK
<1>17. BirthsOK'
  <2>1. \A d \in Pid \ {c} : pc[d] \in Starting => parent[d] # p
    BY <1>0, <1>1, ZenonT(30) DEF BirthsOK
  <2>2. ASSUME NEW d \in Pid, pc'[d] \in Starting
        PROVE  parent'[d] # Null /\ pstatus'[d] = Null
    <3>1. BirthsOK /\ pstatus' = pstatus /\ p # Null
      BY <1>0, <1>1, NullAssumption, Zenon
    <3>2. CASE d = c
      BY <1>2, <1>6, <3>1, <3>2, Zenon
    <3>3. CASE d # c
      <4>1. pc[d] \in Starting /\ parent'[d] = parent[d]
        BY <1>2, <1>8, <2>2, <3>3, Zenon
      <4> QED
        BY <3>1, <4>1, Zenon DEF BirthsOK
    <3> QED
      BY <3>2, <3>3, Zenon
  <2>3. ASSUME NEW d \in Pid, NEW q \in Pid, pc'[d] \in Starting, parent'[d] = q
        PROVE  /\ pc'[q] = "execute" /\ temp_kpage'[d] = temp_kpage'[q] /\ ExecMonitor(q)' = monitorOf'[d]
               /\ pc'[d] # "handoff" => ExecSema(q)' = 0
               /\ pc'[d] = "handoff" => ExecSema(q)' > 0 /\ ExecPid(q)' = d
    <3>1. CASE d = c
      BY <1>a, <1>2, <1>4, <1>5, <1>10, <2>3, <3>1, Zenon DEF ExecsAside
    <3>2. CASE d # c
      <4>1. pc[d] \in Starting /\ parent[d] = q /\ (pc'[d] = "handoff" <=> pc[d] = "handoff")
        BY <1>2, <1>8, <2>3, <3>2, Zenon
      <4>2. pc[q] = "execute" /\ temp_kpage[d] = temp_kpage[q] /\ ExecMonitor(q) = monitorOf[d] /\ q # c
        BY <1>b, <1>1, <4>1, Zenon DEF BirthsOK
      <4>3. ExecSema(q)' = ExecSema(q) /\ ExecPid(q)' = ExecPid(q) /\ ExecMonitor(q)' = ExecMonitor(q)
        BY <1>10, <4>2, Zenon DEF ExecsAside, InExec
      <4> QED
        BY <1>1, <1>2, <1>8, <3>2, <4>1, <4>2, <4>3, SMTT(30) DEF BirthsOK
    <3> QED
      BY <3>1, <3>2, Zenon
  <2>4. ASSUME NEW d \in Pid, NEW e \in Pid, pc'[d] \in Starting, pc'[e] \in Starting, parent'[d] = parent'[e]
        PROVE  d = e
    BY <1>1, <1>2, <1>8, <2>1, <2>4, SMTT(30) DEF BirthsOK
  <2> QED
    BY <2>2, <2>3, <2>4, Zenon DEF BirthsOK
<1>18. ExecsOK'
  <2> SUFFICES ASSUME NEW q \in Pid, NEW n \in Monitor, InExec(q)', ExecMonitor(q)' = n
               PROVE  ExecOK(q, n)'
    BY Zenon DEF ExecsOK
  <2>1. /\ InExec(q) /\ ExecMonitor(q) = n /\ ExecSema(q)' = ExecSema(q) /\ ExecPid(q)' = ExecPid(q)
        /\ subprocess_status_page'[q] = subprocess_status_page[q]
    BY <1>0, <1>8, <1>10, Zenon DEF ExecsAside
  <2>2. Has(q, n)
    BY <1>1, <2>1, Zenon DEF ExecsOK, ExecOK, Has, InExec, Alive
  <2> QED
    BY <1>1, <1>8, <1>12, <1>13, <2>1, <2>2, ExecKept, Zenon
<1>19. SlotsOK'
  <2> SUFFICES ASSUME NEW q \in Pid, NEW n \in Monitor, Has(q, n)
               PROVE  SlotOK(q, n)' /\ (Untainted(n, q)' => ReportsOK(q, n)')
    BY <1>9, Zenon DEF SlotsOK
  <2>1. /\ \A d \in Pid : pstatus'[d] = n <=> pstatus[d] = n
        /\ \A d \in Pid : pstatus[d] = n => (pc'[d] \in Gone <=> pc[d] \in Gone) /\ exit_status'[d] = exit_status[d]
    BY <1>0, <1>8, Zenon
  <2> QED
    BY <1>1, <1>12, <1>13, <2>1, SlotKept, Zenon
<1>20. WaitsOK'
  <2>a. WaitsOK /\ UNCHANGED <<subprocess_status_list, subprocess_status_page, awaited>>
    BY <1>0, <1>1, Zenon
  <2>b. \A q \in Pid : pc'[q] = "wait" => pc[q] = "wait"
    BY <1>2, Zenon
  <2>1. ASSUME NEW q \in Pid, NEW n \in Monitor, pc'[q] = "wait", awaited'[q] = n
        PROVE  n[1] = subprocess_status_page'[q] /\ Status(n)'.pid # 0
    <3>1. pc[q] = "wait" /\ n[1] = subprocess_status_page[q] /\ Status(n).pid # 0
      BY <2>a, <2>b, <2>1, Zenon DEF WaitsOK
    <3>2. Has(q, n)
      BY <3>1, Zenon DEF Has, Alive
    <3> QED
      BY <1>0, <1>11, <3>1, <3>2, Zenon
  <2> QED
    BY <2>a, <2>b, <2>1, Zenon DEF WaitsOK
<1>21. WaitReturnsStatus'
  <2> SUFFICES ASSUME NEW d \in Pid, result'[d] # Null, NoOrphanPointsTo(d)'
               PROVE  pc'[d] \in Gone /\ result'[d] = exit_status'[d]
    BY Zenon DEF WaitReturnsStatus, Gone
  <2>1. d # c /\ monitorOf'[d] = monitorOf[d] /\ monitorOf[d] \in Monitor
    BY <1>0, <1>1, <1>2, <1>6, SMTT(30) DEF ValuesOK, FamilyOK
  <2>2. NoOrphanPointsTo(d)
    <3>1. /\ pstatus' = pstatus /\ pstatus[c] = Null /\ monitorOf[d] # Null
          /\ \A q \in Pid \ {c} : parent'[q] = parent[q]
      BY <1>0, <1>2, <1>6, <2>1, NullAssumption, Zenon
    <3> QED
      BY <2>1, <3>1, SMTT(30) DEF NoOrphanPointsTo
  <2> QED
    BY <1>0, <1>1, <1>8, <2>2, Zenon DEF WaitReturnsStatus, Gone
<1> QED
  BY <1>14, <1>15, <1>16, <1>17, <1>18, <1>19, <1>20, <1>21, Zenon DEF MonitorsInv, MonitorsOK

(* setup_subprocess_list() takes the page of monitors.                     *)
LEMMA SetupKeeps == ASSUME OwnershipInv, MonitorsInv, NEW c \in Pid, setup_subprocess_list(c),
                           palloc_get_page(kpage) # Null
                    PROVE  MonitorsInv'
<1>a. PICK g : palloc_get_page(kpage) = g
  BY Zenon
<1>0. /\ power = "on" /\ pc[c] = "setup" /\ Goto(c, "load") /\ g # Null
      /\ kpage' = [kpage EXCEPT ![g] = MonitorsPage]
      /\ subprocess_status_page' = [subprocess_status_page EXCEPT ![c] = g]
      /\ UNCHANGED <<temp_kpage, subprocess_status_list, pstatus, successful,
                     awaited, exit_status, process_exit_lock, parent, monitorOf, result>>
  BY <1>a, Zenon DEF setup_subprocess_list, At, history
<1>1. /\ PoolOK(kpage) /\ ContentsOK(kpage) /\ ValuesOK /\ StagesOK /\ FamilyOK /\ BirthsOK
      /\ ExecsOK /\ SlotsOK /\ WaitsOK /\ WaitReturnsStatus /\ TypesOK /\ NotYet
  BY <1>0, Zenon DEF MonitorsInv, MonitorsOK, ValuesOK, OwnershipInv, TypesOK
<1>2. /\ pc'[c] = "load" /\ (\A q \in Pid \ {c} : pc'[q] = pc[q])
      /\ subprocess_status_page'[c] = g /\ subprocess_status_page[c] = Null
      /\ \A q \in Pid \ {c} : subprocess_status_page'[q] = subprocess_status_page[q]
  BY <1>0, <1>1, Zenon DEF TypesOK, Goto, NotYet
<1>3. g \in Page /\ kpage[g].kind = "free"
  BY <1>a, <1>0, <1>1, PallocTakesFree, NewPagesOK, Zenon
<1>4. /\ ContentsOK(kpage') /\ (\A h \in Page : kpage[h].kind \in {"monitors", "temp"} => kpage'[h] = kpage[h])
      /\ \A i \in Slot : kpage'[g].status[i] = ZeroStatus
  <2>1. /\ MonitorsPage.kind = "monitors" /\ "status" \in DOMAIN MonitorsPage
        /\ MonitorsPage.status = [i \in Slot |-> ZeroStatus]
    BY Zenon DEF MonitorsPage
  <2>2. ContentsOK(kpage')
    BY <1>0, <1>1, <1>3, <2>1, ZeroFields, ContentsReplaced, Zenon
  <2>3. kpage'[g] = MonitorsPage /\ \A h \in Page \ {g} : kpage'[h] = kpage[h]
    BY <1>0, <1>1, <1>3, Zenon DEF PoolOK
  <2> QED
    BY <1>3, <2>1, <2>2, <2>3, Zenon
<1>5. \A q \in Pid : /\ InExec(q)' <=> InExec(q)
                     /\ Alive(q)' <=> Alive(q)
                     /\ pc'[q] \in Gone <=> pc[q] \in Gone
                     /\ pc'[q] = "handoff" <=> pc[q] = "handoff"
                     /\ pc'[q] \in Starting <=> pc[q] \in Starting
                     /\ pc'[q] \in {"none", "setup", "load", "tell"} => pc[q] \in {"none", "setup", "load", "tell"}
                     /\ pc'[q] = "create" => pc[q] = "create"
                     /\ pc'[q] = "execute" <=> pc[q] = "execute"
  BY <1>0, <1>2, Zenon DEF InExec, Alive, Gone, Starting
<1>6. \A d \in Pid : parent[d] # c
  BY <1>0, <1>1, Zenon DEF FamilyOK, Starting
<1>7. \A n \in Monitor : ~Has(c, n)
  BY <1>2, NullAssumption, Zenon DEF Has, Monitor
<1>8. \A q \in Pid \ {c}, n \in Monitor : Has(q, n)' <=> Has(q, n)
  BY <1>2, <1>5, Zenon DEF Has
<1>9. ExecsAside
  BY <1>0, <1>4, ExecsUntouched, Zenon
<1>10. \A q \in Pid, n \in Monitor : Has(q, n) => Status(n)' = Status(n)
  <2>1. \A q \in Pid, n \in Monitor : Has(q, n) => kpage'[n[1]] = kpage[n[1]]
    BY <1>0, <1>4, OwnPages, Zenon
  <2> QED
    BY <2>1, Zenon DEF Status
<1>11. Remembered /\ (\A q \in Pid, n \in Monitor : Untainted(n, q)' <=> Untainted(n, q))
  BY <1>0, Zenon DEF Remembered, Untainted
<1>12. ASSUME NEW q \in Pid, NEW n \in Monitor, Has(q, n)
       PROVE  Aside(q, n)
  <2>1. Status(n)' = Status(n)
    BY <1>10, <1>12, Zenon
  <2> QED
    BY <1>5, <1>9, <1>11, <2>1, Zenon DEF Uses, ExecsAside, Aside, InExec
<1>13. ValuesOK'
  BY <1>0, <1>1, <1>4, Zenon DEF ValuesOK
<1>14. StagesOK'
  <2>1. \A q \in Pid : pc[q] = "report" => pstatus[q] \in Monitor
    BY <1>1, Zenon DEF ValuesOK, StagesOK
  <2>2. \A q \in Pid : pc[q] = "report" => kpage'[pstatus[q][1]].kind = "monitors"
    BY <1>1, <1>4, <2>1, ZenonT(30) DEF StagesOK, Monitor
  <2> QED
    BY <1>0, <1>1, <1>2, <2>2, SMTT(30) DEF StagesOK
<1>15. FamilyOK'
  <2>1. \A q \in Pid : /\ pc'[q] = "none" <=> pc[q] = "none"
                       /\ pc'[q] \in {"user", "create", "execute", "wait"} => pc[q] \in {"user", "create", "execute", "wait"}
    BY <1>0, <1>2, ZenonT(30)
  <2>2. FamilyOK /\ UNCHANGED <<parent, result, pstatus, monitorOf>>
    BY <1>0, <1>1, Zenon
  <2>3. \A q \in Pid : q # c => subprocess_status_page'[q] = subprocess_status_page[q]
    BY <1>2, Zenon
  <2>4. \A q \in Pid : pc'[q] \in Starting \cup {"none"} => pc[q] \in Starting \cup {"none"}
    BY <1>5, <2>1, Zenon
  <2> QED
    BY <1>5, <1>6, <2>1, <2>2, <2>3, <2>4, FamilyKept, Zenon DEF Single, Related
<1>16. BirthsOK'
  <2>1. BirthsOK /\ UNCHANGED <<parent, pstatus, temp_kpage, monitorOf>>
    BY <1>0, <1>1, Zenon
  <2>2. ASSUME NEW d \in Pid, NEW q \in Pid, pc'[d] \in Starting, parent'[d] = q
        PROVE  /\ pc'[q] = "execute" /\ temp_kpage'[d] = temp_kpage'[q] /\ ExecMonitor(q)' = monitorOf'[d]
               /\ pc'[d] # "handoff" => ExecSema(q)' = 0
               /\ pc'[d] = "handoff" => ExecSema(q)' > 0 /\ ExecPid(q)' = d
    <3>1. pc[d] \in Starting /\ parent[d] = q /\ (pc'[d] = "handoff" <=> pc[d] = "handoff")
      BY <1>5, <2>1, <2>2, Zenon
    <3>2. /\ pc[q] = "execute" /\ temp_kpage[d] = temp_kpage[q] /\ ExecMonitor(q) = monitorOf[d]
          /\ pc[d] # "handoff" => ExecSema(q) = 0
          /\ pc[d] = "handoff" => ExecSema(q) > 0 /\ ExecPid(q) = d
      BY <2>1, <3>1, Zenon DEF BirthsOK
    <3>3. InExec(q) /\ pc'[q] = "execute"
      BY <1>5, <3>2, Zenon DEF InExec
    <3> QED
      BY <1>9, <2>1, <3>1, <3>2, <3>3, Zenon DEF ExecsAside
  <2>3. \A d \in Pid : pc'[d] \in Starting => parent'[d] # Null /\ pstatus'[d] = Null
    BY <1>5, <2>1, Zenon DEF BirthsOK
  <2>4. \A d, e \in Pid : pc'[d] \in Starting /\ pc'[e] \in Starting /\ parent'[d] = parent'[e] => d = e
    BY <1>5, <2>1, Zenon DEF BirthsOK
  <2> QED
    BY <2>2, <2>3, <2>4, Zenon DEF BirthsOK
<1>17. ExecsOK'
  <2> SUFFICES ASSUME NEW q \in Pid, NEW n \in Monitor, InExec(q)', ExecMonitor(q)' = n
               PROVE  ExecOK(q, n)'
    BY Zenon DEF ExecsOK
  <2>1. InExec(q) /\ ExecMonitor(q) = n /\ ExecSema(q)' = ExecSema(q) /\ ExecPid(q)' = ExecPid(q)
    BY <1>5, <1>9, Zenon DEF ExecsAside
  <2>2. Has(q, n) /\ subprocess_status_page'[q] = subprocess_status_page[q]
    <3>1. ExecOK(q, n)
      BY <1>1, <2>1, Zenon DEF ExecsOK
    <3>2. q # c
      BY <1>0, <2>1, Zenon DEF InExec
    <3> QED
      BY <1>2, <2>1, <3>1, <3>2, Zenon DEF ExecOK, Has, InExec, Alive
  <2> QED
    BY <1>1, <1>5, <1>11, <1>12, <2>1, <2>2, ExecKept, Zenon
<1>18. SlotsOK'
  <2> SUFFICES ASSUME NEW q \in Pid, NEW n \in Monitor, Has(q, n)'
               PROVE  SlotOK(q, n)' /\ (Untainted(n, q)' => ReportsOK(q, n)')
    BY Zenon DEF SlotsOK
  <2>1. CASE q = c
    <3>1. n[1] = g /\ n[2] \in Slot
      BY <1>2, <2>1, Zenon DEF Has, Monitor
    <3>2. Status(n)' = ZeroStatus
      BY <1>4, <3>1, Zenon DEF Status
    <3>3. SlotOK(q, n)'
      BY <3>2, ZeroFields, SMTT(30) DEF SlotOK, Pid
    <3>4. \A d \in Pid : ~Uses(q, n, d)'
      BY <1>2, <2>1, <3>2, ZeroFields, SMTT(30) DEF Uses, Pid
    <3>5. Untainted(n, q)' => \A d \in Pid : pstatus'[d] # n
      BY <1>0, <1>6, <2>1, Zenon DEF Untainted
    <3> QED
      BY <3>3, <3>4, <3>5, Zenon DEF ReportsOK
  <2>2. CASE q # c
    <3>1. Has(q, n)
      BY <1>8, <2>2, Zenon
    <3>2. /\ \A d \in Pid : pstatus'[d] = n <=> pstatus[d] = n
          /\ \A d \in Pid : pstatus[d] = n => (pc'[d] \in Gone <=> pc[d] \in Gone) /\ exit_status'[d] = exit_status[d]
      BY <1>0, <1>5, Zenon
    <3> QED
      BY <1>1, <1>11, <1>12, <3>1, <3>2, SlotKept, Zenon
  <2> QED
    BY <2>1, <2>2, Zenon
<1>19. WaitsOK'
  <2>a. WaitsOK /\ UNCHANGED <<subprocess_status_list, awaited>>
    BY <1>0, <1>1, Zenon
  <2>b. \A q \in Pid : pc'[q] = "wait" => pc[q] = "wait" /\ q # c
    BY <1>2, Zenon
  <2>1. ASSUME NEW q \in Pid, NEW n \in Monitor, pc'[q] = "wait", awaited'[q] = n
        PROVE  n[1] = subprocess_status_page'[q] /\ Status(n)'.pid # 0
    <3>1. q # c /\ pc[q] = "wait" /\ n[1] = subprocess_status_page[q] /\ Status(n).pid # 0
      BY <2>a, <2>b, <2>1, Zenon DEF WaitsOK
    <3>2. Has(q, n)
      BY <3>1, Zenon DEF Has, Alive
    <3> QED
      BY <1>2, <1>10, <3>1, <3>2, Zenon
  <2>2. \A i \in DOMAIN subprocess_status_list[c] : FALSE
    <3>1. \A i \in DOMAIN subprocess_status_list[c] : subprocess_status_list[c][i] \in Monitor
      BY <1>1, SMTT(30) DEF ValuesOK
    <3>2. \A i \in DOMAIN subprocess_status_list[c] : subprocess_status_list[c][i][1] = Null
      BY <1>1, <1>2, Zenon DEF WaitsOK
    <3> QED
      BY <3>1, <3>2, NullAssumption, Zenon DEF Monitor
  <2> QED
    BY <1>2, <2>a, <2>b, <2>1, <2>2, Zenon DEF WaitsOK
<1>20. WaitReturnsStatus'
  BY <1>0, <1>1, <1>5, ReturnsKept, Zenon
<1> QED
  BY <1>13, <1>14, <1>15, <1>16, <1>17, <1>18, <1>19, <1>20, Zenon DEF MonitorsInv, MonitorsOK

(* What start_process() tells, on the temporary page.                      *)
LEMMA ToldFields ==
    ASSUME NEW r \in TempRecord, NEW x \in Pid \cup {PID_ERROR}
    PROVE  LET n == [[r EXCEPT !.pid = x] EXCEPT !.sema = @ + 1]
           IN /\ n \in TempRecord /\ n.kind = "temp" /\ n.pid = x /\ n.sema > 0
              /\ n.pstatus = r.pstatus
<1> DEFINE s == [r EXCEPT !.pid = x]
           n == [s EXCEPT !.sema = @ + 1]
<1>1. s \in TempRecord /\ s.pid = x /\ s.pstatus = r.pstatus
  BY Zenon DEF TempRecord
<1> HIDE DEF s
<1>2. s.sema + 1 \in Nat /\ s.sema + 1 > 0
  BY <1>1, SMTT(30) DEF TempRecord
<1>3. ASSUME NEW v \in Nat
      PROVE  LET u == [s EXCEPT !.sema = v]
             IN u \in TempRecord /\ u.kind = "temp" /\ u.pid = s.pid /\ u.sema = v /\ u.pstatus = s.pstatus
  BY <1>1, Zenon DEF TempRecord
<1>4. n = [s EXCEPT !.sema = s.sema + 1]
  BY <1>1, Zenon DEF TempRecord
<1>5. /\ n \in TempRecord /\ n.kind = "temp" /\ n.pid = s.pid /\ n.sema = s.sema + 1
      /\ n.pstatus = s.pstatus
  BY <1>2, <1>3, <1>4, Zenon
<1> QED
  BY <1>1, <1>2, <1>5, Zenon DEF s

(* start_process() tells its outcome.                                      *)
LEMMA TellKeeps == ASSUME OwnershipInv, MonitorsInv, NEW c \in Pid, start_process(c)
                   PROVE  MonitorsInv'
<1>a. PICK t, x, w, p : /\ t = temp_kpage[c] /\ x = (IF successful[c] THEN c ELSE PID_ERROR)
                       /\ w = (IF successful[c] THEN "handoff" ELSE "exit") /\ p = parent[c]
  BY Zenon
<1>0. /\ power = "on" /\ pc[c] = "tell" /\ Goto(c, w)
      /\ kpage' = [kpage EXCEPT ![t].pid = x, ![t].sema = @ + 1]
      /\ pstatus' = [pstatus EXCEPT ![c] = Null] /\ exit_status' = [exit_status EXCEPT ![c] = -1]
      /\ UNCHANGED <<temp_kpage, subprocess_status_page, subprocess_status_list, successful,
                     awaited, process_exit_lock, parent, monitorOf, result>>
  BY <1>a, Zenon DEF start_process, At, history
<1>1. /\ PoolOK(kpage) /\ ContentsOK(kpage) /\ ValuesOK /\ StagesOK /\ FamilyOK /\ BirthsOK
      /\ ExecsOK /\ SlotsOK /\ WaitsOK /\ WaitReturnsStatus /\ TypesOK
  BY <1>0, Zenon DEF MonitorsInv, MonitorsOK, ValuesOK, OwnershipInv, TypesOK
<1>2. /\ pc'[c] = w /\ (\A q \in Pid \ {c} : pc'[q] = pc[q]) /\ w \in {"handoff", "exit"}
      /\ w = "handoff" <=> successful[c]
      /\ x \in Pid => x = c /\ w = "handoff"
      /\ w = "handoff" => x = c
      /\ x \in Pid \cup {PID_ERROR}
  <2>1. pc'[c] = w /\ (\A q \in Pid \ {c} : pc'[q] = pc[q])
    BY <1>0, <1>1, Zenon DEF TypesOK, Goto
  <2>2. PID_ERROR \notin Pid
    BY SMTT(30) DEF PID_ERROR, Pid
  <2> QED
    BY <1>a, <2>1, <2>2, Zenon
<1>3. /\ p \in Pid /\ parent[c] = p /\ pc[p] = "execute" /\ temp_kpage[p] = t /\ ExecMonitor(p) = monitorOf[c]
      /\ ExecSema(p) = 0 /\ pstatus[c] = Null /\ monitorOf[c] \in Monitor /\ p # c
      /\ \A d \in Pid : pc[d] \in Starting /\ parent[d] = p => d = c
  <2>1. pc[c] \in Starting /\ pc[c] # "handoff"
    BY <1>0, Zenon DEF Starting
  <2>2. p \in Pid /\ parent[c] = p /\ pstatus[c] = Null
    BY <1>a, <1>1, <2>1, SMTT(30) DEF BirthsOK, ValuesOK
  <2>3. monitorOf[c] \in Monitor
    BY <1>1, <2>2, SMTT(30) DEF FamilyOK, ValuesOK
  <2> QED
    BY <1>a, <1>0, <1>1, <2>1, <2>2, <2>3, SMTT(30) DEF BirthsOK
<1>4. t \in Page /\ kpage[t].kind = "temp" /\ kpage[t] \in TempRecord /\ InExec(p)
      /\ \A q \in Pid : InExec(q) /\ temp_kpage[q] = t => q = p
  <2>1. InExec(p)
    BY <1>3, Zenon DEF InExec
  <2>2. t \in Page /\ kpage[t].kind = "temp" /\ \A q \in Pid : InExec(q) /\ temp_kpage[q] = t => q = p
    BY <1>0, <1>3, <2>1, OwnPages, Zenon
  <2> QED
    BY <1>1, <2>1, <2>2, Zenon DEF ContentsOK
<1>5. /\ kpage'[t] \in TempRecord /\ kpage'[t].kind = "temp" /\ kpage'[t].pid = x /\ kpage'[t].sema > 0
      /\ kpage'[t].pstatus = kpage[t].pstatus /\ \A h \in Page \ {t} : kpage'[h] = kpage[h]
  <2>1. /\ kpage'[t] = [[kpage[t] EXCEPT !.pid = x] EXCEPT !.sema = @ + 1]
        /\ \A h \in Page \ {t} : kpage'[h] = kpage[h]
    BY <1>0, <1>1, <1>4, Zenon DEF PoolOK
  <2> DEFINE n == [[kpage[t] EXCEPT !.pid = x] EXCEPT !.sema = @ + 1]
  <2>2. n \in TempRecord /\ n.kind = "temp" /\ n.pid = x /\ n.sema > 0 /\ n.pstatus = kpage[t].pstatus
    BY <1>2, <1>4, ToldFields, Zenon
  <2> HIDE DEF n
  <2>3. kpage'[t] = n
    BY <2>1, Zenon DEF n
  <2> QED
    BY <2>1, <2>2, <2>3, Zenon
<1>6. ContentsOK(kpage') /\ \A h \in Page : kpage[h].kind = "monitors" => kpage'[h] = kpage[h]
  BY <1>1, <1>4, <1>5, Zenon DEF ContentsOK
<1>7. ExecSema(p)' > 0 /\ ExecPid(p)' = x /\ ExecMonitor(p)' = ExecMonitor(p)
  BY <1>0, <1>3, <1>5, Zenon DEF ExecSema, ExecPid, ExecMonitor
<1>8. \A q \in Pid \ {p} : InExec(q) => /\ ExecSema(q)' = ExecSema(q) /\ ExecPid(q)' = ExecPid(q)
                                        /\ ExecMonitor(q)' = ExecMonitor(q)
  <2>1. \A q \in Pid \ {p} : InExec(q) => kpage'[temp_kpage'[q]] = kpage[temp_kpage[q]]
    BY <1>0, <1>4, <1>5, OwnPages, ZenonT(30)
  <2> QED
    BY <2>1, Zenon DEF ExecSema, ExecPid, ExecMonitor
<1>9. \A q \in Pid : /\ InExec(q)' <=> InExec(q)
                     /\ Alive(q)' <=> Alive(q)
                     /\ pc'[q] \in Gone <=> pc[q] \in Gone
                     /\ pc'[q] \in Starting => pc[q] \in Starting
                     /\ pc'[q] \in {"none", "setup", "load", "tell"} => pc[q] \in {"none", "setup", "load", "tell"}
                     /\ pc'[q] = "create" <=> pc[q] = "create"
                     /\ pc'[q] = "execute" <=> pc[q] = "execute"
                     /\ pc'[q] = "wait" <=> pc[q] = "wait"
  BY <1>0, <1>2, Zenon DEF InExec, Alive, Gone, Starting
<1>10. \A q \in Pid, n \in Monitor : Has(q, n)' <=> Has(q, n)
  BY <1>0, <1>9, Zenon DEF Has
<1>11. \A q \in Pid, n \in Monitor : Has(q, n) => Status(n)' = Status(n)
  <2>1. \A q \in Pid, n \in Monitor : Has(q, n) => kpage'[n[1]] = kpage[n[1]]
    BY <1>0, <1>6, OwnPages, Zenon
  <2> QED
    BY <2>1, Zenon DEF Status
<1>12. pstatus' = pstatus
  BY <1>0, <1>1, <1>3, Zenon DEF ValuesOK
<1>13. Remembered /\ (\A q \in Pid, n \in Monitor : Untainted(n, q)' <=> Untainted(n, q))
  BY <1>0, <1>12, Zenon DEF Remembered, Untainted
<1>14. ASSUME NEW q \in Pid, NEW n \in Monitor, Has(q, n)
       PROVE  Aside(q, n)
  <2>1. Status(n)' = Status(n)
    BY <1>11, <1>14, Zenon
  <2>2. CASE q = p
    <3>1. ASSUME NEW d \in Pid
          PROVE  ~(ExecSema(p) > 0) /\ (ExecPid(p)' = d => pc'[d] = "handoff")
      BY <1>2, <1>3, <1>7, SMTT(30)
    <3> QED
      BY <1>13, <2>1, <2>2, <3>1, Zenon DEF Aside, Uses
  <2>3. CASE q # p
    <3>1. ASSUME NEW d \in Pid, InExec(q), ExecSema(q) > 0, ExecPid(q) = d, ExecMonitor(q) = n
          PROVE  d # c
      BY <1>1, <1>3, <2>3, <3>1, SMTT(30) DEF ExecsOK, ExecOK
    <3>2. \A d \in Pid : Uses(q, n, d)' <=> Uses(q, n, d)
      BY <1>2, <1>8, <1>9, <2>1, <2>3, <3>1, Zenon DEF Uses, InExec
    <3> QED
      BY <1>13, <2>1, <3>2, Zenon DEF Aside
  <2> QED
    BY <2>2, <2>3, Zenon
<1>15. ValuesOK'
  BY <1>0, <1>1, <1>6, <1>12, Zenon DEF ValuesOK
<1>16. StagesOK'
  <2>1. \A q \in Pid : pc[q] = "report" => pstatus[q] \in Monitor
    BY <1>1, Zenon DEF ValuesOK, StagesOK
  <2>2. \A q \in Pid : pc[q] = "report" => kpage'[pstatus[q][1]].kind = "monitors"
    BY <1>1, <1>6, <2>1, Zenon DEF StagesOK, Monitor
  <2> QED
    BY <1>0, <1>1, <1>2, <1>12, <2>2, ZenonT(30) DEF StagesOK
<1>17. FamilyOK'
  <2>1. \A q \in Pid : /\ pc'[q] = "none" <=> pc[q] = "none"
                       /\ pc'[q] \in {"user", "create", "execute", "wait"} => pc[q] \in {"user", "create", "execute", "wait"}
    BY <1>0, <1>2, Zenon
  <2> QED
    BY <1>0, <1>1, <1>9, <1>12, <2>1, SMTT(30) DEF FamilyOK
<1>18. BirthsOK'
  <2>1. ASSUME NEW d \in Pid, NEW q \in Pid, pc'[d] \in Starting, parent'[d] = q
        PROVE  /\ pc'[q] = "execute" /\ temp_kpage'[d] = temp_kpage'[q] /\ ExecMonitor(q)' = monitorOf'[d]
               /\ pc'[d] # "handoff" => ExecSema(q)' = 0
               /\ pc'[d] = "handoff" => ExecSema(q)' > 0 /\ ExecPid(q)' = d
    <3>1. pc[d] \in Starting /\ parent[d] = q
      BY <1>0, <1>9, <2>1, Zenon
    <3>2. CASE d = c
      <4>1. q = p /\ pc'[d] = "handoff"
        BY <1>2, <1>3, <2>1, <3>1, <3>2, Zenon DEF Starting
      <4> QED
        BY <1>a, <1>0, <1>2, <1>3, <1>7, <1>9, <3>2, <4>1, Zenon
    <3>3. CASE d # c
      <4>1. q # p /\ pc'[d] = pc[d]
        BY <1>2, <1>3, <3>1, <3>3, Zenon
      <4>2. pc[q] = "execute" /\ InExec(q)
        BY <1>1, <3>1, Zenon DEF BirthsOK, InExec
      <4>3. ExecSema(q)' = ExecSema(q) /\ ExecPid(q)' = ExecPid(q) /\ ExecMonitor(q)' = ExecMonitor(q)
        BY <1>8, <4>1, <4>2, Zenon
      <4> QED
        BY <1>0, <1>1, <1>9, <3>1, <4>1, <4>2, <4>3, SMTT(30) DEF BirthsOK
    <3> QED
      BY <3>2, <3>3, Zenon
  <2>2. \A d \in Pid : pc'[d] \in Starting => parent'[d] # Null /\ pstatus'[d] = Null
    BY <1>0, <1>1, <1>9, <1>12, Zenon DEF BirthsOK
  <2>3. \A d, e \in Pid : pc'[d] \in Starting /\ pc'[e] \in Starting /\ parent'[d] = parent'[e] => d = e
    BY <1>0, <1>1, <1>9, Zenon DEF BirthsOK
  <2> QED
    BY <2>1, <2>2, <2>3, Zenon DEF BirthsOK
<1>19. ExecsOK'
  <2> SUFFICES ASSUME NEW q \in Pid, NEW n \in Monitor, InExec(q)', ExecMonitor(q)' = n
               PROVE  ExecOK(q, n)'
    BY Zenon DEF ExecsOK
  <2>1. InExec(q) /\ ExecMonitor(q) = n
    BY <1>7, <1>8, <1>9, Zenon
  <2>2. Has(q, n) /\ ExecOK(q, n)
    BY <1>1, <2>1, SMTT(30) DEF ExecsOK, ExecOK, Has, InExec, Alive
  <2>3. Aside(q, n)
    BY <1>14, <2>2, Zenon
  <2>4. CASE q = p
    <3>1. n[1] = subprocess_status_page'[q] /\ Status(n)'.in_use /\ Status(n)'.pid = 0
      BY <1>0, <2>2, <2>3, Zenon DEF ExecOK, Aside
    <3>2. pc'[q] # "create"
      BY <1>3, <1>9, <2>4, Zenon
    <3>3. \A d \in Pid : ExecPid(q)' = d =>
             parent'[d] = q /\ monitorOf'[d] = n /\ pc'[d] \notin {"none", "setup", "load", "tell"}
      BY <1>0, <1>2, <1>3, <1>7, <2>1, <2>4, Zenon
    <3>4. Untainted(n, q)' /\ (\A d \in Pid : ~Uses(q, n, d)') => Status(n)'.sema = 0
      BY <2>2, <2>3, Zenon DEF ExecOK, Aside
    <3> QED
      BY <3>1, <3>2, <3>3, <3>4, Zenon DEF ExecOK
  <2>5. CASE q # p
    <3>1. ExecSema(q)' = ExecSema(q) /\ ExecPid(q)' = ExecPid(q)
      BY <1>8, <2>1, <2>5, Zenon
    <3>2. subprocess_status_page'[q] = subprocess_status_page[q]
      BY <1>0, Zenon
    <3> QED
      BY <1>1, <1>9, <1>13, <2>1, <2>3, <3>1, <3>2, ExecKept, Zenon
  <2> QED
    BY <2>4, <2>5, Zenon
<1>20. SlotsOK'
  <2> SUFFICES ASSUME NEW q \in Pid, NEW n \in Monitor, Has(q, n)
               PROVE  SlotOK(q, n)' /\ (Untainted(n, q)' => ReportsOK(q, n)')
    BY <1>10, Zenon DEF SlotsOK
  <2>1. /\ \A d \in Pid : pstatus'[d] = n <=> pstatus[d] = n
        /\ \A d \in Pid : pstatus[d] = n => (pc'[d] \in Gone <=> pc[d] \in Gone) /\ exit_status'[d] = exit_status[d]
    BY <1>0, <1>1, <1>3, <1>9, <1>12, NullAssumption, SMTT(30) DEF ValuesOK
  <2> QED
    BY <1>1, <1>13, <1>14, <2>1, SlotKept, Zenon
<1>21. WaitsOK'
  <2>1. ASSUME NEW q \in Pid, NEW n \in Monitor, pc'[q] = "wait", awaited'[q] = n
        PROVE  n[1] = subprocess_status_page'[q] /\ Status(n)'.pid # 0
    <3>1. pc[q] = "wait" /\ n[1] = subprocess_status_page[q] /\ Status(n).pid # 0
      BY <1>0, <1>1, <1>9, <2>1, Zenon DEF WaitsOK
    <3>2. Has(q, n)
      BY <3>1, Zenon DEF Has, Alive
    <3> QED
      BY <1>0, <1>11, <3>1, <3>2, Zenon
  <2> QED
    BY <1>0, <1>1, <1>9, <2>1, Zenon DEF WaitsOK
<1>22. WaitReturnsStatus'
  <2>1. \A d \in Pid : pc[d] \in Gone => pc'[d] \in Gone /\ exit_status'[d] = exit_status[d]
    BY <1>0, <1>1, <1>9, Zenon DEF ValuesOK, Gone
  <2> QED
    BY <1>0, <1>1, <1>12, <2>1, ReturnsKept, Zenon
<1> QED
  BY <1>15, <1>16, <1>17, <1>18, <1>19, <1>20, <1>21, <1>22, Zenon DEF MonitorsInv, MonitorsOK

(* start_process() takes over the pointer to its monitor.                  *)
LEMMA HandoffKeeps == ASSUME OwnershipInv, MonitorsInv, NEW c \in Pid, start_process_handoff(c)
                      PROVE  MonitorsInv'
<1>a. PICK p, m : p = parent[c] /\ m = monitorOf[c]
  BY Zenon
<1>0. /\ power = "on" /\ pc[c] = "handoff" /\ Goto(c, "user")
      /\ \E n \in ReadPstatus(temp_kpage[c]) : pstatus' = [pstatus EXCEPT ![c] = n]
      /\ temp_kpage' = [temp_kpage EXCEPT ![c] = Null]
      /\ UNCHANGED <<kpage, subprocess_status_page, subprocess_status_list, successful,
                     awaited, exit_status, process_exit_lock, parent, monitorOf, result>>
  BY Zenon DEF start_process_handoff, At, history, locals
<1>1. /\ ContentsOK(kpage) /\ ValuesOK /\ StagesOK /\ FamilyOK /\ BirthsOK
      /\ ExecsOK /\ SlotsOK /\ WaitsOK /\ WaitReturnsStatus /\ TypesOK
  BY <1>0, Zenon DEF MonitorsInv, MonitorsOK, ValuesOK, OwnershipInv
<1>2. /\ pc'[c] = "user" /\ (\A q \in Pid \ {c} : pc'[q] = pc[q])
      /\ \A q \in Pid \ {c} : temp_kpage'[q] = temp_kpage[q]
  BY <1>0, <1>1, Zenon DEF TypesOK, Goto
<1>3. /\ p \in Pid /\ parent[c] = p /\ pc[p] = "execute" /\ temp_kpage[c] = temp_kpage[p] /\ p # c
      /\ ExecMonitor(p) = m /\ ExecSema(p) > 0 /\ ExecPid(p) = c /\ InExec(p)
      /\ pstatus[c] = Null /\ m \in Monitor /\ monitorOf[c] = m
  <2>1. pc[c] \in Starting
    BY <1>0, Zenon DEF Starting
  <2>2. p \in Pid /\ parent[c] = p /\ pstatus[c] = Null
    BY <1>a, <1>1, <2>1, Zenon DEF BirthsOK, ValuesOK
  <2>3. m \in Monitor
    BY <1>a, <1>1, <2>2, Zenon DEF FamilyOK, ValuesOK
  <2> QED
    BY <1>a, <1>0, <1>1, <2>1, <2>2, <2>3, Zenon DEF BirthsOK, InExec
<1>4. pstatus' = [pstatus EXCEPT ![c] = m]
  <2>1. kpage[temp_kpage[c]].kind = "temp"
    BY <1>0, <1>3, OwnPages, Zenon
  <2>2. ReadPstatus(temp_kpage[c]) = {kpage[temp_kpage[c]].pstatus}
    BY <2>1, Zenon DEF ReadPstatus
  <2>3. kpage[temp_kpage[c]].pstatus = m
    BY <1>3, Zenon DEF ExecMonitor
  <2> QED
    BY <1>0, <2>2, <2>3, Zenon
<1>5. pstatus'[c] = m /\ \A q \in Pid \ {c} : pstatus'[q] = pstatus[q]
  BY <1>1, <1>4, Zenon DEF ValuesOK
<1>6. \A q \in Pid : /\ InExec(q)' <=> InExec(q)
                     /\ Alive(q)' <=> Alive(q)
                     /\ pc'[q] \in Gone <=> pc[q] \in Gone
                     /\ pc'[q] \in Starting => pc[q] \in Starting /\ q # c
                     /\ pc'[q] \in {"none", "setup", "load", "tell"} => pc[q] \in {"none", "setup", "load", "tell"}
                     /\ pc'[q] = "create" <=> pc[q] = "create"
                     /\ pc'[q] = "execute" <=> pc[q] = "execute"
                     /\ pc'[q] = "wait" <=> pc[q] = "wait"
  BY <1>0, <1>2, Zenon DEF InExec, Alive, Gone, Starting
<1>7. ExecsAside
  <2>1. \A q \in Pid : InExec(q) => q # c
    BY <1>0, Zenon DEF InExec
  <2>2. \A q \in Pid : InExec(q) => kpage'[temp_kpage'[q]] = kpage[temp_kpage[q]]
    BY <1>0, <1>2, <2>1, Zenon
  <2> QED
    BY <2>2, Zenon DEF ExecsAside, ExecSema, ExecPid, ExecMonitor
<1>8. /\ \A q \in Pid, n \in Monitor : Has(q, n)' <=> Has(q, n)
      /\ \A n \in Monitor : Status(n)' = Status(n)
  BY <1>0, <1>6, Zenon DEF Has, Status
<1>9. Remembered /\ (\A q \in Pid, n \in Monitor : Untainted(n, q)' => Untainted(n, q))
  BY <1>0, <1>3, <1>5, NullAssumption, Zenon DEF Remembered, Untainted
<1>10. Has(p, m) /\ ExecOK(p, m) /\ \A q \in Pid : Has(q, m) => q = p
  <2>1. ExecOK(p, m)
    BY <1>1, <1>3, Zenon DEF ExecsOK
  <2>2. Has(p, m)
    BY <1>3, <2>1, Zenon DEF ExecOK, Has, Alive
  <2> QED
    BY <1>0, <1>3, <2>1, <2>2, OwnPages, Zenon
<1>11. ASSUME NEW q \in Pid, NEW n \in Monitor, Has(q, n), n # m
       PROVE  Aside(q, n)
  <2>1. ASSUME NEW d \in Pid, InExec(q), ExecSema(q) > 0, ExecPid(q) = d, ExecMonitor(q) = n
        PROVE  d # c
    <3>1. ExecOK(q, n)
      BY <1>1, <2>1, Zenon DEF ExecsOK
    <3>2. monitorOf[d] = n
      BY <2>1, <3>1, Zenon DEF ExecOK
    <3> QED
      BY <1>3, <1>11, <3>2, Zenon
  <2>2. \A d \in Pid : d # c => (pc'[d] = "handoff" <=> pc[d] = "handoff")
    BY <1>2, Zenon
  <2>3. \A d \in Pid : Uses(q, n, d)' <=> Uses(q, n, d)
    BY <1>6, <1>7, <1>8, <2>1, <2>2, Zenon DEF Uses, ExecsAside, InExec
  <2> QED
    BY <1>8, <1>9, <2>3, Zenon DEF Aside
<1>12. /\ Uses(p, m, c)' /\ (\A d \in Pid : Uses(p, m, d)' => d = c)
       /\ (\A d \in Pid : ~Uses(p, m, d)) /\ (\A d \in Pid : Status(m).pid # d)
  <2>0. \A d \in Pid : d # 0
    BY SMTT(30) DEF Pid
  <2>1. Status(m).pid = 0 /\ \A d \in Pid : d # 0
    BY <1>10, <2>0, Zenon DEF ExecOK
  <2>2. ExecSema(p)' > 0 /\ ExecPid(p)' = c /\ ExecMonitor(p)' = m /\ pc'[p] = "execute"
    BY <1>3, <1>6, <1>7, Zenon DEF ExecsAside
  <2> QED
    BY <1>0, <1>2, <1>3, <1>8, <2>1, <2>2, Zenon DEF Uses
<1>13. ValuesOK'
  BY <1>0, <1>1, <1>3, <1>4, Zenon DEF ValuesOK
<1>14. StagesOK'
  BY <1>0, <1>1, <1>2, <1>5, SMTT(30) DEF StagesOK
<1>15. FamilyOK'
  <2>1. \A q \in Pid : /\ pc'[q] = "none" <=> pc[q] = "none"
                       /\ q # c /\ pc'[q] \in {"user", "create", "execute", "wait"} => pc[q] \in {"user", "create", "execute", "wait"}
    BY <1>0, <1>2, Zenon
  <2>2. parent[c] # Null
    BY <1>3, NullAssumption, ZenonT(30)
  <2>3. FamilyOK /\ UNCHANGED <<parent, result, monitorOf, subprocess_status_page>>
    BY <1>0, <1>1, Zenon
  <2>4. pstatus'[c] = monitorOf[c] /\ \A q \in Pid : q # c => pstatus'[q] = pstatus[q]
    BY <1>3, <1>5, Zenon
  <2>5. \A q \in Pid : pc'[q] \in Starting \cup {"none"} => pc[q] \in Starting \cup {"none"}
    BY <1>6, <2>1, Zenon
  <2> QED
    BY <1>6, <2>1, <2>2, <2>3, <2>4, <2>5, FamilyKept, Zenon DEF Single, Related
<1>16. BirthsOK'
  <2>1. ASSUME NEW d \in Pid, NEW q \in Pid, pc'[d] \in Starting, parent'[d] = q
        PROVE  /\ pc'[q] = "execute" /\ temp_kpage'[d] = temp_kpage'[q] /\ ExecMonitor(q)' = monitorOf'[d]
               /\ pc'[d] # "handoff" => ExecSema(q)' = 0
               /\ pc'[d] = "handoff" => ExecSema(q)' > 0 /\ ExecPid(q)' = d
    <3>1. pc[d] \in Starting /\ parent[d] = q /\ d # c /\ pc'[d] = pc[d]
      BY <1>0, <1>2, <1>6, <2>1, Zenon
    <3>2. pc[q] = "execute" /\ InExec(q) /\ q # c
      BY <1>0, <1>1, <3>1, Zenon DEF BirthsOK, InExec
    <3>3. /\ temp_kpage[d] = temp_kpage[q] /\ ExecMonitor(q) = monitorOf[d]
          /\ pc[d] # "handoff" => ExecSema(q) = 0
          /\ pc[d] = "handoff" => ExecSema(q) > 0 /\ ExecPid(q) = d
      BY <1>1, <3>1, Zenon DEF BirthsOK
    <3>4. /\ monitorOf' = monitorOf /\ pc'[q] = pc[q]
          /\ temp_kpage'[d] = temp_kpage[d] /\ temp_kpage'[q] = temp_kpage[q]
      BY <1>0, <1>2, <3>1, <3>2, Zenon
    <3> QED
      BY <1>7, <3>1, <3>2, <3>3, <3>4, Zenon DEF ExecsAside
  <2>2. \A d \in Pid : pc'[d] \in Starting => parent'[d] # Null /\ pstatus'[d] = Null
    BY <1>0, <1>1, <1>5, <1>6, Zenon DEF BirthsOK
  <2>3. \A d, e \in Pid : pc'[d] \in Starting /\ pc'[e] \in Starting /\ parent'[d] = parent'[e] => d = e
    BY <1>0, <1>1, <1>6, Zenon DEF BirthsOK
  <2> QED
    BY <2>1, <2>2, <2>3, Zenon DEF BirthsOK
<1>17. ExecsOK'
  <2> SUFFICES ASSUME NEW q \in Pid, NEW n \in Monitor, InExec(q)', ExecMonitor(q)' = n
               PROVE  ExecOK(q, n)'
    BY Zenon DEF ExecsOK
  <2>1. InExec(q) /\ ExecMonitor(q) = n /\ ExecSema(q)' = ExecSema(q) /\ ExecPid(q)' = ExecPid(q)
    BY <1>6, <1>7, Zenon DEF ExecsAside
  <2>2. Has(q, n) /\ ExecOK(q, n)
    <3>1. ExecOK(q, n)
      BY <1>1, <2>1, Zenon DEF ExecsOK
    <3>2. Alive(q)
      BY <2>1, Zenon DEF InExec, Alive
    <3> QED
      BY <3>1, <3>2, Zenon DEF ExecOK, Has
  <2>3. CASE n = m
    <3>1. q = p
      BY <1>10, <2>2, <2>3, Zenon
    <3>2. m[1] = subprocess_status_page'[p] /\ Status(m)'.in_use /\ Status(m)'.pid = 0
      BY <1>0, <1>3, <1>8, <1>10, Zenon DEF ExecOK
    <3>3. pc'[p] = "create" => ExecSema(p)' = 0
      BY <1>3, <1>6, <1>10, <2>1, <3>1, Zenon DEF ExecOK
    <3>4. \A d \in Pid : ExecSema(p)' > 0 /\ ExecPid(p)' = d =>
             parent'[d] = p /\ monitorOf'[d] = m /\ pc'[d] \notin {"none", "setup", "load", "tell"}
      BY <1>0, <1>6, <1>10, <2>1, <3>1, Zenon DEF ExecOK
    <3> QED
      BY <1>12, <2>3, <3>1, <3>2, <3>3, <3>4, Zenon DEF ExecOK
  <2>4. CASE n # m
    <3>1. Aside(q, n)
      BY <1>11, <2>2, <2>4, Zenon
    <3>2. subprocess_status_page'[q] = subprocess_status_page[q]
      BY <1>0, Zenon
    <3> QED
      BY <1>1, <1>6, <1>9, <2>1, <3>1, <3>2, ExecKept, Zenon
  <2> QED
    BY <2>3, <2>4, Zenon
<1>18. SlotsOK'
  <2> SUFFICES ASSUME NEW q \in Pid, NEW n \in Monitor, Has(q, n)
               PROVE  SlotOK(q, n)' /\ (Untainted(n, q)' => ReportsOK(q, n)')
    BY <1>8, Zenon DEF SlotsOK
  <2>1. CASE n = m
    <3>1. q = p
      BY <1>10, <2>1, Zenon
    <3>2. SlotOK(p, m)'
      BY <1>3, <1>8, <1>10, <1>12, Zenon DEF SlotOK, ExecOK
    <3>3. ASSUME Untainted(m, p)' PROVE ReportsOK(p, m)'
      <4>1. Untainted(m, p) /\ ReportsOK(p, m)
        BY <1>1, <1>3, <1>9, <1>10, <3>3, Zenon DEF SlotsOK
      <4>2. Status(m).in_use /\ Status(m).sema = 0
        BY <1>10, <1>12, <4>1, Zenon DEF ExecOK
      <4>3. \A d \in Pid : pstatus'[d] = m /\ pc'[d] \notin Gone => d = c
        BY <1>5, <1>6, <1>12, <4>1, Zenon DEF ReportsOK
      <4>4. pc'[c] \notin Gone
        BY <1>2, Zenon DEF Gone
      <4> QED
        BY <1>3, <1>5, <1>8, <1>12, <4>2, <4>3, <4>4, Zenon DEF ReportsOK
    <3> QED
      BY <2>1, <3>1, <3>2, <3>3, Zenon
  <2>2. CASE n # m
    <3>1. /\ \A d \in Pid : pstatus'[d] = n <=> pstatus[d] = n
          /\ \A d \in Pid : pstatus[d] = n => (pc'[d] \in Gone <=> pc[d] \in Gone) /\ exit_status'[d] = exit_status[d]
      <4>1. pstatus'[c] # n /\ pstatus[c] # n
        BY <1>3, <1>5, <2>2, NullAssumption, ZenonT(30)
      <4> QED
        BY <1>0, <1>5, <1>6, <4>1, Zenon
    <3> QED
      BY <1>1, <1>9, <1>11, <2>2, <3>1, SlotKept, Zenon
  <2> QED
    BY <2>1, <2>2, Zenon
<1>19. WaitsOK'
  <2>1. WaitsOK /\ UNCHANGED <<subprocess_status_list, subprocess_status_page, awaited>>
    BY <1>0, <1>1, Zenon
  <2> QED
    BY <1>6, <1>8, <2>1, Zenon DEF WaitsOK
<1>20. WaitReturnsStatus'
  <2> SUFFICES ASSUME NEW d \in Pid, result'[d] # Null, NoOrphanPointsTo(d)'
               PROVE  pc'[d] \in Gone /\ result'[d] = exit_status'[d]
    BY Zenon DEF WaitReturnsStatus, Gone
  <2>1. parent[d] \in Pid /\ monitorOf[d] \in Monitor
    <3>1. parent[d] # Null
      BY <1>0, <1>1, Zenon DEF FamilyOK
    <3>2. parent[d] \in Pid
      BY <1>1, <3>1, Zenon DEF ValuesOK
    <3> QED
      BY <1>1, <3>2, ZenonT(30) DEF FamilyOK, ValuesOK
  <2>2. ASSUME NEW e \in Pid, pstatus[e] = monitorOf[d] PROVE parent[e] = parent[d]
    <3>1. UNCHANGED <<parent, monitorOf>>
      BY <1>0, Zenon
    <3>2. e # c
      BY <1>3, <2>1, <2>2, NullAssumption, Zenon
    <3> QED
      BY <1>5, <2>2, <3>1, <3>2, Zenon DEF NoOrphanPointsTo
  <2>3. NoOrphanPointsTo(d)
    BY <2>2, Zenon DEF NoOrphanPointsTo
  <2> QED
    BY <1>0, <1>1, <1>6, <2>3, Zenon DEF WaitReturnsStatus, Gone
<1> QED
  BY <1>13, <1>14, <1>15, <1>16, <1>17, <1>18, <1>19, <1>20, Zenon DEF MonitorsInv, MonitorsOK

(* process_execute() returns: the monitor gets the pid, or is given back.  *)
(* The child has taken over its pointer by then.                           *)
LEMMA ReturnKeeps == ASSUME PreemptHandoff = FALSE, OwnershipInv, MonitorsInv,
                            NEW p \in Pid, process_execute_return(p)
                     PROVE  MonitorsInv'
<1>a. PICK t, x, m, new :
         /\ t = temp_kpage[p] /\ x = kpage[t].pid /\ m = kpage[t].pstatus
         /\ new = IF x = PID_ERROR THEN ZeroStatus ELSE [Status(m) EXCEPT !.pid = x]
  BY Zenon
<1> DEFINE l == SetStatus(kpage, m, new)
<1>0. /\ power = "on" /\ pc[p] = "execute" /\ ExecSema(p) > 0 /\ Goto(p, "user")
      /\ \A c \in Pid : parent[c] = p => pc[c] # "handoff"
      /\ kpage' = [l EXCEPT ![t] = Free] /\ temp_kpage' = [temp_kpage EXCEPT ![p] = Null]
      /\ UNCHANGED <<subprocess_status_page, pstatus, successful, awaited, exit_status,
                     process_exit_lock, parent, monitorOf, result>>
  BY <1>a, Zenon DEF process_execute_return, At, history, locals, palloc_free_page, ExecSema
<1>1. /\ PoolOK(kpage) /\ ContentsOK(kpage) /\ ValuesOK /\ StagesOK /\ FamilyOK /\ BirthsOK
      /\ ExecsOK /\ SlotsOK /\ WaitsOK /\ WaitReturnsStatus /\ TypesOK
  BY <1>0, Zenon DEF MonitorsInv, MonitorsOK, ValuesOK, OwnershipInv, TypesOK
<1>2. /\ pc'[p] = "user" /\ (\A q \in Pid \ {p} : pc'[q] = pc[q])
      /\ \A q \in Pid \ {p} : temp_kpage'[q] = temp_kpage[q]
  BY <1>0, <1>1, Zenon DEF TypesOK, Goto
<1>3. /\ InExec(p) /\ t \in Page /\ kpage[t].kind = "temp" /\ kpage[t] \in TempRecord
      /\ m \in Monitor /\ x \in Pid \cup {PID_ERROR} /\ ExecMonitor(p) = m /\ ExecPid(p) = x
      /\ \A q \in Pid \ {p} : InExec(q) => temp_kpage[q] # t
  <2>1. InExec(p)
    BY <1>0, Zenon DEF InExec
  <2>2. t \in Page /\ kpage[t].kind = "temp" /\ \A q \in Pid \ {p} : InExec(q) => temp_kpage[q] # t
    BY <1>a, <1>0, <2>1, OwnPages, Zenon
  <2>3. kpage[t] \in TempRecord
    BY <1>1, <2>2, Zenon DEF ContentsOK
  <2> QED
    BY <1>a, <2>1, <2>2, <2>3, Zenon DEF TempRecord, ExecMonitor, ExecPid
<1>4. ExecOK(p, m) /\ Has(p, m) /\ \A q \in Pid : Has(q, m) => q = p
  <2>1. ExecOK(p, m)
    BY <1>1, <1>3, Zenon DEF ExecsOK
  <2>2. Has(p, m)
    BY <1>0, <1>3, <2>1, ZenonT(30) DEF ExecOK, Has, Alive
  <2> QED
    BY <1>0, <1>3, <2>1, <2>2, OwnPages, Zenon
<1>5. /\ kpage[m[1]].kind = "monitors" /\ m[1] \in Page /\ m[2] \in Slot
      /\ Status(m) \in StatusRecord /\ Status(m).pid = 0 /\ Status(m).in_use
  <2>1. kpage[m[1]].kind = "monitors" /\ m[1] \in Page /\ m[2] \in Slot
    BY <1>0, <1>3, <1>4, OwnPages, Zenon DEF Monitor
  <2>2. Status(m) \in StatusRecord
    BY <1>1, <2>1, Zenon DEF ContentsOK, Status
  <2> QED
    BY <1>4, <2>1, <2>2, Zenon DEF ExecOK
<1>6. new \in StatusRecord /\ (x = PID_ERROR => ~new.in_use /\ new.pid = 0)
      /\ (x \in Pid => /\ new.in_use /\ new.pid = x /\ new.sema = Status(m).sema
                       /\ new.exit_status = Status(m).exit_status)
  <2>1. PID_ERROR \notin Pid
    BY SMTT(30) DEF PID_ERROR, Pid
  <2>2. CASE x = PID_ERROR
    BY <1>a, <2>1, <2>2, ZeroFields, Zenon
  <2>3. CASE x \in Pid
    <3>1. new = [Status(m) EXCEPT !.pid = x]
      BY <1>a, <2>1, <2>3, ZenonT(30)
    <3> QED
      BY <1>5, <2>1, <2>3, <3>1, NamedFields, SMTT(30)
  <2> QED
    BY <1>3, <2>2, <2>3, Zenon
<1>7. /\ PoolOK(l) /\ SameKinds(kpage, l) /\ ContentsOK(l)
      /\ \A n \in Monitor : kpage[n[1]].kind = "monitors" =>
               l[n[1]].status[n[2]] = IF n = m THEN new ELSE kpage[n[1]].status[n[2]]
      /\ \A h \in Page : kpage[h].kind # "monitors" => l[h] = kpage[h]
  <2>1. PoolOK(l) /\ SameKinds(kpage, l)
    BY <1>1, StatusWritten, Zenon
  <2>2. /\ PoolOK(kpage) /\ ContentsOK(kpage) /\ m \in Monitor /\ kpage[m[1]].kind = "monitors"
        /\ new \in StatusRecord
    BY <1>1, <1>3, <1>5, <1>6, Zenon
  <2> QED
    BY <2>1, <2>2, SlotWritten, SMT
<1> HIDE DEF l
<1>8. /\ ContentsOK(kpage') /\ kpage'[t] = Free /\ \A h \in Page \ {t} : kpage'[h] = l[h]
  <2>1. ContentsOK(kpage')
    BY <1>0, <1>3, <1>7, ContentsReplaced, NewPagesOK, Zenon
  <2> QED
    BY <1>0, <1>3, <1>7, <2>1, Zenon DEF PoolOK
<1>9. /\ Status(m)' = new
      /\ \A n \in Monitor : n # m /\ kpage[n[1]].kind = "monitors" => Status(n)' = Status(n)
      /\ \A h \in Page : kpage[h].kind = "monitors" => kpage'[h].kind = "monitors"
      /\ \A h \in Page \ {t} : kpage[h].kind = "temp" => kpage'[h] = kpage[h]
  <2>1. \A n \in Monitor : n[1] \in Page
    BY Zenon DEF Monitor
  <2>2. \A n \in Monitor : kpage[n[1]].kind = "monitors" => kpage'[n[1]] = l[n[1]]
    BY <1>3, <1>8, <2>1, ZenonT(30)
  <2>3. Status(m)' = new /\ \A n \in Monitor : n # m /\ kpage[n[1]].kind = "monitors" => Status(n)' = Status(n)
    BY <1>3, <1>5, <1>7, <2>2, SMTT(30) DEF Status
  <2>4. \A h \in Page : kpage[h].kind = "monitors" => kpage'[h].kind = "monitors"
    BY <1>3, <1>7, <1>8, Zenon DEF SameKinds
  <2>5. \A h \in Page \ {t} : kpage[h].kind = "temp" => kpage'[h] = kpage[h]
    BY <1>7, <1>8, Zenon
  <2> QED
    BY <2>3, <2>4, <2>5, Zenon
<1>10. \A q \in Pid : /\ InExec(q)' => InExec(q) /\ q # p
                      /\ Alive(q)' <=> Alive(q)
                      /\ pc'[q] \in Gone <=> pc[q] \in Gone
                      /\ pc'[q] \in Starting <=> pc[q] \in Starting
                      /\ pc'[q] = "handoff" <=> pc[q] = "handoff"
                      /\ pc'[q] \in {"none", "setup", "load", "tell"} => pc[q] \in {"none", "setup", "load", "tell"}
                      /\ pc'[q] = "create" => pc[q] = "create"
                      /\ q # p => (pc'[q] = "execute" <=> pc[q] = "execute")
                      /\ pc'[q] = "wait" <=> pc[q] = "wait"
  BY <1>0, <1>2, Zenon DEF InExec, Alive, Gone, Starting
<1>11. \A q \in Pid, n \in Monitor : Has(q, n)' <=> Has(q, n)
  BY <1>0, <1>10, Zenon DEF Has
<1>12. \A q \in Pid \ {p} : InExec(q) => /\ ExecSema(q)' = ExecSema(q) /\ ExecPid(q)' = ExecPid(q)
                                         /\ ExecMonitor(q)' = ExecMonitor(q)
  <2>1. \A q \in Pid \ {p} : InExec(q) => kpage'[temp_kpage'[q]] = kpage[temp_kpage[q]]
    <3> TAKE q \in Pid \ {p}
    <3>1. InExec(q) => temp_kpage[q] \in Page /\ kpage[temp_kpage[q]].kind = "temp"
      BY <1>0, OwnPages, Zenon
    <3> QED
      BY <1>2, <1>3, <1>9, <3>1, Zenon
  <2> QED
    BY <2>1, Zenon DEF ExecSema, ExecPid, ExecMonitor
<1>13. Remembered /\ (\A q \in Pid, n \in Monitor : Untainted(n, q)' <=> Untainted(n, q))
  BY <1>0, Zenon DEF Remembered, Untainted
<1>14. ASSUME NEW q \in Pid, NEW n \in Monitor, Has(q, n), n # m
       PROVE  Aside(q, n)
  <2>1. Status(n)' = Status(n)
    BY <1>0, <1>9, <1>14, OwnPages, Zenon
  <2>2. CASE q = p
    BY <1>2, <1>3, <1>13, <1>14, <2>1, <2>2, Zenon DEF Aside, Uses
  <2>3. CASE q # p
    <3>1. \A d \in Pid : Uses(q, n, d)' <=> Uses(q, n, d)
      BY <1>10, <1>12, <2>1, <2>3, Zenon DEF Uses, InExec
    <3> QED
      BY <1>13, <2>1, <3>1, Zenon DEF Aside
  <2> QED
    BY <2>2, <2>3, Zenon
<1>15. \A d \in Pid : /\ Uses(p, m, d) <=> x = d
                      /\ Uses(p, m, d)' <=> x = d
  <2>1. \A d \in Pid : d # 0 /\ PID_ERROR # d
    BY SMTT(30) DEF Pid, PID_ERROR
  <2>2. \A d \in Pid : x = d => pc[d] # "handoff"
    BY <1>0, <1>3, <1>4, Zenon DEF ExecOK
  <2>3. \A d \in Pid : Uses(p, m, d) <=> x = d
    BY <1>0, <1>3, <1>5, <2>1, <2>2, Zenon DEF Uses
  <2>4. \A d \in Pid : Uses(p, m, d)' <=> x = d
    BY <1>2, <1>3, <1>6, <1>9, <2>1, Zenon DEF Uses
  <2> QED
    BY <2>3, <2>4, Zenon
<1>16. /\ subprocess_status_list' \in [Pid -> Seq(Monitor)]
       /\ \A q \in Pid : \A i \in DOMAIN subprocess_status_list'[q] :
             subprocess_status_list'[q][i][1] = subprocess_status_page[q]
  <2>1. /\ subprocess_status_list \in [Pid -> Seq(Monitor)]
        /\ \A q \in Pid : \A i \in DOMAIN subprocess_status_list[q] :
              subprocess_status_list[q][i][1] = subprocess_status_page[q]
    BY <1>1, Zenon DEF ValuesOK, WaitsOK
  <2> DEFINE old == subprocess_status_list[p]
             long == Append(old, m)
  <2>2. \/ subprocess_status_list' = subprocess_status_list
        \/ subprocess_status_list' = [subprocess_status_list EXCEPT ![p] = long]
    BY <1>a, Zenon DEF process_execute_return, list_push_back
  <2>3. long \in Seq(Monitor) /\ \A i \in DOMAIN long : long[i][1] = subprocess_status_page[p]
    <3>1. old \in Seq(Monitor) /\ Len(old) \in Nat /\ DOMAIN old = 1 .. Len(old)
      BY <2>1, SMTT(30)
    <3>2. /\ long \in Seq(Monitor) /\ Len(long) = Len(old) + 1 /\ long[Len(old) + 1] = m
          /\ \A i \in 1 .. Len(old) : long[i] = old[i]
      BY <1>3, <3>1, SMTT(30)
    <3>3. m[1] = subprocess_status_page[p]
      BY <1>4, Zenon DEF Has
    <3> HIDE DEF long, old
    <3>4. DOMAIN long = 1 .. Len(old) + 1
      BY <3>2, SMTT(30)
    <3>5. \A i \in 1 .. Len(old) + 1 : i \in 1 .. Len(old) \/ i = Len(old) + 1
      BY <3>1, SMTT(30)
    <3>6. \A i \in 1 .. Len(old) : old[i][1] = subprocess_status_page[p]
      BY <2>1, <3>1, Zenon DEF old
    <3> QED
      BY <3>2, <3>3, <3>4, <3>5, <3>6, Zenon
  <2> HIDE DEF long
  <2> QED
    BY <2>1, <2>2, <2>3, Zenon
<1>17. ValuesOK'
  BY <1>0, <1>1, <1>8, <1>16, Zenon DEF ValuesOK
<1>18. StagesOK'
  <2>1. \A q \in Pid : pc[q] = "report" => pstatus[q] \in Monitor
    BY <1>1, Zenon DEF ValuesOK, StagesOK
  <2>2. \A q \in Pid : pc[q] = "report" => kpage'[pstatus[q][1]].kind = "monitors"
    BY <1>1, <1>9, <2>1, Zenon DEF StagesOK, Monitor
  <2> QED
    BY <1>0, <1>1, <1>2, <2>2, SMTT(30) DEF StagesOK
<1>19. FamilyOK'
  <2>1. \A q \in Pid : /\ pc'[q] = "none" <=> pc[q] = "none"
                       /\ pc'[q] \in {"user", "create", "execute", "wait"} => pc[q] \in {"user", "create", "execute", "wait"}
    BY <1>0, <1>2, Zenon
  <2> QED
    BY <1>0, <1>1, <1>10, <2>1, SMTT(30) DEF FamilyOK
<1>20. BirthsOK'
  <2>1. ASSUME NEW d \in Pid, NEW q \in Pid, pc'[d] \in Starting, parent'[d] = q
        PROVE  /\ pc'[q] = "execute" /\ temp_kpage'[d] = temp_kpage'[q] /\ ExecMonitor(q)' = monitorOf'[d]
               /\ pc'[d] # "handoff" => ExecSema(q)' = 0
               /\ pc'[d] = "handoff" => ExecSema(q)' > 0 /\ ExecPid(q)' = d
    <3>1. pc[d] \in Starting /\ parent[d] = q /\ d # p
      BY <1>0, <1>10, <2>1, Zenon DEF Starting
    <3>2. q # p
      <4>1. pc[d] # "handoff" /\ q = p => ExecSema(p) = 0
        BY <1>1, <3>1, Zenon DEF BirthsOK
      <4> QED
        BY <1>0, <3>1, <4>1, SMTT(30)
    <3>3. pc[q] = "execute" /\ InExec(q)
      BY <1>1, <3>1, Zenon DEF BirthsOK, InExec
    <3>4. ExecSema(q)' = ExecSema(q) /\ ExecPid(q)' = ExecPid(q) /\ ExecMonitor(q)' = ExecMonitor(q)
      BY <1>12, <3>2, <3>3, Zenon
    <3>5. /\ temp_kpage[d] = temp_kpage[q] /\ ExecMonitor(q) = monitorOf[d]
          /\ pc[d] # "handoff" => ExecSema(q) = 0
          /\ pc[d] = "handoff" => ExecSema(q) > 0 /\ ExecPid(q) = d
      BY <1>1, <3>1, Zenon DEF BirthsOK
    <3>6. /\ monitorOf' = monitorOf /\ pc'[q] = "execute" /\ (pc'[d] = "handoff" <=> pc[d] = "handoff")
          /\ temp_kpage'[d] = temp_kpage[d] /\ temp_kpage'[q] = temp_kpage[q]
      BY <1>0, <1>2, <1>10, <3>1, <3>2, <3>3, Zenon
    <3> QED
      BY <3>4, <3>5, <3>6, Zenon
  <2>2. \A d \in Pid : pc'[d] \in Starting => parent'[d] # Null /\ pstatus'[d] = Null
    BY <1>0, <1>1, <1>10, Zenon DEF BirthsOK
  <2>3. \A d, e \in Pid : pc'[d] \in Starting /\ pc'[e] \in Starting /\ parent'[d] = parent'[e] => d = e
    BY <1>0, <1>1, <1>10, Zenon DEF BirthsOK
  <2> QED
    BY <2>1, <2>2, <2>3, Zenon DEF BirthsOK
<1>21. ExecsOK'
  <2> SUFFICES ASSUME NEW q \in Pid, NEW n \in Monitor, InExec(q)', ExecMonitor(q)' = n
               PROVE  ExecOK(q, n)'
    BY Zenon DEF ExecsOK
  <2>1. q # p /\ InExec(q)
    BY <1>10, Zenon
  <2>2. ExecMonitor(q) = n /\ ExecSema(q)' = ExecSema(q) /\ ExecPid(q)' = ExecPid(q)
    BY <1>12, <2>1, Zenon
  <2>3. Has(q, n)
    BY <1>1, <2>1, <2>2, SMTT(30) DEF ExecsOK, ExecOK, Has, InExec, Alive
  <2>4. Aside(q, n)
    BY <1>4, <1>14, <2>1, <2>3, Zenon
  <2>5. subprocess_status_page'[q] = subprocess_status_page[q]
    BY <1>0, Zenon
  <2> QED
    BY <1>1, <1>10, <1>13, <2>1, <2>2, <2>4, <2>5, ExecKept, Zenon
<1>22. SlotsOK'
  <2> SUFFICES ASSUME NEW q \in Pid, NEW n \in Monitor, Has(q, n)
               PROVE  SlotOK(q, n)' /\ (Untainted(n, q)' => ReportsOK(q, n)')
    BY <1>11, Zenon DEF SlotsOK
  <2>1. CASE n = m
    <3>1. q = p
      BY <1>4, <2>1, Zenon
    <3>2. \A d \in Pid : d # 0
      BY SMTT(30) DEF Pid
    <3>3. SlotOK(p, m)'
      <4>1. ~new.in_use => new.pid = 0
        BY <1>3, <1>6, Zenon
      <4>2. \A d \in Pid : new.pid = d => x = d
        BY <1>3, <1>6, <3>2, Zenon
      <4>3. \A d \in Pid : x = d => parent[d] = p /\ monitorOf[d] = m
        BY <1>0, <1>3, <1>4, Zenon DEF ExecOK
      <4> QED
        BY <1>0, <1>9, <4>1, <4>2, <4>3, Zenon DEF SlotOK
    <3>4. ASSUME Untainted(m, p)' PROVE ReportsOK(p, m)'
      <4>1. ReportsOK(p, m)
        BY <1>1, <1>3, <1>4, <1>13, <3>4, Zenon DEF SlotsOK
      <4>2. \A d \in Pid : pstatus'[d] = m /\ pc'[d] \notin Gone => Uses(p, m, d)'
        BY <1>0, <1>10, <1>15, <4>1, Zenon DEF ReportsOK
      <4>3. ASSUME NEW d \in Pid, Uses(p, m, d)'
            PROVE  /\ pstatus'[d] = m /\ Status(m)'.in_use
                   /\ pc'[d] \notin Gone => Status(m)'.sema = 0
                   /\ pc'[d] \in Gone => Status(m)'.sema > 0 /\ Status(m)'.exit_status = exit_status'[d]
        <5>1. x = d /\ Uses(p, m, d)
          BY <1>15, <4>3, Zenon
        <5>2. /\ Status(m)'.in_use /\ Status(m)'.sema = Status(m).sema
              /\ Status(m)'.exit_status = Status(m).exit_status
          BY <1>6, <1>9, <5>1, Zenon
        <5> QED
          BY <1>0, <1>10, <4>1, <5>1, <5>2, Zenon DEF ReportsOK
      <4> QED
        BY <4>2, <4>3, Zenon DEF ReportsOK
    <3> QED
      BY <2>1, <3>1, <3>3, <3>4, Zenon
  <2>2. CASE n # m
    <3>1. /\ \A d \in Pid : pstatus'[d] = n <=> pstatus[d] = n
          /\ \A d \in Pid : pstatus[d] = n => (pc'[d] \in Gone <=> pc[d] \in Gone) /\ exit_status'[d] = exit_status[d]
      BY <1>0, <1>10, Zenon
    <3> QED
      BY <1>1, <1>13, <1>14, <2>2, <3>1, SlotKept, Zenon
  <2> QED
    BY <2>1, <2>2, Zenon
<1>23. WaitsOK'
  <2>1. ASSUME NEW q \in Pid, NEW n \in Monitor, pc'[q] = "wait", awaited'[q] = n
        PROVE  n[1] = subprocess_status_page'[q] /\ Status(n)'.pid # 0
    <3>1. pc[q] = "wait" /\ n[1] = subprocess_status_page[q] /\ Status(n).pid # 0
      BY <1>0, <1>1, <1>10, <2>1, Zenon DEF WaitsOK
    <3>2. Has(q, n) /\ n # m
      BY <1>5, <3>1, Zenon DEF Has, Alive
    <3>3. Status(n)' = Status(n)
      BY <1>14, <3>2, Zenon DEF Aside
    <3> QED
      BY <1>0, <3>1, <3>3, Zenon
  <2>2. \A q \in Pid : pc'[q] = "wait" => awaited'[q] # Null
    BY <1>0, <1>1, <1>10, Zenon DEF WaitsOK
  <2>3. subprocess_status_page' = subprocess_status_page
    BY <1>0, Zenon
  <2> QED
    BY <1>16, <2>1, <2>2, <2>3, Zenon DEF WaitsOK
<1>24. WaitReturnsStatus'
  BY <1>0, <1>1, <1>10, ReturnsKept, Zenon
<1> QED
  BY <1>17, <1>18, <1>19, <1>20, <1>21, <1>22, <1>23, <1>24, Zenon DEF MonitorsInv, MonitorsOK
-----------------------------------------------------------------------------
(* A machine that stops leaves everything as it is.                        *)
LEMMA StopKeeps ==
    ASSUME MonitorsInv, power' # "on", UNCHANGED <<kpage, pc, temp_kpage, procVars, process_exit_lock, history>>
    PROVE  MonitorsInv'
<1>1. UNCHANGED <<kpage, pc, subprocess_status_list, pstatus, awaited, successful, exit_status, parent,
                  monitorOf, result>>
  BY Zenon DEF procVars, locals, history
<1>2. ValuesOK'
  BY <1>1, Zenon DEF MonitorsInv, ValuesOK
<1>3. WaitReturnsStatus'
  BY <1>1, ReturnsKept, Zenon DEF MonitorsInv
<1> QED
  BY <1>2, <1>3, Zenon DEF MonitorsInv

(* So does a step of something else.                                       *)
LEMMA StutterKeeps == ASSUME MonitorsInv, UNCHANGED vars PROVE MonitorsInv'
<1>1. UNCHANGED <<kpage, pc, temp_kpage, subprocess_status_page, subprocess_status_list, pstatus, awaited,
                  successful, exit_status, process_exit_lock, power, parent, monitorOf, result>>
  BY Zenon DEF vars, procVars, locals, history
<1>2. ValuesOK' /\ WaitReturnsStatus'
  BY <1>1, ReturnsKept, Zenon DEF MonitorsInv, ValuesOK
<1>3. ASSUME power = "on" PROVE MonitorsOK'
  <2>0. MonitorsOK
    BY <1>3, Zenon DEF MonitorsInv
  <2>1. StagesOK' /\ FamilyOK' /\ WaitsOK'
    <3>1. StagesOK'
      BY <1>1, <2>0, Zenon DEF MonitorsOK, StagesOK
    <3>2. FamilyOK'
      BY <1>1, <2>0, Zenon DEF MonitorsOK, FamilyOK, Alive
    <3>3. WaitsOK'
      BY <1>1, <2>0, Zenon DEF MonitorsOK, WaitsOK, Status
    <3> QED
      BY <3>1, <3>2, <3>3, Zenon
  <2>2. BirthsOK'
    BY <1>1, <2>0, ZenonT(30) DEF MonitorsOK, BirthsOK, ExecMonitor, ExecSema, ExecPid
  <2>3. \A q \in Pid : /\ ExecSema(q)' = ExecSema(q) /\ ExecPid(q)' = ExecPid(q)
                       /\ ExecMonitor(q)' = ExecMonitor(q) /\ (InExec(q)' <=> InExec(q))
    BY <1>1, Zenon DEF ExecSema, ExecPid, ExecMonitor, InExec
  <2>4. \A q \in Pid, m \in Monitor :
           /\ Status(m)' = Status(m) /\ (Has(q, m)' <=> Has(q, m)) /\ (Untainted(m, q)' <=> Untainted(m, q))
           /\ \A c \in Pid : Uses(q, m, c)' <=> Uses(q, m, c)
    BY <1>1, <2>3, ZenonT(30) DEF Status, Has, Alive, Untainted, Uses
  <2>5. ExecsOK'
    <3> SUFFICES ASSUME NEW q \in Pid, NEW m \in Monitor, InExec(q)', ExecMonitor(q)' = m
                 PROVE  ExecOK(q, m)'
      BY Zenon DEF ExecsOK
    <3>1. ExecOK(q, m)
      BY <2>0, <2>3, Zenon DEF MonitorsOK, ExecsOK
    <3> QED
      BY <1>1, <2>3, <2>4, <3>1, Zenon DEF ExecOK
  <2>6. SlotsOK'
    <3> SUFFICES ASSUME NEW q \in Pid, NEW m \in Monitor, Has(q, m)'
                 PROVE  SlotOK(q, m)' /\ (Untainted(m, q)' => ReportsOK(q, m)')
      BY Zenon DEF SlotsOK
    <3>1. SlotOK(q, m) /\ (Untainted(m, q) => ReportsOK(q, m))
      BY <2>0, <2>4, Zenon DEF MonitorsOK, SlotsOK
    <3>2. SlotOK(q, m)'
      BY <1>1, <2>4, <3>1, Zenon DEF SlotOK
    <3>3. ReportsOK(q, m) => ReportsOK(q, m)'
      BY <1>1, <2>4, Zenon DEF ReportsOK
    <3> QED
      BY <2>4, <3>1, <3>2, <3>3, Zenon
  <2> QED
    BY <2>1, <2>2, <2>5, <2>6, Zenon DEF MonitorsOK
<1> QED
  BY <1>1, <1>2, <1>3, Zenon DEF MonitorsInv

(* The invariant holds when main() has started its process.                *)
LEMMA InitMonitors == ASSUME Init PROVE MonitorsInv
<1>2. 1 \in Pid
  BY InitPool, Zenon
<1>3. /\ kpage[1] = MonitorsPage /\ kpage[2] = [kind |-> "files"] /\ kpage[3] = [kind |-> "thread"]
      /\ \A g \in Page \ {1, 2, 3} : kpage[g] \in {Free, Reserved}
  BY InitPool, Zenon
<1>4. /\ pc = [p \in Pid |-> IF p = 1 THEN "user" ELSE "none"]
      /\ subprocess_status_page = [p \in Pid |-> IF p = 1 THEN 1 ELSE Null]
      /\ subprocess_status_list = [p \in Pid |-> <<>>] /\ successful = [p \in Pid |-> FALSE]
      /\ exit_status = [p \in Pid |-> 0]
      /\ pstatus = [p \in Pid |-> Null] /\ awaited = [p \in Pid |-> Null] /\ parent = [p \in Pid |-> Null]
      /\ monitorOf = [p \in Pid |-> Null] /\ result = [p \in Pid |-> Null]
  BY Zenon DEF Init
<1>5. ContentsOK(kpage)
  <2>1. /\ MonitorsPage.kind = "monitors" /\ "status" \in DOMAIN MonitorsPage
        /\ MonitorsPage.status = [i \in Slot |-> ZeroStatus]
    BY Zenon DEF MonitorsPage
  <2>2. MonitorsPage.status \in [Slot -> StatusRecord]
    BY <2>1, ZeroFields, Zenon
  <2>3. \A g \in Page : kpage[g].kind \in {"monitors", "temp"} => kpage[g] = MonitorsPage
    BY <1>3, NewPagesOK, SMTT(30)
  <2> QED
    BY <2>1, <2>2, <2>3, Zenon DEF ContentsOK
<1>6. ValuesOK
  <2>1. <<>> \in Seq(Monitor)
    BY SMTT(30)
  <2> QED
    BY <1>4, <1>5, <2>1, Zenon DEF ValuesOK
<1>7. \A c \in Pid : pc[c] \in {"user", "none"} /\ (pc[c] = "user" => c = 1) /\ parent[c] = Null /\ pstatus[c] = Null
  BY <1>4, Zenon
<1>8. StagesOK
  BY <1>2, <1>4, <1>7, NullAssumption, Zenon DEF StagesOK
<1>9. FamilyOK
  BY <1>4, <1>7, NullAssumption, Zenon DEF FamilyOK
<1>10. BirthsOK
  BY <1>7, Zenon DEF BirthsOK, Starting
<1>11. ExecsOK
  BY <1>7, Zenon DEF ExecsOK, InExec
<1>12. SlotsOK
  <2> SUFFICES ASSUME NEW p \in Pid, NEW m \in Monitor, Has(p, m)
               PROVE  SlotOK(p, m) /\ ReportsOK(p, m)
    BY Zenon DEF SlotsOK
  <2>1. m[1] = 1 /\ m[2] \in Slot
    BY <1>4, <1>7, Zenon DEF Has, Alive, Monitor
  <2>2. Status(m) = ZeroStatus
    BY <1>3, <2>1, SMTT(30) DEF Status, MonitorsPage
  <2>3. \A d \in Pid : d # 0 /\ pstatus[d] # m
    BY <1>7, NullAssumption, SMTT(30) DEF Pid
  <2>4. \A d \in Pid : ~Uses(p, m, d)
    BY <1>7, <2>2, <2>3, ZeroFields, Zenon DEF Uses
  <2> QED
    BY <2>2, <2>3, <2>4, ZeroFields, Zenon DEF SlotOK, ReportsOK
<1>13. WaitsOK
  BY <1>4, <1>7, SMTT(30) DEF WaitsOK
<1>14. WaitReturnsStatus
  BY <1>4, Zenon DEF WaitReturnsStatus
<1> QED
  BY <1>6, <1>8, <1>9, <1>10, <1>11, <1>12, <1>13, <1>14, Zenon DEF MonitorsInv, MonitorsOK

(* Every step keeps the invariant.                                         *)
LEMMA NextMonitors == ASSUME PreemptHandoff = FALSE, OwnershipInv, MonitorsInv, [Next]_vars
                      PROVE  MonitorsInv'
<1>1. CASE Panic
  <2>1. power' # "on" /\ UNCHANGED <<kpage, pc, temp_kpage, procVars, process_exit_lock, history>>
    BY <1>1, Zenon DEF Panic
  <2> QED
    BY <2>1, StopKeeps, Zenon
<1>2. ASSUME NEW p \in Pid, syscall_handler(p) PROVE MonitorsInv'
  <2>1. CASE halt(p)
    <3>1. power' # "on" /\ UNCHANGED <<kpage, pc, temp_kpage, procVars, process_exit_lock, history>>
      BY <2>1, Zenon DEF halt
    <3> QED
      BY <3>1, StopKeeps, Zenon
  <2>2. ASSUME NEW fits \in BOOLEAN, process_execute(p, fits) PROVE MonitorsInv'
    <3>1. CASE fits /\ get_new_subprocess_monitor(p) # Null
      BY <2>2, <3>1, ExecuteKeeps, Zenon
    <3>2. CASE ~(fits /\ get_new_subprocess_monitor(p) # Null)
      BY <1>1, <2>2, <3>2, Zenon DEF process_execute
    <3> QED
      BY <3>1, <3>2, Zenon
  <2>3. ASSUME NEW pid \in Pid, process_wait(p, pid) PROVE MonitorsInv'
    BY <2>3, WaitKeeps, Zenon
  <2>4. ASSUME NEW status \in ExitStatus \cup {-1}, thread_exit(p, status) PROVE MonitorsInv'
    BY <2>4, ExitCallKeeps, Zenon
  <2> QED
    BY <1>2, <2>1, <2>2, <2>3, <2>4, Zenon DEF syscall_handler
<1>3. ASSUME NEW p \in Pid, KernelStep(p) PROVE MonitorsInv'
  <2>1. CASE process_execute_create(p)
    BY <2>1, CreateFailKeeps, CreateKeeps, Zenon
  <2>2. CASE setup_subprocess_list(p)
    BY <2>2, SetupFailKeeps, SetupKeeps, Zenon
  <2>3. CASE process_exit(p)
    BY <1>1, <2>3, ExitKeeps, Zenon
  <2>4. CASE process_exit_release(p)
    <3>1. CASE subprocess_status_page[p] = Null
      BY <1>1, <2>4, <3>1, Zenon DEF process_exit_release
    <3> QED
      BY <2>4, <3>1, ReleaseKeeps, Zenon
  <2>5. CASE process_exit_files(p)
    <3>1. CASE file_descriptor_page[p] = Null
      BY <1>1, <2>5, <3>1, Zenon DEF process_exit_files
    <3> QED
      BY <2>5, <3>1, FilesKeep, Zenon
  <2> QED
    BY <1>3, <2>1, <2>2, <2>3, <2>4, <2>5, ReturnKeeps, DescriptorsKeep, TellKeeps, HandoffKeeps,
       WaitReturnKeeps, ReportKeeps, Zenon DEF KernelStep
<1>4. CASE UNCHANGED vars
  BY <1>4, StutterKeeps, Zenon
<1> QED
  BY <1>2, <1>3, <1>4, Zenon DEF Next

(* Both invariants together, for the theorems.                             *)
ProcessInv == OwnershipInv /\ MonitorsInv

(* process_execute() and start_process(), if no tick falls between the     *)
(* child's sema_up() and its read of *pstatus: while its parent lives, a   *)
(* process that runs reports to the monitor its parent took for it, and    *)
(* that monitor is in use for nobody else, unless an orphan of an earlier  *)
(* owner of the page still points there.                                   *)
THEOREM ReportsAlwaysArrive == ASSUME PreemptHandoff = FALSE PROVE Spec => []ReportsToOwnMonitor
<1>1. Init => ProcessInv
  BY InitOwnership, InitMonitors, Zenon DEF ProcessInv
<1>2. ProcessInv /\ [Next]_vars => ProcessInv'
  BY NextOwnership, NextMonitors, Zenon DEF ProcessInv
<1>3. ProcessInv => ReportsToOwnMonitor
  BY MonitorsGiveReports, Zenon DEF ProcessInv
<1> QED
  BY <1>1, <1>2, <1>3, PTL DEF Spec

(* process_wait(), under the same assumption: however exec, exit and wait  *)
(* are interleaved, it returns for a process the status that process       *)
(* passed to thread_exit(), and only once that process has passed it.      *)
THEOREM WaitAlwaysRight == ASSUME PreemptHandoff = FALSE PROVE Spec => []WaitReturnsStatus
<1>1. Init => ProcessInv
  BY InitOwnership, InitMonitors, Zenon DEF ProcessInv
<1>2. ProcessInv /\ [Next]_vars => ProcessInv'
  BY NextOwnership, NextMonitors, Zenon DEF ProcessInv
<1>3. ProcessInv => WaitReturnsStatus
  BY Zenon DEF ProcessInv, MonitorsInv
<1> QED
  BY <1>1, <1>2, <1>3, PTL DEF Spec
=============================================================================
