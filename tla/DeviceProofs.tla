---------------------------- MODULE DeviceProofs ----------------------------
(***************************************************************************)
(* For any number of threads, disks of any size and any block devices on   *)
(* them: a request to a disk transfers its own sector and nothing else, and*)
(* leaves no completion for the next one.  For any number of readers and   *)
(* writers, any buffer and any length of lines: the queues of the console  *)
(* and of the keyboard pass every byte on once and in order, and the lines *)
(* of different threads are not mixed.                                     *)
(***************************************************************************)
EXTENDS Ide, Terminal, SequenceTheorems, TLAPS
-----------------------------------------------------------------------------
(***************************************************************************)
(* The disk.  The properties speak of a channel that is free or of a request*)
(* that is done; the invariant says for every stage of the request that    *)
(* holds the channel what the controller may be doing and what is on the   *)
(* disks.                                                                  *)
(***************************************************************************)


(* The controller has nothing to do; works on a command; has ended one,    *)
(* and its interrupt is pending or counted.                                *)
Quiet == ~bsy /\ ~drq /\ ~irq /\ completion_wait = 0
Working(c) == bsy /\ command = c /\ ~drq /\ ~irq /\ completion_wait = 0
Ended == /\ ~bsy
         /\ \/ irq /\ completion_wait = 0
            \/ ~irq /\ completion_wait = 1

DataRead == data = sector[dev][lba]

(* A read: issued, ended, seen to have ended, done.                        *)
ReadStage(t) ==
    /\ sector = atCall
    /\ pc[t] = "issue" => Quiet
    /\ pc[t] = "sema_down" => Working("read") \/ (Ended /\ (drq => DataRead))
    /\ pc[t] = "wait_while_busy" => ~bsy /\ ~irq /\ completion_wait = 0 /\ (drq => DataRead)
    /\ pc[t] = "release" => Quiet /\ buffer[t] = sector[dev][lba]

(* A write: issued, the controller wants the data or has failed, it stores *)
(* the data, done.                                                         *)
WriteStage(t) ==
    LET Stored == sector = [atCall EXCEPT ![dev][lba] = request[t].value]
    IN /\ pc[t] = "issue" => Quiet /\ sector = atCall
       /\ pc[t] = "wait_while_busy" =>
             /\ sector = atCall
             /\ \/ Working("write")
                \/ ~bsy /\ drq /\ ~irq /\ completion_wait = 0 /\ command = "store"
                \/ Ended /\ ~drq
       /\ pc[t] = "sema_down" =>
             \/ Working("store") /\ sector = atCall /\ data = request[t].value
             \/ Ended /\ ~drq /\ Stored
       /\ pc[t] = "release" => Quiet /\ Stored

Inside(t) == pc[t] \in {"issue", "sema_down", "wait_while_busy", "release"}
Stage(t) ==
    LET r == request[t] IN
    /\ dev = disk[r.device] /\ lba = Target(r)
    /\ pc[t] \in {"sema_down", "wait_while_busy"} => expecting_interrupt
    /\ r.op = "read" => ReadStage(t)
    /\ r.op = "write" => WriteStage(t)

ChannelInv ==
    /\ pc \in [Thread -> {"idle", "lock", "issue", "sema_down", "wait_while_busy", "release"}]
    /\ request \in [Thread -> Requests \cup {NoRequest}]
    /\ DOMAIN buffer = Thread
    /\ bsy \in BOOLEAN /\ drq \in BOOLEAN /\ irq \in BOOLEAN /\ completion_wait \in Nat
    /\ lock \in Thread \cup {Null}
    /\ lock = Null => Quiet
    /\ \A t \in Thread : Inside(t) <=> lock = t
    /\ \A t \in Thread : pc[t] # "idle" => request[t].op \in {"read", "write"}
    /\ \A t \in Thread : Inside(t) => Stage(t)

(* Only the thread that holds the channel is inside.                       *)
LEMMA OneInside == ASSUME ChannelInv, Null \notin Thread,
                          NEW t \in Thread, NEW u \in Thread, Inside(t), Inside(u)
                   PROVE  t = u /\ lock = t
BY DEF ChannelInv

(* The channel is at rest at first.                                        *)
LEMMA InitChannel == ASSUME Null \notin Thread, Init PROVE ChannelInv
<1>1. request \in [Thread -> Requests \cup {NoRequest}] BY DEF Init
<1>2. \A t \in Thread : pc[t] = "idle" BY Zenon DEF Init
<1> QED BY <1>1, <1>2, Zenon DEF Init, ChannelInv, Inside, Quiet

(* A step that leaves the channel alone.  Nobody's stage changes if the    *)
(* threads inside keep their request and their place.                      *)
LEMMA ChannelUnchanged ==
    ASSUME ChannelInv, NEW t \in Thread, Inside(t), Inside(t)', request'[t] = request[t],
           pc'[t] = pc[t], buffer'[t] = buffer[t],
           UNCHANGED <<expecting_interrupt, completion_wait, regVars, atCall>>
    PROVE  Stage(t)'
BY DEF ChannelInv, regVars, Stage, ReadStage, WriteStage, Quiet, Working, Ended, DataRead, Target

(* ide_read() or ide_write() is called through block_read() or             *)
(* block_write().                                                          *)
LEMMA CallStep == ASSUME ChannelInv, NEW t \in Thread, NEW r \in Requests, Call(t, r)
                  PROVE  ChannelInv'
<1>1. r.op \in {"read", "write"} BY DEF Requests
<1>2. \A u \in Thread : Inside(u)' => /\ Inside(u) /\ request'[u] = request[u] /\ pc'[u] = pc[u]
                                      /\ buffer'[u] = buffer[u]
  BY DEF Call, ChannelInv, Inside, Goto
<1>3. \A u \in Thread : Inside(u)' => Stage(u)' BY <1>2, ChannelUnchanged DEF Call
<1>4. \A u \in Thread : Inside(u)' <=> lock' = u BY DEF Call, ChannelInv, Inside, Goto
<1>5. /\ pc' \in [Thread -> {"idle", "lock", "issue", "sema_down", "wait_while_busy", "release"}]
      /\ request' \in [Thread -> Requests \cup {NoRequest}]
      /\ \A u \in Thread : pc'[u] # "idle" => request'[u].op \in {"read", "write"}
  BY <1>1 DEF Call, ChannelInv, Goto
<1> QED BY <1>3, <1>4, <1>5 DEF Call, ChannelInv, Quiet, regVars

(* A step of the thread that holds the channel, or takes it, keeps the     *)
(* invariant if it leads to a stage.                                       *)
LEMMA HolderStep ==
    ASSUME ChannelInv, Null \notin Thread, NEW t \in Thread, pc[t] # "idle", lock \in {t, Null},
           lock' = t, NEW label, pc' = [pc EXCEPT ![t] = label], request' = request,
           label \in {"issue", "sema_down", "wait_while_busy", "release"},
           DOMAIN buffer' = Thread, bsy' \in BOOLEAN, drq' \in BOOLEAN, irq' \in BOOLEAN,
           completion_wait' \in Nat, Stage(t)'
    PROVE  ChannelInv'
<1>1. pc'[t] = label /\ \A u \in Thread \ {t} : pc'[u] = pc[u] BY DEF ChannelInv
<1>2. \A u \in Thread : Inside(u)' <=> u = t BY <1>1 DEF ChannelInv, Inside
<1>3. \A u \in Thread : Inside(u)' => Stage(u)' BY <1>2
<1>4. \A u \in Thread : pc'[u] # "idle" => request'[u].op \in {"read", "write"}
  BY <1>1 DEF ChannelInv
<1>5. pc' \in [Thread -> {"idle", "lock", "issue", "sema_down", "wait_while_busy", "release"}]
  BY DEF ChannelInv
<1> QED BY <1>2, <1>3, <1>4, <1>5 DEF ChannelInv

(* The lock is taken and select_sector() writes the registers.             *)
LEMMA SelectStep == ASSUME ChannelInv, Null \notin Thread, NEW t \in Thread, select_sector(t)
                    PROVE  ChannelInv'
<1>1. lock = Null /\ Quiet BY DEF select_sector, ChannelUnlocked, ChannelInv
<1>2. pc'[t] = "issue" BY DEF select_sector, ChannelInv, Goto
<1>3. Stage(t)'
  BY <1>1, <1>2 DEF select_sector, Stage, ReadStage, WriteStage, Quiet, Target
<1> QED BY <1>1, <1>3, HolderStep, Zenon DEF select_sector, ChannelInv, Goto

(* issue_pio_command() expects an interrupt and gives the command.         *)
LEMMA IssueStep == ASSUME ChannelInv, Null \notin Thread, NEW t \in Thread, issue_pio_command(t)
                   PROVE  ChannelInv'
<1>1. lock = t /\ Stage(t) BY DEF issue_pio_command, ChannelInv, Inside
<1>2. request[t].op \in {"read", "write"} BY DEF issue_pio_command, ChannelInv
<1>3. CASE request[t].op = "read"
  <2>1. pc'[t] = "sema_down" BY <1>3 DEF issue_pio_command, ChannelInv, Goto
  <2>2. Stage(t)'
    BY <1>1, <1>3, <2>1 DEF issue_pio_command, Stage, ReadStage, Quiet, Working, Target
  <2> QED BY <1>1, <1>3, <2>2, HolderStep, Zenon DEF issue_pio_command, ChannelInv, Goto
<1>4. CASE request[t].op = "write"
  <2>1. pc'[t] = "wait_while_busy" BY <1>4 DEF issue_pio_command, ChannelInv, Goto
  <2>2. Stage(t)'
    BY <1>1, <1>4, <2>1 DEF issue_pio_command, Stage, WriteStage, Quiet, Working, Target
  <2> QED BY <1>1, <1>4, <2>2, HolderStep, Zenon DEF issue_pio_command, ChannelInv, Goto
<1> QED BY <1>2, <1>3, <1>4

(* sema_down() takes the completion.                                       *)
LEMMA SemaDownStep == ASSUME ChannelInv, Null \notin Thread, NEW t \in Thread, sema_down(t)
                      PROVE  ChannelInv'
<1>1. lock = t /\ Stage(t) BY DEF sema_down, ChannelInv, Inside
<1>2. request[t].op \in {"read", "write"} BY DEF sema_down, ChannelInv
<1>5. UNCHANGED <<lock, expecting_interrupt, dev, lba, command, bsy, drq, irq, sector, data, request,
                  buffer, atCall>>
  BY DEF sema_down, regVars
<1>3. CASE request[t].op = "read"
  <2>1. pc'[t] = "wait_while_busy" BY <1>3 DEF sema_down, ChannelInv, Goto
  <2>2. Ended /\ completion_wait = 1 /\ ~irq /\ completion_wait' = 0
    BY <1>1, <1>3 DEF sema_down, Stage, ReadStage, Working, Ended
  <2>3. Stage(t)'
    BY <1>1, <1>3, <1>5, <2>1, <2>2 DEF sema_down, Stage, ReadStage, Working, Ended, DataRead, Target
  <2>4. pc' = [pc EXCEPT ![t] = pc'[t]] BY <2>1 DEF sema_down, ChannelInv, Goto
  <2> QED BY <1>1, <1>5, <2>1, <2>2, <2>3, <2>4, HolderStep DEF sema_down, ChannelInv
<1>4. CASE request[t].op = "write"
  <2>1. pc'[t] = "release" BY <1>4 DEF sema_down, ChannelInv, Goto
  <2>2. Ended /\ completion_wait = 1 /\ ~irq /\ ~drq /\ completion_wait' = 0
    BY <1>1, <1>4 DEF sema_down, Stage, WriteStage, Working, Ended
  <2>3. Stage(t)'
    BY <1>1, <1>4, <1>5, <2>1, <2>2 DEF sema_down, Stage, WriteStage, Working, Ended, Quiet, Target
  <2>4. pc' = [pc EXCEPT ![t] = pc'[t]] BY <2>1 DEF sema_down, ChannelInv, Goto
  <2> QED BY <1>1, <1>5, <2>1, <2>2, <2>3, <2>4, HolderStep DEF sema_down, ChannelInv
<1> QED BY <1>2, <1>3, <1>4

(* After wait_while_busy() the sector is transferred.                      *)
LEMMA TransferStep == ASSUME ChannelInv, Null \notin Thread, NEW t \in Thread, wait_while_busy(t)
                      PROVE  ChannelInv'
<1>1. lock = t /\ Stage(t) BY DEF wait_while_busy, ChannelInv, Inside
<1>2. request[t].op \in {"read", "write"} BY DEF wait_while_busy, ChannelInv
<1>3. CASE ~drq
  <2>1. UNCHANGED <<lock, expecting_interrupt, completion_wait, dev, lba, command, bsy, drq, irq, sector,
                    data, pc, request, buffer, atCall>>
    BY <1>3 DEF wait_while_busy
  <2> QED BY <2>1 DEF ChannelInv, Inside, Quiet, Stage, ReadStage, WriteStage, Working, Ended, DataRead
<1>4. CASE drq /\ request[t].op = "read"
  <2>1. pc'[t] = "release" /\ buffer'[t] = data BY <1>4 DEF wait_while_busy, ChannelInv, Goto
  <2>2. Stage(t)'
    BY <1>1, <1>4, <2>1 DEF wait_while_busy, Stage, ReadStage, Quiet, DataRead, Target
  <2> QED BY <1>1, <1>4, <2>2, HolderStep, Zenon DEF wait_while_busy, ChannelInv, Goto
<1>5. CASE drq /\ request[t].op = "write"
  <2>1. pc'[t] = "sema_down" BY <1>5 DEF wait_while_busy, ChannelInv, Goto
  <2>2. sector = atCall /\ ~irq /\ completion_wait = 0 /\ command = "store"
    BY <1>1, <1>5 DEF wait_while_busy, Stage, WriteStage, Working, Ended
  <2>3. Stage(t)'
    BY <1>1, <1>5, <2>1, <2>2 DEF wait_while_busy, Stage, WriteStage, Working, Target
  <2> QED BY <1>1, <1>5, <2>3, HolderStep, Zenon DEF wait_while_busy, ChannelInv, Goto
<1> QED BY <1>2, <1>3, <1>4, <1>5 DEF ChannelInv

(* lock_release() leaves the channel at rest.                              *)
LEMMA ReleaseStep == ASSUME ChannelInv, Null \notin Thread, NEW t \in Thread, lock_release(t)
                     PROVE  ChannelInv'
<1>1. lock = t /\ Quiet
  BY DEF lock_release, ChannelInv, Inside, Stage, ReadStage, WriteStage
<1>2. UNCHANGED <<bsy, drq, irq, completion_wait>> BY DEF lock_release, regVars
<1>3. pc'[t] = "idle" /\ \A u \in Thread \ {t} : pc'[u] = pc[u] /\ request'[u] = request[u]
  BY DEF lock_release, ChannelInv, Goto
<1>4. \A u \in Thread : ~Inside(u)' BY <1>1, <1>3 DEF ChannelInv, Inside
<1>5. pc' \in [Thread -> {"idle", "lock", "issue", "sema_down", "wait_while_busy", "release"}]
  BY DEF lock_release, ChannelInv, Goto
<1>6. request' \in [Thread -> Requests \cup {NoRequest}] BY DEF lock_release, ChannelInv
<1>7. \A u \in Thread : pc'[u] # "idle" => request'[u].op \in {"read", "write"}
  BY <1>3 DEF ChannelInv
<1>8. lock' = Null /\ DOMAIN buffer' = Thread BY DEF lock_release, ChannelInv
<1> QED BY <1>1, <1>2, <1>4, <1>5, <1>6, <1>7, <1>8 DEF ChannelInv, Quiet

(* The interrupt and the controller take no thread anywhere; they act for  *)
(* the thread that holds the channel, and only while there is one.         *)
LEMMA DeviceStep ==
    ASSUME ChannelInv, UNCHANGED <<lock, pc, request, buffer>>, NEW t \in Thread, lock = t,
           Null \notin Thread, bsy' \in BOOLEAN, drq' \in BOOLEAN, irq' \in BOOLEAN,
           completion_wait' \in Nat, Stage(t)'
    PROVE  ChannelInv'
<1>1. \A u \in Thread : Inside(u)' => u = t BY DEF ChannelInv, Inside
<1>2. \A u \in Thread : Inside(u)' => Stage(u)' BY <1>1
<1> QED BY <1>2 DEF ChannelInv, Inside

(* interrupt_handler() ups the semaphore of an expected interrupt.         *)
LEMMA InterruptStep == ASSUME ChannelInv, Null \notin Thread, interrupt_handler PROVE ChannelInv'
<1>1. PICK t \in Thread : lock = t /\ Inside(t) /\ Stage(t)
  BY DEF ChannelInv, interrupt_handler, Quiet
<1>2. Ended /\ expecting_interrupt /\ pc[t] \in {"sema_down", "wait_while_busy"}
  <2>1. CASE request[t].op = "read"
    BY <1>1, <2>1 DEF interrupt_handler, Inside, Stage, ReadStage, Quiet, Working, Ended
  <2>2. CASE request[t].op = "write"
    BY <1>1, <2>2 DEF interrupt_handler, Inside, Stage, WriteStage, Quiet, Working, Ended
  <2> QED BY <1>1, <2>1, <2>2 DEF ChannelInv, Inside
<1>3. ~irq' /\ completion_wait' = 1 BY <1>2 DEF interrupt_handler, Ended
<1>4. UNCHANGED <<lock, expecting_interrupt, dev, lba, command, bsy, drq, sector, data, pc, request,
                  buffer, atCall>>
  BY DEF interrupt_handler
<1>5. Ended' BY <1>2, <1>3, <1>4 DEF Ended
<1>6. Stage(t)'
  <2>1. CASE request[t].op = "read"
    <3>1. ReadStage(t) /\ irq BY <1>1, <2>1 DEF interrupt_handler, Stage
    <3>2. pc[t] = "sema_down" /\ (drq => DataRead) /\ sector = atCall
      BY <1>2, <3>1 DEF ReadStage, Working, Ended
    <3>3. ReadStage(t)' BY <1>4, <1>5, <3>2 DEF ReadStage, DataRead
    <3> QED BY <1>1, <1>4, <2>1, <3>3 DEF Stage, Target
  <2>2. CASE request[t].op = "write"
    BY <1>1, <1>2, <1>4, <1>5, <2>2 DEF interrupt_handler, Stage, WriteStage, Working, Ended, Target
  <2> QED BY <1>1, <2>1, <2>2 DEF ChannelInv, Inside
<1>7. bsy' \in BOOLEAN /\ drq' \in BOOLEAN /\ irq' \in BOOLEAN BY <1>4, Zenon DEF ChannelInv, interrupt_handler
<1> QED BY <1>1, <1>3, <1>4, <1>6, <1>7, DeviceStep

(* The controller ends the command it works on.                            *)
LEMMA ControllerStep == ASSUME ChannelInv, Null \notin Thread, controller PROVE ChannelInv'
<1>1. PICK t \in Thread : lock = t /\ Inside(t) /\ Stage(t)
  BY DEF ChannelInv, controller, Quiet
<1>2. UNCHANGED <<lock, expecting_interrupt, completion_wait, dev, lba, pc, request, buffer, atCall>>
      /\ bsy' = FALSE /\ drq' \in BOOLEAN /\ irq' \in BOOLEAN
  BY Zenon DEF controller, ChannelInv
<1>3. ASSUME request[t].op = "read" PROVE Stage(t)'
  <2>1. pc[t] = "sema_down" /\ Working("read")
    BY <1>1, <1>3 DEF controller, Inside, Stage, ReadStage, Quiet, Ended
  <2>2. Ended' /\ sector' = sector /\ (drq' => DataRead')
    BY <1>2, <2>1 DEF controller, Working, Ended, DataRead
  <2> QED BY <1>1, <1>2, <1>3, <2>1, <2>2 DEF Stage, ReadStage, Target
<1>4. ASSUME request[t].op = "write" PROVE Stage(t)'
  <2>1. CASE pc[t] = "wait_while_busy"
    <3>1. Working("write") /\ sector = atCall
      BY <1>1, <1>4, <2>1 DEF controller, Stage, WriteStage, Ended
    <3>2. /\ sector' = sector
          /\ \/ ~bsy' /\ drq' /\ ~irq' /\ completion_wait' = 0 /\ command' = "store"
             \/ Ended' /\ ~drq'
      BY <1>2, <3>1 DEF controller, Working, Ended
    <3> QED BY <1>1, <1>2, <1>4, <2>1, <3>1, <3>2 DEF Stage, WriteStage, Target
  <2>2. CASE pc[t] = "sema_down"
    <3>1. Working("store") /\ sector = atCall /\ data = request[t].value
      BY <1>1, <1>4, <2>2 DEF controller, Stage, WriteStage, Ended
    <3>2. Ended' /\ ~drq' /\ sector' = [atCall EXCEPT ![dev][lba] = request[t].value]
      BY <1>2, <3>1 DEF controller, Working, Ended
    <3> QED BY <1>1, <1>2, <1>4, <2>2, <3>2 DEF Stage, WriteStage, Target
  <2> QED BY <1>1, <1>4, <2>1, <2>2, Zenon DEF controller, Inside, Stage, WriteStage, Quiet
<1>5. Stage(t)' BY <1>1, <1>3, <1>4 DEF ChannelInv, Inside
<1>6. completion_wait' \in Nat BY <1>2 DEF ChannelInv
<1> QED BY <1>1, <1>2, <1>5, <1>6, DeviceStep, Zenon

(* Every step keeps the invariant.                                         *)
LEMMA NextChannel == ASSUME ChannelInv, Null \notin Thread, [Next]_vars PROVE ChannelInv'
<1>1. CASE Next
  <2>1. ASSUME NEW t \in Thread, NEW r \in Requests, Call(t, r) PROVE ChannelInv'
    BY <2>1, CallStep
  <2>2. ASSUME NEW t \in Thread, \/ select_sector(t) \/ issue_pio_command(t) \/ sema_down(t)
                                 \/ wait_while_busy(t) \/ lock_release(t)
        PROVE  ChannelInv'
    BY <2>2, SelectStep, IssueStep, SemaDownStep, TransferStep, ReleaseStep
  <2> QED BY <1>1, <2>1, <2>2, InterruptStep, ControllerStep DEF Next
<1>2. CASE UNCHANGED vars
  <2>1. UNCHANGED <<lock, expecting_interrupt, completion_wait, dev, lba, command, bsy, drq, irq, sector,
                    data, pc, request, buffer, atCall>>
    BY <1>2 DEF vars, regVars
  <2> QED BY <2>1 DEF ChannelInv, Inside, Quiet, Stage, ReadStage, WriteStage, Working, Ended, DataRead
<1> QED BY <1>1, <1>2

(* The invariant of the channel holds in every state.                      *)
LEMMA ChannelAlways == Spec => []ChannelInv
<1>1. Init => ChannelInv BY ThreadAssumption, InitChannel
<1>2. ChannelInv /\ [Next]_vars => ChannelInv' BY ThreadAssumption, NextChannel
<1> QED BY <1>1, <1>2, PTL DEF Spec

(* ide.c, interrupt_handler() and the two sema_down(): in every state at   *)
(* most one completion is pending or counted, and a channel whose lock is  *)
(* free has none left and a controller at rest, whatever the disks fail.   *)
THEOREM CompletionsAreBalanced == Spec => []CompletionsBalanced
<1>1. ASSUME ChannelInv PROVE CompletionsBalanced
  <2>1. CASE lock = Null BY <1>1, <2>1 DEF ChannelInv, Quiet, CompletionsBalanced
  <2>2. CASE lock # Null
    <3>1. PICK t \in Thread : lock = t /\ Inside(t) /\ Stage(t) BY <1>1, <2>2 DEF ChannelInv
    <3>2. Quiet \/ ((irq => completion_wait = 0) /\ completion_wait \in {0, 1})
      <4>1. CASE request[t].op = "read"
        BY <3>1, <4>1 DEF Inside, Stage, ReadStage, Quiet, Working, Ended
      <4>2. CASE request[t].op = "write"
        BY <3>1, <4>2 DEF Inside, Stage, WriteStage, Quiet, Working, Ended
      <4> QED BY <1>1, <3>1, <4>1, <4>2 DEF ChannelInv, Inside
    <3> QED BY <2>2, <3>2 DEF Quiet, CompletionsBalanced
  <2> QED BY <2>1, <2>2
<1> QED BY <1>1, ChannelAlways, PTL

(* ide_read() and ide_write(), through partition_read() and                *)
(* partition_write(): a request that is done has got, or has changed, the  *)
(* sector it names on the disk under its block device, and every other     *)
(* sector of both disks is as it was when it took the channel's lock.      *)
THEOREM TransfersAreRight == Spec => []TransfersMatch
<1>1. ASSUME ChannelInv PROVE TransfersMatch
  BY <1>1 DEF ChannelInv, Inside, Stage, ReadStage, WriteStage, Target, TransfersMatch
<1> QED BY <1>1, ChannelAlways, PTL
-----------------------------------------------------------------------------
(***************************************************************************)
(* The terminal.  Of the bytes that went into a queue the first ones have  *)
(* come out, and the others are in its buffer from its tail on, wherever the*)
(* buffer wraps around.  The readers are kept apart by filesys_lock and the*)
(* writers by console_lock, so that no thread ever finds another at the lock*)
(* of a queue; and the holder of console_lock has printed what stands after*)
(* the last whole line.                                                    *)
(***************************************************************************)


Pos == 0 .. INTQ_BUFSIZE - 1
Byte == Nat \cup Writer \cup {Irq, None}

(* How many bytes a queue holds, and where the i-th of them is.            *)
Count(h, t) == (h - t) % INTQ_BUFSIZE
Slot(t, i) == (t + i - 1) % INTQ_BUFSIZE
Held(b, h, t) == [i \in 1 .. Count(h, t) |-> b[Slot(t, i)]]

(* Of what was put in a queue the first bytes have been got from it, and   *)
(* the others are in its buffer.                                           *)
Passes(in, out, b, h, t) ==
    /\ Len(in) = Len(out) + Count(h, t)
    /\ \A i \in 1 .. Len(out) : in[i] = out[i]
    /\ \A i \in 1 .. Count(h, t) : in[Len(out) + i] = b[Slot(t, i)]

QueueType ==
    /\ buf \in [Queue -> [Pos -> Byte]]
    /\ head \in [Queue -> Pos] /\ tail \in [Queue -> Pos]
HistoryType ==
    /\ typed \in Seq(Byte) /\ read \in Seq(Byte)
    /\ written \in Seq(Byte) /\ sent \in Seq(Byte)
    /\ rbr \in Byte /\ arrived \in Nat

BytesInv ==
    /\ QueueType /\ HistoryType
    /\ Passes(typed, read, buf["rx"], head["rx"], tail["rx"])
    /\ Passes(written, sent, buf["tx"], head["tx"], tail["tx"])

(* A thread that has not done with the queue has the lock of its kind, so  *)
(* that nobody waits while another does.                                   *)
LocksInv ==
    /\ ~failed
    /\ place \in [Caller -> {"idle", "getc", "putc", "wait"}]
    /\ qlock = [q \in Queue |-> qlock[q]]
    /\ \A t \in Reader : place[t] # "putc" /\ (place[t] # "idle" <=> filesys_lock = t)
    /\ \A t \in Writer : place[t] # "getc" /\ (place[t] # "idle" <=> console_lock = t)
    /\ filesys_lock \in Reader \cup {None} /\ console_lock \in Writer \cup {None}
    /\ qlock["rx"] # None => \E t \in Reader : place[t] = "wait"
    /\ qlock["tx"] # None => \E t \in Writer : place[t] = "wait"

(* The bytes of the line that is being printed: whole lines come before    *)
(* them, and they are all from the holder of the console lock.             *)
Printed == IF console_lock = None THEN 0 ELSE column[console_lock]
LinesInv ==
    /\ lines \in Seq(Writer) /\ column \in [Writer -> 0 .. LineLength]
    /\ \A t \in Writer : column[t] # 0 => console_lock = t
    /\ \E m \in Nat : Len(lines) = LineLength * m + Printed
    /\ \A i \in 1 .. Printed : lines[Len(lines) - Printed + i] = console_lock
    /\ LinesWhole

TerminalInv == BytesInv /\ LocksInv /\ LinesInv
-----------------------------------------------------------------------------
(* intq.c: positions in the circular buffer.                               *)

(***************************************************************************)
(* A sum of two positions exceeds the buffer at most once.                 *)
(***************************************************************************)
LEMMA Wraps ==
    /\ \A n \in 0 .. 2 * INTQ_BUFSIZE - 1 :
          n % INTQ_BUFSIZE = IF n < INTQ_BUFSIZE THEN n ELSE n - INTQ_BUFSIZE
    /\ \A n \in Int : -INTQ_BUFSIZE < n /\ n < INTQ_BUFSIZE =>
          n % INTQ_BUFSIZE = IF n >= 0 THEN n ELSE n + INTQ_BUFSIZE
<1>1. INTQ_BUFSIZE \in Nat /\ INTQ_BUFSIZE >= 2 BY TerminalAssumption
<1> QED BY <1>1

(***************************************************************************)
(* next(), intq_empty(), intq_full(): a byte more or less.                 *)
(***************************************************************************)
LEMMA Positions ==
    ASSUME NEW h \in Pos, NEW t \in Pos
    PROVE  /\ Count(h, t) \in Pos /\ next(h) \in Pos
           /\ Count(h, t) = 0 <=> h = t
           /\ next(h) # t => Count(next(h), t) = Count(h, t) + 1
           /\ h # t => Count(h, next(t)) = Count(h, t) - 1
           /\ next(h) = t => next(h) # next(t) /\ h # t
<1>1. INTQ_BUFSIZE \in Nat /\ INTQ_BUFSIZE >= 2 BY TerminalAssumption
<1>2. next(h) = IF h + 1 < INTQ_BUFSIZE THEN h + 1 ELSE 0 BY <1>1, Wraps DEF next, Pos
<1>3. next(t) = IF t + 1 < INTQ_BUFSIZE THEN t + 1 ELSE 0 BY <1>1, Wraps DEF next, Pos
<1>4. \A x, y \in Pos : Count(x, y) = IF x >= y THEN x - y ELSE x - y + INTQ_BUFSIZE
  BY <1>1, Wraps DEF Count, Pos
<1>5. next(h) \in Pos /\ next(t) \in Pos BY <1>1, <1>2, <1>3 DEF Pos
<1>6. /\ Count(h, t) = IF h >= t THEN h - t ELSE h - t + INTQ_BUFSIZE
      /\ Count(next(h), t) = IF next(h) >= t THEN next(h) - t ELSE next(h) - t + INTQ_BUFSIZE
      /\ Count(h, next(t)) = IF h >= next(t) THEN h - next(t) ELSE h - next(t) + INTQ_BUFSIZE
  BY <1>4, <1>5, Zenon
<1>7. h \in Int /\ t \in Int /\ 0 <= h /\ 0 <= t /\ h < INTQ_BUFSIZE /\ t < INTQ_BUFSIZE
  BY <1>1 DEF Pos
<1>8. Count(h, t) \in Pos /\ (Count(h, t) = 0 <=> h = t) BY <1>1, <1>6, <1>7 DEF Pos
<1>9. next(h) # t => Count(next(h), t) = Count(h, t) + 1 BY <1>1, <1>2, <1>6, <1>7
<1>10. h # t => Count(h, next(t)) = Count(h, t) - 1 BY <1>1, <1>3, <1>6, <1>7
<1>11. next(h) = t => next(h) # next(t) /\ h # t BY <1>1, <1>2, <1>3, <1>7
<1> QED BY <1>5, <1>8, <1>9, <1>10, <1>11, Zenon

(***************************************************************************)
(* The bytes of a queue lie from its tail on, up to its head.              *)
(***************************************************************************)
LEMMA Slots ==
    ASSUME NEW h \in Pos, NEW t \in Pos
    PROVE  /\ \A i \in 1 .. INTQ_BUFSIZE : Slot(t, i) \in Pos
           /\ \A i \in 1 .. Count(h, t) : Slot(t, i) # h
           /\ Slot(t, Count(h, t) + 1) = h /\ Slot(t, 1) = t
           /\ \A i \in 1 .. INTQ_BUFSIZE - 1 : Slot(next(t), i) = Slot(t, i + 1)
<1>1. INTQ_BUFSIZE \in Nat /\ INTQ_BUFSIZE >= 2 BY TerminalAssumption
<1>2. Count(h, t) = IF h >= t THEN h - t ELSE h - t + INTQ_BUFSIZE BY <1>1, Wraps DEF Count, Pos
<1>3. next(t) = IF t + 1 < INTQ_BUFSIZE THEN t + 1 ELSE 0 BY <1>1, Wraps DEF next, Pos
<1>4. \A x \in Pos : \A i \in 1 .. INTQ_BUFSIZE :
         Slot(x, i) = IF x + i - 1 < INTQ_BUFSIZE THEN x + i - 1 ELSE x + i - 1 - INTQ_BUFSIZE
  BY <1>1, Wraps DEF Slot, Pos
<1>5. next(t) \in Pos BY <1>1, <1>3 DEF Pos
<1> HIDE DEF Pos
<1>6. \A i \in 1 .. INTQ_BUFSIZE : Slot(t, i) \in Pos BY <1>1, <1>4 DEF Pos
<1>7. \A i \in 1 .. Count(h, t) : Slot(t, i) # h BY <1>1, <1>2, <1>4 DEF Pos
<1>8. Slot(t, Count(h, t) + 1) = h /\ Slot(t, 1) = t BY <1>1, <1>2, <1>4 DEF Pos
<1>9. \A i \in 1 .. INTQ_BUFSIZE - 1 : Slot(next(t), i) = Slot(t, i + 1)
  BY <1>1, <1>3, <1>4, <1>5 DEF Pos
<1> QED BY <1>6, <1>7, <1>8, <1>9, Zenon

(***************************************************************************)
(* intq_putc(): the byte goes in after those that went in before.          *)
(***************************************************************************)
LEMMA Puts ==
    ASSUME NEW in \in Seq(Byte), NEW out \in Seq(Byte), NEW b \in [Pos -> Byte], NEW x \in Byte,
           NEW h \in Pos, NEW t \in Pos, Passes(in, out, b, h, t), next(h) # t
    PROVE  /\ Append(in, x) \in Seq(Byte)
           /\ Passes(Append(in, x), out, [b EXCEPT ![h] = x], next(h), t)
<1> DEFINE c == Count(h, t)
           b2 == [b EXCEPT ![h] = x]
<1>0. c \in Pos /\ Count(next(h), t) = c + 1 BY Positions, Zenon
<1>1. c \in Nat /\ c < INTQ_BUFSIZE /\ Count(next(h), t) = c + 1 /\ INTQ_BUFSIZE \in Nat
  <2> HIDE DEF c
  <2> QED BY <1>0, TerminalAssumption DEF Pos
<1>2. /\ \A i \in 1 .. c : Slot(t, i) # h /\ Slot(t, i) \in Pos
      /\ Slot(t, c + 1) = h
  BY <1>1, Slots
<1> HIDE DEF c
<1>3. Append(in, x) \in Seq(Byte) /\ Len(Append(in, x)) = Len(in) + 1
  OBVIOUS
<1>4. \A i \in 1 .. Len(in) : Append(in, x)[i] = in[i]
  OBVIOUS
<1>5. Append(in, x)[Len(in) + 1] = x
  OBVIOUS
<1>6. Len(in) \in Nat /\ Len(out) \in Nat /\ Len(in) = Len(out) + c BY DEF Passes, c
<1>7. Len(Append(in, x)) = Len(out) + (c + 1) BY <1>3, <1>6, <1>1
<1>8. \A i \in 1 .. Len(out) : Append(in, x)[i] = out[i]
  <2>1. \A i \in 1 .. Len(out) : i \in 1 .. Len(in) BY <1>1, <1>6
  <2> QED BY <2>1, <1>4, Zenon DEF Passes
<1>9. \A i \in 1 .. c + 1 : Append(in, x)[Len(out) + i] = b2[Slot(t, i)]
  <2> SUFFICES ASSUME NEW i \in 1 .. c + 1 PROVE Append(in, x)[Len(out) + i] = b2[Slot(t, i)]
    BY Zenon
  <2>1. CASE i = c + 1
    <3>1. Len(out) + i = Len(in) + 1 BY <2>1, <1>1, <1>6
    <3>2. b2[Slot(t, i)] = x BY <2>1, <1>2
    <3> QED BY <3>1, <3>2, <1>5, Zenon
  <2>2. CASE i # c + 1
    <3>1. i \in 1 .. c /\ Len(out) + i \in 1 .. Len(in) BY <2>2, <1>1, <1>6
    <3>2. b2[Slot(t, i)] = b[Slot(t, i)] BY <3>1, <1>2
    <3>3. in[Len(out) + i] = b[Slot(t, i)] BY <3>1, Zenon DEF Passes, c
    <3> QED BY <3>1, <3>2, <3>3, <1>4, Zenon
  <2> QED BY <2>1, <2>2, Zenon
<1> QED BY <1>1, <1>3, <1>7, <1>8, <1>9, Zenon DEF Passes

(***************************************************************************)
(* intq_getc(): the byte that comes out is the first that has not.         *)
(***************************************************************************)
LEMMA Gets ==
    ASSUME NEW in \in Seq(Byte), NEW out \in Seq(Byte), NEW b \in [Pos -> Byte],
           NEW h \in Pos, NEW t \in Pos, Passes(in, out, b, h, t), h # t
    PROVE  /\ Append(out, b[t]) \in Seq(Byte)
           /\ Passes(in, Append(out, b[t]), b, h, next(t))
<1> DEFINE c == Count(h, t)
           x == b[t]
<1>0. c \in Pos /\ c # 0 /\ Count(h, next(t)) = c - 1 BY Positions, Zenon
<1>1. c \in Nat \ {0} /\ c < INTQ_BUFSIZE /\ Count(h, next(t)) = c - 1 /\ INTQ_BUFSIZE \in Nat
  <2> HIDE DEF c
  <2> QED BY <1>0, TerminalAssumption DEF Pos
<1>2. /\ \A i \in 1 .. INTQ_BUFSIZE - 1 : Slot(next(t), i) = Slot(t, i + 1)
      /\ Slot(t, 1) = t
  BY Slots
<1>a. x \in Byte
  OBVIOUS
<1> HIDE DEF c, x
<1>3. /\ Append(out, x) \in Seq(Byte) /\ Len(Append(out, x)) = Len(out) + 1
      /\ \A i \in 1 .. Len(out) : Append(out, x)[i] = out[i]
      /\ Append(out, x)[Len(out) + 1] = x
  BY <1>a
<1>6. Len(in) \in Nat /\ Len(out) \in Nat /\ Len(in) = Len(out) + c BY DEF Passes, c
<1>7. Len(in) = Len(Append(out, x)) + (c - 1) BY <1>3, <1>6, <1>1
<1>8. \A i \in 1 .. Len(Append(out, x)) : in[i] = Append(out, x)[i]
  <2> SUFFICES ASSUME NEW i \in 1 .. Len(Append(out, x)) PROVE in[i] = Append(out, x)[i]
    OBVIOUS
  <2>1. CASE i \in 1 .. Len(out) BY <2>1, <1>3, Zenon DEF Passes
  <2>2. CASE i \notin 1 .. Len(out)
    <3>1. i = Len(out) + 1 /\ 1 \in 1 .. c BY <2>2, <1>1, <1>3, <1>6
    <3>2. in[Len(out) + 1] = b[Slot(t, 1)] BY <3>1, Zenon DEF Passes, c
    <3> QED BY <3>1, <3>2, <1>2, <1>3, Zenon DEF x
  <2> QED BY <2>1, <2>2, Zenon
<1>9. \A i \in 1 .. c - 1 : in[Len(Append(out, x)) + i] = b[Slot(next(t), i)]
  <2> SUFFICES ASSUME NEW i \in 1 .. c - 1
               PROVE  in[Len(Append(out, x)) + i] = b[Slot(next(t), i)]
    OBVIOUS
  <2>1. /\ i + 1 \in 1 .. c /\ i \in 1 .. INTQ_BUFSIZE - 1
        /\ Len(Append(out, x)) + i = Len(out) + (i + 1)
    BY <1>1, <1>3, <1>6
  <2>2. in[Len(out) + (i + 1)] = b[Slot(t, i + 1)] BY <2>1, Zenon DEF Passes, c
  <2> QED BY <2>1, <2>2, <1>2, Zenon
<1> QED BY <1>1, <1>3, <1>7, <1>8, <1>9, Zenon DEF Passes, x

(***************************************************************************)
(* What has been got and what is in the queue is what has been put.        *)
(***************************************************************************)
LEMMA PassesContent ==
    ASSUME NEW in \in Seq(Byte), NEW out \in Seq(Byte), NEW b \in [Pos -> Byte],
           NEW h \in Pos, NEW t \in Pos, Passes(in, out, b, h, t)
    PROVE  out \o Held(b, h, t) = in
<1> DEFINE c == Count(h, t)
           rest == [i \in 1 .. c |-> b[Slot(t, i)]]
<1>0. c \in Pos BY Positions, Zenon
<1>1. c \in Nat /\ c < INTQ_BUFSIZE /\ INTQ_BUFSIZE \in Nat
  <2> HIDE DEF c
  <2> QED BY <1>0, TerminalAssumption DEF Pos
<1>2. \A i \in 1 .. c : b[Slot(t, i)] \in Byte
  <2>1. \A i \in 1 .. c : i \in 1 .. INTQ_BUFSIZE BY <1>1
  <2> QED BY <2>1, Slots
<1>3. /\ Len(in) = Len(out) + c
      /\ \A i \in 1 .. Len(out) : in[i] = out[i]
      /\ \A i \in 1 .. c : in[Len(out) + i] = b[Slot(t, i)]
  BY Zenon DEF Passes
<1> HIDE DEF c
<1>4. rest \in Seq(Byte) /\ Len(rest) = c BY <1>1, <1>2, IsASeq
<1>8. \A i \in 1 .. c : rest[i] = b[Slot(t, i)]
  OBVIOUS
<1> HIDE DEF rest
<1>5. out \o rest \in Seq(Byte) /\ Len(out \o rest) = Len(out) + c
  BY <1>4, ConcatProperties, Zenon
<1>6. \A i \in 1 .. Len(out) : (out \o rest)[i] = out[i] BY <1>4
<1>7. \A i \in 1 .. c : (out \o rest)[Len(out) + i] = rest[i] BY <1>1, <1>4
<1>9. \A i \in 1 .. Len(in) : (out \o rest)[i] = in[i]
  <2> SUFFICES ASSUME NEW i \in 1 .. Len(in) PROVE (out \o rest)[i] = in[i]
    BY Zenon
  <2>1. CASE i \in 1 .. Len(out) BY <2>1, <1>3, <1>6, Zenon
  <2>2. CASE i \notin 1 .. Len(out)
    <3>1. i - Len(out) \in 1 .. c /\ i = Len(out) + (i - Len(out)) BY <2>2, <1>1, <1>3
    <3> QED BY <3>1, <1>3, <1>7, <1>8, Zenon
  <2> QED BY <2>1, <2>2, Zenon
<1>10. out \o rest = in BY <1>3, <1>5, <1>9, SeqEqual
<1> QED BY <1>10, Zenon DEF Held, rest, c
-----------------------------------------------------------------------------
(* The queues in the state.                                                *)

(***************************************************************************)
(* intq_putc() and intq_getc() work on one queue and leave the other.      *)
(***************************************************************************)
LEMMA PutStep ==
    ASSUME QueueType, NEW q \in Queue, NEW x \in Byte, intq_putc(q, x)
    PROVE  /\ QueueType' /\ tail' = tail
           /\ buf'[q] = [buf[q] EXCEPT ![head[q]] = x] /\ head'[q] = next(head[q])
           /\ \A r \in Queue : r # q => buf'[r] = buf[r] /\ head'[r] = head[r]
<1>1. /\ buf' = [buf EXCEPT ![q][head[q]] = x] /\ head' = [head EXCEPT ![q] = next(@)] /\ tail' = tail
  BY Zenon DEF intq_putc
<1>2. head[q] \in Pos /\ tail[q] \in Pos BY DEF QueueType
<1>3. next(head[q]) \in Pos BY <1>2, Positions, Zenon
<1>4. /\ buf'[q] = [buf[q] EXCEPT ![head[q]] = x] /\ head'[q] = next(head[q])
      /\ \A r \in Queue : r # q => buf'[r] = buf[r] /\ head'[r] = head[r]
  BY <1>1 DEF QueueType
<1>5. QueueType'
  <2>1. [buf[q] EXCEPT ![head[q]] = x] \in [Pos -> Byte] BY <1>2 DEF QueueType
  <2>2. buf' \in [Queue -> [Pos -> Byte]] BY <1>1, <2>1 DEF QueueType
  <2>3. head' \in [Queue -> Pos] /\ tail' \in [Queue -> Pos] BY <1>1, <1>3 DEF QueueType
  <2> QED BY <2>2, <2>3, Zenon DEF QueueType
<1> QED BY <1>1, <1>4, <1>5, Zenon

(***************************************************************************)
(* Likewise for a byte taken out.                                          *)
(***************************************************************************)
LEMMA GetStep ==
    ASSUME QueueType, NEW q \in Queue, intq_getc(q)
    PROVE  /\ QueueType' /\ head' = head /\ buf' = buf
           /\ tail'[q] = next(tail[q])
           /\ \A r \in Queue : r # q => tail'[r] = tail[r]
<1>1. tail' = [tail EXCEPT ![q] = next(@)] /\ head' = head /\ buf' = buf
  BY Zenon DEF intq_getc
<1>2. tail[q] \in Pos BY DEF QueueType
<1>3. next(tail[q]) \in Pos BY <1>2, Positions, Zenon
<1> QED BY <1>1, <1>3 DEF QueueType

(***************************************************************************)
(* Steps that leave the queues and the histories alone.                    *)
(***************************************************************************)
LEMMA BytesKept ==
    ASSUME BytesInv, UNCHANGED <<buf, head, tail, typed, read, written, sent>>,
           rbr' \in Byte, arrived' \in Nat
    PROVE  BytesInv'
BY Zenon DEF BytesInv, QueueType, HistoryType

(***************************************************************************)
(* A byte gets into rx or out of it, into tx or out of it.                 *)
(***************************************************************************)
LEMMA BytesMove ==
    ASSUME BytesInv, rbr' \in Byte, arrived' \in Nat
    PROVE  /\ \A x \in Byte : intq_putc("rx", x) /\ ~intq_full("rx") /\ typed' = Append(typed, x)
                              /\ UNCHANGED <<read, written, sent>> => BytesInv'
           /\ \A x \in Byte : intq_putc("tx", x) /\ ~intq_full("tx") /\ written' = Append(written, x)
                              /\ UNCHANGED <<typed, read, sent>> => BytesInv'
           /\ intq_getc("rx") /\ ~intq_empty("rx") /\ read' = Append(read, buf["rx"][tail["rx"]])
              /\ UNCHANGED <<typed, written, sent>> => BytesInv'
           /\ intq_getc("tx") /\ ~intq_empty("tx") /\ sent' = Append(sent, buf["tx"][tail["tx"]])
              /\ UNCHANGED <<typed, read, written>> => BytesInv'
<1>0. "rx" \in Queue /\ "tx" \in Queue /\ "rx" # "tx" BY DEF Queue
<1>1. QueueType /\ HistoryType BY Zenon DEF BytesInv
<1>2. \A q \in Queue : buf[q] \in [Pos -> Byte] /\ head[q] \in Pos /\ tail[q] \in Pos
  BY <1>1 DEF QueueType
<1>3. /\ typed \in Seq(Byte) /\ read \in Seq(Byte) /\ written \in Seq(Byte) /\ sent \in Seq(Byte)
  BY <1>1, Zenon DEF HistoryType
<1>4. ASSUME NEW x \in Byte, intq_putc("rx", x), ~intq_full("rx"), typed' = Append(typed, x),
             UNCHANGED <<read, written, sent>>
      PROVE  BytesInv'
  <2>1. /\ QueueType' /\ tail' = tail
        /\ buf'["rx"] = [buf["rx"] EXCEPT ![head["rx"]] = x] /\ head'["rx"] = next(head["rx"])
        /\ buf'["tx"] = buf["tx"] /\ head'["tx"] = head["tx"]
    BY <1>0, <1>1, <1>4, PutStep, Zenon
  <2>2. /\ typed' \in Seq(Byte)
        /\ Passes(typed', read, [buf["rx"] EXCEPT ![head["rx"]] = x], next(head["rx"]), tail["rx"])
    BY <1>0, <1>2, <1>3, <1>4, Puts, Zenon DEF BytesInv, intq_full
  <2>3. HistoryType' BY <1>3, <1>4, <2>2, Zenon DEF HistoryType
  <2> QED BY <1>4, <2>1, <2>2, <2>3, Zenon DEF BytesInv
<1>5. ASSUME NEW x \in Byte, intq_putc("tx", x), ~intq_full("tx"), written' = Append(written, x),
             UNCHANGED <<typed, read, sent>>
      PROVE  BytesInv'
  <2>1. /\ QueueType' /\ tail' = tail
        /\ buf'["tx"] = [buf["tx"] EXCEPT ![head["tx"]] = x] /\ head'["tx"] = next(head["tx"])
        /\ buf'["rx"] = buf["rx"] /\ head'["rx"] = head["rx"]
    BY <1>0, <1>1, <1>5, PutStep, Zenon
  <2>2. /\ written' \in Seq(Byte)
        /\ Passes(written', sent, [buf["tx"] EXCEPT ![head["tx"]] = x], next(head["tx"]), tail["tx"])
    BY <1>0, <1>2, <1>3, <1>5, Puts, Zenon DEF BytesInv, intq_full
  <2>3. HistoryType' BY <1>3, <1>5, <2>2, Zenon DEF HistoryType
  <2> QED BY <1>5, <2>1, <2>2, <2>3, Zenon DEF BytesInv
<1>6. ASSUME intq_getc("rx"), ~intq_empty("rx"), read' = Append(read, buf["rx"][tail["rx"]]),
             UNCHANGED <<typed, written, sent>>
      PROVE  BytesInv'
  <2>1. /\ QueueType' /\ head' = head /\ buf' = buf
        /\ tail'["rx"] = next(tail["rx"]) /\ tail'["tx"] = tail["tx"]
    BY <1>0, <1>1, <1>6, GetStep, Zenon
  <2>2. read' \in Seq(Byte) /\ Passes(typed, read', buf["rx"], head["rx"], next(tail["rx"]))
    BY <1>0, <1>2, <1>3, <1>6, Gets, Zenon DEF BytesInv, intq_empty
  <2>3. HistoryType' BY <1>3, <1>6, <2>2, Zenon DEF HistoryType
  <2> QED BY <1>6, <2>1, <2>2, <2>3, Zenon DEF BytesInv
<1>7. ASSUME intq_getc("tx"), ~intq_empty("tx"), sent' = Append(sent, buf["tx"][tail["tx"]]),
             UNCHANGED <<typed, read, written>>
      PROVE  BytesInv'
  <2>1. /\ QueueType' /\ head' = head /\ buf' = buf
        /\ tail'["tx"] = next(tail["tx"]) /\ tail'["rx"] = tail["rx"]
    BY <1>0, <1>1, <1>7, GetStep, Zenon
  <2>2. sent' \in Seq(Byte) /\ Passes(written, sent', buf["tx"], head["tx"], next(tail["tx"]))
    BY <1>0, <1>2, <1>3, <1>7, Gets, Zenon DEF BytesInv, intq_empty
  <2>3. HistoryType' BY <1>3, <1>7, <2>2, Zenon DEF HistoryType
  <2> QED BY <1>7, <2>1, <2>2, <2>3, Zenon DEF BytesInv
<1> QED BY <1>4, <1>5, <1>6, <1>7, Zenon

(***************************************************************************)
(* serial_putc() with interrupts off: a byte goes in after one was sent if *)
(* there was no room.                                                      *)
(***************************************************************************)
LEMMA BytesOff == ASSUME BytesInv, serial_putc_off PROVE BytesInv'
<1> DEFINE h == head["tx"]
           t == tail["tx"]
           b == buf["tx"]
<1>0. "rx" \in Queue /\ "tx" \in Queue /\ "rx" # "tx" BY DEF Queue
<1>1. QueueType /\ HistoryType BY Zenon DEF BytesInv
<1>2. b \in [Pos -> Byte] /\ h \in Pos /\ t \in Pos BY <1>0, <1>1 DEF QueueType
<1>3. /\ typed \in Seq(Byte) /\ read \in Seq(Byte) /\ written \in Seq(Byte) /\ sent \in Seq(Byte)
      /\ rbr \in Byte /\ arrived \in Nat /\ Irq \in Byte
  BY <1>1, Zenon DEF HistoryType, Byte
<1>4. Passes(written, sent, b, h, t) BY Zenon DEF BytesInv
<1>5. /\ buf' = [buf EXCEPT !["tx"][h] = Irq] /\ head' = [head EXCEPT !["tx"] = next(@)]
      /\ written' = Append(written, Irq) /\ typed' = typed /\ read' = read
      /\ rbr' = rbr /\ arrived' = arrived
  BY Zenon DEF serial_putc_off
<1>6. /\ intq_full("tx") => sent' = Append(sent, b[t]) /\ tail' = [tail EXCEPT !["tx"] = next(@)]
      /\ ~intq_full("tx") => sent' = sent /\ tail' = tail
  BY Zenon DEF serial_putc_off
<1>7. next(h) \in Pos /\ next(t) \in Pos BY <1>2, Positions, Zenon
<1>8. /\ buf'["tx"] = [b EXCEPT ![h] = Irq] /\ head'["tx"] = next(h)
      /\ buf'["rx"] = buf["rx"] /\ head'["rx"] = head["rx"] /\ tail'["rx"] = tail["rx"]
  BY <1>0, <1>1, <1>5, <1>6 DEF QueueType
<1>9. QueueType'
  <2>1. [b EXCEPT ![h] = Irq] \in [Pos -> Byte] BY <1>2, <1>3
  <2>2. buf' \in [Queue -> [Pos -> Byte]] BY <1>0, <1>1, <1>5, <2>1 DEF QueueType
  <2>3. head' \in [Queue -> Pos] BY <1>0, <1>1, <1>5, <1>7 DEF QueueType
  <2>4. tail' \in [Queue -> Pos] BY <1>0, <1>1, <1>6, <1>7 DEF QueueType
  <2> QED BY <2>2, <2>3, <2>4, Zenon DEF QueueType
<1>10. sent' \in Seq(Byte) /\ written' \in Seq(Byte)
       /\ Passes(written', sent', [b EXCEPT ![h] = Irq], next(h), tail'["tx"])
  <2>1. CASE intq_full("tx")
    <3>1. next(h) = t /\ h # t /\ next(h) # next(t) BY <1>2, <2>1, Positions, Zenon DEF intq_full
    <3>a. Append(sent, b[t]) \in Seq(Byte) /\ Passes(written, Append(sent, b[t]), b, h, next(t))
      BY <1>2, <1>3, <1>4, <3>1, Gets, Zenon
    <3>2. sent' \in Seq(Byte) /\ Passes(written, sent', b, h, next(t)) BY <1>6, <2>1, <3>a, Zenon
    <3>3. tail'["tx"] = next(t) BY <1>0, <1>1, <1>6, <2>1 DEF QueueType
    <3> QED BY <1>2, <1>3, <1>5, <1>7, <3>1, <3>2, <3>3, Puts, Zenon
  <2>2. CASE ~intq_full("tx")
    <3>1. next(h) # t /\ sent' = sent /\ tail'["tx"] = t BY <2>2, <1>6, Zenon DEF intq_full
    <3> QED BY <1>2, <1>3, <1>4, <1>5, <3>1, Puts, Zenon
  <2> QED BY <2>1, <2>2, Zenon
<1>11. HistoryType' BY <1>3, <1>5, <1>10, Zenon DEF HistoryType
<1> QED BY <1>5, <1>8, <1>9, <1>10, <1>11, Zenon DEF BytesInv

(***************************************************************************)
(* Every step passes bytes on in order.                                    *)
(***************************************************************************)
LEMMA NextBytes == BytesInv /\ LocksInv /\ [TerminalNext]_terminalVars => BytesInv'
<1> SUFFICES ASSUME BytesInv, LocksInv, [TerminalNext]_terminalVars PROVE BytesInv'
  BY Zenon
<1>0. rbr \in Byte /\ arrived \in Nat BY Zenon DEF BytesInv, HistoryType
<1>1. ASSUME NEW t \in Reader, fd_read_stdin(t) PROVE BytesInv'
  BY <1>0, <1>1, BytesKept, Zenon DEF fd_read_stdin, queueVars, uartVars, histVars
<1>2. ASSUME NEW t \in Reader, input_getc(t) PROVE BytesInv'
  <2>1. rbr' = rbr /\ arrived' = arrived /\ UNCHANGED <<typed, written, sent>>
    BY <1>2, Zenon DEF input_getc
  <2>2. CASE intq_empty("rx")
    <3>1. UNCHANGED <<buf, head, tail, read>> BY <1>2, <2>2, Zenon DEF input_getc
    <3> QED BY <1>0, <2>1, <3>1, BytesKept, Zenon
  <2>3. CASE ~intq_empty("rx")
    <3>1. intq_getc("rx") /\ read' = Append(read, buf["rx"][tail["rx"]])
      BY <1>2, <2>3, Zenon DEF input_getc
    <3> QED BY <1>0, <2>1, <2>3, <3>1, BytesMove, Zenon
  <2> QED BY <2>2, <2>3, Zenon
<1>3. ASSUME NEW t \in Writer, acquire_console(t) PROVE BytesInv'
  BY <1>0, <1>3, BytesKept, Zenon DEF acquire_console, queueVars, uartVars, histVars
<1>4. ASSUME NEW t \in Writer, serial_putc(t) PROVE BytesInv'
  <2>1. rbr' = rbr /\ arrived' = arrived /\ UNCHANGED <<typed, read, sent>> /\ t \in Byte
    BY <1>4, Zenon DEF serial_putc, Byte
  <2>2. CASE intq_full("tx")
    <3>1. UNCHANGED <<buf, head, tail, written>> BY <1>4, <2>2, Zenon DEF serial_putc
    <3> QED BY <1>0, <2>1, <3>1, BytesKept, Zenon
  <2>3. CASE ~intq_full("tx")
    <3>1. intq_putc("tx", t) /\ written' = Append(written, t)
      BY <1>4, <2>3, Zenon DEF serial_putc
    <3> QED BY <1>0, <2>1, <2>3, <3>1, BytesMove, Zenon
  <2> QED BY <2>2, <2>3, Zenon
<1>5. ASSUME NEW t \in Writer, release_console(t) PROVE BytesInv'
  BY <1>0, <1>5, BytesKept, Zenon DEF release_console, queueVars, uartVars, histVars
<1>6. ASSUME NEW t \in Caller, intq_wait_return(t) PROVE BytesInv'
  BY <1>0, <1>6, BytesKept, Zenon DEF intq_wait_return, uartVars, histVars
<1>7. CASE serial_putc_off BY <1>7, BytesOff, Zenon
<1>8. CASE serial_flush
  <2>1. /\ intq_getc("tx") /\ ~intq_empty("tx") /\ sent' = Append(sent, buf["tx"][tail["tx"]])
        /\ UNCHANGED <<typed, read, written>> /\ rbr' = rbr /\ arrived' = arrived
    BY <1>8, Zenon DEF serial_flush
  <2> QED BY <1>0, <2>1, BytesMove, Zenon
<1>9. CASE serial_interrupt
  <2>1. arrived' = arrived /\ UNCHANGED <<read, written>> BY <1>9, Zenon DEF serial_interrupt
  <2>2. CASE /\ IF intq_full("rx") THEN UNCHANGED <<queueVars, unblocked, typed, rbr>>
                ELSE intq_putc("rx", rbr) /\ typed' = Append(typed, rbr) /\ rbr' = None
             /\ UNCHANGED <<sent, thre>>
    <3>1. CASE intq_full("rx") BY <1>0, <2>1, <2>2, <3>1, BytesKept, Zenon DEF queueVars
    <3>2. CASE ~intq_full("rx")
      <4>1. None \in Byte BY Zenon DEF Byte
      <4> QED BY <1>0, <2>1, <2>2, <3>2, <4>1, BytesMove, Zenon
    <3> QED BY <3>1, <3>2, Zenon
  <2>3. CASE /\ IF intq_empty("tx") THEN UNCHANGED <<queueVars, unblocked, sent, thre>>
                ELSE intq_getc("tx") /\ sent' = Append(sent, buf["tx"][tail["tx"]]) /\ thre' = FALSE
             /\ UNCHANGED <<typed, rbr>>
    <3>1. CASE intq_empty("tx") BY <1>0, <2>1, <2>3, <3>1, BytesKept, Zenon DEF queueVars
    <3>2. CASE ~intq_empty("tx") BY <1>0, <2>1, <2>3, <3>2, BytesMove, Zenon
    <3> QED BY <3>1, <3>2, Zenon
  <2> QED BY <1>9, <2>2, <2>3, Zenon DEF serial_interrupt
<1>10. CASE keyboard_interrupt
  <2>1. arrived' = arrived + 1 BY <1>10, Zenon DEF keyboard_interrupt
  <2>2. arrived' \in Nat /\ arrived' \in Byte BY <1>0, <2>1 DEF Byte
  <2>3. /\ intq_putc("rx", arrived') /\ typed' = Append(typed, arrived') /\ ~intq_full("rx")
        /\ UNCHANGED <<read, written, sent>> /\ rbr' = rbr
    BY <1>10, Zenon DEF keyboard_interrupt
  <2> QED BY <1>0, <2>2, <2>3, BytesMove, Zenon
<1>11. CASE uart_receive
  <2>1. arrived' = arrived + 1 /\ rbr' = arrived' BY <1>11, Zenon DEF uart_receive
  <2>2. arrived' \in Nat /\ rbr' \in Byte BY <1>0, <2>1 DEF Byte
  <2> QED BY <1>11, <2>2, BytesKept, Zenon DEF uart_receive, queueVars
<1>12. CASE uart_ready BY <1>0, <1>12, BytesKept, Zenon DEF uart_ready, queueVars, histVars
<1>13. CASE UNCHANGED terminalVars
  BY <1>0, <1>13, BytesKept, Zenon DEF terminalVars, queueVars, uartVars, histVars
<1> QED BY <1>1, <1>2, <1>3, <1>4, <1>5, <1>6, <1>7, <1>8, <1>9, <1>10, <1>11, <1>12, <1>13,
           Zenon DEF TerminalNext
-----------------------------------------------------------------------------
(* The locks.                                                              *)

(***************************************************************************)
(* Steps of interrupts and of the hardware leave the threads where they    *)
(* are.                                                                    *)
(***************************************************************************)
LEMMA LocksKept ==
    ASSUME LocksInv, UNCHANGED <<failed, place, qlock, filesys_lock, console_lock>>
    PROVE  LocksInv'
BY Zenon DEF LocksInv

(***************************************************************************)
(* Only the holder of a lock works on its queue: there is never a second   *)
(* thread at the lock of the queue, and no assertion fails.                *)
(***************************************************************************)
LEMMA NextLocks == LocksInv /\ [TerminalNext]_terminalVars => LocksInv'
<1> SUFFICES ASSUME LocksInv, [TerminalNext]_terminalVars PROVE LocksInv'
  BY Zenon
<1>0. /\ Reader \cap Writer = {} /\ None \notin Reader /\ None \notin Writer
      /\ Caller = Reader \cup Writer /\ "rx" \in Queue /\ "tx" \in Queue /\ "rx" # "tx"
  BY TerminalAssumption DEF Caller, Queue
<1>1. ASSUME NEW t \in Reader, fd_read_stdin(t) PROVE LocksInv'
  <2>1. /\ place[t] = "idle" /\ filesys_lock = None /\ filesys_lock' = t
        /\ place' = [place EXCEPT ![t] = "getc"]
        /\ UNCHANGED <<failed, qlock, console_lock>>
    BY <1>1, Zenon DEF fd_read_stdin, GoOn, queueVars
  <2>2. \A z \in Caller : place'[z] = IF z = t THEN "getc" ELSE place[z] BY <1>0, <2>1 DEF LocksInv
  <2>3. place' \in [Caller -> {"idle", "getc", "putc", "wait"}] BY <1>0, <2>1 DEF LocksInv
  <2>4. qlock'["rx"] = None /\ qlock'["tx"] = qlock["tx"] BY <1>0, <2>1, Zenon DEF LocksInv
  <2> QED BY <1>0, <2>1, <2>2, <2>3, <2>4 DEF LocksInv
<1>2. ASSUME NEW t \in Reader, input_getc(t) PROVE LocksInv'
  <2>0. place[t] = "getc" /\ filesys_lock = t /\ UNCHANGED <<failed, console_lock>>
    BY <1>2, Zenon DEF input_getc, LocksInv
  <2>a. qlock["rx"] = None BY <1>0, <2>0, Zenon DEF LocksInv
  <2>1. CASE intq_empty("rx")
    <3>1. /\ qlock' = [qlock EXCEPT !["rx"] = t] /\ place' = [place EXCEPT ![t] = "wait"]
          /\ filesys_lock' = filesys_lock
      BY <1>2, <2>1, <2>a, Zenon DEF input_getc, wait, GoOn
    <3>2. \A z \in Caller : place'[z] = IF z = t THEN "wait" ELSE place[z] BY <1>0, <3>1 DEF LocksInv
    <3>3. place' \in [Caller -> {"idle", "getc", "putc", "wait"}] BY <1>0, <3>1 DEF LocksInv
    <3>4. qlock'["tx"] = qlock["tx"] /\ qlock' = [q \in Queue |-> qlock'[q]]
      BY <1>0, <3>1 DEF LocksInv
    <3> QED BY <1>0, <2>0, <3>1, <3>2, <3>3, <3>4 DEF LocksInv
  <2>2. CASE ~intq_empty("rx")
    <3>1. /\ place' = [place EXCEPT ![t] = "idle"] /\ filesys_lock' = None /\ qlock' = qlock
      BY <1>2, <2>2, Zenon DEF input_getc, intq_getc, GoOn
    <3>2. \A z \in Caller : place'[z] = IF z = t THEN "idle" ELSE place[z] BY <1>0, <3>1 DEF LocksInv
    <3>3. place' \in [Caller -> {"idle", "getc", "putc", "wait"}] BY <1>0, <3>1 DEF LocksInv
    <3> QED BY <1>0, <2>0, <2>a, <3>1, <3>2, <3>3 DEF LocksInv
  <2> QED BY <2>1, <2>2, Zenon
<1>3. ASSUME NEW t \in Writer, acquire_console(t) PROVE LocksInv'
  <2>1. /\ place[t] \in {"idle", "putc"} /\ console_lock \in {t, None} /\ console_lock' = t
        /\ place' = [place EXCEPT ![t] = "putc"]
        /\ UNCHANGED <<failed, qlock, filesys_lock>>
    BY <1>3, Zenon DEF acquire_console, ConsoleUnlocked, GoOn, queueVars
  <2>2. \A z \in Caller : place'[z] = IF z = t THEN "putc" ELSE place[z] BY <1>0, <2>1 DEF LocksInv
  <2>3. place' \in [Caller -> {"idle", "getc", "putc", "wait"}] BY <1>0, <2>1 DEF LocksInv
  <2>4. \A z \in Writer : place[z] # "wait" BY <1>0, <2>1, Zenon DEF LocksInv
  <2>5. qlock["tx"] = None BY <2>4, Zenon DEF LocksInv
  <2> QED BY <1>0, <2>1, <2>2, <2>3, <2>5 DEF LocksInv
<1>4. ASSUME NEW t \in Writer, serial_putc(t) PROVE LocksInv'
  <2>0. place[t] = "putc" /\ console_lock = t /\ UNCHANGED <<filesys_lock, console_lock>>
    BY <1>4, Zenon DEF serial_putc, LocksInv, lockVars
  <2>a. qlock["tx"] = None BY <1>0, <2>0, Zenon DEF LocksInv
  <2>b. ~failed' BY <1>4, <2>0, Zenon DEF serial_putc
  <2>1. CASE intq_full("tx")
    <3>1. qlock' = [qlock EXCEPT !["tx"] = t] /\ place' = [place EXCEPT ![t] = "wait"]
      BY <1>4, <2>1, <2>a, Zenon DEF serial_putc, wait, GoOn
    <3>2. \A z \in Caller : place'[z] = IF z = t THEN "wait" ELSE place[z] BY <1>0, <3>1 DEF LocksInv
    <3>3. place' \in [Caller -> {"idle", "getc", "putc", "wait"}] BY <1>0, <3>1 DEF LocksInv
    <3>4. qlock'["rx"] = qlock["rx"] /\ qlock' = [q \in Queue |-> qlock'[q]]
      BY <1>0, <3>1 DEF LocksInv
    <3> QED BY <1>0, <2>0, <2>b, <3>1, <3>2, <3>3, <3>4 DEF LocksInv
  <2>2. CASE ~intq_full("tx")
    <3>1. place' = place /\ qlock' = qlock BY <1>4, <2>2, Zenon DEF serial_putc, intq_putc
    <3> QED BY <2>0, <2>b, <3>1, Zenon DEF LocksInv
  <2> QED BY <2>1, <2>2, Zenon
<1>5. ASSUME NEW t \in Writer, release_console(t) PROVE LocksInv'
  <2>1. CASE console_lock_depth > 0
    BY <1>5, <2>1, LocksKept, Zenon DEF release_console, queueVars
  <2>2. CASE ~(console_lock_depth > 0)
    <3>1. /\ place[t] = "putc" /\ console_lock = t /\ console_lock' = None
          /\ place' = [place EXCEPT ![t] = "idle"] /\ UNCHANGED <<failed, qlock, filesys_lock>>
      BY <1>5, <2>2, Zenon DEF release_console, GoOn, queueVars
    <3>2. \A z \in Caller : place'[z] = IF z = t THEN "idle" ELSE place[z] BY <1>0, <3>1 DEF LocksInv
    <3>3. place' \in [Caller -> {"idle", "getc", "putc", "wait"}] BY <1>0, <3>1 DEF LocksInv
    <3>4. qlock["tx"] = None BY <1>0, <3>1, Zenon DEF LocksInv
    <3> QED BY <1>0, <3>1, <3>2, <3>3, <3>4 DEF LocksInv
  <2> QED BY <2>1, <2>2, Zenon
<1>6. ASSUME NEW t \in Caller, intq_wait_return(t) PROVE LocksInv'
  <2>0. \A z \in Caller : place[z] # "lock" BY DEF LocksInv
  <2>1. ~failed' BY <1>6, <2>0, Zenon DEF intq_wait_return
  <2>2. place[t] = "wait" /\ UNCHANGED <<filesys_lock, console_lock>>
    BY <1>6, Zenon DEF intq_wait_return, lockVars
  <2>3. CASE t \in Reader
    <3>1. /\ qlock' = [qlock EXCEPT !["rx"] = None] /\ place' = [place EXCEPT ![t] = "getc"]
      BY <1>6, <2>3, Zenon DEF intq_wait_return, GoOn
    <3>2. \A z \in Caller : place'[z] = IF z = t THEN "getc" ELSE place[z] BY <1>0, <3>1 DEF LocksInv
    <3>3. place' \in [Caller -> {"idle", "getc", "putc", "wait"}] BY <1>0, <2>3, <3>1 DEF LocksInv
    <3>4. qlock'["rx"] = None /\ qlock'["tx"] = qlock["tx"] /\ qlock' = [q \in Queue |-> qlock'[q]]
      BY <1>0, <3>1 DEF LocksInv
    <3> QED BY <1>0, <2>1, <2>2, <2>3, <3>2, <3>3, <3>4 DEF LocksInv
  <2>4. CASE t \notin Reader
    <3>0. t \in Writer BY <1>0, <2>4, Zenon
    <3>1. /\ qlock' = [qlock EXCEPT !["tx"] = None] /\ place' = [place EXCEPT ![t] = "putc"]
      BY <1>0, <1>6, <2>4, Zenon DEF intq_wait_return, GoOn
    <3>2. \A z \in Caller : place'[z] = IF z = t THEN "putc" ELSE place[z] BY <1>0, <3>1 DEF LocksInv
    <3>3. place' \in [Caller -> {"idle", "getc", "putc", "wait"}] BY <1>0, <3>1 DEF LocksInv
    <3>4. qlock'["tx"] = None /\ qlock'["rx"] = qlock["rx"] /\ qlock' = [q \in Queue |-> qlock'[q]]
      BY <1>0, <3>1 DEF LocksInv
    <3> QED BY <1>0, <2>1, <2>2, <3>0, <3>2, <3>3, <3>4 DEF LocksInv
  <2> QED BY <2>3, <2>4, Zenon
<1>7. CASE serial_putc_off BY <1>7, LocksKept, Zenon DEF serial_putc_off, lockVars
<1>8. CASE serial_flush BY <1>8, LocksKept, Zenon DEF serial_flush, intq_getc, lockVars
<1>9. CASE serial_interrupt
  BY <1>9, LocksKept, Zenon DEF serial_interrupt, intq_getc, intq_putc, lockVars, queueVars
<1>10. CASE keyboard_interrupt BY <1>10, LocksKept, Zenon DEF keyboard_interrupt, intq_putc, lockVars
<1>11. CASE uart_receive BY <1>11, LocksKept, Zenon DEF uart_receive, queueVars, lockVars
<1>12. CASE uart_ready BY <1>12, LocksKept, Zenon DEF uart_ready, queueVars, lockVars
<1>13. CASE UNCHANGED terminalVars
  BY <1>13, LocksKept, Zenon DEF terminalVars, queueVars, lockVars
<1> QED BY <1>1, <1>2, <1>3, <1>4, <1>5, <1>6, <1>7, <1>8, <1>9, <1>10, <1>11, <1>12, <1>13,
           Zenon DEF TerminalNext
-----------------------------------------------------------------------------
(* The lines.                                                              *)

(***************************************************************************)
(* The byte that starts the line of byte i is not after it; and byte c of  *)
(* line m is on line m.                                                    *)
(***************************************************************************)
LEMMA LineOf ==
    /\ \A i \in Nat \ {0} : LineLength * ((i - 1) \div LineLength) + 1 \in 1 .. i
    /\ \A m \in Nat : \A c \in 0 .. LineLength - 1 : (LineLength * m + c) \div LineLength = m
<1>0. LineLength \in Nat /\ LineLength > 0 BY TerminalAssumption
<1>1. \A x \in Nat : /\ x \div LineLength \in Nat /\ x % LineLength \in 0 .. LineLength - 1
                     /\ x = LineLength * (x \div LineLength) + (x % LineLength)
  BY <1>0
<1>2. \A y \in Nat : LineLength * y \in Nat BY <1>0
<1>3. ASSUME NEW i \in Nat \ {0} PROVE LineLength * ((i - 1) \div LineLength) + 1 \in 1 .. i
  <2>1. i - 1 \in Nat
    OBVIOUS
  <2>2. PICK y \in Nat, r \in 0 .. LineLength - 1 :
            y = (i - 1) \div LineLength /\ i - 1 = LineLength * y + r
    BY <1>1, <2>1, Zenon
  <2>3. LineLength * y \in Nat BY <1>2
  <2>4. LineLength * y + 1 \in 1 .. i BY <2>2, <2>3, <1>0
  <2> QED BY <2>2, <2>4, Zenon
<1>4. ASSUME NEW m \in Nat, NEW c \in 0 .. LineLength - 1
      PROVE  (LineLength * m + c) \div LineLength = m
  <2>0. LineLength * m + c \in Nat BY <1>0, <1>2
  <2>1. PICK y \in Nat, r \in 0 .. LineLength - 1 :
            y = (LineLength * m + c) \div LineLength /\ LineLength * m + c = LineLength * y + r
    BY <1>1, <2>0, Zenon
  <2>2. LineLength * (m - y) = r - c
    <3>1. LineLength * (m - y) = LineLength * m - LineLength * y BY <1>0
    <3> QED BY <1>0, <1>2, <2>1, <3>1
  <2>3. CASE m > y
    <3>1. m - y - 1 \in Nat BY <2>3
    <3>2. LineLength * (m - y) = LineLength * (m - y - 1) + LineLength BY <1>0
    <3> QED BY <1>0, <1>2, <2>2, <3>1, <3>2
  <2>4. CASE m < y
    <3>1. y - m - 1 \in Nat BY <2>4
    <3>2. LineLength * (m - y) = -(LineLength * (y - m - 1)) - LineLength BY <1>0
    <3> QED BY <1>0, <1>2, <2>2, <3>1, <3>2
  <2>5. CASE m = y BY <2>1, <2>5, Zenon
  <2> QED BY <2>3, <2>4, <2>5
<1> QED BY <1>3, <1>4, Zenon

(***************************************************************************)
(* putchar_have_lock(): the byte belongs to the line that is being         *)
(* printed.                                                                *)
(***************************************************************************)
LEMMA LineGrows ==
    ASSUME LinesInv, NEW t \in Writer, console_lock = t, console_lock' = t,
           column[t] < LineLength, column' = [column EXCEPT ![t] = @ + 1],
           lines' = Append(lines, t)
    PROVE  LinesInv'
<1> DEFINE n == Len(lines)
           c == column[t]
<1>0. LineLength \in Nat /\ LineLength > 0 /\ t # None BY TerminalAssumption
<1>1. /\ lines \in Seq(Writer) /\ column \in [Writer -> 0 .. LineLength]
      /\ \A z \in Writer : column[z] # 0 => console_lock = z
      /\ LinesWhole
  BY Zenon DEF LinesInv
<1>2. Printed = c /\ c \in 0 .. LineLength - 1 /\ n \in Nat BY <1>0, <1>1 DEF Printed
<1>3. PICK m \in Nat : n = LineLength * m + c BY <1>2, Zenon DEF LinesInv
<1>4. \A i \in 1 .. c : lines[n - c + i] = t BY <1>2, Zenon DEF LinesInv
<1>5. /\ lines' \in Seq(Writer) /\ Len(lines') = n + 1 /\ lines'[n + 1] = t
      /\ \A i \in 1 .. n : lines'[i] = lines[i]
  BY <1>1
<1>6. column'[t] = c + 1 /\ column' \in [Writer -> 0 .. LineLength]
      /\ \A z \in Writer : z # t => column'[z] = column[z]
  BY <1>0, <1>1, <1>2
<1>7. Printed' = c + 1 BY <1>0, <1>6, Zenon DEF Printed
<1> HIDE DEF n, c
<1>8. Len(lines') = LineLength * m + (c + 1)
  <2>1. LineLength * m \in Int BY <1>0
  <2> QED BY <2>1, <1>2, <1>3, <1>5
<1>9. \A i \in 1 .. c + 1 : lines'[Len(lines') - (c + 1) + i] = t
  <2> SUFFICES ASSUME NEW i \in 1 .. c + 1 PROVE lines'[Len(lines') - (c + 1) + i] = t
    BY Zenon
  <2>1. LineLength * m \in Nat BY <1>0
  <2>2. CASE i = c + 1
    <3>1. Len(lines') - (c + 1) + i = n + 1 BY <2>2, <1>2, <1>5
    <3> QED BY <3>1, <1>5, Zenon
  <2>3. CASE i # c + 1
    <3>1. /\ i \in 1 .. c /\ Len(lines') - (c + 1) + i = n - c + i /\ n - c + i \in 1 .. n
      BY <2>1, <2>3, <1>2, <1>3, <1>5
    <3> QED BY <3>1, <1>4, <1>5, Zenon
  <2> QED BY <2>2, <2>3, Zenon
<1>10. LinesWhole'
  <2> SUFFICES ASSUME NEW i \in 1 .. n + 1
               PROVE  lines'[i] = lines'[LineLength * ((i - 1) \div LineLength) + 1]
    BY <1>5, Zenon DEF LinesWhole
  <2>1. CASE i = n + 1
    <3>1. i - 1 = LineLength * m + c BY <2>1, <1>2, <1>3
    <3>2. (i - 1) \div LineLength = m BY <3>1, <1>2, LineOf, Zenon
    <3>3. LineLength * m \in Nat BY <1>0
    <3>4. CASE c = 0
      <4>1. LineLength * m + 1 = n + 1 BY <3>3, <3>4, <1>3
      <4> QED BY <4>1, <3>2, <2>1, Zenon
    <3>5. CASE c # 0
      <4>1. LineLength * m + 1 = n - c + 1 /\ n - c + 1 \in 1 .. n /\ 1 \in 1 .. c
        BY <3>3, <3>5, <1>2, <1>3
      <4>2. lines'[LineLength * m + 1] = t BY <4>1, <1>4, <1>5, Zenon
      <4> QED BY <4>2, <3>2, <2>1, <1>5, Zenon
    <3> QED BY <3>4, <3>5, Zenon
  <2>2. CASE i # n + 1
    <3>1. i \in 1 .. n /\ i \in Nat \ {0} BY <2>2, <1>2
    <3>2. LineLength * ((i - 1) \div LineLength) + 1 \in 1 .. i BY <3>1, LineOf, Zenon
    <3>3. LineLength * ((i - 1) \div LineLength) + 1 \in 1 .. n BY <3>1, <3>2, <1>2
    <3> QED BY <3>1, <3>3, <1>1, <1>5, Zenon DEF LinesWhole, n
  <2> QED BY <2>1, <2>2, Zenon
<1>11. \A z \in Writer : column'[z] # 0 => console_lock' = z BY <1>1, <1>6, Zenon
<1>12. \E k \in Nat : Len(lines') = LineLength * k + Printed' BY <1>7, <1>8, Zenon
<1>13. \A i \in 1 .. Printed' : lines'[Len(lines') - Printed' + i] = console_lock'
  BY <1>7, <1>9, Zenon
<1> QED BY <1>5, <1>6, <1>10, <1>11, <1>12, <1>13, Zenon DEF LinesInv

(***************************************************************************)
(* release_console(): the line is whole.                                   *)
(***************************************************************************)
LEMMA LineEnds ==
    ASSUME LinesInv, NEW t \in Writer, console_lock = t, console_lock' = None,
           column[t] = LineLength, column' = [column EXCEPT ![t] = 0], lines' = lines
    PROVE  LinesInv'
<1>0. LineLength \in Nat /\ LineLength > 0 /\ t # None BY TerminalAssumption
<1>1. Printed = LineLength /\ Printed' = 0 BY <1>0, Zenon DEF Printed
<1>2. PICK m \in Nat : Len(lines) = LineLength * m + LineLength BY <1>1, Zenon DEF LinesInv
<1>3. LineLength * m + LineLength = LineLength * (m + 1) + 0 BY <1>0
<1>4. \E k \in Nat : Len(lines') = LineLength * k + Printed'
  <2>1. m + 1 \in Nat
    OBVIOUS
  <2> QED BY <1>1, <1>2, <1>3, <2>1, Zenon
<1>5. column' \in [Writer -> 0 .. LineLength] /\ \A z \in Writer : column'[z] = 0
  BY <1>0 DEF LinesInv
<1>6. LinesWhole' BY Zenon DEF LinesInv, LinesWhole
<1>7. \A i \in 1 .. Printed' : lines'[Len(lines') - Printed' + i] = console_lock' BY <1>1
<1> QED BY <1>4, <1>5, <1>6, <1>7, Zenon DEF LinesInv

(***************************************************************************)
(* acquire_console() and all other steps leave the lines alone.            *)
(***************************************************************************)
LEMMA LinesKept ==
    ASSUME LinesInv, UNCHANGED <<lines, column>>,
           console_lock' = console_lock \/ (console_lock = None /\ console_lock' \in Writer)
    PROVE  LinesInv'
<1>0. None \notin Writer BY TerminalAssumption
<1>1. Printed' = Printed
  <2>1. CASE console_lock' = console_lock BY <2>1, Zenon DEF Printed
  <2>2. CASE console_lock = None /\ console_lock' \in Writer
    <3>1. column[console_lock'] = 0 BY <1>0, <2>2, Zenon DEF LinesInv
    <3> QED BY <1>0, <2>2, <3>1, Zenon DEF Printed
  <2> QED BY <2>1, <2>2, Zenon
<1>2. console_lock' # console_lock => Printed = 0 BY Zenon DEF Printed
<1>3. LinesWhole' BY Zenon DEF LinesInv, LinesWhole
<1>4. \A i \in 1 .. Printed' : lines'[Len(lines') - Printed' + i] = console_lock'
  <2>1. CASE console_lock' = console_lock BY <2>1, <1>1, Zenon DEF LinesInv
  <2>2. CASE console_lock' # console_lock BY <2>2, <1>1, <1>2
  <2> QED BY <2>1, <2>2, Zenon
<1>5. \A z \in Writer : column'[z] # 0 => console_lock' = z BY <1>0, Zenon DEF LinesInv
<1>6. \E k \in Nat : Len(lines') = LineLength * k + Printed' BY <1>1, Zenon DEF LinesInv
<1> QED BY <1>3, <1>4, <1>5, <1>6, Zenon DEF LinesInv

(***************************************************************************)
(* Every step keeps the lines whole.                                       *)
(***************************************************************************)
LEMMA NextLines == LinesInv /\ LocksInv /\ [TerminalNext]_terminalVars => LinesInv'
<1> SUFFICES ASSUME LinesInv, LocksInv, [TerminalNext]_terminalVars PROVE LinesInv'
  BY Zenon
<1>1. ASSUME NEW t \in Reader, fd_read_stdin(t) PROVE LinesInv'
  BY <1>1, LinesKept, Zenon DEF fd_read_stdin, histVars
<1>2. ASSUME NEW t \in Reader, input_getc(t) PROVE LinesInv'
  BY <1>2, LinesKept, Zenon DEF input_getc
<1>3. ASSUME NEW t \in Writer, acquire_console(t) PROVE LinesInv'
  BY <1>3, LinesKept, Zenon DEF acquire_console, ConsoleUnlocked, histVars
<1>4. ASSUME NEW t \in Writer, serial_putc(t) PROVE LinesInv'
  <2>0. place[t] = "putc" /\ console_lock = t /\ console_lock' = t /\ column[t] < LineLength
    BY <1>4, Zenon DEF serial_putc, LocksInv, lockVars
  <2>1. CASE intq_full("tx") BY <1>4, <2>1, <2>0, LinesKept, Zenon DEF serial_putc
  <2>2. CASE ~intq_full("tx")
    <3>1. lines' = Append(lines, t) /\ column' = [column EXCEPT ![t] = @ + 1]
      BY <1>4, <2>2, Zenon DEF serial_putc
    <3> QED BY <2>0, <3>1, LineGrows, Zenon
  <2> QED BY <2>1, <2>2, Zenon
<1>5. ASSUME NEW t \in Writer, release_console(t) PROVE LinesInv'
  <2>1. CASE console_lock_depth > 0
    BY <1>5, <2>1, LinesKept, Zenon DEF release_console, histVars
  <2>2. CASE ~(console_lock_depth > 0)
    BY <1>5, <2>2, LineEnds, Zenon DEF release_console, histVars
  <2> QED BY <2>1, <2>2, Zenon
<1>6. ASSUME NEW t \in Caller, intq_wait_return(t) PROVE LinesInv'
  BY <1>6, LinesKept, Zenon DEF intq_wait_return, lockVars, histVars
<1>7. CASE serial_putc_off BY <1>7, LinesKept, Zenon DEF serial_putc_off, lockVars
<1>8. CASE serial_flush BY <1>8, LinesKept, Zenon DEF serial_flush, lockVars
<1>9. CASE serial_interrupt BY <1>9, LinesKept, Zenon DEF serial_interrupt, lockVars
<1>10. CASE keyboard_interrupt BY <1>10, LinesKept, Zenon DEF keyboard_interrupt, lockVars
<1>11. CASE uart_receive BY <1>11, LinesKept, Zenon DEF uart_receive, lockVars
<1>12. CASE uart_ready BY <1>12, LinesKept, Zenon DEF uart_ready, lockVars, histVars
<1>13. CASE UNCHANGED terminalVars
  BY <1>13, LinesKept, Zenon DEF terminalVars, lockVars, histVars
<1> QED BY <1>1, <1>2, <1>3, <1>4, <1>5, <1>6, <1>7, <1>8, <1>9, <1>10, <1>11, <1>12, <1>13,
           Zenon DEF TerminalNext

(***************************************************************************)
(* At boot the queues and the console are empty.                           *)
(***************************************************************************)
LEMMA InitTerminal == TerminalInit => TerminalInv
<1> SUFFICES ASSUME TerminalInit PROVE TerminalInv
  BY Zenon
<1>0. /\ INTQ_BUFSIZE \in Nat /\ INTQ_BUFSIZE >= 2 /\ LineLength \in Nat /\ 0 \in Pos
      /\ None \notin Reader /\ None \notin Writer
  BY TerminalAssumption DEF Pos
<1>1. BytesInv
  <2>1. QueueType BY <1>0 DEF TerminalInit, QueueType, Pos, Byte
  <2>2. HistoryType BY DEF TerminalInit, HistoryType, Byte
  <2>3. \A b : Passes(<<>>, <<>>, b, 0, 0)
    <3>1. Count(0, 0) = 0 BY <1>0, Positions, Zenon
    <3> QED BY <3>1 DEF Passes
  <2>4. head["rx"] = 0 /\ tail["rx"] = 0 /\ head["tx"] = 0 /\ tail["tx"] = 0
    BY DEF TerminalInit, Queue
  <2>5. typed = <<>> /\ read = <<>> /\ written = <<>> /\ sent = <<>> BY Zenon DEF TerminalInit
  <2> QED BY <2>1, <2>2, <2>3, <2>4, <2>5, Zenon DEF BytesInv
<1>2. LocksInv BY <1>0 DEF TerminalInit, LocksInv, Caller, Queue
<1>3. LinesInv
  <2>1. Printed = 0 BY Zenon DEF TerminalInit, Printed
  <2>2. lines = <<>> /\ Len(lines) = 0 /\ lines \in Seq(Writer) BY DEF TerminalInit
  <2>3. LineLength * 0 + 0 = 0 BY <1>0
  <2>4. column \in [Writer -> 0 .. LineLength] /\ \A t \in Writer : column[t] = 0
    BY <1>0 DEF TerminalInit
  <2>5. LinesWhole /\ \A i \in 1 .. Printed : lines[Len(lines) - Printed + i] = console_lock
    BY <2>1, <2>2 DEF LinesWhole
  <2>6. \E m \in Nat : Len(lines) = LineLength * m + Printed BY <2>1, <2>2, <2>3
  <2> QED BY <2>2, <2>4, <2>5, <2>6, Zenon DEF LinesInv
<1> QED BY <1>1, <1>2, <1>3, Zenon DEF TerminalInv

(***************************************************************************)
(* intq.c, serial.c, input.c, console.c: for any number of readers and     *)
(* writers, any buffer and any length of lines, every byte that goes into  *)
(* a queue comes out of it once and in order, over every mixture of        *)
(* interrupts, polling, waiting and flushing; no assertion fails; and the  *)
(* lines of different threads are not mixed.                               *)
(***************************************************************************)
THEOREM BytesAlwaysInOrder == TerminalSpec => []BytesInOrder
<1>1. TerminalInv /\ [TerminalNext]_terminalVars => TerminalInv'
  BY NextBytes, NextLocks, NextLines, Zenon DEF TerminalInv
<1>2. TerminalInv => BytesInOrder
  <2> SUFFICES ASSUME TerminalInv PROVE BytesInOrder
    BY Zenon
  <2>1. ~failed /\ LinesWhole BY Zenon DEF TerminalInv, LocksInv, LinesInv
  <2>2. "rx" \in Queue /\ "tx" \in Queue BY DEF Queue
  <2>7. read \o Content("rx") = typed
    <3>1. buf["rx"] \in [Pos -> Byte] /\ head["rx"] \in Pos /\ tail["rx"] \in Pos
      BY <2>2 DEF TerminalInv, BytesInv, QueueType
    <3>2. typed \in Seq(Byte) /\ read \in Seq(Byte) BY Zenon DEF TerminalInv, BytesInv, HistoryType
    <3>3. Passes(typed, read, buf["rx"], head["rx"], tail["rx"]) BY Zenon DEF TerminalInv, BytesInv
    <3>4. read \o Held(buf["rx"], head["rx"], tail["rx"]) = typed
      BY <3>1, <3>2, <3>3, PassesContent
    <3>5. Content("rx") = Held(buf["rx"], head["rx"], tail["rx"])
      BY Zenon DEF Content, Held, Count, Slot
    <3> QED BY <3>4, <3>5
  <2>8. sent \o Content("tx") = written
    <3>1. buf["tx"] \in [Pos -> Byte] /\ head["tx"] \in Pos /\ tail["tx"] \in Pos
      BY <2>2 DEF TerminalInv, BytesInv, QueueType
    <3>2. written \in Seq(Byte) /\ sent \in Seq(Byte) BY Zenon DEF TerminalInv, BytesInv, HistoryType
    <3>3. Passes(written, sent, buf["tx"], head["tx"], tail["tx"]) BY Zenon DEF TerminalInv, BytesInv
    <3>4. sent \o Held(buf["tx"], head["tx"], tail["tx"]) = written
      BY <3>1, <3>2, <3>3, PassesContent
    <3>5. Content("tx") = Held(buf["tx"], head["tx"], tail["tx"])
      BY Zenon DEF Content, Held, Count, Slot
    <3> QED BY <3>4, <3>5
  <2> QED BY <2>1, <2>7, <2>8, Zenon DEF BytesInOrder, QueuesAreFifo
<1> QED BY <1>1, <1>2, InitTerminal, PTL DEF TerminalSpec
=============================================================================
