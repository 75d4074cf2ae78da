-------------------------------- MODULE Ide --------------------------------
(***************************************************************************)
(* A channel of the ATA driver (devices/ide.c) with two disks, under the   *)
(* block layer (block.c) and the partitions (partition.c).                 *)
(*                                                                         *)
(* The controller is modelled from the way the driver uses it: it works on *)
(* one command for the disk and sector its registers select, asks for or   *)
(* offers the data (DRQ), and raises its interrupt when the data of a read *)
(* is ready or that of a write is stored.  Reading the status register     *)
(* takes a pending interrupt back.                                         *)
(***************************************************************************)
EXTENDS Integers

CONSTANTS Thread,
          Size,            \* sectors of a disk
          Device,          \* block devices, the disks themselves included
          disk, start, size, type,   \* of each block device
          Value,           \* contents of a sector
          DiskFails,       \* may a command end without DRQ
          Null

ASSUME ThreadAssumption == Null \notin Thread

Disk == {0, 1}
Sector == 0 .. Size - 1

VARIABLES
    lock,                  \* holder of the channel's lock
    expecting_interrupt,
    completion_wait,       \* value of the semaphore
    dev, lba, command,     \* the registers of the channel
    bsy, drq, irq,         \* status bits, interrupt pending
    sector,                \* contents of the disks
    data,                  \* the sector in the controller's buffer
    pc, request, buffer,   \* of each thread
    panic, atCall          \* history: contents of the sectors when the lock was taken

regVars == <<dev, lba, command, bsy, drq, irq, sector, data>>
vars == <<lock, expecting_interrupt, completion_wait, regVars, pc, request, buffer, panic, atCall>>

NoRequest == [op |-> "none", device |-> Null, sector |-> 0, value |-> Null]
Init ==
    /\ lock = Null /\ expecting_interrupt = FALSE /\ completion_wait = 0
    /\ dev = 0 /\ lba = 0 /\ command = "none"
    /\ bsy = FALSE /\ drq = FALSE /\ irq = FALSE
    /\ sector \in {[d \in Disk |-> [s \in Sector |-> v]] : v \in Value}
    /\ data = Null
    /\ pc = [t \in Thread |-> "idle"]
    /\ request = [t \in Thread |-> NoRequest]
    /\ buffer = [t \in Thread |-> Null]
    /\ panic = FALSE /\ atCall = Null

Goto(t, label) == pc' = [pc EXCEPT ![t] = label]

(* The sector of the disk that a request is for: partition_read() and      *)
(* partition_write() add the start of the partition.                       *)
Target(r) == start[r.device] + r.sector
-----------------------------------------------------------------------------
(* block_read() and block_write(): check_sector() panics past the end of   *)
(* the device, the assertion on a write to a foreign partition; through    *)
(* partition_read() and partition_write() the request gets to the driver.  *)
Call(t, r) ==
    /\ ~panic /\ pc[t] = "idle"
    /\ IF r.sector >= size[r.device] \/ (r.op = "write" /\ type[r.device] = "foreign")
       THEN panic' = TRUE /\ UNCHANGED <<pc, request>>
       ELSE /\ request' = [request EXCEPT ![t] = r]
            /\ Goto(t, "lock") /\ UNCHANGED panic
    /\ UNCHANGED <<lock, expecting_interrupt, completion_wait, regVars, buffer, atCall>>

(* Mutant: the channel has no lock.                                        *)
ChannelUnlocked_always == TRUE

ChannelUnlocked == lock = Null

(* ide_read() and ide_write(): lock_acquire(), then select_sector() in the *)
(* idle channel ...                                                        *)
select_sector(t) ==
    LET r == request[t] IN
    /\ ~panic /\ pc[t] = "lock" /\ ChannelUnlocked /\ ~bsy /\ ~drq
    /\ lock' = t
    /\ irq' = FALSE
    /\ dev' = disk[r.device] /\ lba' = Target(r)
    /\ atCall' = sector
    /\ Goto(t, "issue")
    /\ UNCHANGED <<expecting_interrupt, completion_wait, command, bsy, drq, sector, data, request,
                   buffer, panic>>

(* ... issue_pio_command() ...                                             *)
issue_pio_command(t) ==
    /\ ~panic /\ pc[t] = "issue"
    /\ expecting_interrupt' = TRUE
    /\ command' = request[t].op /\ bsy' = TRUE
    /\ Goto(t, IF request[t].op = "read" THEN "sema_down" ELSE "wait_while_busy")
    /\ UNCHANGED <<lock, completion_wait, dev, lba, drq, irq, sector, data, request, buffer,
                   panic, atCall>>

(* ... sema_down(), which ends a write ...                                 *)
sema_down(t) ==
    /\ ~panic /\ pc[t] = "sema_down" /\ completion_wait > 0
    /\ completion_wait' = completion_wait - 1
    /\ Goto(t, IF request[t].op = "read" THEN "wait_while_busy" ELSE "release")
    /\ UNCHANGED <<lock, expecting_interrupt, regVars, request, buffer, panic, atCall>>

(* ... wait_while_busy() and the transfer: input_sector() ends a read,     *)
(* output_sector() lets the disk store the data.  Without DRQ: PANIC.      *)
wait_while_busy(t) ==
    /\ ~panic /\ pc[t] = "wait_while_busy" /\ ~bsy
    /\ IF ~drq
       THEN panic' = TRUE /\ UNCHANGED <<pc, buffer, data, drq, bsy>>
       ELSE /\ drq' = FALSE /\ UNCHANGED panic
            /\ IF request[t].op = "read"
               THEN /\ buffer' = [buffer EXCEPT ![t] = data]
                    /\ Goto(t, "release") /\ UNCHANGED <<data, bsy>>
               ELSE /\ data' = request[t].value /\ bsy' = TRUE
                    /\ Goto(t, "sema_down") /\ UNCHANGED buffer
    /\ UNCHANGED <<lock, expecting_interrupt, completion_wait, dev, lba, command, irq, sector,
                   request, atCall>>

lock_release(t) ==
    /\ ~panic /\ pc[t] = "release"
    /\ lock' = Null
    /\ request' = [request EXCEPT ![t] = NoRequest]
    /\ buffer' = [buffer EXCEPT ![t] = Null]
    /\ Goto(t, "idle")
    /\ UNCHANGED <<expecting_interrupt, completion_wait, regVars, panic, atCall>>

(* interrupt_handler(): acknowledge, and wake the waiter.                  *)
interrupt_handler ==
    /\ ~panic /\ irq
    /\ irq' = FALSE
    /\ completion_wait' = IF expecting_interrupt THEN completion_wait + 1 ELSE completion_wait
    /\ UNCHANGED <<lock, expecting_interrupt, dev, lba, command, bsy, drq, sector, data, pc,
                   request, buffer, panic, atCall>>
-----------------------------------------------------------------------------
(* The controller: the data of a read is ready; it is ready for the data   *)
(* of a write; that data is stored.                                        *)
controller ==
    /\ bsy /\ bsy' = FALSE
    /\ \/ /\ command = "read" /\ drq' = TRUE /\ irq' = TRUE
          /\ data' = sector[dev][lba] /\ UNCHANGED <<sector, command>>
       \/ /\ command = "write" /\ drq' = TRUE
          /\ command' = "store" /\ UNCHANGED <<irq, sector, data>>
       \/ /\ command = "store" /\ irq' = TRUE
          /\ sector' = [sector EXCEPT ![dev][lba] = data] /\ UNCHANGED <<drq, data, command>>
       \/ /\ DiskFails /\ command \in {"read", "write"} /\ irq' = TRUE /\ command' = "none"
          /\ UNCHANGED <<drq, sector, data>>
    /\ UNCHANGED <<lock, expecting_interrupt, completion_wait, dev, lba, pc, request, buffer,
                   panic, atCall>>

Requests == [op : {"read"}, device : Device, sector : 0 .. Size, value : {Null}]
            \cup [op : {"write"}, device : Device, sector : 0 .. Size, value : Value]
Next ==
    \/ \E t \in Thread : \/ \E r \in Requests : Call(t, r)
                         \/ select_sector(t) \/ issue_pio_command(t) \/ sema_down(t)
                         \/ wait_while_busy(t) \/ lock_release(t)
    \/ interrupt_handler \/ controller

(* The controller answers, a thread that can run runs at last, and the     *)
(* lock goes to every thread that waits for it, as sema_up() sees to.      *)
Fairness ==
    /\ WF_vars(interrupt_handler) /\ WF_vars(controller)
    /\ \A t \in Thread : /\ WF_vars(issue_pio_command(t) \/ sema_down(t)
                                    \/ wait_while_busy(t) \/ lock_release(t))
                         /\ SF_vars(select_sector(t))
Spec == Init /\ [][Next]_vars /\ Fairness
-----------------------------------------------------------------------------
(* When a request is done, a read has got what its sector held all along,  *)
(* a write has changed its sector, and no other sector of any disk is      *)
(* different.  A sector of a partition lies within the partition.          *)
TransfersMatch ==
    \A t \in Thread : pc[t] = "release" =>
        LET r == request[t] IN
        /\ r.op = "read" => buffer[t] = sector[disk[r.device]][Target(r)] /\ sector = atCall
        /\ r.op = "write" => sector = [atCall EXCEPT ![disk[r.device]][Target(r)] = r.value]

(* Every interrupt is counted for the request that caused it: when the     *)
(* channel is free no unit and no interrupt is left for the next request.  *)
CompletionsBalanced ==
    /\ completion_wait + (IF irq THEN 1 ELSE 0) <= 1
    /\ lock = Null => completion_wait = 0 /\ ~irq /\ ~bsy /\ ~drq

(* A request that got the lock is done at last, unless the machine panics. *)
RequestsDone == \A t \in Thread : pc[t] = "lock" ~> (pc[t] = "idle" \/ panic)
=============================================================================
