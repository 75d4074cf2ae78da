----------------------------- MODULE Terminal -----------------------------
(***************************************************************************)
(* The console and the keyboard: the interrupt queues (devices/intq.c) of  *)
(* the serial port (serial.c) and the input buffer (input.c), the keyboard *)
(* handler (kbd.c) and the console lock (lib/kernel/console.c).            *)
(*                                                                         *)
(* A step is what runs with interrupts off, up to the point where the      *)
(* thread blocks or may lose the CPU.  Queue rx is input.c's buffer, queue *)
(* tx is serial.c's txq.  The UART is modelled from the registers the code *)
(* uses: RBR holds one received byte, THR is ready or not, IER selects the *)
(* conditions that interrupt.                                              *)
(***************************************************************************)
EXTENDS Integers, Sequences

CONSTANTS Reader,          \* threads that read the keyboard, under filesys_lock
          Writer,          \* threads that print
          INTQ_BUFSIZE,
          LineLength,      \* bytes of a line
          MaxLines,        \* bound: lines printed by threads
          MaxIrqBytes,     \* bound: bytes printed with interrupts off
          MaxInput,        \* bound: bytes that arrive
          None

ASSUME TerminalAssumption ==
    /\ Reader \cap Writer = {} /\ None \notin Reader \cup Writer \cup Nat
    /\ INTQ_BUFSIZE \in Nat \ {0, 1} /\ LineLength \in Nat \ {0}

Caller == Reader \cup Writer
Queue == {"rx", "tx"}
Irq == "irq"               \* who prints with interrupts off

VARIABLES
    buf, head, tail,       \* struct intq
    not_full, not_empty,   \* the thread that waits in a queue
    qlock,                 \* the lock of a queue
    ier,                   \* conditions enabled in the interrupt enable register
    rbr,                   \* the byte the UART has received, or None
    thre,                  \* the transmitter is ready
    filesys_lock, console_lock, console_lock_depth,
    place,                 \* where each thread is
    unblocked,             \* threads that wait() has been ended for
    column,                \* bytes a writer has printed of its line
    failed,                \* an ASSERT has failed
    typed, read,           \* history: bytes put in rx, bytes got by readers
    written, sent,         \* history: bytes put in tx, bytes transmitted
    lines,                 \* history: bytes put in tx by the writers
    arrived                \* history: number of bytes that came from outside

queueVars == <<buf, head, tail, not_full, not_empty, qlock>>
uartVars == <<ier, rbr, thre>>
lockVars == <<filesys_lock, console_lock, console_lock_depth>>
histVars == <<typed, read, written, sent, lines, arrived>>
terminalVars == <<queueVars, uartVars, lockVars, place, unblocked, column, failed, histVars>>

TerminalInit ==
    /\ buf = [q \in Queue |-> [i \in 0 .. INTQ_BUFSIZE - 1 |-> None]]
    /\ head = [q \in Queue |-> 0] /\ tail = [q \in Queue |-> 0]
    /\ not_full = [q \in Queue |-> None] /\ not_empty = [q \in Queue |-> None]
    /\ qlock = [q \in Queue |-> None]
    /\ ier = {"recv"} /\ rbr = None /\ thre = TRUE
    /\ filesys_lock = None /\ console_lock = None /\ console_lock_depth = 0
    /\ place = [t \in Caller |-> "idle"]
    /\ unblocked = {} /\ column = [t \in Writer |-> 0] /\ failed = FALSE
    /\ typed = <<>> /\ read = <<>> /\ written = <<>> /\ sent = <<>>
    /\ lines = <<>> /\ arrived = 0
-----------------------------------------------------------------------------
(* intq.c *)
next(pos) == (pos + 1) % INTQ_BUFSIZE
intq_empty(q) == head[q] = tail[q]

intq_full(q) == next(head[q]) = tail[q]
GoOn(t, label) == place' = [place EXCEPT ![t] = label]

(* The loop of intq_getc() and intq_putc(): with the lock of the queue the *)
(* thread becomes the waiter and blocks; wait() asserts that there is      *)
(* something to wait for.  A second thread blocks on the lock.             *)
wait(t, q) ==
    IF qlock[q] = None
    THEN /\ qlock' = [qlock EXCEPT ![q] = t]
         /\ IF q = "rx" THEN not_empty' = [not_empty EXCEPT ![q] = t] /\ UNCHANGED not_full
            ELSE not_full' = [not_full EXCEPT ![q] = t] /\ UNCHANGED not_empty
         /\ GoOn(t, "wait")
    ELSE GoOn(t, "lock") /\ UNCHANGED <<qlock, not_full, not_empty>>

(* signal(): the waiter, if there is one, is unblocked.                    *)
signal(t) == unblocked' = IF t = None THEN unblocked ELSE unblocked \cup {t}

intq_getc(q) ==
    /\ tail' = [tail EXCEPT ![q] = next(@)]
    /\ signal(not_full[q])
    /\ not_full' = [not_full EXCEPT ![q] = None]
    /\ UNCHANGED <<buf, head, not_empty, qlock>>

intq_putc(q, byte) ==
    /\ buf' = [buf EXCEPT ![q][head[q]] = byte]
    /\ head' = [head EXCEPT ![q] = next(@)]
    /\ signal(not_empty[q])
    /\ not_empty' = [not_empty EXCEPT ![q] = None]
    /\ UNCHANGED <<tail, not_full, qlock>>

(* Mutant: the register keeps the interrupts it has.                       *)
write_ier_keep(h, t) == ier' = ier

(* serial.c: write_ier() sets the register from the state of the queues.   *)
write_ier(h, t) ==
    ier' = (IF h["tx"] # t["tx"] THEN {"xmit"} ELSE {})
           \cup (IF next(h["rx"]) # t["rx"] THEN {"recv"} ELSE {})
-----------------------------------------------------------------------------
(* fd_read() from the keyboard: input_getc() under filesys_lock.           *)
fd_read_stdin(t) ==
    /\ ~failed /\ place[t] = "idle" /\ filesys_lock = None
    /\ filesys_lock' = t /\ GoOn(t, "getc")
    /\ UNCHANGED <<queueVars, uartVars, console_lock, console_lock_depth, unblocked, column,
                   failed, histVars>>

(* input_getc(): a byte, and serial_notify(); or wait for one.             *)
input_getc(t) ==
    /\ ~failed /\ place[t] = "getc"
    /\ IF intq_empty("rx")
       THEN wait(t, "rx") /\ UNCHANGED <<buf, head, tail, ier, filesys_lock, unblocked, read>>
       ELSE /\ intq_getc("rx") /\ write_ier(head, tail')
            /\ read' = Append(read, buf["rx"][tail["rx"]])
            /\ filesys_lock' = None /\ GoOn(t, "idle")
    /\ UNCHANGED <<rbr, thre, console_lock, console_lock_depth, column, failed, typed, written,
                   sent, lines, arrived>>

(* The waiter runs again, releases the lock and goes back to the head of   *)
(* its loop.  A thread blocked on the lock takes the CPU with it if its    *)
(* priority is higher, and waits without another look at the queue.        *)
intq_wait_return(t) ==
    LET q == IF t \in Reader THEN "rx" ELSE "tx"
        blocked == {z \in Caller : place[z] = "lock" /\ (z \in Reader) = (t \in Reader)}
    IN /\ ~failed /\ place[t] = "wait" /\ t \in unblocked
       /\ unblocked' = unblocked \ {t}
       /\ qlock' = [qlock EXCEPT ![q] = None]
       /\ failed' = (blocked # {} /\ IF q = "rx" THEN ~intq_empty(q) ELSE ~intq_full(q))
       /\ GoOn(t, IF q = "rx" THEN "getc" ELSE "putc")
       /\ UNCHANGED <<buf, head, tail, not_full, not_empty, uartVars, lockVars, column, histVars>>
-----------------------------------------------------------------------------
(* Mutant: the console lock is not taken.                                  *)
ConsoleUnlocked_always == TRUE

ConsoleUnlocked == console_lock = None

(* console.c: acquire_console(); the holder may take it again.             *)
acquire_console(t) ==
    /\ ~failed /\ place[t] \in {"idle", "putc"}
    /\ place[t] = "putc" => console_lock_depth = 0
    /\ place[t] = "idle" => Len(lines) < MaxLines * LineLength
    /\ \/ /\ console_lock = t
          /\ console_lock_depth' = console_lock_depth + 1 /\ UNCHANGED console_lock
       \/ /\ console_lock # t /\ ConsoleUnlocked
          /\ console_lock' = t /\ UNCHANGED console_lock_depth
    /\ GoOn(t, "putc")
    /\ UNCHANGED <<queueVars, uartVars, filesys_lock, unblocked, column, failed, histVars>>

release_console(t) ==
    /\ ~failed /\ place[t] = "putc" /\ console_lock = t
    /\ IF console_lock_depth > 0
       THEN /\ console_lock_depth' = console_lock_depth - 1
            /\ UNCHANGED <<console_lock, place, column>>
       ELSE /\ column[t] = LineLength
            /\ console_lock' = None /\ GoOn(t, "idle")
            /\ column' = [column EXCEPT ![t] = 0] /\ UNCHANGED console_lock_depth
    /\ UNCHANGED <<queueVars, uartVars, filesys_lock, unblocked, failed, histVars>>

(* putchar_have_lock() calls serial_putc(): with interrupts on a full      *)
(* queue is waited for.                                                    *)
serial_putc(t) ==
    /\ ~failed /\ place[t] = "putc" /\ column[t] < LineLength
    /\ IF intq_full("tx")
       THEN wait(t, "tx") /\ UNCHANGED <<buf, head, tail, ier, unblocked, column, written, lines>>
       ELSE /\ intq_putc("tx", t) /\ write_ier(head', tail)
            /\ written' = Append(written, t) /\ lines' = Append(lines, t)
            /\ column' = [column EXCEPT ![t] = @ + 1] /\ UNCHANGED place
    /\ failed' = (console_lock # t)
    /\ UNCHANGED <<rbr, thre, lockVars, typed, read, sent, arrived>>

(* With interrupts off a byte is first sent by putc_poll() to make room.   *)
serial_putc_off ==
    LET full == intq_full("tx") IN
    /\ ~failed /\ Len(written) - Len(lines) < MaxIrqBytes
    /\ (full => thre)
    /\ written' = Append(written, Irq)
    /\ sent' = IF full THEN Append(sent, buf["tx"][tail["tx"]]) ELSE sent
    /\ thre' = IF full THEN FALSE ELSE thre
    /\ buf' = [buf EXCEPT !["tx"][head["tx"]] = Irq]
    /\ head' = [head EXCEPT !["tx"] = next(@)]
    /\ tail' = IF full THEN [tail EXCEPT !["tx"] = next(@)] ELSE tail
    /\ signal(IF full THEN not_full["tx"] ELSE None)
    /\ not_full' = IF full THEN [not_full EXCEPT !["tx"] = None] ELSE not_full
    /\ write_ier(head', tail')
    /\ UNCHANGED <<not_empty, qlock, rbr, lockVars, place, column, failed, typed, read, lines,
                   arrived>>

(* serial_flush(), called when the machine is shut down or panics, sends   *)
(* one byte after the other by putc_poll().                                *)
serial_flush ==
    /\ ~failed /\ ~intq_empty("tx") /\ thre
    /\ intq_getc("tx")
    /\ sent' = Append(sent, buf["tx"][tail["tx"]])
    /\ thre' = FALSE
    /\ UNCHANGED <<ier, rbr, lockVars, place, column, failed, typed, read, written, lines, arrived>>
-----------------------------------------------------------------------------
(* serial_interrupt(): the received byte goes to rx, input_putc() updates  *)
(* the register; then a byte of tx is sent.  RBR holds one byte and THR    *)
(* takes one, so that each of its loops runs at most once.                 *)
serial_interrupt ==
    /\ ~failed
    /\ \/ /\ "recv" \in ier /\ rbr # None
          /\ IF intq_full("rx") THEN UNCHANGED <<queueVars, unblocked, typed, rbr>>
             ELSE intq_putc("rx", rbr) /\ typed' = Append(typed, rbr) /\ rbr' = None
          /\ UNCHANGED <<sent, thre>>
       \/ /\ "xmit" \in ier /\ thre /\ (rbr = None \/ intq_full("rx"))
          /\ IF intq_empty("tx") THEN UNCHANGED <<queueVars, unblocked, sent, thre>>
             ELSE intq_getc("tx") /\ sent' = Append(sent, buf["tx"][tail["tx"]]) /\ thre' = FALSE
          /\ UNCHANGED <<typed, rbr>>
    /\ write_ier(head', tail')
    /\ UNCHANGED <<lockVars, place, column, failed, read, written, lines, arrived>>

(* keyboard_interrupt() for a key that has a character: it is dropped when *)
(* the buffer is full.                                                     *)
keyboard_interrupt ==
    /\ ~failed /\ arrived < MaxInput /\ ~intq_full("rx")
    /\ arrived' = arrived + 1
    /\ intq_putc("rx", arrived') /\ typed' = Append(typed, arrived')
    /\ write_ier(head', tail)
    /\ UNCHANGED <<rbr, thre, lockVars, place, column, failed, read, written, sent, lines>>

(* The UART: a byte arrives, the transmitter is done with its byte.        *)
uart_receive ==
    /\ arrived < MaxInput /\ rbr = None
    /\ arrived' = arrived + 1 /\ rbr' = arrived'
    /\ UNCHANGED <<queueVars, ier, thre, lockVars, place, unblocked, column, failed, typed, read,
                   written, sent, lines>>
uart_ready ==
    /\ ~thre /\ thre' = TRUE
    /\ UNCHANGED <<queueVars, ier, rbr, lockVars, place, unblocked, column, failed, histVars>>

TerminalNext ==
    \/ \E t \in Reader : fd_read_stdin(t) \/ input_getc(t)
    \/ \E t \in Writer : acquire_console(t) \/ serial_putc(t) \/ release_console(t)
    \/ \E t \in Caller : intq_wait_return(t)
    \/ serial_putc_off \/ serial_flush \/ serial_interrupt \/ keyboard_interrupt
    \/ uart_receive \/ uart_ready

(* The interrupts and the hardware do not stop, and a thread that can run  *)
(* runs at last.                                                           *)
TerminalFairness ==
    /\ WF_terminalVars(serial_interrupt) /\ WF_terminalVars(uart_ready)
    /\ \A t \in Reader : WF_terminalVars(input_getc(t) \/ intq_wait_return(t))
    /\ \A t \in Writer : WF_terminalVars(serial_putc(t) \/ intq_wait_return(t)
                                 \/ release_console(t))
TerminalSpec == TerminalInit /\ [][TerminalNext]_terminalVars /\ TerminalFairness
-----------------------------------------------------------------------------
Content(q) == [i \in 1 .. (head[q] - tail[q]) % INTQ_BUFSIZE |->
                  buf[q][(tail[q] + i - 1) % INTQ_BUFSIZE]]

(* Both queues pass every byte on once and in order, over every mixture of *)
(* interrupts, polling, waiting and flushing, and no assertion of intq.c   *)
(* or console.c fails: a thread waits only for what is not there.          *)
QueuesAreFifo == /\ ~failed
                 /\ read \o Content("rx") = typed
                 /\ sent \o Content("tx") = written

(* The lines of different threads are not mixed, however long the writer   *)
(* of one waits for room.                                                  *)
LinesWhole ==
    \A i \in 1 .. Len(lines) : lines[i] = lines[LineLength * ((i - 1) \div LineLength) + 1]

(* intq.c, serial.c, console.c: what the console and the keyboard promise. *)
BytesInOrder == QueuesAreFifo /\ LinesWhole

(* What is written is sent: no byte stays in the queue with the            *)
(* transmitter idle.  A reader is not left waiting with a key in the       *)
(* buffer.                                                                 *)
BytesArrive ==
    /\ (Len(written) > Len(sent)) ~> (Len(written) = Len(sent))
    /\ \A t \in Reader : (place[t] # "idle" /\ Len(typed) > Len(read)) ~> (place[t] = "idle")
=============================================================================
