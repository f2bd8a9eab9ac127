-------------------------------- MODULE Uart --------------------------------
(***************************************************************************)
(* The 16550 serial port (riscv/ns16550.cc) on its interrupt line: the     *)
(* receive queue, the registers that decide the line, the tick that polls  *)
(* the terminal with a back-off, and update_interrupt, which every handler *)
(* that can change the line calls last.  A byte from the terminal is its   *)
(* number in the input; a byte looped back is 0.                           *)
(* lsr.TEMT and THRE are set from the constructor on and no code clears    *)
(* them, and nothing sets lsr.BI: neither is a variable here.              *)
(***************************************************************************)
EXTENDS Plic, Sequences

CONSTANTS
    UartId,       \* interrupt_id
    QueueSize,    \* UART_QUEUE_SIZE
    MaxBackoff,   \* MAX_BACKOFF
    MaxTyped      \* bound on the terminal's input

ASSUME UartAssumption ==
    /\ UartId \in 1 .. NumDevices
    /\ QueueSize \in Nat \ {0}
    /\ MaxBackoff \in Nat \ {0}
    /\ MaxTyped \in Nat

VARIABLES
    rx_queue,     \* bytes received and not read
    lsr_dr,       \* lsr.DR: a received byte waits
    ier,          \* the receive and transmit bits of ier that are set
    fifo,         \* fcr.ENABLE_FIFO
    loop,         \* mcr.LOOP
    dlab,         \* lcr.DLAB: the data and ier registers are the divisor's
    backoff,      \* backoff_counter
    typed,        \* bytes typed at the terminal so far
    taken         \* bytes of them the port has read

regs == <<fifo, loop, dlab>>
uartVars == <<rx_queue, lsr_dr, ier, fifo, loop, dlab, backoff, typed, taken>>
vars == <<plicVars, uartVars>>

UartTypeOK ==
    /\ PlicTypeOK
    /\ rx_queue \in Seq(0 .. MaxTyped) /\ Len(rx_queue) =< QueueSize
    /\ lsr_dr \in BOOLEAN
    /\ ier \in SUBSET {"RDI", "THRI"}
    /\ fifo \in BOOLEAN /\ loop \in BOOLEAN /\ dlab \in BOOLEAN
    /\ backoff \in 0 .. MaxBackoff
    /\ typed \in 0 .. MaxTyped /\ taken \in 0 .. typed

Init ==
    /\ PlicInit
    /\ rx_queue = << >> /\ lsr_dr = FALSE
    /\ ier = {} /\ fifo = FALSE /\ loop = FALSE /\ dlab = FALSE
    /\ backoff = 0 /\ typed = 0 /\ taken = 0

-----------------------------------------------------------------------------
\* The last call of every handler, on the values the handler leaves.  The
\* transmitter is always empty, so its enable bit alone asks for an interrupt.
update_interrupt ==
    set_interrupt_level(UartId, ("RDI" \in ier' /\ lsr_dr') \/ "THRI" \in ier')

\* A bug: reading the last byte leaves the data-ready bit set.
rx_byte_StaysReady ==
    IF rx_queue = << >>
      THEN lsr_dr' = FALSE /\ UNCHANGED rx_queue
      ELSE rx_queue' = Tail(rx_queue) /\ UNCHANGED lsr_dr

\* The oldest byte leaves the queue; with the last one the port is not ready.
rx_byte ==
    IF rx_queue = << >>
      THEN lsr_dr' = FALSE /\ UNCHANGED rx_queue
      ELSE rx_queue' = Tail(rx_queue) /\ lsr_dr' = (lsr_dr /\ rx_queue' # << >>)

\* A load of UART_RX; with DLAB set it reads dll.  The loads of the other
\* registers change nothing and do not update the line.
load_rx ==
    /\ IF dlab THEN UNCHANGED <<rx_queue, lsr_dr>> ELSE rx_byte
    /\ UNCHANGED <<ier, regs, backoff, typed, taken>>
    /\ update_interrupt

\* A store to UART_TX: the divisor, the loopback queue (a byte that finds it
\* full is dropped), or the terminal.
store_tx ==
    /\ IF ~dlab /\ loop /\ Len(rx_queue) < QueueSize
         THEN rx_queue' = Append(rx_queue, 0) /\ lsr_dr' = TRUE
         ELSE UNCHANGED <<rx_queue, lsr_dr>>
    /\ UNCHANGED <<ier, regs, backoff, typed, taken>>
    /\ update_interrupt

\* A store to UART_IER, which is dlm when DLAB is set.
store_ier(bits) ==
    /\ ier' = IF dlab THEN ier ELSE bits
    /\ UNCHANGED <<rx_queue, lsr_dr, regs, backoff, typed, taken>>
    /\ update_interrupt

\* A store to UART_FCR; CLEAR_RCVR empties the queue in update_interrupt and
\* clears itself.
store_fcr(enable, clear) ==
    /\ fifo' = enable
    /\ rx_queue' = IF clear THEN << >> ELSE rx_queue
    /\ lsr_dr' = (lsr_dr /\ ~clear)
    /\ UNCHANGED <<ier, loop, dlab, backoff, typed, taken>>
    /\ update_interrupt

\* Stores to UART_LCR and UART_MCR.
store_lcr(bit) ==
    /\ dlab' = bit
    /\ UNCHANGED <<rx_queue, lsr_dr, ier, fifo, loop, backoff, typed, taken>>
    /\ update_interrupt

store_mcr(bit) ==
    /\ loop' = bit
    /\ UNCHANGED <<rx_queue, lsr_dr, ier, fifo, dlab, backoff, typed, taken>>
    /\ update_interrupt

\* A bug: the room in the queue is not checked.
Accepting_NoRoom == fifo /\ ~loop

\* tick polls the terminal only when the FIFO is on, not in loopback, and
\* there is room; after a poll that found nothing it skips MaxBackoff - 1 ticks.
Accepting == fifo /\ ~loop /\ Len(rx_queue) < QueueSize

Waiting == backoff > 0 /\ backoff < MaxBackoff

\* A bug: the skipped poll is not counted.
tick_wait_Uncounted == Accepting /\ Waiting /\ UNCHANGED vars

tick_wait ==
    /\ Accepting /\ Waiting
    /\ backoff' = backoff + 1
    /\ UNCHANGED <<plicVars, rx_queue, lsr_dr, ier, regs, typed, taken>>

tick_nothing ==
    /\ Accepting /\ ~Waiting /\ taken = typed
    /\ backoff' = 1
    /\ UNCHANGED <<plicVars, rx_queue, lsr_dr, ier, regs, typed, taken>>

tick_byte ==
    /\ Accepting /\ ~Waiting /\ taken < typed
    /\ backoff' = 0
    /\ taken' = taken + 1
    /\ rx_queue' = Append(rx_queue, taken')
    /\ lsr_dr' = TRUE
    /\ UNCHANGED <<ier, regs, typed>>
    /\ update_interrupt

tick == tick_wait \/ tick_nothing \/ tick_byte

\* The user types a byte; the host's terminal keeps it until it is read.
Type ==
    /\ typed < MaxTyped
    /\ typed' = typed + 1
    /\ UNCHANGED <<plicVars, rx_queue, lsr_dr, ier, regs, backoff, taken>>

\* Another device drives its own line (the interface is the plugins').
OtherLine(id, lvl) ==
    /\ id # UartId
    /\ set_interrupt_level(id, lvl)
    /\ UNCHANGED uartVars

Software ==
    \/ SoftwareNext /\ UNCHANGED uartVars
    \/ load_rx
    \/ store_tx
    \/ \E bits \in SUBSET {"RDI", "THRI"} : store_ier(bits)
    \/ \E enable, clear \in BOOLEAN : store_fcr(enable, clear)
    \/ \E bit \in BOOLEAN : store_lcr(bit)
    \/ \E bit \in BOOLEAN : store_mcr(bit)

Next ==
    \/ Software
    \/ tick
    \/ Type
    \/ \E id \in Ids, lvl \in BOOLEAN : OtherLine(id, lvl)
    \/ \E h \in Harts : hart_reset(h) /\ UNCHANGED uartVars

Spec == Init /\ [][Next]_vars

\* sim_t::step ticks every device each time all harts ran their share.
FairSpec == Spec /\ WF_vars(tick)

-----------------------------------------------------------------------------
\* The line tells the truth (ns16550.cc:91-136): it is high exactly while the
\* receive interrupt is enabled and a byte is waiting, or the transmit interrupt
\* is enabled; so the driver that empties the queue is not interrupted again,
\* and one that leaves a byte behind is.
LineIsTrue ==
    /\ lsr_dr <=> rx_queue # << >>
    /\ UartId \in level <=> \/ "RDI" \in ier /\ rx_queue # << >>
                            \/ "THRI" \in ier

\* The byte at place i of the queue came from the terminal and is the newest
\* read, or the next one from the terminal behind it is the one typed after it.
IsNewest(i) ==
    /\ rx_queue[i] = taken
    /\ \A j \in i + 1 .. Len(rx_queue) : rx_queue[j] = 0

NextFollows(i) ==
    \E j \in i + 1 .. Len(rx_queue) :
       /\ rx_queue[j] = rx_queue[i] + 1
       /\ \A k \in i + 1 .. j - 1 : rx_queue[k] = 0

\* The queue never outgrows its size, and holds the newest bytes read from the
\* terminal, each once and in order: a byte leaves the terminal only for a place
\* in the queue, whatever is looped back in between (ns16550.cc:305-329, 246-254).
InputInOrder ==
    /\ Len(rx_queue) =< QueueSize
    /\ \A i \in 1 .. Len(rx_queue) :
         rx_queue[i] # 0 => IsNewest(i) \/ NextFollows(i)

\* A port that goes on accepting reads what is typed: the back-off delays the
\* poll and never stops it (ns16550.cc:313-316).
InputIsRead ==
    \A n \in 0 .. MaxTyped - 1 :
       (Accepting /\ taken = n /\ typed > n) ~> (taken > n \/ ~Accepting)
=============================================================================
