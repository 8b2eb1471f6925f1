------------------------------- MODULE Mmuart -------------------------------
(***************************************************************************)
(* The MMUART driver (drivers/mss/mss_mmuart/mss_uart.c) on one instance:  *)
(* a client thread that calls the API, the interrupt handler uart_isr()    *)
(* that preempts it on the same hart, and the 16550-style transmitter and  *)
(* receiver that run beside both.                                          *)
(*                                                                         *)
(* The thread takes one step per access to a UART register or to a field   *)
(* of mss_uart_instance_t that the handler touches too.  The handler is    *)
(* preempted by nothing, and the hardware only drains the transmit FIFO,   *)
(* so each of its straight-line paths is one step; it takes several only   *)
(* where it waits for the hardware.                                        *)
(***************************************************************************)
EXTENDS Integers, FiniteSets

CONSTANTS
  FifoSize,   \* TX_FIFO_SIZE, 16 in the hardware
  MaxMsg,     \* bound on the length of one message, in bytes
  RxSize,     \* receive FIFO size; 0 when nothing is connected to the receiver
  Faults,     \* the receiver error bits the line may raise
  Calls,      \* the API calls the client makes
  Overlap,    \* those it also makes while an irq_tx message is outstanding
  Echo        \* bytes the client's receive handler sends with polled_tx()

Sources  == {"RBF", "TBE", "LS"}
TxCalls  == {"polled_tx", "polled_tx_string", "fill_tx_fifo"}
LsrCalls == TxCalls \cup {"tx_complete", "get_rx", "get_tx_status",
                          "get_rx_status"}
IerCalls == {"irq_tx", "set_rx_handler", "set_rxstatus_handler",
             "enable_irq", "disable_irq"}

ASSUME MmuartAssumption ==
  /\ FifoSize \in Nat \ {0}
  /\ MaxMsg \in Nat \ {0}
  /\ RxSize \in Nat
  /\ Faults \subseteq {"OE", "PE", "FE", "BI", "FIER"}
  /\ Calls \subseteq LsrCalls \cup IerCalls
  /\ Overlap \subseteq Calls
  /\ Echo \in 0..MaxMsg

NoCall == "none"
Flags  == {"THRE", "TEMT", "DR"}

VARIABLES
  txFifo, shift,             \* transmitter: bytes in the FIFO, shift register busy
  rxFifo, lsrErr,            \* receiver: bytes in the FIFO, error bits of LSR
  ier,                       \* the interrupt sources enabled in IER
  plic,                      \* is the UART's interrupt enabled in the PLIC?
  tx_buff_size, tx_idx,      \* this_uart->tx_buff_size and ->tx_idx
  status,                    \* this_uart->status, its error bits: the sticky record
  handlers,                  \* the handlers the client has installed
  pc, call, left, blk,       \* the thread: next access, call, bytes and block left
  mask,                      \* its irq_mask argument
  snap, reg,                 \* its copy of LSR, and of the word it modifies
  isrTx,                     \* bytes the receive handler still has to send
  halted,                    \* an ASSERT has failed: ebreak
  overrun,                   \* history: a byte was written to a full FIFO
  outstanding,               \* history: an irq_tx not yet reported complete
  unsent                     \* history: its bytes not yet in the FIFO

hwVars     == <<txFifo, shift, rxFifo, lsrErr>>
instVars   == <<tx_buff_size, tx_idx, handlers>>
threadVars == <<pc, call, left, blk, mask, snap, reg>>
vars == <<hwVars, ier, plic, instVars, status, threadVars, isrTx, halted,
          overrun, outstanding, unsent>>

Least(a, b) == IF a < b THEN a ELSE b
Lsr == (IF txFifo = 0 THEN {"THRE"} ELSE {})
       \cup (IF txFifo = 0 /\ ~shift THEN {"TEMT"} ELSE {})
       \cup (IF rxFifo > 0 THEN {"DR"} ELSE {})
       \cup lsrErr

\* MSS_UART_init() -> global_init(): interrupts off, FIFOs cleared, nothing to send
Init ==
  /\ txFifo = 0 /\ shift = FALSE /\ rxFifo = 0 /\ lsrErr = {}
  /\ ier = {} /\ plic = FALSE
  /\ tx_buff_size = 0 /\ tx_idx = 0 /\ status = {} /\ handlers = {}
  /\ pc = "idle" /\ call = NoCall /\ left = 0 /\ blk = 0 /\ mask = {}
  /\ snap = {} /\ reg = {} /\ isrTx = 0 /\ halted = FALSE
  /\ overrun = FALSE /\ outstanding = FALSE /\ unsent = 0

-----------------------------------------------------------------------------
(* The UART hardware *)

LoadShift ==
  /\ txFifo > 0 /\ ~shift
  /\ txFifo' = txFifo - 1
  /\ shift' = TRUE
  /\ UNCHANGED <<rxFifo, lsrErr, ier, plic, instVars, status, threadVars,
                 isrTx, halted, overrun, outstanding, unsent>>

ShiftOut ==
  /\ shift
  /\ shift' = FALSE
  /\ UNCHANGED <<txFifo, rxFifo, lsrErr, ier, plic, instVars, status,
                 threadVars, isrTx, halted, overrun, outstanding, unsent>>

Receive ==
  /\ rxFifo < RxSize
  /\ rxFifo' = rxFifo + 1
  /\ \E e \in SUBSET Faults : lsrErr' = lsrErr \cup e
  /\ UNCHANGED <<txFifo, shift, ier, plic, instVars, status, threadVars,
                 isrTx, halted, overrun, outstanding, unsent>>

-----------------------------------------------------------------------------
(* uart_isr() *)

\* the thread, or a new interrupt, runs only when no handler does
Free == isrTx = 0 /\ ~halted

\* IIR reports the enabled source of highest priority
Pending(src) == src \in ier /\ CASE src = "LS"  -> lsrErr # {}
                                 [] src = "RBF" -> rxFifo > 0
                                 [] src = "TBE" -> txFifo = 0
Interrupted(src) ==
  /\ Free /\ plic
  /\ Pending(src)
  /\ src # "LS" => ~Pending("LS")
  /\ src = "TBE" => ~Pending("RBF")

\* every read of LSR clears its error bits and adds them to the sticky record
IsrReadsLsr ==
  /\ lsrErr' = {}
  /\ status' = status \cup lsrErr

\* IIRF_RX_LINE_STATUS: the client's handler calls MSS_UART_get_rx_status()
LineStatusIsr ==
  /\ Interrupted("LS")
  /\ IF "ls" \in handlers
       THEN lsrErr' = {} /\ status' = {} /\ halted' = halted
       ELSE halted' = TRUE /\ UNCHANGED <<lsrErr, status>>
  /\ UNCHANGED <<txFifo, shift, rxFifo, ier, plic, instVars, threadVars,
                 isrTx, overrun, outstanding, unsent>>

\* IIRF_RX_DATA: the client's handler empties the FIFO with MSS_UART_get_rx()
\* into a buffer at least as large, and goes on to send Echo bytes
ReceiveIsr ==
  /\ Interrupted("RBF")
  /\ IF "rx" \in handlers
       THEN IsrReadsLsr /\ rxFifo' = 0 /\ isrTx' = Echo /\ halted' = halted
       ELSE halted' = TRUE /\ UNCHANGED <<lsrErr, status, rxFifo, isrTx>>
  /\ UNCHANGED <<txFifo, shift, ier, plic, instVars, threadVars, overrun,
                 outstanding, unsent>>

\* One turn of the loop of MSS_UART_polled_tx(), called by the receive handler
EchoIsr ==
  /\ isrTx > 0 /\ ~halted
  /\ IsrReadsLsr
  /\ LET fill == IF txFifo = 0 THEN Least(isrTx, FifoSize) ELSE 0
     IN txFifo' = txFifo + fill /\ isrTx' = isrTx - fill
  /\ UNCHANGED <<shift, rxFifo, ier, plic, instVars, threadVars, halted,
                 overrun, outstanding, unsent>>

\* Mutant: the last block leaves the transmit interrupt enabled.
TransmitIsrKeepsTbe ==
  /\ Interrupted("TBE")
  /\ IF tx_buff_size = 0
       THEN halted' = TRUE
            /\ UNCHANGED <<txFifo, lsrErr, status, ier, tx_idx,
                           tx_buff_size, unsent>>
       ELSE LET fill == Least(tx_buff_size - tx_idx, FifoSize)
            IN /\ IsrReadsLsr
               /\ txFifo' = fill
               /\ tx_idx' = tx_idx + fill
               /\ unsent' = unsent - fill
               /\ tx_buff_size' = IF tx_idx' = tx_buff_size THEN 0
                                  ELSE tx_buff_size
               /\ UNCHANGED <<ier, halted>>
  /\ UNCHANGED <<shift, rxFifo, plic, handlers, threadVars, isrTx, overrun,
                 outstanding>>

\* Mutant: the message counts as finished with its last byte still unsent.
TransmitIsrDropsLast ==
  /\ Interrupted("TBE")
  /\ IF tx_buff_size = 0
       THEN halted' = TRUE
            /\ UNCHANGED <<txFifo, lsrErr, status, ier, tx_idx,
                           tx_buff_size, unsent>>
       ELSE LET fill == Least(tx_buff_size - tx_idx, FifoSize)
                last == tx_idx + fill >= tx_buff_size - 1
            IN /\ IsrReadsLsr
               /\ txFifo' = fill
               /\ tx_idx' = tx_idx + fill
               /\ unsent' = unsent - fill
               /\ ier' = IF last THEN ier \ {"TBE"} ELSE ier
               /\ tx_buff_size' = IF last THEN 0 ELSE tx_buff_size
               /\ halted' = halted
  /\ UNCHANGED <<shift, rxFifo, plic, handlers, threadVars, isrTx, overrun,
                 outstanding>>

\* IIRF_THRE: default_tx_handler() refills the FIFO, then the end of the
\* message disables the interrupt
TransmitIsr ==
  /\ Interrupted("TBE")
  /\ IF tx_buff_size = 0
       THEN halted' = TRUE
            /\ UNCHANGED <<txFifo, lsrErr, status, ier, tx_idx,
                           tx_buff_size, unsent>>
       ELSE LET fill == Least(tx_buff_size - tx_idx, FifoSize)
                last == tx_idx + fill = tx_buff_size
            IN /\ IsrReadsLsr
               /\ txFifo' = fill
               /\ tx_idx' = tx_idx + fill
               /\ unsent' = unsent - fill
               /\ ier' = IF last THEN ier \ {"TBE"} ELSE ier
               /\ tx_buff_size' = IF last THEN 0 ELSE tx_buff_size
               /\ halted' = halted
  /\ UNCHANGED <<shift, rxFifo, plic, handlers, threadVars, isrTx, overrun,
                 outstanding>>

-----------------------------------------------------------------------------
(* The client thread: calls *)

At(l)   == Free /\ pc = l
MayCall(c) == At("idle") /\ c \in Calls /\ (outstanding => c \in Overlap)

Enter(c, n, m, l) ==
  /\ MayCall(c)
  /\ call' = c /\ left' = n /\ mask' = m /\ pc' = l
  /\ UNCHANGED <<hwVars, ier, plic, instVars, status, blk, snap, reg, isrTx,
                 halted, overrun, outstanding, unsent>>

PolledTx       == \E n \in 1..MaxMsg : Enter("polled_tx", n, {}, "lsr")
PolledTxString == \E n \in 0..MaxMsg :
                    Enter("polled_tx_string", n, {}, IF n = 0 THEN "idle" ELSE "lsr")
FillTxFifo     == \E n \in 1..MaxMsg : Enter("fill_tx_fifo", n, {}, "lsr")
TxComplete     == Enter("tx_complete", 0, {}, "lsr")
GetRx          == \E n \in 1..MaxMsg : Enter("get_rx", n, {}, "lsr")
GetTxStatus    == Enter("get_tx_status", 0, {}, "lsr")
GetRxStatus    == Enter("get_rx_status", 0, {}, "lsr")

\* the client enables a source only once it has installed its handler
HandledSources == {s \in {"RBF", "LS"} : (IF s = "RBF" THEN "rx" ELSE "ls") \in handlers}

\* IER_MASK keeps the transmit interrupt out
EnableIrq  == \E m \in SUBSET (HandledSources \cup {"TBE"}) :
                Enter("enable_irq", 0, m \ {"TBE"}, "ier")
DisableIrq == \E m \in SUBSET {"RBF", "LS"} : Enter("disable_irq", 0, m, "ier")

SetHandler(c, h, src) ==
  /\ MayCall(c)
  /\ call' = c /\ left' = 0 /\ mask' = {src} /\ pc' = "ier"
  /\ handlers' = handlers \cup {h}
  /\ UNCHANGED <<hwVars, ier, plic, tx_buff_size, tx_idx, status, blk, snap,
                 reg, isrTx, halted, overrun, outstanding, unsent>>

SetRxHandler       == SetHandler("set_rx_handler", "rx", "RBF")
SetRxStatusHandler == SetHandler("set_rxstatus_handler", "ls", "LS")

\* MSS_UART_irq_tx(): ASSERT(TX_COMPLETE == this_uart->tx_buff_size), then the
\* message is recorded
HandOver(n) ==
  /\ MayCall("irq_tx")
  /\ IF tx_buff_size = 0
       THEN /\ tx_buff_size' = n
            /\ outstanding' = TRUE /\ unsent' = n
            /\ call' = "irq_tx" /\ mask' = {"TBE"} /\ pc' = "idx"
            /\ halted' = halted
       ELSE /\ halted' = TRUE
            /\ UNCHANGED <<tx_buff_size, outstanding, unsent, call, mask, pc>>
  /\ UNCHANGED <<hwVars, ier, plic, tx_idx, handlers, status, left, blk, snap,
                 reg, isrTx, overrun>>

IrqTx == \E n \in 1..MaxMsg : HandOver(n)

ResetIdx ==
  /\ At("idx")
  /\ tx_idx' = 0
  /\ pc' = "ier"
  /\ UNCHANGED <<hwVars, ier, plic, tx_buff_size, handlers, status, call, left,
                 blk, mask, snap, reg, isrTx, halted, overrun, outstanding,
                 unsent>>

-----------------------------------------------------------------------------
(* The client thread: this_uart->hw_reg->IER |= or &= , enable_irq() *)

ReadIer ==
  /\ At("ier")
  /\ reg' = ier
  /\ pc' = "ier_write"
  /\ UNCHANGED <<hwVars, ier, plic, instVars, status, call, left, blk, mask,
                 snap, isrTx, halted, overrun, outstanding, unsent>>

WriteIer ==
  /\ At("ier_write")
  /\ ier' = IF call = "disable_irq" THEN reg \ mask ELSE reg \cup mask
  /\ pc' = IF call \in {"enable_irq", "disable_irq"} THEN "idle" ELSE "plic"
  /\ UNCHANGED <<hwVars, plic, instVars, status, call, left, blk, mask, snap,
                 reg, isrTx, halted, overrun, outstanding, unsent>>

\* Mutant: the PLIC is left alone.
NoEnablePlic ==
  /\ At("plic")
  /\ pc' = "idle"
  /\ UNCHANGED <<hwVars, ier, plic, instVars, status, call, left, blk, mask,
                 snap, reg, isrTx, halted, overrun, outstanding, unsent>>

EnablePlic ==
  /\ At("plic")
  /\ plic' = TRUE
  /\ pc' = "idle"
  /\ UNCHANGED <<hwVars, ier, instVars, status, call, left, blk, mask, snap,
                 reg, isrTx, halted, overrun, outstanding, unsent>>

-----------------------------------------------------------------------------
(* The client thread: status = LSR; this_uart->status |= status; use it *)

ReadLsr ==
  /\ At("lsr")
  /\ snap' = Lsr
  /\ lsrErr' = {}
  /\ pc' = "status"
  /\ UNCHANGED <<txFifo, shift, rxFifo, ier, plic, instVars, status, call,
                 left, blk, mask, reg, isrTx, halted, overrun, outstanding,
                 unsent>>

ReadStatus ==
  /\ At("status")
  /\ reg' = status
  /\ pc' = "status_write"
  /\ UNCHANGED <<hwVars, ier, plic, instVars, status, call, left, blk, mask,
                 snap, isrTx, halted, overrun, outstanding, unsent>>

\* Mutant: transmit functions do not wait for THRE.
AfterStatusNoThre ==
  CASE call \in TxCalls          -> "fill"
    [] call = "tx_complete"      -> "complete"
    [] call = "get_rx"           -> IF "DR" \in snap /\ left > 0 THEN "rbr" ELSE "idle"
    [] call = "get_rx_status"    -> "status_clear"
    [] OTHER                     -> "idle"

\* Where a call goes on with the LSR value it has read
AfterStatus ==
  CASE call \in TxCalls          -> IF "THRE" \in snap THEN "fill"
                                    ELSE IF call = "fill_tx_fifo" THEN "idle"
                                    ELSE "lsr"
    [] call = "tx_complete"      -> "complete"
    [] call = "get_rx"           -> IF "DR" \in snap /\ left > 0 THEN "rbr" ELSE "idle"
    [] call = "get_rx_status"    -> "status_clear"
    [] OTHER                     -> "idle"

WriteStatus ==
  /\ At("status_write")
  /\ status' = reg \cup (snap \ Flags)
  /\ pc' = AfterStatus
  /\ blk' = IF AfterStatus = "fill" THEN Least(left, FifoSize) ELSE 0
  /\ UNCHANGED <<hwVars, ier, plic, instVars, call, left, mask, snap, reg,
                 isrTx, halted, overrun, outstanding, unsent>>

\* Mutant: temp_tx_size is not reduced by what was sent.
WriteThrNoCount ==
  /\ At("fill")
  /\ txFifo' = IF txFifo < FifoSize THEN txFifo + 1 ELSE txFifo
  /\ overrun' = (overrun \/ txFifo = FifoSize)
  /\ blk' = blk - 1
  /\ pc' = IF blk > 1 THEN "fill"
           ELSE IF left > 0 /\ call # "fill_tx_fifo" THEN "lsr"
           ELSE "idle"
  /\ UNCHANGED <<shift, rxFifo, lsrErr, ier, plic, instVars, status, call, left,
                 mask, snap, reg, isrTx, halted, outstanding, unsent>>

\* One turn of the loop that fills the FIFO: THR = *pbuff++
WriteThr ==
  /\ At("fill")
  /\ txFifo' = IF txFifo < FifoSize THEN txFifo + 1 ELSE txFifo
  /\ overrun' = (overrun \/ txFifo = FifoSize)
  /\ blk' = blk - 1 /\ left' = left - 1
  /\ pc' = IF blk > 1 THEN "fill"
           ELSE IF left > 1 /\ call # "fill_tx_fifo" THEN "lsr"
           ELSE "idle"
  /\ UNCHANGED <<shift, rxFifo, lsrErr, ier, plic, instVars, status, call,
                 mask, snap, reg, isrTx, halted, outstanding, unsent>>

\* MSS_UART_get_rx(): one byte out of the receive FIFO, LSR again
ReadRbr ==
  /\ At("rbr")
  /\ rxFifo' = IF rxFifo > 0 THEN rxFifo - 1 ELSE 0
  /\ left' = left - 1
  /\ pc' = "lsr"
  /\ UNCHANGED <<txFifo, shift, lsrErr, ier, plic, instVars, status, call, blk,
                 mask, snap, reg, isrTx, halted, overrun, outstanding, unsent>>

\* MSS_UART_get_rx_status(): this_uart->status = 0u; the value written before
\* is returned
ClearStatus ==
  /\ At("status_clear")
  /\ status' = {}
  /\ pc' = "idle"
  /\ UNCHANGED <<hwVars, ier, plic, instVars, call, left, blk, mask, snap, reg,
                 isrTx, halted, overrun, outstanding, unsent>>

\* Mutant: only the line status decides.
CompleteByLsr ==
  /\ At("complete")
  /\ outstanding' = (outstanding /\ "TEMT" \notin snap)
  /\ pc' = "idle"
  /\ UNCHANGED <<hwVars, ier, plic, instVars, status, call, left, blk, mask,
                 snap, reg, isrTx, halted, overrun, unsent>>

\* MSS_UART_tx_complete(): this_uart->tx_buff_size is read after LSR
Complete ==
  /\ At("complete")
  /\ outstanding' = (outstanding /\ ~(tx_buff_size = 0 /\ "TEMT" \in snap))
  /\ pc' = "idle"
  /\ UNCHANGED <<hwVars, ier, plic, instVars, status, call, left, blk, mask,
                 snap, reg, isrTx, halted, overrun, unsent>>

-----------------------------------------------------------------------------
NewCall == \/ PolledTx \/ PolledTxString \/ FillTxFifo \/ TxComplete \/ GetRx
           \/ GetTxStatus \/ GetRxStatus \/ EnableIrq \/ DisableIrq
           \/ SetRxHandler \/ SetRxStatusHandler \/ IrqTx
Thread  == \/ ResetIdx \/ ReadIer \/ WriteIer \/ EnablePlic \/ ReadLsr
           \/ ReadStatus \/ WriteStatus \/ WriteThr \/ ReadRbr \/ ClearStatus
           \/ Complete
Isr     == LineStatusIsr \/ ReceiveIsr \/ EchoIsr \/ TransmitIsr
Transmitter == LoadShift \/ ShiftOut

Next == NewCall \/ Thread \/ Isr \/ Transmitter \/ Receive

Spec == Init /\ [][Next]_vars

\* The hart runs, takes pending interrupts, and the transmitter drains. Received
\* characters come first in IIR, but one takes ten bit times to arrive, far
\* longer than the handler runs: they do not keep the transmit interrupt out.
FairSpec == /\ Spec
            /\ WF_vars(Thread) /\ WF_vars(Isr) /\ WF_vars(Transmitter)
            /\ SF_vars(TransmitIsr)

-----------------------------------------------------------------------------
(* Properties *)

Bytes == 0..MaxMsg
Pc == {"idle", "idx", "ier", "ier_write", "plic", "lsr", "status",
       "status_write", "fill", "rbr", "status_clear", "complete"}

\* Typing: counters within the FIFO and message sizes, an index that never
\* passes the size of a message in progress (tx_remain does not wrap).
TypeOK ==
  /\ txFifo \in 0..FifoSize /\ shift \in BOOLEAN
  /\ rxFifo \in 0..RxSize /\ lsrErr \subseteq Faults
  /\ ier \subseteq Sources /\ plic \in BOOLEAN
  /\ tx_buff_size \in Bytes /\ tx_idx \in Bytes /\ unsent \in Bytes
  /\ status \subseteq Faults
  /\ handlers \subseteq {"rx", "ls"}
  /\ pc \in Pc /\ call \in LsrCalls \cup IerCalls \cup {NoCall}
  /\ left \in Bytes /\ blk \in 0..FifoSize /\ mask \subseteq Sources
  /\ snap \subseteq Flags \cup Faults /\ reg \subseteq Sources \cup Faults
  /\ pc = "ier_write" => reg \subseteq Sources
  /\ pc \in {"status_write", "status_clear"} => reg \subseteq Faults
  /\ isrTx \in 0..Echo
  /\ halted \in BOOLEAN /\ overrun \in BOOLEAN /\ outstanding \in BOOLEAN

\* A client that keeps away from the transmitter and IER, watching apart, while
\* a message is outstanding
Disciplined == Overlap \cap (TxCalls \cup IerCalls) = {}

\* The transmit FIFO never takes a byte while it is full: polled_tx() and the
\* transmit interrupt both send "blocks of 16 bytes or less and allow the FIFO
\* to empty before transferring the next block of data" (mss_uart.h:1246).
NoOverrun == ~overrun

\* No ASSERT of the driver fails: irq_tx() finds no message in progress, the
\* transmit handler always has one, and every interrupt has its handler.
NoAssert == ~halted

\* Once tx_complete() has said so, every byte of the message has left the
\* client's buffer, and the interrupt handler will not read it again.
CompleteReleasesBuffer == ~outstanding => unsent = 0 /\ tx_buff_size = 0

\* tx_complete() reports completion only when the transmitter is idle: the
\* transfer to the FIFO "and the actual transmission over the serial connection
\* are both complete" (mss_uart.h:1379).
CompleteMeansSent ==
  [][outstanding /\ ~outstanding' => txFifo = 0 /\ ~shift]_vars

-----------------------------------------------------------------------------
(* Why NoAssert and CompleteReleasesBuffer hold (DriverInv), and NoOverrun *)
(* when the receive handler sends nothing (FifoInv)                        *)

\* What is left of the message in progress, and who may touch it when
MessageInv ==
  /\ tx_buff_size = 0 => unsent = 0
  /\ tx_buff_size > 0 =>
       /\ outstanding
       /\ unsent = IF pc = "idx" THEN tx_buff_size ELSE tx_buff_size - tx_idx
       /\ unsent > 0
  /\ pc = "idx" => call = "irq_tx" /\ tx_buff_size > 0
  /\ pc \in {"ier", "ier_write"} /\ call = "irq_tx" => tx_buff_size > 0

\* Only a message in progress enables the transmit interrupt, and no other
\* modification of IER is in flight then
TbeInv ==
  /\ "TBE" \in ier => tx_buff_size > 0 /\ pc \notin {"idx", "ier", "ier_write"}
  /\ pc \in {"ier", "ier_write"} =>
       call \in IerCalls /\ (call # "irq_tx" => "TBE" \notin mask /\ ~outstanding)
  /\ pc = "ier_write" => "TBE" \notin reg

\* Every enabled source has its handler
HandlerOf(src) == IF src = "RBF" THEN "rx" ELSE "ls"
HandlerInv == \A src \in {"RBF", "LS"} :
  /\ src \in ier => HandlerOf(src) \in handlers
  /\ pc = "ier_write" /\ src \in reg => HandlerOf(src) \in handlers
  /\ pc \in {"idx", "ier", "ier_write"} /\ call # "disable_irq" /\ src \in mask =>
       HandlerOf(src) \in handlers

\* A call has something left to do when it goes on, and transmit calls work
\* while no message is outstanding
CallInv ==
  /\ pc \in {"lsr", "status", "status_write"} /\ call \in TxCalls =>
       ~outstanding /\ left > 0
  /\ pc = "fill" => call \in TxCalls /\ ~outstanding /\ blk \in 1..left
  /\ pc = "rbr" => call = "get_rx" /\ left > 0

\* THRE stays true until the block it promised room for has been written
FifoInv ==
  /\ pc \in {"status", "status_write"} /\ call \in TxCalls /\ "THRE" \in snap =>
       txFifo = 0
  /\ pc = "fill" => txFifo + blk <= FifoSize

DriverInv == TypeOK /\ MessageInv /\ TbeInv /\ HandlerInv /\ CallInv /\ NoAssert
=============================================================================
