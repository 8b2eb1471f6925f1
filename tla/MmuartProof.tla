----------------------------- MODULE MmuartProof ----------------------------
(***************************************************************************)
(* Proofs about the MMUART driver of Mmuart, for every FIFO size and every *)
(* bound on the length of a message.                                       *)
(***************************************************************************)
EXTENDS Mmuart, TLAPS

USE DEF Bytes

LEMMA LeastFacts ==
  ASSUME NEW a \in Nat, NEW b \in Nat
  PROVE  /\ Least(a, b) \in Nat
         /\ Least(a, b) <= a /\ Least(a, b) <= b
         /\ a > 0 /\ b > 0 => Least(a, b) > 0
  BY DEF Least

LEMMA LsrType ==
  ASSUME TypeOK
  PROVE  Lsr \subseteq Flags \cup Faults
  BY DEF TypeOK, Lsr, Flags

LEMMA AfterStatusType ==
  AfterStatus \in {"fill", "lsr", "idle", "complete", "rbr", "status_clear"}
  BY DEF AfterStatus

LEMMA InitType == Init => TypeOK
<1> SUFFICES ASSUME Init PROVE TypeOK
  OBVIOUS
<1>1. /\ txFifo \in 0..FifoSize /\ rxFifo \in 0..RxSize
      /\ tx_buff_size \in Bytes /\ tx_idx \in Bytes /\ unsent \in Bytes
      /\ left \in Bytes /\ blk \in 0..FifoSize /\ isrTx \in 0..Echo
  BY MmuartAssumption DEF MmuartAssumption, Init
<1>2. /\ pc \in Pc /\ call \in LsrCalls \cup IerCalls \cup {NoCall}
  BY DEF Init, Pc
<1>3. QED
  BY <1>1, <1>2 DEF Init, TypeOK

LEMMA CallType ==
  ASSUME TypeOK, NewCall
  PROVE  TypeOK'
<1> USE MmuartAssumption DEF MmuartAssumption
<1>1. ASSUME NEW c \in LsrCalls \cup IerCalls, NEW n \in Bytes,
             NEW m \in SUBSET Sources, NEW l \in {"idle", "lsr", "ier"},
             Enter(c, n, m, l)
      PROVE  TypeOK'
  BY <1>1 DEF TypeOK, Enter, hwVars, instVars, Pc
<1>2. ASSUME NEW c \in LsrCalls \cup IerCalls, NEW h \in {"rx", "ls"},
             NEW src \in Sources, SetHandler(c, h, src)
      PROVE  TypeOK'
  BY <1>2 DEF TypeOK, SetHandler, hwVars, Pc
<1>3. ASSUME NEW n \in 1..MaxMsg, HandOver(n)
      PROVE  TypeOK'
  <2>1. n \in Bytes /\ "irq_tx" \in IerCalls /\ "idx" \in Pc /\ {"TBE"} \subseteq Sources
    BY DEF IerCalls, Pc, Sources
  <2>2. CASE tx_buff_size = 0
    BY <1>3, <2>1, <2>2 DEF TypeOK, HandOver, hwVars
  <2>3. CASE tx_buff_size # 0
    BY <1>3, <2>1, <2>3 DEF TypeOK, HandOver, hwVars
  <2>4. QED
    BY <2>2, <2>3
<1>4. {"idle", "lsr", "ier"} \subseteq Pc
  BY DEF Pc
<1>5. /\ {"polled_tx", "polled_tx_string", "fill_tx_fifo", "tx_complete",
          "get_rx", "get_tx_status", "get_rx_status"} \subseteq LsrCalls
      /\ {"set_rx_handler", "set_rxstatus_handler", "enable_irq",
          "disable_irq"} \subseteq IerCalls
  BY DEF LsrCalls, TxCalls, IerCalls
<1>6. CASE PolledTx          BY <1>1, <1>4, <1>5, <1>6 DEF PolledTx
<1>7. CASE PolledTxString    BY <1>1, <1>4, <1>5, <1>7 DEF PolledTxString
<1>8. CASE FillTxFifo        BY <1>1, <1>4, <1>5, <1>8 DEF FillTxFifo
<1>9. CASE TxComplete        BY <1>1, <1>4, <1>5, <1>9 DEF TxComplete
<1>10. CASE GetRx            BY <1>1, <1>4, <1>5, <1>10 DEF GetRx
<1>11. CASE GetTxStatus      BY <1>1, <1>4, <1>5, <1>11 DEF GetTxStatus
<1>12. CASE GetRxStatus      BY <1>1, <1>4, <1>5, <1>12 DEF GetRxStatus
<1>13. CASE EnableIrq
  BY <1>1, <1>4, <1>5, <1>13 DEF EnableIrq, HandledSources, Sources
<1>14. CASE DisableIrq       BY <1>1, <1>4, <1>5, <1>14 DEF DisableIrq, Sources
<1>15. CASE SetRxHandler     BY <1>2, <1>5, <1>15 DEF SetRxHandler, Sources
<1>16. CASE SetRxStatusHandler
  BY <1>2, <1>5, <1>16 DEF SetRxStatusHandler, Sources
<1>17. CASE IrqTx            BY <1>3, <1>17 DEF IrqTx
<1>18. QED
  BY <1>6, <1>7, <1>8, <1>9, <1>10, <1>11, <1>12, <1>13, <1>14, <1>15, <1>16,
     <1>17 DEF NewCall

LEMMA ThreadType ==
  ASSUME TypeOK, CallInv, Thread
  PROVE  TypeOK'
<1> USE MmuartAssumption DEF MmuartAssumption
<1>1. CASE ResetIdx     BY <1>1 DEF ResetIdx, At, TypeOK, hwVars, Pc
<1>2. CASE ReadIer      BY <1>2 DEF ReadIer, At, TypeOK, hwVars, instVars, Pc
<1>3. CASE WriteIer
  <2>1. ier' \subseteq Sources
    BY <1>3 DEF WriteIer, At, TypeOK
  <2>2. QED
    BY <1>3, <2>1 DEF WriteIer, At, TypeOK, hwVars, instVars, Pc
<1>4. CASE EnablePlic   BY <1>4 DEF EnablePlic, At, TypeOK, hwVars, instVars, Pc
<1>5. CASE ReadLsr      BY <1>5, LsrType DEF ReadLsr, At, TypeOK, instVars, Pc
<1>6. CASE ReadStatus   BY <1>6 DEF ReadStatus, At, TypeOK, hwVars, instVars, Pc
<1>7. CASE WriteStatus
  <2>1. status' \subseteq Faults
    BY <1>7 DEF WriteStatus, At, TypeOK
  <2>2. blk' \in 0..FifoSize
    BY <1>7, LeastFacts DEF WriteStatus, TypeOK
  <2>3. QED
    BY <1>7, <2>1, <2>2, AfterStatusType
       DEF WriteStatus, At, TypeOK, hwVars, instVars, Pc
<1>8. CASE WriteThr
  BY <1>8 DEF WriteThr, At, CallInv, TypeOK, instVars, Pc
<1>9. CASE ReadRbr
  BY <1>9 DEF ReadRbr, At, CallInv, TypeOK, instVars, Pc
<1>10. CASE ClearStatus
  BY <1>10 DEF ClearStatus, At, TypeOK, hwVars, instVars, Pc
<1>11. CASE Complete
  BY <1>11 DEF Complete, At, TypeOK, hwVars, instVars, Pc
<1>12. QED
  BY <1>1, <1>2, <1>3, <1>4, <1>5, <1>6, <1>7, <1>8, <1>9, <1>10, <1>11
     DEF Thread

LEMMA IsrType ==
  ASSUME TypeOK, MessageInv, TbeInv, Isr
  PROVE  TypeOK'
<1> USE DEF TypeOK
<1>1. FifoSize \in Nat \ {0} /\ MaxMsg \in Nat \ {0} /\ RxSize \in Nat /\ Echo \in Nat
  BY MmuartAssumption DEF MmuartAssumption
<1>2. CASE LineStatusIsr
  BY <1>2 DEF LineStatusIsr, instVars, threadVars
<1>3. CASE ReceiveIsr
  <2>1. CASE "rx" \in handlers
    <3>1. /\ lsrErr' \subseteq Faults /\ status' \subseteq Faults
          /\ rxFifo' \in 0..RxSize /\ isrTx' \in 0..Echo
      BY <1>1, <1>3, <2>1 DEF ReceiveIsr, IsrReadsLsr
    <3>2. QED
      BY <1>3, <2>1, <3>1 DEF ReceiveIsr, instVars, threadVars
  <2>2. CASE "rx" \notin handlers
    BY <1>3, <2>2 DEF ReceiveIsr, instVars, threadVars
  <2>3. QED
    BY <2>1, <2>2
<1>4. CASE EchoIsr
  <2> DEFINE fill == IF txFifo = 0 THEN Least(isrTx, FifoSize) ELSE 0
  <2>1. fill \in Nat /\ fill <= isrTx /\ txFifo + fill \in 0..FifoSize
    BY <1>1, LeastFacts
  <2>2. txFifo' = txFifo + fill /\ isrTx' = isrTx - fill
    BY <1>4 DEF EchoIsr
  <2>3. txFifo' \in 0..FifoSize /\ isrTx' \in 0..Echo
    BY <1>1, <2>1, <2>2
  <2>4. QED
    BY <1>4, <2>3 DEF EchoIsr, IsrReadsLsr, instVars, threadVars
<1>5. CASE TransmitIsr
  <2>1. CASE tx_buff_size = 0
    BY <1>5, <2>1 DEF TransmitIsr, threadVars
  <2>2. CASE tx_buff_size # 0
    <3> DEFINE fill == Least(tx_buff_size - tx_idx, FifoSize)
    <3>1. tx_buff_size - tx_idx \in Nat \ {0} /\ unsent = tx_buff_size - tx_idx
      BY <1>5, <2>2 DEF TransmitIsr, Interrupted, Pending, MessageInv, TbeInv
    <3>2. fill \in 0..FifoSize /\ fill <= tx_buff_size - tx_idx
      BY <1>1, <3>1, LeastFacts
    <3>3. /\ txFifo' = fill /\ tx_idx' = tx_idx + fill /\ unsent' = unsent - fill
          /\ tx_buff_size' \in {0, tx_buff_size} /\ ier' \subseteq ier
      BY <1>5, <2>2 DEF TransmitIsr
    <3>4. /\ txFifo' \in 0..FifoSize /\ tx_idx' \in Bytes /\ unsent' \in Bytes
          /\ tx_buff_size' \in Bytes /\ ier' \subseteq Sources
      BY <1>1, <3>1, <3>2, <3>3
    <3>5. QED
      BY <1>5, <2>2, <3>4 DEF TransmitIsr, IsrReadsLsr, threadVars
  <2>3. QED
    BY <2>1, <2>2
<1>6. QED
  BY <1>2, <1>3, <1>4, <1>5 DEF Isr

LEMMA HardwareType ==
  ASSUME TypeOK, Transmitter \/ Receive \/ UNCHANGED vars
  PROVE  TypeOK'
<1> USE MmuartAssumption DEF MmuartAssumption
<1>1. CASE LoadShift BY <1>1 DEF LoadShift, TypeOK, instVars, threadVars
<1>2. CASE ShiftOut  BY <1>2 DEF ShiftOut, TypeOK, instVars, threadVars
<1>3. CASE Receive   BY <1>3 DEF Receive, TypeOK, instVars, threadVars
<1>4. CASE UNCHANGED vars
  BY <1>4 DEF vars, TypeOK, hwVars, instVars, threadVars
<1>5. QED
  BY <1>1, <1>2, <1>3, <1>4 DEF Transmitter

-----------------------------------------------------------------------------
(* DriverInv *)

Control == MessageInv /\ TbeInv /\ HandlerInv /\ CallInv /\ NoAssert

LEMMA CallControl ==
  ASSUME DriverInv, Disciplined \/ ~outstanding, NewCall
  PROVE  Control'
<1> USE DEF DriverInv, HandlerOf
<1>1. ASSUME NEW c \in LsrCalls \cup {"enable_irq", "disable_irq"}, NEW n \in Bytes,
             NEW m \in SUBSET Sources, NEW l \in {"idle", "lsr", "ier"},
             Enter(c, n, m, l),
             l = "lsr" => c \in LsrCalls /\ (c \in TxCalls => n > 0),
             l = "ier" => /\ c \in IerCalls /\ "TBE" \notin m
                          /\ c = "enable_irq" => m \subseteq HandledSources
      PROVE  Control'
  <2>1. /\ pc = "idle" /\ pc' = l /\ call' = c /\ left' = n /\ mask' = m
        /\ UNCHANGED <<ier, tx_buff_size, tx_idx, handlers, reg, blk, halted,
                       outstanding, unsent>>
        /\ outstanding => c \in Overlap
    BY <1>1 DEF Enter, MayCall, At, instVars
  <2>2. outstanding => c \notin TxCalls \cup IerCalls
    BY <2>1 DEF Disciplined
  <2>3. MessageInv'
    BY <1>1, <2>1 DEF MessageInv, IerCalls, LsrCalls, TxCalls
  <2>4. TbeInv'
    BY <1>1, <2>1, <2>2 DEF TbeInv, MessageInv, TypeOK
  <2>5. HandlerInv'
    BY <1>1, <2>1 DEF HandlerInv, HandledSources, IerCalls, LsrCalls, TxCalls
  <2>6. CallInv' /\ NoAssert'
    BY <1>1, <2>1, <2>2 DEF CallInv, NoAssert
  <2>7. QED
    BY <2>3, <2>4, <2>5, <2>6 DEF Control
<1>2. ASSUME NEW c \in {"set_rx_handler", "set_rxstatus_handler"},
             NEW src \in {"RBF", "LS"}, SetHandler(c, HandlerOf(src), src)
      PROVE  Control'
  <2>1. /\ pc = "idle" /\ pc' = "ier" /\ call' = c /\ mask' = {src}
        /\ handlers' = handlers \cup {HandlerOf(src)}
        /\ UNCHANGED <<ier, tx_buff_size, tx_idx, reg, blk, halted, outstanding,
                       unsent>>
        /\ outstanding => c \in Overlap
    BY <1>2 DEF SetHandler, MayCall, At
  <2>2. ~outstanding
    BY <2>1 DEF Disciplined, IerCalls
  <2>3. MessageInv' /\ CallInv' /\ NoAssert'
    BY <2>1 DEF MessageInv, CallInv, NoAssert
  <2>4. TbeInv'
    BY <2>1, <2>2 DEF TbeInv, MessageInv, IerCalls, TypeOK
  <2>5. HandlerInv'
    BY <2>1 DEF HandlerInv
  <2>6. QED
    BY <2>3, <2>4, <2>5 DEF Control
<1>3. ASSUME NEW n \in 1..MaxMsg, HandOver(n)
      PROVE  Control'
  <2>1. ~outstanding /\ tx_buff_size = 0
    BY <1>3 DEF HandOver, MayCall, Disciplined, IerCalls, MessageInv, TypeOK
  <2>2. /\ pc = "idle" /\ pc' = "idx" /\ call' = "irq_tx" /\ mask' = {"TBE"}
        /\ tx_buff_size' = n /\ unsent' = n /\ outstanding' = TRUE /\ n > 0
        /\ UNCHANGED <<ier, tx_idx, handlers, reg, blk, halted>>
    BY <1>3, <2>1 DEF HandOver, MayCall, At
  <2>3. MessageInv' /\ CallInv' /\ NoAssert'
    BY <2>2 DEF MessageInv, CallInv, NoAssert
  <2>4. TbeInv'
    BY <2>1, <2>2 DEF TbeInv, IerCalls
  <2>5. HandlerInv'
    BY <2>2 DEF HandlerInv
  <2>6. QED
    BY <2>3, <2>4, <2>5 DEF Control
<1> USE MmuartAssumption DEF MmuartAssumption
<1>4. CASE PolledTx       BY <1>1, <1>4 DEF PolledTx, LsrCalls, TxCalls
<1>5. CASE PolledTxString BY <1>1, <1>5 DEF PolledTxString, LsrCalls, TxCalls
<1>6. CASE FillTxFifo     BY <1>1, <1>6 DEF FillTxFifo, LsrCalls, TxCalls
<1>7. CASE TxComplete     BY <1>1, <1>7 DEF TxComplete, LsrCalls, TxCalls
<1>8. CASE GetRx          BY <1>1, <1>8 DEF GetRx, LsrCalls, TxCalls
<1>9. CASE GetTxStatus    BY <1>1, <1>9 DEF GetTxStatus, LsrCalls, TxCalls
<1>10. CASE GetRxStatus   BY <1>1, <1>10 DEF GetRxStatus, LsrCalls, TxCalls
<1>11. CASE EnableIrq
  <2>1. PICK m \in SUBSET (HandledSources \cup {"TBE"}) :
               Enter("enable_irq", 0, m \ {"TBE"}, "ier")
    BY <1>11 DEF EnableIrq
  <2>2. m \ {"TBE"} \subseteq Sources /\ m \ {"TBE"} \subseteq HandledSources
    BY DEF HandledSources, Sources
  <2>3. QED
    BY <1>1, <2>1, <2>2 DEF IerCalls
<1>12. CASE DisableIrq    BY <1>1, <1>12 DEF DisableIrq, IerCalls, Sources
<1>13. CASE SetRxHandler  BY <1>2, <1>13 DEF SetRxHandler
<1>14. CASE SetRxStatusHandler BY <1>2, <1>14 DEF SetRxStatusHandler
<1>15. CASE IrqTx         BY <1>3, <1>15 DEF IrqTx
<1>16. QED
  BY <1>4, <1>5, <1>6, <1>7, <1>8, <1>9, <1>10, <1>11, <1>12, <1>13, <1>14,
     <1>15 DEF NewCall

LEMMA ThreadControl ==
  ASSUME DriverInv, Thread
  PROVE  Control'
<1> USE DEF DriverInv
<1>1. CASE ResetIdx
  <2>1. MessageInv'
    BY <1>1 DEF ResetIdx, At, MessageInv, TypeOK
  <2>2. TbeInv'
    BY <1>1 DEF ResetIdx, At, TbeInv, MessageInv, IerCalls
  <2>3. CallInv' /\ NoAssert'
    BY <1>1 DEF ResetIdx, At, CallInv, NoAssert
  <2>4. HandlerInv'
    BY <1>1 DEF ResetIdx, At, HandlerInv, HandlerOf
  <2>5. QED
    BY <2>1, <2>2, <2>3, <2>4 DEF Control
<1>2. CASE ReadIer
  <2>1. MessageInv' /\ CallInv' /\ NoAssert'
    BY <1>2 DEF ReadIer, At, MessageInv, CallInv, NoAssert, instVars
  <2>2. TbeInv'
    BY <1>2 DEF ReadIer, At, TbeInv, instVars
  <2>3. HandlerInv'
    BY <1>2 DEF ReadIer, At, HandlerInv, instVars, HandlerOf
  <2>4. QED
    BY <2>1, <2>2, <2>3 DEF Control
<1>3. CASE WriteIer
  <2>1. MessageInv' /\ CallInv' /\ NoAssert'
    BY <1>3 DEF WriteIer, At, MessageInv, CallInv, NoAssert, instVars
  <2>2. TbeInv'
    BY <1>3 DEF WriteIer, At, TbeInv, MessageInv, instVars
  <2>3. HandlerInv'
    BY <1>3 DEF WriteIer, At, HandlerInv, instVars, HandlerOf
  <2>4. QED
    BY <2>1, <2>2, <2>3 DEF Control
<1>4. CASE EnablePlic
  <2>1. MessageInv' /\ CallInv' /\ NoAssert' /\ TbeInv'
    BY <1>4 DEF EnablePlic, At, MessageInv, CallInv, NoAssert, TbeInv, instVars
  <2>2. HandlerInv'
    BY <1>4 DEF EnablePlic, At, HandlerInv, instVars, HandlerOf
  <2>3. QED
    BY <2>1, <2>2 DEF Control
<1>5. CASE ReadLsr \/ ReadStatus
  <2>1. MessageInv' /\ CallInv' /\ NoAssert' /\ TbeInv'
    BY <1>5 DEF ReadLsr, ReadStatus, At, MessageInv, CallInv, NoAssert, TbeInv,
                instVars
  <2>2. HandlerInv'
    BY <1>5 DEF ReadLsr, ReadStatus, At, HandlerInv, instVars, HandlerOf
  <2>3. QED
    BY <2>1, <2>2 DEF Control
<1>6. CASE WriteStatus
  <2>1. MessageInv' /\ NoAssert' /\ TbeInv'
    BY <1>6, AfterStatusType
       DEF WriteStatus, At, MessageInv, NoAssert, TbeInv, instVars
  <2>2. CallInv'
    <3>1. AfterStatus = "fill" => call \in TxCalls
      BY DEF AfterStatus
    <3>2. AfterStatus = "rbr" => call = "get_rx" /\ left > 0
      BY DEF AfterStatus
    <3>3. call \in TxCalls => Least(left, FifoSize) \in 1..left
      BY <1>6, LeastFacts, MmuartAssumption
         DEF WriteStatus, At, CallInv, TypeOK, MmuartAssumption
    <3>4. QED
      BY <1>6, <3>1, <3>2, <3>3, AfterStatusType DEF WriteStatus, At, CallInv
  <2>3. HandlerInv'
    BY <1>6, AfterStatusType DEF WriteStatus, At, HandlerInv, instVars, HandlerOf
  <2>4. QED
    BY <2>1, <2>2, <2>3 DEF Control
<1>7. CASE WriteThr
  <2>1. MessageInv' /\ NoAssert' /\ TbeInv'
    BY <1>7 DEF WriteThr, At, MessageInv, NoAssert, TbeInv, instVars
  <2>2. CallInv'
    BY <1>7 DEF WriteThr, At, CallInv, TypeOK
  <2>3. HandlerInv'
    BY <1>7 DEF WriteThr, At, HandlerInv, instVars, HandlerOf
  <2>4. QED
    BY <2>1, <2>2, <2>3 DEF Control
<1>8. CASE ReadRbr
  <2>1. MessageInv' /\ NoAssert' /\ TbeInv'
    BY <1>8 DEF ReadRbr, At, MessageInv, NoAssert, TbeInv, instVars
  <2>2. CallInv'
    BY <1>8 DEF ReadRbr, At, CallInv, TxCalls
  <2>3. HandlerInv'
    BY <1>8 DEF ReadRbr, At, HandlerInv, instVars, HandlerOf
  <2>4. QED
    BY <2>1, <2>2, <2>3 DEF Control
<1>9. CASE ClearStatus
  <2>1. MessageInv' /\ CallInv' /\ NoAssert' /\ TbeInv'
    BY <1>9 DEF ClearStatus, At, MessageInv, CallInv, NoAssert, TbeInv, instVars
  <2>2. HandlerInv'
    BY <1>9 DEF ClearStatus, At, HandlerInv, instVars, HandlerOf
  <2>3. QED
    BY <2>1, <2>2 DEF Control
<1>10. CASE Complete
  <2>1. MessageInv' /\ CallInv' /\ NoAssert' /\ TbeInv'
    BY <1>10 DEF Complete, At, MessageInv, CallInv, NoAssert, TbeInv, TypeOK, instVars
  <2>2. HandlerInv'
    BY <1>10 DEF Complete, At, HandlerInv, instVars, HandlerOf
  <2>3. QED
    BY <2>1, <2>2 DEF Control
<1>11. QED
  BY <1>1, <1>2, <1>3, <1>4, <1>5, <1>6, <1>7, <1>8, <1>9, <1>10 DEF Thread

\* Asking whether a message has been sent disturbs nothing.
LEMMA WatchControl ==
  ASSUME DriverInv, TxComplete
  PROVE  Control'
<1>1. /\ pc = "idle" /\ pc' = "lsr" /\ call' = "tx_complete"
      /\ UNCHANGED <<ier, reg, tx_buff_size, tx_idx, handlers, outstanding, unsent, halted>>
  BY DEF TxComplete, Enter, MayCall, At, instVars
<1>2. MessageInv' /\ TbeInv'
  BY <1>1 DEF DriverInv, MessageInv, TbeInv
<1>3. HandlerInv' /\ CallInv' /\ NoAssert'
  BY <1>1 DEF DriverInv, HandlerInv, HandlerOf, CallInv, NoAssert, TxCalls
<1>4. QED
  BY <1>2, <1>3 DEF Control

LEMMA UnchangedControl ==
  ASSUME DriverInv,
         UNCHANGED <<ier, pc, call, left, blk, mask, snap, reg, tx_buff_size,
                     tx_idx, handlers, outstanding, unsent, halted>>
  PROVE  Control'
<1>1. MessageInv' /\ TbeInv'
  BY DEF DriverInv, MessageInv, TbeInv
<1>2. HandlerInv' /\ CallInv' /\ NoAssert'
  BY DEF DriverInv, HandlerInv, HandlerOf, CallInv, NoAssert
<1>3. QED
  BY <1>1, <1>2 DEF Control

LEMMA IsrControl ==
  ASSUME DriverInv, Isr
  PROVE  Control'
<1> USE DEF DriverInv
<1>1. CASE LineStatusIsr
  <2>1. "ls" \in handlers
    BY <1>1 DEF LineStatusIsr, Interrupted, Pending, HandlerInv, HandlerOf
  <2>2. /\ UNCHANGED <<ier, pc, call, left, blk, mask, snap, reg, tx_buff_size, tx_idx,
                       handlers, outstanding, unsent>>
        /\ halted' = halted
    BY <1>1, <2>1 DEF LineStatusIsr, instVars, threadVars
  <2>3. QED
    BY <2>2, UnchangedControl
<1>2. CASE ReceiveIsr
  <2>1. "rx" \in handlers
    BY <1>2 DEF ReceiveIsr, Interrupted, Pending, HandlerInv, HandlerOf
  <2>2. /\ UNCHANGED <<ier, pc, call, left, blk, mask, snap, reg, tx_buff_size, tx_idx,
                       handlers, outstanding, unsent>>
        /\ halted' = halted
    BY <1>2, <2>1 DEF ReceiveIsr, instVars, threadVars
  <2>3. QED
    BY <2>2, UnchangedControl
<1>3. CASE EchoIsr
  BY <1>3, UnchangedControl DEF EchoIsr, instVars, threadVars
<1>4. CASE TransmitIsr
  <2> DEFINE fill == Least(tx_buff_size - tx_idx, FifoSize)
             last == tx_idx + fill = tx_buff_size
  <2>1. /\ tx_buff_size > 0 /\ outstanding /\ pc \notin {"idx", "ier", "ier_write"}
        /\ unsent = tx_buff_size - tx_idx /\ unsent > 0
    BY <1>4 DEF TransmitIsr, Interrupted, Pending, TbeInv, MessageInv
  <2>2. /\ tx_idx' = tx_idx + fill /\ unsent' = unsent - fill
        /\ ier' = IF last THEN ier \ {"TBE"} ELSE ier
        /\ tx_buff_size' = IF last THEN 0 ELSE tx_buff_size
        /\ UNCHANGED <<pc, call, left, blk, mask, snap, reg, handlers, outstanding, halted>>
    BY <1>4, <2>1 DEF TransmitIsr, threadVars, TypeOK
  <2>3. fill \in 0..unsent
    BY <2>1, LeastFacts, MmuartAssumption DEF TypeOK, MmuartAssumption
  <2>4. MessageInv'
    BY <2>1, <2>2, <2>3 DEF MessageInv, TypeOK
  <2>5. TbeInv'
    BY <2>1, <2>2 DEF TbeInv
  <2>6. HandlerInv' /\ CallInv' /\ NoAssert'
    BY <2>1, <2>2 DEF HandlerInv, HandlerOf, CallInv, NoAssert
  <2>7. QED
    BY <2>4, <2>5, <2>6 DEF Control
<1>5. QED
  BY <1>1, <1>2, <1>3, <1>4 DEF Isr

LEMMA HardwareControl ==
  ASSUME DriverInv, Transmitter \/ Receive \/ UNCHANGED vars
  PROVE  Control'
<1>1. UNCHANGED <<ier, pc, call, left, blk, mask, snap, reg, tx_buff_size, tx_idx,
                  handlers, outstanding, unsent, halted>>
  BY DEF Transmitter, LoadShift, ShiftOut, Receive, vars, instVars, threadVars
<1>2. QED
  BY <1>1, UnchangedControl

\* DriverInv, checked by the run that sends, is inductive for a client that
\* keeps away from the transmitter while a message is outstanding.
LEMMA DriverInit == Init => DriverInv
<1> SUFFICES ASSUME Init PROVE DriverInv
  OBVIOUS
<1>1. TypeOK
  BY InitType
<1>2. MessageInv /\ TbeInv /\ HandlerInv
  BY DEF Init, MessageInv, TbeInv, HandlerInv
<1>3. CallInv /\ NoAssert
  BY DEF Init, CallInv, NoAssert
<1>4. QED
  BY <1>1, <1>2, <1>3 DEF DriverInv

LEMMA DriverStep ==
  ASSUME DriverInv, Disciplined, [Next]_vars
  PROVE  DriverInv'
<1>1. CASE NewCall
  BY <1>1, CallType, CallControl DEF DriverInv, Control
<1>2. CASE Thread
  BY <1>2, ThreadType, ThreadControl DEF DriverInv, Control
<1>3. CASE Isr
  BY <1>3, IsrType, IsrControl DEF DriverInv, Control
<1>4. CASE Transmitter \/ Receive \/ UNCHANGED vars
  BY <1>4, HardwareType, HardwareControl DEF DriverInv, Control
<1>5. QED
  BY <1>1, <1>2, <1>3, <1>4 DEF Next

\* For every FIFO size, message length and set of receiver errors, and whatever
\* the receive handler sends: with a disciplined client no ASSERT of the driver
\* fails, and the message in progress, IER and the handlers stay consistent.
THEOREM Driver ==
  ASSUME Disciplined
  PROVE  Spec => []DriverInv
<1>1. Init => DriverInv
  BY DriverInit
<1>2. DriverInv /\ [Next]_vars => DriverInv'
  BY DriverStep
<1>3. QED
  BY <1>1, <1>2, PTL DEF Spec

\* No ASSERT of the driver fails under a disciplined client.
THEOREM AssertsHold ==
  ASSUME Disciplined
  PROVE  Spec => []NoAssert
<1>1. DriverInv => NoAssert
  BY DEF DriverInv
<1>2. QED
  BY <1>1, Driver, PTL

\* After tx_complete() has reported it complete, no byte of a message is still
\* in the client's buffer and the interrupt handler is done with the buffer.
THEOREM BufferReleased ==
  ASSUME Disciplined
  PROVE  Spec => []CompleteReleasesBuffer
<1>1. DriverInv => CompleteReleasesBuffer
  BY DEF DriverInv, TypeOK, MessageInv, CompleteReleasesBuffer
<1>2. QED
  BY <1>1, Driver, PTL

-----------------------------------------------------------------------------
(* NoOverrun *)

\* Either the thread alone fills the FIFO, or the handlers alone.
OneFills == Echo = 0 \/ Calls \cap TxCalls = {}

NoPolling == Calls \cap TxCalls = {} => call \notin TxCalls

Fifo == FifoInv /\ NoOverrun

LEMMA FifoCall ==
  ASSUME DriverInv, Fifo, NewCall
  PROVE  Fifo'
<1>1. ASSUME NEW c, NEW n, NEW m, NEW l \in {"idle", "lsr", "ier"}, Enter(c, n, m, l)
      PROVE  Fifo'
  BY <1>1 DEF Enter, MayCall, Fifo, FifoInv, NoOverrun, hwVars
<1>2. ASSUME NEW c, NEW h, NEW src, SetHandler(c, h, src)
      PROVE  Fifo'
  BY <1>2 DEF SetHandler, MayCall, Fifo, FifoInv, NoOverrun, hwVars
<1>3. ASSUME NEW n, HandOver(n)
      PROVE  Fifo'
  BY <1>3 DEF HandOver, MayCall, At, Fifo, FifoInv, NoOverrun, hwVars
<1>4. QED
  BY <1>1, <1>2, <1>3
     DEF NewCall, PolledTx, PolledTxString, FillTxFifo, TxComplete, GetRx,
         GetTxStatus, GetRxStatus, EnableIrq, DisableIrq, SetRxHandler,
         SetRxStatusHandler, IrqTx

LEMMA FifoThread ==
  ASSUME DriverInv, Fifo, Thread
  PROVE  Fifo'
<1> USE DEF Fifo
<1>1. CASE ResetIdx \/ ReadIer \/ WriteIer \/ EnablePlic
  BY <1>1 DEF ResetIdx, ReadIer, WriteIer, EnablePlic, At, FifoInv, NoOverrun,
              hwVars
<1>2. CASE ReadLsr
  <2>1. pc' = "status" /\ snap' = Lsr /\ UNCHANGED <<txFifo, overrun, call>>
    BY <1>2 DEF ReadLsr
  <2>2. lsrErr \subseteq Faults /\ ("THRE" \in Lsr => txFifo = 0 \/ "THRE" \in lsrErr)
    BY DEF Lsr, DriverInv, TypeOK
  <2>3. QED
    BY <2>1, <2>2, MmuartAssumption DEF FifoInv, NoOverrun, MmuartAssumption, Flags
<1>3. CASE ReadStatus
  BY <1>3 DEF ReadStatus, At, FifoInv, NoOverrun, hwVars
<1>4. CASE WriteStatus
  <2>1. AfterStatus = "fill" => call \in TxCalls /\ "THRE" \in snap
    BY DEF AfterStatus
  <2>2. AfterStatus = "fill" => txFifo = 0 /\ Least(left, FifoSize) <= FifoSize
    BY <1>4, <2>1, LeastFacts, MmuartAssumption
       DEF WriteStatus, At, FifoInv, DriverInv, TypeOK, MmuartAssumption
  <2>3. QED
    BY <1>4, <2>2, AfterStatusType, MmuartAssumption
       DEF WriteStatus, At, FifoInv, NoOverrun, hwVars, DriverInv, TypeOK,
           MmuartAssumption, Least
<1>5. CASE WriteThr
  BY <1>5, MmuartAssumption
     DEF WriteThr, At, FifoInv, NoOverrun, DriverInv, TypeOK, CallInv,
         MmuartAssumption
<1>6. CASE ReadRbr \/ ClearStatus \/ Complete
  BY <1>6 DEF ReadRbr, ClearStatus, Complete, At, FifoInv, NoOverrun, hwVars
<1>7. QED
  BY <1>1, <1>2, <1>3, <1>4, <1>5, <1>6 DEF Thread

LEMMA FifoIsr ==
  ASSUME DriverInv, Fifo, OneFills, NoPolling, Isr
  PROVE  Fifo'
<1> USE DEF Fifo
<1>1. CASE LineStatusIsr \/ ReceiveIsr
  BY <1>1 DEF LineStatusIsr, ReceiveIsr, hwVars, threadVars, FifoInv, NoOverrun
<1>2. CASE EchoIsr
  <2>1. Echo # 0
    BY <1>2 DEF EchoIsr, DriverInv, TypeOK
  <2>2. call \notin TxCalls /\ pc # "fill"
    BY <2>1 DEF OneFills, NoPolling, DriverInv, CallInv
  <2>3. QED
    BY <1>2, <2>2 DEF EchoIsr, threadVars, FifoInv, NoOverrun
<1>3. CASE TransmitIsr
  <2>1. tx_buff_size > 0 /\ outstanding
    BY <1>3 DEF TransmitIsr, Interrupted, Pending, DriverInv, TbeInv, MessageInv
  <2>2. pc \notin {"status", "status_write"} \/ call \notin TxCalls
    BY <2>1 DEF DriverInv, CallInv
  <2>3. pc # "fill"
    BY <2>1 DEF DriverInv, CallInv
  <2>4. QED
    BY <1>3, <2>2, <2>3 DEF TransmitIsr, threadVars, FifoInv, NoOverrun
<1>4. QED
  BY <1>1, <1>2, <1>3 DEF Isr

LEMMA FifoHardware ==
  ASSUME DriverInv, Fifo, Transmitter \/ Receive \/ UNCHANGED vars
  PROVE  Fifo'
<1> USE DEF Fifo
<1>1. CASE ShiftOut \/ Receive \/ UNCHANGED vars
  BY <1>1 DEF ShiftOut, Receive, vars, hwVars, threadVars, FifoInv, NoOverrun
<1>2. CASE LoadShift
  <2>1. txFifo > 0 /\ txFifo \in Nat /\ txFifo' = txFifo - 1 /\ blk \in Nat /\ FifoSize \in Nat
    BY <1>2, MmuartAssumption DEF LoadShift, DriverInv, TypeOK, MmuartAssumption
  <2>2. UNCHANGED <<pc, call, snap, blk, overrun>>
    BY <1>2 DEF LoadShift, threadVars
  <2>3. QED
    BY <2>1, <2>2 DEF FifoInv, NoOverrun
<1>3. QED
  BY <1>1, <1>2 DEF Transmitter

\* The thread is in no call but those the client makes.
LEMMA PollingStep ==
  ASSUME NoPolling, [Next]_vars
  PROVE  NoPolling'
<1>1. call' = call \/ call' \in Calls
  <2>1. CASE NewCall
    BY <2>1 DEF NewCall, PolledTx, PolledTxString, FillTxFifo, TxComplete, GetRx, GetTxStatus,
       GetRxStatus, EnableIrq, DisableIrq, SetRxHandler, SetRxStatusHandler, IrqTx, Enter,
       SetHandler, HandOver, MayCall
  <2>2. CASE Thread
    BY <2>2 DEF Thread, ResetIdx, ReadIer, WriteIer, EnablePlic, ReadLsr, ReadStatus,
       WriteStatus, WriteThr, ReadRbr, ClearStatus, Complete
  <2>3. CASE Isr \/ Transmitter \/ Receive \/ UNCHANGED vars
    BY <2>3 DEF Isr, LineStatusIsr, ReceiveIsr, EchoIsr, TransmitIsr, Transmitter, LoadShift,
       ShiftOut, Receive, vars, threadVars
  <2>4. QED
    BY <2>1, <2>2, <2>3 DEF Next
<1>2. QED
  BY <1>1 DEF NoPolling

LEMMA FifoStep ==
  ASSUME OneFills, DriverInv, Fifo, NoPolling, [Next]_vars
  PROVE  Fifo' /\ NoPolling'
BY PollingStep, FifoCall, FifoThread, FifoIsr, FifoHardware DEF Next

LEMMA FifoInit == Init => Fifo /\ NoPolling
BY DEF Init, Fifo, FifoInv, NoOverrun, NoPolling, TxCalls, NoCall

\* No byte is ever written to a full transmit FIFO, whatever its size, when the
\* client is disciplined and either its receive handler does not transmit or its thread
\* leaves that to the handlers.  One of the two is needed: the echo of a handler that transmits,
\* as the application's does, may come between a polled transmission's look at LSR and
\* its block.
THEOREM FifoNeverOverrun ==
  ASSUME Disciplined, OneFills
  PROVE  Spec => []NoOverrun
<1>1. Init => DriverInv /\ Fifo /\ NoPolling
  BY DriverInit, FifoInit
<1>2. DriverInv /\ Fifo /\ NoPolling /\ [Next]_vars => DriverInv' /\ Fifo' /\ NoPolling'
  BY DriverStep, FifoStep
<1>3. DriverInv /\ Fifo => NoOverrun
  BY DEF Fifo
<1>4. QED
  BY <1>1, <1>2, <1>3, PTL DEF Spec
=============================================================================
