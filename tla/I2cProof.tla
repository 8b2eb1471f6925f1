------------------------------ MODULE I2cProof ------------------------------
(***************************************************************************)
(* Proofs about the I2C driver of I2c, for every bound, kind of transaction *)
(* and option: what its interrupt handler, the client's calls, the tick and *)
(* the bus do to TransferInv and MasterInv, one lemma for each part.        *)
(***************************************************************************)
EXTENDS I2c, TLAPS

\* What each of the actors leaves alone.
LEMMA ControllerFrame ==
  ASSUME Controller
  PROVE  /\ UNCHANGED <<sla, plic, trans, how, master_status, master_timeout_ms, master, slave, thread>>
         /\ ctrl' \in {ctrl \cup {"SI"}, ctrl \ {"STO"}} /\ Runs
BY DEF Controller, Stop, Start, Restart, SendAddress, SendByte, ReceiveByte, Addressed, SlaveReceive,
   SlaveSend, Fault, Raise, Lose, plic, trans, how, master, slave, thread, Runs, Master, hist, vars

LEMMA HandlerFrame ==
  ASSUME Handler
  PROVE  /\ UNCHANGED <<STATUS, pending_transaction, master_timeout_ms, tx_size, rx_size, thread, hist>>
         /\ "SI" \in ctrl /\ enabled /\ ~closed /\ (Masked => pc # "sampled")
BY DEF Handler, IsrStart, IsrLostArb, IsrNack, IsrTx, IsrSlarAck, IsrRxAck, IsrRxNack, IsrSlaNack,
   IsrSlaveWrite, IsrRdata, IsrRstop, IsrSlvRst, IsrSlaveRead, IsrSlaveReadEnd, IsrError, Isr

LEMMA ThreadFrame ==
  ASSUME Thread
  PROVE  UNCHANGED <<STATUS, sla, closed, bus_status, slave_status, fault, disturbed>>
BY DEF Thread, Sample, Begin, WaitComplete, Completed, EnableSlave, EnablePlic, DisableSlave, Configure,
   SetSlaveTxBuffer, SetSlaveRxBuffer, SetOffsetLength, RegisterWriteHandler, hw, plic, how, slave, hist

\* The controller's and the PLIC's registers keep their types.
LEMMA ControllerStep ==
  ASSUME Types, Next
  PROVE  ControllerTypes'
<1> USE I2cAssumption DEF Types, vars, hw, plic, trans,
   how, master, slave, thread, hist, MasterStates, SlaveRxStates, SlaveTxStates, OffBus,
   States, Statuses, TxSizes, RxSizes, SlaveSizes, MasterKinds, NoTransaction, ControllerTypes
<1>1. CASE Stop
  BY <1>1 DEF Stop
<1>2. CASE Start
  BY <1>2 DEF Start, Raise
<1>3. CASE Restart
  BY <1>3 DEF Restart, Raise
<1>4. CASE SendAddress
  BY <1>4 DEF SendAddress, Raise, Lose, Disturb
<1>5. CASE SendByte
  BY <1>5 DEF SendByte, Raise, Lose, Disturb
<1>6. CASE ReceiveByte
  BY <1>6 DEF ReceiveByte, Raise
<1>7. CASE Addressed
  BY <1>7 DEF Addressed, Raise, Disturb
<1>8. CASE SlaveReceive
  BY <1>8 DEF SlaveReceive, Raise
<1>9. CASE SlaveSend
  BY <1>9 DEF SlaveSend, Raise
<1>10. CASE Fault
  BY <1>10 DEF Fault, Raise
<1>11. CASE IsrStart \/ IsrLostArb \/ IsrNack
  BY <1>11 DEF IsrStart, Isr, SetCtrl, IsrLostArb, IsrNack, End, EnableSlaveIfRequired
<1>12. CASE IsrTx
  BY <1>12 DEF IsrTx, Isr, SetCtrl, End, EnableSlaveIfRequired, Finish, TxByte, TurnAround
<1>13. CASE IsrSlarAck \/ IsrRxAck
  BY <1>13 DEF IsrSlarAck, Isr, SetCtrl, End, IsrRxAck
<1>14. CASE IsrRxNack
  BY <1>14 DEF IsrRxNack, Isr, SetCtrl, End, EnableSlaveIfRequired, Finish
<1>15. CASE IsrSlaNack \/ IsrSlaveWrite
  BY <1>15 DEF IsrSlaNack, Isr, SetCtrl, StaIfPending, IsrSlaveWrite
<1>16. CASE IsrRdata \/ IsrRstop \/ IsrSlvRst
  BY <1>16 DEF IsrRdata, Isr, SetCtrl, IsrRstop, StaIfPending, EnableSlaveIfRequired,
     SlaveWritten, RandomReadAddr, IsrSlvRst, FailIfBusy
<1>17. CASE IsrSlaveRead
  BY <1>17 DEF IsrSlaveRead, Isr, SetCtrl
<1>18. CASE IsrSlaveReadEnd \/ IsrError
  BY <1>18 DEF IsrSlaveReadEnd, Isr, SetCtrl, StaIfPending, IsrError, FailIfBusy
<1>19. CASE SystemTick
  BY <1>19 DEF SystemTick
<1>20. CASE Begin
  BY <1>20 DEF Begin, MessageSizes
<1>21. CASE EnableSlave \/ DisableSlave
  BY <1>21 DEF EnableSlave, MayCall, GivenUp, Busy, DisableSlave
<1>22. CASE Sample \/ WaitComplete \/ Completed \/ EnablePlic
  BY <1>22 DEF Sample, GivenUp, Busy, WaitComplete, Completed, EnablePlic
<1>23. CASE SetSlaveTxBuffer \/ SetSlaveRxBuffer \/ SetOffsetLength \/ RegisterWriteHandler
  BY <1>23 DEF SetSlaveTxBuffer, Configure, MayCall, GivenUp, Busy, SetSlaveRxBuffer,
     SetOffsetLength, RegisterWriteHandler
<1>24. QED
  BY <1>1, <1>2, <1>3, <1>4, <1>5, <1>6, <1>7, <1>8, <1>9, <1>10, <1>11, <1>12, <1>13, <1>14,
     <1>15, <1>16, <1>17, <1>18, <1>19, <1>20, <1>21, <1>22, <1>23 DEF Next, Controller,
     Handler, Thread

\* So does the state of the transactions; nothing in it is the controller's to change.
LEMMA StateStep ==
  ASSUME Types, Next
  PROVE  StateTypes'
<1> USE I2cAssumption DEF Types, vars, hw, plic, trans,
   how, master, slave, thread, hist, MasterStates, SlaveRxStates, SlaveTxStates, OffBus,
   States, Statuses, TxSizes, RxSizes, SlaveSizes, MasterKinds, NoTransaction, StateTypes,
   ControllerTypes
<1>1. CASE Controller
  BY <1>1, ControllerFrame
<1>2. CASE IsrStart
  <2>1. transaction' = pending_transaction /\ is_transaction_pending' = FALSE
    BY <1>2 DEF IsrStart
  <2>2. UNCHANGED <<pending_transaction, how, master_status, slave, thread>>
    BY <1>2 DEF IsrStart, Isr
  <2>3. is_transaction_pending' \in BOOLEAN
    BY <2>1
  <2>4. QED
    BY <2>1, <2>2, <2>3
<1>3. CASE IsrLostArb \/ IsrNack \/ IsrRxAck
  BY <1>3 DEF IsrLostArb, Isr, SetCtrl, IsrNack, End, EnableSlaveIfRequired, IsrRxAck
<1>4. CASE IsrTx
  <2> USE <1>4 DEF IsrTx, Isr, SetCtrl
  <2>1. CASE TxByte
    BY <2>1 DEF TxByte
  <2>2. CASE TurnAround
    BY <2>2 DEF TurnAround
  <2>3. CASE Finish /\ UNCHANGED <<tx_idx, rx_idx>>
    BY <2>3 DEF Finish, End
  <2>4. QED
    BY <2>1, <2>2, <2>3
<1>5. CASE IsrSlarAck
  <2>1. transaction' \in {transaction, NoTransaction} /\ master_status' \in {master_status, "SUCCESS"}
    BY <1>5 DEF IsrSlarAck, End
  <2>2. UNCHANGED <<pending_transaction, is_transaction_pending, how, slave, thread>>
    BY <1>5 DEF IsrSlarAck, Isr
  <2>3. QED
    BY <2>1, <2>2
<1>6. CASE IsrRxNack
  BY <1>6 DEF IsrRxNack, Isr, SetCtrl, End, EnableSlaveIfRequired, Finish
<1>7. CASE IsrSlaNack \/ IsrSlaveWrite \/ IsrRdata
  BY <1>7 DEF IsrSlaNack, Isr, SetCtrl, StaIfPending, IsrSlaveWrite, IsrRdata
<1>8. CASE IsrRstop
  <2>1. is_slave_enabled' = is_slave_enabled \/ is_slave_enabled' = FALSE
    BY <1>8 DEF IsrRstop, SlaveWritten
  <2>2. is_slave_enabled' \in BOOLEAN
    BY <2>1
  <2>3. UNCHANGED <<pending_transaction, is_transaction_pending, how, master_status, write_handler, thread>>
    BY <1>8 DEF IsrRstop, Isr
  <2>4. transaction' = NoTransaction /\ slave_status' = "SUCCESS"
    BY <1>8 DEF IsrRstop
  <2>5. QED
    BY <2>2, <2>3, <2>4
<1>9. CASE IsrSlvRst \/ IsrError
  BY <1>9 DEF IsrSlvRst, Isr, SetCtrl, EnableSlaveIfRequired, FailIfBusy, IsrError
<1>10. CASE IsrSlaveRead
  <2>1. transaction' \in {transaction, "slave_read"} /\ slave_status' \in {slave_status, "IN_PROGRESS"}
    BY <1>10 DEF IsrSlaveRead
  <2>2. is_transaction_pending' \in BOOLEAN
    BY <1>10 DEF IsrSlaveRead
  <2>3. UNCHANGED <<pending_transaction, how, master_status, is_slave_enabled, write_handler, thread>>
    BY <1>10 DEF IsrSlaveRead, Isr
  <2>4. QED
    BY <2>1, <2>2, <2>3
<1>11. CASE IsrSlaveReadEnd
  BY <1>11 DEF IsrSlaveReadEnd, Isr, SetCtrl, StaIfPending
<1>12. CASE SystemTick
  <2>1. transaction' \in {transaction, NoTransaction} /\ master_status' \in {master_status, "TIMED_OUT"}
    BY <1>12 DEF SystemTick
  <2>2. is_transaction_pending' = is_transaction_pending \/ is_transaction_pending' = FALSE
    BY <1>12 DEF SystemTick
  <2>3. is_transaction_pending' \in BOOLEAN
    BY <2>2
  <2>4. UNCHANGED <<pending_transaction, how, slave, thread>>
    BY <1>12 DEF SystemTick
  <2>5. QED
    BY <2>1, <2>3, <2>4
<1>13. CASE Begin
  BY <1>13 DEF Begin, MessageSizes
<1>14. CASE EnableSlave
  BY <1>14 DEF EnableSlave, MayCall, GivenUp, Busy
<1>15. CASE DisableSlave
  <2>1. is_slave_enabled' \in BOOLEAN
    BY <1>15 DEF DisableSlave
  <2>2. UNCHANGED <<trans, how, master_status, slave_status, write_handler, thread>>
    BY <1>15 DEF DisableSlave
  <2>3. QED
    BY <2>1, <2>2
<1>16. CASE Sample \/ WaitComplete \/ Completed \/ EnablePlic
  BY <1>16 DEF Sample, GivenUp, Busy, WaitComplete, Completed, EnablePlic
<1>17. CASE SetSlaveTxBuffer \/ SetSlaveRxBuffer \/ SetOffsetLength \/ RegisterWriteHandler
  BY <1>17 DEF SetSlaveTxBuffer, Configure, MayCall, GivenUp, Busy, SetSlaveRxBuffer,
     SetOffsetLength, RegisterWriteHandler
<1>18. QED
  BY <1>1, <1>2, <1>3, <1>4, <1>5, <1>6, <1>7, <1>8, <1>9, <1>10, <1>11, <1>12, <1>13, <1>14,
     <1>15, <1>16, <1>17 DEF Next, Handler, Thread

\* The indexes stay in their buffers, but for that of a read.
LEMMA BufferStep ==
  ASSUME Types, Next
  PROVE  BufferTypes'
<1> USE I2cAssumption DEF Types, vars, hw, plic, trans,
   how, master, slave, thread, hist, MasterStates, SlaveRxStates, SlaveTxStates, OffBus,
   States, Statuses, TxSizes, RxSizes, SlaveSizes, MasterKinds, NoTransaction, BufferTypes,
   ControllerTypes
<1>1. CASE Controller
  BY <1>1, ControllerFrame
<1>2. CASE IsrStart \/ IsrLostArb
  BY <1>2 DEF IsrStart, Isr, SetCtrl, IsrLostArb
<1>3. CASE IsrNack
  BY <1>3 DEF IsrNack, Isr, SetCtrl, End, EnableSlaveIfRequired
<1>4. CASE IsrTx
  <2> USE <1>4 DEF IsrTx, Isr, SetCtrl
  <2>1. CASE TxByte
    BY <2>1 DEF TxByte
  <2>2. CASE TurnAround
    BY <2>2 DEF TurnAround
  <2>3. CASE Finish /\ UNCHANGED <<tx_idx, rx_idx>>
    BY <2>3 DEF Finish, End
  <2>4. QED
    BY <2>1, <2>2, <2>3
<1>5. CASE IsrSlarAck \/ IsrRxAck
  BY <1>5 DEF IsrSlarAck, Isr, SetCtrl, End, IsrRxAck
<1>6. CASE IsrRxNack
  BY <1>6 DEF IsrRxNack, Isr, SetCtrl, End, EnableSlaveIfRequired, Finish
<1>7. CASE IsrSlaNack \/ IsrSlaveWrite
  BY <1>7 DEF IsrSlaNack, Isr, SetCtrl, StaIfPending, IsrSlaveWrite
<1>8. CASE IsrRdata
  BY <1>8 DEF IsrRdata, Isr, SetCtrl
<1>9. CASE IsrRstop
  <2>1. stx_idx' \in SlaveSizes
    BY <1>9 DEF IsrRstop, SlaveWritten, RandomReadAddr
  <2>2. UNCHANGED <<master_timeout_ms, master, stx_size, srx_size, srx_idx, offset_length>>
    BY <1>9 DEF IsrRstop, Isr
  <2>3. QED
    BY <2>1, <2>2
<1>10. CASE IsrSlvRst \/ IsrError
  BY <1>10 DEF IsrSlvRst, Isr, SetCtrl, EnableSlaveIfRequired, FailIfBusy, IsrError
<1>11. CASE IsrSlaveRead
  BY <1>11 DEF IsrSlaveRead, Isr, SetCtrl
<1>12. CASE IsrSlaveReadEnd
  BY <1>12 DEF IsrSlaveReadEnd, Isr, SetCtrl, StaIfPending
<1>13. CASE SystemTick
  BY <1>13 DEF SystemTick
<1>14. CASE Begin
  <2>1. PICK kind \in MasterKinds : MessageSizes(kind)
    BY <1>14 DEF Begin
  <2>2. /\ tx_size' \in TxSizes /\ tx_idx' \in {tx_idx, 0} /\ (tx_idx' = 0 \/ tx_size' = tx_size)
        /\ rx_size' \in RxSizes /\ rx_idx' \in {rx_idx, 0}
    BY <2>1 DEF MessageSizes
  <2>3. UNCHANGED <<master_timeout_ms, stx_size, stx_idx, srx_size, srx_idx, offset_length>>
    BY <1>14 DEF Begin
  <2>4. QED
    BY <2>2, <2>3
<1>15. CASE EnableSlave \/ DisableSlave
  BY <1>15 DEF EnableSlave, MayCall, GivenUp, Busy, DisableSlave
<1>16. CASE Sample \/ WaitComplete \/ Completed \/ EnablePlic
  BY <1>16 DEF Sample, GivenUp, Busy, WaitComplete, Completed, EnablePlic
<1>17. CASE SetSlaveTxBuffer \/ SetSlaveRxBuffer
  BY <1>17 DEF SetSlaveTxBuffer, Configure, MayCall, GivenUp, Busy, SetSlaveRxBuffer
<1>18. CASE SetOffsetLength \/ RegisterWriteHandler
  BY <1>18 DEF SetOffsetLength, Configure, MayCall, GivenUp, Busy, RegisterWriteHandler
<1>19. QED
  BY <1>1, <1>2, <1>3, <1>4, <1>5, <1>6, <1>7, <1>8, <1>9, <1>10, <1>11, <1>12, <1>13, <1>14,
     <1>15, <1>16, <1>17, <1>18 DEF Next, Handler, Thread

\* The history variables keep their types.
LEMMA HistoryStep ==
  ASSUME Types, Next
  PROVE  HistoryTypes'
<1> USE I2cAssumption DEF Types, vars, hw, plic, trans,
   how, master, slave, thread, hist, MasterStates, SlaveRxStates, SlaveTxStates, OffBus,
   States, Statuses, TxSizes, RxSizes, SlaveSizes, MasterKinds, NoTransaction, HistoryTypes,
   ControllerTypes
<1>1. CASE Stop
  BY <1>1 DEF Stop
<1>2. CASE Start
  BY <1>2 DEF Start, Raise
<1>3. CASE Restart
  BY <1>3 DEF Restart, Raise
<1>4. CASE SendAddress
  BY <1>4 DEF SendAddress, Raise, Lose, Disturb
<1>5. CASE SendByte
  BY <1>5 DEF SendByte, Raise, Lose, Disturb
<1>6. CASE ReceiveByte
  BY <1>6 DEF ReceiveByte, Raise
<1>7. CASE Addressed
  BY <1>7 DEF Addressed, Raise, Disturb
<1>8. CASE SlaveReceive
  BY <1>8 DEF SlaveReceive, Raise
<1>9. CASE SlaveSend
  BY <1>9 DEF SlaveSend, Raise
<1>10. CASE Fault
  BY <1>10 DEF Fault, Raise
<1>11. CASE Handler
  BY <1>11, HandlerFrame
<1>12. CASE SystemTick
  BY <1>12 DEF SystemTick
<1>13. CASE Begin
  BY <1>13 DEF Begin, MessageSizes
<1>14. CASE EnableSlave \/ DisableSlave
  BY <1>14 DEF EnableSlave, MayCall, GivenUp, Busy, DisableSlave
<1>15. CASE Sample \/ WaitComplete \/ Completed \/ EnablePlic
  BY <1>15 DEF Sample, GivenUp, Busy, WaitComplete, Completed, EnablePlic
<1>16. CASE SetSlaveTxBuffer \/ SetSlaveRxBuffer \/ SetOffsetLength \/ RegisterWriteHandler
  BY <1>16 DEF SetSlaveTxBuffer, Configure, MayCall, GivenUp, Busy, SetSlaveRxBuffer,
     SetOffsetLength, RegisterWriteHandler
<1>17. QED
  BY <1>1, <1>2, <1>3, <1>4, <1>5, <1>6, <1>7, <1>8, <1>9, <1>10, <1>11, <1>12, <1>13, <1>14,
     <1>15, <1>16 DEF Next, Controller, Thread

LEMMA TypesStep ==
  ASSUME Types, [Next]_vars
  PROVE  Types'
<1>1. CASE Next
  BY <1>1, ControllerStep, StateStep, BufferStep, HistoryStep DEF Types
<1>2. CASE UNCHANGED vars
  BY <1>2 DEF vars, hw, plic, trans, how, master, slave, thread, hist, Types, ControllerTypes,
     StateTypes, BufferTypes, HistoryTypes
<1>3. QED
  BY <1>1, <1>2

LEMMA TypesInit ==
  ASSUME Init
  PROVE  Types
<1> USE I2cAssumption DEF Init
<1>1. ControllerTypes
  BY DEF ControllerTypes, States, OffBus
<1>2. is_transaction_pending \in BOOLEAN /\ is_slave_enabled \in BOOLEAN /\ write_handler \in BOOLEAN
  OBVIOUS
<1>3. StateTypes
  BY <1>2 DEF StateTypes, Statuses, NoTransaction
<1>4. BufferTypes
  BY DEF BufferTypes, TxSizes, RxSizes, SlaveSizes
<1>5. HistoryTypes
  BY DEF HistoryTypes
<1>6. QED
  BY <1>1, <1>3, <1>4, <1>5 DEF Types

\* Whatever the client does and whatever happens on the bus, every variable keeps its
\* type, and every index but that of the read buffer stays in its buffer.
THEOREM Typing ==
  Spec => []Types
<1>1. Init => Types
  BY TypesInit
<1>2. Types /\ [Next]_vars => Types'
  BY TypesStep
<1>3. QED
  BY <1>1, <1>2, PTL DEF Spec

\* The index of a read stays in its buffer by what the AA bit allows.
LEMMA FitsStep ==
  ASSUME TypeOK, ReadInBounds, Next
  PROVE  rx_idx' <= rx_size'
<1> USE I2cAssumption DEF TypeOK, Types, BufferTypes, RxSizes
<1>1. CASE Controller \/ SystemTick
  BY <1>1, ControllerFrame DEF SystemTick, master
<1>2. CASE Handler
  <2>1. rx_size' = rx_size
    BY <1>2, HandlerFrame
  <2>2. CASE IsrStart \/ IsrTx
    BY <2>1, <2>2 DEF IsrStart, IsrTx, TxByte, TurnAround
  <2>3. CASE IsrRxAck
    BY <2>1, <2>3 DEF IsrRxAck, Isr, ReadInBounds
  <2>4. CASE \/ IsrLostArb \/ IsrNack \/ IsrSlarAck \/ IsrRxNack \/ IsrSlaNack \/ IsrSlaveWrite
             \/ IsrRdata \/ IsrRstop \/ IsrSlvRst \/ IsrSlaveRead \/ IsrSlaveReadEnd \/ IsrError
    BY <2>1, <2>4 DEF IsrLostArb, IsrNack, IsrSlarAck, IsrRxNack, IsrSlaNack, IsrSlaveWrite,
       IsrRdata, IsrRstop, IsrSlvRst, IsrSlaveRead, IsrSlaveReadEnd, IsrError
  <2>5. QED
    BY <1>2, <2>2, <2>3, <2>4 DEF Handler
<1>3. CASE Begin
  <2>1. PICK kind \in MasterKinds : MessageSizes(kind)
    BY <1>3 DEF Begin
  <2>2. \/ UNCHANGED <<rx_size, rx_idx>>
        \/ rx_size' \in RxSizes /\ rx_idx' = 0
    BY <2>1 DEF MessageSizes, MasterKinds
  <2>3. QED
    BY <2>2
<1>4. CASE Thread /\ ~Begin
  BY <1>4 DEF Thread, Sample, WaitComplete, Completed, EnableSlave, EnablePlic, DisableSlave, Configure,
     SetSlaveTxBuffer, SetSlaveRxBuffer, SetOffsetLength, RegisterWriteHandler, master
<1>5. QED
  BY <1>1, <1>2, <1>3, <1>4 DEF Next

\* The controller is never a master for nobody: a transaction ends off the bus, and
\* a new one is begun by a client that has none.
LEMMA OwnedStep ==
  ASSUME Disciplined, TypeOK, Owned, Stopping, Held, Next, fault' # "BUS_ERROR"
  PROVE  Owned'
<1> USE I2cAssumption DEF Disciplined, TypeOK, Types, ControllerTypes, StateTypes, Owned, Owner,
   Stopping, Held, OnBus, Begun, Runs, Master, vars, hw, plic, trans, how, master, slave,
   thread, hist, MasterStates, SlaveRxStates, SlaveTxStates, OffBus, States, Statuses
<1>1. CASE Stop \/ Start \/ Restart
  BY <1>1 DEF Stop, Start, Raise, Restart
<1>2. CASE SendAddress
  BY <1>2 DEF SendAddress, Raise, Lose, Disturb
<1>3. CASE SendByte
  BY <1>3 DEF SendByte, Raise, Lose, Disturb
<1>4. CASE ReceiveByte
  BY <1>4 DEF ReceiveByte, Raise
<1>5. CASE Addressed
  BY <1>5 DEF Addressed, Raise, Disturb
<1>6. CASE SlaveReceive \/ SlaveSend \/ Fault
  BY <1>6 DEF SlaveReceive, Raise, SlaveSend, Fault
<1>7. CASE IsrStart \/ IsrLostArb
  BY <1>7 DEF IsrStart, Isr, SetCtrl, IsrLostArb
<1>8. CASE IsrNack
  BY <1>8 DEF IsrNack, Isr, SetCtrl, End, EnableSlaveIfRequired
<1>9. CASE IsrTx
  <2> USE <1>9 DEF IsrTx, Isr, SetCtrl
  <2>1. CASE TxByte
    BY <2>1 DEF TxByte
  <2>2. CASE TurnAround
    BY <2>2 DEF TurnAround
  <2>3. CASE Finish
    <3>1. /\ "STA" \notin ctrl' /\ ~is_transaction_pending' /\ UNCHANGED <<STATUS, pc>>
          /\ "STO" \in ctrl' \/ closed'
          /\ pc # "sampled"
      BY <2>3 DEF Finish, EnableSlaveIfRequired
    <3>2. QED
      BY <3>1
  <2>4. QED
    BY <2>1, <2>2, <2>3
<1>10. CASE IsrSlarAck
  BY <1>10 DEF IsrSlarAck, Isr, SetCtrl, End
<1>11. CASE IsrRxAck
  BY <1>11 DEF IsrRxAck, Isr, SetCtrl
<1>12. CASE IsrRxNack
  BY <1>12 DEF IsrRxNack, Isr, SetCtrl, End, EnableSlaveIfRequired, Finish
<1>13. CASE IsrSlaNack \/ IsrSlaveWrite \/ IsrRdata
  BY <1>13 DEF IsrSlaNack, Isr, SetCtrl, StaIfPending, IsrSlaveWrite, IsrRdata
<1>14. CASE IsrRstop
  BY <1>14 DEF IsrRstop, Isr, SetCtrl, StaIfPending, EnableSlaveIfRequired, SlaveWritten,
     RandomReadAddr
<1>15. CASE IsrSlvRst \/ IsrError
  BY <1>15 DEF IsrSlvRst, Isr, SetCtrl, EnableSlaveIfRequired, FailIfBusy, IsrError
<1>16. CASE IsrSlaveRead
  <2>1. STATUS' \in SlaveTxStates /\ UNCHANGED <<master_status, pc, STATUS>>
    BY <1>16 DEF IsrSlaveRead, Isr
  <2>2. "STA" \in ctrl' => "STA" \in ctrl
    BY <1>16 DEF IsrSlaveRead, SetCtrl
  <2>3. is_transaction_pending' => is_transaction_pending \/ "STA" \in ctrl
    BY <1>16 DEF IsrSlaveRead
  <2>4. QED
    BY <2>1, <2>2, <2>3
<1>17. CASE IsrSlaveReadEnd
  BY <1>17 DEF IsrSlaveReadEnd, Isr, SetCtrl, StaIfPending
<1>18. CASE SystemTick
  BY <1>18 DEF SystemTick
<1>19. CASE Begin
  BY <1>19 DEF Begin, MessageSizes
<1>20. CASE EnableSlave \/ DisableSlave
  BY <1>20 DEF EnableSlave, MayCall, GivenUp, Busy, DisableSlave
<1>21. CASE Sample \/ WaitComplete \/ Completed \/ EnablePlic
  BY <1>21 DEF Sample, GivenUp, Busy, WaitComplete, Completed, EnablePlic
<1>22. CASE SetSlaveTxBuffer \/ SetSlaveRxBuffer \/ SetOffsetLength \/ RegisterWriteHandler
  BY <1>22 DEF SetSlaveTxBuffer, Configure, MayCall, GivenUp, Busy, SetSlaveRxBuffer,
     SetOffsetLength, RegisterWriteHandler
<1>23. QED
  BY <1>1, <1>2, <1>3, <1>4, <1>5, <1>6, <1>7, <1>8, <1>9, <1>10, <1>11, <1>12, <1>13, <1>14,
     <1>15, <1>16, <1>17, <1>18, <1>19, <1>20, <1>21, <1>22 DEF Next, Controller, Handler,
     Thread

\* A STOP is asked for once a transaction is over, and sent before anything else.
LEMMA StoppingStep ==
  ASSUME Disciplined, TypeOK, Owned, Stopping, Held, Next, fault' # "BUS_ERROR"
  PROVE  Stopping'
<1> USE I2cAssumption DEF Disciplined, TypeOK, Types, ControllerTypes, StateTypes, Owned, Owner,
   Stopping, Held, OnBus, Begun, Runs, Master, vars, hw, plic, trans, how, master, slave,
   thread, hist, MasterStates, SlaveRxStates, SlaveTxStates, OffBus, States, Statuses
<1>1. CASE Stop \/ Start \/ Restart
  BY <1>1 DEF Stop, Start, Raise, Restart
<1>2. CASE SendAddress
  BY <1>2 DEF SendAddress, Raise, Lose, Disturb
<1>3. CASE SendByte
  BY <1>3 DEF SendByte, Raise, Lose, Disturb
<1>4. CASE ReceiveByte
  BY <1>4 DEF ReceiveByte, Raise
<1>5. CASE Addressed
  BY <1>5 DEF Addressed, Raise, Disturb
<1>6. CASE SlaveReceive \/ SlaveSend \/ Fault
  BY <1>6 DEF SlaveReceive, Raise, SlaveSend, Fault
<1>7. CASE IsrStart \/ IsrLostArb
  BY <1>7 DEF IsrStart, Isr, SetCtrl, IsrLostArb
<1>8. CASE IsrNack
  BY <1>8 DEF IsrNack, Isr, SetCtrl, End, EnableSlaveIfRequired
<1>9. CASE IsrTx
  BY <1>9 DEF IsrTx, Isr, SetCtrl, End, EnableSlaveIfRequired, Finish, TxByte, TurnAround
<1>10. CASE IsrSlarAck
  BY <1>10 DEF IsrSlarAck, Isr, SetCtrl, End
<1>11. CASE IsrRxAck
  BY <1>11 DEF IsrRxAck, Isr, SetCtrl
<1>12. CASE IsrRxNack
  BY <1>12 DEF IsrRxNack, Isr, SetCtrl, End, EnableSlaveIfRequired, Finish
<1>13. CASE IsrSlaNack \/ IsrSlaveWrite \/ IsrRdata
  BY <1>13 DEF IsrSlaNack, Isr, SetCtrl, StaIfPending, IsrSlaveWrite, IsrRdata
<1>14. CASE IsrRstop
  BY <1>14 DEF IsrRstop, Isr, SetCtrl, StaIfPending, EnableSlaveIfRequired, SlaveWritten,
     RandomReadAddr
<1>15. CASE IsrSlvRst \/ IsrError
  BY <1>15 DEF IsrSlvRst, Isr, SetCtrl, EnableSlaveIfRequired, FailIfBusy, IsrError
<1>16. CASE IsrSlaveRead
  BY <1>16 DEF IsrSlaveRead, Isr, SetCtrl
<1>17. CASE IsrSlaveReadEnd
  BY <1>17 DEF IsrSlaveReadEnd, Isr, SetCtrl, StaIfPending
<1>18. CASE SystemTick
  BY <1>18 DEF SystemTick
<1>19. CASE Begin
  BY <1>19 DEF Begin, MessageSizes
<1>20. CASE EnableSlave \/ DisableSlave
  BY <1>20 DEF EnableSlave, MayCall, GivenUp, Busy, DisableSlave
<1>21. CASE Sample \/ WaitComplete \/ Completed \/ EnablePlic
  BY <1>21 DEF Sample, GivenUp, Busy, WaitComplete, Completed, EnablePlic
<1>22. CASE SetSlaveTxBuffer \/ SetSlaveRxBuffer \/ SetOffsetLength \/ RegisterWriteHandler
  BY <1>22 DEF SetSlaveTxBuffer, Configure, MayCall, GivenUp, Busy, SetSlaveRxBuffer,
     SetOffsetLength, RegisterWriteHandler
<1>23. QED
  BY <1>1, <1>2, <1>3, <1>4, <1>5, <1>6, <1>7, <1>8, <1>9, <1>10, <1>11, <1>12, <1>13, <1>14,
     <1>15, <1>16, <1>17, <1>18, <1>19, <1>20, <1>21, <1>22 DEF Next, Controller, Handler,
     Thread

\* A bus once held keeps the handler out.
LEMMA HeldStep ==
  ASSUME Disciplined, TypeOK, Owned, Stopping, Held, Next, fault' # "BUS_ERROR"
  PROVE  Held'
<1> USE I2cAssumption DEF Disciplined, TypeOK, Types, ControllerTypes, StateTypes, Owned, Owner,
   Stopping, Held, OnBus, Begun, Runs, Master, vars, hw, plic, trans, how, master, slave,
   thread, hist, MasterStates, SlaveRxStates, SlaveTxStates, OffBus, States, Statuses
<1>1. CASE Stop \/ Start \/ Restart
  BY <1>1 DEF Stop, Start, Raise, Restart
<1>2. CASE SendAddress
  BY <1>2 DEF SendAddress, Raise, Lose, Disturb
<1>3. CASE SendByte
  BY <1>3 DEF SendByte, Raise, Lose, Disturb
<1>4. CASE ReceiveByte
  BY <1>4 DEF ReceiveByte, Raise
<1>5. CASE Addressed
  BY <1>5 DEF Addressed, Raise, Disturb
<1>6. CASE SlaveReceive \/ SlaveSend \/ Fault
  BY <1>6 DEF SlaveReceive, Raise, SlaveSend, Fault
<1>7. CASE IsrStart \/ IsrLostArb
  BY <1>7 DEF IsrStart, Isr, SetCtrl, IsrLostArb
<1>8. CASE IsrNack
  BY <1>8 DEF IsrNack, Isr, SetCtrl, End, EnableSlaveIfRequired
<1>9. CASE IsrTx
  <2> USE <1>9 DEF IsrTx, Isr, SetCtrl
  <2>1. CASE TxByte
    BY <2>1 DEF TxByte
  <2>2. CASE TurnAround
    BY <2>2 DEF TurnAround
  <2>3. CASE Finish
    <3>1. \/ closed' = closed /\ bus_status' = "release"
          \/ closed' = TRUE /\ bus_status' = "hold" /\ UNCHANGED <<ctrl, STATUS>>
      BY <2>3 DEF Finish
    <3>2. QED
      BY <3>1
  <2>4. QED
    BY <2>1, <2>2, <2>3
<1>10. CASE IsrSlarAck
  <2>1. UNCHANGED <<closed, bus_status>> /\ ~closed
    BY <1>10 DEF IsrSlarAck, Isr, SetCtrl
  <2>2. QED
    BY <2>1
<1>11. CASE IsrRxAck
  BY <1>11 DEF IsrRxAck, Isr, SetCtrl
<1>12. CASE IsrRxNack
  <2> USE <1>12 DEF IsrRxNack, Isr, SetCtrl
  <2>1. \/ closed' = closed /\ bus_status' = "release"
        \/ closed' = TRUE /\ bus_status' = "hold" /\ UNCHANGED <<ctrl, STATUS>>
    BY DEF Finish
  <2>2. QED
    BY <2>1
<1>13. CASE IsrSlaNack \/ IsrSlaveWrite \/ IsrRdata
  BY <1>13 DEF IsrSlaNack, Isr, SetCtrl, StaIfPending, IsrSlaveWrite, IsrRdata
<1>14. CASE IsrRstop
  <2>1. UNCHANGED <<closed, bus_status>> /\ ~closed
    BY <1>14 DEF IsrRstop, SlaveWritten, Isr, SetCtrl
  <2>2. QED
    BY <2>1
<1>15. CASE IsrSlvRst \/ IsrError
  BY <1>15 DEF IsrSlvRst, Isr, SetCtrl, EnableSlaveIfRequired, FailIfBusy, IsrError
<1>16. CASE IsrSlaveRead
  <2>1. UNCHANGED <<closed, bus_status>> /\ ~closed
    BY <1>16 DEF IsrSlaveRead, Isr, SetCtrl
  <2>2. QED
    BY <2>1
<1>17. CASE IsrSlaveReadEnd
  BY <1>17 DEF IsrSlaveReadEnd, Isr, SetCtrl, StaIfPending
<1>18. CASE SystemTick
  BY <1>18 DEF SystemTick
<1>19. CASE Begin
  BY <1>19 DEF Begin, MessageSizes
<1>20. CASE EnableSlave \/ DisableSlave
  BY <1>20 DEF EnableSlave, MayCall, GivenUp, Busy, DisableSlave
<1>21. CASE Sample \/ WaitComplete \/ Completed \/ EnablePlic
  BY <1>21 DEF Sample, GivenUp, Busy, WaitComplete, Completed, EnablePlic
<1>22. CASE SetSlaveTxBuffer \/ SetSlaveRxBuffer \/ SetOffsetLength \/ RegisterWriteHandler
  BY <1>22 DEF SetSlaveTxBuffer, Configure, MayCall, GivenUp, Busy, SetSlaveRxBuffer,
     SetOffsetLength, RegisterWriteHandler
<1>23. QED
  BY <1>1, <1>2, <1>3, <1>4, <1>5, <1>6, <1>7, <1>8, <1>9, <1>10, <1>11, <1>12, <1>13, <1>14,
     <1>15, <1>16, <1>17, <1>18, <1>19, <1>20, <1>21, <1>22 DEF Next, Controller, Handler,
     Thread

\* The read index keeps the distance from the end of the buffer that AA says.
LEMMA ReadingStep ==
  ASSUME Disciplined, TypeOK, Owned, Stopping, Held, Next, fault' # "BUS_ERROR", Reading
  PROVE  Reading'
<1> USE I2cAssumption DEF Disciplined, TypeOK, Types, ControllerTypes, StateTypes, Owned, Owner,
   Stopping, Held, OnBus, Begun, Runs, Master, vars, hw, plic, trans, how, master, slave,
   thread, hist, MasterStates, SlaveRxStates, SlaveTxStates, OffBus, States, Statuses, Reading,
   ReadInBounds, RxSizes, BufferTypes
<1>1. CASE Stop \/ Start \/ Restart
  BY <1>1 DEF Stop, Start, Raise, Restart
<1>2. CASE SendAddress
  BY <1>2 DEF SendAddress, Raise, Lose, Disturb
<1>3. CASE SendByte
  BY <1>3 DEF SendByte, Raise, Lose, Disturb
<1>4. CASE ReceiveByte
  BY <1>4 DEF ReceiveByte, Raise
<1>5. CASE Addressed
  BY <1>5 DEF Addressed, Raise, Disturb
<1>6. CASE SlaveReceive \/ SlaveSend \/ Fault
  BY <1>6 DEF SlaveReceive, Raise, SlaveSend, Fault
<1>7. CASE IsrStart \/ IsrLostArb
  BY <1>7 DEF IsrStart, Isr, SetCtrl, IsrLostArb
<1>8. CASE IsrNack
  BY <1>8 DEF IsrNack, Isr, SetCtrl, End, EnableSlaveIfRequired
<1>9. CASE IsrTx
  BY <1>9 DEF IsrTx, Isr, SetCtrl, End, EnableSlaveIfRequired, Finish, TxByte, TurnAround
<1>10. CASE IsrSlarAck
  <2> USE <1>10 DEF IsrSlarAck, Isr, SetCtrl
  <2>1. STATUS = "SLAR_ACK" /\ OnBus /\ rx_idx = 0 /\ UNCHANGED <<STATUS, rx_idx, rx_size>>
    OBVIOUS
  <2>2. CASE rx_size > 1
    BY <2>1, <2>2
  <2>3. CASE rx_size = 1
    BY <2>1, <2>3
  <2>4. CASE rx_size = 0
    BY <2>1, <2>4
  <2>5. QED
    BY <2>2, <2>3, <2>4
<1>11. CASE IsrRxAck
  BY <1>11 DEF IsrRxAck, Isr, SetCtrl
<1>12. CASE IsrRxNack
  BY <1>12 DEF IsrRxNack, Isr, SetCtrl, End, EnableSlaveIfRequired, Finish
<1>13. CASE IsrSlaNack \/ IsrSlaveWrite \/ IsrRdata
  BY <1>13 DEF IsrSlaNack, Isr, SetCtrl, StaIfPending, IsrSlaveWrite, IsrRdata
<1>14. CASE IsrRstop
  BY <1>14 DEF IsrRstop, Isr, SetCtrl, StaIfPending, EnableSlaveIfRequired, SlaveWritten,
     RandomReadAddr
<1>15. CASE IsrSlvRst \/ IsrError
  BY <1>15 DEF IsrSlvRst, Isr, SetCtrl, EnableSlaveIfRequired, FailIfBusy, IsrError
<1>16. CASE IsrSlaveRead
  BY <1>16 DEF IsrSlaveRead, Isr, SetCtrl
<1>17. CASE IsrSlaveReadEnd
  BY <1>17 DEF IsrSlaveReadEnd, Isr, SetCtrl, StaIfPending
<1>18. CASE SystemTick
  BY <1>18 DEF SystemTick
<1>19. CASE Begin
  BY <1>19 DEF Begin, MessageSizes
<1>20. CASE EnableSlave \/ DisableSlave
  BY <1>20 DEF EnableSlave, MayCall, GivenUp, Busy, DisableSlave
<1>21. CASE Sample \/ WaitComplete \/ Completed \/ EnablePlic
  BY <1>21 DEF Sample, GivenUp, Busy, WaitComplete, Completed, EnablePlic
<1>22. CASE SetSlaveTxBuffer \/ SetSlaveRxBuffer \/ SetOffsetLength \/ RegisterWriteHandler
  BY <1>22 DEF SetSlaveTxBuffer, Configure, MayCall, GivenUp, Busy, SetSlaveRxBuffer,
     SetOffsetLength, RegisterWriteHandler
<1>23. QED
  BY <1>1, <1>2, <1>3, <1>4, <1>5, <1>6, <1>7, <1>8, <1>9, <1>10, <1>11, <1>12, <1>13, <1>14,
     <1>15, <1>16, <1>17, <1>18, <1>19, <1>20, <1>21, <1>22 DEF Next, Controller, Handler,
     Thread

\* An enabled slave gets its AA bit back whenever it may be addressed.
LEMMA AnsweringStep ==
  ASSUME Disciplined, TypeOK, Owned, Stopping, Held, Next, fault' # "BUS_ERROR", Reading, Answering
  PROVE  Answering'
<1> USE I2cAssumption DEF Disciplined, TypeOK, Types, ControllerTypes, StateTypes, Owned, Owner,
   Stopping, Held, OnBus, Begun, Runs, Master, vars, hw, plic, trans, how, master, slave,
   thread, hist, MasterStates, SlaveRxStates, SlaveTxStates, OffBus, States, Statuses,
   Answering
<1>1. CASE Stop \/ Start \/ Restart
  BY <1>1 DEF Stop, Start, Raise, Restart
<1>2. CASE SendAddress
  BY <1>2 DEF SendAddress, Raise, Lose, Disturb
<1>3. CASE SendByte
  <2>1. UNCHANGED <<is_slave_enabled, closed>> /\ ctrl' = ctrl \cup {"SI"}
    BY <1>3 DEF SendByte, Raise, Lose
  <2>2. QED
    BY <1>3, <2>1 DEF SendByte, Raise, Lose
<1>4. CASE ReceiveByte
  BY <1>4 DEF ReceiveByte, Raise
<1>5. CASE Addressed
  BY <1>5 DEF Addressed, Raise, Disturb
<1>6. CASE SlaveReceive \/ SlaveSend \/ Fault
  BY <1>6 DEF SlaveReceive, Raise, SlaveSend, Fault
<1>7. CASE IsrStart \/ IsrLostArb
  BY <1>7 DEF IsrStart, Isr, SetCtrl, IsrLostArb
<1>8. CASE IsrNack
  BY <1>8 DEF IsrNack, Isr, SetCtrl, End, EnableSlaveIfRequired
<1>9. CASE IsrTx
  BY <1>9 DEF IsrTx, Isr, SetCtrl, End, EnableSlaveIfRequired, Finish, TxByte, TurnAround
<1>10. CASE IsrSlarAck
  BY <1>10 DEF IsrSlarAck, Isr, SetCtrl, End
<1>11. CASE IsrRxAck
  BY <1>11 DEF IsrRxAck, Isr, SetCtrl
<1>12. CASE IsrRxNack
  BY <1>12 DEF IsrRxNack, Isr, SetCtrl, End, EnableSlaveIfRequired, Finish
<1>13. CASE IsrSlaNack \/ IsrSlaveWrite \/ IsrRdata
  BY <1>13 DEF IsrSlaNack, Isr, SetCtrl, StaIfPending, IsrSlaveWrite, IsrRdata
<1>14. CASE IsrRstop
  BY <1>14 DEF IsrRstop, Isr, SetCtrl, StaIfPending, EnableSlaveIfRequired, SlaveWritten,
     RandomReadAddr
<1>15. CASE IsrSlvRst \/ IsrError
  BY <1>15 DEF IsrSlvRst, Isr, SetCtrl, EnableSlaveIfRequired, FailIfBusy, IsrError
<1>16. CASE IsrSlaveRead
  BY <1>16 DEF IsrSlaveRead, Isr, SetCtrl
<1>17. CASE IsrSlaveReadEnd
  BY <1>17 DEF IsrSlaveReadEnd, Isr, SetCtrl, StaIfPending
<1>18. CASE SystemTick
  BY <1>18 DEF SystemTick
<1>19. CASE Begin
  BY <1>19 DEF Begin, MessageSizes
<1>20. CASE EnableSlave \/ DisableSlave
  BY <1>20 DEF EnableSlave, MayCall, GivenUp, Busy, DisableSlave
<1>21. CASE Sample \/ WaitComplete \/ Completed \/ EnablePlic
  BY <1>21 DEF Sample, GivenUp, Busy, WaitComplete, Completed, EnablePlic
<1>22. CASE SetSlaveTxBuffer \/ SetSlaveRxBuffer \/ SetOffsetLength \/ RegisterWriteHandler
  BY <1>22 DEF SetSlaveTxBuffer, Configure, MayCall, GivenUp, Busy, SetSlaveRxBuffer,
     SetOffsetLength, RegisterWriteHandler
<1>23. QED
  BY <1>1, <1>2, <1>3, <1>4, <1>5, <1>6, <1>7, <1>8, <1>9, <1>10, <1>11, <1>12, <1>13, <1>14,
     <1>15, <1>16, <1>17, <1>18, <1>19, <1>20, <1>21, <1>22 DEF Next, Controller, Handler,
     Thread

\* A transaction in progress goes in its direction, however often it is begun again.
LEMMA DirectedStep ==
  ASSUME Disciplined, "restart" \notin Contention, TypeOK, Owned, Stopping, Held, Reading, MasterInv,
         Next, Busy', fault' # "BUS_ERROR"
  PROVE  Directed'
<1> USE I2cAssumption DEF Disciplined, TypeOK, Types, ControllerTypes, StateTypes, Owned, Owner,
   Stopping, Held, OnBus, Begun, Runs, Master, vars, hw, plic, trans, how, master, slave,
   thread, hist, MasterStates, SlaveRxStates, SlaveTxStates, OffBus, States, Statuses,
   MasterInv, Busy, Directed, Counted, NoTransaction, MasterKinds, BufferTypes, TxSizes
<1>1. CASE Stop \/ Start
  BY <1>1 DEF Stop, Start, Raise
<1>2. CASE Restart
  <2>1. ~OnBus \/ (Begun /\ "STA" \in ctrl /\ STATUS \in {"SLAW_ACK", "TX_DATA_ACK"})
    BY <1>2 DEF Restart
  <2>2. QED
    BY <1>2, <2>1 DEF Restart, Raise
<1>3. CASE SendAddress
  BY <1>3 DEF SendAddress, Raise, Lose, Disturb
<1>4. CASE SendByte
  BY <1>4 DEF SendByte, Raise, Lose, Disturb
<1>5. CASE ReceiveByte
  BY <1>5 DEF ReceiveByte, Raise
<1>6. CASE Addressed
  BY <1>6 DEF Addressed, Raise, Disturb
<1>7. CASE SlaveReceive \/ SlaveSend \/ Fault
  BY <1>7 DEF SlaveReceive, Raise, SlaveSend, Fault
<1>8. CASE IsrStart \/ IsrLostArb
  BY <1>8 DEF IsrStart, Isr, SetCtrl, IsrLostArb
<1>9. CASE IsrNack
  BY <1>9 DEF IsrNack, Isr, SetCtrl, End, EnableSlaveIfRequired
<1>10. CASE IsrTx
  <2> USE <1>10 DEF IsrTx, Isr, SetCtrl
  <2>1. CASE TxByte
    BY <2>1 DEF TxByte
  <2>2. CASE TurnAround
    BY <2>2 DEF TurnAround
  <2>3. CASE Finish
    BY <2>3 DEF Finish, End
  <2>4. QED
    BY <2>1, <2>2, <2>3
<1>11. CASE IsrSlarAck
  <2> USE <1>11 DEF IsrSlarAck, Isr, SetCtrl
  <2>1. STATUS = "SLAR_ACK" /\ Begun /\ Busy
    BY DEF End
  <2>2. UNCHANGED <<STATUS, closed, pending_transaction, how, acked, tx_size>>
    OBVIOUS
  <2>3. ctrl' \in {ctrl \ {"SI"}, (ctrl \cup {"AA"}) \ {"SI"}, ctrl \ {"AA", "SI"}} /\ transaction' = transaction
    BY DEF End
  <2>4. QED
    BY <2>1, <2>2, <2>3
<1>12. CASE IsrRxAck
  BY <1>12 DEF IsrRxAck, Isr, SetCtrl
<1>13. CASE IsrRxNack
  BY <1>13 DEF IsrRxNack, Isr, SetCtrl, End, EnableSlaveIfRequired, Finish
<1>14. CASE IsrSlaNack \/ IsrSlaveWrite \/ IsrRdata
  BY <1>14 DEF IsrSlaNack, Isr, SetCtrl, StaIfPending, IsrSlaveWrite, IsrRdata
<1>15. CASE IsrRstop
  BY <1>15 DEF IsrRstop, Isr, SetCtrl, StaIfPending, EnableSlaveIfRequired, SlaveWritten,
     RandomReadAddr
<1>16. CASE IsrSlvRst \/ IsrError
  BY <1>16 DEF IsrSlvRst, Isr, SetCtrl, EnableSlaveIfRequired, FailIfBusy, IsrError
<1>17. CASE IsrSlaveRead
  BY <1>17 DEF IsrSlaveRead, Isr, SetCtrl
<1>18. CASE IsrSlaveReadEnd
  BY <1>18 DEF IsrSlaveReadEnd, Isr, SetCtrl, StaIfPending
<1>19. CASE SystemTick
  BY <1>19 DEF SystemTick
<1>20. CASE Begin
  BY <1>20 DEF Begin, MessageSizes
<1>21. CASE EnableSlave \/ DisableSlave
  BY <1>21 DEF EnableSlave, MayCall, GivenUp, Busy, DisableSlave
<1>22. CASE Sample \/ WaitComplete \/ Completed \/ EnablePlic
  BY <1>22 DEF Sample, GivenUp, Busy, WaitComplete, Completed, EnablePlic
<1>23. CASE SetSlaveTxBuffer \/ SetSlaveRxBuffer \/ SetOffsetLength \/ RegisterWriteHandler
  BY <1>23 DEF SetSlaveTxBuffer, Configure, MayCall, GivenUp, Busy, SetSlaveRxBuffer,
     SetOffsetLength, RegisterWriteHandler
<1>24. QED
  BY <1>1, <1>2, <1>3, <1>4, <1>5, <1>6, <1>7, <1>8, <1>9, <1>10, <1>11, <1>12, <1>13, <1>14,
     <1>15, <1>16, <1>17, <1>18, <1>19, <1>20, <1>21, <1>22, <1>23 DEF Next, Controller,
     Handler, Thread

\* The bytes on the bus are those that the indexes count.
LEMMA CountedStep ==
  ASSUME Disciplined, "restart" \notin Contention, TypeOK, Owned, Stopping, Held, Reading, MasterInv,
         Next, Busy', fault' # "BUS_ERROR"
  PROVE  Counted'
<1> USE I2cAssumption DEF Disciplined, TypeOK, Types, ControllerTypes, StateTypes, Owned, Owner,
   Stopping, Held, OnBus, Begun, Runs, Master, vars, hw, plic, trans, how, master, slave,
   thread, hist, MasterStates, SlaveRxStates, SlaveTxStates, OffBus, States, Statuses,
   MasterInv, Busy, Directed, Counted, NoTransaction, MasterKinds, BufferTypes, TxSizes,
   Reading, ReadInBounds, RxSizes, HistoryTypes
<1>1. CASE Stop \/ Start \/ Restart
  BY <1>1 DEF Stop, Start, Raise, Restart
<1>2. CASE SendAddress
  BY <1>2 DEF SendAddress, Raise, Lose, Disturb
<1>3. CASE SendByte
  BY <1>3 DEF SendByte, Raise, Lose, Disturb
<1>4. CASE ReceiveByte
  BY <1>4 DEF ReceiveByte, Raise
<1>5. CASE Addressed
  BY <1>5 DEF Addressed, Raise, Disturb
<1>6. CASE SlaveReceive \/ SlaveSend \/ Fault
  BY <1>6 DEF SlaveReceive, Raise, SlaveSend, Fault
<1>7. CASE IsrStart \/ IsrLostArb
  BY <1>7 DEF IsrStart, Isr, SetCtrl, IsrLostArb
<1>8. CASE IsrNack
  BY <1>8 DEF IsrNack, Isr, SetCtrl, End, EnableSlaveIfRequired
<1>9. CASE IsrTx
  BY <1>9 DEF IsrTx, Isr, SetCtrl, End, EnableSlaveIfRequired, Finish, TxByte, TurnAround
<1>10. CASE IsrSlarAck
  <2> USE <1>10 DEF IsrSlarAck, Isr, SetCtrl, End
  <2>1. STATUS = "SLAR_ACK" /\ OnBus /\ rx_idx = 0 /\ got = 0 /\ UNCHANGED <<STATUS, rx_idx, rx_size, got, dir>>
    OBVIOUS
  <2>2. \/ rx_size > 1 /\ ctrl' = (ctrl \cup {"AA"}) \ {"SI"}
        \/ rx_size = 1 /\ ctrl' = ctrl \ {"AA", "SI"}
    BY <2>1
  <2>3. QED
    BY <2>1, <2>2
<1>11. CASE IsrRxAck
  BY <1>11 DEF IsrRxAck, Isr, SetCtrl
<1>12. CASE IsrRxNack
  BY <1>12 DEF IsrRxNack, Isr, SetCtrl, End, EnableSlaveIfRequired, Finish
<1>13. CASE IsrSlaNack \/ IsrSlaveWrite \/ IsrRdata
  BY <1>13 DEF IsrSlaNack, Isr, SetCtrl, StaIfPending, IsrSlaveWrite, IsrRdata
<1>14. CASE IsrRstop
  BY <1>14 DEF IsrRstop, Isr, SetCtrl, StaIfPending, EnableSlaveIfRequired, SlaveWritten,
     RandomReadAddr
<1>15. CASE IsrSlvRst \/ IsrError
  BY <1>15 DEF IsrSlvRst, Isr, SetCtrl, EnableSlaveIfRequired, FailIfBusy, IsrError
<1>16. CASE IsrSlaveRead
  BY <1>16 DEF IsrSlaveRead, Isr, SetCtrl
<1>17. CASE IsrSlaveReadEnd
  BY <1>17 DEF IsrSlaveReadEnd, Isr, SetCtrl, StaIfPending
<1>18. CASE SystemTick
  BY <1>18 DEF SystemTick
<1>19. CASE Begin
  BY <1>19 DEF Begin, MessageSizes
<1>20. CASE EnableSlave \/ DisableSlave
  BY <1>20 DEF EnableSlave, MayCall, GivenUp, Busy, DisableSlave
<1>21. CASE Sample \/ WaitComplete \/ Completed \/ EnablePlic
  BY <1>21 DEF Sample, GivenUp, Busy, WaitComplete, Completed, EnablePlic
<1>22. CASE SetSlaveTxBuffer \/ SetSlaveRxBuffer \/ SetOffsetLength \/ RegisterWriteHandler
  BY <1>22 DEF SetSlaveTxBuffer, Configure, MayCall, GivenUp, Busy, SetSlaveRxBuffer,
     SetOffsetLength, RegisterWriteHandler
<1>23. QED
  BY <1>1, <1>2, <1>3, <1>4, <1>5, <1>6, <1>7, <1>8, <1>9, <1>10, <1>11, <1>12, <1>13, <1>14,
     <1>15, <1>16, <1>17, <1>18, <1>19, <1>20, <1>21, <1>22 DEF Next, Controller, Handler,
     Thread

LEMMA FaultStays ==
  ASSUME [Next]_vars, fault' # "BUS_ERROR"
  PROVE  fault # "BUS_ERROR"
<1>1. CASE Controller
  BY <1>1 DEF Controller, Stop, Start, Restart, SendAddress, SendByte, ReceiveByte, Addressed,
     SlaveReceive, SlaveSend, Fault, Lose, hist
<1>2. CASE Handler \/ Thread
  BY <1>2, HandlerFrame, ThreadFrame DEF hist
<1>3. CASE SystemTick \/ UNCHANGED vars
  BY <1>3 DEF SystemTick, vars, hist
<1>4. QED
  BY <1>1, <1>2, <1>3 DEF Next

LEMMA TransferStep ==
  ASSUME Disciplined, TransferInv, [Next]_vars
  PROVE  TransferInv'
<1> SUFFICES ASSUME fault' # "BUS_ERROR"
             PROVE  (TypeOK /\ Owned /\ Stopping /\ Held /\ Reading /\ Answering)'
  BY DEF TransferInv
<1>1. TypeOK /\ Owned /\ Stopping /\ Held /\ Reading /\ Answering
  BY FaultStays DEF TransferInv
<1>2. CASE Next
  <2>1. TypeOK'
    BY <1>1, <1>2, TypesStep, FitsStep DEF TypeOK, Reading
  <2>2. QED
    BY <1>1, <1>2, <2>1, OwnedStep, StoppingStep, HeldStep, ReadingStep, AnsweringStep
<1>3. CASE UNCHANGED vars
  <2> USE <1>1, <1>3 DEF vars, hw, plic, trans, how, master, slave, thread, hist
  <2>1. TypeOK'
    BY TypesStep DEF TypeOK
  <2>2. Owned' /\ Stopping' /\ Held'
    BY DEF Owned, Owner, Stopping, Held, OnBus, Begun, Runs
  <2>3. Reading' /\ Answering'
    BY DEF Reading, ReadInBounds, Answering, OnBus, Begun, Runs
  <2>4. QED
    BY <2>1, <2>2, <2>3
<1>4. QED
  BY <1>2, <1>3

LEMMA TransferInit ==
  ASSUME Init
  PROVE  TransferInv
<1>1. TypeOK
  <2>1. rx_idx <= rx_size
    BY DEF Init
  <2>2. QED
    BY <2>1, TypesInit DEF TypeOK
<1>2. Owned /\ Stopping /\ Held /\ Reading /\ Answering
  BY DEF Init, Owned, Owner, Stopping, Held, Reading, ReadInBounds, Answering, OnBus, Begun, Runs,
     MasterStates
<1>3. QED
  BY <1>1, <1>2 DEF TransferInv

\* Until a bus error the controller is a master for a transaction of the
\* client's only, AA and the read index go together, and an enabled slave has AA.
THEOREM Transfers ==
  ASSUME Disciplined
  PROVE  Spec => []TransferInv
<1>1. Init => TransferInv
  BY TransferInit
<1>2. TransferInv /\ [Next]_vars => TransferInv'
  BY TransferStep
<1>3. QED
  BY <1>1, <1>2, PTL DEF Spec

\* An enabled slave that may be addressed acknowledges its address
\* (enable_slave_if_required() in every branch of the handler that ends a transfer).
THEOREM SlaveAnswers ==
  ASSUME Disciplined
  PROVE  Spec => []SlaveReachable
<1>1. TransferInv => SlaveReachable
  BY DEF TransferInv, Answering, SlaveReachable
<1>2. QED
  BY <1>1, Transfers, PTL

\* What may go wrong on the bus is in Faults.
LEMMA NoBusError ==
  ASSUME "BUS_ERROR" \notin Faults
  PROVE  Spec => [](fault # "BUS_ERROR")
<1>1. Init => fault # "BUS_ERROR"
  BY DEF Init
<1>2. fault # "BUS_ERROR" /\ [Next]_vars => (fault # "BUS_ERROR")'
  <2> SUFFICES ASSUME fault # "BUS_ERROR", [Next]_vars PROVE fault' # "BUS_ERROR"
    OBVIOUS
  <2>1. CASE Controller
    BY <2>1 DEF Controller, Stop, Start, Restart, SendAddress, SendByte, ReceiveByte, Addressed,
       SlaveReceive, SlaveSend, Fault, Lose, hist
  <2>2. CASE Handler \/ Thread
    BY <2>2, HandlerFrame, ThreadFrame DEF hist
  <2>3. CASE SystemTick \/ UNCHANGED vars
    BY <2>3 DEF SystemTick, vars, hist
  <2>4. QED
    BY <2>1, <2>2, <2>3 DEF Next
<1>3. QED
  BY <1>1, <1>2, PTL DEF Spec

\* Without a bus error the read index stays in its buffer as well.
THEOREM IndexesFit ==
  ASSUME Disciplined, "BUS_ERROR" \notin Faults
  PROVE  Spec => []TypeOK
<1>1. TransferInv /\ fault # "BUS_ERROR" => TypeOK
  BY DEF TransferInv
<1>2. QED
  BY <1>1, Transfers, NoBusError, PTL

\* No byte is stored beyond the end of the read buffer, although the handler
\* does not look (mss_i2c_isr(), the branches of ST_RX_DATA_ACK and _NACK).
THEOREM ReadsFit ==
  ASSUME Disciplined, "BUS_ERROR" \notin Faults
  PROVE  Spec => []ReadInBounds
<1>1. TransferInv /\ fault # "BUS_ERROR" => ReadInBounds
  BY DEF TransferInv, Reading
<1>2. QED
  BY <1>1, Transfers, NoBusError, PTL

-----------------------------------------------------------------------------
(* Reported successes *)

LEMMA MasterStep ==
  ASSUME Disciplined, "restart" \notin Contention, TransferInv, MasterInv, [Next]_vars,
         fault' # "BUS_ERROR"
  PROVE  MasterInv'
<1> SUFFICES ASSUME Busy' PROVE Directed' /\ Counted'
  BY DEF MasterInv
<1>1. TypeOK /\ Owned /\ Stopping /\ Held /\ Reading
  BY FaultStays DEF TransferInv
<1>2. CASE Next
  BY <1>1, <1>2, DirectedStep, CountedStep
<1>3. CASE UNCHANGED vars
  BY <1>3 DEF MasterInv, Busy, Directed, Counted, OnBus, Begun, Runs, vars, hw, plic, trans, how,
     master, slave, thread, hist
<1>4. QED
  BY <1>2, <1>3

LEMMA Mastering ==
  ASSUME Disciplined, "restart" \notin Contention, "BUS_ERROR" \notin Faults
  PROVE  Spec => []MasterInv
<1>1. Init => MasterInv
  BY DEF Init, MasterInv, Busy
<1>2. /\ TransferInv /\ fault # "BUS_ERROR" /\ (fault # "BUS_ERROR")' /\ MasterInv
      /\ [Next]_vars
      => MasterInv'
  BY MasterStep
<1>3. QED
  BY <1>1, <1>2, Transfers, NoBusError, PTL DEF Spec

\* The handler alone reports an end, and only of a transaction it has begun.
LEMMA ReportedSuccess ==
  ASSUME TypeOK, Owned, Stopping, Held, Next, master_status # "SUCCESS", master_status' = "SUCCESS"
  PROVE  /\ Begun /\ Owner
         /\ \/ IsrTx /\ tx_idx >= tx_size /\ transaction # "write_read"
            \/ IsrSlarAck /\ rx_size = 0
            \/ IsrRxNack
<1>1. Handler
  <2>1. ~Controller
    BY ControllerFrame
  <2>2. ~Thread
    BY DEF Thread, Sample, Begin, WaitComplete, Completed, EnableSlave, EnablePlic, DisableSlave,
       Configure, SetSlaveTxBuffer, SetSlaveRxBuffer, SetOffsetLength, RegisterWriteHandler
  <2>3. ~SystemTick
    BY DEF SystemTick
  <2>4. QED
    BY <2>1, <2>2, <2>3 DEF Next
<1>2. \/ IsrTx /\ tx_idx >= tx_size /\ transaction # "write_read"
      \/ IsrSlarAck /\ rx_size = 0
      \/ IsrRxNack
  <2>1. ~(IsrStart \/ IsrLostArb \/ IsrRxAck \/ IsrSlaNack \/ IsrSlaveWrite \/ IsrRdata \/ IsrRstop)
    BY DEF IsrStart, IsrLostArb, IsrRxAck, IsrSlaNack, IsrSlaveWrite, IsrRdata, IsrRstop
  <2>2. ~(IsrSlvRst \/ IsrSlaveRead \/ IsrSlaveReadEnd)
    BY DEF IsrSlvRst, IsrSlaveRead, IsrSlaveReadEnd
  <2>3. ~(IsrNack \/ IsrError)
    BY DEF IsrNack, End, IsrError, FailIfBusy
  <2>4. IsrTx => tx_idx >= tx_size /\ transaction # "write_read"
    BY DEF IsrTx, TxByte, TurnAround
  <2>5. IsrSlarAck => rx_size = 0
    BY DEF IsrSlarAck
  <2>6. QED
    BY <1>1, <2>1, <2>2, <2>3, <2>4, <2>5 DEF Handler
<1>3. "SI" \in ctrl /\ ~closed
  BY <1>1, HandlerFrame
<1>4. STATUS \in {"SLAW_ACK", "TX_DATA_ACK", "SLAR_ACK", "RX_DATA_NACK"}
  BY <1>2 DEF IsrTx, IsrSlarAck, IsrRxNack, Isr
<1>5. Begun
  BY <1>3, <1>4 DEF Begun, OnBus, Stopping, MasterStates, Runs
<1>6. QED
  BY <1>2, <1>5 DEF Begun, Owned

LEMMA SuccessIsDone ==
  ASSUME TypeOK, Owned, Stopping, Held, MasterInv, Next, Busy, master_status' = "SUCCESS"
  PROVE  Done
<1>1. /\ Begun
      /\ \/ IsrTx /\ tx_idx >= tx_size /\ transaction # "write_read"
         \/ IsrSlarAck /\ rx_size = 0
         \/ IsrRxNack
  BY ReportedSuccess DEF Busy
<1>2. "SI" \in ctrl /\ OnBus /\ transaction = pending_transaction /\ ~Runs
  BY <1>1 DEF MasterInv, Directed, Begun, IsrTx, IsrSlarAck, IsrRxNack, Isr, Runs
<1>3. Directed /\ Counted
  BY DEF MasterInv
<1>4. CASE IsrTx /\ tx_idx >= tx_size /\ transaction # "write_read"
  <2>1. STATUS \in {"SLAW_ACK", "TX_DATA_ACK"}
    BY <1>4 DEF IsrTx, Isr
  <2>2. "STA" \notin ctrl
    BY <1>1, <1>2, <1>3, <1>4 DEF Directed
  <2>3. dir = "w" /\ tx_idx = acked
    BY <1>2, <1>3, <2>1, <2>2 DEF Counted
  <2>4. acked = tx_size
    BY <1>4, <2>3 DEF TypeOK, Types, BufferTypes, TxSizes
  <2>5. pending_transaction = "write"
    BY <1>2, <1>3, <1>4, <2>3 DEF Directed, MasterKinds
  <2>6. QED
    BY <2>4, <2>5 DEF Done
<1>5. CASE (IsrSlarAck /\ rx_size = 0) \/ IsrRxNack
  <2>1. STATUS \in {"SLAR_ACK", "RX_DATA_NACK"} /\ (STATUS = "SLAR_ACK" => rx_size = 0)
    BY <1>5 DEF IsrSlarAck, IsrRxNack, Isr
  <2>2. dir = "r"
    BY <1>1, <1>3, <2>1 DEF Directed
  <2>3. got = rx_size
    BY <1>2, <1>3, <2>1 DEF Counted
  <2>4. pending_transaction # "read" => acked = tx_size
    BY <1>3, <2>2 DEF Directed, MasterKinds
  <2>5. QED
    BY <2>3, <2>4 DEF Done
<1>6. QED
  BY <1>1, <1>4, <1>5

\* A transaction that is in progress is reported a success only when every byte
\* has gone over the bus, however often arbitration has been lost: but for a
\* loss at the repeated START, after which the read is begun again without its write.
THEOREM SuccessMoves ==
  ASSUME Disciplined, "restart" \notin Contention, "BUS_ERROR" \notin Faults
  PROVE  Spec => [][SuccessStep]_vars
<1>1. TransferInv /\ fault # "BUS_ERROR" /\ MasterInv /\ [Next]_vars => [SuccessStep]_vars
  BY SuccessIsDone DEF TransferInv, SuccessStep
<1>2. QED
  BY <1>1, Transfers, NoBusError, Mastering, PTL DEF Spec

\* Time does not run, and nothing has run out.
Untimed == master_timeout_ms = 0 /\ master_status # "TIMED_OUT"

\* The handler neither starts the clock nor says that it has run out.
LEMMA HandlerUntimed ==
  ASSUME Untimed, Handler
  PROVE  Untimed'
<1>1. master_timeout_ms' = 0
  BY HandlerFrame DEF Untimed
<1>2. master_status' # "TIMED_OUT"
  BY DEF Untimed, Handler, IsrStart, IsrLostArb, IsrNack, IsrTx, TxByte, TurnAround, Finish,
     IsrSlarAck, IsrRxAck, IsrRxNack, IsrSlaNack, IsrSlaveWrite, IsrRdata, IsrRstop, IsrSlvRst,
     IsrSlaveRead, IsrSlaveReadEnd, IsrError, FailIfBusy, End
<1>3. QED
  BY <1>1, <1>2 DEF Untimed

\* A call sets the clock to a time-out of the client's.
LEMMA CallUntimed ==
  ASSUME Timeouts \subseteq {0}, Untimed, Thread
  PROVE  Untimed'
BY DEF Untimed, Thread, Sample, Begin, WaitComplete, Completed, EnableSlave, EnablePlic,
   DisableSlave, Configure, SetSlaveTxBuffer, SetSlaveRxBuffer, SetOffsetLength,
   RegisterWriteHandler

\* A client that gives no time-out never meets one: the tick finds nothing to count.
LEMMA NeverTimedOut ==
  ASSUME Timeouts \subseteq {0}
  PROVE  Spec => []Untimed
<1>1. Init => Untimed
  BY DEF Init, Untimed
<1>2. Untimed => ~SystemTick
  BY DEF Untimed, SystemTick
<1>3. Untimed /\ (Controller \/ UNCHANGED vars) => Untimed'
  BY ControllerFrame DEF Untimed, vars
<1>4. Untimed /\ [Next]_vars => Untimed'
  BY <1>2, <1>3, HandlerUntimed, CallUntimed DEF Next
<1>5. QED
  BY <1>1, <1>4, PTL DEF Spec

\* What the header says of MSS_I2C_SUCCESS is true for a client that gives no
\* time-out (mss_i2c.h:1066-1067).
THEOREM SuccessWithoutTimeouts ==
  ASSUME Disciplined, "restart" \notin Contention, "BUS_ERROR" \notin Faults, Timeouts \subseteq {0}
  PROVE  Spec => SuccessIsTrue
<1>1. TransferInv /\ fault # "BUS_ERROR" /\ MasterInv /\ Untimed /\ [Next]_vars
      => [master_status # "SUCCESS" /\ master_status' = "SUCCESS" => Done]_vars
  <2> SUFFICES ASSUME TransferInv, fault # "BUS_ERROR", MasterInv, master_status # "TIMED_OUT", Next,
                      master_status # "SUCCESS", master_status' = "SUCCESS"
               PROVE  Done
    BY DEF Untimed
  <2>1. TypeOK /\ Owned /\ Stopping /\ Held
    BY DEF TransferInv
  <2>2. Busy
    BY <2>1, ReportedSuccess DEF Owner, Busy
  <2>3. QED
    BY <2>1, <2>2, SuccessIsDone
<1>2. QED
  BY <1>1, Transfers, NoBusError, Mastering, NeverTimedOut, PTL DEF Spec, SuccessIsTrue
=============================================================================
