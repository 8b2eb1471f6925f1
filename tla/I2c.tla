-------------------------------- MODULE I2c --------------------------------
(***************************************************************************)
(* The I2C driver (drivers/mss/mss_i2c/mss_i2c.c) on one instance: the     *)
(* client thread, the interrupt handler mss_i2c_isr(), the SysTick handler *)
(* that calls MSS_I2C_system_tick(), and the I2C controller with the bus   *)
(* behind it.                                                              *)
(*                                                                         *)
(* The thread's calls mask interrupts, except where they sample a status   *)
(* first.  The handler runs to its end, and the controller waits while SI  *)
(* is set, so one interrupt is one step.  The bytes themselves are left    *)
(* out: a buffer is its size and an index.                                 *)
(***************************************************************************)
EXTENDS Integers

CONSTANTS
  MaxTx, MaxRx,  \* bounds on the sizes of the write and read buffers
  MaxSlave,      \* bound on the size of a slave buffer
  Offsets,       \* the offset lengths the client sets, up to MAX_OFFSET_LENGTH
  Kinds,         \* the master transactions the client starts
  Options,       \* the options it gives
  Timeouts,      \* the timeout_ms it gives to wait_complete(), in ticks
  Resumes,       \* does it go on calling the driver after TIMED_OUT?
  Slave,         \* does it use the slave functions?
  Overlap,       \* calls it makes while its master transaction is in progress
  Masked,        \* does it call the start functions with interrupts masked?
  Contention,    \* where other masters win the arbitration
  Faults,        \* what may go wrong on the bus, once
  MaxDisturbed   \* bound on what other masters do

Statuses == {"SUCCESS", "IN_PROGRESS", "FAILED", "TIMED_OUT"}

MasterKinds == {"write", "read", "write_read"}
NoTransaction == "none"

ASSUME I2cAssumption ==
  /\ MaxTx \in Nat \ {0} /\ MaxRx \in Nat \ {0} /\ MaxSlave \in Nat
  /\ Offsets \subseteq 0..2
  /\ Kinds \subseteq MasterKinds
  /\ Options \subseteq {"release", "hold"}
  /\ Timeouts \subseteq Nat
  /\ Resumes \in BOOLEAN /\ Slave \in BOOLEAN /\ Masked \in BOOLEAN
  /\ Overlap \subseteq {"enable_slave", "disable_slave"}
  /\ Contention \subseteq {"address", "restart", "data", "SLV_LA", "SLARW_LA"}
  /\ Faults \subseteq {"BUS_ERROR", "SLV_RST"}
  /\ MaxDisturbed \in Nat

VARIABLES
  ctrl,                 \* CTRL: its bits STA, STO, SI and AA
  STATUS,               \* STATUS: what the controller did last
  sla,                  \* DATA: the direction sent with the slave address
  enabled, closed,      \* the PLIC: the enable bit, and a gateway that waits for a completion
  transaction, pending_transaction, is_transaction_pending,
  dir, options, bus_status, master_status, master_timeout_ms,
  tx_size, tx_idx, rx_size, rx_idx,        \* master_tx_.. and master_rx_..
  slave_status, is_slave_enabled,
  stx_size, stx_idx, srx_size, srx_idx,    \* slave_tx_.. and slave_rx_..
  offset_length,        \* slave_mem_offset_length
  write_handler,        \* has the client registered a slave_write_handler?
  pc, stat_slave,       \* the thread: where it is, and its sample
  acked, got,           \* history: bytes of this tenure of the bus that went each way
  fault,                \* history: what has gone wrong on the bus
  disturbed             \* how often other masters have interfered

hw     == <<ctrl, STATUS, sla>>
plic   == <<enabled, closed>>
trans  == <<transaction, pending_transaction, is_transaction_pending>>
how    == <<dir, options, bus_status>>
master == <<tx_size, tx_idx, rx_size, rx_idx>>
slave  == <<slave_status, is_slave_enabled, stx_size, stx_idx, srx_size, srx_idx,
            offset_length, write_handler>>
thread == <<pc, stat_slave>>
hist   == <<acked, got, fault, disturbed>>
vars   == <<hw, plic, trans, how, master_status, master_timeout_ms, master, slave,
            thread, hist>>

MasterStates == {"START", "RESTART", "SLAW_ACK", "SLAW_NACK", "TX_DATA_ACK",
                 "TX_DATA_NACK", "SLAR_ACK", "SLAR_NACK", "RX_DATA_ACK", "RX_DATA_NACK"}
SlaveRxStates == {"SLAVE_SLAW", "SLV_LA", "RDATA"}
SlaveTxStates == {"SLAVE_SLAR_ACK", "SLARW_LA", "RACK"}
\* The controller takes no part in a transaction any more.
OffBus == {"IDLE", "LOST_ARB", "SLA_NACK", "RSTOP", "SLAVE_RNACK", "FINAL",
           "BUS_ERROR", "SLV_RST"}
States == MasterStates \cup SlaveRxStates \cup SlaveTxStates \cup OffBus

TxSizes == 0..MaxTx
RxSizes == 0..MaxRx
SlaveSizes == 0..MaxSlave

\* MSS_I2C_init() and the slave functions the client calls before it enables
\* its slave.
Init ==
  /\ ctrl = {} /\ STATUS = "IDLE" /\ sla = "w"
  /\ enabled = FALSE /\ closed = FALSE
  /\ transaction = NoTransaction /\ pending_transaction = NoTransaction
  /\ is_transaction_pending = FALSE
  /\ dir = "w" /\ options = "release" /\ bus_status = "release"
  /\ master_status = "SUCCESS" /\ master_timeout_ms = 0
  /\ tx_size = 0 /\ tx_idx = 0 /\ rx_size = 0 /\ rx_idx = 0
  /\ slave_status = "SUCCESS" /\ is_slave_enabled = FALSE
  /\ stx_size = 0 /\ stx_idx = 0 /\ srx_size = 0 /\ srx_idx = 0
  /\ offset_length = 0 /\ write_handler = FALSE
  /\ pc = "idle" /\ stat_slave = "SUCCESS"
  /\ acked = 0 /\ got = 0 /\ fault = "none" /\ disturbed = 0

-----------------------------------------------------------------------------
(* The controller and the bus *)

Runs == "SI" \notin ctrl
Master == Runs /\ {"STA", "STO"} \cap ctrl = {}

Raise(code) ==
  /\ STATUS' = code
  /\ ctrl' = ctrl \cup {"SI"}
  /\ UNCHANGED <<sla, plic, trans, how, master_status, master_timeout_ms, master,
                 slave, thread>>

Disturb == disturbed < MaxDisturbed /\ disturbed' = disturbed + 1

Lose(where) ==
  /\ where \in Contention
  /\ Disturb
  /\ \/ Raise("LOST_ARB")
     \/ where # "data" /\ "AA" \in ctrl
        /\ \E code \in {"SLV_LA", "SLARW_LA"} \cap Contention : Raise(code)
  /\ UNCHANGED <<acked, got, fault>>

Stop ==
  /\ Runs /\ "STO" \in ctrl
  /\ ctrl' = ctrl \ {"STO"} /\ STATUS' = "IDLE"
  /\ UNCHANGED <<sla, plic, trans, how, master_status, master_timeout_ms, master,
                 slave, thread, hist>>

Start ==
  /\ Runs /\ "STA" \in ctrl /\ "STO" \notin ctrl /\ STATUS \in OffBus
  /\ Raise("START")
  /\ acked' = 0 /\ got' = 0 /\ UNCHANGED <<fault, disturbed>>

Restart ==
  /\ Runs /\ "STA" \in ctrl /\ "STO" \notin ctrl
  /\ STATUS \in MasterStates \ {"START", "RESTART"}
  /\ Raise("RESTART")
  /\ UNCHANGED hist

SendAddress ==
  /\ Runs /\ STATUS \in {"START", "RESTART"}
  /\ \/ /\ sla = "w" /\ (Raise("SLAW_ACK") \/ Raise("SLAW_NACK"))
        /\ acked' = 0 /\ UNCHANGED <<got, fault, disturbed>>
     \/ /\ sla = "r" /\ (Raise("SLAR_ACK") \/ Raise("SLAR_NACK"))
        /\ got' = 0 /\ UNCHANGED <<acked, fault, disturbed>>
     \/ Lose(IF STATUS = "START" THEN "address" ELSE "restart")

SendByte ==
  /\ Master /\ STATUS \in {"SLAW_ACK", "TX_DATA_ACK"}
  /\ \/ Raise("TX_DATA_ACK") /\ acked' = (IF acked > MaxTx THEN acked ELSE acked + 1)
        /\ UNCHANGED <<got, fault, disturbed>>
     \/ Raise("TX_DATA_NACK") /\ UNCHANGED hist
     \/ Lose("data")

ReceiveByte ==
  /\ Master /\ STATUS \in {"SLAR_ACK", "RX_DATA_ACK"}
  /\ Raise(IF "AA" \in ctrl THEN "RX_DATA_ACK" ELSE "RX_DATA_NACK")
  /\ got' = (IF got > MaxRx THEN got ELSE got + 1)
  /\ UNCHANGED <<acked, fault, disturbed>>

Addressed ==
  /\ Runs /\ "STO" \notin ctrl /\ "AA" \in ctrl /\ STATUS \in OffBus
  /\ Raise("SLAVE_SLAW") \/ Raise("SLAVE_SLAR_ACK")
  /\ Disturb /\ UNCHANGED <<acked, got, fault>>

SlaveReceive ==
  /\ Runs /\ STATUS \in SlaveRxStates
  /\ Raise("RSTOP") \/ Raise(IF "AA" \in ctrl THEN "RDATA" ELSE "SLA_NACK")
  /\ UNCHANGED hist

SlaveSend ==
  /\ Runs /\ STATUS \in SlaveTxStates
  /\ Raise("SLAVE_RNACK") \/ Raise(IF "AA" \in ctrl THEN "RACK" ELSE "FINAL")
  /\ UNCHANGED hist

Fault ==
  /\ Runs /\ STATUS \notin OffBus
  /\ fault = "none" /\ fault' \in Faults
  /\ fault' = "SLV_RST" => STATUS \in SlaveRxStates \cup SlaveTxStates
  /\ Raise(fault')
  /\ UNCHANGED <<acked, got, disturbed>>

Controller ==
  \/ Stop \/ Start \/ Restart \/ SendAddress \/ SendByte \/ ReceiveByte
  \/ Addressed \/ SlaveReceive \/ SlaveSend \/ Fault

-----------------------------------------------------------------------------
(* mss_i2c_isr() *)

\* The handler runs when the PLIC forwards SI, and clears SI at its end unless
\* it holds the bus.  The PLIC ignores the completion of a disabled source: the
\* gateway then stays closed.
Isr(codes) ==
  /\ "SI" \in ctrl /\ enabled /\ ~closed
  /\ Masked => pc # "sampled"
  /\ STATUS \in codes
  /\ UNCHANGED <<STATUS, pending_transaction, master_timeout_ms, tx_size, rx_size,
                 thread, hist>>

SetCtrl(bits) == ctrl' = bits \ {"SI"} /\ UNCHANGED <<sla, plic>>

EnableSlaveIfRequired(bits) == IF is_slave_enabled THEN bits \cup {"AA"} ELSE bits

StaIfPending(bits) == IF is_transaction_pending THEN bits \cup {"STA"} ELSE bits

End(status) == transaction' = NoTransaction /\ master_status' = status

\* Mutant: the indexes survive a lost arbitration.
IsrStartKeepsIdx ==
  /\ Isr({"START", "RESTART"})
  /\ ctrl' = ctrl \ {"STA", "SI"} /\ sla' = dir /\ UNCHANGED plic
  /\ is_transaction_pending' = FALSE /\ transaction' = pending_transaction
  /\ UNCHANGED <<how, master_status, tx_idx, rx_idx, slave>>

IsrStart ==
  /\ Isr({"START", "RESTART"})
  /\ ctrl' = ctrl \ {"STA", "SI"} /\ sla' = dir /\ UNCHANGED plic
  /\ \/ dir = "w" /\ tx_idx' = 0 /\ UNCHANGED rx_idx
     \/ dir = "r" /\ rx_idx' = 0 /\ UNCHANGED tx_idx
  /\ is_transaction_pending' = FALSE /\ transaction' = pending_transaction
  /\ UNCHANGED <<how, master_status, slave>>

\* Mutant: the master gives up.
IsrLostArbGivesUp ==
  /\ Isr({"LOST_ARB"})
  /\ SetCtrl(ctrl)
  /\ UNCHANGED <<transaction, is_transaction_pending, how, master_status, tx_idx, rx_idx, slave>>

IsrLostArb ==
  /\ Isr({"LOST_ARB"})
  /\ SetCtrl(ctrl \cup {"STA"})
  /\ UNCHANGED <<transaction, is_transaction_pending, how, master_status, tx_idx, rx_idx, slave>>

IsrNack ==
  /\ Isr({"SLAW_NACK", "TX_DATA_NACK", "SLAR_NACK"})
  /\ SetCtrl(EnableSlaveIfRequired(ctrl \cup {"STO"}))
  /\ End("FAILED")
  /\ UNCHANGED <<is_transaction_pending, how, tx_idx, rx_idx, slave>>

\* A finished transaction releases the bus, or holds it: then SI stays set, and
\* PLIC_DisableIRQ() takes effect before PLIC_CompleteIRQ().
Finish ==
  /\ End("SUCCESS") /\ bus_status' = options
  /\ \/ options = "release" /\ SetCtrl(EnableSlaveIfRequired(ctrl \cup {"STO"}))
     \/ options = "hold" /\ enabled' = FALSE /\ closed' = TRUE /\ UNCHANGED hw
  /\ UNCHANGED <<is_transaction_pending, dir, options, slave>>

TxByte ==
  /\ tx_idx < tx_size
  /\ tx_idx' = tx_idx + 1
  /\ SetCtrl(ctrl)
  /\ UNCHANGED <<transaction, is_transaction_pending, how, master_status, rx_idx, slave>>

TurnAround ==
  /\ tx_idx >= tx_size /\ transaction = "write_read"
  /\ dir' = "r" /\ SetCtrl(ctrl \cup {"STA"})
  /\ UNCHANGED <<transaction, is_transaction_pending, options, bus_status,
                 master_status, tx_idx, rx_idx, slave>>

IsrTx ==
  /\ Isr({"SLAW_ACK", "TX_DATA_ACK"})
  /\ \/ TxByte
     \/ TurnAround
     \/ /\ tx_idx >= tx_size /\ transaction # "write_read"
        /\ Finish /\ UNCHANGED <<tx_idx, rx_idx>>

IsrSlarAck ==
  /\ Isr({"SLAR_ACK"})
  /\ \/ rx_size > 1 /\ SetCtrl(ctrl \cup {"AA"}) /\ UNCHANGED <<transaction, master_status>>
     \/ rx_size = 1 /\ SetCtrl(ctrl \ {"AA"}) /\ UNCHANGED <<transaction, master_status>>
     \/ rx_size = 0 /\ SetCtrl(ctrl \cup {"AA", "STO"}) /\ End("SUCCESS")
  /\ UNCHANGED <<is_transaction_pending, how, tx_idx, rx_idx, slave>>

\* Mutant: the last byte is acknowledged like the others.
IsrRxAckLast ==
  /\ Isr({"RX_DATA_ACK"})
  /\ rx_idx' = rx_idx + 1
  /\ SetCtrl(IF rx_idx' >= rx_size THEN ctrl \ {"AA"} ELSE ctrl)
  /\ UNCHANGED <<transaction, is_transaction_pending, how, master_status, tx_idx, slave>>

\* master_rx_size - 1u is unsigned: with 0 it is larger than any index.
IsrRxAck ==
  /\ Isr({"RX_DATA_ACK"})
  /\ rx_idx' = rx_idx + 1
  /\ SetCtrl(IF rx_size > 0 /\ rx_idx' >= rx_size - 1 THEN ctrl \ {"AA"} ELSE ctrl)
  /\ UNCHANGED <<transaction, is_transaction_pending, how, master_status, tx_idx, slave>>

\* Mutant: the slave is forgotten after a read.
IsrRxNackNoSlave ==
  /\ Isr({"RX_DATA_NACK"})
  /\ End("SUCCESS") /\ bus_status' = options
  /\ SetCtrl(ctrl \cup {"STO"})
  /\ UNCHANGED <<is_transaction_pending, dir, options, slave, tx_idx, rx_idx>>

IsrRxNack ==
  /\ Isr({"RX_DATA_NACK"})
  /\ Finish /\ UNCHANGED <<tx_idx, rx_idx>>

IsrSlaNack ==
  /\ Isr({"SLA_NACK"})
  /\ SetCtrl(StaIfPending(ctrl \cup {"AA"}))
  /\ transaction' = NoTransaction /\ slave_status' = "SUCCESS"
  /\ UNCHANGED <<is_transaction_pending, how, master_status, tx_idx, rx_idx,
                 is_slave_enabled, stx_size, stx_idx, srx_size, srx_idx,
                 offset_length, write_handler>>

\* SLA+W, or the same after a lost arbitration.
IsrSlaveWrite ==
  /\ Isr({"SLAVE_SLAW", "SLV_LA"})
  /\ SetCtrl(ctrl \ {"STA"})
  /\ is_transaction_pending' =
       (is_transaction_pending \/ STATUS = "SLV_LA" \/ "STA" \in ctrl)
  /\ transaction' = "slave_write" /\ slave_status' = "IN_PROGRESS" /\ srx_idx' = 0
  /\ UNCHANGED <<how, master_status, tx_idx, rx_idx, is_slave_enabled,
                 stx_size, stx_idx, srx_size, offset_length, write_handler>>

\* Mutant: the buffer's size is not looked at.
IsrRdataUnbounded ==
  /\ Isr({"RDATA"})
  /\ srx_idx' = srx_idx + 1
  /\ SetCtrl(IF srx_idx' >= srx_size THEN ctrl \ {"AA"} ELSE ctrl)
  /\ UNCHANGED <<transaction, is_transaction_pending, how, master_status, tx_idx, rx_idx,
                 slave_status, is_slave_enabled, stx_size, stx_idx, srx_size,
                 offset_length, write_handler>>

IsrRdata ==
  /\ Isr({"RDATA"})
  /\ srx_idx' = IF srx_idx < srx_size THEN srx_idx + 1 ELSE srx_idx
  /\ SetCtrl(IF srx_idx' >= srx_size THEN ctrl \ {"AA"} ELSE ctrl)
  /\ UNCHANGED <<transaction, is_transaction_pending, how, master_status, tx_idx, rx_idx,
                 slave_status, is_slave_enabled, stx_size, stx_idx, srx_size,
                 offset_length, write_handler>>

\* The first bytes of a slave write may be an address in the transmit buffer.
RandomReadAddr == IF srx_idx = 0 THEN {0} ELSE SlaveSizes

\* STOP or repeated START after a slave write: the client's write handler says
\* whether the slave goes on.  The handler's MSS_I2C_REENABLE_SLAVE_RX sets AA
\* whether or not the slave is enabled.
SlaveWritten ==
  /\ transaction = "slave_write"
  /\ stx_idx' \in IF srx_idx = offset_length THEN RandomReadAddr ELSE {stx_idx}
  /\ \/ SetCtrl(StaIfPending(ctrl \cup {"AA"})) /\ UNCHANGED is_slave_enabled
     \/ /\ write_handler
        /\ SetCtrl(StaIfPending(ctrl \ {"AA"})) /\ is_slave_enabled' = FALSE

\* Mutant: a pending master transaction is forgotten.
IsrRstopNoSta ==
  /\ Isr({"RSTOP"})
  /\ stx_idx' = 0 /\ SetCtrl(EnableSlaveIfRequired(ctrl)) /\ UNCHANGED is_slave_enabled
  /\ slave_status' = "SUCCESS" /\ transaction' = NoTransaction
  /\ UNCHANGED <<is_transaction_pending, how, master_status, tx_idx, rx_idx,
                 stx_size, srx_size, srx_idx, offset_length, write_handler>>

IsrRstop ==
  /\ Isr({"RSTOP"})
  /\ \/ SlaveWritten
     \/ /\ transaction # "slave_write"
        /\ stx_idx' = 0
        /\ SetCtrl(StaIfPending(EnableSlaveIfRequired(ctrl)))
        /\ UNCHANGED is_slave_enabled
  /\ slave_status' = "SUCCESS" /\ transaction' = NoTransaction
  /\ UNCHANGED <<is_transaction_pending, how, master_status, tx_idx, rx_idx,
                 stx_size, srx_size, srx_idx, offset_length, write_handler>>

FailIfBusy(status) == IF status = "IN_PROGRESS" THEN "FAILED" ELSE status

IsrSlvRst ==
  /\ Isr({"SLV_RST"})
  /\ SetCtrl(EnableSlaveIfRequired(ctrl))
  /\ transaction' = NoTransaction /\ stx_idx' = 0
  /\ slave_status' = FailIfBusy(slave_status)
  /\ UNCHANGED <<is_transaction_pending, how, master_status, tx_idx, rx_idx,
                 is_slave_enabled, stx_size, srx_size, srx_idx, offset_length, write_handler>>

\* SLA+R and the bytes that follow: after the last one, or from an empty
\* buffer, the next transfer starts from the first byte.
IsrSlaveRead ==
  /\ Isr(SlaveTxStates)
  /\ LET next == IF stx_idx < stx_size THEN stx_idx + 1 ELSE stx_idx
         last == IF next >= stx_size THEN {"AA"} ELSE {}
     IN /\ stx_idx' = IF next >= stx_size THEN 0 ELSE next
        /\ \/ /\ STATUS = "SLAVE_SLAR_ACK"
              /\ transaction' = "slave_read" /\ slave_status' = "IN_PROGRESS"
              /\ is_transaction_pending' = (is_transaction_pending \/ "STA" \in ctrl)
              /\ SetCtrl(ctrl \ ({"STA"} \cup last))
           \/ /\ STATUS # "SLAVE_SLAR_ACK"
              /\ SetCtrl(ctrl \ last)
              /\ UNCHANGED <<transaction, slave_status, is_transaction_pending>>
  /\ UNCHANGED <<how, master_status, tx_idx, rx_idx, is_slave_enabled, stx_size,
                 srx_size, srx_idx, offset_length, write_handler>>

\* Mutant: the pending master transaction waits for the next slave write.
IsrSlaveReadEndNoSta ==
  /\ Isr({"SLAVE_RNACK", "FINAL"})
  /\ SetCtrl(ctrl \cup {"AA"})
  /\ transaction' = NoTransaction /\ stx_idx' = 0 /\ slave_status' = "SUCCESS"
  /\ UNCHANGED <<is_transaction_pending, how, master_status, tx_idx, rx_idx,
                 is_slave_enabled, stx_size, srx_size, srx_idx, offset_length, write_handler>>

IsrSlaveReadEnd ==
  /\ Isr({"SLAVE_RNACK", "FINAL"})
  /\ SetCtrl(StaIfPending(ctrl \cup {"AA"}))
  /\ transaction' = NoTransaction /\ stx_idx' = 0 /\ slave_status' = "SUCCESS"
  /\ UNCHANGED <<is_transaction_pending, how, master_status, tx_idx, rx_idx,
                 is_slave_enabled, stx_size, srx_size, srx_idx, offset_length, write_handler>>

IsrError ==
  /\ Isr({"BUS_ERROR", "IDLE"})
  /\ SetCtrl(ctrl \ {"STA"})
  /\ transaction' = NoTransaction /\ stx_idx' = 0
  /\ master_status' = FailIfBusy(master_status)
  /\ slave_status' = FailIfBusy(slave_status)
  /\ UNCHANGED <<is_transaction_pending, how, tx_idx, rx_idx, is_slave_enabled,
                 stx_size, srx_size, srx_idx, offset_length, write_handler>>

Handler ==
  \/ IsrStart \/ IsrLostArb \/ IsrNack \/ IsrTx \/ IsrSlarAck \/ IsrRxAck \/ IsrRxNack
  \/ IsrSlaNack \/ IsrSlaveWrite \/ IsrRdata \/ IsrRstop \/ IsrSlvRst
  \/ IsrSlaveRead \/ IsrSlaveReadEnd \/ IsrError

-----------------------------------------------------------------------------
(* The client's calls *)

Busy == master_status = "IN_PROGRESS"

GivenUp == master_status = "TIMED_OUT" /\ ~Resumes

\* MSS_I2C_write(), _read() and _write_read() sample slave_status on entry ...
Sample ==
  /\ pc = "idle" /\ ~Busy /\ ~GivenUp
  /\ stat_slave' = slave_status
  /\ pc' = "sampled"
  /\ UNCHANGED <<hw, plic, trans, how, master_status, master_timeout_ms, master, slave, hist>>

MessageSizes(kind) ==
  CASE kind = "write"      -> /\ tx_size' \in TxSizes /\ tx_idx' = 0
                              /\ UNCHANGED <<rx_size, rx_idx>>
    [] kind = "read"       -> /\ rx_size' \in RxSizes /\ rx_idx' = 0
                              /\ UNCHANGED <<tx_size, tx_idx>>
    [] kind = "write_read" -> /\ tx_size' \in TxSizes \ {0} /\ tx_idx' = 0
                              /\ rx_size' \in RxSizes \ {0} /\ rx_idx' = 0

\* ... and do the rest with interrupts masked: the start is queued when the
\* sample said that the slave is busy, and the SI of a held bus is cleared.
Begin ==
  /\ pc = "sampled"
  /\ \E kind \in Kinds :
       /\ transaction' = IF transaction = NoTransaction THEN kind ELSE transaction
       /\ pending_transaction' = kind
       /\ dir' = IF kind = "read" THEN "r" ELSE "w"
       /\ MessageSizes(kind)
  /\ options' \in Options
  /\ master_status' = "IN_PROGRESS"
  /\ LET sta == IF stat_slave = "IN_PROGRESS" THEN {} ELSE {"STA"}
         si  == IF bus_status = "hold" THEN {"SI"} ELSE {}
     IN ctrl' = (ctrl \cup sta) \ si
  /\ is_transaction_pending' = (is_transaction_pending \/ stat_slave = "IN_PROGRESS")
  /\ enabled' = TRUE
  /\ pc' = "idle"
  /\ stat_slave' = "SUCCESS" /\ acked' = 0 /\ got' = 0
  /\ UNCHANGED <<STATUS, sla, closed, bus_status, master_timeout_ms, slave,
                 fault, disturbed>>

WaitComplete ==
  /\ pc = "idle"
  /\ master_timeout_ms' \in Timeouts
  /\ pc' = "waiting"
  /\ UNCHANGED <<hw, plic, trans, how, master_status, master, slave, stat_slave, hist>>

Completed ==
  /\ pc = "waiting" /\ ~Busy
  /\ pc' = "idle"
  /\ UNCHANGED <<hw, plic, trans, how, master_status, master_timeout_ms, master, slave,
                 stat_slave, hist>>

SystemTick ==
  /\ Masked => pc # "sampled"
  /\ \/ /\ master_timeout_ms > 1
        /\ master_timeout_ms' = master_timeout_ms - 1
        /\ UNCHANGED <<transaction, is_transaction_pending, master_status>>
     \/ /\ master_timeout_ms = 1
        /\ master_timeout_ms' = 0
        /\ master_status' = "TIMED_OUT" /\ transaction' = NoTransaction
        /\ is_transaction_pending' = FALSE
  /\ UNCHANGED <<hw, plic, pending_transaction, how, master, slave, thread, hist>>

MayCall(c) == Slave /\ pc = "idle" /\ ~GivenUp /\ (Busy => c \in Overlap)

EnableSlave ==
  /\ MayCall("enable_slave")
  /\ ctrl' = ctrl \cup {"AA"} /\ is_slave_enabled' = TRUE
  /\ pc' = "plic"
  /\ UNCHANGED <<STATUS, sla, plic, trans, how, master_status, master_timeout_ms, master,
                 slave_status, stx_size, stx_idx, srx_size, srx_idx, offset_length,
                 write_handler, stat_slave, hist>>

EnablePlic ==
  /\ pc = "plic"
  /\ enabled' = TRUE
  /\ pc' = "idle"
  /\ UNCHANGED <<hw, closed, trans, how, master_status, master_timeout_ms, master, slave,
                 stat_slave, hist>>

DisableSlave ==
  /\ MayCall("disable_slave")
  /\ ctrl' = ctrl \ {"AA"} /\ is_slave_enabled' = FALSE
  /\ UNCHANGED <<STATUS, sla, plic, trans, how, master_status, master_timeout_ms, master,
                 slave_status, stx_size, stx_idx, srx_size, srx_idx, offset_length,
                 write_handler, thread, hist>>

\* The slave is configured before it is enabled.
Configure ==
  /\ MayCall("configure") /\ ~is_slave_enabled
  /\ UNCHANGED <<hw, plic, trans, how, master_status, master_timeout_ms, master,
                 slave_status, is_slave_enabled, thread, hist>>

SetSlaveTxBuffer ==
  /\ Configure
  /\ stx_size' \in SlaveSizes /\ stx_idx' = 0
  /\ UNCHANGED <<srx_size, srx_idx, offset_length, write_handler>>

SetSlaveRxBuffer ==
  /\ Configure
  /\ srx_size' \in SlaveSizes /\ srx_idx' = 0
  /\ UNCHANGED <<stx_size, stx_idx, offset_length, write_handler>>

SetOffsetLength ==
  /\ Configure
  /\ offset_length' \in Offsets
  /\ UNCHANGED <<stx_size, stx_idx, srx_size, srx_idx, write_handler>>

RegisterWriteHandler ==
  /\ Configure
  /\ write_handler' \in BOOLEAN
  /\ UNCHANGED <<stx_size, stx_idx, srx_size, srx_idx, offset_length>>

Thread ==
  \/ Sample \/ Begin \/ WaitComplete \/ Completed
  \/ EnableSlave \/ EnablePlic \/ DisableSlave
  \/ SetSlaveTxBuffer \/ SetSlaveRxBuffer \/ SetOffsetLength \/ RegisterWriteHandler

Next == Controller \/ Handler \/ SystemTick \/ Thread

Spec == Init /\ [][Next]_vars

\* The bus moves on (the other party of a transaction answers or stops), the
\* interrupt is served, and a call that was begun ends.
FairSpec ==
  Spec /\ WF_vars(Controller) /\ WF_vars(Handler) /\ WF_vars(Begin) /\ WF_vars(EnablePlic)

-----------------------------------------------------------------------------
(* Properties *)

ControllerTypes ==
  /\ ctrl \subseteq {"STA", "STO", "SI", "AA"} /\ STATUS \in States /\ sla \in {"w", "r"}
  /\ enabled \in BOOLEAN /\ closed \in BOOLEAN

StateTypes ==
  /\ transaction \in MasterKinds \cup {NoTransaction, "slave_write", "slave_read"}
  /\ pending_transaction \in MasterKinds \cup {NoTransaction}
  /\ is_transaction_pending \in BOOLEAN
  /\ dir \in {"w", "r"} /\ options \in {"release", "hold"} /\ bus_status \in {"release", "hold"}
  /\ master_status \in Statuses /\ slave_status \in Statuses /\ stat_slave \in Statuses
  /\ is_slave_enabled \in BOOLEAN /\ write_handler \in BOOLEAN
  /\ pc \in {"idle", "sampled", "waiting", "plic"}

BufferTypes ==
  /\ master_timeout_ms \in Nat
  /\ tx_size \in TxSizes /\ tx_idx \in 0..tx_size
  /\ rx_size \in RxSizes /\ rx_idx \in Nat
  /\ stx_size \in SlaveSizes /\ stx_idx \in SlaveSizes
  /\ srx_size \in SlaveSizes /\ srx_idx \in 0..srx_size
  /\ offset_length \in 0..2

HistoryTypes ==
  /\ acked \in 0..(MaxTx + 1) /\ got \in 0..(MaxRx + 1)
  /\ fault \in {"none"} \cup Faults /\ disturbed \in 0..MaxDisturbed

Types == ControllerTypes /\ StateTypes /\ BufferTypes /\ HistoryTypes

\* The read index is bounded by the AA bit only, see ReadInBounds.
TypeOK == Types /\ rx_idx <= rx_size

\* No byte is stored beyond the end of the client's read buffer: the handler
\* stores what the controller receives without a test, and only the AA bit it
\* sets and clears around the last byte (and which the slave functions use as
\* well) makes the controller stop in time.
ReadInBounds ==
  STATUS \in {"RX_DATA_ACK", "RX_DATA_NACK"} /\ "SI" \in ctrl => rx_idx < rx_size

Done ==
  /\ pending_transaction # "read" => acked = tx_size
  /\ pending_transaction # "write" => got = rx_size

\* While the slave is enabled and there has been no bus error, the controller answers
\* to its address whenever no master transaction of its own is on the bus.
SlaveReachable ==
  is_slave_enabled /\ STATUS \in OffBus /\ Runs /\ fault # "BUS_ERROR" => "AA" \in ctrl

\* "the MSS I2C driver queues the master mode transaction until the bus is
\* released [...] The MSS I2C master then starts the previously pended
\* transaction" (mss_i2c.h:305-311)
PendedStarts ==
  is_transaction_pending ~> (~is_transaction_pending \/ fault # "none")

\* "MSS_I2C_SUCCESS  The last I2C transaction has completed successfully."
\* (mss_i2c.h:1066-1067)
SuccessIsTrue == [][master_status # "SUCCESS" /\ master_status' = "SUCCESS" => Done]_vars

\* The same for a transaction that has not timed out.
SuccessStep == Busy /\ master_status' = "SUCCESS" => Done

\* "MSS_I2C_HOLD_BUS [...] causes the next transaction to begin with a repeated
\* START bit" (mss_i2c.h:381-383), and like any other it comes to an end.
HeldBusContinues == Busy ~> ~Busy
-----------------------------------------------------------------------------
(* What keeps ReadInBounds and SlaveReachable true, until a bus error, when  *)
(* the client's calls do not meet its own transaction.                       *)

\* The client that these are about: it masks interrupts around the start
\* functions, and makes no call on the slave while its transaction is in
\* progress and none at all after a time-out.
Disciplined == Masked /\ Overlap = {} /\ ~Resumes

\* The driver has a transaction of the client's, be it one timed out.
Owner == master_status \in {"IN_PROGRESS", "TIMED_OUT"}

\* The master is on the bus, and the handler serves it; its START has been served.
OnBus == STATUS \in MasterStates /\ "STO" \notin ctrl /\ ~closed
Begun == OnBus /\ ~("SI" \in ctrl /\ STATUS \in {"START", "RESTART"})

\* The controller is a master, or is to become one, only for such a transaction.
Owned ==
  /\ \/ "STA" \in ctrl \/ is_transaction_pending
     \/ OnBus \/ STATUS \in {"START", "RESTART"}
     \/ "SI" \in ctrl /\ STATUS \in {"LOST_ARB", "SLV_LA"}
     => Owner
  /\ pc = "sampled" => ~Owner
  /\ Begun => /\ ~is_transaction_pending
              /\ "STA" \in ctrl => Runs /\ STATUS \in {"SLAW_ACK", "TX_DATA_ACK"}

\* The STOP of a transaction that is over.
Stopping ==
  /\ "STO" \in ctrl =>
       /\ Runs
       /\ STATUS \in MasterStates \ {"START", "RESTART", "RX_DATA_ACK"}
  /\ "SI" \in ctrl => STATUS # "IDLE"
  /\ STATUS # "BUS_ERROR"

\* A held bus: the handler never runs again, and one more transaction gets as
\* far as the next SI.
Held ==
  /\ closed <=> bus_status = "hold"
  /\ closed =>
       /\ "STO" \notin ctrl
       /\ \/ STATUS \in {"SLAW_ACK", "TX_DATA_ACK", "RX_DATA_NACK"} /\ (Runs => Owner)
          \/ "SI" \in ctrl /\ Owner /\ STATUS \notin {"SLAR_ACK", "RX_DATA_ACK", "RX_DATA_NACK"}

\* AA is set only while there is room for one byte more than the next.
Reading ==
  /\ Begun /\ sla = "r" /\ STATUS \in {"START", "RESTART"} => rx_idx = 0
  /\ OnBus /\ STATUS = "SLAR_ACK" =>
       rx_idx = 0 /\ (Runs => rx_size > 0 /\ ("AA" \in ctrl => rx_size > 1))
  /\ OnBus /\ STATUS = "RX_DATA_ACK" =>
       /\ rx_idx < rx_size /\ ("AA" \in ctrl => rx_idx + 1 < rx_size)
       /\ Runs \/ "AA" \in ctrl
  /\ ReadInBounds

\* Only the end of a buffer clears the AA bit of an enabled slave, and what
\* follows sets it again.
Answering ==
  is_slave_enabled =>
    \/ "AA" \in ctrl
    \/ /\ ~(Runs /\ STATUS \in OffBus) /\ "STO" \notin ctrl
       /\ OnBus => STATUS \notin {"START", "RESTART", "SLAW_ACK", "TX_DATA_ACK"}
       /\ closed \/ STATUS # "LOST_ARB"

TransferInv ==
  fault # "BUS_ERROR" => TypeOK /\ Owned /\ Stopping /\ Held /\ Reading /\ Answering

\* The direction is that of the transaction, and of the write-read's read once
\* the last byte of the write is acknowledged.
Directed ==
  /\ pending_transaction \in MasterKinds
  /\ pending_transaction = "read" => dir = "r"
  /\ pending_transaction = "write" => dir = "w"
  /\ pending_transaction = "write_read" /\ dir = "r" =>
       /\ OnBus /\ acked = tx_size
       /\ STATUS \in {"SLAW_ACK", "TX_DATA_ACK"} => "STA" \in ctrl
       /\ STATUS # "START"
  /\ OnBus /\ STATUS = "RESTART" => pending_transaction = "write_read" /\ dir = "r"
  /\ Begun =>
       /\ transaction = pending_transaction
       /\ "STA" \in ctrl => pending_transaction = "write_read" /\ dir = "r"
       /\ STATUS \in {"START", "RESTART"} => sla = dir
       /\ STATUS \in {"SLAR_ACK", "RX_DATA_ACK", "RX_DATA_NACK"} => dir = "r"

\* The bytes the other side has acknowledged or sent are those the indexes say.
Counted ==
  /\ Begun /\ STATUS \in {"START", "RESTART"} =>
       IF dir = "w" THEN tx_idx = 0 ELSE rx_idx = 0
  /\ OnBus /\ STATUS \in {"SLAW_ACK", "TX_DATA_ACK"} /\ "STA" \notin ctrl =>
       /\ dir = "w"
       /\ tx_idx = IF Runs THEN acked + 1 ELSE acked
  /\ OnBus /\ STATUS \in {"SLAR_ACK", "RX_DATA_ACK"} /\ Runs =>
       got = rx_idx /\ ("AA" \notin ctrl => rx_idx + 1 = rx_size)
  /\ OnBus /\ STATUS = "SLAR_ACK" => got = 0
  /\ OnBus /\ STATUS = "RX_DATA_ACK" /\ ~Runs => got = rx_idx + 1
  /\ OnBus /\ STATUS = "RX_DATA_NACK" => got = rx_size

MasterInv == Busy => Directed /\ Counted
=============================================================================
