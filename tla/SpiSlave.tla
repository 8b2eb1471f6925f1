------------------------------ MODULE SpiSlave ------------------------------
(***************************************************************************)
(* The SPI driver as a slave in block mode (drivers/mss/mss_spi/mss_spi.c): *)
(* mss_spi_isr() between the FIFOs of the block and a remote master, with   *)
(* or without a command handler, which answers by MSS_SPI_set_cmd_response()*)
(* before it returns.                                                      *)
(*                                                                         *)
(* A frame is the number of its packet.  The master sends packets of any    *)
(* length at any moment; hurried remembers that it did not wait for the     *)
(* turn-around of a command or for the handler of the end of a packet, or   *)
(* that it filled the receive FIFO faster than the handler reads it.        *)
(***************************************************************************)
EXTENDS Integers, Sequences, SequencesExt, FiniteSetsExt

CONSTANTS
  RxSize,      \* slave_rx_size
  TxSize,      \* slave_tx_size
  RespSize,    \* resp_buff_size of every response
  CmdSize,     \* CMDSIZE
  Threshold,   \* RX_IRQ_THRESHOLD
  FifoSize,    \* depth of each FIFO
  MaxBlocks,   \* bound on the packets the master sends
  MaxLength    \* bound on the frames of a packet

ASSUME SpiAssumption ==
  /\ {RxSize, TxSize, RespSize, MaxBlocks} \subseteq Nat
  /\ {CmdSize, Threshold, FifoSize, MaxLength} \subseteq Nat \ {0}

VARIABLES
  block_mode,       \* MSS_SPI_set_slave_block_buffers() has been called
  cmd_handler,      \* there is a command handler
  slave_rx_idx, slave_rx_buffer,
  slave_tx_idx,
  resp_tx_buffer,   \* the packet whose command is answered, 0 for none
  resp_buff_tx_idx,
  cmd_done,
  cmd_irq,          \* C2_ENABLE_CMD_IRQ
  spi_ints,         \* RIS
  rx_fifo, tx_fifo,
  spi_isr,          \* where the handler is
  block,            \* packets started
  length,           \* frames of the current packet
  selected,         \* slave select
  lengths,          \* history: frames of each packet that has ended
  reports,          \* history: the calls of the block receive handler
  cmd_calls,        \* history: what the command handler was given for each packet
  stray_response,   \* history: the master got a response to another packet's command
  hurried

spiConf == <<block_mode, cmd_handler>>
spiTx == <<slave_tx_idx, resp_tx_buffer, resp_buff_tx_idx, cmd_done, tx_fifo>>
spiRx == <<slave_rx_idx, slave_rx_buffer, rx_fifo>>
spiMaster == <<block, length, selected, lengths, stray_response, hurried>>
spiVars == <<spiConf, spiTx, spiRx, spiMaster, cmd_irq, spi_ints, spi_isr, reports, cmd_calls>>

SpiInts == {"RXDONE", "TXDONE", "CMD", "RXOVFLOW", "TXURUN", "SSEND"}
IsrStages == {"out", "rx", "rx_clear", "tx", "cmd", "cmd_end", "overflow", "underrun", "ssend", "ssend_end"}

SpiInit ==
  /\ block_mode = FALSE /\ cmd_handler = FALSE /\ slave_rx_idx = 0 /\ slave_rx_buffer = <<>>
  /\ slave_tx_idx = 0 /\ resp_tx_buffer = 0 /\ resp_buff_tx_idx = 0 /\ cmd_done = TRUE
  /\ cmd_irq = FALSE /\ spi_ints = {} /\ rx_fifo = <<>> /\ tx_fifo = <<>> /\ spi_isr = "out"
  /\ block = 0 /\ length = 0 /\ selected = FALSE /\ lengths = <<>> /\ reports = <<>>
  /\ cmd_calls = <<>> /\ stray_response = FALSE /\ hurried = FALSE

------------------------------------------------------------------------------
\* fill_slave_tx_fifo(): from the transmit buffer, then from the response, then
\* zeros unless a response is still to come.

Frame(from, of) == [from |-> from, of |-> of]
Repeat(frame, n) == [i \in 1..n |-> frame]
Response(resp) == IF resp = 0 THEN 0 ELSE RespSize

\* Mutant: a flush before the refill has no effect.
FillUnflushed(fifo, idx, resp, resp_idx, done) ==
  LET space == FifoSize - Len(tx_fifo)
      t == Min({space, TxSize - idx})
      r == IF idx + t < TxSize THEN 0 ELSE Min({space - t, Response(resp) - resp_idx})
  IN /\ tx_fifo' = tx_fifo \o Repeat(Frame("buffer", 0), t) \o Repeat(Frame("response", resp), r)
     /\ slave_tx_idx' = idx + t
     /\ resp_tx_buffer' = resp /\ resp_buff_tx_idx' = resp_idx + r /\ cmd_done' = done

FillSlaveTxFifo(fifo, idx, resp, resp_idx, done) ==
  LET space == FifoSize - Len(fifo)
      t == Min({space, TxSize - idx})
      r == IF idx + t < TxSize THEN 0 ELSE Min({space - t, Response(resp) - resp_idx})
      z == IF done /\ idx + t = TxSize /\ resp_idx + r = Response(resp) THEN space - t - r ELSE 0
  IN /\ tx_fifo' = fifo \o Repeat(Frame("buffer", 0), t) \o Repeat(Frame("response", resp), r)
                        \o Repeat(Frame("zero", 0), z)
     /\ slave_tx_idx' = idx + t
     /\ resp_tx_buffer' = resp /\ resp_buff_tx_idx' = resp_idx + r /\ cmd_done' = done

------------------------------------------------------------------------------
\* Set-up, with the interrupt disabled and the master quiet.

Quiet == spi_isr = "out" /\ block = 0

SetSlaveBlockBuffers ==
  /\ Quiet /\ ~block_mode /\ block_mode' = TRUE
  /\ slave_rx_idx' = 0 /\ rx_fifo' = <<>>
  /\ FillSlaveTxFifo(<<>>, 0, 0, 0, ~cmd_handler)
  /\ UNCHANGED <<cmd_handler, slave_rx_buffer, spiMaster, cmd_irq, spi_ints, spi_isr, reports,
                 cmd_calls>>

\* The TX FIFO is flushed: it may have been filled with zeros.
SetCmdHandler ==
  /\ Quiet /\ block_mode /\ ~cmd_handler /\ cmd_handler' = TRUE
  /\ rx_fifo' = <<>> /\ cmd_irq' = TRUE /\ spi_ints' = spi_ints \ {"CMD"}
  /\ FillSlaveTxFifo(<<>>, 0, 0, 0, FALSE)
  /\ UNCHANGED <<block_mode, slave_rx_idx, slave_rx_buffer, spiMaster, spi_isr, reports, cmd_calls>>

------------------------------------------------------------------------------
\* mss_spi_isr(): every interrupt is looked for once, in this order.

\* Mutant: the interrupt of the slave select is not enabled.
EnabledNoSsend == spi_ints \ ({"SSEND"} \cup IF cmd_irq THEN {} ELSE {"CMD"})

Enabled == spi_ints \ (IF cmd_irq THEN {} ELSE {"CMD"})
Go(stage) == spi_isr' = stage
Handle(interrupt, stage, next) ==
  /\ spi_isr = stage
  /\ interrupt \notin Enabled /\ Go(next)
  /\ UNCHANGED <<spiConf, spiTx, spiRx, spiMaster, cmd_irq, spi_ints, reports, cmd_calls>>
Clear(interrupt) == spi_ints' = spi_ints \ {interrupt}

EnterSpiIsr ==
  /\ spi_isr = "out" /\ Enabled # {} /\ Go("rx")
  /\ UNCHANGED <<spiConf, spiTx, spiRx, spiMaster, cmd_irq, spi_ints, reports, cmd_calls>>

\* The FIFO is emptied; what does not fit the buffer is counted only.
Read ==
  LET frames == SubSeq(slave_rx_buffer, 1, Min({RxSize, slave_rx_idx})) \o rx_fifo
  IN slave_rx_buffer' = SubSeq(frames, 1, Min({RxSize, Len(frames)})) /\ rx_fifo' = <<>>
ReadSlaveRxFifo == Read /\ slave_rx_idx' = slave_rx_idx + Len(rx_fifo)

RxDoneIsr ==
  \/ Handle("RXDONE", "rx", "tx")
  \/ /\ spi_isr = "rx" /\ "RXDONE" \in Enabled
     /\ ReadSlaveRxFifo /\ Go("rx_clear")
     /\ UNCHANGED <<spiConf, spiTx, spiMaster, cmd_irq, spi_ints, reports, cmd_calls>>
  \/ /\ spi_isr = "rx_clear"
     /\ Clear("RXDONE") /\ Go("tx")
     /\ UNCHANGED <<spiConf, spiTx, spiRx, spiMaster, cmd_irq, reports, cmd_calls>>

TxDoneIsr ==
  \/ Handle("TXDONE", "tx", "cmd")
  \/ /\ spi_isr = "tx" /\ "TXDONE" \in Enabled
     /\ FillSlaveTxFifo(tx_fifo, slave_tx_idx, resp_tx_buffer, resp_buff_tx_idx, cmd_done)
     /\ Clear("TXDONE") /\ Go("cmd")
     /\ UNCHANGED <<spiConf, spiRx, spiMaster, cmd_irq, reports, cmd_calls>>

\* The command handler calls MSS_SPI_set_cmd_response(), which starts to fill the FIFO.
CmdIsr ==
  \/ Handle("CMD", "cmd", "overflow")
  \/ /\ spi_isr = "cmd" /\ "CMD" \in Enabled
     /\ ReadSlaveRxFifo
     /\ cmd_calls' = Append(cmd_calls, [of |-> block, data |-> slave_rx_buffer'])
     /\ FillSlaveTxFifo(tx_fifo, slave_tx_idx, block, 0, TRUE)
     /\ Go("cmd_end")
     /\ UNCHANGED <<spiConf, spiMaster, cmd_irq, spi_ints, reports>>
  \/ /\ spi_isr = "cmd_end"
     /\ FillSlaveTxFifo(tx_fifo, slave_tx_idx, resp_tx_buffer, resp_buff_tx_idx, TRUE)
     /\ cmd_irq' = FALSE /\ Clear("CMD") /\ Go("overflow")
     /\ UNCHANGED <<spiConf, spiRx, spiMaster, reports, cmd_calls>>

\* The receive FIFO is reset, and the block with it, by recover_from_rx_overflow().
OverflowIsr ==
  \/ Handle("RXOVFLOW", "overflow", "underrun")
  \/ /\ spi_isr = "overflow" /\ "RXOVFLOW" \in Enabled
     /\ rx_fifo' = <<>> /\ tx_fifo' = <<>> /\ spi_ints' = {} /\ Go("underrun")
     /\ UNCHANGED <<spiConf, slave_tx_idx, resp_tx_buffer, resp_buff_tx_idx, cmd_done,
                    slave_rx_idx, slave_rx_buffer, spiMaster, cmd_irq, reports, cmd_calls>>

\* The transmit buffer starts anew; the response goes on where it was.
UnderrunIsr ==
  \/ Handle("TXURUN", "underrun", "ssend")
  \/ /\ spi_isr = "underrun" /\ "TXURUN" \in Enabled
     /\ FillSlaveTxFifo(<<>>, 0, resp_tx_buffer, resp_buff_tx_idx, cmd_done)
     /\ Clear("TXURUN") /\ Go("ssend")
     /\ UNCHANGED <<spiConf, spiRx, spiMaster, cmd_irq, reports, cmd_calls>>

\* The packet is read to its end, the state made ready for the next one and the
\* FIFOs reset; then the block receive handler is called, and the interrupt cleared.
SsendIsr ==
  \/ Handle("SSEND", "ssend", "out")
  \/ /\ spi_isr = "ssend" /\ "SSEND" \in Enabled
     /\ Read /\ slave_rx_idx' = 0
     /\ reports' = Append(reports, [size |-> slave_rx_idx + Len(rx_fifo), data |-> slave_rx_buffer'])
     /\ IF cmd_handler
        THEN /\ cmd_irq' = TRUE /\ Clear("CMD") /\ FillSlaveTxFifo(<<>>, 0, 0, 0, FALSE)
        ELSE /\ UNCHANGED <<cmd_irq, spi_ints>>
             /\ FillSlaveTxFifo(<<>>, 0, resp_tx_buffer, resp_buff_tx_idx, cmd_done)
     /\ Go("ssend_end")
     /\ UNCHANGED <<spiConf, spiMaster, cmd_calls>>
  \/ /\ spi_isr = "ssend_end"
     /\ Clear("SSEND") /\ Go("out")
     /\ UNCHANGED <<spiConf, spiTx, spiRx, spiMaster, cmd_irq, reports, cmd_calls>>

SpiIsr ==
  EnterSpiIsr \/ RxDoneIsr \/ TxDoneIsr \/ CmdIsr \/ OverflowIsr \/ UnderrunIsr \/ SsendIsr

------------------------------------------------------------------------------
\* The master, and what its clock does to the FIFOs.

Select ==
  /\ block_mode /\ ~selected /\ block < MaxBlocks
  /\ selected' = TRUE /\ block' = block + 1 /\ length' = 0
  /\ hurried' = (hurried \/ spi_isr # "out" \/ "SSEND" \in spi_ints)
  /\ UNCHANGED <<spiConf, spiTx, spiRx, cmd_irq, spi_ints, spi_isr, lengths, stray_response,
                 reports, cmd_calls>>

\* The command has been received, and the handler has not done with it.
TurnAround == cmd_irq /\ length = CmdSize

Exchange ==
  /\ selected /\ length < MaxLength /\ length' = length + 1
  /\ rx_fifo' = IF Len(rx_fifo) < FifoSize THEN Append(rx_fifo, block) ELSE rx_fifo
  /\ tx_fifo' = IF tx_fifo = <<>> THEN tx_fifo ELSE Tail(tx_fifo)
  /\ stray_response' = (stray_response \/ (tx_fifo # <<>> /\ Head(tx_fifo).from = "response"
                                             /\ Head(tx_fifo).of # block))
  /\ spi_ints' = spi_ints
       \cup (IF length' % Threshold = 0 THEN {"RXDONE", "TXDONE"} ELSE {})
       \cup (IF cmd_handler /\ length' = CmdSize THEN {"CMD"} ELSE {})
       \cup (IF Len(rx_fifo) = FifoSize THEN {"RXOVFLOW"} ELSE {})
       \cup (IF tx_fifo = <<>> THEN {"TXURUN"} ELSE {})
  /\ hurried' = (hurried \/ TurnAround \/ Len(rx_fifo) = FifoSize)
  /\ UNCHANGED <<spiConf, slave_tx_idx, resp_tx_buffer, resp_buff_tx_idx, cmd_done, slave_rx_idx,
                 slave_rx_buffer, cmd_irq, spi_isr, block, selected, lengths, reports, cmd_calls>>

Deselect ==
  /\ selected /\ length > 0 /\ selected' = FALSE
  /\ lengths' = Append(lengths, length) /\ spi_ints' = spi_ints \cup {"SSEND"}
  /\ hurried' = (hurried \/ TurnAround)
  /\ UNCHANGED <<spiConf, spiTx, spiRx, cmd_irq, spi_isr, block, length, stray_response, reports,
                 cmd_calls>>

SpiMaster == Select \/ Exchange \/ Deselect

SpiNext == SetSlaveBlockBuffers \/ SetCmdHandler \/ SpiIsr \/ SpiMaster

\* The interrupt is taken and the handler runs on; the master may do nothing.
SpiFairness == WF_spiVars(SpiIsr)
SpiSpec == SpiInit /\ [][SpiNext]_spiVars /\ SpiFairness

------------------------------------------------------------------------------
\* Properties.

Frames == [from : {"buffer", "response", "zero"}, of : Nat]

SpiTxTypes ==
  /\ slave_tx_idx \in 0..TxSize /\ cmd_done \in BOOLEAN
  /\ resp_tx_buffer \in 0..MaxBlocks /\ resp_buff_tx_idx \in 0..Response(resp_tx_buffer)
  /\ tx_fifo \in Seq(Frames) /\ Len(tx_fifo) <= FifoSize

SpiRxTypes ==
  /\ slave_rx_idx \in 0..(MaxBlocks * MaxLength)
  /\ slave_rx_buffer \in Seq(Nat) /\ Len(slave_rx_buffer) \in Min({RxSize, slave_rx_idx})..RxSize
  /\ rx_fifo \in Seq(Nat) /\ Len(rx_fifo) <= FifoSize

SpiMasterTypes ==
  /\ {block_mode, cmd_handler, cmd_irq, selected, stray_response, hurried} \subseteq BOOLEAN
  /\ spi_ints \subseteq SpiInts /\ spi_isr \in IsrStages
  /\ block \in 0..MaxBlocks /\ length \in 0..MaxLength /\ lengths \in Seq(0..MaxLength)
  /\ reports \in Seq([size : Nat, data : Seq(Nat)]) /\ cmd_calls \in Seq([of : Nat, data : Seq(Nat)])

SpiTypeOK == SpiTxTypes /\ SpiRxTypes /\ SpiMasterTypes

PacketsReported ==
  \A k \in 1..Len(reports) :
    /\ reports[k].size = lengths[k]
    /\ reports[k].data = Repeat(k, Min({RxSize, lengths[k]}))

CommandsGiven ==
  \A i \in 1..Len(cmd_calls) :
    LET call == cmd_calls[i] IN
      /\ call.data = Repeat(call.of, Min({RxSize, Len(call.data)}))
      /\ Len(call.data) >= Min({RxSize, CmdSize})
      /\ \A j \in 1..(i-1) : cmd_calls[j].of < call.of

CommandsServed ==
  cmd_handler => \A k \in 1..Len(reports) :
                   lengths[k] >= CmdSize => \E i \in 1..Len(cmd_calls) : cmd_calls[i].of = k

\* A master that waits where it should has each packet handed to the block
\* receive handler once, in order, with its length and as much of it as fits
\* the buffer; has its commands handed to the command handler from their first
\* frame on, once for every packet that holds one; and is sent no response to
\* the command of an earlier packet (mss_spi.c:1193-1313).
SpiSafety ==
  ~hurried => PacketsReported /\ CommandsGiven /\ CommandsServed /\ ~stray_response

\* The end of every packet is reported, whatever came before it, unless the
\* master was in a hurry.
SpiReports ==
  \A k \in 1..MaxBlocks : Len(lengths) >= k ~> (Len(reports) >= k \/ hurried)
------------------------------------------------------------------------------
\* What keeps SpiSafety true.

\* The current packet's end has not been reported.
PacketOpen == Len(reports) < block

\* The packets in the order of the master, hurried or not.
Packets ==
  /\ Len(lengths) = (IF selected THEN block - 1 ELSE block)
  /\ ~selected /\ block > 0 => lengths[block] = length
  /\ block = 0 => /\ length = 0 /\ rx_fifo = <<>> /\ slave_rx_idx = 0 /\ spi_ints = {}
                  /\ reports = <<>> /\ cmd_calls = <<>> /\ spi_isr = "out"
  /\ block > 0 => slave_rx_idx + Len(rx_fifo) <= (block - 1) * MaxLength + length

\* The end of a packet is reported before the next one begins.
PacketEnds ==
  /\ "RXOVFLOW" \notin spi_ints
  /\ Len(reports) \in {block, block - 1}
  /\ selected => PacketOpen
  /\ "SSEND" \in spi_ints => ~selected /\ (PacketOpen <=> spi_isr # "ssend_end")
  /\ PacketOpen => selected \/ "SSEND" \in spi_ints
  /\ spi_isr = "ssend_end" => "SSEND" \in spi_ints

\* What has been received is the current packet, from its first frame on.
Received ==
  /\ ~PacketOpen => slave_rx_idx = 0 /\ rx_fifo = <<>>
  /\ PacketOpen => slave_rx_idx + Len(rx_fifo) = length
  /\ \A i \in 1..Len(rx_fifo) : rx_fifo[i] = block
  /\ \A i \in 1..Min({RxSize, slave_rx_idx}) : slave_rx_buffer[i] = block

\* The command interrupt is enabled until the command of the packet is answered.
CommandTurn ==
  /\ \A i \in 1..Len(cmd_calls) : cmd_calls[i].of <= block
  /\ spi_isr = "cmd_end" =>
       "CMD" \in spi_ints /\ cmd_calls # <<>> /\ cmd_calls[Len(cmd_calls)].of = block
  /\ "CMD" \in spi_ints => cmd_handler /\ cmd_irq /\ selected /\ length = CmdSize
  /\ PacketOpen /\ cmd_irq /\ spi_isr # "cmd_end" =>
       \A i \in 1..Len(cmd_calls) : cmd_calls[i].of < block
  /\ PacketOpen /\ cmd_irq /\ length >= CmdSize => "CMD" \in spi_ints
  /\ cmd_handler /\ ~cmd_irq =>
       /\ PacketOpen /\ length >= CmdSize
       /\ \E i \in 1..Len(cmd_calls) : cmd_calls[i].of = block
  /\ ~cmd_handler => ~cmd_irq /\ cmd_calls = <<>>

\* A response in progress or in the FIFO answers the current packet.
Responding ==
  /\ resp_tx_buffer # 0 => cmd_handler /\ PacketOpen /\ resp_tx_buffer = block
  /\ \A i \in 1..Len(tx_fifo) :
       tx_fifo[i].from = "response" => cmd_handler /\ PacketOpen /\ tx_fifo[i].of = block

SpiInv ==
  /\ SpiTypeOK /\ Packets /\ SpiSafety
  /\ ~hurried => PacketEnds /\ Received /\ CommandTurn /\ Responding
=============================================================================
