------------------------------ MODULE MCMmuart ------------------------------
(***************************************************************************)
(* Two clients of the driver, one at a time: one that transmits in every    *)
(* way and polls the receiver, and one whose receive handler echoes beside  *)
(* its interrupt transmission.  The configuration's constants allow what    *)
(* either of them does.                                                    *)
(***************************************************************************)
EXTENDS Mmuart

VARIABLE client

\* What a client may do while a message is outstanding without touching the
\* transmitter or IER
Watching == {"tx_complete", "get_tx_status", "get_rx_status"}

SetUpCalls == {"set_rxstatus_handler", "enable_irq", "disable_irq"}
SendCalls == TxCalls \cup Watching \cup SetUpCalls \cup {"irq_tx", "get_rx"}
EchoCalls == {"set_rx_handler", "enable_irq", "disable_irq", "irq_tx", "tx_complete"}
DriverCalls == SendCalls \cup EchoCalls

Sending == INSTANCE MmuartProof WITH Calls <- SendCalls, Echo <- 0
Echoing == INSTANCE MmuartProof WITH
  Calls <- EchoCalls, Overlap <- {"tx_complete"}, Faults <- {}

ClientsInit == Init /\ client \in {"sending", "echoing"}

ClientsNext ==
  /\ \/ client = "sending" /\ Sending!Next
     \/ client = "echoing" /\ Echoing!Next
  /\ UNCHANGED client

\* FairSpec of whichever client it is.
Either(a, b) == \/ client = "sending" /\ a
                \/ client = "echoing" /\ b

ClientsSpec ==
  /\ ClientsInit /\ [][ClientsNext]_<<vars, client>>
  /\ WF_vars(Either(Sending!Thread, Echoing!Thread))
  /\ WF_vars(Either(Sending!Isr, Echoing!Isr))
  /\ WF_vars(Either(Sending!Transmitter, Echoing!Transmitter))
  /\ SF_vars(Either(Sending!TransmitIsr, Echoing!TransmitIsr))

-----------------------------------------------------------------------------
\* Properties.

\* The sending client's irq_tx() message is handed to the transmitter in the end
\* (uart_isr() and default_tx_handler()).  Characters that come without end keep
\* the echoing client in its receive handler.
IrqTxDrains == (client = "sending" /\ tx_buff_size > 0) ~> tx_buff_size = 0

\* Every call of the sending client returns: the polled functions find the FIFO
\* empty in the end, whatever the interrupts do meanwhile.
CallsReturn == (client = "sending" /\ pc # "idle") ~> pc = "idle"
=============================================================================
