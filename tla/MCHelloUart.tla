----------------------------- MODULE MCHelloUart ----------------------------
(* TLC instances of HelloUart. *)
EXTENDS HelloUart

AppCalls == {"set_rx_handler", "enable_irq", "polled_tx", "irq_tx",
             "tx_complete"}
NoFaults == {}
=============================================================================
