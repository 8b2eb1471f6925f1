\* tx_complete() against the transmit interrupt.
SPECIFICATION Spec
CONSTANTS
  FifoSize = 2
  MaxMsg = 3
  RxSize = 0
  Faults = {}
  Calls = {"irq_tx", "tx_complete"}
  Overlap = {"tx_complete"}
  Echo = 0
PROPERTY CompleteMeansSent
