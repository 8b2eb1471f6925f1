\* Polled and interrupt transmission, polled reception, line-status interrupts;
\* and a receive handler that echoes.
SPECIFICATION ClientsSpec
CONSTANTS
  FifoSize = 2
  MaxMsg = 3
  RxSize = 1
  Faults = {"PE"}
  Calls <- DriverCalls
  Overlap <- Watching
  Echo = 3
INVARIANTS DriverInv NoOverrun CompleteReleasesBuffer
PROPERTIES IrqTxDrains CallsReturn
