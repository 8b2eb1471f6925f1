\* The application up to its command loop.
SPECIFICATION HelloFairSpec
CONSTANTS
  FifoSize = 2
  MaxMsg = 3
  RxSize = 2
  Faults <- NoFaults
  Calls <- AppCalls
  Overlap <- AppCalls
  Echo = 1
  Greeting = 3
  Menu = 3
  Reply = 2
  Keys = {"polled", "irq"}
  MaxKeys = 2
INVARIANTS GreetingUndisturbed
PROPERTIES MenuSentFirst ReachesLoop
CHECK_DEADLOCK FALSE
