\* Two harts share two sources; hart 1 masks interrupts around its calls, hart
\* 2 does not.
CONSTANTS
  Harts = {1, 2}
  Sources = {1, 2}
  MaxPriority = 1
  Ticking = {1}
  TickPeriod = 2
  Guarded = {1}
  Calls = 3
  Requests = 2
SPECIFICATION LiveSpec
INVARIANTS TypeOK GatewayInv StaysDisabled TickInv
PROPERTIES TickSpacing EventuallyServed
CHECK_DEADLOCK FALSE
