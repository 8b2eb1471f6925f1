\* Control transfers the host may give up, and one bus reset.
CONSTANTS
  MaxControls = 2
  MaxEvents = 1
  MaxPacket = 2
  ReplyLength = 3
  DataLengths = {1, 3}
SPECIFICATION UsbSpec
INVARIANT UsbAssertionsHold
CHECK_DEADLOCK FALSE
