\* One driver at a time, each with the bounds of its own module.
CONSTANTS
  DdrTypes = {"DDR4","LPDDR4","DDR3","OFF"}
  Skip = {"ADDCMD"}
  LastLane = 1
  LastOffset = 1
  FirstLatency = 1
  LastLatency = 2
  RpcValues = 2
  DdrTimeout = 2
  CaLimit = 3
  MaxTransfers = 3
  CqTasks = 2
  MacQueues = {0, 1}
  RxRing = 2
  TxRing = 3
  RxBuffers = 2
  MaxFrames = 3
  MaxPackets = 2
  MaxTries = 1
  RxSize = 2
  TxSize = 1
  RespSize = 2
  CmdSize = 1
  Threshold = 2
  FifoSize = 3
  MaxBlocks = 2
  MaxLength = 3
  MaxRequests = 3
  MaxControls = 3
  MaxEvents = 3
  MaxPacket = 2
  ReplyLength = 3
  DataLengths = {1, 3, 5}
SPECIFICATION DriversSpec
INVARIANTS DriversInv DdrReady MmcSafety MacSafety SpiSafety SysSafety UsbSafety
PROPERTIES DdrAttemptEnds MmcEnds MacServed SpiReports SysEnds UsbEnds
CHECK_DEADLOCK FALSE
