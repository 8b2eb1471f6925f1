\* What any of the three clients does; what each leaves out is in MCI2c.
CONSTANTS
  MaxTx = 1
  MaxRx = 2
  MaxSlave = 1
  Offsets = {1}
  Kinds = {"write", "read", "write_read"}
  Options = {"release", "hold"}
  Timeouts = {0, 2}
  Resumes = FALSE
  Slave = TRUE
  Overlap = {}
  Masked = TRUE
  Contention = {"address", "restart", "data", "SLV_LA", "SLARW_LA"}
  Faults = {"BUS_ERROR", "SLV_RST"}
  MaxDisturbed = 2
SPECIFICATION ClientsSpec
INVARIANTS ClientsInv SlaveReachable ReadInBounds
PROPERTIES PendedStarts SuccessMeansDone MasterEnds
CHECK_DEADLOCK FALSE
