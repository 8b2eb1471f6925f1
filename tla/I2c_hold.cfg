\* A client that is only a master and holds the bus between transactions.
CONSTANTS
  MaxTx = 1
  MaxRx = 1
  MaxSlave = 0
  Offsets = {}
  Kinds = {"write", "read"}
  Options = {"hold"}
  Timeouts = {0}
  Resumes = FALSE
  Slave = FALSE
  Overlap = {}
  Masked = TRUE
  Contention = {}
  Faults = {}
  MaxDisturbed = 0
SPECIFICATION FairSpec
PROPERTIES HeldBusContinues
CHECK_DEADLOCK FALSE
