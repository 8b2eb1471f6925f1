\* A client that waits for a write-read with a time-out and then looks at the
\* status again.
CONSTANTS
  MaxTx = 1
  MaxRx = 1
  MaxSlave = 0
  Offsets = {}
  Kinds = {"write_read"}
  Options = {"release"}
  Timeouts = {0, 1}
  Resumes = FALSE
  Slave = FALSE
  Overlap = {}
  Masked = TRUE
  Contention = {}
  Faults = {}
  MaxDisturbed = 0
SPECIFICATION FairSpec
PROPERTIES SuccessIsTrue
CHECK_DEADLOCK FALSE
