\* The eNVM image, four harts over every RAM content a completed boot leaves, two reboots.
SPECIFICATION FairSpec
CONSTANTS
  LastHart = 3
  InitMarks <- BootedMarks
  MaxResets = 2
  MidBootReset = FALSE
  StartInLim = FALSE
INVARIANTS TypeOK HandshakeInv BootSafety
PROPERTIES BootCompletes ReleasedOnlyFromWfi WaitingHartWakes ImplementsStartup
CHECK_DEADLOCK FALSE
