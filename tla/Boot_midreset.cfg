\* Expected violation: the eNVM image, five harts, a reset at any moment: hart 0 may wait for ever.
SPECIFICATION FairSpec
CONSTANTS
  LastHart = 4
  InitMarks <- ClearMarks
  MaxResets = 1
  MidBootReset = TRUE
  StartInLim = FALSE
PROPERTIES BootCompletes
CHECK_DEADLOCK FALSE
