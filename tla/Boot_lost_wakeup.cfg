\* Expected violation: hart 1 clears the interrupt hart 0 has already raised.
SPECIFICATION FairSpec
CONSTANTS
  LastHart = 1
  InitMarks <- ClearMarks
  MaxResets = 0
  MidBootReset = FALSE
  StartInLim = TRUE
PROPERTIES Hart1BroughtOutOfWfi
CHECK_DEADLOCK FALSE
