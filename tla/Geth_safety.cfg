CONSTANTS
  Volatile <- MCRxLines
  SlowDma = TRUE
  FifoSize = 1
  MaxFrames = 2
  MaxOpens = 2
SPECIFICATION Spec
INVARIANTS TypeOK OneOwner
PROPERTIES NewFramesOnly SendsWhatWasGiven
CHECK_DEADLOCK FALSE
