CONSTANTS
  Volatile <- MCNoLines
  SlowDma = FALSE
  FifoSize = 1
  MaxFrames = 1
  MaxOpens = 1
SPECIFICATION Spec
PROPERTIES WaitsForDmaOnly
CHECK_DEADLOCK FALSE
