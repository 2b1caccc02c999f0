CONSTANTS
  Volatile <- MCNoLines
  SlowDma = FALSE
  FifoSize = 1
  MaxFrames = 2
  MaxOpens = 1
SPECIFICATION FairSpec
INVARIANTS OnePacketAtATime
PROPERTIES PacketSent FramesTaken
CHECK_DEADLOCK FALSE
