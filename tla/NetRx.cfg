SPECIFICATION FairSpec
CONSTANTS
  a = a
  b = b
  macA = macA
  macB = macB
  ipA = ipA
  ipB = ipB
  Stations = {a, b}
  Mac <- MCMac
  Ip <- MCIp
  OurVlans <- MCOurVlans
  NativeVlans <- MCNativeVlans
  Alien = Alien
  AlienMac = AlienMac
  AlienIp = AlienIp
  AlienFrames <- MCAlienFrames
  MaxAlien = 1
  Absent = Absent
  NoIp = NoIp
  BcastIp = BcastIp
  BcastMac = BcastMac
INVARIANTS
  TypeOK
  FramesWhole
  AnswerHeard
  PingOnlyWithinVlan
PROPERTIES
  NoUncalledAnswer
  PingWorks
  Quiesces
CHECK_DEADLOCK FALSE
