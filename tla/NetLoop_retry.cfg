SPECIFICATION FairSpec
CONSTANTS
  near = near
  far = far
  gw = gw
  m1 = m1
  m2 = m2
  mg = mg
  NoIp = NoIp
  NetIp = NetIp
  NoMac = NoMac
  Hosts <- MCHosts
  OnLink <- MCOnLink
  Gateway = NoIp
  Macs <- MCMacs
  MacsOf <- MCMacsOf
  Rotate = TRUE
  RetryForever = FALSE
  ArpTimeout = 1
  PingTimeout = 2
  MaxLag = 1
  NDev = 2
  RetryCount = 1
  ArpTimeoutCount = 2
INVARIANTS
  AliveMeansReply
  RetryBudget
PROPERTIES
  CallReturns
