SPECIFICATION Spec
CONSTANTS
  near = near
  far = far
  gw = gw
  m1 = m1
  m2 = m2
  mg = mg
  NoIp = NoIp
  NetIp = NetIp
  NoMac = NoMac
  Hosts <- MCHosts
  OnLink <- MCOnLink
  Gateway = gw
  Macs <- MCMacs
  MacsOf <- MCMacsOf
  Rotate = TRUE
  RetryForever = FALSE
  ArpTimeout = 1
  PingTimeout = 2
  MaxLag = 1
  NDev = 1
  RetryCount = 0
  ArpTimeoutCount = 5
PROPERTIES
  TimeoutsBeforeGivingUp
