CONSTANTS
  Abilities <- MCAbilities
  Partners <- MCPartners
  Ercap = TRUE
  UsedType = "EXT_PHY"
  Addrs <- MCAddrs
  PhyAddr = 1
  EthDevs = {eth0}
  NULL = NULL
  ResetPolls = 1
  AnegTimeout = 1
  Limits = {100}
  Forced <- MCForced
SPECIFICATION Spec


PROPERTIES LinkAt100
CHECK_DEADLOCK FALSE
