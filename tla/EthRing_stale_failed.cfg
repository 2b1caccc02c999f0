CONSTANTS
  Devs = {d1, d2, d3}
  NULL = NULL
  Slots = 3
  Roms = {"none"}
  Hotplug = FALSE
  MaxIndex = 3
SPECIFICATION Spec
PROPERTIES WrapMeansAllTried
CHECK_DEADLOCK FALSE
