SPECIFICATION SupportSpec
CONSTANTS
  NULL = NULL
  \* the ring of devices
  Devs = {d1, d2, d3}
  Slots = 3
  Roms = {"none", "valid"}
  Hotplug = TRUE
  MaxIndex = 4
  \* the MDIO buses
  mii_devs = mii_devs
  Buses = {b1, b2, b3}
  Names = {n1, n2}
  EthDevs = {e1}
  \* the lists
  Heads = {h1, h2}
  Entries = {a, b, c}
  \* the timer
  TicksPerUs = 1
  UsPerMs = 2
  IntRange = 16
  UlongRange = 64
  WdPeriod = 2
  Delays = {0, 1, 3, 5}
  Starts <- MCStarts
  Horizon = 72
  \* the memory
  AreaSize = 16
  AreaAt <- MCAreas
  Line = 4
  Sizes = {1, 3, 4}
  Aligns = {1, 2, 4}
  MaxBlocks = 3
  \* the checksum
  Byte = 4
  Octets = 5
  Field = 3
SYMMETRY DevSymmetry
INVARIANTS TypeOK EthactNamesCurrent WellLinked ListsLinked WaitsInTime BlocksApart ChecksumSound
PROPERTIES IsList CurrentKept Addressed RoundTriesAll Implements
CHECK_DEADLOCK FALSE
