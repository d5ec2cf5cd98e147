CONSTANTS
  AddrBits = 11
  MinBits = 3
  RegMax = 4
  TableSizes = {1, 4}
  Archs = {"v7", "v8", "none"}
  Ranges <- MCRanges
  MaxMaps = 2
SPECIFICATION Spec
INVARIANT MapsProtected
PROPERTY RefusedUnchanged
CHECK_DEADLOCK FALSE
