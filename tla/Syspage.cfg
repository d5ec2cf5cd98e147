CONSTANTS
  AddrSpace = 64
  UintSpace = 32
  HeapLimit = 20
  Word = 2
  SizePage = 4
  SizeSyspage = 1
  SizeMap = 3
  SizeName = 1
  SizeEntry = 2
  SizeProg = 2
  SizeArgv = 2
  HalRegions <- PackedRegions
  MapNames = {ram, flash}
  MapRanges <- PackedRanges
  EntryCalls <- PackedCalls
  ProgSizes = {5}
  Argvs = {a}
  NULL = NULL
SPECIFICATION Spec
INVARIANTS EntriesSorted MapsDisjoint HeapBlocksDisjoint ProgramsReserved
INVARIANTS EntriesDisjoint EntriesInMap BestFitCorrect
PROPERTIES EntriesKept LinksFollowList
