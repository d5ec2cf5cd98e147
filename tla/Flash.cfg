CONSTANTS
  TotalSz = 6
  SectorSz = 2
  PageSz = 1
  MaxLen = 3
  Regs <- MCRegs
  Drivers = {"imxrt", "zynq", "spimctrl", "ftmctrl"}
SPECIFICATION FlashSpec
INVARIANTS WriteBack SyncStores ReadsWritten
