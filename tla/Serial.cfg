CONSTANTS
  SIZE_TX = 2
  SIZE_RX = 3
  TxFifo = 1
  RxFifo = 1
  SyncBytes = 2
  Bytes = 6
  ReadLens = {2}
  WriteLens = {3}
  Drivers = {"16550", "imxrt106x", "imx6ull", "zynq", "grlib", "cmsdk", "mcxn94x", "stm32", "rtt"}
SPECIFICATION FairSpec
INVARIANTS  ReadsOldest
PROPERTIES SentInOrder CallsEnd
