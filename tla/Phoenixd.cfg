CONSTANTS
  Names = {"plo", "psh", "none"}
  Disk <- MCDisk
  Cells = {0, 1}
  MaxPos = 1
  MaxLen = 2
  MaxData = 1
  MaxFds = 2
  MSGRECV_MAXRETR = 2
  MaxLate = 1
  MaxLoss = 1
SPECIFICATION FairSpec
INVARIANT RightAnswer
PROPERTY CallReturns
