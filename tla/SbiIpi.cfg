CONSTANTS
  HartCount = 3
  PoolSize = 2
  Calls = {"RFENCE"}
  Masks = {{1, 2}}
  NULL = NULL
SPECIFICATION FairSpec
INVARIANTS LockExclusive SlotsAccounted NoLostIpi
PROPERTY SendReturns
