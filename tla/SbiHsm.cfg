CONSTANTS
  HartCount = 2
  PoolSize = 1
  Calls = {"IPI"}
  Masks = {{0}}
  NULL = NULL
  Payload = payload
  Fdt = fdt
  StartAddrs = {kernel}
  Opaques = {arg}
SPECIFICATION HsmFairSpec
INVARIANT NeverHalts
PROPERTIES StartsInTheEnd StartsWhereAsked
