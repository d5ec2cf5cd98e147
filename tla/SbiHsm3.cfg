CONSTANTS
  HartCount = 3
  PoolSize = 1
  Calls = {}
  Masks = {{0}}
  NULL = NULL
  Payload = payload
  Fdt = fdt
  StartAddrs = {kernel}
  Opaques = {arg}
SPECIFICATION HsmSpec
INVARIANTS AllHartsBooted StartedOnce
