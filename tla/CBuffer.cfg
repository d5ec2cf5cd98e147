CONSTANTS
  Byte = {b1, b2}
  Capacity = 4
  MaxIO = 5
SPECIFICATION Spec
INVARIANT TypeOK
PROPERTY ImplementsFifo
