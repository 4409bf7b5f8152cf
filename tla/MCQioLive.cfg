SPECIFICATION Spec
CONSTANTS
  r1 = r1
  r2 = r2
  w1 = w1
  w2 = w2
  k1 = k1
  c = c
  Readers = {r1}
  Writers = {w1}
  Producers = {}
  Closer = c
  None = None
  Uses <- LiveUses
  Limit = 6
  Overhead = 1
  Maxatomic = 3
  WriteSizes = {5}
  ReadSizes = {1, 4}
  MaxBytes = 10
  MaxCloses = 2
PROPERTIES
  FlowEnds
  BytesRead
CHECK_DEADLOCK FALSE
