SPECIFICATION Spec
CONSTANTS
  r1 = r1
  r2 = r2
  w1 = w1
  w2 = w2
  k1 = k1
  c = c
  Readers = {r1, r2}
  Writers = {w1, w2}
  Producers = {k1}
  Closer = c
  None = None
  Uses <- WriterUses
  Limit = 6
  Overhead = 1
  Maxatomic = 6
  WriteSizes = {6}
  ReadSizes = {6}
  MaxBytes = 18
  MaxCloses = 0
PROPERTIES
  FlowEnds
CHECK_DEADLOCK FALSE
