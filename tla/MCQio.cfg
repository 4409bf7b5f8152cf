SPECIFICATION Spec
CONSTANTS
  r1 = r1
  r2 = r2
  w1 = w1
  w2 = w2
  k1 = k1
  c = c
  Readers = {r1, r2}
  Writers = {w1, w2}
  Producers = {k1}
  Closer = c
  None = None
  Uses <- QioUses
  Limit = 6
  Overhead = 1
  Maxatomic = 3
  WriteSizes = {0, 2, 5}
  ReadSizes = {1, 4}
  MaxBytes = 7
  MaxCloses = 1
INVARIANTS
  InOrder
  LengthsTrue
  ReaderWoken
  WriterWoken
CHECK_DEADLOCK FALSE
