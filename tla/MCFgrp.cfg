SPECIFICATION Spec
CONSTANTS
  p1 = p1
  Procs = {p1, p2}
  First = p1
  Chans = {c1, c2, c3}
  Files = {f1, f2, f3}
  Delta = 2
  MaxNfd = 3
  None = None
INVARIANTS
  ChansCounted
PROPERTIES
  TableSpec
CHECK_DEADLOCK FALSE
