SPECIFICATION Spec
CONSTANTS
  MaxOut = 2
  MaxIn = 1
  MaxBreaks = 2
INVARIANTS
  UnackedKept
PROPERTIES
  PipeSpec
  Delivered
CHECK_DEADLOCK FALSE
