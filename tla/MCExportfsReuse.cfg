SPECIFICATION Spec
CONSTANTS
  Nr_workbufs = 3
  MAXPROC = 2
  Kinds = {"io", "flush"}
  ReuseTags = TRUE
  MaxReqs = 4
INVARIANTS
  NoReplyAfterFlush
CHECK_DEADLOCK FALSE
