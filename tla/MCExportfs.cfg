SPECIFICATION Spec
CONSTANTS
  Nr_workbufs = 3
  MAXPROC = 2
  Kinds = {"io", "flush", "inline", "version"}
  ReuseTags = FALSE
  MaxReqs = 3
INVARIANTS
  AnsweredOnce
  OneOwner
  RequestKept
  FlushSettled
  NoReplyAfterFlush
PROPERTIES
  EveryRequestEnds
CHECK_DEADLOCK FALSE
