SPECIFICATION RendezSpec
CONSTANTS
  Sleepers = {s1, s2, s3}
  Wakers = {w1, w2, w3}
  Nobody = Nobody
INVARIANTS
  
  NoLostWakeup
  NoPanic
PROPERTIES
  SleepEnds
CHECK_DEADLOCK FALSE
