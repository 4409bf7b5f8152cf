\* Four Procs on one QLock, each put to sleep at most twice.
\* No symmetry: the run checks liveness.
SPECIFICATION LockSpec
CONSTANTS
  Procs = {p1, p2, p3, p4}
  None = None
  MaxSleeps = 2
INVARIANTS
  MutualExclusion
  OneWakeup
PROPERTIES
  AbsSpec
  QLockSpec
  FifoSpec
