\* Four Procs: two readers inside, a writer waiting for them on k and a
\* fourth Proc queued on x behind it.
SPECIFICATION Spec
CONSTANTS
  Procs = {p1, p2, p3, p4}
  None = None
INVARIANTS
  Exclusion
  KeyAccounted
PROPERTIES
  WriterFirst
  EveryoneServed
