SPECIFICATION Spec
CONSTANTS
  w1 = w1
  w2 = w2
  w3 = w3
  k1 = k1
  k2 = k2
  None = None
  Writers = {w1, w2, w3}
  Home <- MCHome
  Confs <- MCConfs
  MaxData <- MCMaxData
  MayBreak = TRUE
  MayRequest = TRUE
INVARIANTS
  InStep
  OpenAgreed
PROPERTIES
  PipeSpec
  HandshakeEnds
  DataArrives
CHECK_DEADLOCK FALSE
