SPECIFICATION Spec
CONSTANTS
  BufferLen = 4
  PduSeqs = 2
  Latency = 1
  Modes <- FmAndAm
  MaxPdus = 8
  MaxSlips = 2
INVARIANTS
  TypeOK
  Aligned
PROPERTIES
  PlaysReceived
CHECK_DEADLOCK FALSE
