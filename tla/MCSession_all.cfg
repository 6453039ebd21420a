SPECIFICATION FairSpec
CONSTANTS
  Kinds = {"dongle", "rtltcp", "file"}
  Gains = 3
  DeviceMayGo = TRUE
  TunerFails = FALSE
INVARIANTS
  TypeOK
  HaltedIsQuiet
  RetunesAlone
PROPERTIES
  GainIsBest
  NobodyLeftWaiting
