SPECIFICATION Spec
CONSTANTS
  Songs <- TwoSongs
  Titled <- TwoSongs
  FileName <- SameName
  Lots = {}
  PrerollCap = 2
  PostrollOn = TRUE
  PostrollFrames = 2
  MinPackets = 2
  RecordInitial = TRUE
  CacheSize = 1
  MaxSuffix = 1
  Seconds = {1, 2}
  Faults = {"fopen", "ffmpeg"}
  MaxFrames = 5
  MaxTakes = 3
  MaxPictures = 0
  MaxExits = 1
INVARIANTS
  TypeOK
  RingHoldsLatest
  TakesOfBroadcast
PROPERTIES
  ImplementsCapture
  SettledTakesKept
CHECK_DEADLOCK FALSE
