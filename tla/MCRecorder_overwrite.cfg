SPECIFICATION Spec
CONSTANTS
  Songs <- TwoSongs
  Titled <- TwoSongs
  FileName <- SameName
  Lots = {}
  PrerollCap = 0
  PostrollOn = TRUE
  PostrollFrames = 1
  MinPackets = 1
  RecordInitial = TRUE
  CacheSize = 1
  MaxSuffix = 2
  Seconds = {1}
  Faults = {}
  MaxFrames = 3
  MaxTakes = 3
  MaxPictures = 0
  MaxExits = 0
PROPERTIES
  TakesPreserved
CHECK_DEADLOCK FALSE
