SPECIFICATION FairSpec
CONSTANTS
  Songs <- TwoSongs
  Titled <- TwoSongs
  FileName <- SameName
  Lots = {0, 1}
  PrerollCap = 0
  PostrollOn = FALSE
  PostrollFrames = 0
  MinPackets = 1
  RecordInitial = FALSE
  CacheSize = 2
  MaxSuffix = 1
  Seconds = {1}
  Faults = {"rename", "thread", "art", "ffmpeg", "job", "fopen"}
  MaxFrames = 2
  MaxTakes = 2
  MaxPictures = 3
  MaxExits = 1
INVARIANTS
  FilesOwned
  ArtOfSong
PROPERTIES
  WorkEnds
CHECK_DEADLOCK FALSE
