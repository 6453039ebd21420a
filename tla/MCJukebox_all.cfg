SPECIFICATION FairSpec
CONSTANTS
  Songs = {"song"}
  MaxTakes = 3
  LastResort = {3}
  MaxConfidence = 2
  Threshold = 1
  Excellent = 2
  MaxWorkers = 2
  MaxShared = 1
  MaxMishaps = 1
INVARIANTS
  TypeOK
  SongsVerified

  
