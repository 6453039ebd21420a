SPECIFICATION FairSpec
CONSTANTS
  Lineups <- Stations
  Versions = 2
  Seqs = 2
  LastFrame = 1
  Programs = 2
  DataServices = 1
  AlertLimit = 3
  PacketSeqs = 2
  Tiles = 1
  TilesOnAir <- TwoTiles
  Editions = 2
  ImageBody = 3
  Width = 2
  CccLength = 2
  PduData = 4
  BlockData = 5
  Body = 2
  MaxAas = 2
  MaxDamaged = 3
  MaxFaults = 1
  MaxResets = 1
  MaxLost = 1
INVARIANTS
  TypeOK
  ShownAsSent
  ImagesWhole
PROPERTIES
  AlertOnTime
  RepeatedIsShown
