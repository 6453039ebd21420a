SPECIFICATION FairSpec
CONSTANTS
  Buffers <- TwoBuffers
  Programs = {0}
  Keys = {1, 8}
  Sources = {"file", "radio"}
  MaxPackets = 3
  MaxKeys = 1
  ChunkPackets = 2
  Interruptible = {"main"}
INVARIANTS
  TypeOK
  ListsSound
PROPERTIES
  ImplementsPlayback
  ReceiverQuits
  FileHeard
CHECK_DEADLOCK FALSE
