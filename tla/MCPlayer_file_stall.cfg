SPECIFICATION FairSpec
CONSTANTS
  Buffers <- TwoBuffers
  Programs = {0}
  Keys = {0}
  Sources = {"file"}
  MaxPackets = 3
  MaxKeys = 1
  ChunkPackets = 1
  Interruptible = {}
PROPERTIES
  ProducerGetsOn
CHECK_DEADLOCK FALSE
