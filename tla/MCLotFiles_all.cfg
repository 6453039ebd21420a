SPECIFICATION Spec
CONSTANTS
  p1 = p1
  a = a
  b = b
  c = c
  Ports = {p1}
  Lots = {a, b, c}
  Slots = 2
  MaxFragments = 2
  Parts <- ThreeVersions
  Tables <- TwoTables
  MaxReplaced = 1
  MaxPackets = 6
SYMMETRY Interchangeable
INVARIANTS
  TypeOK
  OneFilePerLot
  FilesUnmixed
  CompleteReported
PROPERTIES
  ReportsAreNews
  EvictsOldest
CHECK_DEADLOCK FALSE
