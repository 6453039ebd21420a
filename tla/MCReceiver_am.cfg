SPECIFICATION FairSpec
CONSTANTS
  Modes = {"AM"}
  Symbols = 3
  Blocks = 4
  CfoWait = 2
  Pairs = 2
  Delay = 2
  Losses = {1, 3, 12}
  MaxFaults = 1
PROPERTIES
  MeasuresAgain
