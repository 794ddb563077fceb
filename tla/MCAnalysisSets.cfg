SPECIFICATION MCSpec
CONSTANTS
  Programs <- Tests
  AlsoBranches = {FALSE}
  MaxSteps = 0
  MCCodes = {}
  MCDistances = {}
  Unit = 4
  Close = 2
  MaxBlocks = 0
  MaxTests = 0
  MCBlocks = {}
  MCStacks = {}
  MCMemories = {}
  MCMetrics = {}
  MCValues <- Incomparable
  Exact = 4
INVARIANTS
  ExactlyOneIsZero
