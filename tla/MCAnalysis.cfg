SPECIFICATION MCSpec
CONSTANTS
  Programs <- Tests
  AlsoBranches = {FALSE, TRUE}
  MaxSteps = 45
  MCCodes <- AllCodes
  MCDistances = {1, 4, 1000}
  Unit = 4
  Close = 2
  MaxBlocks = 5
  MaxTests = 2
  MCBlocks <- AllBlocks
  MCStacks <- AllStacks
  MCMemories <- AllMemories
  MCMetrics <- AllMetrics
  MCValues <- AllValues
  Exact = 4
INVARIANTS
  SlicesAreSound
  GoalsAreActivated
  DependencesAreRight
  FitnessIsReal
  ZeroMeansTaken
  InstrumentationIsTransparent
  ReportsAreTrue
PROPERTIES
  FitnessOnlyImproves
