SPECIFICATION MCSpec
CONSTANTS
  Limits <- MCLimits
  Defaults <- MCDefaults
  MaxIterations = 9
  PlateauLength = 2
  Scale = 1000
  RoundedDown <- MCRounded
  Second = 1
  Tests <- MCTests
  Targets <- MCTargets
  H <- MCH
  MaxH = 3
  Size <- MCSize
  Fails <- MCFails
  NoTest = NoTest
  Initial <- MCInitial
  Focused <- MCFocused
  Exploitation <- Half
  SearchLimits <- AllLimits
  Coverages <- SomeCoverages
  MaxLength = 2
  MaxWork = 2
  SearchIterations = 5
  SuiteTests = {"p", "q", "r", "s", "u"}
  Goals = {"x", "y"}
  SuiteFitnesses <- MCFitness
  SuiteSizes <- MCSizes
  Suites <- MCSuites
  PopulationSize = 2
  Elite = 1
  Worst = 6
  Raising = {"q"}
  TimingOut = {"s"}
INVARIANTS
  PopulationsAreSound
  PlateausAreReal
  SuitesAreSound
PROPERTIES
  ResultsNeverFallBack
  SearchEnds
