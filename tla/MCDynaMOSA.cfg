SPECIFICATION MCSpec
CONSTANTS
  Tests <- MCTests
  Goals <- MCGoals
  Fitness <- MCFitness
  Size <- MCSize
  NoTest = NoTest
  Roots <- MCRoots
  Children <- MCChildren
  IndependentGoals <- MCIndependentGoals
  IndependentFitness <- MCIndependentFitness
  PopulationSize = 2
  MaxOffspring = 2
INVARIANTS
  ArchiveConsistent
  FrontierIsRight
  PopulationIsArchived
PROPERTIES
  SelectionKeepsCoverage
  UpdateEnds
  ImplementsTestSearch
  FoundMeansArchived
  MOSAImplementsTestSearch
