SPECIFICATION MCSpec
CONSTANTS
  MaxExecutions = 2
  MaxLength = 2
  Suites = {s1, s2}
  FitnessFuns = {"f1", "f2"}
  CoverageFuns = {"c1"}
  FinalFuns = {"c2"}
  Goals = {"g"}
  MaxTests = 2
  MaxRestricted = 1
  SuiteOperations = 5
  ChromosomeLength = 3
  MaxStatements = 3
  MaxUses = 2
  Clones = 1
  Seeds <- SutSeeds
  Partners <- SutPartners
  TestOperations = 3
SYMMETRY MCSymmetry
INVARIANTS
  ThreadsAreApart
PROPERTIES
  TestsAreWellFormed
  TimedOutThreadStops
  ValuesAreCurrent
  MutationIsSound
