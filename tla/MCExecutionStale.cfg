SPECIFICATION MCSpec
CONSTANTS
  MaxExecutions = 1
  MaxLength = 1
  Suites = {s1}
  FitnessFuns = {"f1", "f2"}
  CoverageFuns = {"c1"}
  FinalFuns = {"c2"}
  Goals = {"g"}
  MaxTests = 2
  MaxRestricted = 1
  SuiteOperations = 5
  ChromosomeLength = 3
  MaxStatements = 3
  MaxUses = 2
  Clones = 1
  Seeds <- ForeignSeeds
  Partners <- SutPartners
  TestOperations = 3
INVARIANTS
  CachedResultIsCurrent
