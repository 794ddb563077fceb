CHECK_DEADLOCK FALSE
SPECIFICATION Spec
CONSTANTS
  Tests <- MCTests
  Runs <- MCRuns
  Mutants <- MCMutants
  MaxLength = 30
INVARIANTS
  ViolatedMeansDoesNotHold
