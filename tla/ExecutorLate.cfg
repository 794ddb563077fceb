SPECIFICATION Spec
CONSTANTS
  MaxExecutions = 2
  MaxLength = 2
INVARIANTS
  FinishedThreadHasResult
