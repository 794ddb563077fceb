CONSTANT
  Programs <- CallInBetween
  AlsoBranches = {FALSE}
  MaxSteps = 45
SPECIFICATION Spec
INVARIANTS
  SliceIsComplete
