SPECIFICATION Spec
CONSTANTS
  Segments = {s1, s2}
  MaxConcurrency = 1
  MaxAttempts = 1
  FollowUps = {"failed"}
  DisableFailing = FALSE
  UseCheckpoint = TRUE
  MaxRuns = 2
  None = None
INVARIANTS
  CheckpointCanBeResumed
