SPECIFICATION MCSpec
CONSTANTS
  Segments = {s1, s2}
  MaxConcurrency = 1
  MaxAttempts = 1
  FollowUps = {"failed"}
  DisableFailing = TRUE
  UseCheckpoint = TRUE
  MaxRuns = 2
  None = None
  EnabledTypes <- AllTypes
  TargetFound = TRUE
  TimeBudget = 4
  Overhead = 1
  MaxIterations = 7
  MaxElapsed = 2
  Coverages <- SomeCoverages
  Chats = {"a", "b"}
  Limit = 3
  MaxBackoff = 3
  MaxCalls = 2
  MaxRounds = 2
  MaxFailures = 2
  Files <- BothFiles
  LineLimit = 3
INVARIANTS
  SegmentsAreSound
  DirectoriesAreSound
  ConversationsAreWhole
  GapsAreSegmented
PROPERTIES
  WorkSurvives
  PromptsEnd
  Stops
