\* The search, the mutants and the assertions come to an end.
CHECK_DEADLOCK FALSE
SPECIFICATION MCSpec
CONSTANTS
  Kind <- MCKind
  Lists <- MCLists
  Facts <- MCFacts
  Strategies <- Deterministic
  Order = 2
  ClsTypes <- TheClasses
  ClsOrder <- TheSingles
  ClsWorlds <- TheWorlds
  ClsObserved <- TheObserved
  ClsAsked <- TheAsked
  ClsMaxObservations = 2
  SigTypes <- TheTypes
  SigOrder <- TheOrder
  SigKinds <- TheKinds
  SigOriginal <- TheOriginal
  SigUses <- TheUses
  SigKnown <- TheKnown
  SigEdges <- TheEdges
  SigWithAttribute <- TheAttributes
  SigNegate = FALSE
  SigKept = 2
  SigTupleSize = 1
  SigMaxUses = 2
  SigMaxExecutions = 2
  AsTests <- TheTests
  AsRuns <- TheRuns
  AsMutants <- TheMutants
  AsMaxLength = 30
INVARIANTS
  TypesAreRight
  AnswersAreCurrent
  UncoveredIsOffered
  GuessesAreUseful
  MutantsAreSound
  AssertionsAreTrue
PROPERTIES
  RelevantAssertionsStay
