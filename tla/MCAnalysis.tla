------------------------------ MODULE MCAnalysis ------------------------------
(* How executions are observed, and what is read off the observations: four      *)
(* components, one of which is chosen at the start; the others do nothing.       *)
(* "slicer" executes and slices the tests of MCSlicer; "branches" executes code  *)
(* objects; "distances" computes the distances of all pairs of values;           *)
(* "instrumentation" instruments and executes the blocks of MCInstrumentation.   *)
EXTENDS MCSlicer

CONSTANTS
  MCCodes, MCDistances, Unit, Close, MaxBlocks, MaxTests,
  MCBlocks, MCStacks, MCMemories, MCMetrics,
  MCValues, Exact

VARIABLES
  component,
  bCode, meta, at, handlers, steps, bTrace, imported, results, taken, near,
  distances, jumps,
  compiled, iCode, adapters, metrics, entry, before, executed

B == INSTANCE BranchFitness WITH
       Codes <- MCCodes, Distances <- MCDistances, MaxSteps <- MaxBlocks,
       code <- bCode, trace <- bTrace
D == INSTANCE Distances WITH Values <- MCValues
Inst == INSTANCE Instrumentation WITH
       Blocks <- MCBlocks, Stacks <- MCStacks, Memories <- MCMemories, Metrics <- MCMetrics,
       code <- iCode

(* What the constants are given: the codes, values and blocks themselves. *)
CF == INSTANCE ControlFlow
DData == INSTANCE Distances WITH Values <- {}
IData == INSTANCE MCInstrumentation WITH
       Blocks <- {}, Stacks <- {}, Memories <- {}, Metrics <- {}, code <- iCode

ASSUME OtherConstants == B!ConstantsType /\ D!ConstantsType

bVars == <<bCode, meta, at, handlers, steps, bTrace, imported, results, taken, near>>
dVars == <<distances, jumps>>
iVars == <<compiled, iCode, adapters, metrics, entry, before, executed>>
allVars == <<component, vars, bVars, dVars, iVars>>

(* All code objects of three blocks, and some larger: if/elif/else; a while loop    *)
(* with an if and a break in it; try/except in a loop and in a branch.              *)
Block(kind, target, jumpsIf) == [kind |-> kind, target |-> target, jumpsIf |-> jumpsIf]
Blocks(seq) == [i \in 0 .. Len(seq) - 1 |-> seq[i + 1]]
End == Block("end", CF!None, CF!None)

Nested == Blocks(<<Block("cond", 2, "false"), End, Block("cond", 4, "false"), End, End>>)
Loop == Blocks(<<Block("cond", 4, "false"), Block("cond", 4, "true"), Block("cond", 0, "true"),
               Block("jump", 0, CF!None), End>>)
Handled == Blocks(<<Block("setup", 3, CF!None), Block("cond", 0, "true"), End,
                  Block("cond", 0, "true"), End>>)
HandledInside == Blocks(<<Block("cond", 4, "false"), Block("setup", 3, CF!None), End,
                        Block("cond", 4, "false"), End>>)

AllCodes == CF!CodeObjects(2) \cup {Nested, Loop, Handled, HandledInside}

AllBlocks == IData!All
AllStacks == IData!Stack
AllMemories == IData!AllMemories
AllMetrics == IData!AllMetrics

(* Numbers, one of them not a float, strings, sets of which one contains the other, *)
(* a list, objects; and two sets of which none contains the other.                 *)
One == DData!Number(1)
Three == DData!Number(3)

AllValues ==
  {DData!Number(-1), DData!Number(0), One, Three, DData!Number(5)}
    \cup {DData!Text(s) : s \in {<<>>, <<1>>, <<2, 1>>, <<1, 2, 3>>}}
    \cup {DData!SetOf(s) : s \in {{}, {One}, {One, Three}}}
    \cup {DData!List(<<Three, DData!Text(<<1>>)>>), DData!Object(1), DData!Object(2)}
    \cup {DData!Sized(2, TRUE), DData!Sized(0, FALSE)}

ASSUME Ordinary == D!AreOrdinary(AllValues)

Incomparable == {DData!SetOf({One}), DData!SetOf({Three})}

SlicerIdle ==
  /\ program = << >> /\ alsoBranch = FALSE /\ frames = << >> /\ history = << >> /\ trace = << >>
  /\ defined = << >> /\ criterion = 0 /\ slicer = << >>

BranchesIdle ==
  /\ bCode = << >> /\ meta = << >> /\ at = 0 /\ handlers = << >> /\ steps = 0
  /\ bTrace = << >> /\ imported = << >> /\ results = << >> /\ taken = {} /\ near = {}

DistancesIdle == distances = <<0, 1>> /\ jumps = TRUE

InstrumentationIdle ==
  /\ compiled = << >> /\ iCode = << >> /\ adapters = << >> /\ metrics = {} /\ entry = FALSE
  /\ before = << >> /\ executed = << >>

MCInit ==
  \/ /\ component = "slicer" /\ Init
     /\ BranchesIdle /\ DistancesIdle /\ InstrumentationIdle
  \/ /\ component = "branches" /\ SlicerIdle /\ B!Init
     /\ DistancesIdle /\ InstrumentationIdle
  \/ /\ component = "distances" /\ SlicerIdle /\ BranchesIdle
     /\ D!Init /\ InstrumentationIdle
  \/ /\ component = "instrumentation" /\ SlicerIdle /\ BranchesIdle
     /\ DistancesIdle /\ Inst!Init

SlicerStep == component = "slicer" /\ Next /\ UNCHANGED <<component, bVars, dVars, iVars>>
BranchesStep == component = "branches" /\ B!Next /\ UNCHANGED <<component, vars, dVars, iVars>>
DistancesStep == component = "distances" /\ D!Next /\ UNCHANGED <<component, vars, bVars, iVars>>
InstrumentationStep ==
  component = "instrumentation" /\ Inst!Next /\ UNCHANGED <<component, vars, bVars, dVars>>

MCSpec == MCInit /\ [][SlicerStep \/ BranchesStep \/ DistancesStep \/ InstrumentationStep]_allVars

\* DynaMOSA searches for every goal in the end, and for what was executed at once,
\* see there.
GoalsAreActivated == component = "branches" => B!GoalsAreActivated
\* The control-dependence graph holds the dependences of the code, see there.
DependencesAreRight == component = "branches" => B!DependencesAreRight
\* Fitness is zero for what was taken, and goals are covered that were taken or all but
\* taken, see there.
FitnessIsReal == component = "branches" => B!FitnessIsReal
\* A test that runs on, or one more test, never makes the fitness worse, see there.
FitnessOnlyImproves == [][component = "branches" => B!FitnessImproves]_allVars
\* The distance is zero for the branch that the jump takes, see there.
ZeroMeansTaken == D!ZeroMeansTaken
\* The assertion of the tracer, see there.
ExactlyOneIsZero == D!ExactlyOneIsZero
\* The code under test cannot tell whether it is instrumented, see there.
InstrumentationIsTransparent == component = "instrumentation" => Inst!InstrumentationIsTransparent
\* The tracer is told what the compiled code does, see there.
ReportsAreTrue == component = "instrumentation" => Inst!ReportsAreTrue
===============================================================================
