------------------------------ MODULE MCSearches ------------------------------
(* Searches that run until their budget is used up, one of which is chosen at    *)
(* the start; the others do nothing.  "mio" is MIO with two targets: t4 covers   *)
(* one of them but raises, t6 covers both, t1 and t2 tie on the first.  "budget" *)
(* is any search with all seven stopping conditions.  "suites" are the searches  *)
(* that judge whole suites: the long test p and the short one q cover x, r covers *)
(* y, and s, which covers both, times out.                                       *)
EXTENDS MIO

CONSTANTS SearchLimits, Coverages, MaxLength, MaxWork, SearchIterations,
          SuiteTests, Goals, SuiteFitnesses, SuiteSizes, Suites,
          PopulationSize, Elite, Worst, Raising, TimingOut

VARIABLES component, bCounters, bPc, bWork, bHistory,
          covered, uncovered, objectives, algorithm, wPc, wSolution, excluded, population,
          generation, passing, failing

B == INSTANCE SearchBudget WITH
       Limits <- SearchLimits, MaxIterations <- SearchIterations,
       counters <- bCounters, pc <- bPc, work <- bWork, history <- bHistory

W == INSTANCE SuiteSearch WITH
       Tests <- SuiteTests, Fitness <- SuiteFitnesses, Size <- SuiteSizes,
       pc <- wPc, solution <- wSolution

ASSUME OtherConstants == B!ConstantsType /\ W!ConstantsType

(* Instances for TLC.                                                            *)
MCTests == {"t1", "t2", "t3", "t4", "t5", "t6"}
MCTargets == {"x", "y"}
MCH == [t1 |-> [x |-> 1, y |-> 0], t2 |-> [x |-> 1, y |-> 1], t3 |-> [x |-> 2, y |-> 1],
        t4 |-> [x |-> 3, y |-> 0], t5 |-> [x |-> 3, y |-> 2], t6 |-> [x |-> 3, y |-> 3]]
MCSize == [t1 |-> 1, t2 |-> 2, t3 |-> 2, t4 |-> 1, t5 |-> 2, t6 |-> 3]
MCFails == {"t4"}

MCInitial == [n |-> 3, m |-> 1]
MCFocused == [n |-> 1, m |-> 2]
MCDefaults == [n |-> 2, m |-> 1]
Half      == <<1, 2>>

\* When a plateau ends, progress falls.
MCLimits == [iterations |-> 9, plateau |-> 5]
AllLimits == [iterations |-> 5, tests |-> 6, statements |-> 6, time |-> 3,
              coverage |-> 60, plateau |-> 2, minimum |-> 50]

SomeCoverages == {0, 500, 505, 600}
MCRounded == {290}
MCFitness == [p |-> [x |-> 0, y |-> 1], q |-> [x |-> 0, y |-> 4], r |-> [x |-> 4, y |-> 0],
              s |-> [x |-> 0, y |-> 0], u |-> [x |-> 5, y |-> 3]]
MCSizes == [p |-> 3, q |-> 1, r |-> 2, s |-> 1, u |-> 1]
MCSuites == {{"p"}, {"q"}, {"r"}, {"u"}, {"p", "q"}, {"q", "r"}, {"q", "u"}}

wVars == <<covered, uncovered, objectives, algorithm, wPc, wSolution, excluded, population,
           generation, passing, failing>>
bVars == <<bCounters, bPc, bWork, bHistory>>
allVars == <<component, vars, bVars, wVars>>

BudgetIdle == bCounters = 0 /\ bPc = "idle" /\ bWork = 0 /\ bHistory = 0
SuitesIdle ==
  /\ covered = 0 /\ uncovered = {} /\ objectives = {} /\ algorithm = "none" /\ wPc = "idle"
  /\ wSolution = {} /\ excluded = {} /\ population = <<>> /\ generation = <<>>
  /\ passing = {} /\ failing = {}

MCInit ==
  /\ Init
  /\ \/ component = "mio" /\ BudgetIdle /\ SuitesIdle
     \/ component = "budget" /\ B!Init /\ SuitesIdle
     \/ component = "suites" /\ BudgetIdle /\ W!Init

MIOStep == component = "mio" /\ Next /\ UNCHANGED <<component, bVars, wVars>>
Budget(Step) == component = "budget" /\ Step /\ UNCHANGED <<component, vars, wVars>>
SuitesStep == component = "suites" /\ W!Next /\ UNCHANGED <<component, vars, bVars>>

MCSpec ==
  /\ MCInit /\ [][MIOStep \/ Budget(B!Next) \/ SuitesStep]_allVars
  /\ WF_allVars(Budget(B!Check)) /\ WF_allVars(Budget(B!Report)) /\ WF_allVars(Budget(B!Tick))

(* The plateaus that cut a search short are real, see there.                     *)
PlateausAreReal == component = "budget" => B!PlateausAreReal
(* A search with a limit on iterations ends.                                     *)
SearchEnds == component = "budget" => B!SearchEnds
(* Populations of suites are ranked and complete results cover everything, see there. *)
SuitesAreSound == component = "suites" => W!SuitesAreSound
(* What the searches have found is not lost again: MIO's best tests, and the reported *)
(* suites of the others, see there.                                              *)
ResultsNeverFallBack == BestIsKept /\ W!ReportsNeverFallBack
===============================================================================
