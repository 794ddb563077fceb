------------------------------- MODULE MCDynaMOSA -------------------------------
(* An instance for TLC: an if with an else branch that nests another if.  The       *)
(* search that is configured is DynaMOSA, or MOSA, which takes three goals of the    *)
(* same tests for independent objectives; the other one does nothing.                *)
EXTENDS DynaMOSA

CONSTANTS IndependentGoals,   \* the goals of MOSA
          IndependentFitness  \* and how close the tests come to them

ASSUME IndependentGoalsFinite == IsFiniteSet(IndependentGoals)
ASSUME IndependentFitnessType == IndependentFitness \in [Tests -> [IndependentGoals -> Nat]]

(* Goals: e is a function without branches, r and s are the branches of a predicate *)
(* (all roots), a is nested in r, and b in a; b is also its own child, as the branch *)
(* of a loop is.                                                                    *)
MCGoals == {"e", "r", "s", "a", "b"}
MCRoots == {"e", "r", "s"}
MCChildren == [e |-> {}, r |-> {"a"}, s |-> {}, a |-> {"b"}, b |-> {"b"}]

(* Tests: t1, t2 and t6 each are the only one to cover a root, so that a first      *)
(* front can have three tests; t1 and t3 tie on r; t4 covers four goals at once but  *)
(* is long; t5 is empty.                                                            *)
MCTests == {"t1", "t2", "t3", "t4", "t5", "t6"}
MCSize == [t1 |-> 1, t2 |-> 1, t3 |-> 1, t4 |-> 3, t5 |-> 0, t6 |-> 2]
MCFitness ==
  [t1 |-> [e |-> 1, r |-> 0, s |-> 1, a |-> 1, b |-> 2],
   t2 |-> [e |-> 1, r |-> 2, s |-> 0, a |-> 3, b |-> 4],
   t3 |-> [e |-> 1, r |-> 0, s |-> 2, a |-> 0, b |-> 1],
   t4 |-> [e |-> 1, r |-> 0, s |-> 0, a |-> 0, b |-> 0],
   t5 |-> [e |-> 1, r |-> 2, s |-> 2, a |-> 3, b |-> 4],
   t6 |-> [e |-> 0, r |-> 2, s |-> 2, a |-> 3, b |-> 4]]

(* For MOSA: a first front of three cannot be kept by a population of two.          *)
MCIndependentGoals == {"e", "r", "s"}
MCIndependentFitness ==
  [t1 |-> [e |-> 2, r |-> 0, s |-> 1],
   t2 |-> [e |-> 2, r |-> 2, s |-> 0],
   t3 |-> [e |-> 2, r |-> 0, s |-> 2],
   t4 |-> [e |-> 0, r |-> 0, s |-> 1],
   t5 |-> [e |-> 1, r |-> 2, s |-> 2],
   t6 |-> [e |-> 0, r |-> 2, s |-> 2]]

VARIABLES algorithm, mCovered, mUncovered, mObjectives, mPc, mPopulation, mOffspring

M == INSTANCE MOSA WITH
       Goals <- IndependentGoals, Fitness <- IndependentFitness,
       covered <- mCovered, uncovered <- mUncovered, objectives <- mObjectives,
       pc <- mPc, population <- mPopulation, offspring <- mOffspring

mVars == <<mCovered, mUncovered, mObjectives, mPc, mPopulation, mOffspring>>

MCInit == algorithm \in {"DYNAMOSA", "MOSA"} /\ Init /\ M!Init

DynaMOSAStep == algorithm = "DYNAMOSA" /\ Next /\ UNCHANGED <<algorithm, mVars>>
MOSAStep == algorithm = "MOSA" /\ M!Next /\ UNCHANGED <<algorithm, vars>>

MCSpec ==
  /\ MCInit /\ [][DynaMOSAStep \/ MOSAStep]_<<algorithm, vars, mVars>>
  /\ WF_<<algorithm, vars, mVars>>(DynaMOSAStep)

(* What MOSA finds is archived, see there.                                          *)
FoundMeansArchived == M!FoundMeansArchived
(* MOSA, too, implements the abstract search for tests.                             *)
MOSAImplementsTestSearch == M!ImplementsTestSearch
================================================================================
