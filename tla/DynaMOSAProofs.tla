----------------------------- MODULE DynaMOSAProofs -----------------------------
(* Proofs about DynaMOSA for every control-dependence graph, every set of tests     *)
(* and every population size; and, in the end, about MOSA for every set of           *)
(* independent goals, as the instance of MCDynaMOSA.                                *)
EXTENDS MCDynaMOSA, Functions, FiniteSetTheorems, TLAPS

(* What update does to one entry of the archive: it leaves it alone, and then no    *)
(* shown test improves on it, or it replaces it by a test that does.               *)
LEMMA UpdatesEntry ==
  ASSUME NEW c \in [Goals -> Tests \cup {NoTest}],
         NEW objs \in SUBSET Goals, NEW ts \in SUBSET Tests,
         NEW d \in Updates(c, objs, ts)
  PROVE  /\ d \in [Goals -> Tests \cup {NoTest}]
         /\ \A g \in Goals :
              \/ d[g] = c[g] /\ (g \in objs => Improving(c, g, ts) = {})
              \/ g \in objs /\ d[g] \in Improving(c, g, ts)
<1> DEFINE better == {g \in objs : Improving(c, g, ts) # {}}
<1>1. PICK p \in [better -> ts] :
        /\ \A g \in better : p[g] \in Shortest(Improving(c, g, ts))
        /\ d = [g \in Goals |-> IF g \in better THEN p[g] ELSE c[g]]
  BY DEF Updates
<1>2. d \in [Goals -> Tests \cup {NoTest}]
  BY <1>1
<1>3. ASSUME NEW g \in Goals
      PROVE  \/ d[g] = c[g] /\ (g \in objs => Improving(c, g, ts) = {})
             \/ g \in objs /\ d[g] \in Improving(c, g, ts)
  <2>1. CASE g \in better
    BY <1>1, <2>1 DEF Shortest
  <2>2. CASE g \notin better
    BY <1>1, <2>2
  <2> QED
    BY <2>1, <2>2
<1> QED
  BY <1>2, <1>3

(* The first front holds a best test for every goal, and nothing but ranked tests. *)
LEMMA ZeroFrontHasBest ==
  ASSUME NEW ts, NEW gs, NEW front \in ZeroFronts(ts, gs)
  PROVE  /\ front \subseteq ts
         /\ \A g \in gs : \E t \in front : t \in Best(g, ts)
  BY DEF ZeroFronts

(* A best test for a goal covers it when any ranked test does.                     *)
LEMMA BestCovers ==
  ASSUME NEW ts \in SUBSET Tests, NEW g \in Goals,
         NEW t \in ts, IsCovered(t, g),
         NEW b \in Best(g, ts)
  PROVE  IsCovered(b, g)
<1>1. ~(Fitness[t][g] < Fitness[b][g]) /\ b \in Tests
  BY DEF Best, Preferred
<1>2. Fitness[b][g] \in Nat /\ Fitness[t][g] = 0
  BY <1>1, FitnessType DEF IsCovered
<1> QED
  BY <1>1, <1>2 DEF IsCovered

(* DynaMOSA never cuts its first front.                                            *)
LEMMA FirstFrontSurvives ==
  ASSUME NEW ts \in SUBSET Tests, NEW gs \in SUBSET Goals,
         NEW front \in ZeroFronts(ts, gs), gs # {},
         NEW p \in Survivors(ts, front, gs, Remain(front))
  PROVE  /\ front # {}
         /\ front \subseteq p
         /\ p \subseteq ts
<1>1. front \subseteq ts /\ front # {}
  BY ZeroFrontHasBest
<1>2. IsFiniteSet(front)
  <2>1. IsFiniteSet(gs)
    BY GoalsFinite, FS_Subset
  <2>2. PICK pick \in [gs -> ts] : front = {pick[g] : g \in gs}
    BY DEF ZeroFronts
  <2>3. pick \in Surjection(gs, front)
    BY <2>2 DEF Surjection
  <2> QED
    BY <2>1, <2>3, FS_Surjection
<1>3. Cardinality(front) \in Nat
  BY <1>2, FS_CardinalityType
<1>4. Cardinality(front) <= Remain(front)
  BY <1>3, PopulationSizeType DEF Remain
<1>5. p \in {front \cup r :
               r \in LaterFronts(ts \ front, gs, Remain(front) - Cardinality(front))}
  BY <1>1, <1>4 DEF Survivors
<1> QED
  BY <1>1, <1>5 DEF LaterFronts
--------------------------------------------------------------------------------
(* The inductive invariant: the checked invariants, the reason why completion is   *)
(* only reported with an empty set of uncovered goals, and why breeding needs some. *)
Guarded ==
  /\ pc = "select" => uncovered # {}
  /\ pc = "complete" => uncovered = {}

Inv ==
  /\ TypeOK
  /\ ArchiveConsistent
  /\ FrontierIsUncovered
  /\ FrontierIsClosed
  /\ PopulationNeverEmpty
  /\ PopulationIsArchived
  /\ Guarded

LEMMA InitInv == Init => Inv
BY RootsType, NoTestIsNoTest
   DEF Init, Inv, TypeOK, ArchiveType, ArchiveConsistent, CoveredGoals, FrontierIsUncovered,
       FrontierIsClosed, PopulationNeverEmpty, PopulationIsArchived, Guarded

(* A round of the update loop keeps the invariant.                                 *)
LEMMA UpdateRoundInv == Inv /\ UpdateRound => Inv'
<1> SUFFICES ASSUME Inv, UpdateRound PROVE Inv'
  OBVIOUS
<1> USE DEF CoveredGoals
<1>1. /\ covered \in [Goals -> Tests \cup {NoTest}]
      /\ uncovered \subseteq Goals /\ objectives \subseteq Goals
      /\ population \subseteq Tests /\ offspring \subseteq Tests /\ current \subseteq Goals
  BY DEF Inv, TypeOK, ArchiveType
<1>2. PICK d \in Updates(covered, objectives, population) :
        /\ covered' = d
        /\ current' = NextGoals(CoveredGoals(d))
        /\ uncovered' = (uncovered \ Stored(covered, d))
                          \cup (NextGoals(CoveredGoals(d)) \ objectives)
        /\ objectives' = objectives \cup NextGoals(CoveredGoals(d))
        /\ pc' = IF AnotherRound(CoveredGoals(d)) THEN "update" ELSE "check"
  BY DEF UpdateRound
<1> DEFINE done == CoveredGoals(d)
           new == NewGoals(done)
<1>3. /\ population' = population /\ offspring' = offspring /\ pc = "update"
  BY DEF UpdateRound
<1>4. /\ d \in [Goals -> Tests \cup {NoTest}]
      /\ \A g \in Goals :
           \/ d[g] = covered[g] /\ (g \in objectives => Improving(covered, g, population) = {})
           \/ g \in objectives /\ d[g] \in Improving(covered, g, population)
  BY <1>1, <1>2, UpdatesEntry
<1>5. new \subseteq Goals
  BY <1>1, ChildrenType DEF NewGoals
<1>6. TypeOK'
  BY <1>1, <1>2, <1>3, <1>4, <1>5 DEF TypeOK, ArchiveType, NextGoals
<1>7. done \subseteq objectives /\ CoveredGoals(covered) \subseteq done
  BY <1>4, <1>1, NoTestIsNoTest DEF Inv, ArchiveConsistent, Improving
<1>8. /\ current = uncovered /\ uncovered = objectives \ CoveredGoals(covered)
      /\ uncovered \cap Stored(covered, d) = current \cap done
  <2>1. current = uncovered /\ uncovered = objectives \ CoveredGoals(covered)
    BY DEF Inv, FrontierIsUncovered, ArchiveConsistent
  <2>2. ASSUME NEW g \in uncovered
        PROVE  g \in Stored(covered, d) <=> g \in done
    BY <1>1, <2>1, <2>2 DEF Stored
  <2> QED
    BY <1>1, <2>1, <2>2
<1>9. new \cap objectives = {}
  BY <1>7, <1>8 DEF NewGoals
<1>10. ArchiveConsistent'
  <2>1. ASSUME NEW g \in done
        PROVE  IsCovered(d[g], g)
    BY <1>4, <2>1 DEF Inv, ArchiveConsistent, Improving
  <2>2. uncovered' = objectives' \ done
    BY <1>1, <1>2, <1>7, <1>8, <1>9 DEF NextGoals, NewGoals
  <2> QED
    BY <1>2, <1>7, <2>1, <2>2 DEF ArchiveConsistent
<1>11. FrontierIsUncovered'
  BY <1>1, <1>2, <1>7, <1>8, <1>9 DEF FrontierIsUncovered, NextGoals
<1>12. FrontierIsClosed'
  <2>1. Roots \subseteq objectives'
    BY <1>2 DEF Inv, FrontierIsClosed
  <2>2. ASSUME NEW g \in done
        PROVE  Children[g] \subseteq objectives'
    <3>1. CASE g \in CoveredGoals(covered)
      BY <1>2, <3>1 DEF Inv, FrontierIsClosed
    <3>2. CASE g \notin CoveredGoals(covered)
      <4>1. g \in current
        BY <1>7, <1>8, <3>2
      <4>2. Children[g] \subseteq current \cup done \cup new
        BY <4>1 DEF NewGoals
      <4> QED
        BY <1>1, <1>2, <1>7, <1>8, <4>2 DEF NextGoals
    <3> QED
      BY <3>1, <3>2
  <2> QED
    BY <1>2, <2>1, <2>2 DEF FrontierIsClosed
<1>13. PopulationNeverEmpty'
  BY <1>3 DEF Inv, PopulationNeverEmpty
<1>14. PopulationIsArchived'
  <2> SUFFICES ASSUME new = {}, NEW g \in uncovered'
               PROVE  \A t \in population : ~IsCovered(t, g)
    BY <1>1, <1>2, <1>3 DEF PopulationIsArchived, CoveredBy, AnotherRound
  <2>1. g \in current /\ g \notin done /\ g \in objectives
    BY <1>2, <1>8, <1>1, <1>7, <1>9 DEF NextGoals
  <2>2. covered[g] = NoTest /\ d[g] = NoTest
    BY <1>1, <1>8, <2>1
  <2>3. Improving(covered, g, population) = {}
    BY <1>1, <1>4, <2>1, <2>2, NoTestIsNoTest DEF Improving
  <2> QED
    BY <2>2, <2>3 DEF Improving
<1>15. Guarded'
  BY <1>2 DEF Guarded
<1> QED
  BY <1>6, <1>10, <1>11, <1>12, <1>13, <1>14, <1>15 DEF Inv

(* Ranking the union keeps the invariant: the first front is not empty, because     *)
(* there are goals to rank by.                                                     *)
LEMMA SelectInv == Inv /\ Select => Inv'
<1> SUFFICES ASSUME Inv, Select PROVE Inv'
  OBVIOUS
<1>1. /\ population \cup offspring \in SUBSET Tests /\ current \in SUBSET Goals
      /\ current # {}
  BY DEF Inv, TypeOK, ArchiveType, FrontierIsUncovered, Guarded, Select
<1>2. PICK front \in ZeroFronts(population \cup offspring, current) :
        population' \in Survivors(population \cup offspring, front, current, Remain(front))
  BY DEF Select
<1>3. population' # {} /\ population' \subseteq Tests
  BY <1>1, <1>2, FirstFrontSurvives
<1> QED
  BY <1>3 DEF Inv, Select, TypeOK, ArchiveType, ArchiveConsistent, CoveredGoals,
              FrontierIsUncovered, FrontierIsClosed, PopulationNeverEmpty,
              PopulationIsArchived, Guarded

LEMMA NextInv == Inv /\ [Next]_vars => Inv'
<1> SUFFICES ASSUME Inv, [Next]_vars PROVE Inv'
  OBVIOUS
<1> USE DEF Inv, TypeOK, ArchiveType, ArchiveConsistent, CoveredGoals, FrontierIsUncovered,
            FrontierIsClosed, PopulationNeverEmpty, PopulationIsArchived, Guarded
<1>1. CASE RandomPopulation
  BY <1>1 DEF RandomPopulation, RandomPopulations
<1>2. CASE UpdateRound
  BY <1>2, UpdateRoundInv
<1>3. CASE Breed
  BY <1>3 DEF Breed, Generations
<1>4. CASE Select
  BY <1>4, SelectInv
<1>5. CASE AllCovered
  BY <1>5 DEF AllCovered
<1>6. CASE ResourcesExhausted
  BY <1>6 DEF ResourcesExhausted
<1>7. CASE Returned \/ UNCHANGED vars
  BY <1>7 DEF Returned, vars
<1> QED
  BY <1>1, <1>2, <1>3, <1>4, <1>5, <1>6, <1>7 DEF Next

THEOREM Invariance == Spec => []Inv
<1>1. Init => Inv
  BY InitInv
<1>2. Inv /\ [Next]_vars => Inv'
  BY NextInv
<1> QED
  BY <1>1, <1>2, PTL DEF Spec
--------------------------------------------------------------------------------
(* DynaMOSA's variables always have their types.                                   *)
THEOREM TypeCorrect == Spec => []TypeOK
<1>1. Inv => TypeOK
  BY DEF Inv
<1> QED
  BY <1>1, Invariance, PTL

(* The archive's three containers agree and every archived test covers its goal.    *)
THEOREM ArchiveIsConsistent == Spec => []ArchiveConsistent
<1>1. Inv => ArchiveConsistent
  BY DEF Inv
<1> QED
  BY <1>1, Invariance, PTL

(* The goals the ranking works on are the goals the loop waits for, and no goal     *)
(* whose dependency is covered is left out of either.                              *)
THEOREM FrontierIsAlwaysRight == Spec => []FrontierIsRight
<1>1. Inv => FrontierIsRight
  BY DEF Inv, Guarded, FrontierIsRight
<1> QED
  BY <1>1, Invariance, PTL

(* There is always a parent to breed from.                                         *)
THEOREM PopulationIsNeverEmpty == Spec => []PopulationNeverEmpty
<1>1. Inv => PopulationNeverEmpty
  BY DEF Inv, Guarded
<1> QED
  BY <1>1, Invariance, PTL

(* What the population covers is not searched for: no covered goal waits for a      *)
(* later generation.                                                               *)
THEOREM PopulationIsAlwaysArchived == Spec => []PopulationIsArchived
<1>1. Inv => PopulationIsArchived
  BY DEF Inv
<1> QED
  BY <1>1, Invariance, PTL

(* The search stops for lack of uncovered goals only when all goals are covered,    *)
(* those never activated included: the objectives hold the roots and, once          *)
(* everything among them is covered, the children of their members, so by           *)
(* GraphIsRooted they are all goals.                                               *)
THEOREM CompletenessIsReal == Spec => []CompleteMeansAllCovered
<1>1. Inv => CompleteMeansAllCovered
  <2> SUFFICES ASSUME Inv, pc = "complete" PROVE CoveredGoals(covered) = Goals
    BY DEF CompleteMeansAllCovered
  <2>1. objectives = CoveredGoals(covered) /\ objectives \in SUBSET Goals
    BY DEF Inv, Guarded, ArchiveConsistent, TypeOK, ArchiveType
  <2>2. Roots \subseteq objectives /\ \A g \in objectives : Children[g] \subseteq objectives
    BY <2>1 DEF Inv, FrontierIsClosed
  <2> QED
    BY <2>1, <2>2, GraphIsRooted
<1> QED
  BY <1>1, Invariance, PTL

(* Selection never drops the coverage of a goal that is searched for: the first     *)
(* front holds a best test for the goal, a best test covers what any test covers,   *)
(* and the first front is never cut.                                               *)
THEOREM SelectionIsSafe == Spec => SelectionKeepsCoverage
<1> DEFINE Keeps ==
      pc = "select" =>
        CoveredBy(population \cup offspring, current) \subseteq CoveredBy(population', current)
<1>1. Inv /\ [Next]_vars => [Keeps]_vars
  <2> SUFFICES ASSUME Inv, Next, pc = "select" PROVE Keeps
    OBVIOUS
  <2>1. Select
    BY DEF Next, RandomPopulation, UpdateRound, Breed, AllCovered, ResourcesExhausted, Returned
  <2>2. /\ population \cup offspring \in SUBSET Tests /\ current \in SUBSET Goals
        /\ current # {}
    BY DEF Inv, TypeOK, ArchiveType, FrontierIsUncovered, Guarded
  <2>3. PICK front \in ZeroFronts(population \cup offspring, current) :
          population' \in Survivors(population \cup offspring, front, current, Remain(front))
    BY <2>1 DEF Select
  <2>4. front \subseteq population'
    BY <2>2, <2>3, FirstFrontSurvives
  <2>5. ASSUME NEW g \in current, NEW t \in population \cup offspring, IsCovered(t, g)
        PROVE  \E b \in population' : IsCovered(b, g)
    <3>1. PICK b \in front : b \in Best(g, population \cup offspring)
      BY <2>3, ZeroFrontHasBest
    <3> QED
      BY <2>2, <2>4, <2>5, <3>1, BestCovers
  <2> QED
    BY <2>5 DEF CoveredBy
<1> QED
  BY <1>1, Invariance, PTL DEF Spec, SelectionKeepsCoverage
--------------------------------------------------------------------------------
(* An archive entry changes only for a covering test, and for a shorter one if      *)
(* there was one.                                                                  *)
LEMMA UpdateRoundImproves ==
  ASSUME Inv, UpdateRound
  PROVE  /\ covered' \in [Goals -> Tests \cup {NoTest}]
         /\ \A g \in Goals : covered'[g] # covered[g] => Promise!Improves(covered', g)
<1>1. /\ covered \in [Goals -> Tests \cup {NoTest}] /\ objectives \in SUBSET Goals
      /\ population \in SUBSET Tests
  BY DEF Inv, TypeOK, ArchiveType
<1>2. PICK d \in Updates(covered, objectives, population) : covered' = d
  BY DEF UpdateRound
<1>3. /\ d \in [Goals -> Tests \cup {NoTest}]
      /\ \A g \in Goals : d[g] = covered[g] \/ d[g] \in Improving(covered, g, population)
  BY <1>1, UpdatesEntry
<1> QED
  BY <1>1, <1>2, <1>3 DEF Improving, Promise!Improves, IsCovered, Promise!IsCovered

(* What has been covered stays covered, and archived tests only get shorter.        *)
THEOREM ArchiveImproves == Spec => ArchiveOnlyImproves
<1> DEFINE OnlyImproves ==
      \A g \in CoveredGoals(covered) :
        covered'[g] # covered[g] =>
          covered'[g] # NoTest /\ Size[covered'[g]] < Size[covered[g]]
<1>1. Inv /\ [Next]_vars => [OnlyImproves]_covered
  <2> SUFFICES ASSUME Inv, Next, covered' # covered PROVE OnlyImproves
    BY DEF vars
  <2>1. UpdateRound
    BY DEF Next, RandomPopulation, Breed, Select, AllCovered, ResourcesExhausted, Returned, vars
  <2> QED
    BY <2>1, UpdateRoundImproves, NoTestIsNoTest DEF CoveredGoals, Promise!Improves
<1> QED
  BY <1>1, Invariance, PTL DEF Spec, ArchiveOnlyImproves

(* DynaMOSA implements the abstract search for tests: rounds of the update improve, *)
(* the end of the search finishes, every other step stutters.                      *)
THEOREM Refinement == Spec => ImplementsTestSearch
<1> DEFINE verdict == IF pc \in {"complete", "stopped"} THEN pc ELSE "searching"
<1>1. Init => Promise!Init
  BY DEF Init, Promise!Init
<1>2. Inv /\ CompleteMeansAllCovered' /\ [Next]_vars => [Promise!Next]_<<covered, verdict>>
  <2> SUFFICES ASSUME Inv, CompleteMeansAllCovered', [Next]_vars
               PROVE  Promise!Next \/ UNCHANGED <<covered, verdict>>
    BY DEF Promise!Next
  <2>1. CASE UpdateRound
    BY <2>1, UpdateRoundImproves DEF UpdateRound, Promise!Next, Promise!Improve
  <2>2. CASE AllCovered
    BY <2>2 DEF AllCovered, CompleteMeansAllCovered, CoveredGoals, Promise!Next, Promise!Finish
  <2>3. CASE ResourcesExhausted
    BY <2>3 DEF ResourcesExhausted, Promise!Next, Promise!Finish
  <2>4. CASE RandomPopulation \/ Breed \/ Select \/ Returned \/ UNCHANGED vars
    BY <2>4 DEF RandomPopulation, Breed, Select, Returned, vars
  <2> QED
    BY <2>1, <2>2, <2>3, <2>4 DEF Next
<1> QED
  BY <1>1, <1>2, Invariance, CompletenessIsReal, PTL DEF Spec, ImplementsTestSearch, Promise!Spec
--------------------------------------------------------------------------------
(* MOSA.                                                                           *)

MCNext == DynaMOSAStep \/ MOSAStep

(* What update does to one entry of the archive: it leaves it alone, and then no    *)
(* shown test improves on it, or it replaces it by a test that does.               *)
LEMMA MOSAUpdatesEntry ==
  ASSUME NEW c \in [IndependentGoals -> Tests \cup {NoTest}], NEW ts \in SUBSET Tests,
         NEW d \in M!Updates(c, IndependentGoals, ts)
  PROVE  /\ d \in [IndependentGoals -> Tests \cup {NoTest}]
         /\ \A g \in IndependentGoals :
              \/ d[g] = c[g] /\ M!Improving(c, g, ts) = {}
              \/ d[g] \in M!Improving(c, g, ts)
<1> DEFINE better == {g \in IndependentGoals : M!Improving(c, g, ts) # {}}
<1>1. PICK p \in [better -> ts] :
        /\ \A g \in better : p[g] \in M!Shortest(M!Improving(c, g, ts))
        /\ d = [g \in IndependentGoals |-> IF g \in better THEN p[g] ELSE c[g]]
  BY DEF M!Updates
<1>2. d \in [IndependentGoals -> Tests \cup {NoTest}]
  BY <1>1
<1>3. ASSUME NEW g \in IndependentGoals
      PROVE  \/ d[g] = c[g] /\ M!Improving(c, g, ts) = {}
             \/ d[g] \in M!Improving(c, g, ts)
  <2>1. CASE g \in better
    BY <1>1, <2>1 DEF M!Shortest
  <2>2. CASE g \notin better
    BY <1>1, <2>2
  <2> QED
    BY <2>1, <2>2
<1> QED
  BY <1>2, <1>3

(* A best test for a goal covers it when any ranked test does.                     *)
LEMMA MOSABestCovers ==
  ASSUME NEW ts \in SUBSET Tests, NEW g \in IndependentGoals,
         NEW t \in ts, M!IsCovered(t, g), NEW b \in M!Best(g, ts)
  PROVE  M!IsCovered(b, g)
<1>1. ~(IndependentFitness[t][g] < IndependentFitness[b][g]) /\ b \in Tests
  BY DEF M!Best, M!Preferred
<1>2. IndependentFitness[b][g] \in Nat /\ IndependentFitness[t][g] = 0
  BY <1>1, IndependentFitnessType DEF M!IsCovered
<1> QED
  BY <1>1, <1>2 DEF M!IsCovered

--------------------------------------------------------------------------------
(* The inductive invariant: every goal is an objective, uncovered exactly as long   *)
(* as the archive has no test for it, and archived tests cover their goals.         *)
ArchiveIsRight ==
  /\ mCovered \in [IndependentGoals -> Tests \cup {NoTest}]
  /\ mObjectives = IndependentGoals
  /\ mUncovered = {g \in IndependentGoals : mCovered[g] = NoTest}
  /\ \A g \in IndependentGoals : mCovered[g] # NoTest => M!IsCovered(mCovered[g], g)
  /\ mPopulation \subseteq Tests /\ mOffspring \subseteq Tests

(* What the archive is shown can only improve it, and what it then still lacks no   *)
(* shown test covers.                                                              *)
LEMMA ShownImproves ==
  ASSUME ArchiveIsRight, NEW ts \in SUBSET Tests, M!ShowToArchive(ts)
  PROVE  /\ mCovered' \in [IndependentGoals -> Tests \cup {NoTest}]
         /\ mObjectives' = IndependentGoals
         /\ mUncovered' = {g \in IndependentGoals : mCovered'[g] = NoTest}
         /\ mUncovered' \subseteq mUncovered
         /\ \A g \in IndependentGoals :
              \/ mCovered'[g] = mCovered[g]
              \/ mCovered'[g] \in M!Improving(mCovered, g, ts)
         /\ \A g \in mUncovered', t \in ts : ~M!IsCovered(t, g)
<1>1. mCovered \in [IndependentGoals -> Tests \cup {NoTest}] /\ mObjectives = IndependentGoals
      /\ mUncovered = {g \in IndependentGoals : mCovered[g] = NoTest}
  BY DEF ArchiveIsRight
<1>2. PICK d \in M!Updates(mCovered, IndependentGoals, ts) :
        /\ mCovered' = d /\ mObjectives' = mObjectives
        /\ mUncovered' = mUncovered \ M!Stored(mCovered, d)
  BY <1>1 DEF M!ShowToArchive
<1>3. /\ d \in [IndependentGoals -> Tests \cup {NoTest}]
      /\ \A g \in IndependentGoals :
           \/ d[g] = mCovered[g] /\ M!Improving(mCovered, g, ts) = {}
           \/ d[g] \in M!Improving(mCovered, g, ts)
  BY <1>1, <1>2, MOSAUpdatesEntry
<1>4. \A g \in IndependentGoals : M!Improving(mCovered, g, ts) \subseteq Tests
  BY DEF M!Improving
<1>5. mUncovered' = {g \in IndependentGoals : d[g] = NoTest}
  BY <1>1, <1>2, <1>3, <1>4, NoTestIsNoTest DEF M!Stored
<1>6. ASSUME NEW g \in mUncovered', NEW t \in ts PROVE ~M!IsCovered(t, g)
  <2>1. g \in IndependentGoals /\ d[g] = NoTest
    BY <1>5
  <2>2. M!Improving(mCovered, g, ts) = {} /\ mCovered[g] = NoTest
    BY <1>3, <1>4, <2>1, NoTestIsNoTest
  <2> QED
    BY <2>2 DEF M!Improving
<1> QED
  BY <1>1, <1>2, <1>3, <1>5, <1>6

LEMMA ShownStaysRight ==
  ASSUME ArchiveIsRight, NEW ts \in SUBSET Tests, M!ShowToArchive(ts)
  PROVE  \A g \in IndependentGoals : mCovered'[g] # NoTest => M!IsCovered(mCovered'[g], g)
<1> SUFFICES ASSUME NEW g \in IndependentGoals, mCovered'[g] # NoTest
             PROVE  M!IsCovered(mCovered'[g], g)
  OBVIOUS
<1>1. mCovered'[g] = mCovered[g] \/ mCovered'[g] \in M!Improving(mCovered, g, ts)
  BY ShownImproves
<1> QED
  BY <1>1 DEF ArchiveIsRight, M!Improving

(* Selection chooses among the tests that were ranked.                             *)
LEMMA SurvivorsWereRanked ==
  ASSUME NEW ts, NEW gs, NEW front \in M!ZeroFronts(ts, gs), NEW n,
         NEW p \in M!Survivors(ts, front, gs, n)
  PROVE  p \subseteq ts
<1>1. front \subseteq ts
  BY DEF M!ZeroFronts
<1> QED
  BY <1>1 DEF M!Survivors, M!LaterFronts, M!Truncations

LEMMA ArchiveStaysRight == ArchiveIsRight /\ (M!Next \/ UNCHANGED mVars) => ArchiveIsRight'
<1> SUFFICES ASSUME ArchiveIsRight, M!Next \/ UNCHANGED mVars PROVE ArchiveIsRight'
  OBVIOUS
<1>1. CASE M!RandomPopulation
  <2>1. PICK p \in M!RandomPopulations : mPopulation' = p /\ M!ShowToArchive(p)
    BY <1>1 DEF M!RandomPopulation
  <2>2. p \in SUBSET Tests /\ mOffspring' = mOffspring
    BY <1>1 DEF M!RandomPopulation, M!RandomPopulations
  <2> QED
    BY <2>1, <2>2, ShownImproves, ShownStaysRight DEF ArchiveIsRight
<1>2. CASE M!Select
  <2>1. PICK front \in M!ZeroFronts(mPopulation \cup mOffspring, mUncovered) :
          \E p \in M!Survivors(mPopulation \cup mOffspring, front, mUncovered, PopulationSize) :
            mPopulation' = p /\ M!ShowToArchive(p)
    BY <1>2 DEF M!Select
  <2>2. PICK p \in M!Survivors(mPopulation \cup mOffspring, front, mUncovered, PopulationSize) :
          mPopulation' = p /\ M!ShowToArchive(p)
    BY <2>1
  <2>3. p \in SUBSET Tests /\ mOffspring' = {}
    BY <1>2, <2>2, SurvivorsWereRanked DEF M!Select, ArchiveIsRight
  <2> QED
    BY <2>2, <2>3, ShownImproves, ShownStaysRight DEF ArchiveIsRight
<1>3. CASE M!Breed
  BY <1>3 DEF M!Breed, M!Generations, ArchiveIsRight
<1>4. CASE M!Finish \/ M!Returned \/ UNCHANGED mVars
  BY <1>4 DEF M!Finish, M!Returned, M!vars, mVars, ArchiveIsRight
<1> QED
  BY <1>1, <1>2, <1>3, <1>4 DEF M!Next

LEMMA ArchiveIsAlwaysRight == MCSpec => []ArchiveIsRight
<1>1. MCInit => ArchiveIsRight
  BY NoTestIsNoTest DEF MCInit, M!Init, ArchiveIsRight
<1>2. ArchiveIsRight /\ [MCNext]_<<algorithm, vars, mVars>> => ArchiveIsRight'
  BY ArchiveStaysRight DEF MCNext, DynaMOSAStep, MOSAStep
<1> QED
  BY <1>1, <1>2, PTL DEF MCSpec, MCNext

--------------------------------------------------------------------------------
(* As long as the first front fits into the population, no goal that a bred test    *)
(* covers stays uncovered (mosaalgorithm.py, evolve): the front holds a best test   *)
(* for it, which survives and is shown to the archive.                             *)
THEOREM FoundIsArchived == MCSpec => FoundMeansArchived
<1> DEFINE Fits == \A front \in M!ZeroFronts(mPopulation \cup mOffspring, mUncovered) :
                     M!Cardinality(front) <= PopulationSize
           Archived == mPc = "select" /\ Fits =>
                         M!CoveredBy(mPopulation \cup mOffspring, mUncovered') = {}
<1>1. ArchiveIsRight /\ [MCNext]_<<algorithm, vars, mVars>> => [Archived]_(M!vars)
  <2> SUFFICES ASSUME ArchiveIsRight, M!Next, mPc = "select", Fits,
                      NEW g \in mUncovered', NEW t \in mPopulation \cup mOffspring,
                      M!IsCovered(t, g)
               PROVE  FALSE
    BY DEF MCNext, DynaMOSAStep, MOSAStep, mVars, M!vars, M!CoveredBy
  <2> DEFINE union == mPopulation \cup mOffspring
  <2>1. M!Select
    BY DEF M!Next, M!RandomPopulation, M!Breed, M!Finish, M!Returned
  <2>2. PICK front \in M!ZeroFronts(union, mUncovered) :
          \E p \in M!Survivors(union, front, mUncovered, PopulationSize) : M!ShowToArchive(p)
    BY <2>1 DEF M!Select
  <2>3. PICK p \in M!Survivors(union, front, mUncovered, PopulationSize) : M!ShowToArchive(p)
    BY <2>2
  <2>4. M!Cardinality(front) <= PopulationSize
    BY <2>2
  <2> HIDE DEF Fits
  <2>5. union \in SUBSET Tests /\ t \in union
    BY DEF ArchiveIsRight
  <2> HIDE DEF union
  <2>6. p \in SUBSET Tests
    BY <2>3, <2>5, SurvivorsWereRanked
  <2>7. g \in mUncovered /\ g \in IndependentGoals /\ \A u \in p : ~M!IsCovered(u, g)
    BY <2>3, <2>6, ShownImproves
  <2>8. PICK b \in front : b \in M!Best(g, union)
    BY <2>2, <2>7 DEF M!ZeroFronts
  <2>9. front \subseteq p
    BY <2>3, <2>4, <2>8 DEF M!Survivors
  <2>10. M!IsCovered(b, g)
    BY <2>5, <2>7, <2>8, MOSABestCovers
  <2> QED
    BY <2>7, <2>8, <2>9, <2>10
<1> QED
  BY <1>1, ArchiveIsAlwaysRight, PTL DEF MCSpec, MCNext, FoundMeansArchived, M!FoundMeansArchived

(* A step that shows tests to the archive improves it, or leaves it as it is.       *)
LEMMA ShownIsImprovement ==
  ASSUME ArchiveIsRight, NEW ts \in SUBSET Tests, M!ShowToArchive(ts)
  PROVE  \A g \in IndependentGoals :
           mCovered'[g] # mCovered[g] => M!Promise!Improves(mCovered', g)
<1> SUFFICES ASSUME NEW g \in IndependentGoals, mCovered'[g] # mCovered[g]
             PROVE  M!Promise!Improves(mCovered', g)
  OBVIOUS
<1>1. mCovered'[g] \in M!Improving(mCovered, g, ts)
  BY ShownImproves
<1> QED
  BY <1>1 DEF M!Improving, M!Promise!Improves, M!IsCovered, M!Promise!IsCovered

(* The loop ends for want of goals only when the archive has a test for each.       *)
LEMMA NoGoalLeftMeansAllCovered ==
  ASSUME ArchiveIsRight, ~M!GoalsLeft
  PROVE  \A g \in IndependentGoals : mCovered[g] # NoTest
<1> DEFINE done == M!CoveredGoals(mCovered)
<1>1. done \subseteq IndependentGoals
  BY DEF M!CoveredGoals
<1>2. /\ IsFiniteSet(done) /\ Cardinality(done) \in Nat
      /\ Cardinality(IndependentGoals) \in Nat
      /\ Cardinality(done) = Cardinality(IndependentGoals) => done = IndependentGoals
  BY <1>1, IndependentGoalsFinite, FS_Subset, FS_CardinalityType
<1>3. Cardinality(IndependentGoals) - Cardinality(done) = 0
  BY DEF M!GoalsLeft, M!Cardinality, Cardinality
<1> HIDE DEF done
<1>4. done = IndependentGoals
  BY <1>2, <1>3
<1> QED
  BY <1>4 DEF done, M!CoveredGoals

(* MOSA implements the abstract search for tests: what shows tests to the archive   *)
(* improves, the end of the search finishes, every other step stutters.            *)
THEOREM MOSARefinement == MCSpec => MOSAImplementsTestSearch
<1> DEFINE verdict == IF mPc \in {"complete", "stopped"} THEN mPc ELSE "searching"
<1>1. MCInit => M!Promise!Init
  BY DEF MCInit, M!Init, M!Promise!Init
<1>2. ArchiveIsRight /\ [MCNext]_<<algorithm, vars, mVars>>
        => [M!Promise!Next]_<<mCovered, verdict>>
  <2> SUFFICES ASSUME ArchiveIsRight, M!Next
               PROVE  M!Promise!Next \/ UNCHANGED <<mCovered, verdict>>
    BY DEF MCNext, DynaMOSAStep, MOSAStep, mVars
  <2>1. ASSUME NEW ts \in SUBSET Tests, M!ShowToArchive(ts), mPc \in {"populate", "select"},
               mPc' = "check"
        PROVE  M!Promise!Next
    BY <2>1, ShownImproves, ShownIsImprovement DEF M!Promise!Next, M!Promise!Improve
  <2>2. CASE M!RandomPopulation
    BY <2>1, <2>2 DEF M!RandomPopulation, M!RandomPopulations
  <2>3. CASE M!Select
    <3>1. PICK front \in M!ZeroFronts(mPopulation \cup mOffspring, mUncovered) :
            \E p \in M!Survivors(mPopulation \cup mOffspring, front, mUncovered, PopulationSize) :
              M!ShowToArchive(p)
      BY <2>3 DEF M!Select
    <3>2. PICK p \in M!Survivors(mPopulation \cup mOffspring, front, mUncovered, PopulationSize) :
            M!ShowToArchive(p)
      BY <3>1
    <3>3. p \in SUBSET Tests
      BY <3>2, SurvivorsWereRanked DEF ArchiveIsRight
    <3> QED
      BY <2>1, <2>3, <3>2, <3>3 DEF M!Select
  <2>4. CASE M!Finish
    <3>1. mCovered' = mCovered /\ mPc = "check"
      BY <2>4 DEF M!Finish
    <3>2. CASE M!GoalsLeft
      BY <2>4, <3>1, <3>2 DEF M!Finish, M!Promise!Next, M!Promise!Finish
    <3>3. CASE ~M!GoalsLeft
      BY <2>4, <3>1, <3>3, NoGoalLeftMeansAllCovered
         DEF M!Finish, M!Promise!Next, M!Promise!Finish
    <3> QED
      BY <3>2, <3>3
  <2>5. CASE M!Breed \/ M!Returned
    BY <2>5 DEF M!Breed, M!Returned, M!vars
  <2> QED
    BY <2>2, <2>3, <2>4, <2>5 DEF M!Next
<1> QED
  BY <1>1, <1>2, ArchiveIsAlwaysRight, PTL
     DEF MCSpec, MCNext, MOSAImplementsTestSearch, M!ImplementsTestSearch, M!Promise!Spec
================================================================================
