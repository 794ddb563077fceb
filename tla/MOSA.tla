---------------------------------- MODULE MOSA ----------------------------------
(* MOSA (ga/algorithms/mosaalgorithm.py): every goal is an objective from the      *)
(* start, and selection never lets the population grow.                            *)
EXTENDS AbstractMOSA

VARIABLES pc,          \* what generate_tests does next
          population,  \* _population
          offspring    \* offspring_population, while evolve ranks the union

vars == <<covered, uncovered, objectives, pc, population, offspring>>

Init ==
  /\ covered = [g \in Goals |-> NoTest]
  /\ objectives = Goals
  /\ uncovered = Goals
  /\ population = {}
  /\ offspring = {}
  /\ pc = "populate"

(* archive.update(population), the last step of the initialisation and of evolve.  *)
ShowToArchive(tests) ==
  \E d \in Updates(covered, objectives, tests) :
    /\ covered' = d
    /\ uncovered' = uncovered \ Stored(covered, d)
    /\ UNCHANGED objectives

RandomPopulation ==
  /\ pc = "populate"
  /\ \E p \in RandomPopulations :
       /\ population' = p
       /\ ShowToArchive(p)
  /\ pc' = "check"
  /\ UNCHANGED offspring

(* A slip: the last goal is not waited for.                                        *)
MoreThanOneGoalLeft == Cardinality(Goals) - Cardinality(CoveredGoals(covered)) > 1

(* The loop compares the number of goals with the number of covered ones.          *)
GoalsLeft == Cardinality(Goals) - Cardinality(CoveredGoals(covered)) # 0

Breed ==
  /\ pc = "check"
  /\ GoalsLeft
  /\ offspring' \in Generations
  /\ pc' = "select"
  /\ UNCHANGED <<covered, uncovered, objectives, population>>

(* A slip: the archive sees the generation before.                                 *)
SelectForNextTime ==
  /\ pc = "select"
  /\ \E front \in ZeroFronts(population \cup offspring, uncovered) :
       population' \in Survivors(population \cup offspring, front, uncovered, PopulationSize)
  /\ ShowToArchive(population)
  /\ offspring' = {}
  /\ pc' = "check"

(* The population keeps its length: a first front that is longer is cut.           *)
Select ==
  /\ pc = "select"
  /\ \E front \in ZeroFronts(population \cup offspring, uncovered) :
       \E p \in Survivors(population \cup offspring, front, uncovered, PopulationSize) :
         /\ population' = p
         /\ ShowToArchive(p)
  /\ offspring' = {}
  /\ pc' = "check"

Finish ==
  /\ pc = "check"
  /\ pc' = IF GoalsLeft THEN "stopped" ELSE "complete"
  /\ UNCHANGED <<covered, uncovered, objectives, population, offspring>>

Returned ==
  /\ pc \in {"complete", "stopped"}
  /\ UNCHANGED vars

Next == RandomPopulation \/ Breed \/ Select \/ Finish \/ Returned

Spec == Init /\ [][Next]_vars
--------------------------------------------------------------------------------

(* The archive "is used to store the shortest covering test cases found so far"     *)
(* (archive.py), but is only shown the tests that survive.  As long as the first    *)
(* front fits into the population, no goal that a bred test covers stays uncovered. *)
FoundMeansArchived ==
  [][(pc = "select" /\ \A front \in ZeroFronts(population \cup offspring, uncovered) :
                          Cardinality(front) <= PopulationSize)
       => CoveredBy(population \cup offspring, uncovered') = {}]_vars

(* MOSA implements the promise of a test search.                                   *)
Promise == INSTANCE TestSearch WITH
             best <- covered,
             verdict <- IF pc \in {"complete", "stopped"} THEN pc ELSE "searching"

ImplementsTestSearch == Promise!Spec
================================================================================
