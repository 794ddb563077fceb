------------------------------ MODULE SuiteSearch ------------------------------
(* The searches that judge whole test suites: the whole-suite algorithm with and   *)
(* without an archive, Randoop's random algorithm, and the random searches for      *)
(* suites and for test cases.  A suite is the set of its tests.  Crossover,          *)
(* mutation and the factories may give any suite; when they fail, nothing changes.  *)
EXTENDS CoverageArchive, Sequences, FiniteSetsExt

CONSTANTS Suites,      \* test suites that can be created
          PopulationSize, \* search_algorithm.population
          Elite,       \* search_algorithm.elite
          Worst,       \* fitness for a goal that no test comes near
          Raising,     \* tests that raise when they are executed
          TimingOut    \* tests whose execution times out

(* What the configuration and the program take for granted.                        *)
ConstantsType ==
  /\ Suites \subseteq SUBSET Tests
  /\ Elite \in Nat /\ PopulationSize \in Nat \ {0} /\ 0 < Elite /\ Elite <= PopulationSize
  /\ Worst \in Nat \ {0}
  /\ IsFiniteSet(Goals) /\ NoTest \notin Tests
  /\ Fitness \in [Tests -> [Goals -> 0 .. Worst]]
  /\ Raising \cup TimingOut \subseteq Tests

VARIABLES algorithm,   \* the configured algorithm; use_archive is part of it
          pc,          \* where generate_tests is
          solution,    \* the suite it reports after every iteration
          excluded,    \* goals that the suite fitness functions no longer consider
          population,  \* _population: suites with the fitness in their cache, best first
          generation,  \* new_generation, while evolve fills it
          passing,     \* the random algorithm's test_chromosome
          failing      \* and its failing_test_chromosome

vars == <<archiveVars, algorithm, pc, solution, excluded, population, generation,
          passing, failing>>

WithArchive == {"WHOLE_SUITE_ARCHIVE", "RANDOM_TEST_CASE_SEARCH"}

Init ==
  /\ covered = [g \in Goals |-> NoTest] /\ uncovered = Goals /\ objectives = Goals
  /\ algorithm \in WithArchive \cup {"WHOLE_SUITE", "RANDOM", "RANDOM_TEST_SUITE_SEARCH"}
  /\ pc = "new"
  /\ solution = {} /\ excluded = {}
  /\ population = <<>> /\ generation = <<>>
  /\ passing = {} /\ failing = {}
--------------------------------------------------------------------------------
(* The fitness of a suite: what its best tests miss of the considered goals, a sum   *)
(* that is counted here.                                                           *)
Distance(suite, g) ==
  IF suite = {} THEN Worst ELSE Min({Fitness[t][g] : t \in suite})
SuiteFitness(suite, ex) ==
  Cardinality({p \in (Goals \ ex) \X (1 .. Worst) : p[2] <= Distance(suite, p[1])})
Length(suite) == MapThenSumSet(LAMBDA t : Size[t], suite)

(* A suite and its fitness once it has been asked for.                             *)
Evaluated(suite, ex) == [suite |-> suite, fitness |-> SuiteFitness(suite, ex)]

(* The best suite first; the sort is stable.                                       *)
Precedes(pop, k, j) ==
  pop[k].fitness < pop[j].fitness \/ (pop[k].fitness = pop[j].fitness /\ k <= j)
Rank(pop, j) == Cardinality({k \in DOMAIN pop : Precedes(pop, k, j)})
Sorted(pop) == [i \in DOMAIN pop |-> pop[CHOOSE j \in DOMAIN pop : Rank(pop, j) = i]]

UpdateArchive(tests) ==
  /\ covered' \in Updates(covered, objectives, tests)
  /\ uncovered' = uncovered \ Stored(covered, covered')
  /\ UNCHANGED objectives

(* A slip: the fitness in the caches is kept.                                       *)
RecomputedNever(pop, ex) == pop

(* The caches are invalidated when the fitness functions are restricted, and filled  *)
(* again by sorting.                                                                *)
Recomputed(pop, ex) == [i \in DOMAIN pop |-> Evaluated(pop[i].suite, ex)]

(* Update the archive, exclude what is newly covered, sort, report the solution.    *)
Replace(pop) ==
  IF algorithm = "WHOLE_SUITE_ARCHIVE"
  THEN /\ UpdateArchive(UNION {pop[i].suite : i \in DOMAIN pop})
       /\ IF uncovered' = uncovered
          THEN excluded' = excluded /\ population' = Sorted(pop)
          ELSE /\ excluded' = excluded \cup CoveredGoals(covered')
               /\ population' = Sorted(Recomputed(pop, excluded'))
       /\ solution' = Solutions(covered')
  ELSE /\ population' = Sorted(pop)
       /\ solution' = population'[1].suite
       /\ UNCHANGED <<archiveVars, excluded>>

IsWholeSuite == algorithm \in {"WHOLE_SUITE", "WHOLE_SUITE_ARCHIVE"}

StartWholeSuite ==
  /\ pc = "new" /\ IsWholeSuite
  /\ \E pop \in [1 .. PopulationSize -> Suites] :
       Replace([i \in 1 .. PopulationSize |-> Evaluated(pop[i], {})])
  /\ pc' = "search"
  /\ UNCHANGED <<algorithm, generation, passing, failing>>

(* The loop goes on while there are resources and the solution can get better.      *)
GoesOn == pc = "search" /\ SuiteFitness(solution, excluded) # 0

(* A slip: the best suites are not copied.                                          *)
NoElitism == <<>>

Elitism == SubSeq(population, 1, Elite)

Evolve ==
  /\ GoesOn /\ IsWholeSuite
  /\ generation' = Elitism
  /\ pc' = "breed"
  /\ UNCHANGED <<archiveVars, algorithm, solution, excluded, population, passing, failing>>

(* Offspring replace their parents when the better one is at least as good and the  *)
(* two are not longer; one that is too long is replaced by either parent.           *)
Preferred(offspring, parents) ==
  LET best(s) == Min({s[1].fitness, s[2].fitness})
      length(s) == Length(s[1].suite) + Length(s[2].suite)
  IN \/ best(offspring) < best(parents)
     \/ best(offspring) = best(parents) /\ length(offspring) <= length(parents)

Kept(offspring, parents) ==
  IF Length(offspring.suite) <= 2 * Length(population[1].suite)
  THEN {offspring}
  ELSE {parents[1], parents[2]}

Breed ==
  /\ pc = "breed" /\ Len(generation) < PopulationSize
  /\ \E i, j \in DOMAIN population, s, t \in Suites :
       LET parents == <<population[i], population[j]>>
           offspring == <<Evaluated(s, excluded), Evaluated(t, excluded)>>
       IN IF Preferred(offspring, parents)
          THEN \E a \in Kept(offspring[1], parents), b \in Kept(offspring[2], parents) :
                 generation' = generation \o <<a, b>>
          ELSE generation' = generation \o parents
  /\ UNCHANGED <<archiveVars, algorithm, pc, solution, excluded, population, passing, failing>>

NextGeneration ==
  /\ pc = "breed" /\ Len(generation) >= PopulationSize
  /\ Replace(generation)
  /\ generation' = <<>>
  /\ pc' = "search"
  /\ UNCHANGED <<algorithm, passing, failing>>
--------------------------------------------------------------------------------
(* The random algorithm starts with no tests and builds on passing ones; a test that *)
(* it has already, or that times out, is dropped.                                   *)
StartRandom ==
  /\ pc = "new" /\ algorithm = "RANDOM"
  /\ pc' = "search"
  /\ UNCHANGED <<archiveVars, algorithm, solution, excluded, population, generation,
                 passing, failing>>

GenerateSequence ==
  /\ GoesOn /\ algorithm = "RANDOM"
  /\ \E t \in Tests \ (passing \cup failing \cup TimingOut) :
       IF t \in Raising
       THEN failing' = failing \cup {t} /\ UNCHANGED passing
       ELSE passing' = passing \cup {t} /\ UNCHANGED failing
  /\ solution' = passing' \cup failing'
  /\ UNCHANGED <<archiveVars, algorithm, pc, excluded, population, generation>>

(* The random search for suites keeps the better of two.                           *)
StartTestSuiteSearch ==
  /\ pc = "new" /\ algorithm = "RANDOM_TEST_SUITE_SEARCH"
  /\ solution' \in Suites
  /\ pc' = "search"
  /\ UNCHANGED <<archiveVars, algorithm, excluded, population, generation, passing, failing>>

SearchTestSuite ==
  /\ GoesOn /\ algorithm = "RANDOM_TEST_SUITE_SEARCH"
  /\ \E candidate \in Suites :
       /\ SuiteFitness(candidate, excluded) < SuiteFitness(solution, excluded)
       /\ solution' = candidate
  /\ UNCHANGED <<archiveVars, algorithm, pc, excluded, population, generation, passing, failing>>

(* The random search for tests reports what its archive holds.                      *)
SearchTestCase ==
  /\ pc = "new" \/ GoesOn
  /\ algorithm = "RANDOM_TEST_CASE_SEARCH"
  /\ \E candidate \in Tests : UpdateArchive({candidate})
  /\ solution' = Solutions(covered')
  /\ pc' = "search"
  /\ UNCHANGED <<algorithm, excluded, population, generation, passing, failing>>

(* Every search ends when it is complete or has used up its resources.             *)
Complete ==
  /\ pc = "search" /\ SuiteFitness(solution, excluded) = 0
  /\ pc' = "complete"
  /\ UNCHANGED <<archiveVars, algorithm, solution, excluded, population, generation,
                 passing, failing>>

OutOfResources ==
  /\ pc = "search"
  /\ pc' = "stopped"
  /\ UNCHANGED <<archiveVars, algorithm, solution, excluded, population, generation,
                 passing, failing>>

Finished == pc \in {"complete", "stopped"} /\ UNCHANGED vars

Next ==
  \/ StartWholeSuite \/ Evolve \/ Breed \/ NextGeneration
  \/ StartRandom \/ GenerateSequence
  \/ StartTestSuiteSearch \/ SearchTestSuite
  \/ SearchTestCase
  \/ Complete \/ OutOfResources \/ Finished

Spec == Init /\ [][Next]_vars
--------------------------------------------------------------------------------
CoveredBySolution == CoveredBy(solution, Goals)

(* The population is ranked by what its suites are worth now, restricted fitness     *)
(* functions included; a search is complete only with a test for every goal; and      *)
(* the random algorithm keeps no test that timed out and builds on none that raises. *)
SuitesAreSound ==
  /\ ArchiveType
  /\ Len(population) <= PopulationSize + 1 /\ Len(generation) <= PopulationSize + 1
  /\ \A i, j \in DOMAIN population : i <= j =>
       SuiteFitness(population[i].suite, excluded) <= SuiteFitness(population[j].suite, excluded)
  /\ excluded \subseteq CoveredBySolution
  /\ pc = "complete" => CoveredBySolution = Goals
  /\ (passing \cup failing) \cap TimingOut = {} /\ passing \cap Raising = {}

(* What is reported never falls back: with an archive, no goal that the solution      *)
(* covers is lost again, though its fitness may get worse when a test is exchanged    *)
(* for a shorter one; without one, the fitness never gets worse, though the best      *)
(* suite may cover less than the one before.                                        *)
NeverFallsBack ==
  algorithm' = algorithm /\ pc \in {"search", "breed"} =>
    IF algorithm \in WithArchive
    THEN CoveredBySolution \subseteq CoveredBy(solution', Goals)
    ELSE SuiteFitness(solution', {}) <= SuiteFitness(solution, {})
ReportsNeverFallBack == [][NeverFallsBack]_vars
================================================================================
