-------------------------------- MODULE DynaMOSA --------------------------------
(* DynaMOSA (ga/algorithms/dynamosaalgorithm.py): a population of tests evolves   *)
(* towards the goals that the goals manager has activated.  A goal is activated   *)
(* when a goal it depends on structurally has been covered, so the search works   *)
(* on a frontier of the control-dependence graph and decides from the archive     *)
(* alone whether anything is left to cover.                                       *)
EXTENDS AbstractMOSA

CONSTANTS Roots,         \* goals that no branch guards
          Children       \* Children[g]: goals control dependent on g

ASSUME GoalsFinite == IsFiniteSet(Goals)
ASSUME RootsType == Roots \subseteq Goals
ASSUME ChildrenType == Children \in [Goals -> SUBSET Goals]

(* Every goal is reachable from the roots in the control-dependence graph: a set  *)
(* that holds the roots and the children of its members holds every goal.  The    *)
(* code asserts less (a goal without predecessors is a root); a control-dependence*)
(* graph of a code object gives it, its entry reaches every predicate.            *)
ASSUME GraphIsRooted ==
  \A S \in SUBSET Goals :
    Roots \subseteq S /\ (\A g \in S : Children[g] \subseteq S) => S = Goals

VARIABLES pc,          \* what generate_tests does next
          population,  \* _population
          offspring,   \* offspring_population, while evolve ranks the union
          current      \* _goals_manager._current_goals

vars == <<covered, uncovered, objectives, pc, population, offspring, current>>

(* The archive starts empty and _GoalsManager registers the root branches in it.  *)
Init ==
  /\ covered = [g \in Goals |-> NoTest]
  /\ objectives = Roots
  /\ uncovered = Roots
  /\ current = Roots
  /\ population = {}
  /\ offspring = {}
  /\ pc = "populate"

RandomPopulation ==
  /\ pc = "populate"
  /\ population' \in RandomPopulations
  /\ pc' = "update"
  /\ UNCHANGED <<covered, uncovered, objectives, current, offspring>>

(* Slips of the goals manager: a child waits for all goals it depends on; a child  *)
(* is activated again although it is covered.                                     *)
NewGoalsOfAllParents(done) ==
  {c \in Goals \ (current \cup done) :
     /\ \E g \in current \cap done : c \in Children[g]
     /\ \A g \in Goals : c \in Children[g] => g \in done}

NewGoalsAgain(done) == UNION {Children[g] : g \in current \cap done}

(* The structural children of the current goals that the archive has covered,    *)
(* unless they are current or covered themselves.                                 *)
NewGoals(done) == (UNION {Children[g] : g \in current \cap done}) \ (current \cup done)

NextGoals(done) == (current \ done) \cup NewGoals(done)

(* A slip: the manager updates the archive only once.                              *)
NoOtherRound(done) == FALSE

AnotherRound(done) == NewGoals(done) # {}

(* One round of _GoalsManager.update: show the population to the archive, replace *)
(* every covered goal by its new children, register them in the archive, and go   *)
(* round again as long as there are new ones.                                     *)
UpdateRound ==
  /\ pc = "update"
  /\ \E d \in Updates(covered, objectives, population) :
       LET goals == NextGoals(CoveredGoals(d))
       IN /\ covered' = d
          /\ current' = goals
          /\ uncovered' = (uncovered \ Stored(covered, d)) \cup (goals \ objectives)
          /\ objectives' = objectives \cup goals
          /\ pc' = IF AnotherRound(CoveredGoals(d)) THEN "update" ELSE "check"
  /\ UNCHANGED <<population, offspring>>

(* The search goes on while resources are left and the archive has an uncovered   *)
(* goal; evolve breeds first.                                                     *)
Breed ==
  /\ pc = "check"
  /\ uncovered # {}
  /\ offspring' \in Generations
  /\ pc' = "select"
  /\ UNCHANGED <<covered, uncovered, objectives, population, current>>

(* A slip: a first front that is larger than the population is cut.                *)
RemainConfigured(front) == PopulationSize

(* The first front always stays, even when it is larger than the population.      *)
Remain(front) ==
  IF Cardinality(front) > PopulationSize THEN Cardinality(front) ELSE PopulationSize

(* The rest of evolve: rank parents and offspring by the current goals and    *)
(* keep the best fronts.                                                          *)
Select ==
  /\ pc = "select"
  /\ \E front \in ZeroFronts(population \cup offspring, current) :
       population' \in Survivors(population \cup offspring, front, current, Remain(front))
  /\ offspring' = {}
  /\ pc' = "update"
  /\ UNCHANGED <<covered, uncovered, objectives, current>>

(* The search ends because nothing is left to cover, or because a stopping        *)
(* condition is fulfilled, which may happen after any iteration.                  *)
AllCovered ==
  /\ pc = "check"
  /\ uncovered = {}
  /\ pc' = "complete"
  /\ UNCHANGED <<covered, uncovered, objectives, population, offspring, current>>

ResourcesExhausted ==
  /\ pc = "check"
  /\ uncovered # {}
  /\ pc' = "stopped"
  /\ UNCHANGED <<covered, uncovered, objectives, population, offspring, current>>

(* generate_tests has returned.                                                   *)
Returned ==
  /\ pc \in {"complete", "stopped"}
  /\ UNCHANGED vars

Next ==
  \/ RandomPopulation
  \/ UpdateRound
  \/ Breed
  \/ Select
  \/ AllCovered
  \/ ResourcesExhausted
  \/ Returned

(* The algorithm is one thread; each of its own steps is eventually taken.        *)
Spec == Init /\ [][Next]_vars /\ WF_vars(Next)
--------------------------------------------------------------------------------
TypeOK ==
  /\ ArchiveType
  /\ pc \in {"populate", "update", "check", "select", "complete", "stopped"}
  /\ population \subseteq Tests
  /\ offspring \subseteq Tests
  /\ current \subseteq Goals

(* Every archived test covers its goal (the assertion of the solutions property), *)
(* and the objectives are split into covered and uncovered ones: _covered,        *)
(* _uncovered and _objectives are three containers that update and add_goals      *)
(* change one by one.                                                             *)
ArchiveConsistent ==
  /\ \A g \in CoveredGoals(covered) : IsCovered(covered[g], g)
  /\ uncovered = objectives \ CoveredGoals(covered)
  /\ CoveredGoals(covered) \subseteq objectives

(* The manager's goals are the archive's uncovered goals: the loop of the search   *)
(* tests the one and the ranking uses the other.                                  *)
FrontierIsUncovered == current = uncovered

(* No goal is left behind: the children of a covered goal are objectives, so are   *)
(* the roots.                                                                     *)
FrontierIsClosed ==
  /\ Roots \subseteq objectives
  /\ \A g \in CoveredGoals(covered) : Children[g] \subseteq objectives

(* The goals of the ranking are those the loop waits for, and none is left out.    *)
FrontierIsRight == FrontierIsUncovered /\ FrontierIsClosed

(* The search reports that nothing is left to cover only when every goal of the    *)
(* module under test, activated or not, has a covering test in the archive.       *)
CompleteMeansAllCovered ==
  pc = "complete" => CoveredGoals(covered) = Goals

(* The search always has individuals to select parents from, and the preference    *)
(* criterion finds a best test for every goal ("assert best is not None").        *)
PopulationNeverEmpty ==
  pc # "populate" => population # {}

(* The goals that a bred test covers reach the archive: when the union holds a     *)
(* test for a goal that is searched for, the next population holds one, and only   *)
(* the population is shown to the archive.                                        *)
SelectionKeepsCoverage ==
  [][pc = "select" =>
       CoveredBy(population \cup offspring, current) \subseteq CoveredBy(population', current)]_vars

(* What the population covers is not searched for: the rounds of the update go on  *)
(* until the population has been shown to the archive with every goal it          *)
(* activated.                                                                     *)
PopulationIsArchived ==
  pc \in {"check", "select"} => CoveredBy(population, uncovered) = {}

(* What has been covered stays covered, and an archived test is replaced only by a *)
(* strictly shorter one.                                                          *)
ArchiveOnlyImproves ==
  [][\A g \in CoveredGoals(covered) :
       covered'[g] # covered[g] => covered'[g] # NoTest /\ Size[covered'[g]] < Size[covered[g]]]_covered

(* The update loop of the goals manager ends: every further round activates goals  *)
(* that were not objectives before.                                               *)
UpdateEnds == pc = "update" ~> pc = "check"

(* DynaMOSA implements the promise of a test search.                              *)
Promise == INSTANCE TestSearch WITH
             best <- covered,
             verdict <- IF pc \in {"complete", "stopped"} THEN pc ELSE "searching"

ImplementsTestSearch == Promise!Spec
================================================================================
