----------------------------- MODULE AbstractMOSA -----------------------------
(* What MOSA and DynaMOSA share (ga/algorithms/abstractmosaalgorithm.py): how a    *)
(* first population and a generation of offspring come about.                      *)
EXTENDS CoverageArchive, Ranking

CONSTANTS PopulationSize, \* configuration: search_algorithm.population
          MaxOffspring    \* tests that one generation breeds at most

ASSUME PopulationSizeType == PopulationSize \in Nat \ {0}
ASSUME MaxOffspringType == MaxOffspring \in Nat

(* _get_random_population: equal tests may be drawn more than once.               *)
RandomPopulations == {p \in SUBSET Tests : p # {} /\ Cardinality(p) <= PopulationSize}

(* _breed_next_generation: a clone of any test can mutate into any other, or a new *)
(* one is drawn; empty tests are left out.                                        *)
Generations ==
  {o \in SUBSET Tests : Cardinality(o) <= MaxOffspring /\ \A t \in o : Size[t] > 0}
================================================================================
