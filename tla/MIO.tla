--------------------------------- MODULE MIO ---------------------------------
(* MIOAlgorithm and MIOArchive: a bounded population of tests for every target, *)
(* that is sampled from, and shrinks as the search uses up its budget.          *)
EXTENDS StoppingConditions, Sequences, SequencesExt

CONSTANTS
  Tests,        \* test cases, as they are after execution and chopping
  Targets,      \* the fitness functions
  H,            \* H[t][g]: how close the test is to the target, MaxH if it covers it
  MaxH,         \* stands for 1.0
  Size,         \* statements of a test
  Fails,        \* the tests that time out or raise
  NoTest,
  Initial,      \* configuration: the parameters n and m of the initial phase,
  Focused,      \* and of the focused one
  Defaults,     \* the parameters the algorithm starts with
  Exploitation, \* configuration: <<a, b>>, exploitation starts after a / b
  MaxIterations \* bound: iterations of the search

ASSUME HType == /\ MaxH \in Nat
                /\ H \in [Tests -> [Targets -> 0 .. MaxH]]
ASSUME ParametersType == /\ Initial.n \in Nat \ {0} /\ Initial.m \in Nat \ {0}
                         /\ Focused.n \in Nat \ {0} /\ Focused.m \in Nat \ {0}
                         /\ Defaults.n \in Nat \ {0} /\ Defaults.m \in Nat \ {0}
ASSUME NoTestIsNone == NoTest \notin Tests

VARIABLES
  archive,      \* a population for each target
  n, m,         \* the parameters
  explores,     \* whether the parameter Pr is positive
  focused,
  solution,     \* the test that is mutated, NoTest if there is none
  mutations,    \* how often it was
  counters,     \* what the stopping conditions know
  pc            \* where generate_tests stands

vars == <<archive, n, m, explores, focused, solution, mutations, counters, pc>>

Population(capacity) == [counter |-> 0, capacity |-> capacity, solutions |-> <<>>]

-----------------------------------------------------------------------------
(* MIOPopulation.                                                           *)

IsCovered(p, g) ==
  /\ Len(p.solutions) = 1 /\ p.capacity = 1
  /\ H[p.solutions[1]][g] = MaxH

\* _is_pair_better_than_current.
IsBetter(current, candidate, g) ==
  \/ H[current][g] < H[candidate][g]
  \/ /\ H[current][g] = H[candidate][g]
     /\ \/ current \in Fails /\ candidate \notin Fails
        \/ Size[candidate] <= Size[current]

\* From the best to the worst; the sort is stable.
Precedes(ts, g, k, j) ==
  H[ts[k]][g] > H[ts[j]][g] \/ (H[ts[k]][g] = H[ts[j]][g] /\ k <= j)
Rank(ts, g, j) == Cardinality({k \in DOMAIN ts : Precedes(ts, g, k, j)})
Sorted(ts, g) == [i \in DOMAIN ts |-> ts[CHOOSE j \in DOMAIN ts : Rank(ts, g, j) = i]]

Adds(p, t, g) ==
  /\ H[t][g] > 0
  /\ IF H[t][g] = MaxH
     THEN IsCovered(p, g) => IsBetter(p.solutions[1], t, g)
     ELSE /\ ~IsCovered(p, g)
          /\ \/ Len(p.solutions) < p.capacity
             \/ IsBetter(p.solutions[Len(p.solutions)], t, g)

Room(p) == IF Len(p.solutions) < p.capacity THEN p.solutions ELSE Front(p.solutions)

\* A slip: the population of a covered target keeps its capacity.
WithCapacityKept(p, t, g) ==
  IF H[t][g] = MaxH
  THEN [p EXCEPT !.counter = 0, !.solutions = <<t>>]
  ELSE [p EXCEPT !.counter = 0, !.solutions = Sorted(Append(Room(p), t), g)]

\* add_solution, when the test is added.
With(p, t, g) ==
  IF H[t][g] = MaxH
  THEN [counter |-> 0, capacity |-> 1, solutions |-> <<t>>]
  ELSE [p EXCEPT !.counter = 0, !.solutions = Sorted(Append(Room(p), t), g)]

\* shrink_population.
Shrunk(p, size, g) ==
  IF IsCovered(p, g) THEN p
  ELSE [p EXCEPT !.capacity = size,
                 !.solutions = SubSeq(@, 1, IF size < Len(@) THEN size ELSE Len(@))]

-----------------------------------------------------------------------------
(* MIOArchive.                                                              *)

Updated(a, t) == [g \in Targets |-> IF Adds(a[g], t, g) THEN With(a[g], t, g) ELSE a[g]]

Covered(a) == {g \in Targets : IsCovered(a[g], g)}

Best(a) == {a[g].solutions[1] : g \in Covered(a)}

\* The targets get_solution may sample from: uncovered ones if possible, and of
\* those the ones sampled least since they improved.
Candidates(a) ==
  LET known == {g \in Targets : a[g].solutions # <<>>}
      open  == IF known \subseteq Covered(a) THEN known ELSE known \ Covered(a)
  IN  {g \in open : \A h \in open : a[g].counter <= a[h].counter}

-----------------------------------------------------------------------------
(* MIOAlgorithm.                                                            *)

Init ==
  /\ archive = [g \in Targets |-> Population(Initial.n)]
  /\ n = Defaults.n /\ m = Defaults.m
  /\ focused = FALSE
  /\ explores = TRUE
  /\ solution = NoTest /\ mutations = 0
  /\ counters = Fresh
  /\ pc = "check"

\* The condition of the loop in generate_tests.
Check ==
  /\ pc = "check"
  /\ pc' = IF ResourcesLeft(counters) /\ Covered(archive) # Targets THEN "evolve" ELSE "finished"
  /\ UNCHANGED <<archive, n, m, focused, explores, solution, mutations, counters>>

\* The offspring is offered to the archive a.
Offer(a, t) ==
  /\ archive' = Updated(a, t)
  /\ solution' = IF \E g \in Targets : Adds(a[g], t, g) THEN t ELSE solution

Executed(t) == counters' = AfterTest(counters, Size[t])

\* evolve mutates the last test that improved something; a mutation that changes
\* nothing is not executed ...
EvolveFurther ==
  /\ pc = "evolve"
  /\ solution # NoTest /\ mutations < m
  /\ \/ \E t \in Tests : Offer(archive, t) /\ Executed(t)
     \/ Offer(archive, solution) /\ UNCHANGED counters
  /\ mutations' = mutations + 1
  /\ pc' = "parameters"
  /\ UNCHANGED <<n, m, focused, explores>>

\* ... or a new test is made ...
EvolveRandom ==
  /\ pc = "evolve"
  /\ solution = NoTest \/ mutations >= m
  /\ explores \/ Candidates(archive) = {}
  /\ \E t \in Tests : Offer(archive, t) /\ Executed(t)
  /\ mutations' = 1
  /\ pc' = "parameters"
  /\ UNCHANGED <<n, m, focused, explores>>

\* ... or a test of the archive is sampled and mutated.
EvolveSampled ==
  /\ pc = "evolve"
  /\ solution = NoTest \/ mutations >= m
  /\ \E g \in Candidates(archive) :
       LET a == [archive EXCEPT ![g].counter = @ + 1]
       IN  \/ \E t \in Tests : Offer(a, t) /\ Executed(t)
           \/ \E i \in DOMAIN archive[g].solutions :
                Offer(a, archive[g].solutions[i]) /\ UNCHANGED counters
  /\ mutations' = 1
  /\ pc' = "parameters"
  /\ UNCHANGED <<n, m, focused, explores>>

\* _scale, rounded up: the share of the way to exploitation is num / den.
Scaled(from, to, num, den) == -((-(from * den + (to - from) * num)) \div den)

\* Parameters.is_valid, asserted below: no search stops there.
IsValid(new) == new.n \in Nat \ {0} /\ new.m \in Nat \ {0}

\* _update_parameters.
UpdateParameters ==
  /\ pc = "parameters"
  /\ LET p   == Progress(counters)
         num == p[1] * Exploitation[2]
         den == p[2] * Exploitation[1]
         new == IF focused THEN [n |-> n, m |-> m]
                ELSE IF num > den THEN Focused
                ELSE [n |-> Scaled(Initial.n, Focused.n, num, den),
                      m |-> Scaled(Initial.m, Focused.m, num, den)]
     IN  /\ IsValid(new)
         /\ n' = new.n /\ m' = new.m
         /\ focused' = (focused \/ num > den)
         /\ explores' = IF focused THEN explores ELSE num < den
         /\ archive' = IF new.n = n THEN archive
                       ELSE [g \in Targets |-> Shrunk(archive[g], new.n, g)]
  /\ pc' = "report"
  /\ UNCHANGED <<solution, mutations, counters>>

\* after_search_iteration, for the suite of the best tests.
Report ==
  /\ pc = "report" /\ counters.iterations < MaxIterations
  /\ LET covered == {g \in Targets : \E t \in Best(archive) : H[t][g] = MaxH}
     IN  counters' = AfterIteration(counters, (Cardinality(covered) * Scale) \div Cardinality(Targets))
  /\ pc' = "check"
  /\ UNCHANGED <<archive, n, m, focused, explores, solution, mutations>>

Finished ==
  /\ pc = "finished" \/ (pc = "report" /\ counters.iterations = MaxIterations)
  /\ UNCHANGED vars

Next ==
  \/ Check \/ EvolveFurther \/ EvolveRandom \/ EvolveSampled
  \/ UpdateParameters \/ Report \/ Finished

Spec == Init /\ [][Next]_vars

-----------------------------------------------------------------------------
(* Properties.                                                             *)

\* A population stays within its capacity and sorted; a test that covers the
\* target is the only one, in a population that holds no other from then on:
\* otherwise the target would not count as covered.
IsOrdered(p, g) ==
  /\ Len(p.solutions) <= p.capacity
  /\ \A i, j \in DOMAIN p.solutions :
       i < j => H[p.solutions[i]][g] >= H[p.solutions[j]][g]
  /\ \A i \in DOMAIN p.solutions :
       /\ H[p.solutions[i]][g] > 0
       /\ H[p.solutions[i]][g] = MaxH => IsCovered(p, g)
PopulationsAreOrdered == \A g \in Targets : IsOrdered(archive[g], g)

\* What the archive has come closest to a target with is never lost: not to a
\* new test, and not when populations shrink.
BestIsKept ==
  [][\A g \in Targets :
       archive[g].solutions # <<>> =>
         /\ archive'[g].solutions # <<>>
         /\ H[archive'[g].solutions[1]][g] >= H[archive[g].solutions[1]][g]]_vars

\* The archive and the algorithm agree on the number of tests per target: each
\* uncovered target has room for n of them.  Only a search whose n has its default
\* value may still have the populations that it started with.
CapacityIsN ==
  \A g \in Targets \ Covered(archive) :
    \/ archive[g].capacity = n
    \/ n = Defaults.n /\ archive[g].capacity = Initial.n

\* What is sampled from is what the parameters of the search ask for: ordered
\* populations, of the capacity that the algorithm believes them to have.
PopulationsAreSound == PopulationsAreOrdered /\ CapacityIsN
=============================================================================
