---------------------------- MODULE BranchFitness ----------------------------
(***************************************************************************)
(* What the search is told about a test: an instrumented code object is    *)
(* executed, the tracer records how far each predicate was from either of  *)
(* its branches, and the fitness functions read that record along the      *)
(* control-dependence graph (ExecutionTrace, computations.py,              *)
(* coveragegoals.py, controlflowdistance.py).                              *)
(***************************************************************************)
EXTENDS ControlFlow, Sequences, FiniteSetsExt

CONSTANTS
  Codes,       \* the code objects that are looked at
  Distances,   \* the distances from zero that a branch that is not taken can have
  Unit,       \* the unit of distances: so many are 1.0
  Close,       \* a distance below it counts as zero where goals are covered
  MaxSteps,    \* bound: blocks that the import and the tests execute
  MaxTests     \* bound: tests

Inf == 1000

\* Of the two distances of a predicate the tracer asserts that exactly one is zero.
ConstantsType ==
  /\ \A c \in Codes : /\ IsFiniteSet(DOMAIN c) /\ c \in CodeObjects(Cardinality(DOMAIN c) - 1)
                     /\ Exit \notin DOMAIN c
  /\ Distances \subseteq 1..Inf
  /\ Unit \in Nat \ {0} /\ Close \in 1..Inf

Plus(d, e) == IF Inf \in {d, e} THEN Inf ELSE d + e
Least(d, e) == IF d <= e THEN d ELSE e

VARIABLES
  code,        \* the code object under test
  meta,        \* what the instrumentation registered of it
  at,          \* the block that is executed next, or Outside
  handlers,    \* exception handlers of the blocks entered, innermost first
  steps,       \* blocks executed
  trace,       \* the trace of the running test
  imported,    \* the trace of the import, empty until there is one
  results,     \* the traces of the tests that ended
  taken,       \* history: the branches this test (with the import) took
  near         \* history: the branches that it missed by less than Close

vars == <<code, meta, at, handlers, steps, trace, imported, results, taken, near>>

Outside == -2
-----------------------------------------------------------------------------
(***************************************************************************)
(* Instrumentation registers the graph and its predicates.                 *)
(***************************************************************************)
\* The length of a shortest path, or Inf.
PathLength(G, n, m) ==
    LET longest == Cardinality(G.nodes)
        Within[k \in 0..longest] ==
          IF k = 0 THEN {n} ELSE Within[k - 1] \cup UNION {Successors(G, l) : l \in Within[k - 1]}
        lengths == {k \in 1..longest : m \in Within[k]}
    IN  IF n = m THEN 0 ELSE IF lengths = {} THEN Inf ELSE Min(lengths)

Metadata(c, cdg) ==
    LET predicates == PredicatesOf(c)
    IN  [cdg |-> cdg, predicates |-> predicates, diameter |-> Diameter(c),
         level |-> [pair \in predicates \X predicates |-> PathLength(cdg, pair[1], pair[2])]]

\* A code object counts as branch-less until a predicate of it is registered.
BranchLess == meta.predicates = {}

\* The goals of the code object: its entry, or both branches of each predicate.
Goals == IF BranchLess THEN {<<Entry, None>>} ELSE meta.predicates \X Branches
-----------------------------------------------------------------------------
(***************************************************************************)
(* Traces.                                                                 *)
(***************************************************************************)
Empty == [entered |-> FALSE,
          count |-> [p \in meta.predicates |-> 0],
          distance |-> [g \in meta.predicates \X Branches |-> Inf]]

Merged(t, u) ==
    [entered |-> t.entered \/ u.entered,
     count |-> [p \in meta.predicates |-> t.count[p] + u.count[p]],
     distance |-> [g \in meta.predicates \X Branches |-> Least(t.distance[g], u.distance[g])]]

MergedAll(ts) ==
    LET Upto[k \in 0..Len(ts)] == IF k = 0 THEN Empty ELSE Merged(Upto[k - 1], ts[k])
    IN  Upto[Len(ts)]

\* Slip: the last execution counts, not the closest.
UpdateDistancesLatest(t, p, branch, d) ==
    [t EXCEPT !.count[p] = @ + 1,
              !.distance = [g \in DOMAIN @ |-> IF g[1] # p THEN @[g]
                                               ELSE IF g[2] = branch THEN 0 ELSE d]]

\* The branch that is taken has distance zero, the other one has d.
UpdateDistances(t, p, branch, d) ==
    [t EXCEPT !.count[p] = @ + 1,
              !.distance = [g \in DOMAIN @ |->
                              IF g[1] # p THEN @[g]
                              ELSE Least(@[g], IF g[2] = branch THEN 0 ELSE d)]]
-----------------------------------------------------------------------------
(***************************************************************************)
(* Fitness, in units of its own, so fine that no distance vanishes.        *)
(***************************************************************************)
One == 60 * Unit
Normalise(d) == IF d = Inf THEN One ELSE (One * d) \div (Unit + d)

Closer(c, d) == c.level < d.level \/ (c.level = d.level /\ c.distance <= d.distance)

\* What an executed predicate on the way to p is away from p.
Candidates(t, p) ==
    {[level |-> meta.level[q, p], distance |-> Plus(t.distance[q, "true"], t.distance[q, "false"])] :
       q \in {r \in meta.predicates : t.count[r] > 0 /\ meta.level[r, p] # Inf}}

ControlFlowDistance(t, g) ==
    LET farthest == [level |-> meta.diameter, distance |-> 0]
        candidates == {farthest} \cup Candidates(t, g[1])
    IN  CASE BranchLess -> [level |-> IF t.entered THEN 0 ELSE 1, distance |-> 0]
          [] ~BranchLess /\ ~t.entered -> farthest
          [] ~BranchLess /\ t.entered /\ t.count[g[1]] > 0 ->
               [level |-> 0, distance |-> t.distance[g]]
          [] OTHER -> CHOOSE c \in candidates : \A d \in candidates : Closer(c, d)

Fitness(t, g) ==
    LET distance == ControlFlowDistance(t, g)
    IN  One * distance.level + Normalise(distance.distance)

\* is_covered of a goal, of a branch with a threshold: 0.00001 in the code.
IsCovered(t, g) == IF BranchLess THEN t.entered ELSE t.count[g[1]] > 0 /\ t.distance[g] < Close

\* Slip: only a predicate executed exactly twice.
PredicateFitnessAtTwo(t, g) ==
    IF t.distance[g] = 0 THEN 0
    ELSE IF t.count[g[1]] = 2 THEN Normalise(t.distance[g]) ELSE One

\* A suite needs two executions before distances count.
PredicateFitness(t, g) ==
    IF t.distance[g] = 0 THEN 0
    ELSE IF t.count[g[1]] >= 2 THEN Normalise(t.distance[g]) ELSE One

\* Predicates are numbered in the order of their blocks, and added up in it.
SuiteFitness(t) ==
    LET both == [p \in meta.predicates |->
                   PredicateFitness(t, <<p, "true">>) + PredicateFitness(t, <<p, "false">>)]
        Below[n \in 0..Cardinality(DOMAIN code)] ==
          IF n = 0 THEN 0
          ELSE Below[n - 1] + IF n - 1 \in meta.predicates THEN both[n - 1] ELSE 0
    IN  IF BranchLess THEN IF t.entered THEN 0 ELSE One ELSE Below[Cardinality(DOMAIN code)]

\* Covered and existing branches; a branch-less code object is one.  Here, and in
\* the fitness of a suite, a branch is covered when its distance is zero.
CountsAsCovered(t, g) == IF BranchLess THEN t.entered ELSE t.distance[g] = 0
SuiteCoverage(t) == <<Cardinality({g \in Goals : CountsAsCovered(t, g)}), Cardinality(Goals)>>
-----------------------------------------------------------------------------
(***************************************************************************)
(* Execution: the import first, then one test after the other.             *)
(***************************************************************************)
Init ==
  /\ code \in {c \in Codes : Analysable(c) /\ LiveBlocks(c).nodes = DOMAIN c
                               /\ Reachable(LiveBlocks(c), {0}) = DOMAIN c}
  /\ meta \in {Metadata(code, cdg) : cdg \in ControlDependenceGraphs(code)}
  /\ at = Outside /\ handlers = <<>> /\ steps = 0
  /\ trace = Empty /\ imported = <<>> /\ results = <<>> /\ taken = {} /\ near = {}

\* Calls of the code object; a call may follow another in the same test.
Enter ==
  /\ at = Outside /\ steps < MaxSteps /\ Len(results) < MaxTests
  /\ at' = 0 /\ handlers' = <<>>
  /\ trace' = [trace EXCEPT !.entered = TRUE]
  /\ taken' = taken \cup (IF BranchLess THEN Goals ELSE {})
  /\ UNCHANGED <<code, meta, steps, imported, results, near>>

Inside == at # Outside /\ steps < MaxSteps /\ steps' = steps + 1

\* The probe in front of a conditional jump, and the jump.
Branch ==
  /\ Inside /\ IsPredicate(code, at)
  /\ \E b \in Branches, d \in Distances :
       /\ trace' = UpdateDistances(trace, at, b, d)
       /\ taken' = taken \cup {<<at, b>>}
       /\ near' = near \cup {<<at, c>> : c \in {c \in Branches \ {b} : d < Close}}
       /\ at' = IF code[at].jumpsIf = b THEN code[at].target ELSE at + 1
  /\ UNCHANGED <<code, meta, handlers, imported, results>>

\* Other blocks; handlers of blocks that are left go at any of them.
Move ==
  /\ Inside /\ code[at].kind \in {"setup", "jump", "fall"}
  /\ at' = IF code[at].kind = "jump" THEN code[at].target ELSE at + 1
  /\ \/ handlers' = IF code[at].kind = "setup" THEN <<code[at].target>> \o handlers ELSE handlers
     \/ handlers # <<>> /\ code[at].kind # "setup" /\ handlers' = Tail(handlers)
  /\ UNCHANGED <<code, meta, trace, imported, results, taken, near>>

\* An exception in front of the probe: to the innermost handler, or out.
Raise ==
  /\ Inside
  /\ \/ handlers # <<>> /\ at' = Head(handlers) /\ handlers' = Tail(handlers)
     \/ handlers = <<>> /\ at' = Outside /\ UNCHANGED handlers
  /\ UNCHANGED <<code, meta, trace, imported, results, taken, near>>

Return ==
  /\ Inside /\ code[at].kind = "end"
  /\ at' = Outside /\ handlers' = <<>>
  /\ UNCHANGED <<code, meta, trace, imported, results, taken, near>>

\* store_import_trace: the trace so far is part of every later one.
StoreImportTrace ==
  /\ imported = <<>> /\ at = Outside
  /\ imported' = <<[trace |-> trace, taken |-> taken, near |-> near]>>
  /\ UNCHANGED <<code, meta, at, handlers, steps, trace, results, taken, near>>

\* The result of a test; one that timed out has a trace without anything in it.
EndTest ==
  /\ imported # <<>> /\ Len(results) < MaxTests
  /\ \/ at = Outside /\ results' = Append(results, [trace |-> trace, taken |-> taken])
     \/ at # Outside /\ results' = Append(results, [trace |-> Empty, taken |-> {}])
  /\ trace' = imported[1].trace /\ taken' = imported[1].taken /\ near' = imported[1].near
  /\ at' = Outside /\ handlers' = <<>>
  /\ UNCHANGED <<code, meta, steps, imported>>

Finished == (Len(results) = MaxTests \/ steps = MaxSteps) /\ UNCHANGED vars

Next == Enter \/ Branch \/ Move \/ Raise \/ Return \/ StoreImportTrace \/ EndTest \/ Finished

Spec == Init /\ [][Next]_vars
-----------------------------------------------------------------------------
(***************************************************************************)
(* Properties.                                                             *)
(***************************************************************************)
\* Nothing was executed yet: what is asked of the graph is asked once.
Registered == at = Outside /\ imported = <<>> /\ steps = 0

\* Every goal can be activated: from the root branches, along the structural
\* children, all goals are reached.  DynaMOSA builds on it; the sanity check of
\* _BranchFitnessGraph (dynamosaalgorithm.py:240) would not notice a cycle.
GoalsAreRooted ==
    LET goals == GoalsOf(code)
        graph == [nodes |-> goals,
                  edges |-> UNION {{<<g, h, None>> : h \in ChildrenOf(code, meta.cdg, g)} : g \in goals}]
    IN  Registered => goals = Reachable(graph, RootGoals(code, meta.cdg))

\* The control-dependence graph, computed with post-dominator trees and least
\* common ancestors, holds the dependences that the definition by paths gives.
DependencesAreRight ==
    LET G == Augmented(CFG(code))
    IN  Registered => \A s \in meta.cdg.nodes, n \in meta.cdg.nodes \ {Start} :
          (\E e \in meta.cdg.edges : e[1] = s /\ e[2] = n) <=> DependsOn(G, s, n)

\* A predicate that a test executes is searched for by then, whatever exceptions
\* the test took: it is a root, or the test covers a goal it depends on.
ExecutedMeansActivated ==
    \A p \in meta.predicates : trace.count[p] > 0 =>
        \/ IsDependentOnRoot(code, meta.cdg, p)
        \/ \E g \in ControlDependencies(meta.cdg, p) : IsCovered(trace, g)

\* DynaMOSA searches for every goal in the end, and for what was executed at once.
GoalsAreActivated == GoalsAreRooted /\ ExecutedMeansActivated

\* A goal has a fitness of zero exactly when its branch was taken.  It is covered
\* exactly when its branch was taken, or missed by less than the threshold, and then
\* its fitness need not be zero.  The coverage of a suite counts what its tests took,
\* and it is complete exactly when the fitness of the suite is zero.
FitnessIsReal ==
    /\ \A g \in Goals : Fitness(trace, g) = 0 <=> g \in taken
    /\ \A g \in Goals : IsCovered(trace, g) <=> g \in taken \cup near
    /\ LET all == MergedAll([k \in DOMAIN results |-> results[k].trace])
           covered == UNION {results[k].taken : k \in DOMAIN results}
       IN  /\ SuiteCoverage(all) = <<Cardinality(covered), Cardinality(Goals)>>
           /\ SuiteFitness(all) = 0 <=> covered = Goals

\* While a test runs on, it gets closer to every goal or stays where it was; a
\* further test never makes a suite worse.
FitnessImproves ==
    LET All(rs) == MergedAll([k \in DOMAIN rs |-> rs[k].trace])
    IN  /\ results' = results => \A g \in Goals : Fitness(trace', g) <= Fitness(trace, g)
        /\ SuiteFitness(All(results')) <= SuiteFitness(All(results))
FitnessOnlyImproves == [][FitnessImproves]_vars
=============================================================================
