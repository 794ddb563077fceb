-------------------------- MODULE StoppingConditions --------------------------
(* The conditions that end a search, as operators on the counters they keep.     *)
(* Searches report to them before they start, after each iteration, and through  *)
(* the executor before each test and each statement.                             *)
EXTENDS Integers, FiniteSets, FiniteSetsExt, Folds

CONSTANTS
  Limits,        \* the configured conditions with their limits
  PlateauLength, \* configuration: "minimum_plateau_iterations"
  Scale,         \* coverages are multiples of 1 / Scale
  RoundedDown,   \* those whose product with 100 falls short of an integer
  Second         \* clock ticks in a second

Kinds == {"iterations", "tests", "statements", "time", "coverage", "plateau", "minimum"}

\* Some condition is always configured, and no limit but that of the coverage
\* may be zero.
ASSUME LimitsType == /\ DOMAIN Limits \subseteq Kinds /\ DOMAIN Limits # {}
                     /\ \A k \in DOMAIN Limits : Limits[k] \in Nat
                     /\ \A k \in DOMAIN Limits \ {"coverage"} : Limits[k] > 0

\* What all conditions know before a search starts.
Fresh == [iterations |-> 0, tests |-> 0, statements |-> 0, clock |-> 0,
          percent    |-> 0,               \* MaxCoverage
          previous   |-> 0, same |-> 0,   \* CoveragePlateau
          last       |-> 0, stable |-> 0] \* MinimumCoveragePlateau

\* int(coverage * 100), computed with floats.
Percent(coverage) ==
  (coverage * 100) \div Scale - (IF coverage \in RoundedDown THEN 1 ELSE 0)

-----------------------------------------------------------------------------
\* A slip: what is counted is never reset.
PlateauForgetsNothing(c, coverage) ==
  [c EXCEPT !.previous = IF coverage > @ THEN coverage ELSE @,
            !.same = IF coverage >= c.previous THEN @ + 1 ELSE @]

\* CoveragePlateauStoppingCondition: lower coverage is neither counted nor
\* remembered.
Plateau(c, coverage) ==
  [c EXCEPT !.previous = IF coverage > @ THEN coverage ELSE @,
            !.same = IF coverage > c.previous THEN 0
                     ELSE IF coverage = c.previous THEN @ + 1 ELSE @]

\* MinimumCoveragePlateauStoppingCondition.
StablePlateau(c, percent) ==
  [c EXCEPT !.last = percent, !.stable = IF percent = c.last THEN @ + 1 ELSE 0]

\* after_search_iteration of all conditions.
AfterIteration(c, coverage) ==
  LET d == StablePlateau(Plateau(c, coverage), Percent(coverage))
  IN  [d EXCEPT !.iterations = @ + 1, !.percent = Percent(coverage)]

\* before_test_case_execution, and before_statement_execution n times.
AfterTest(c, n) == [c EXCEPT !.tests = @ + 1, !.statements = @ + n]

CurrentValue(c, kind) ==
  CASE kind = "iterations" -> c.iterations
    [] kind = "tests"      -> c.tests
    [] kind = "statements" -> c.statements
    [] kind = "time"       -> c.clock \div Second
    [] kind = "coverage"   -> c.percent
    [] kind = "plateau"    -> c.same
    [] kind = "minimum"    -> c.last

\* A slip: all limits may be used up to the last unit and one more.
IsFulfilledLate(c, kind) == CurrentValue(c, kind) > Limits[kind]

IsFulfilled(c, kind) ==
  CASE kind = "time"    -> c.clock > Limits[kind] * Second
    [] kind = "minimum" -> c.stable >= PlateauLength /\ c.last >= Limits[kind]
    [] OTHER            -> CurrentValue(c, kind) >= Limits[kind]

ResourcesLeft(c) == \A k \in DOMAIN Limits : ~IsFulfilled(c, k)

LimitProduct(ks) ==
  MapThenFoldSet(LAMBDA x, y : x * y, 1, LAMBDA k : Limits[k],
                 LAMBDA S : CHOOSE k \in S : TRUE, ks)

\* progress(): the mean of the shares used, as <<numerator, denominator>>.
Progress(c) ==
  << MapThenSumSet(LAMBDA k : CurrentValue(c, k) * LimitProduct(DOMAIN Limits \ {k}), DOMAIN Limits),
     Cardinality(DOMAIN Limits) * LimitProduct(DOMAIN Limits) >>
=============================================================================
