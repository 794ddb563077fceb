------------------------------- MODULE Caches -------------------------------
(***************************************************************************)
(* What chromosomes remember of themselves: the flag that says that they   *)
(* changed, the results of their last executions, and the computed values  *)
(* of fitness functions and coverage functions, for test suites and the    *)
(* test cases they hold.                                                   *)
(*                                                                         *)
(* A value is represented by what it was computed from, so that an old     *)
(* value differs from a new one.                                           *)
(***************************************************************************)
EXTENDS Naturals, Sequences, FiniteSets

CONSTANTS
  Suites,         \* places for the suites a search holds at a time
  FitnessFuns,    \* fitness functions of test suites
  CoverageFuns,   \* coverage functions of test suites during the search
  FinalFuns,      \* those computed for the final suite
  Goals,          \* fitness functions of test cases
  MaxTests,       \* configuration: "max_size" of a suite
  MaxOperations,  \* bound: operations on the suites
  MaxRestricted   \* bound: how often the archive covers new goals

VARIABLES
  suites,         \* the suites at hand
  registered,     \* the coverage functions of the suites
  restricted,     \* how often the fitness functions were restricted
  instrumented,   \* how often the module under test was instrumented
  versions,       \* how many different test cases there have been
  operations

vars == <<suites, registered, restricted, instrumented, versions, operations>>

None == <<>>

-----------------------------------------------------------------------------
(* The cache of one chromosome.                                            *)

SuiteSlots == ({"fitness", "covered"} \X FitnessFuns)
              \cup ({"coverage"} \X (CoverageFuns \cup FinalFuns))
TestSlots  == {"fitness", "covered"} \X Goals

Empty(slots) == [s \in slots |-> None]

FunctionsOf(kind) == IF kind = "coverage" THEN registered ELSE FitnessFuns

\* _compute_fitness, _compute_is_covered, _compute_coverage: only missing
\* values are computed; a fitness value also says what is covered.
Filled(cache, kind, only, value) ==
  [s \in DOMAIN cache |->
     IF s[2] \in only /\ cache[<<kind, s[2]>>] = None
        /\ s[1] \in {kind} \cup (IF kind = "fitness" THEN {"covered"} ELSE {})
     THEN value
     ELSE cache[s]]

\* _check_cache: what is in the cache before anything is computed, and
\* whether something will be.
Valid(c) == IF c.changed THEN Empty(DOMAIN c.cache) ELSE c.cache

Computes(c, kind, only, functions) ==
  /\ c.changed \/ \E f \in functions : c.cache[<<kind, f>>] = None
  /\ \E f \in only : Valid(c)[<<kind, f>>] = None

-----------------------------------------------------------------------------
(* Tests and suites.                                                       *)

NewTest(version) ==
  [version |-> version, changed |-> TRUE, ran |-> None, cache |-> Empty(TestSlots)]

\* _run_test_suite_chromosome, for one test.
RunInSuite(t) ==
  IF t.changed \/ t.ran = None
  THEN [t EXCEPT !.ran = <<t.version, instrumented>>,
                 !.changed = FALSE,
                 !.cache = Empty(TestSlots)]
  ELSE t

ValueOf(tests, kind) ==
  <<[i \in DOMAIN tests |-> tests[i].ran], IF kind = "coverage" THEN 0 ELSE restricted>>

Asked(suite, kind, only) ==
  LET runs  == Computes(suite, kind, only, FunctionsOf(kind))
      tests == IF runs THEN [i \in DOMAIN suite.tests |-> RunInSuite(suite.tests[i])]
                       ELSE suite.tests
  IN  [tests   |-> tests,
       changed |-> FALSE,
       cache   |-> IF runs THEN Filled(Valid(suite), kind, only, ValueOf(tests, kind))
                           ELSE Valid(suite)]

\* A test case asked for a value of its own: _run_test_case_chromosome.
AskedOfTest(test, kind, goal) ==
  LET runs == Computes(test, kind, {goal}, Goals)
      ran  == IF runs /\ (test.changed \/ test.ran = None)
              THEN <<test.version, instrumented>>
              ELSE test.ran
  IN  [test EXCEPT !.ran = ran, !.changed = FALSE,
                   !.cache = IF runs THEN Filled(Valid(test), kind, {goal}, <<ran>>)
                                     ELSE Valid(test)]

-----------------------------------------------------------------------------
(* The operations of a search on its suites.                               *)

\* The factory of suites.
NewSuite(n) == [tests   |-> [i \in 1 .. n |-> NewTest(i)],
                changed |-> TRUE,
                cache   |-> Empty(SuiteSlots)]

Init ==
  /\ \E s \in Suites, n \in 1 .. MaxTests :
       /\ suites = [x \in {s} |-> NewSuite(n)]
       /\ versions = n
  /\ registered = CoverageFuns
  /\ restricted = 0 /\ instrumented = 0
  /\ operations = 0

Operate ==
  /\ operations < MaxOperations
  /\ operations' = operations + 1

Searching == instrumented = 0

\* get_fitness, get_fitness_for, get_is_covered, get_coverage, get_coverage_for.
AskSuite(s, kind, only) ==
  /\ Operate
  /\ only \subseteq FunctionsOf(kind)
  /\ suites' = [suites EXCEPT ![s] = Asked(@, kind, only)]
  /\ UNCHANGED <<registered, restricted, instrumented, versions>>

\* The archive asks the tests of a suite whether they cover their goals.
AskTest(s, i, kind, goal) ==
  /\ Operate /\ Searching
  /\ suites' = [suites EXCEPT ![s].tests[i] = AskedOfTest(@, kind, goal)]
  /\ UNCHANGED <<registered, restricted, instrumented, versions>>

Clone(s, c) ==
  /\ Operate /\ Searching
  /\ s # c
  /\ suites' = [x \in DOMAIN suites \cup {c} |-> IF x = c THEN suites[s] ELSE suites[x]]
  /\ UNCHANGED <<registered, restricted, instrumented, versions>>

\* TestSuiteChromosome.mutate: of the tests visited, some change; a test is
\* added.  No test loses its last statement.
Mutate(s) ==
  /\ Operate /\ Searching
  /\ \E visited \in SUBSET DOMAIN suites[s].tests :
     \E hit \in SUBSET visited, adds \in BOOLEAN :
       LET old   == suites[s].tests
           fresh(i) == versions + Cardinality({j \in hit : j <= i})
           kept  == [i \in DOMAIN old |->
                       IF i \in hit THEN [old[i] EXCEPT !.version = fresh(i), !.changed = TRUE]
                                    ELSE old[i]]
           more  == IF adds THEN <<NewTest(versions + Cardinality(hit) + 1)>> ELSE <<>>
       IN  /\ adds => Len(old) < MaxTests
           /\ suites' = [suites EXCEPT
                           ![s].tests = kept \o more,
                           ![s].changed = @ \/ adds \/ \E i \in visited : kept[i].changed]
           /\ versions' = versions + Cardinality(hit) + Len(more)
  /\ UNCHANGED <<registered, restricted, instrumented>>

\* TestSuiteChromosome.cross_over.
Joined(suite, pos1, other, pos2) ==
  [suite EXCEPT !.tests = SubSeq(@, 1, pos1) \o SubSeq(other.tests, pos2 + 1, Len(other.tests)),
                !.changed = TRUE]

CrossOver(s, t) ==
  /\ Operate /\ Searching
  /\ s # t
  /\ LET m == Len(suites[s].tests)
         n == Len(suites[t].tests)
     IN  /\ m >= 2 /\ n >= 2
         /\ \E k \in 0 .. (m - 1) * (n - 1) - 1 :
              LET p == k \div (n - 1) + 1
                  q == k \div (m - 1) + 1
              IN  suites' = [suites EXCEPT ![s] = Joined(@, p, suites[t], q),
                                           ![t] = Joined(@, q, suites[s], p)]
  /\ UNCHANGED <<registered, restricted, instrumented, versions>>

\* WholeSuiteAlgorithm._update_archive: goals the archive covers no longer
\* count for fitness, and all suites are to be computed again.
Restrict ==
  /\ Operate /\ Searching
  /\ restricted < MaxRestricted
  /\ restricted' = restricted + 1
  /\ suites' = [s \in DOMAIN suites |-> [suites[s] EXCEPT !.cache = Empty(SuiteSlots)]]
  /\ UNCHANGED <<registered, instrumented, versions>>

\* A slip: the results of the search are not removed.
ResetKeepingResults(suite) ==
  [suite EXCEPT !.cache = Empty(SuiteSlots),
                !.tests = [i \in DOMAIN @ |-> [@[i] EXCEPT !.cache = Empty(TestSlots)]]]

\* _reset_cache_for_result.
Reset(suite) ==
  [suite EXCEPT !.cache = Empty(SuiteSlots),
                !.tests = [i \in DOMAIN @ |-> [@[i] EXCEPT !.cache = Empty(TestSlots),
                                                           !.ran = None]]]

\* The search ends with one suite.  Post-processing changes its tests without
\* telling them, then the module is instrumented anew, the caches are reset
\* and further coverage functions are added.
Finish(s) ==
  /\ Operate /\ Searching
  /\ instrumented' = 1
  /\ registered' = registered \cup FinalFuns
  /\ \E hit \in SUBSET DOMAIN suites[s].tests :
       /\ versions' = versions + Cardinality(hit)
       /\ suites' = [x \in {s} |->
            Reset([suites[s] EXCEPT
                     !.tests = [i \in DOMAIN @ |->
                       IF i \in hit
                       THEN [@[i] EXCEPT !.version = versions + Cardinality({j \in hit : j <= i})]
                       ELSE @[i]]])]
  /\ UNCHANGED restricted

Done == operations = MaxOperations /\ UNCHANGED vars

Kinds == {"fitness", "covered", "coverage"}

Next ==
  \/ \E s \in DOMAIN suites :
       \/ \E kind \in Kinds :
            \/ AskSuite(s, kind, FunctionsOf(kind))
            \/ \E f \in FunctionsOf(kind) : AskSuite(s, kind, {f})
       \/ \E i \in DOMAIN suites[s].tests, slot \in TestSlots :
            AskTest(s, i, slot[1], slot[2])
       \/ \E t \in Suites : Clone(s, t)
       \/ Mutate(s)
       \/ \E t \in DOMAIN suites : CrossOver(s, t)
       \/ Finish(s)
  \/ Restrict
  \/ Done

Spec == Init /\ [][Next]_vars

-----------------------------------------------------------------------------
(* Properties.                                                             *)

\* What a value would be if everything were computed anew.
Due(suite, kind) ==
  <<[i \in DOMAIN suite.tests |-> <<suite.tests[i].version, instrumented>>],
    IF kind = "coverage" THEN 0 ELSE restricted>>

\* A suite that is asked for values answers for its present tests, the goals
\* that still count and the present instrumentation, whatever was cached,
\* cloned, recombined or executed before.
SuiteAnswersAreCurrent ==
  \A s \in DOMAIN suites, kind \in Kinds, only \in SUBSET (CoverageFuns \cup FinalFuns \cup FitnessFuns) :
    AskSuite(s, kind, only) =>
      \A f \in only : suites'[s].cache[<<kind, f>>] = Due(suites[s], kind)

\* So does a test, also when it was executed as part of a suite since it was
\* last asked itself.
TestAnswersAreCurrent ==
  \A s \in DOMAIN suites : \A i \in DOMAIN suites[s].tests, slot \in TestSlots :
    AskTest(s, i, slot[1], slot[2]) =>
      suites'[s].tests[i].cache[slot] = << <<suites[s].tests[i].version, instrumented>> >>

\* What a chromosome answers is never a value of what it was before.
ValuesAreCurrent == [][SuiteAnswersAreCurrent /\ TestAnswersAreCurrent]_vars
=============================================================================
