------------------------------ MODULE MCExecution ------------------------------
(* What happens to one test case and to suites of them, and how they are executed:  *)
(* three components, one of which is chosen at the start; the others do nothing.    *)
(* "executor" is the executor with its threads, "caches" are suites and the values  *)
(* cached for them, "testcases" is a chromosome that is mutated, recombined and     *)
(* post-processed.                                                                  *)
EXTENDS Executor, Sequences, TLC

CONSTANTS Suites, FitnessFuns, CoverageFuns, FinalFuns, Goals, MaxTests, MaxRestricted,
          SuiteOperations,
          ChromosomeLength, MaxStatements, MaxUses, Clones, Seeds, Partners, TestOperations

Statement(v, k, u) == [id |-> v, kind |-> k, uses |-> u]

(* Tests that call the SUT, and the partners they are crossed with.                 *)
SutSeeds == {<<Statement(1, "primitive", {}), Statement(2, "collection", {1}), Statement(3, "sut", {1, 2})>>,
             <<Statement(1, "library", {}), Statement(2, "sut", {1})>>}
SutPartners == {<<Statement(1, "primitive", {}), Statement(2, "sut", {1})>>}

(* A test of another module, parsed and used as a seed, need not call the SUT.      *)
ForeignSeeds == {<<Statement(1, "primitive", {})>>}

MCSymmetry == Permutations(Suites)

VARIABLES
  component,
  suites, registered, restricted, instrumented, versions, cOperations,
  test, changed, result, backup, dirty, idx, last, other, offspring, tPc, tOperations

C == INSTANCE Caches WITH MaxOperations <- SuiteOperations, operations <- cOperations

T == INSTANCE TestCases WITH
       MaxOperations <- TestOperations, pc <- tPc, operations <- tOperations

ASSUME OtherConstants == T!ConstantsType

cVars == <<suites, registered, restricted, instrumented, versions, cOperations>>
tVars == <<test, changed, result, backup, dirty, idx, last, <<other, offspring>>, tPc, tOperations>>
allVars == <<component, vars, cVars, tVars>>

CachesIdle ==
  /\ suites = << >> /\ registered = {} /\ restricted = 0 /\ instrumented = 0
  /\ versions = 0 /\ cOperations = 0

TestCasesIdle ==
  /\ test = << >> /\ changed = TRUE /\ result = 0 /\ backup = << >> /\ dirty = FALSE
  /\ idx = 0 /\ last = 0 /\ other = << >> /\ offspring = << >>
  /\ tPc = "off" /\ tOperations = 0

MCInit ==
  /\ Init
  /\ \/ component = "executor" /\ CachesIdle /\ TestCasesIdle
     \/ component = "caches" /\ C!Init /\ TestCasesIdle
     \/ component = "testcases" /\ CachesIdle /\ T!Init

ExecutorStep == component = "executor" /\ Next /\ UNCHANGED <<component, cVars, tVars>>
CachesStep == component = "caches" /\ C!Next /\ UNCHANGED <<component, vars, tVars>>
TestCasesStep == component = "testcases" /\ T!Next /\ UNCHANGED <<component, vars, cVars>>

MCSpec == MCInit /\ [][ExecutorStep \/ CachesStep \/ TestCasesStep]_allVars

(* What a chromosome answers is never a value of what it was before, see there.     *)
ValuesAreCurrent == C!ValuesAreCurrent
(* Tests stay ones that can be exported, see there.                                 *)
TestsAreWellFormed == T!TestsAreWellFormed
(* Mutations keep a call on the SUT and report what they change, see there.         *)
MutationIsSound == T!MutationIsSound
(* A chromosome that claims to be unchanged has been executed as it is, see there.  *)
CachedResultIsCurrent == component = "testcases" => T!CachedResultIsCurrent
================================================================================
