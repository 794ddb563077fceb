---------------------------- MODULE ExecutionProofs ----------------------------
(* Proofs about the values that chromosomes cache and about the test cases that    *)
(* are mutated, as parts of MCExecution.  Those about the executor are in          *)
(* ExecutorProofs.                                                                 *)
EXTENDS MCExecution, ExecutorProofs, FiniteSetTheorems

MCNext == ExecutorStep \/ CachesStep \/ TestCasesStep

--------------------------------------------------------------------------------
(* Caches.                                                                         *)

LastRuns == {<<>>} \cup Nat \X Nat
TestValues == {<<>>} \cup {<<r>> : r \in LastRuns}
SuiteValues == {<<>>} \cup Seq(LastRuns) \X Nat

CachedTests == [version : Nat, changed : BOOLEAN, ran : LastRuns, cache : [C!TestSlots -> TestValues]]
CachedSuites == [tests : Seq(CachedTests), changed : BOOLEAN,
                 cache : [C!SuiteSlots -> SuiteValues]]

(* A test that claims to be unchanged remembers nothing but its last execution, which *)
(* was one of its present version with the present instrumentation.                  *)
IsCurrentTest(t, n) ==
  /\ t \in CachedTests
  /\ ~t.changed => /\ t.ran \in {<<>>, <<t.version, n>>}
                   /\ \A slot \in C!TestSlots : t.cache[slot] \in {<<>>, << <<t.version, n>> >>}

(* What the tests of a suite would give, for the goals that still count.            *)
DueOf(tests, kind, n, k) ==
  <<[i \in DOMAIN tests |-> <<tests[i].version, n>>], IF kind = "coverage" THEN 0 ELSE k>>

IsCurrentSuite(suite, n, k) ==
  /\ suite \in CachedSuites
  /\ \A i \in DOMAIN suite.tests : IsCurrentTest(suite.tests[i], n)
  /\ ~suite.changed =>
       \A slot \in C!SuiteSlots :
         suite.cache[slot] \in {<<>>, DueOf(suite.tests, slot[1], n, k)}

CachesAreCurrent ==
  /\ suites = [s \in DOMAIN suites |-> suites[s]]
  /\ \A s \in DOMAIN suites : IsCurrentSuite(suites[s], instrumented, restricted)
  /\ registered \subseteq CoverageFuns \cup FinalFuns
  /\ instrumented \in Nat /\ restricted \in Nat /\ versions \in Nat

CachesInv == component = "caches" => CachesAreCurrent

(* Only what is missing in a cache is computed.                                     *)
LEMMA FillsMissing ==
  ASSUME NEW S, NEW V, NEW cache \in [S -> V], NEW kind, NEW only, NEW value \in V
  PROVE  /\ C!Filled(cache, kind, only, value) \in [S -> V]
         /\ \A slot \in S :
              C!Filled(cache, kind, only, value)[slot] =
                IF slot[2] \in only /\ cache[<<kind, slot[2]>>] = <<>>
                   /\ slot[1] \in {kind} \cup (IF kind = "fitness" THEN {"covered"} ELSE {})
                THEN value ELSE cache[slot]
BY DEF C!Filled, C!None

LEMMA EmptyIsEmpty ==
  ASSUME NEW S
  PROVE  /\ C!Empty(S) = [slot \in S |-> <<>>] /\ DOMAIN C!Empty(S) = S
         /\ \A slot \in S : C!Empty(S)[slot] = <<>>
BY DEF C!Empty, C!None

(* A test that was executed as part of a suite.                                     *)
LEMMA RunInSuiteIsCurrent ==
  ASSUME NEW t, IsCurrentTest(t, instrumented), instrumented \in Nat
  PROVE  /\ IsCurrentTest(C!RunInSuite(t), instrumented)
         /\ C!RunInSuite(t).version = t.version
         /\ C!RunInSuite(t).ran = <<t.version, instrumented>>
<1> DEFINE r == C!RunInSuite(t)
<1>1. t \in CachedTests
  BY DEF IsCurrentTest
<1>2. CASE t.changed \/ t.ran = <<>>
  <2>1. r = [version |-> t.version, changed |-> FALSE, ran |-> <<t.version, instrumented>>,
             cache |-> C!Empty(C!TestSlots)]
    BY <1>1, <1>2 DEF C!RunInSuite, C!None, CachedTests
  <2>2. <<t.version, instrumented>> \in LastRuns /\ C!Empty(C!TestSlots) \in [C!TestSlots -> TestValues]
    BY <1>1, EmptyIsEmpty DEF CachedTests, LastRuns, TestValues
  <2>3. r \in CachedTests
    BY <1>1, <2>1, <2>2 DEF CachedTests
  <2> QED BY <2>1, <2>3, EmptyIsEmpty DEF IsCurrentTest
<1>3. CASE ~t.changed /\ t.ran # <<>>
  <2>1. r = t
    BY <1>3 DEF C!RunInSuite, C!None
  <2> QED BY <1>3, <2>1 DEF IsCurrentTest
<1> QED BY <1>1, <1>2, <1>3

(* A test that is asked for a value.                                                *)
LEMMA AskedTestIsCurrent ==
  ASSUME NEW t, IsCurrentTest(t, instrumented), instrumented \in Nat, NEW slot \in C!TestSlots
  PROVE  LET asked == C!AskedOfTest(t, slot[1], slot[2])
         IN  /\ IsCurrentTest(asked, instrumented)
             /\ asked.version = t.version
             /\ asked.cache[slot] = << <<t.version, instrumented>> >>
<1> DEFINE kind == slot[1]
           goal == slot[2]
           due == <<t.version, instrumented>>
           valid == C!Valid(t)
           runs == C!Computes(t, kind, {goal}, Goals)
           ran == IF runs /\ (t.changed \/ t.ran = <<>>) THEN due ELSE t.ran
           cache == IF runs THEN C!Filled(valid, kind, {goal}, <<ran>>) ELSE valid
           asked == C!AskedOfTest(t, slot[1], slot[2])
<1>1. /\ t \in CachedTests /\ t.cache \in [C!TestSlots -> TestValues] /\ DOMAIN t.cache = C!TestSlots
      /\ kind \in {"fitness", "covered"} /\ goal \in Goals /\ slot = <<kind, goal>>
      /\ due \in LastRuns /\ <<due>> \in TestValues
  BY DEF IsCurrentTest, CachedTests, C!TestSlots, LastRuns, TestValues
<1>2. /\ valid \in [C!TestSlots -> TestValues]
      /\ \A s \in C!TestSlots : valid[s] \in {<<>>, <<due>>}
      /\ valid = IF t.changed THEN C!Empty(C!TestSlots) ELSE t.cache
  <2>1. valid = IF t.changed THEN C!Empty(C!TestSlots) ELSE t.cache
    BY <1>1 DEF C!Valid
  <2>2. C!Empty(C!TestSlots) \in [C!TestSlots -> TestValues]
    BY EmptyIsEmpty DEF TestValues
  <2> HIDE DEF valid, due
  <2> QED BY <1>1, <2>1, <2>2, EmptyIsEmpty DEF IsCurrentTest, due
<1>3. asked = [version |-> t.version, changed |-> FALSE, ran |-> ran, cache |-> cache]
  <2>1. asked = [t EXCEPT !.ran = ran, !.changed = FALSE, !.cache = cache]
    BY DEF C!AskedOfTest, C!None
  <2> HIDE DEF asked, ran, cache
  <2> QED BY <1>1, <2>1 DEF CachedTests
<1> HIDE DEF valid, due
<1>4. runs <=> (t.changed \/ \E f \in Goals : t.cache[<<kind, f>>] = <<>>) /\ valid[slot] = <<>>
  BY <1>1 DEF C!Computes, C!None, valid
<1> HIDE DEF runs
<1>5. runs => ran = due
  BY DEF IsCurrentTest, due
<1>6. ran \in LastRuns
  BY <1>1 DEF CachedTests
<1>7. ran \in {<<>>, due} \/ t.changed
  BY <1>1 DEF IsCurrentTest, due
<1>8. ~runs => valid[slot] = <<due>>
  <2>1. CASE valid[slot] # <<>>
    BY <1>2, <2>1
  <2>2. CASE valid[slot] = <<>>
    <3> SUFFICES ASSUME ~runs PROVE FALSE
      BY <2>2
    <3>1. ~t.changed /\ t.cache[<<kind, goal>>] # <<>>
      BY <1>1, <1>4, <2>2
    <3> QED BY <1>1, <1>2, <2>2, <3>1
  <2> QED BY <2>1, <2>2
<1>9. t.changed => runs
  BY <1>1, <1>2, <1>4, EmptyIsEmpty
<1> HIDE DEF ran
<1>10. /\ cache \in [C!TestSlots -> TestValues]
       /\ \A s \in C!TestSlots : cache[s] \in {<<>>, <<due>>}
       /\ cache[slot] = <<due>>
  <2>1. CASE ~runs
    BY <1>2, <1>8, <2>1
  <2>2. CASE runs
    <3>1. cache = C!Filled(valid, kind, {goal}, <<due>>)
      BY <1>5, <2>2
    <3> HIDE DEF cache, kind, goal
    <3>2. /\ cache \in [C!TestSlots -> TestValues]
          /\ \A s \in C!TestSlots :
               cache[s] = IF s[2] \in {goal} /\ valid[<<kind, s[2]>>] = <<>>
                             /\ s[1] \in {kind} \cup (IF kind = "fitness" THEN {"covered"} ELSE {})
                          THEN <<due>> ELSE valid[s]
      <4>1. valid \in [C!TestSlots -> TestValues] /\ <<due>> \in TestValues
        BY <1>1, <1>2
      <4> QED BY <3>1, <4>1 DEF C!Filled, C!None
    <3>3. \A s \in C!TestSlots : cache[s] \in {<<>>, <<due>>}
      BY <1>2, <3>2
    <3>4. cache[slot] = <<due>>
      <4>1. valid[<<kind, slot[2]>>] = <<>> /\ slot[2] = goal /\ slot[1] = kind
        BY <1>1, <1>4, <2>2
      <4> QED BY <3>2, <4>1
    <3> QED BY <3>2, <3>3, <3>4
  <2> QED BY <2>1, <2>2
<1> HIDE DEF cache
<1>11. asked \in CachedTests
  BY <1>1, <1>3, <1>6, <1>10 DEF CachedTests
<1>12. ran \in {<<>>, due}
  BY <1>5, <1>7, <1>9
<1>13. /\ IsCurrentTest(asked, instrumented) /\ asked.version = t.version
       /\ asked.cache[slot] = <<due>>
  BY <1>3, <1>10, <1>11, <1>12 DEF IsCurrentTest, due
<1> QED BY <1>13 DEF due

(* What a suite is due only depends on its tests' versions.                          *)
LEMMA DueIsValue ==
  ASSUME NEW tests \in Seq(CachedTests), NEW kind, NEW n \in Nat, NEW k \in Nat
  PROVE  DueOf(tests, kind, n, k) \in SuiteValues
<1>1. ASSUME NEW i \in DOMAIN tests PROVE <<tests[i].version, n>> \in LastRuns
  <2>1. tests[i] \in CachedTests
    OBVIOUS
  <2> QED BY <2>1 DEF CachedTests, LastRuns
<1>2. [i \in DOMAIN tests |-> <<tests[i].version, n>>] \in Seq(LastRuns)
  <2>1. DOMAIN tests = 1 .. Len(tests) /\ Len(tests) \in Nat
    OBVIOUS
  <2>2. [i \in DOMAIN tests |-> <<tests[i].version, n>>] \in [1 .. Len(tests) -> LastRuns]
    BY <1>1, <2>1
  <2> QED BY <2>1, <2>2
<1> QED BY <1>2 DEF DueOf, SuiteValues

(* A suite that is asked for values.                                                *)
LEMMA AskedSuiteIsCurrent ==
  ASSUME NEW suite, IsCurrentSuite(suite, instrumented, restricted),
         instrumented \in Nat, restricted \in Nat, registered \subseteq CoverageFuns \cup FinalFuns,
         NEW kind \in C!Kinds, NEW only \in SUBSET C!FunctionsOf(kind)
  PROVE  LET asked == C!Asked(suite, kind, only)
         IN  /\ IsCurrentSuite(asked, instrumented, restricted)
             /\ \A f \in only : asked.cache[<<kind, f>>] =
                                  DueOf(suite.tests, kind, instrumented, restricted)
<1> DEFINE runs == C!Computes(suite, kind, only, C!FunctionsOf(kind))
           tests == IF runs THEN [i \in DOMAIN suite.tests |-> C!RunInSuite(suite.tests[i])]
                    ELSE suite.tests
           valid == C!Valid(suite)
           cache == IF runs THEN C!Filled(valid, kind, only, C!ValueOf(tests, kind)) ELSE valid
           asked == C!Asked(suite, kind, only)
           due(kd) == DueOf(suite.tests, kd, instrumented, restricted)
<1>1. /\ suite \in CachedSuites /\ suite.tests \in Seq(CachedTests)
      /\ suite.cache \in [C!SuiteSlots -> SuiteValues] /\ DOMAIN suite.cache = C!SuiteSlots
      /\ \A i \in DOMAIN suite.tests : IsCurrentTest(suite.tests[i], instrumented)
      /\ DOMAIN suite.tests = 1 .. Len(suite.tests) /\ Len(suite.tests) \in Nat
  BY DEF IsCurrentSuite, CachedSuites
<1>2. asked = [tests |-> tests, changed |-> FALSE, cache |-> cache]
  BY DEF C!Asked
<1>3. /\ DOMAIN tests = DOMAIN suite.tests /\ tests \in Seq(CachedTests)
      /\ \A i \in DOMAIN tests : /\ IsCurrentTest(tests[i], instrumented)
                                 /\ tests[i].version = suite.tests[i].version
      /\ runs => \A i \in DOMAIN tests : tests[i].ran = <<suite.tests[i].version, instrumented>>
  <2>1. CASE ~runs
    BY <1>1, <2>1
  <2>2. CASE runs
    <3>1. tests = [i \in DOMAIN suite.tests |-> C!RunInSuite(suite.tests[i])]
      BY <2>2
    <3> HIDE DEF tests
    <3>2. \A i \in DOMAIN suite.tests :
            /\ IsCurrentTest(tests[i], instrumented)
            /\ tests[i].version = suite.tests[i].version
            /\ tests[i].ran = <<suite.tests[i].version, instrumented>>
      BY <1>1, <3>1, RunInSuiteIsCurrent
    <3>3. tests \in [1 .. Len(suite.tests) -> CachedTests]
      <4>1. \A i \in 1 .. Len(suite.tests) : tests[i] \in CachedTests
        BY <1>1, <3>2 DEF IsCurrentTest
      <4> QED BY <1>1, <3>1, <4>1
    <3>4. tests \in Seq(CachedTests)
      BY <1>1, <3>3
    <3> QED BY <3>1, <3>2, <3>4
  <2> HIDE DEF tests, runs
  <2> QED BY <2>1, <2>2
<1>4. runs => C!ValueOf(tests, kind) = due(kind)
  <2> SUFFICES ASSUME runs PROVE C!ValueOf(tests, kind) = due(kind)
    OBVIOUS
  <2> HIDE DEF tests, runs
  <2>1. [i \in DOMAIN tests |-> tests[i].ran]
          = [i \in DOMAIN suite.tests |-> <<suite.tests[i].version, instrumented>>]
    BY <1>3
  <2> QED BY <2>1 DEF C!ValueOf, DueOf
<1>5. \A kd : due(kd) = DueOf(tests, kd, instrumented, restricted)
  <2> HIDE DEF tests, runs
  <2>1. [i \in DOMAIN tests |-> <<tests[i].version, instrumented>>]
          = [i \in DOMAIN suite.tests |-> <<suite.tests[i].version, instrumented>>]
    BY <1>3
  <2> QED BY <2>1 DEF DueOf
<1>6. \A kd : due(kd) \in SuiteValues
  BY <1>1, DueIsValue
<1>7. \A slot \in C!SuiteSlots : slot[1] # "coverage" /\ kind # "coverage" => due(slot[1]) = due(kind)
  BY DEF DueOf
<1>8. /\ \A f \in only : <<kind, f>> \in C!SuiteSlots
      /\ \A f \in C!FunctionsOf(kind) : <<kind, f>> \in C!SuiteSlots
      /\ kind \in {"fitness", "covered", "coverage"}
  BY DEF C!Kinds, C!FunctionsOf, C!SuiteSlots
<1> HIDE DEF tests, due
<1>9. /\ valid \in [C!SuiteSlots -> SuiteValues]
      /\ \A slot \in C!SuiteSlots : valid[slot] \in {<<>>, due(slot[1])}
      /\ valid = IF suite.changed THEN C!Empty(C!SuiteSlots) ELSE suite.cache
  <2>1. valid = IF suite.changed THEN C!Empty(C!SuiteSlots) ELSE suite.cache
    BY <1>1 DEF C!Valid
  <2>2. C!Empty(C!SuiteSlots) \in [C!SuiteSlots -> SuiteValues]
    BY EmptyIsEmpty DEF SuiteValues
  <2> HIDE DEF valid
  <2> QED BY <1>1, <2>1, <2>2, EmptyIsEmpty DEF IsCurrentSuite, due
<1>10. /\ \A f \in only : valid[<<kind, f>>] = <<>> =>
           runs \/ ~(suite.changed \/ \E g \in C!FunctionsOf(kind) : suite.cache[<<kind, g>>] = <<>>)
  BY DEF C!Computes, C!None
<1> HIDE DEF valid, runs
<1>11. ASSUME ~runs, NEW f \in only PROVE valid[<<kind, f>>] = due(kind)
  <2>1. valid[<<kind, f>>] # <<>>
    <3> SUFFICES ASSUME valid[<<kind, f>>] = <<>> PROVE FALSE
      OBVIOUS
    <3>1. ~suite.changed /\ suite.cache[<<kind, f>>] # <<>>
      BY <1>10, <1>11
    <3> QED BY <1>9, <3>1
  <2>2. <<kind, f>>[1] = kind /\ <<kind, f>> \in C!SuiteSlots
    BY <1>8
  <2> QED BY <1>9, <2>1, <2>2
<1>12. /\ cache \in [C!SuiteSlots -> SuiteValues]
       /\ \A slot \in C!SuiteSlots : cache[slot] \in {<<>>, due(slot[1])}
       /\ \A f \in only : cache[<<kind, f>>] = due(kind)
  <2>1. CASE ~runs
    BY <1>9, <1>11, <2>1
  <2>2. CASE runs
    <3>1. cache = C!Filled(valid, kind, only, due(kind))
      BY <1>4, <2>2
    <3> HIDE DEF cache
    <3>2. /\ cache \in [C!SuiteSlots -> SuiteValues]
          /\ \A s \in C!SuiteSlots :
               cache[s] = IF s[2] \in only /\ valid[<<kind, s[2]>>] = <<>>
                             /\ s[1] \in {kind} \cup (IF kind = "fitness" THEN {"covered"} ELSE {})
                          THEN due(kind) ELSE valid[s]
      BY <1>6, <1>9, <3>1 DEF C!Filled, C!None
    <3>3. \A slot \in C!SuiteSlots : cache[slot] \in {<<>>, due(slot[1])}
      <4> SUFFICES ASSUME NEW slot \in C!SuiteSlots PROVE cache[slot] \in {<<>>, due(slot[1])}
        OBVIOUS
      <4>1. CASE slot[1] \in {kind} \cup (IF kind = "fitness" THEN {"covered"} ELSE {})
        <5>1. slot[1] = kind \/ (slot[1] # "coverage" /\ kind # "coverage")
          BY <4>1
        <5>2. due(slot[1]) = due(kind)
          BY <1>7, <5>1
        <5> QED BY <1>9, <3>2, <5>2
      <4>2. CASE ~(slot[1] \in {kind} \cup (IF kind = "fitness" THEN {"covered"} ELSE {}))
        BY <1>9, <3>2, <4>2
      <4> QED BY <4>1, <4>2
    <3>4. ASSUME NEW f \in only PROVE cache[<<kind, f>>] = due(kind)
      <4> DEFINE slot == <<kind, f>>
      <4>1. slot \in C!SuiteSlots /\ slot[1] = kind /\ slot[2] = f /\ slot = <<kind, slot[2]>>
        BY <1>8
      <4>2. cache[slot] = IF valid[slot] = <<>> THEN due(kind) ELSE valid[slot]
        BY <3>2, <4>1
      <4> HIDE DEF slot
      <4>3. cache[slot] = due(kind)
        BY <1>9, <4>1, <4>2
      <4> QED BY <4>3 DEF slot
    <3> QED BY <3>2, <3>3, <3>4
  <2> QED BY <2>1, <2>2
<1> HIDE DEF cache
<1>13. asked \in CachedSuites
  BY <1>2, <1>3, <1>12 DEF CachedSuites
<1>14. IsCurrentSuite(asked, instrumented, restricted)
  <2>1. asked.tests = tests /\ asked.cache = cache /\ asked.changed = FALSE
    BY <1>2
  <2> HIDE DEF asked
  <2> QED BY <1>3, <1>5, <1>12, <1>13, <2>1 DEF IsCurrentSuite
<1> QED BY <1>2, <1>12, <1>14 DEF due
--------------------------------------------------------------------------------
(* The operations on suites.                                                       *)

LEMMA CountIsNat ==
  ASSUME NEW m \in Nat, NEW A \in SUBSET (1 .. m)
  PROVE  C!Cardinality(A) \in Nat
<1>1. IsFiniteSet(A)
  <2>1. IsFiniteSet(1 .. m)
    BY FS_Interval
  <2> QED BY <2>1, FS_Subset
<1>2. C!Cardinality(A) = Cardinality(A)
  BY DEF C!Cardinality, Cardinality
<1> QED BY <1>1, <1>2, FS_CardinalityType

LEMMA NewTestIsCurrent ==
  ASSUME NEW version \in Nat, NEW n
  PROVE  IsCurrentTest(C!NewTest(version), n)
<1>1. C!NewTest(version) = [version |-> version, changed |-> TRUE, ran |-> <<>>,
                            cache |-> C!Empty(C!TestSlots)]
  BY DEF C!NewTest, C!None
<1>2. C!Empty(C!TestSlots) \in [C!TestSlots -> TestValues]
  BY EmptyIsEmpty DEF TestValues
<1>3. C!NewTest(version) \in CachedTests
  BY <1>1, <1>2 DEF CachedTests, LastRuns
<1> QED BY <1>1, <1>3 DEF IsCurrentTest

HitTest(t, version) == [t EXCEPT !.version = version, !.changed = TRUE]

LEMMA HitTestIsCurrent ==
  ASSUME NEW t \in CachedTests, NEW version \in Nat, NEW n
  PROVE  IsCurrentTest(HitTest(t, version), n) /\ HitTest(t, version).changed
BY DEF HitTest, IsCurrentTest, CachedTests

(* A suite of current tests that says that it changed.                              *)
LEMMA ChangedSuiteIsCurrent ==
  ASSUME NEW suite \in CachedSuites, suite.changed, NEW n, NEW k,
         \A i \in DOMAIN suite.tests : IsCurrentTest(suite.tests[i], n)
  PROVE  IsCurrentSuite(suite, n, k)
BY DEF IsCurrentSuite

(* One suite is replaced.                                                          *)
LEMMA ReplacedSuite ==
  ASSUME CachesAreCurrent, NEW s \in DOMAIN suites, NEW new,
         IsCurrentSuite(new, instrumented, restricted),
         suites' = [suites EXCEPT ![s] = new],
         UNCHANGED <<registered, restricted, instrumented>>, versions' \in Nat
  PROVE  CachesAreCurrent'
<1>1. DOMAIN suites' = DOMAIN suites /\ suites' = [x \in DOMAIN suites' |-> suites'[x]]
  OBVIOUS
<1>2. \A x \in DOMAIN suites : suites'[x] = IF x = s THEN new ELSE suites[x]
  OBVIOUS
<1>3. \A x \in DOMAIN suites : IsCurrentSuite(suites'[x], instrumented, restricted)
  BY <1>2 DEF CachesAreCurrent
<1> QED BY <1>1, <1>3 DEF CachesAreCurrent

LEMMA AskSuiteIsCurrent ==
  ASSUME CachesAreCurrent, NEW s \in DOMAIN suites, NEW kind \in C!Kinds, NEW only,
         C!AskSuite(s, kind, only)
  PROVE  /\ CachesAreCurrent'
         /\ \A f \in only : suites'[s].cache[<<kind, f>>] = C!Due(suites[s], kind)
<1> DEFINE new == C!Asked(suites[s], kind, only)
<1>1. /\ suites' = [suites EXCEPT ![s] = new] /\ only \in SUBSET C!FunctionsOf(kind)
      /\ UNCHANGED <<registered, restricted, instrumented, versions>>
  BY DEF C!AskSuite
<1>2. /\ IsCurrentSuite(suites[s], instrumented, restricted)
      /\ instrumented \in Nat /\ restricted \in Nat /\ registered \subseteq CoverageFuns \cup FinalFuns
  BY DEF CachesAreCurrent
<1>3. /\ IsCurrentSuite(new, instrumented, restricted)
      /\ \A f \in only : new.cache[<<kind, f>>] =
                           DueOf(suites[s].tests, kind, instrumented, restricted)
  BY <1>1, <1>2, AskedSuiteIsCurrent
<1>4. suites'[s] = new
  BY <1>1
<1> HIDE DEF new
<1>5. CachesAreCurrent'
  BY <1>1, <1>3, ReplacedSuite DEF CachesAreCurrent
<1> QED BY <1>3, <1>4, <1>5 DEF C!Due, DueOf

LEMMA AskTestIsCurrent ==
  ASSUME CachesAreCurrent, NEW s \in DOMAIN suites, NEW i \in DOMAIN suites[s].tests,
         NEW slot \in C!TestSlots, C!AskTest(s, i, slot[1], slot[2])
  PROVE  /\ CachesAreCurrent'
         /\ suites'[s].tests[i].cache[slot] = << <<suites[s].tests[i].version, instrumented>> >>
<1> DEFINE old == suites[s]
           t == C!AskedOfTest(old.tests[i], slot[1], slot[2])
           tests == [old.tests EXCEPT ![i] = t]
           new == [old EXCEPT !.tests = tests]
<1>1. /\ suites' = [suites EXCEPT ![s].tests[i] = C!AskedOfTest(@, slot[1], slot[2])]
      /\ UNCHANGED <<registered, restricted, instrumented, versions>>
  BY DEF C!AskTest
<1>2. suites' = [suites EXCEPT ![s] = new]
  BY <1>1
<1>3. /\ IsCurrentSuite(old, instrumented, restricted) /\ instrumented \in Nat
      /\ old \in CachedSuites
  BY DEF CachesAreCurrent, IsCurrentSuite
<1>4. /\ IsCurrentTest(t, instrumented) /\ t.version = old.tests[i].version
      /\ t.cache[slot] = << <<old.tests[i].version, instrumented>> >>
  BY <1>3, AskedTestIsCurrent DEF IsCurrentSuite
<1> HIDE DEF t, old
<1>5. /\ tests \in Seq(CachedTests) /\ DOMAIN tests = DOMAIN old.tests
      /\ \A j \in DOMAIN tests : /\ IsCurrentTest(tests[j], instrumented)
                                 /\ tests[j].version = old.tests[j].version
      /\ tests[i] = t
  <2>1. old.tests \in Seq(CachedTests) /\ i \in DOMAIN old.tests /\ t \in CachedTests
    BY <1>3, <1>4 DEF CachedSuites, IsCurrentTest, old
  <2>2. tests \in Seq(CachedTests) /\ DOMAIN tests = DOMAIN old.tests
    BY <2>1
  <2> QED BY <1>3, <1>4, <2>1, <2>2 DEF IsCurrentSuite
<1> HIDE DEF tests
<1>6. /\ new.tests = tests /\ new.changed = old.changed /\ new.cache = old.cache
      /\ new \in CachedSuites
  BY <1>3, <1>5 DEF CachedSuites
<1> HIDE DEF new
<1>7. \A kind : DueOf(tests, kind, instrumented, restricted)
                  = DueOf(old.tests, kind, instrumented, restricted)
  <2>1. [j \in DOMAIN tests |-> <<tests[j].version, instrumented>>]
          = [j \in DOMAIN old.tests |-> <<old.tests[j].version, instrumented>>]
    BY <1>5
  <2> QED BY <2>1 DEF DueOf
<1>8. IsCurrentSuite(new, instrumented, restricted)
  BY <1>3, <1>5, <1>6, <1>7 DEF IsCurrentSuite
<1>9. CachesAreCurrent'
  BY <1>1, <1>2, <1>8, ReplacedSuite DEF CachesAreCurrent
<1>10. suites'[s] = new
  BY <1>2
<1> QED BY <1>4, <1>5, <1>6, <1>9, <1>10 DEF old

LEMMA CloneIsCurrent ==
  ASSUME CachesAreCurrent, NEW s \in DOMAIN suites, NEW c, C!Clone(s, c)
  PROVE  CachesAreCurrent'
<1>1. /\ suites' = [x \in DOMAIN suites \cup {c} |-> IF x = c THEN suites[s] ELSE suites[x]]
      /\ UNCHANGED <<registered, restricted, instrumented, versions>>
  BY DEF C!Clone
<1>2. DOMAIN suites' = DOMAIN suites \cup {c} /\ suites' = [x \in DOMAIN suites' |-> suites'[x]]
  BY <1>1
<1>3. \A x \in DOMAIN suites' : suites'[x] = IF x = c THEN suites[s] ELSE suites[x]
  BY <1>1
<1>4. \A x \in DOMAIN suites' : IsCurrentSuite(suites'[x], instrumented, restricted)
  BY <1>2, <1>3 DEF CachesAreCurrent
<1> QED BY <1>1, <1>2, <1>4 DEF CachesAreCurrent

LEMMA MutateIsCurrent ==
  ASSUME CachesAreCurrent, NEW s \in DOMAIN suites, C!Mutate(s)
  PROVE  CachesAreCurrent'
<1> DEFINE old == suites[s].tests
<1>1. PICK visited \in SUBSET DOMAIN old : \E hit \in SUBSET visited, adds \in BOOLEAN :
        LET fresh(i) == versions + C!Cardinality({j \in hit : j <= i})
            kept == [i \in DOMAIN old |->
                      IF i \in hit THEN [old[i] EXCEPT !.version = fresh(i), !.changed = TRUE]
                                   ELSE old[i]]
            more == IF adds THEN <<C!NewTest(versions + C!Cardinality(hit) + 1)>> ELSE <<>>
        IN  /\ suites' = [suites EXCEPT
                            ![s].tests = kept \o more,
                            ![s].changed = @ \/ adds \/ \E i \in visited : kept[i].changed]
            /\ versions' = versions + C!Cardinality(hit) + Len(more)
  BY DEF C!Mutate
<1>2. PICK hit \in SUBSET visited, adds \in BOOLEAN :
        LET fresh(i) == versions + C!Cardinality({j \in hit : j <= i})
            kept == [i \in DOMAIN old |->
                      IF i \in hit THEN [old[i] EXCEPT !.version = fresh(i), !.changed = TRUE]
                                   ELSE old[i]]
            more == IF adds THEN <<C!NewTest(versions + C!Cardinality(hit) + 1)>> ELSE <<>>
        IN  /\ suites' = [suites EXCEPT
                            ![s].tests = kept \o more,
                            ![s].changed = @ \/ adds \/ \E i \in visited : kept[i].changed]
            /\ versions' = versions + C!Cardinality(hit) + Len(more)
  BY <1>1
<1> DEFINE fresh(i) == versions + C!Cardinality({j \in hit : j <= i})
           kept == [i \in DOMAIN old |->
                     IF i \in hit THEN [old[i] EXCEPT !.version = fresh(i), !.changed = TRUE]
                                  ELSE old[i]]
           more == IF adds THEN <<C!NewTest(versions + C!Cardinality(hit) + 1)>> ELSE <<>>
           changes == suites[s].changed \/ adds \/ \E i \in visited : kept[i].changed
           new == [suites[s] EXCEPT !.tests = kept \o more, !.changed = changes]
<1>3. suites' = [suites EXCEPT ![s] = new]
  BY <1>2
<1>4. versions' = versions + C!Cardinality(hit) + Len(more)
  BY <1>2
<1>5. UNCHANGED <<registered, restricted, instrumented>>
  BY DEF C!Mutate
<1>6. /\ IsCurrentSuite(suites[s], instrumented, restricted) /\ suites[s] \in CachedSuites
      /\ old \in Seq(CachedTests) /\ DOMAIN old = 1 .. Len(old) /\ Len(old) \in Nat
      /\ versions \in Nat
  BY DEF CachesAreCurrent, IsCurrentSuite, CachedSuites
<1>7. C!Cardinality(hit) \in Nat /\ \A i \in DOMAIN old : fresh(i) \in Nat
  <2>1. C!Cardinality(hit) \in Nat
    <3>1. hit \in SUBSET (1 .. Len(old))
      BY <1>6
    <3> QED BY <1>6, <3>1, CountIsNat
  <2>2. ASSUME NEW i \in DOMAIN old PROVE fresh(i) \in Nat
    <3> DEFINE before == {j \in hit : j <= i}
    <3>1. before \in SUBSET (1 .. Len(old)) /\ fresh(i) = versions + C!Cardinality(before)
      BY <1>6
    <3> HIDE DEF before, fresh
    <3>2. C!Cardinality(before) \in Nat
      BY <1>6, <3>1, CountIsNat
    <3> QED BY <1>6, <3>1, <3>2
  <2> QED BY <2>1, <2>2
<1> HIDE DEF old, fresh
<1>8. ASSUME NEW i \in DOMAIN old
      PROVE  /\ IsCurrentTest(kept[i], instrumented)
             /\ i \in hit => kept[i].changed
             /\ i \notin hit => kept[i] = old[i]
  <2>1. CASE i \in hit
    <3>1. kept[i] = HitTest(old[i], fresh(i))
      BY <2>1 DEF HitTest
    <3>2. old[i] \in CachedTests /\ fresh(i) \in Nat
      BY <1>6, <1>7
    <3>3. IsCurrentTest(HitTest(old[i], fresh(i)), instrumented) /\ HitTest(old[i], fresh(i)).changed
      BY <3>2, HitTestIsCurrent
    <3> HIDE DEF kept
    <3> QED BY <2>1, <3>1, <3>3
  <2>2. CASE i \notin hit
    <3>1. kept[i] = old[i]
      BY <2>2
    <3>2. IsCurrentTest(old[i], instrumented)
      BY <1>6 DEF IsCurrentSuite, old
    <3> HIDE DEF kept
    <3> QED BY <2>2, <3>1, <3>2
  <2> QED BY <2>1, <2>2
<1>9. /\ more \in Seq(CachedTests) /\ Len(more) \in Nat
      /\ \A i \in DOMAIN more : IsCurrentTest(more[i], instrumented)
  <2>1. CASE adds
    <3> DEFINE t == C!NewTest(versions + C!Cardinality(hit) + 1)
    <3>1. IsCurrentTest(t, instrumented)
      <4>1. versions + C!Cardinality(hit) + 1 \in Nat
        BY <1>6, <1>7
      <4> QED BY <4>1, NewTestIsCurrent
    <3>2. more = <<t>>
      BY <2>1
    <3>3. t \in CachedTests
      BY <3>1 DEF IsCurrentTest
    <3> HIDE DEF more, t
    <3> QED BY <3>1, <3>2, <3>3
  <2>2. CASE ~adds
    BY <2>2
  <2> QED BY <2>1, <2>2
<1>10. kept \in Seq(CachedTests) /\ DOMAIN kept = DOMAIN old /\ Len(kept) = Len(old)
  <2>1. DOMAIN kept = 1 .. Len(old) /\ kept = [i \in 1 .. Len(old) |-> kept[i]]
    BY <1>6
  <2>2. \A i \in 1 .. Len(old) : kept[i] \in CachedTests
    BY <1>6, <1>8 DEF IsCurrentTest
  <2> HIDE DEF kept
  <2>3. kept \in [1 .. Len(old) -> CachedTests]
    BY <2>1, <2>2
  <2> QED BY <1>6, <2>3
<1>11. ~adds => more = <<>>
  OBVIOUS
<1>12. hit = {} => kept = old
  <2> SUFFICES ASSUME hit = {} PROVE kept = old
    OBVIOUS
  <2>1. \A i \in 1 .. Len(old) : kept[i] = old[i]
    BY <1>6, <1>8
  <2> HIDE DEF kept
  <2> QED BY <1>6, <1>10, <2>1
<1>13. changes \in BOOLEAN /\ (~changes => hit = {} /\ ~adds /\ ~suites[s].changed)
  <2>1. suites[s].changed \in BOOLEAN
    BY <1>6 DEF CachedSuites
  <2>2. \A i \in hit : i \in DOMAIN old /\ i \in visited
    BY DEF old
  <2> HIDE DEF kept
  <2> QED BY <1>8, <2>1, <2>2
<1> HIDE DEF kept, more, changes
<1> DEFINE tests == kept \o more
<1>14. tests \in Seq(CachedTests) /\ \A i \in DOMAIN tests : IsCurrentTest(tests[i], instrumented)
  <2>1. tests \in Seq(CachedTests) /\ Len(tests) = Len(kept) + Len(more)
    BY <1>9, <1>10
  <2>2. ASSUME NEW i \in DOMAIN tests PROVE IsCurrentTest(tests[i], instrumented)
    <3>1. CASE i <= Len(kept)
      <4>1. i \in DOMAIN old /\ tests[i] = kept[i]
        BY <1>6, <1>9, <1>10, <2>1, <3>1
      <4> QED BY <1>8, <4>1
    <3>2. CASE i > Len(kept)
      <4>1. i - Len(kept) \in DOMAIN more /\ tests[i] = more[i - Len(kept)]
        BY <1>6, <1>9, <1>10, <2>1, <3>2
      <4> QED BY <1>9, <4>1
    <3> QED BY <1>6, <1>10, <2>1, <3>1, <3>2
  <2> QED BY <2>1, <2>2
<1>15. ~changes => tests = old
  BY <1>6, <1>11, <1>12, <1>13
<1> HIDE DEF tests
<1>16. /\ new.tests = tests /\ new.changed = changes /\ new.cache = suites[s].cache
       /\ new \in CachedSuites
  BY <1>6, <1>13, <1>14 DEF CachedSuites, tests
<1> HIDE DEF new
<1>17. IsCurrentSuite(new, instrumented, restricted)
  <2>1. CASE changes
    BY <1>14, <1>16, <2>1, ChangedSuiteIsCurrent
  <2>2. CASE ~changes
    BY <1>6, <1>13, <1>14, <1>15, <1>16, <2>2 DEF IsCurrentSuite, old
  <2> QED BY <2>1, <2>2
<1>18. versions' \in Nat
  BY <1>4, <1>6, <1>7, <1>9
<1> QED BY <1>3, <1>5, <1>17, <1>18, ReplacedSuite

LEMMA SplitIsWithin ==
  ASSUME NEW m \in Nat, NEW n \in Nat, m >= 2, n >= 2, NEW k \in 0 .. (m - 1) * (n - 1) - 1
  PROVE  k \div (n - 1) + 1 \in 1 .. m
<1> DEFINE a == m - 1
           b == n - 1
           q == k \div b
<1>1. a \in Nat /\ b \in Nat /\ a > 0 /\ b > 0 /\ k \in Nat /\ k < a * b
  <2>1. a \in Nat /\ b \in Nat /\ a > 0 /\ b > 0 /\ a * b \in Int
    OBVIOUS
  <2>2. k \in 0 .. a * b - 1
    OBVIOUS
  <2> HIDE DEF a, b
  <2> QED BY <2>1, <2>2
<1> HIDE DEF a, b
<1>2. q \in Nat /\ b * q <= k
  BY <1>1
<1> HIDE DEF q
<1>3. q < a
  <2> SUFFICES ASSUME q >= a PROVE FALSE
    BY <1>1, <1>2
  <2>1. b * q >= b * a
    BY <1>1, <1>2
  <2>2. b * a = a * b /\ b * q \in Nat /\ a * b \in Nat
    BY <1>1, <1>2
  <2> QED BY <1>1, <1>2, <2>1, <2>2
<1>4. q + 1 \in 1 .. m
  BY <1>1, <1>2, <1>3 DEF a
<1> QED BY <1>4 DEF q, b

LEMMA JoinedIsCurrent ==
  ASSUME NEW suite, NEW second, NEW n, NEW k,
         IsCurrentSuite(suite, n, k), IsCurrentSuite(second, n, k),
         NEW p \in 1 .. Len(suite.tests), NEW q \in 1 .. Len(second.tests)
  PROVE  IsCurrentSuite(C!Joined(suite, p, second, q), n, k)
<1> DEFINE front == SubSeq(suite.tests, 1, p)
           rest == SubSeq(second.tests, q + 1, Len(second.tests))
           tests == front \o rest
           new == C!Joined(suite, p, second, q)
<1>1. /\ suite \in CachedSuites /\ second \in CachedSuites
      /\ suite.tests \in Seq(CachedTests) /\ second.tests \in Seq(CachedTests)
      /\ Len(suite.tests) \in Nat /\ Len(second.tests) \in Nat
      /\ \A i \in 1 .. Len(suite.tests) : IsCurrentTest(suite.tests[i], n)
      /\ \A i \in 1 .. Len(second.tests) : IsCurrentTest(second.tests[i], n)
  BY DEF IsCurrentSuite, CachedSuites
<1>2. /\ front \in Seq(CachedTests) /\ Len(front) = p
      /\ \A i \in 1 .. p : front[i] = suite.tests[i]
  BY <1>1
<1>3. /\ rest \in Seq(CachedTests) /\ Len(rest) = Len(second.tests) - q
      /\ \A i \in 1 .. Len(rest) : rest[i] = second.tests[q + i]
  BY <1>1
<1>4. new = [tests |-> tests, changed |-> TRUE, cache |-> suite.cache]
  <2>1. new = [suite EXCEPT !.tests = tests, !.changed = TRUE]
    BY DEF C!Joined
  <2> HIDE DEF new, tests
  <2> QED BY <1>1, <2>1 DEF CachedSuites
<1> HIDE DEF front, rest
<1>5. tests \in Seq(CachedTests) /\ Len(tests) = p + Len(rest)
  <2>1. front \in Seq(CachedTests) /\ rest \in Seq(CachedTests) /\ Len(front) = p
    BY <1>2, <1>3
  <2>2. tests \in Seq(CachedTests) /\ Len(tests) = Len(front) + Len(rest)
    BY <2>1
  <2> HIDE DEF tests
  <2> QED BY <2>1, <2>2
<1>6. ASSUME NEW i \in DOMAIN tests PROVE IsCurrentTest(tests[i], n)
  <2>1. CASE i <= p
    <3>1. tests[i] = suite.tests[i] /\ i \in 1 .. Len(suite.tests)
      BY <1>1, <1>2, <1>3, <1>5, <2>1
    <3> QED BY <1>1, <3>1
  <2>2. CASE i > p
    <3> DEFINE j == i - p
    <3>1. j \in 1 .. Len(rest) /\ tests[i] = rest[j]
      BY <1>1, <1>2, <1>3, <1>5, <2>2
    <3>2. rest[j] = second.tests[q + j] /\ q + j \in 1 .. Len(second.tests)
      BY <1>1, <1>3, <3>1
    <3> QED BY <1>1, <3>1, <3>2
  <2> QED BY <1>5, <2>1, <2>2
<1> HIDE DEF tests
<1>7. /\ new \in CachedSuites /\ new.changed /\ new.tests = tests
  BY <1>1, <1>4, <1>5 DEF CachedSuites
<1> HIDE DEF new
<1>8. IsCurrentSuite(new, n, k)
  BY <1>6, <1>7, ChangedSuiteIsCurrent
<1> QED BY <1>8 DEF new

LEMMA CrossOverIsCurrent ==
  ASSUME CachesAreCurrent, NEW s \in DOMAIN suites, NEW t \in DOMAIN suites, C!CrossOver(s, t)
  PROVE  CachesAreCurrent'
<1> DEFINE m == Len(suites[s].tests)
           n == Len(suites[t].tests)
<1>1. /\ m >= 2 /\ n >= 2 /\ s # t
      /\ \E k \in 0 .. (m - 1) * (n - 1) - 1 :
           suites' = [suites EXCEPT
             ![s] = C!Joined(@, k \div (n - 1) + 1, suites[t], k \div (m - 1) + 1),
             ![t] = C!Joined(@, k \div (m - 1) + 1, suites[s], k \div (n - 1) + 1)]
      /\ UNCHANGED <<registered, restricted, instrumented, versions>>
  BY DEF C!CrossOver
<1>2. /\ IsCurrentSuite(suites[s], instrumented, restricted) /\ m \in Nat
      /\ IsCurrentSuite(suites[t], instrumented, restricted) /\ n \in Nat
  BY DEF CachesAreCurrent, IsCurrentSuite, CachedSuites
<1>3. PICK k \in 0 .. (m - 1) * (n - 1) - 1 :
        suites' = [suites EXCEPT
          ![s] = C!Joined(@, k \div (n - 1) + 1, suites[t], k \div (m - 1) + 1),
          ![t] = C!Joined(@, k \div (m - 1) + 1, suites[s], k \div (n - 1) + 1)]
  BY <1>1
<1> DEFINE p == k \div (n - 1) + 1
           q == k \div (m - 1) + 1
<1>4. p \in 1 .. m /\ q \in 1 .. n
  <2> HIDE DEF m, n
  <2>1. p \in 1 .. m
    BY <1>1, <1>2, SplitIsWithin
  <2>2. k \in 0 .. (n - 1) * (m - 1) - 1
    BY <1>1, <1>2
  <2>3. q \in 1 .. n
    BY <1>1, <1>2, <2>2, SplitIsWithin
  <2> QED BY <2>1, <2>3
<1>5. /\ DOMAIN suites' = DOMAIN suites /\ suites' = [x \in DOMAIN suites' |-> suites'[x]]
      /\ \A x \in DOMAIN suites :
           suites'[x] = IF x = t THEN C!Joined(suites[t], q, suites[s], p)
                        ELSE IF x = s THEN C!Joined(suites[s], p, suites[t], q) ELSE suites[x]
  BY <1>1, <1>3
<1> HIDE DEF p, q
<1>6. /\ IsCurrentSuite(C!Joined(suites[s], p, suites[t], q), instrumented, restricted)
      /\ IsCurrentSuite(C!Joined(suites[t], q, suites[s], p), instrumented, restricted)
  BY <1>2, <1>4, JoinedIsCurrent
<1>7. \A x \in DOMAIN suites' : IsCurrentSuite(suites'[x], instrumented, restricted)
  BY <1>5, <1>6 DEF CachesAreCurrent
<1> QED BY <1>1, <1>5, <1>7 DEF CachesAreCurrent

LEMMA RestrictIsCurrent == CachesAreCurrent /\ C!Restrict => CachesAreCurrent'
<1> SUFFICES ASSUME CachesAreCurrent, C!Restrict PROVE CachesAreCurrent'
  OBVIOUS
<1> DEFINE empty == C!Empty(C!SuiteSlots)
<1>1. /\ suites' = [s \in DOMAIN suites |-> [suites[s] EXCEPT !.cache = empty]]
      /\ restricted' = restricted + 1 /\ UNCHANGED <<registered, instrumented, versions>>
  BY DEF C!Restrict
<1>2. empty \in [C!SuiteSlots -> SuiteValues] /\ \A slot \in C!SuiteSlots : empty[slot] = <<>>
  BY EmptyIsEmpty DEF SuiteValues
<1> HIDE DEF empty
<1>3. ASSUME NEW s \in DOMAIN suites PROVE IsCurrentSuite(suites'[s], instrumented, restricted')
  <2> DEFINE new == [suites[s] EXCEPT !.cache = empty]
  <2>1. suites'[s] = new
    BY <1>1
  <2>2. IsCurrentSuite(suites[s], instrumented, restricted) /\ suites[s] \in CachedSuites
    BY DEF CachesAreCurrent, IsCurrentSuite
  <2>3. /\ new \in CachedSuites /\ new.tests = suites[s].tests /\ new.cache = empty
    BY <1>2, <2>2 DEF CachedSuites
  <2> HIDE DEF new
  <2>4. IsCurrentSuite(new, instrumented, restricted')
    BY <1>2, <2>2, <2>3 DEF IsCurrentSuite
  <2> QED BY <2>1, <2>4
<1>4. DOMAIN suites' = DOMAIN suites /\ suites' = [s \in DOMAIN suites' |-> suites'[s]]
  BY <1>1
<1> QED BY <1>1, <1>3, <1>4 DEF CachesAreCurrent

(* What Reset leaves behind remembers nothing.                                      *)
LEMMA ResetIsCurrent ==
  ASSUME NEW suite \in CachedSuites, NEW n, NEW k
  PROVE  IsCurrentSuite(C!Reset(suite), n, k)
<1> DEFINE blank(t) == [t EXCEPT !.cache = C!Empty(C!TestSlots), !.ran = <<>>]
           tests == [i \in DOMAIN suite.tests |-> blank(suite.tests[i])]
           empty == C!Empty(C!SuiteSlots)
           new == C!Reset(suite)
<1>1. new = [suite EXCEPT !.cache = empty, !.tests = tests]
  BY DEF C!Reset, C!None
<1>2. ASSUME NEW t \in CachedTests
      PROVE  blank(t) \in CachedTests /\ IsCurrentTest(blank(t), n)
  <2> DEFINE none == C!Empty(C!TestSlots)
             b == blank(t)
  <2>1. none \in [C!TestSlots -> TestValues] /\ \A slot \in C!TestSlots : none[slot] = <<>>
    BY EmptyIsEmpty DEF TestValues
  <2>2. b = [t EXCEPT !.cache = none, !.ran = <<>>]
    OBVIOUS
  <2> HIDE DEF none, b
  <2>3. b \in CachedTests /\ b.cache = none /\ b.ran = <<>>
    BY <2>1, <2>2 DEF CachedTests, LastRuns
  <2>4. IsCurrentTest(b, n)
    BY <2>1, <2>3 DEF IsCurrentTest
  <2> QED BY <2>3, <2>4 DEF b
<1>3. suite.tests \in Seq(CachedTests) /\ \A i \in DOMAIN suite.tests : suite.tests[i] \in CachedTests
  BY DEF CachedSuites
<1> HIDE DEF blank
<1>4. /\ tests \in Seq(CachedTests) /\ \A i \in DOMAIN tests : IsCurrentTest(tests[i], n)
  <2>1. \A i \in DOMAIN suite.tests : tests[i] \in CachedTests /\ IsCurrentTest(tests[i], n)
    BY <1>2, <1>3
  <2>2. DOMAIN suite.tests = 1 .. Len(suite.tests) /\ Len(suite.tests) \in Nat
    BY <1>3
  <2>3. tests \in [1 .. Len(suite.tests) -> CachedTests]
    BY <2>1, <2>2
  <2>4. tests \in Seq(CachedTests)
    BY <2>2, <2>3
  <2> QED BY <2>1, <2>4
<1>5. empty \in [C!SuiteSlots -> SuiteValues] /\ \A slot \in C!SuiteSlots : empty[slot] = <<>>
  BY EmptyIsEmpty DEF SuiteValues
<1> HIDE DEF tests, empty, new
<1>6. new \in CachedSuites /\ new.tests = tests /\ new.cache = empty
  BY <1>1, <1>4, <1>5 DEF CachedSuites
<1>7. IsCurrentSuite(new, n, k)
  BY <1>4, <1>5, <1>6 DEF IsCurrentSuite
<1> QED BY <1>7 DEF new

LEMMA FinishIsCurrent ==
  ASSUME CachesAreCurrent, NEW s \in DOMAIN suites, C!Finish(s)
  PROVE  CachesAreCurrent'
<1>1. PICK hit \in SUBSET DOMAIN suites[s].tests :
        /\ versions' = versions + C!Cardinality(hit)
        /\ suites' = [x \in {s} |->
             C!Reset([suites[s] EXCEPT
                      !.tests = [i \in DOMAIN @ |->
                        IF i \in hit
                        THEN [@[i] EXCEPT !.version = versions + C!Cardinality({j \in hit : j <= i})]
                        ELSE @[i]]])]
  BY DEF C!Finish
<1> DEFINE old == suites[s].tests
           fresh(i) == versions + C!Cardinality({j \in hit : j <= i})
           tests == [i \in DOMAIN old |-> IF i \in hit THEN [old[i] EXCEPT !.version = fresh(i)]
                                                       ELSE old[i]]
           new == [suites[s] EXCEPT !.tests = tests]
<1>2. suites' = [x \in {s} |-> C!Reset(new)]
  BY <1>1
<1>3. /\ suites[s] \in CachedSuites /\ old \in Seq(CachedTests) /\ versions \in Nat
      /\ DOMAIN old = 1 .. Len(old) /\ Len(old) \in Nat
      /\ registered \subseteq CoverageFuns \cup FinalFuns /\ restricted \in Nat
  BY DEF CachesAreCurrent, IsCurrentSuite, CachedSuites
<1>4. /\ registered' = registered \cup FinalFuns /\ instrumented' = 1
      /\ restricted' = restricted
  BY DEF C!Finish
<1>5. C!Cardinality(hit) \in Nat
  <2>1. hit \in SUBSET (1 .. Len(old))
    BY <1>3
  <2> QED BY <1>3, <2>1, CountIsNat
<1>6. ASSUME NEW i \in DOMAIN old PROVE tests[i] \in CachedTests
  <2> DEFINE before == {j \in hit : j <= i}
  <2>1. before \in SUBSET (1 .. Len(old))
    BY <1>3
  <2>2. tests[i] = IF i \in hit THEN [old[i] EXCEPT !.version = versions + C!Cardinality(before)]
                                ELSE old[i]
    OBVIOUS
  <2> HIDE DEF before, tests
  <2>3. versions + C!Cardinality(before) \in Nat
    <3>1. C!Cardinality(before) \in Nat
      BY <1>3, <2>1, CountIsNat
    <3> QED BY <1>3, <3>1
  <2>4. old[i] \in CachedTests
    BY <1>3
  <2>5. [old[i] EXCEPT !.version = versions + C!Cardinality(before)] \in CachedTests
    BY <2>3, <2>4 DEF CachedTests
  <2> QED BY <2>2, <2>4, <2>5
<1>7. tests \in Seq(CachedTests)
  <2>1. tests = [i \in 1 .. Len(old) |-> tests[i]]
    BY <1>3
  <2> HIDE DEF tests
  <2>2. tests \in [1 .. Len(old) -> CachedTests]
    BY <1>3, <1>6, <2>1
  <2> QED BY <1>3, <2>2
<1> HIDE DEF tests
<1>8. new \in CachedSuites
  BY <1>3, <1>7 DEF CachedSuites
<1> HIDE DEF new
<1>9. \A x \in DOMAIN suites' : IsCurrentSuite(suites'[x], instrumented', restricted')
  BY <1>2, <1>8, ResetIsCurrent
<1>10. suites' = [x \in DOMAIN suites' |-> suites'[x]]
  BY <1>2
<1>11. versions' \in Nat
  BY <1>1, <1>3, <1>5
<1> QED BY <1>3, <1>4, <1>9, <1>10, <1>11 DEF CachesAreCurrent

LEMMA CachesBeginCurrent == C!Init => CachesAreCurrent
<1> SUFFICES ASSUME C!Init PROVE CachesAreCurrent
  OBVIOUS
<1>1. PICK s \in Suites, n \in 1 .. MaxTests :
        suites = [x \in {s} |-> C!NewSuite(n)] /\ versions = n
  BY DEF C!Init
<1> DEFINE tests == [i \in 1 .. n |-> C!NewTest(i)]
           new == C!NewSuite(n)
<1>2. new = [tests |-> tests, changed |-> TRUE, cache |-> C!Empty(C!SuiteSlots)]
  BY DEF C!NewSuite
<1>3. n \in Nat
  OBVIOUS
<1>4. \A i \in 1 .. n : tests[i] \in CachedTests /\ IsCurrentTest(tests[i], instrumented)
  <2>1. \A i \in 1 .. n : IsCurrentTest(C!NewTest(i), instrumented)
    BY <1>3, NewTestIsCurrent
  <2> QED BY <2>1 DEF IsCurrentTest
<1>5. DOMAIN tests = 1 .. n /\ tests \in Seq(CachedTests)
  <2>1. tests \in [1 .. n -> CachedTests]
    BY <1>4
  <2> QED BY <1>3, <2>1
<1>6. C!Empty(C!SuiteSlots) \in [C!SuiteSlots -> SuiteValues]
  BY EmptyIsEmpty DEF SuiteValues
<1> HIDE DEF tests, new
<1>7. new \in CachedSuites /\ new.changed /\ new.tests = tests
  BY <1>2, <1>5, <1>6 DEF CachedSuites
<1>8. IsCurrentSuite(new, instrumented, restricted)
  BY <1>4, <1>5, <1>7, ChangedSuiteIsCurrent
<1>9. suites = [x \in {s} |-> new]
  BY <1>1 DEF new
<1>10. /\ suites = [x \in DOMAIN suites |-> suites[x]]
       /\ \A x \in DOMAIN suites : IsCurrentSuite(suites[x], instrumented, restricted)
  BY <1>8, <1>9
<1> QED BY <1>1, <1>3, <1>10 DEF C!Init, CachesAreCurrent

(* A step of a search keeps all this.                                               *)
LEMMA CachesStayCurrent == CachesAreCurrent /\ (C!Next \/ UNCHANGED cVars) => CachesAreCurrent'
<1> SUFFICES ASSUME CachesAreCurrent, C!Next \/ UNCHANGED cVars PROVE CachesAreCurrent'
  OBVIOUS
<1>1. CASE UNCHANGED cVars \/ C!Done
  BY <1>1 DEF cVars, C!Done, C!vars, CachesAreCurrent
<1>2. CASE \E s \in DOMAIN suites :
             \E kind \in C!Kinds : \E only : C!AskSuite(s, kind, only)
  BY <1>2, AskSuiteIsCurrent
<1>3. CASE \E s \in DOMAIN suites :
             \E i \in DOMAIN suites[s].tests, slot \in C!TestSlots : C!AskTest(s, i, slot[1], slot[2])
  BY <1>3, AskTestIsCurrent
<1>4. CASE \E s \in DOMAIN suites :
             \/ \E c \in Suites : C!Clone(s, c)
             \/ C!Mutate(s)
             \/ \E t \in DOMAIN suites : C!CrossOver(s, t)
             \/ C!Finish(s)
  BY <1>4, CloneIsCurrent, MutateIsCurrent, CrossOverIsCurrent, FinishIsCurrent
<1>5. CASE C!Restrict
  BY <1>5, RestrictIsCurrent
<1> QED BY <1>1, <1>2, <1>3, <1>4, <1>5 DEF C!Next

(* Whatever was cached, cloned, recombined, mutated, executed or restricted before,   *)
(* no chromosome answers with a value of what it was (computations.py, chromosome.py). *)
THEOREM ValuesAreAlwaysCurrent == MCSpec => ValuesAreCurrent
<1>1. MCInit => CachesInv
  BY CachesBeginCurrent DEF MCInit, CachesInv
<1>2. CachesInv /\ [MCNext]_allVars => CachesInv'
  <2> SUFFICES ASSUME CachesInv, [MCNext]_allVars PROVE CachesInv'
    OBVIOUS
  <2>1. CASE component # "caches"
    BY <2>1 DEF MCNext, ExecutorStep, CachesStep, TestCasesStep, allVars, CachesInv
  <2>2. CASE component = "caches"
    <3>1. C!Next \/ UNCHANGED cVars
      BY <2>2 DEF MCNext, ExecutorStep, CachesStep, TestCasesStep, allVars
    <3> QED BY <2>2, <3>1, CachesStayCurrent DEF CachesInv
  <2> QED BY <2>1, <2>2
<1>3. CachesInv /\ [MCNext]_allVars =>
        [C!SuiteAnswersAreCurrent /\ C!TestAnswersAreCurrent]_(C!vars)
  <2> SUFFICES ASSUME CachesInv, [MCNext]_allVars, ~UNCHANGED cVars
               PROVE  C!SuiteAnswersAreCurrent /\ C!TestAnswersAreCurrent
    BY DEF cVars, C!vars
  <2>1. CachesAreCurrent
    BY DEF MCNext, ExecutorStep, CachesStep, TestCasesStep, allVars, CachesInv
  <2> QED
    BY <2>1, AskSuiteIsCurrent, AskTestIsCurrent
       DEF C!SuiteAnswersAreCurrent, C!TestAnswersAreCurrent
<1> QED BY <1>1, <1>2, <1>3, PTL DEF MCSpec, MCNext, ValuesAreCurrent, C!ValuesAreCurrent

--------------------------------------------------------------------------------
(* Test cases: how they are taken apart and put together.                          *)

TestStatements(t) == {t[i] : i \in DOMAIN t}

LEMMA TestShape ==
  ASSUME NEW t, T!IsTest(t)
  PROVE  /\ Len(t) \in Nat /\ DOMAIN t = 1 .. Len(t) /\ Len(t) <= MaxStatements
         /\ t \in [1 .. Len(t) -> T!Statement]
         /\ \A i \in 1 .. Len(t) : /\ t[i] \in T!Statement /\ t[i].id \in T!Ids
                                   /\ t[i].kind \in T!Kinds /\ t[i].uses \subseteq T!Ids
<1>1. t \in Seq(T!Statement) /\ Len(t) <= MaxStatements
  BY DEF T!IsTest
<1>2. /\ Len(t) \in Nat /\ DOMAIN t = 1 .. Len(t) /\ t \in [1 .. Len(t) -> T!Statement]
      /\ \A i \in 1 .. Len(t) : t[i] \in T!Statement
  BY <1>1
<1>3. \A s \in T!Statement : s.id \in T!Ids /\ s.kind \in T!Kinds /\ s.uses \subseteq T!Ids
  BY DEF T!Statement
<1> QED BY <1>1, <1>2, <1>3

(* A test is known by its statements.                                              *)
LEMMA StatementsMakeTest ==
  ASSUME NEW n \in Nat, n <= MaxStatements, NEW t \in [1 .. n -> T!Statement],
         \A i, j \in 1 .. n : t[i].id = t[j].id => i = j,
         \A i \in 1 .. n : \A v \in t[i].uses : \E j \in 1 .. i - 1 : t[j].id = v
  PROVE  T!IsTest(t) /\ Len(t) = n
<1>1. t \in Seq(T!Statement) /\ Len(t) = n /\ DOMAIN t = 1 .. n
  OBVIOUS
<1>2. T!WellFormed(t)
  BY <1>1 DEF T!WellFormed, T!Objects
<1> QED BY <1>1, <1>2 DEF T!IsTest

LEMMA UsesAreDefined ==
  ASSUME NEW t, T!IsTest(t), NEW i \in 1 .. Len(t), NEW v \in t[i].uses
  PROVE  \E j \in 1 .. i - 1 : t[j].id = v
BY TestShape DEF T!IsTest, T!WellFormed, T!Objects

LEMMA IdsDiffer ==
  ASSUME NEW t, T!IsTest(t), NEW i \in 1 .. Len(t), NEW j \in 1 .. Len(t), t[i].id = t[j].id
  PROVE  i = j
BY TestShape DEF T!IsTest, T!WellFormed

LEMMA PositionIsFound ==
  ASSUME NEW t, T!IsTest(t), NEW i \in 1 .. Len(t)
  PROVE  T!PositionOf(t, t[i].id) = i
<1>1. DOMAIN t = 1 .. Len(t)
  BY TestShape
<1>2. T!PositionOf(t, t[i].id) \in 1 .. Len(t) /\ t[T!PositionOf(t, t[i].id)].id = t[i].id
  BY <1>1 DEF T!PositionOf
<1> QED BY <1>2, IdsDiffer

LEMMA CloneIsTest ==
  ASSUME NEW t, T!IsTest(t)
  PROVE  /\ T!IsTest(T!Clone(t)) /\ Len(T!Clone(t)) = Len(t)
         /\ \A i \in 1 .. Len(t) : T!Clone(t)[i].kind = t[i].kind
<1> DEFINE c == T!Clone(t)
           uses(i) == {T!PositionOf(t, v) : v \in t[i].uses}
           new(i) == [id |-> i, kind |-> t[i].kind, uses |-> uses(i)]
<1>1. /\ Len(t) \in Nat /\ DOMAIN t = 1 .. Len(t) /\ Len(t) <= MaxStatements /\ MaxStatements \in Nat
      /\ \A i \in 1 .. Len(t) : t[i] \in T!Statement /\ t[i].kind \in T!Kinds
  BY TestShape, OtherConstants DEF T!ConstantsType
<1>2. \A i \in 1 .. Len(t) : \A u \in uses(i) : u \in 1 .. i - 1
  <2> SUFFICES ASSUME NEW i \in 1 .. Len(t), NEW v \in t[i].uses
               PROVE  T!PositionOf(t, v) \in 1 .. i - 1
    OBVIOUS
  <2>1. PICK j \in 1 .. i - 1 : t[j].id = v
    BY UsesAreDefined
  <2>2. j \in 1 .. Len(t)
    BY <1>1
  <2> QED BY <2>1, <2>2, PositionIsFound
<1>3. \A i \in 1 .. Len(t) : c[i] = new(i)
  <2> SUFFICES ASSUME NEW i \in 1 .. Len(t) PROVE c[i] = new(i)
    OBVIOUS
  <2>1. c[i] = [t[i] EXCEPT !.id = i, !.uses = uses(i)]
    BY <1>1 DEF T!Clone
  <2> HIDE DEF c, uses
  <2> QED BY <2>1, <1>1 DEF T!Statement
<1>4. \A i \in 1 .. Len(t) : new(i) \in T!Statement
  BY <1>1, <1>2 DEF T!Statement, T!Ids
<1>5. c \in [1 .. Len(t) -> T!Statement]
  <2>1. DOMAIN c = 1 .. Len(t) /\ c = [i \in DOMAIN c |-> c[i]]
    BY <1>1 DEF T!Clone
  <2> HIDE DEF c, new
  <2>2. \A i \in 1 .. Len(t) : c[i] \in T!Statement
    BY <1>3, <1>4
  <2> QED BY <2>1, <2>2
<1>6. \A i \in 1 .. Len(t) : \A v \in uses(i) : v \in 1 .. Len(t)
  BY <1>1, <1>2
<1>7. c = T!Clone(t)
  OBVIOUS
<1> HIDE DEF c, uses
<1>8. \A i \in 1 .. Len(t) : c[i].id = i /\ c[i].kind = t[i].kind /\ c[i].uses = uses(i)
  <2> SUFFICES ASSUME NEW i \in 1 .. Len(t)
               PROVE  c[i].id = i /\ c[i].kind = t[i].kind /\ c[i].uses = uses(i)
    OBVIOUS
  <2>1. c[i] = new(i)
    BY <1>3
  <2> QED BY <2>1
<1> HIDE DEF new
<1>9. T!IsTest(c) /\ Len(c) = Len(t)
  <2>1. \A i \in 1 .. Len(t) : \A v \in c[i].uses : \E j \in 1 .. i - 1 : c[j].id = v
    <3> SUFFICES ASSUME NEW i \in 1 .. Len(t), NEW v \in c[i].uses
                 PROVE  \E j \in 1 .. i - 1 : c[j].id = v
      OBVIOUS
    <3>1. v \in 1 .. i - 1 /\ v \in 1 .. Len(t)
      BY <1>2, <1>8, <1>6
    <3> QED BY <3>1, <1>8
  <2> QED BY <1>1, <1>5, <1>8, <2>1, StatementsMakeTest
<1> QED BY <1>8, <1>7, <1>9

LEMMA ChopIsTest ==
  ASSUME NEW t, T!IsTest(t), NEW n \in 0 .. Len(t)
  PROVE  T!IsTest(T!Chop(t, n)) /\ Len(T!Chop(t, n)) = n
<1>1. /\ Len(t) \in Nat /\ DOMAIN t = 1 .. Len(t) /\ Len(t) <= MaxStatements /\ MaxStatements \in Nat
      /\ t \in Seq(T!Statement) /\ \A i \in 1 .. Len(t) : t[i] \in T!Statement
  BY TestShape, OtherConstants DEF T!ConstantsType, T!IsTest
<1> DEFINE c == T!Chop(t, n)
<1>2. c \in Seq(T!Statement) /\ Len(c) = n /\ \A i \in 1 .. n : c[i] = t[i]
  BY <1>1 DEF T!Chop
<1>3. c \in [1 .. n -> T!Statement]
  BY <1>2
<1>4. n \in Nat /\ n <= MaxStatements
  BY <1>1
<1>5. \A i, j \in 1 .. n : c[i].id = c[j].id => i = j
  BY <1>1, <1>2, IdsDiffer
<1>6. \A i \in 1 .. n : \A v \in c[i].uses : \E j \in 1 .. i - 1 : c[j].id = v
  BY <1>1, <1>2, UsesAreDefined
<1>7. c = T!Chop(t, n)
  OBVIOUS
<1> HIDE DEF c
<1>8. T!IsTest(c)
  BY <1>3, <1>4, <1>5, <1>6, StatementsMakeTest
<1> QED BY <1>2, <1>7, <1>8

LEMMA IntervalIsFinite ==
  ASSUME NEW n \in Nat
  PROVE  IsFiniteSet(1 .. n) /\ Cardinality(1 .. n) = n
BY FS_Interval

(* The statements at some positions keep their order.                              *)
LEMMA RanksAreDistinct ==
  ASSUME NEW m \in Nat, NEW P \in SUBSET (1 .. m), NEW i \in P, NEW k \in P, i < k
  PROVE  Cardinality({j \in P : j <= i}) < Cardinality({j \in P : j <= k})
<1> DEFINE B(n) == {j \in P : j <= n}
<1>1. IsFiniteSet(1 .. m)
  BY IntervalIsFinite
<1>2. IsFiniteSet(P)
  BY <1>1, FS_Subset
<1>3. /\ IsFiniteSet(B(i)) /\ Cardinality(B(i)) \in Nat
      /\ IsFiniteSet(B(k)) /\ Cardinality(B(k)) \in Nat
  BY <1>2, FS_Subset, FS_CardinalityType
<1>4. B(i) \subseteq B(k) /\ k \in B(k) /\ k \notin B(i)
  <2>1. i \in Int /\ k \in Int /\ \A j \in P : j \in Int
    OBVIOUS
  <2>2. k \in B(k) /\ k \notin B(i)
    BY <2>1
  <2>3. \A j \in P : j <= i => j <= k
    BY <2>1
  <2> QED BY <2>2, <2>3
<1> HIDE DEF B
<1>5. Cardinality(B(i)) <= Cardinality(B(k)) /\ Cardinality(B(i)) # Cardinality(B(k))
  BY <1>3, <1>4, FS_Subset
<1>6. Cardinality(B(i)) < Cardinality(B(k))
  BY <1>3, <1>5
<1> QED BY <1>6 DEF B

Enumerates(place, c, P) ==
  /\ place \in [1 .. c -> P]
  /\ \A n, k \in 1 .. c : n < k => place[n] < place[k]
  /\ \A i \in P : \E n \in 1 .. c : place[n] = i

KeepsOrder(s, t, P) ==
  \E place : /\ Enumerates(place, Cardinality(P), P)
            /\ s = [n \in 1 .. Cardinality(P) |-> t[place[n]]]

LEMMA PlacesExist ==
  ASSUME NEW m \in Nat, NEW t, NEW P \in SUBSET (1 .. m)
  PROVE  /\ Cardinality(P) \in Nat /\ Cardinality(P) <= m
         /\ KeepsOrder(T!At(t, P), t, P)
<1> DEFINE c == Cardinality(P)
           B(i) == {j \in P : j <= i}
           rank == [i \in P |-> Cardinality(B(i))]
           Nth(n) == CHOOSE i \in P : Cardinality(B(i)) = n
           place == [n \in 1 .. c |-> Nth(n)]
<1>1. IsFiniteSet(1 .. m) /\ Cardinality(1 .. m) = m
  BY IntervalIsFinite
<1>2. IsFiniteSet(P) /\ c \in Nat /\ c <= m
  <2>1. IsFiniteSet(P) /\ Cardinality(P) <= Cardinality(1 .. m)
    BY <1>1, FS_Subset
  <2> QED BY <1>1, <2>1, FS_CardinalityType
<1>3. \A i \in P : Cardinality(B(i)) \in 1 .. c
  <2> SUFFICES ASSUME NEW i \in P PROVE Cardinality(B(i)) \in 1 .. c
    OBVIOUS
  <2>1. B(i) \subseteq P /\ i \in B(i)
    OBVIOUS
  <2> HIDE DEF B, c
  <2>2. IsFiniteSet(B(i)) /\ Cardinality(B(i)) \in Nat /\ Cardinality(B(i)) <= c
    BY <1>2, <2>1, FS_Subset, FS_CardinalityType DEF c
  <2>3. Cardinality(B(i)) # 0
    BY <2>1, <2>2, FS_EmptySet
  <2> QED BY <1>2, <2>2, <2>3
<1>4. \A i, k \in P : i < k => Cardinality(B(i)) < Cardinality(B(k))
  BY RanksAreDistinct
<1> HIDE DEF B
<1>5. \A i, k \in P : i # k => Cardinality(B(i)) # Cardinality(B(k))
  <2> SUFFICES ASSUME NEW i \in P, NEW k \in P, i # k
               PROVE  Cardinality(B(i)) # Cardinality(B(k))
    OBVIOUS
  <2>1. i < k \/ k < i
    OBVIOUS
  <2> QED BY <1>2, <1>3, <1>4, <2>1
<1>6. rank \in Injection(P, 1 .. c)
  BY <1>3, <1>5 DEF Injection, IsInjective
<1>7. \A n \in 1 .. c : \E i \in P : Cardinality(B(i)) = n
  <2>1. IsFiniteSet(1 .. c) /\ Cardinality(1 .. c) = Cardinality(P)
    <3> HIDE DEF c
    <3> QED BY <1>2, IntervalIsFinite DEF c
  <2>2. rank \in Surjection(P, 1 .. c)
    BY <1>6, <2>1, FS_Injection
  <2> QED BY <2>2 DEF Surjection
<1>8. \A n \in 1 .. c : place[n] \in P /\ Cardinality(B(place[n])) = n
  BY <1>7
<1>9. place \in [1 .. c -> P]
  BY <1>8
<1>10. T!At(t, P) = [n \in 1 .. c |-> t[place[n]]]
  <2>1. T!At(t, P) = [n \in 1 .. c |-> t[Nth(n)]]
    BY DEF T!At, B, T!Cardinality, Cardinality
  <2> HIDE DEF Nth
  <2> QED BY <2>1
<1> HIDE DEF place
<1>11. \A n, k \in 1 .. c : n < k => place[n] < place[k]
  <2> SUFFICES ASSUME NEW n \in 1 .. c, NEW k \in 1 .. c, n < k, ~(place[n] < place[k])
               PROVE  FALSE
    OBVIOUS
  <2>1. place[n] \in P /\ place[k] \in P /\ place[n] \in 1 .. m /\ place[k] \in 1 .. m
    BY <1>8
  <2>2. place[k] < place[n] \/ place[k] = place[n]
    BY <2>1
  <2>3. CASE place[k] = place[n]
    BY <1>2, <1>8, <2>3
  <2>4. CASE place[k] < place[n]
    <3>1. Cardinality(B(place[k])) < Cardinality(B(place[n]))
      BY <1>4, <2>1, <2>4
    <3>2. k < n
      BY <1>8, <3>1
    <3> QED BY <1>2, <3>2
  <2> QED BY <2>2, <2>3, <2>4
<1>12. \A i \in P : \E n \in 1 .. c : place[n] = i
  <2> SUFFICES ASSUME NEW i \in P PROVE \E n \in 1 .. c : place[n] = i
    OBVIOUS
  <2>1. Cardinality(B(i)) \in 1 .. c
    BY <1>3
  <2> QED BY <1>5, <1>8, <2>1
<1>13. Enumerates(place, c, P)
  BY <1>9, <1>11, <1>12 DEF Enumerates
<1> QED BY <1>2, <1>10, <1>13 DEF KeepsOrder

(* Part of a test is a test if what its statements use stays.                      *)
LEMMA PartIsTest ==
  ASSUME NEW t, T!IsTest(t), NEW P \in SUBSET (1 .. Len(t)),
         \A i \in P : \A v \in t[i].uses : \E j \in P : t[j].id = v
  PROVE  /\ T!IsTest(T!At(t, P)) /\ Len(T!At(t, P)) = Cardinality(P)
         /\ Cardinality(P) \in Nat /\ Cardinality(P) <= Len(t)
         /\ \A n \in 1 .. Cardinality(P) : \E i \in P : T!At(t, P)[n] = t[i]
         /\ \A i \in P : \E n \in 1 .. Cardinality(P) : T!At(t, P)[n] = t[i]
<1> DEFINE c == Cardinality(P)
           s == T!At(t, P)
<1>1. /\ Len(t) \in Nat /\ DOMAIN t = 1 .. Len(t) /\ Len(t) <= MaxStatements
      /\ MaxStatements \in Nat /\ \A i \in 1 .. Len(t) : t[i] \in T!Statement
  BY TestShape, OtherConstants DEF T!ConstantsType
<1>2. c \in Nat /\ c <= Len(t) /\ c <= MaxStatements
  <2>1. c \in Nat /\ c <= Len(t)
    BY <1>1, PlacesExist
  <2> HIDE DEF c
  <2> QED BY <1>1, <2>1
<1>3. PICK place : Enumerates(place, c, P) /\ s = [n \in 1 .. c |-> t[place[n]]]
  <2>1. KeepsOrder(s, t, P)
    BY <1>1, PlacesExist
  <2> QED BY <2>1 DEF KeepsOrder
<1>10. c = Cardinality(P) /\ s = T!At(t, P)
  OBVIOUS
<1> HIDE DEF s, c
<1>9. /\ place \in [1 .. c -> P]
      /\ \A n, k \in 1 .. c : n < k => place[n] < place[k]
      /\ \A i \in P : \E n \in 1 .. c : place[n] = i
  BY <1>3 DEF Enumerates
<1>4. \A n \in 1 .. c : place[n] \in P /\ place[n] \in 1 .. Len(t) /\ s[n] = t[place[n]]
  BY <1>3, <1>9
<1>5. s \in [1 .. c -> T!Statement]
  BY <1>1, <1>3, <1>4, <1>9
<1>6. \A n, k \in 1 .. c : s[n].id = s[k].id => n = k
  <2> SUFFICES ASSUME NEW n \in 1 .. c, NEW k \in 1 .. c, s[n].id = s[k].id PROVE n = k
    OBVIOUS
  <2>1. place[n] = place[k]
    BY <1>4, IdsDiffer
  <2> QED BY <1>1, <1>2, <1>4, <1>9, <2>1
<1>7. \A n \in 1 .. c : \A v \in s[n].uses : \E k \in 1 .. n - 1 : s[k].id = v
  <2> SUFFICES ASSUME NEW n \in 1 .. c, NEW v \in s[n].uses
               PROVE  \E k \in 1 .. n - 1 : s[k].id = v
    OBVIOUS
  <2>1. v \in t[place[n]].uses
    BY <1>4
  <2>2. PICK j \in P : t[j].id = v
    BY <1>4, <2>1
  <2>3. PICK i \in 1 .. place[n] - 1 : t[i].id = v
    BY <1>4, <2>1, UsesAreDefined
  <2>4. i \in 1 .. Len(t) /\ j \in 1 .. Len(t) /\ place[n] \in 1 .. Len(t)
    BY <1>1, <1>4
  <2>5. i = j
    BY <2>2, <2>3, <2>4, IdsDiffer
  <2>6. j < place[n]
    BY <2>4, <2>5
  <2>7. PICK k \in 1 .. c : place[k] = j
    BY <1>9
  <2>8. k \in 1 .. n - 1
    <3>1. ~(n < k) /\ n # k
      BY <1>9, <2>4, <2>6, <2>7
    <3> QED BY <1>2, <3>1
  <2> QED BY <1>4, <2>2, <2>7, <2>8
<1>8. T!IsTest(s) /\ Len(s) = c
  BY <1>1, <1>2, <1>5, <1>6, <1>7, StatementsMakeTest
<1>11. \A n \in 1 .. c : \E i \in P : s[n] = t[i]
  BY <1>4
<1>12. \A i \in P : \E n \in 1 .. c : s[n] = t[i]
  BY <1>4, <1>9
<1> QED BY <1>2, <1>8, <1>10, <1>11, <1>12

(* A statement that uses other variables, or becomes another call.                 *)
Changed(t, p, kind, uses) == [t EXCEPT ![p] = [id |-> t[p].id, kind |-> kind, uses |-> uses]]

LEMMA ChangedIsTest ==
  ASSUME NEW t, T!IsTest(t), NEW p \in 1 .. Len(t), NEW kind \in T!Kinds,
         NEW uses \in SUBSET T!Objects(t, p)
  PROVE  T!IsTest(Changed(t, p, kind, uses)) /\ Len(Changed(t, p, kind, uses)) = Len(t)
<1> DEFINE new == [id |-> t[p].id, kind |-> kind, uses |-> uses]
           s == Changed(t, p, kind, uses)
<1>1. /\ Len(t) \in Nat /\ Len(t) <= MaxStatements /\ MaxStatements \in Nat
      /\ t \in [1 .. Len(t) -> T!Statement]
      /\ \A i \in 1 .. Len(t) : t[i].id \in T!Ids
  BY TestShape, OtherConstants DEF T!ConstantsType
<1>2. \A v \in uses : \E j \in 1 .. p - 1 : t[j].id = v
  BY DEF T!Objects
<1>3. uses \subseteq T!Ids
  BY <1>1, <1>2
<1>4. new \in T!Statement /\ new.id = t[p].id /\ new.uses = uses
  BY <1>1, <1>3 DEF T!Statement
<1>5. s = [t EXCEPT ![p] = new]
  BY DEF Changed
<1>6. s = Changed(t, p, kind, uses)
  OBVIOUS
<1> HIDE DEF new, s
<1>7. /\ s \in [1 .. Len(t) -> T!Statement]
      /\ \A i \in 1 .. Len(t) : s[i] = IF i = p THEN new ELSE t[i]
  BY <1>1, <1>4, <1>5
<1>8. \A i \in 1 .. Len(t) : s[i].id = t[i].id
  BY <1>4, <1>7
<1>9. \A i, j \in 1 .. Len(t) : s[i].id = s[j].id => i = j
  BY <1>8, IdsDiffer
<1>10. \A i \in 1 .. Len(t) : \A v \in s[i].uses : \E j \in 1 .. i - 1 : s[j].id = v
  <2> SUFFICES ASSUME NEW i \in 1 .. Len(t), NEW v \in s[i].uses
               PROVE  \E j \in 1 .. i - 1 : s[j].id = v
    OBVIOUS
  <2>1. PICK j \in 1 .. i - 1 : t[j].id = v
    <3>1. CASE i = p
      BY <1>2, <1>4, <1>7, <3>1
    <3>2. CASE i # p
      BY <1>7, <3>2, UsesAreDefined
    <3> QED BY <3>1, <3>2
  <2>2. j \in 1 .. Len(t)
    BY <1>1
  <2> QED BY <1>8, <2>1, <2>2
<1>11. T!IsTest(s) /\ Len(s) = Len(t)
  BY <1>1, <1>7, <1>9, <1>10, StatementsMakeTest
<1> QED BY <1>6, <1>11

(* Deletion, after uses of the variable were given to others.                      *)
LEMMA ReplacedIsTest ==
  ASSUME NEW t, T!IsTest(t), NEW p \in 1 .. Len(t), NEW s \in T!Replaced(t, p)
  PROVE  T!IsTest(s) /\ Len(s) = Len(t)
<1> DEFINE v == t[p].id
           users == {i \in DOMAIN t : v \in t[i].uses}
<1>1. /\ Len(t) \in Nat /\ Len(t) <= MaxStatements /\ MaxStatements \in Nat
      /\ t \in [1 .. Len(t) -> T!Statement] /\ DOMAIN t = 1 .. Len(t)
      /\ \A i \in 1 .. Len(t) : t[i] \in T!Statement /\ t[i].id \in T!Ids /\ t[i].uses \subseteq T!Ids
  BY TestShape, OtherConstants DEF T!ConstantsType
<1>2. PICK r \in [users -> T!Variables(t)] :
        /\ \A i \in users : r[i] \in T!Objects(t, i)
        /\ s = [i \in DOMAIN t |-> IF i \in users
                                   THEN [t[i] EXCEPT !.uses = (@ \ {v}) \cup {r[i]}]
                                   ELSE t[i]]
  BY DEF T!Replaced
<1>3. \A i \in users : i \in 1 .. Len(t) /\ \E j \in 1 .. i - 1 : t[j].id = r[i]
  BY <1>1, <1>2 DEF T!Objects
<1> HIDE DEF users, v
<1> DEFINE uses(i) == IF i \in users THEN (t[i].uses \ {v}) \cup {r[i]} ELSE t[i].uses
<1>4. ASSUME NEW i \in 1 .. Len(t)
      PROVE  /\ s[i] \in T!Statement /\ s[i].id = t[i].id /\ s[i].uses = uses(i)
             /\ \A w \in uses(i) : \E j \in 1 .. i - 1 : t[j].id = w
  <2>1. CASE i \in users
    <3>1. s[i] = [t[i] EXCEPT !.uses = (t[i].uses \ {v}) \cup {r[i]}]
      BY <1>1, <1>2, <2>1
    <3>2. PICK j \in 1 .. i - 1 : t[j].id = r[i]
      BY <1>3, <2>1
    <3>3. r[i] \in T!Ids
      <4>1. j \in 1 .. Len(t)
        BY <1>1
      <4> QED BY <1>1, <3>2, <4>1
    <3>4. uses(i) = (t[i].uses \ {v}) \cup {r[i]} /\ uses(i) \subseteq T!Ids
      BY <1>1, <2>1, <3>3
    <3>5. \A w \in uses(i) : \E k \in 1 .. i - 1 : t[k].id = w
      <4> SUFFICES ASSUME NEW w \in uses(i) PROVE \E k \in 1 .. i - 1 : t[k].id = w
        OBVIOUS
      <4>1. w \in t[i].uses \/ w = r[i]
        BY <3>4
      <4> QED BY <3>2, <4>1, UsesAreDefined
    <3> HIDE DEF uses
    <3>6. s[i] = [t[i] EXCEPT !.uses = uses(i)]
      BY <3>1, <3>4
    <3>7. s[i] \in T!Statement /\ s[i].id = t[i].id /\ s[i].uses = uses(i)
      BY <1>1, <3>4, <3>6 DEF T!Statement
    <3> QED BY <3>5, <3>7
  <2>2. CASE i \notin users
    <3>1. s[i] = t[i] /\ uses(i) = t[i].uses
      BY <1>1, <1>2, <2>2
    <3> QED BY <1>1, <3>1, UsesAreDefined
  <2> QED BY <2>1, <2>2
<1> HIDE DEF uses
<1>5. s \in [1 .. Len(t) -> T!Statement]
  <2>1. s = [i \in DOMAIN t |-> s[i]]
    BY <1>2
  <2> QED BY <1>1, <1>4, <2>1
<1>6. \A i, j \in 1 .. Len(t) : s[i].id = s[j].id => i = j
  BY <1>4, IdsDiffer
<1>7. \A i \in 1 .. Len(t) : \A w \in s[i].uses : \E j \in 1 .. i - 1 : s[j].id = w
  <2> SUFFICES ASSUME NEW i \in 1 .. Len(t), NEW w \in s[i].uses
               PROVE  \E j \in 1 .. i - 1 : s[j].id = w
    OBVIOUS
  <2>1. PICK j \in 1 .. i - 1 : t[j].id = w
    BY <1>4
  <2>2. j \in 1 .. Len(t)
    BY <1>1
  <2> QED BY <1>4, <2>1, <2>2
<1> QED BY <1>1, <1>5, <1>6, <1>7, StatementsMakeTest

LEMMA DeletedIsTest ==
  ASSUME NEW t, T!IsTest(t), NEW p \in 1 .. Len(t), NEW s \in T!DeleteGracefully(t, p)
  PROVE  T!IsTest(s)
<1>1. PICK r \in T!Replaced(t, p) : s = T!DeleteStatement(r, p)
  BY DEF T!DeleteGracefully
<1>2. T!IsTest(r) /\ Len(r) = Len(t) /\ DOMAIN r = 1 .. Len(r)
  BY ReplacedIsTest, TestShape
<1> DEFINE v == r[p].id
           gone == T!Dependents(r, v)
           P == {i \in DOMAIN r : r[i].id \notin gone}
<1>3. s = T!At(r, P)
  BY <1>1 DEF T!DeleteStatement, T!Without
<1>4. P \in SUBSET (1 .. Len(r))
  BY <1>2
<1>5. \A i \in P : \A w \in r[i].uses : \E j \in P : r[j].id = w
  <2> SUFFICES ASSUME NEW i \in P, NEW w \in r[i].uses, w \in gone PROVE FALSE
    <3>1. ASSUME NEW i \in P, NEW w \in r[i].uses, w \notin gone
          PROVE  \E j \in P : r[j].id = w
      <4>1. i \in 1 .. Len(r)
        BY <1>4
      <4>2. PICK j \in 1 .. i - 1 : r[j].id = w
        BY <1>2, <3>1, <4>1, UsesAreDefined
      <4>3. Len(r) \in Nat
        BY <1>2, TestShape
      <4>4. j \in DOMAIN r
        BY <1>2, <4>1, <4>3
      <4> QED BY <3>1, <4>2, <4>4
    <3> HIDE DEF P, gone
    <3> QED BY <3>1
  <2>1. i \in DOMAIN r /\ r[i].id \notin gone
    OBVIOUS
  <2>2. r[i].id \in T!Variables(r)
    BY <2>1 DEF T!Variables
  <2>3. ASSUME NEW D \in SUBSET T!Variables(r), v \in D,
               \A k \in DOMAIN r : r[k].uses \cap D # {} => r[k].id \in D
        PROVE  r[i].id \in D
    <3>1. w \in D
      BY <2>3 DEF T!Dependents
    <3> QED BY <2>1, <2>3, <3>1
  <2>4. r[i].id \in gone
    BY <2>2, <2>3 DEF T!Dependents
  <2> QED BY <2>1, <2>4
<1> HIDE DEF P
<1> QED BY <1>2, <1>3, <1>4, <1>5, PartIsTest

(* Construction.                                                                   *)
LEMMA VariableIsNew ==
  ASSUME NEW t, T!IsTest(t), Len(t) < MaxStatements
  PROVE  T!NewVariable(t) \in T!Ids /\ \A i \in 1 .. Len(t) : t[i].id # T!NewVariable(t)
<1>1. /\ Len(t) \in Nat /\ MaxStatements \in Nat /\ DOMAIN t = 1 .. Len(t)
      /\ \A i \in 1 .. Len(t) : t[i].id \in T!Ids
  BY TestShape, OtherConstants DEF T!ConstantsType
<1>2. \E v \in T!Ids : v \notin T!Variables(t)
  <2> SUFFICES ASSUME \A v \in T!Ids : v \in T!Variables(t) PROVE FALSE
    OBVIOUS
  <2> DEFINE at == [v \in T!Ids |-> CHOOSE i \in 1 .. Len(t) : t[i].id = v]
  <2>1. \A v \in T!Ids : \E i \in 1 .. Len(t) : t[i].id = v
    BY <1>1 DEF T!Variables
  <2>2. \A v \in T!Ids : at[v] \in 1 .. Len(t) /\ t[at[v]].id = v
    BY <2>1
  <2>3. at \in [T!Ids -> 1 .. Len(t)]
    BY <2>2
  <2> HIDE DEF at
  <2>4. at \in Injection(T!Ids, 1 .. Len(t))
    BY <2>2, <2>3 DEF Injection, IsInjective
  <2>5. IsFiniteSet(1 .. Len(t)) /\ Cardinality(1 .. Len(t)) = Len(t)
    BY <1>1, IntervalIsFinite
  <2>6. IsFiniteSet(T!Ids) /\ Cardinality(T!Ids) = MaxStatements
    BY <1>1, IntervalIsFinite DEF T!Ids
  <2>7. Cardinality(T!Ids) <= Cardinality(1 .. Len(t))
    BY <2>4, <2>5, FS_Injection
  <2> QED BY <1>1, <2>5, <2>6, <2>7
<1>3. T!NewVariable(t) \in T!Ids /\ T!NewVariable(t) \notin T!Variables(t)
  BY <1>2 DEF T!NewVariable
<1> QED BY <1>1, <1>3 DEF T!Variables

(* One new statement, and all others behind and before it.                         *)
Extends(s, t, p) ==
  /\ T!IsTest(s) /\ Len(s) = Len(t) + 1
  /\ \A i \in 1 .. Len(t) : s[IF i < p THEN i ELSE i + 1] = t[i]

LEMMA SplicedIsTest ==
  ASSUME NEW t, T!IsTest(t), Len(t) < MaxStatements, NEW p \in 1 .. Len(t) + 1,
         NEW kind \in T!Kinds, NEW uses \in SUBSET T!Objects(t, p)
  PROVE  LET new == [id |-> T!NewVariable(t), kind |-> kind, uses |-> uses]
             s == T!Splice(t, p, <<new>>)
         IN  Extends(s, t, p) /\ s[p] = new
<1> DEFINE new == [id |-> T!NewVariable(t), kind |-> kind, uses |-> uses]
           s == T!Splice(t, p, <<new>>)
<1>1. /\ Len(t) \in Nat /\ MaxStatements \in Nat /\ t \in Seq(T!Statement)
      /\ \A i \in 1 .. Len(t) : t[i] \in T!Statement /\ t[i].id \in T!Ids
  BY TestShape, OtherConstants DEF T!ConstantsType, T!IsTest
<1>2. \A v \in uses : \E j \in 1 .. p - 1 : t[j].id = v
  BY DEF T!Objects
<1>3. uses \subseteq T!Ids
  BY <1>1, <1>2
<1>4. /\ new \in T!Statement /\ new.uses = uses
      /\ \A i \in 1 .. Len(t) : t[i].id # new.id
  BY <1>1, <1>3, VariableIsNew DEF T!Statement
<1>5. new = [id |-> T!NewVariable(t), kind |-> kind, uses |-> uses] /\ s = T!Splice(t, p, <<new>>)
  OBVIOUS
<1> HIDE DEF new
<1>6. /\ s \in Seq(T!Statement) /\ Len(s) = Len(t) + 1
      /\ \A i \in 1 .. Len(t) + 1 :
           s[i] = IF i < p THEN t[i] ELSE IF i = p THEN new ELSE t[i - 1]
  <2> DEFINE front == SubSeq(t, 1, p - 1)
             back == SubSeq(t, p, Len(t))
  <2>1. /\ front \in Seq(T!Statement) /\ Len(front) = p - 1
        /\ \A i \in 1 .. p - 1 : front[i] = t[i]
    BY <1>1
  <2>2. /\ back \in Seq(T!Statement) /\ Len(back) = Len(t) + 1 - p
        /\ \A i \in 1 .. Len(t) + 1 - p : back[i] = t[p + i - 1]
    BY <1>1
  <2>3. <<new>> \in Seq(T!Statement) /\ Len(<<new>>) = 1 /\ <<new>>[1] = new
    BY <1>4
  <2>4. s = front \o <<new>> \o back
    BY DEF T!Splice
  <2> HIDE DEF front, back, s
  <2> DEFINE both == front \o <<new>>
  <2>5. both \in Seq(T!Statement) /\ Len(both) = p
        /\ \A i \in 1 .. p : both[i] = IF i < p THEN t[i] ELSE new
    BY <1>1, <2>1, <2>3
  <2>6. s = both \o back
    BY <2>4
  <2> HIDE DEF both
  <2>7. s \in Seq(T!Statement) /\ Len(s) = Len(t) + 1
    BY <1>1, <2>2, <2>5, <2>6
  <2>8. ASSUME NEW i \in 1 .. Len(t) + 1
        PROVE  s[i] = IF i < p THEN t[i] ELSE IF i = p THEN new ELSE t[i - 1]
    <3>1. CASE i <= p
      <4>1. i \in 1 .. p /\ s[i] = both[i]
        BY <1>1, <2>2, <2>5, <2>6, <3>1
      <4> QED BY <2>5, <3>1, <4>1
    <3>2. CASE i > p
      <4>1. i - p \in 1 .. Len(t) + 1 - p /\ s[i] = back[i - p]
        BY <1>1, <2>2, <2>5, <2>6, <3>2
      <4>2. back[i - p] = t[p + (i - p) - 1] /\ p + (i - p) - 1 = i - 1
        BY <1>1, <2>2, <4>1
      <4> QED BY <3>2, <4>1, <4>2
    <3> QED BY <1>1, <3>1, <3>2
  <2> QED BY <2>7, <2>8
<1> HIDE DEF s
<1>7. ASSUME NEW i \in 1 .. Len(t)
      PROVE  s[IF i < p THEN i ELSE i + 1] = t[i]
  <2>1. CASE i < p
    <3>1. i \in 1 .. Len(t) + 1
      BY <1>1
    <3> QED BY <1>6, <2>1, <3>1
  <2>2. CASE ~(i < p)
    <3>1. i + 1 \in 1 .. Len(t) + 1 /\ ~(i + 1 < p) /\ i + 1 # p /\ (i + 1) - 1 = i
      BY <1>1, <2>2
    <3>2. s[i + 1] = t[(i + 1) - 1]
      BY <1>6, <3>1
    <3> QED BY <2>2, <3>1, <3>2
  <2> QED BY <2>1, <2>2
<1>8. s[p] = new
  BY <1>1, <1>6
<1>9. s \in [1 .. Len(t) + 1 -> T!Statement]
  BY <1>1, <1>6
<1>10. \A i, j \in 1 .. Len(t) + 1 : s[i].id = s[j].id => i = j
  <2> SUFFICES ASSUME NEW i \in 1 .. Len(t) + 1, NEW j \in 1 .. Len(t) + 1, s[i].id = s[j].id
               PROVE  i = j
    OBVIOUS
  <2> DEFINE old(k) == IF k < p THEN k ELSE k - 1
  <2>1. \A k \in 1 .. Len(t) + 1 : k # p => old(k) \in 1 .. Len(t) /\ s[k] = t[old(k)]
    BY <1>1, <1>6
  <2>2. CASE i = p \/ j = p
    BY <1>4, <1>8, <2>1, <2>2
  <2>3. CASE i # p /\ j # p
    <3>1. old(i) = old(j)
      BY <2>1, <2>3, IdsDiffer
    <3> QED BY <1>1, <2>3, <3>1
  <2> QED BY <2>2, <2>3
<1>11. \A i \in 1 .. Len(t) + 1 : \A v \in s[i].uses : \E j \in 1 .. i - 1 : s[j].id = v
  <2> SUFFICES ASSUME NEW i \in 1 .. Len(t) + 1, NEW v \in s[i].uses
               PROVE  \E j \in 1 .. i - 1 : s[j].id = v
    OBVIOUS
  <2>1. CASE i <= p
    <3>1. PICK j \in 1 .. i - 1 : t[j].id = v
      <4>1. CASE i = p
        BY <1>2, <1>4, <1>8, <4>1
      <4>2. CASE i < p
        <5>1. i \in 1 .. Len(t) /\ s[i] = t[i]
          BY <1>1, <1>6, <4>2
        <5> QED BY <5>1, UsesAreDefined
      <4> QED BY <2>1, <4>1, <4>2
    <3>2. s[j] = t[j]
      BY <1>1, <1>6, <2>1
    <3> QED BY <3>1, <3>2
  <2>2. CASE i > p
    <3>1. i - 1 \in 1 .. Len(t) /\ s[i] = t[i - 1]
      BY <1>1, <1>6, <2>2
    <3>2. PICK j \in 1 .. i - 1 - 1 : t[j].id = v
      BY <3>1, UsesAreDefined
    <3>3. j \in 1 .. Len(t)
      BY <1>1, <3>1
    <3> DEFINE k == IF j < p THEN j ELSE j + 1
    <3>4. k \in 1 .. i - 1 /\ s[k] = t[j]
      BY <1>1, <1>7, <2>2, <3>1, <3>2, <3>3
    <3> QED BY <3>2, <3>4
  <2> QED BY <1>1, <2>1, <2>2
<1>12. T!IsTest(s) /\ Len(s) = Len(t) + 1
  <2> DEFINE m == Len(t) + 1
  <2>1. m \in Nat /\ m <= MaxStatements
    BY <1>1
  <2>2. /\ s \in [1 .. m -> T!Statement]
        /\ \A i, j \in 1 .. m : s[i].id = s[j].id => i = j
        /\ \A i \in 1 .. m : \A v \in s[i].uses : \E j \in 1 .. i - 1 : s[j].id = v
    BY <1>9, <1>10, <1>11
  <2> HIDE DEF m
  <2>3. T!IsTest(s) /\ Len(s) = m
    BY <2>1, <2>2, StatementsMakeTest
  <2> QED BY <2>3 DEF m
<1> QED BY <1>5, <1>7, <1>8, <1>12 DEF Extends

LEMMA WithNewIsTest ==
  ASSUME NEW t, T!IsTest(t), NEW p \in 1 .. Len(t) + 1, NEW kinds \in SUBSET T!Kinds,
         NEW s \in T!WithNew(t, p, kinds)
  PROVE  Extends(s, t, p) /\ s[p].kind \in kinds
<1>1. Len(t) < MaxStatements
  BY DEF T!WithNew
<1>2. PICK ku \in UNION {{<<k, u>> : u \in T!UsesFor(k, T!Objects(t, p))} : k \in kinds} :
        s = T!Splice(t, p, <<[id |-> T!NewVariable(t), kind |-> ku[1], uses |-> ku[2]]>>)
  BY <1>1 DEF T!WithNew
<1>3. PICK kind \in kinds : \E u \in T!UsesFor(kind, T!Objects(t, p)) : ku = <<kind, u>>
  BY <1>2
<1>4. PICK uses \in T!UsesFor(kind, T!Objects(t, p)) : ku = <<kind, uses>>
  BY <1>3
<1>5. uses \in SUBSET T!Objects(t, p)
  BY <1>4 DEF T!UsesFor
<1>6. s = T!Splice(t, p, <<[id |-> T!NewVariable(t), kind |-> kind, uses |-> uses]>>)
  BY <1>2, <1>4
<1>7. Extends(s, t, p) /\ s[p] = [id |-> T!NewVariable(t), kind |-> kind, uses |-> uses]
  BY <1>1, <1>5, <1>6, SplicedIsTest
<1> QED BY <1>7

LEMMA SameStatementsSameTest ==
  ASSUME NEW t, T!IsTest(t), NEW s \in Seq(T!Statement), Len(s) = Len(t),
         \A i \in 1 .. Len(t) : s[i] = t[i]
  PROVE  s = t
<1>1. Len(t) \in Nat /\ t \in [1 .. Len(t) -> T!Statement]
  BY TestShape
<1>2. s \in [1 .. Len(t) -> T!Statement]
  BY <1>1
<1> QED BY <1>1, <1>2

LEMMA RollbackRestores ==
  ASSUME NEW t, T!IsTest(t), NEW p \in 1 .. Len(t) + 1, NEW s, s = t \/ Extends(s, t, p)
  PROVE  T!Rollback(s, Len(t), p) = t
<1> DEFINE d == Len(s) - Len(t)
           front == SubSeq(s, 1, p - 1)
           back == SubSeq(s, p + d, Len(s))
<1>1. /\ Len(t) \in Nat /\ t \in Seq(T!Statement) /\ s \in Seq(T!Statement)
      /\ Len(s) = Len(t) + d /\ d \in {0, 1}
  <2>1. Len(t) \in Nat /\ t \in Seq(T!Statement)
    BY TestShape DEF T!IsTest
  <2>2. CASE s = t
    BY <2>1, <2>2
  <2>3. CASE Extends(s, t, p)
    BY <2>1, <2>3 DEF Extends, T!IsTest
  <2> QED BY <2>2, <2>3
<1>2. ASSUME NEW i \in 1 .. Len(t)
      PROVE  (i < p => s[i] = t[i]) /\ (i >= p => s[i + d] = t[i])
  <2>1. CASE s = t
    BY <1>1, <2>1
  <2>2. CASE Extends(s, t, p)
    BY <1>1, <2>2 DEF Extends
  <2> QED BY <2>1, <2>2
<1>3. T!Rollback(s, Len(t), p) = front \o back
  BY DEF T!Rollback
<1> HIDE DEF d
<1>4. /\ front \in Seq(T!Statement) /\ Len(front) = p - 1
      /\ \A i \in 1 .. p - 1 : front[i] = s[i]
  BY <1>1
<1>5. /\ back \in Seq(T!Statement) /\ Len(back) = Len(t) + 1 - p
      /\ \A i \in 1 .. Len(t) + 1 - p : back[i] = s[p + d + i - 1]
  BY <1>1
<1> DEFINE both == front \o back
<1> HIDE DEF front, back
<1>6. both \in Seq(T!Statement) /\ Len(both) = Len(t)
  BY <1>1, <1>4, <1>5
<1>7. ASSUME NEW i \in 1 .. Len(t) PROVE both[i] = t[i]
  <2>1. CASE i < p
    <3>1. i \in 1 .. p - 1 /\ both[i] = front[i]
      BY <1>1, <1>4, <1>5, <2>1
    <3> QED BY <1>2, <1>4, <2>1, <3>1
  <2>2. CASE i >= p
    <3>1. i - p + 1 \in 1 .. Len(t) + 1 - p /\ both[i] = back[i - p + 1]
      BY <1>1, <1>4, <1>5, <2>2
    <3>2. p + d + (i - p + 1) - 1 = i + d
      BY <1>1, <2>2
    <3>3. back[i - p + 1] = s[i + d]
      BY <1>5, <3>1, <3>2
    <3> QED BY <1>2, <2>2, <3>1, <3>3
  <2>3. i < p \/ i >= p
    BY <1>1
  <2> QED BY <2>1, <2>2, <2>3
<1> HIDE DEF both
<1>8. both = t
  BY <1>6, <1>7, SameStatementsSameTest
<1> QED BY <1>3, <1>8 DEF both

(* A test that kept its statements, if it became longer.                           *)
Grown(s, t) ==
  /\ T!IsTest(s) /\ Len(s) >= Len(t)
  /\ Len(s) = Len(t) => s = t
  /\ T!HasCallOnSut(t) => T!HasCallOnSut(s)

LEMMA ExtendedIsGrown ==
  ASSUME NEW t, T!IsTest(t), NEW p \in 1 .. Len(t) + 1, NEW s, Extends(s, t, p)
  PROVE  Grown(s, t) /\ Len(s) > Len(t)
<1>1. /\ Len(t) \in Nat /\ DOMAIN t = 1 .. Len(t)
      /\ T!IsTest(s) /\ Len(s) = Len(t) + 1 /\ DOMAIN s = 1 .. Len(s)
  BY TestShape DEF Extends
<1>2. ASSUME T!HasCallOnSut(t) PROVE T!HasCallOnSut(s)
  <2>1. PICK i \in 1 .. Len(t) : t[i].kind = "sut"
    BY <1>1, <1>2 DEF T!HasCallOnSut
  <2> DEFINE k == IF i < p THEN i ELSE i + 1
  <2>2. k \in DOMAIN s
    BY <1>1
  <2>3. s[k] = t[i]
    BY DEF Extends
  <2> HIDE DEF k
  <2> QED BY <2>1, <2>2, <2>3 DEF T!HasCallOnSut
<1>3. Len(s) >= Len(t) /\ Len(s) > Len(t) /\ Len(s) # Len(t)
  <2> DEFINE m == Len(t)
             n == Len(s)
  <2>1. m \in Nat /\ n = m + 1
    BY <1>1
  <2> HIDE DEF m, n
  <2>2. n >= m /\ n > m /\ n # m
    BY <2>1
  <2> QED BY <2>2 DEF m, n
<1> QED BY <1>1, <1>2, <1>3 DEF Grown

LEMMA InsertedIsGrown ==
  ASSUME NEW t, T!IsTest(t), NEW p \in 1 .. Len(t) + 1, NEW r \in T!InsertRandom(t, p)
  PROVE  Grown(r, t)
<1>1. PICK s \in T!Satisfied(t, p) :
        r \in T!WithNew(s, p + (Len(s) - Len(t)), T!Calls) \cup {T!Rollback(s, Len(t), p)}
  BY DEF T!InsertRandom
<1>2. Len(t) \in Nat
  BY TestShape
<1>3. s = t \/ Extends(s, t, p)
  BY <1>1, WithNewIsTest DEF T!Satisfied
<1>4. T!IsTest(s) /\ Grown(s, t) /\ Len(s) - Len(t) \in {0, 1}
  <2>1. CASE s = t
    BY <1>2, <2>1 DEF Grown
  <2>2. CASE Extends(s, t, p)
    BY <1>2, <2>2, ExtendedIsGrown DEF Extends
  <2> QED BY <1>3, <2>1, <2>2
<1>5. CASE r \in T!WithNew(s, p + (Len(s) - Len(t)), T!Calls)
  <2> DEFINE q == p + (Len(s) - Len(t))
  <2>1. Len(s) \in Nat
    BY <1>4, TestShape
  <2>2. q \in 1 .. Len(s) + 1 /\ T!Calls \in SUBSET T!Kinds
    BY <1>2, <1>4, <2>1 DEF T!Calls, T!Kinds
  <2> HIDE DEF q
  <2>3. Extends(r, s, q)
    BY <1>4, <1>5, <2>2, WithNewIsTest DEF q
  <2>4. Grown(r, s) /\ Len(r) > Len(s)
    BY <1>4, <2>2, <2>3, ExtendedIsGrown
  <2>5. Len(r) \in Nat
    BY <2>4, TestShape DEF Grown
  <2> QED BY <1>2, <1>4, <2>1, <2>4, <2>5 DEF Grown
<1>6. CASE r = T!Rollback(s, Len(t), p)
  <2>1. r = t
    BY <1>3, <1>6, RollbackRestores
  <2> QED BY <1>2, <2>1 DEF Grown
<1> QED BY <1>1, <1>5, <1>6

LEMMA AppendedIsTest ==
  ASSUME NEW t, T!IsTest(t), NEW kind, NEW r \in T!Appended(t, kind)
  PROVE  T!IsTest(r)
<1>1. Len(t) \in Nat /\ Len(t) + 1 \in 1 .. Len(t) + 1
  BY TestShape
<1>2. kind = "primitive" \/ kind \in T!Calls
  BY DEF T!Appended
<1>3. {kind} \in SUBSET T!Kinds /\ T!Kinds \in SUBSET T!Kinds
  BY <1>2 DEF T!Kinds, T!Calls
<1>4. CASE kind = "primitive"
  <2>1. T!Appended(t, kind) = T!WithNew(t, Len(t) + 1, {kind})
    BY <1>4 DEF T!Appended, T!Calls
  <2>2. r \in T!WithNew(t, Len(t) + 1, {kind})
    BY <2>1
  <2> QED BY <1>1, <1>3, <2>2, WithNewIsTest DEF Extends
<1>5. CASE kind # "primitive"
  <2>1. T!Appended(t, kind) =
          UNION {T!WithNew(s, Len(s) + 1, {kind}) : s \in T!Satisfied(t, Len(t) + 1)}
    BY <1>2, <1>5 DEF T!Appended
  <2>2. PICK s \in T!Satisfied(t, Len(t) + 1) : r \in T!WithNew(s, Len(s) + 1, {kind})
    BY <2>1
  <2>3. T!IsTest(s)
    BY <1>1, <1>3, WithNewIsTest DEF T!Satisfied, Extends
  <2>4. Len(s) + 1 \in 1 .. Len(s) + 1
    BY <2>3, TestShape
  <2> QED BY <1>3, <2>2, <2>3, <2>4, WithNewIsTest DEF Extends
<1> QED BY <1>4, <1>5

--------------------------------------------------------------------------------
(* Test cases: what is true of them between any two steps.                         *)

TestsAreRight ==
  /\ T!IsTest(test) /\ T!IsTest(backup) /\ T!IsTest(offspring)
  /\ idx \in Nat
  /\ tPc = "change" => idx > 0 /\ last \in 0 .. Len(test)
  /\ tPc \in {"delete", "change", "insert"} /\ ~dirty => test = backup
  /\ tPc = "reinsert" /\ T!HasCallOnSut(backup) => dirty /\ T!HasCallOnSut(test)
  /\ T!OnlyUsedStatementsStay

TestsInv == component = "testcases" => TestsAreRight

LEMMA EmptyIsTest == T!IsTest(<<>>)
<1>1. <<>> \in [1 .. 0 -> T!Statement] /\ 0 \in Nat /\ 0 <= MaxStatements
  BY OtherConstants DEF T!ConstantsType
<1> DEFINE e == <<>>
<1>2. \A i, j \in 1 .. 0 : e[i].id = e[j].id => i = j
  OBVIOUS
<1>3. \A i \in 1 .. 0 : \A v \in e[i].uses : \E j \in 1 .. i - 1 : e[j].id = v
  OBVIOUS
<1> HIDE DEF e
<1>4. T!IsTest(e)
  <2>1. e \in [1 .. 0 -> T!Statement]
    BY <1>1 DEF e
  <2> QED BY <1>1, <1>2, <1>3, <2>1, StatementsMakeTest
<1> QED BY <1>4 DEF e

LEMMA TestsBeginRight == T!Init => TestsAreRight
<1> SUFFICES ASSUME T!Init PROVE TestsAreRight
  OBVIOUS
<1>1. T!IsTest(test)
  BY OtherConstants DEF T!Init, T!ConstantsType
<1> QED BY <1>1, EmptyIsTest DEF T!Init, TestsAreRight, T!OnlyUsedStatementsStay

LEMMA LastIsInTest ==
  ASSUME NEW t, T!IsTest(t)
  PROVE  T!LastMutatable(t) \in 0 .. Len(t) /\ T!LastMutatable(t) \in Nat
BY TestShape DEF T!LastMutatable

(* Only the flags and the result of the test change.                               *)
LEMMA OthersStayRight ==
  ASSUME TestsAreRight,
         T!Execute \/ T!DeleteDone \/ T!ChangeDone \/ T!Mutated \/ T!GiveUpCrossOver
  PROVE  TestsAreRight'
<1>1. CASE T!Execute
  BY <1>1 DEF TestsAreRight, T!Execute, T!Begin, T!OnlyUsedStatementsStay, T!crossVars
<1>2. CASE T!DeleteDone
  BY <1>2, LastIsInTest DEF TestsAreRight, T!DeleteDone, T!OnlyUsedStatementsStay, T!crossVars
<1>3. CASE T!ChangeDone
  BY <1>3 DEF TestsAreRight, T!ChangeDone, T!OnlyUsedStatementsStay, T!crossVars
<1>4. CASE T!Mutated
  BY <1>4, EmptyIsTest DEF TestsAreRight, T!Mutated, T!OnlyUsedStatementsStay, T!crossVars
<1>5. CASE T!GiveUpCrossOver
  BY <1>5, EmptyIsTest DEF TestsAreRight, T!GiveUpCrossOver, T!OnlyUsedStatementsStay
<1> QED BY <1>1, <1>2, <1>3, <1>4, <1>5

LEMMA MutateIsRight == TestsAreRight /\ T!Mutate => TestsAreRight'
<1> SUFFICES ASSUME TestsAreRight, T!Mutate PROVE TestsAreRight'
  OBVIOUS
<1> DEFINE t == T!Clone(test)
           chops == Len(t) >= ChromosomeLength /\ T!LastMutatable(t) > 0
           c == IF chops THEN T!Chop(t, T!LastMutatable(t)) ELSE t
<1>1. T!IsTest(t)
  BY CloneIsTest DEF TestsAreRight
<1>2. T!IsTest(c)
  <2> HIDE DEF t
  <2>1. T!IsTest(T!Chop(t, T!LastMutatable(t)))
    BY <1>1, LastIsInTest, ChopIsTest
  <2> HIDE DEF chops
  <2> QED BY <1>1, <2>1
<1>3. test' = c /\ backup' = c /\ idx' = T!LastMutatable(c) /\ tPc' = "delete" /\ offspring' = offspring
  BY DEF T!Mutate, T!Begin, T!crossVars
<1> HIDE DEF c
<1>4. idx' \in Nat
  BY <1>2, <1>3, LastIsInTest
<1> QED BY <1>2, <1>3, <1>4 DEF TestsAreRight, T!OnlyUsedStatementsStay

LEMMA DeleteStepIsRight == TestsAreRight /\ T!DeleteStep => TestsAreRight'
<1> SUFFICES ASSUME TestsAreRight, T!DeleteStep PROVE TestsAreRight'
  OBVIOUS
<1>1. /\ tPc = "delete" /\ tPc' = "delete" /\ idx' = idx - 1 /\ idx > 0
      /\ backup' = backup /\ offspring' = offspring
  BY DEF T!DeleteStep, T!crossVars
<1>2. idx' \in Nat
  BY <1>1 DEF TestsAreRight
<1>3. T!IsTest(test') /\ (~dirty' => test' = backup')
  <2>1. CASE UNCHANGED <<test, dirty>>
    BY <1>1, <2>1 DEF TestsAreRight
  <2>2. CASE idx \in DOMAIN test /\ test' \in T!DeleteGracefully(test, idx) /\ dirty' = TRUE
    <3>1. T!IsTest(test) /\ idx \in 1 .. Len(test)
      BY <2>2, TestShape DEF TestsAreRight
    <3> QED BY <2>2, <3>1, DeletedIsTest
  <2> QED BY <2>1, <2>2 DEF T!DeleteStep
<1> QED BY <1>1, <1>2, <1>3 DEF TestsAreRight, T!OnlyUsedStatementsStay

OtherUses(t, p, uses) == [t EXCEPT ![p].uses = uses]

LEMMA OtherUsesAreRight ==
  ASSUME NEW t, T!IsTest(t), NEW p \in 1 .. Len(t), NEW uses \in SUBSET T!Objects(t, p)
  PROVE  T!IsTest(OtherUses(t, p, uses)) /\ Len(OtherUses(t, p, uses)) = Len(t)
<1>1. t[p] \in T!Statement /\ t[p].kind \in T!Kinds /\ DOMAIN t = 1 .. Len(t)
  BY TestShape
<1>2. OtherUses(t, p, uses) = [t EXCEPT ![p] = [t[p] EXCEPT !.uses = uses]]
  BY <1>1 DEF OtherUses
<1>3. [t[p] EXCEPT !.uses = uses] = [id |-> t[p].id, kind |-> t[p].kind, uses |-> uses]
  BY <1>1 DEF T!Statement
<1>4. OtherUses(t, p, uses) = Changed(t, p, t[p].kind, uses)
  BY <1>2, <1>3 DEF Changed
<1> QED BY <1>1, <1>4, ChangedIsTest

LEMMA ChangeStepIsRight == TestsAreRight /\ T!ChangeStep => TestsAreRight'
<1> SUFFICES ASSUME TestsAreRight, T!ChangeStep PROVE TestsAreRight'
  OBVIOUS
<1>1. /\ tPc = "change" /\ tPc' = "change" /\ idx <= last
      /\ backup' = backup /\ offspring' = offspring /\ last' = last
  BY DEF T!ChangeStep, T!crossVars
<1>2. /\ T!IsTest(test) /\ Len(test) \in Nat /\ last \in 0 .. Len(test) /\ idx \in 1 .. Len(test)
      /\ test[idx].kind \in T!Kinds /\ test[idx].uses \subseteq T!Ids /\ idx \in Nat
      /\ DOMAIN test = 1 .. Len(test)
  <2>1. T!IsTest(test) /\ Len(test) \in Nat /\ last \in 0 .. Len(test) /\ idx \in 1 .. Len(test)
        /\ idx \in Nat
    BY <1>1, TestShape DEF TestsAreRight
  <2> QED BY <2>1, TestShape
<1>3. /\ T!IsTest(test') /\ Len(test') >= Len(test) /\ idx' \in Nat /\ idx' > 0
      /\ ~dirty' => test' = test /\ ~dirty
  <2>1. CASE UNCHANGED <<test, dirty>> /\ idx' = idx + 1
    BY <1>2, <2>1
  <2>2. CASE test[idx].kind = "primitive" /\ idx' = idx + 1 /\ UNCHANGED test /\ dirty' = TRUE
    BY <1>2, <2>2
  <2>3. CASE T!MutateCollection(idx) /\ dirty' = TRUE
    <3>1. PICK u \in T!UsesFor("collection", T!Objects(test, idx)) : test' = T!Reused(u, idx)
      BY <2>3 DEF T!MutateCollection
    <3>2. u \in SUBSET T!Objects(test, idx)
      BY <3>1 DEF T!UsesFor
    <3>3. test' = OtherUses(test, idx, u)
      BY <3>1 DEF T!Reused, OtherUses
    <3>4. T!IsTest(test') /\ Len(test') = Len(test)
      BY <1>2, <3>2, <3>3, OtherUsesAreRight
    <3> QED BY <1>2, <2>3, <3>4 DEF T!MutateCollection
  <2>4. CASE T!ChangeCall(idx) /\ dirty' = TRUE
    <3>1. PICK k \in T!Calls, u \in T!UsesFor("sut", T!Objects(test, idx)) :
            test' = [test EXCEPT ![idx] = [id |-> @.id, kind |-> k, uses |-> u]]
      BY <2>4 DEF T!ChangeCall
    <3>2. u \in SUBSET T!Objects(test, idx) /\ k \in T!Kinds
      BY <3>1 DEF T!UsesFor, T!Kinds
    <3>3. test' = Changed(test, idx, k, u)
      BY <3>1 DEF Changed
    <3>4. T!IsTest(test') /\ Len(test') = Len(test)
      BY <1>2, <3>2, <3>3, ChangedIsTest
    <3> QED BY <1>2, <2>4, <3>4 DEF T!ChangeCall
  <2>5. CASE T!MutateArgument(idx) /\ dirty' = TRUE
    <3>1. PICK t \in {test} \cup T!WithNew(test, idx, T!CopiedKinds(idx)) :
            LET q == idx + (Len(t) - Len(test))
            IN  \E v \in T!Objects(t, q), gone \in SUBSET t[q].uses :
                  /\ test' = [t EXCEPT ![q].uses = (@ \ gone) \cup {v}]
                  /\ idx' \in {q, q + 1}
      BY <2>5 DEF T!MutateArgument
    <3> DEFINE q == idx + (Len(t) - Len(test))
    <3>2. T!CopiedKinds(idx) \in SUBSET T!Kinds
      <4> SUFFICES ASSUME NEW v \in test[idx].uses
                   PROVE  test[T!PositionOf(test, v)].kind \in T!Kinds
        BY DEF T!CopiedKinds, T!Kinds
      <4>1. PICK j \in 1 .. idx - 1 : test[j].id = v
        BY <1>2, UsesAreDefined
      <4>2. j \in 1 .. Len(test)
        BY <1>2
      <4>3. T!PositionOf(test, v) = j
        BY <1>2, <4>1, <4>2, PositionIsFound
      <4> QED BY <1>2, <4>2, <4>3, TestShape
    <3>3. T!IsTest(t) /\ Len(t) - Len(test) \in {0, 1} /\ Len(t) \in Nat
      <4>1. CASE t = test
        BY <1>2, <4>1
      <4>2. CASE t # test
        <5>1. t \in T!WithNew(test, idx, T!CopiedKinds(idx)) /\ idx \in 1 .. Len(test) + 1
          BY <1>2, <4>2
        <5>2. T!IsTest(t) /\ Len(t) = Len(test) + 1
          BY <1>2, <3>2, <5>1, WithNewIsTest DEF Extends
        <5> QED BY <1>2, <5>2
      <4> QED BY <4>1, <4>2
    <3>4. q \in 1 .. Len(t) /\ q \in Nat /\ q > 0
      BY <1>2, <3>3
    <3>5. PICK v \in T!Objects(t, q), gone \in SUBSET t[q].uses :
            /\ test' = [t EXCEPT ![q].uses = (@ \ gone) \cup {v}]
            /\ idx' \in {q, q + 1}
      BY <3>1
    <3> HIDE DEF q
    <3> DEFINE uses == (t[q].uses \ gone) \cup {v}
    <3>6. t[q].uses \subseteq T!Objects(t, q) /\ t[q].kind \in T!Kinds /\ DOMAIN t = 1 .. Len(t)
      BY <3>3, <3>4, TestShape DEF T!IsTest, T!WellFormed
    <3>7. uses \in SUBSET T!Objects(t, q)
      BY <3>5, <3>6
    <3>8. test' = OtherUses(t, q, uses)
      BY <3>5 DEF OtherUses
    <3> HIDE DEF uses
    <3>9. T!IsTest(test') /\ Len(test') = Len(t)
      BY <3>3, <3>4, <3>7, <3>8, OtherUsesAreRight
    <3>10. idx' \in Nat /\ idx' > 0
      BY <3>4, <3>5
    <3>11. Len(test') >= Len(test)
      BY <1>2, <3>3, <3>9
    <3> QED BY <2>5, <3>9, <3>10, <3>11
  <2> QED BY <2>1, <2>2, <2>3, <2>4, <2>5 DEF T!ChangeStep
<1>4. last' \in 0 .. Len(test')
  <2>1. Len(test') \in Nat
    BY <1>3, TestShape
  <2> QED BY <1>1, <1>2, <1>3, <2>1
<1> QED BY <1>1, <1>3, <1>4 DEF TestsAreRight, T!OnlyUsedStatementsStay

LEMMA InsertIsRight == TestsAreRight /\ T!Insert => TestsAreRight'
<1> SUFFICES ASSUME TestsAreRight, T!Insert PROVE TestsAreRight'
  OBVIOUS
<1>1. /\ tPc \in {"insert", "reinsert"} /\ tPc' = tPc /\ idx' = idx
      /\ backup' = backup /\ offspring' = offspring
      /\ dirty' = (dirty \/ (tPc = "insert" /\ Len(test') > Len(test)))
  BY DEF T!Insert, T!crossVars
<1>2. T!IsTest(test) /\ Len(test) \in Nat /\ T!LastMutatable(test) \in 0 .. Len(test)
  BY TestShape, LastIsInTest DEF TestsAreRight
<1>3. PICK p \in 1 .. T!LastMutatable(test) + 1 : test' \in T!InsertRandom(test, p)
  BY DEF T!Insert
<1>4. p \in 1 .. Len(test) + 1
  BY <1>2
<1>5. Grown(test', test)
  BY <1>2, <1>3, <1>4, InsertedIsGrown
<1>6. /\ T!IsTest(test') /\ Len(test') \in Nat /\ Len(test') >= Len(test)
      /\ Len(test') = Len(test) => test' = test
      /\ T!HasCallOnSut(test) => T!HasCallOnSut(test')
  BY <1>5, TestShape DEF Grown
<1>7. tPc = "insert" /\ ~dirty' => ~dirty /\ test' = test
  <2> SUFFICES ASSUME tPc = "insert", ~dirty' PROVE ~dirty /\ test' = test
    OBVIOUS
  <2>1. ~dirty /\ ~(Len(test') > Len(test))
    BY <1>1
  <2>2. Len(test') = Len(test)
    BY <1>2, <1>6, <2>1
  <2> QED BY <1>6, <2>1, <2>2
<1> QED BY <1>1, <1>6, <1>7 DEF TestsAreRight, T!OnlyUsedStatementsStay

LEMMA RestoreIsRight == TestsAreRight /\ T!Restore => TestsAreRight'
<1> SUFFICES ASSUME TestsAreRight, T!Restore PROVE TestsAreRight'
  OBVIOUS
<1>1. /\ tPc = "insert" /\ ~T!HasCallOnSut(test) /\ test' = backup /\ tPc' = "reinsert"
      /\ backup' = backup /\ dirty' = dirty /\ idx' = idx /\ offspring' = offspring
  BY DEF T!Restore, T!crossVars
<1>2. T!HasCallOnSut(backup) => dirty
  BY <1>1 DEF TestsAreRight
<1>3. T!HasCallOnSut(backup)' = T!HasCallOnSut(backup) /\ T!HasCallOnSut(test)' = T!HasCallOnSut(backup)
  BY <1>1 DEF T!HasCallOnSut
<1>4. T!IsTest(test)' /\ T!IsTest(backup)' /\ T!IsTest(offspring)' /\ idx' \in Nat
  <2>1. T!IsTest(test') /\ T!IsTest(backup') /\ T!IsTest(offspring') /\ idx' \in Nat
    BY <1>1 DEF TestsAreRight
  <2> QED BY <2>1
<1> QED BY <1>1, <1>2, <1>3, <1>4 DEF TestsAreRight, T!OnlyUsedStatementsStay

LEMMA CrossOverIsRight ==
  ASSUME TestsAreRight, T!CrossOver \/ T!AppendNext \/ T!CrossedOver
  PROVE  TestsAreRight'
<1>1. CASE T!CrossOver
  <2>1. PICK partner \in Partners :
          /\ Len(partner) >= 2
          /\ \E pos \in T!SplitPositions(Len(test), Len(partner)) :
               /\ offspring' = T!Chop(T!Clone(test), pos[1])
               /\ idx' = pos[2] + 1
    BY <1>1 DEF T!CrossOver
  <2>2. PICK pos \in T!SplitPositions(Len(test), Len(partner)) :
          offspring' = T!Chop(T!Clone(test), pos[1]) /\ idx' = pos[2] + 1
    BY <2>1
  <2>3. T!IsTest(test) /\ Len(test) \in Nat /\ T!IsTest(partner) /\ Len(partner) \in Nat
    BY OtherConstants, TestShape DEF TestsAreRight, T!ConstantsType
  <2>4. pos[1] \in 1 .. Len(test) - 1 /\ pos[2] \in 1 .. Len(partner) - 1
    BY DEF T!SplitPositions
  <2>5. T!IsTest(T!Clone(test)) /\ Len(T!Clone(test)) = Len(test)
    BY <2>3, CloneIsTest
  <2>6. pos[1] \in 0 .. Len(T!Clone(test))
    BY <2>3, <2>4, <2>5
  <2>7. T!IsTest(offspring') /\ idx' \in Nat
    BY <2>2, <2>3, <2>4, <2>5, <2>6, ChopIsTest
  <2> QED BY <1>1, <2>7 DEF TestsAreRight, T!CrossOver, T!Begin, T!OnlyUsedStatementsStay
<1>2. CASE T!AppendNext
  <2>1. T!IsTest(offspring') /\ idx' \in Nat
    BY <1>2, AppendedIsTest DEF T!AppendNext, TestsAreRight
  <2> QED BY <1>2, <2>1 DEF TestsAreRight, T!AppendNext, T!OnlyUsedStatementsStay
<1>3. CASE T!CrossedOver
  <2>1. T!IsTest(test')
    BY <1>3 DEF T!CrossedOver, TestsAreRight
  <2> QED BY <1>3, <2>1, EmptyIsTest DEF TestsAreRight, T!CrossedOver, T!OnlyUsedStatementsStay
<1> QED BY <1>1, <1>2, <1>3

LEMMA TruncateIsRight == TestsAreRight /\ T!Truncate => TestsAreRight'
<1> SUFFICES ASSUME TestsAreRight, T!Truncate PROVE TestsAreRight'
  OBVIOUS
<1>1. T!IsTest(test) /\ T!LastMutatable(test) \in 0 .. Len(test)
  BY LastIsInTest DEF TestsAreRight
<1>2. T!IsTest(T!Chop(test, T!LastMutatable(test)))
  BY <1>1, ChopIsTest
<1>3. T!IsTest(test')
  BY <1>1, <1>2 DEF T!Truncate
<1> QED BY <1>3 DEF TestsAreRight, T!Truncate, T!OnlyUsedStatementsStay, T!crossVars

(* What a needed statement uses is needed, and what is needed is a call or is used   *)
(* by a needed statement.                                                            *)
LEMMA NeededIsClosed ==
  ASSUME NEW t, T!IsTest(t), NEW i \in 1 .. Len(t), t[i].id \in T!Needed(t)
  PROVE  /\ \A v \in t[i].uses : \E j \in 1 .. Len(t) : t[j].id = v /\ v \in T!Needed(t)
         /\ \/ t[i].kind \in T!Calls
            \/ \E k \in 1 .. Len(t) : t[k].id \in T!Needed(t) /\ t[i].id \in t[k].uses
<1> DEFINE Closed(K) == \A k \in 1 .. Len(t) : /\ t[k].kind \in T!Calls => t[k].id \in K
                                               /\ t[k].id \in K => t[k].uses \subseteq K
           N == T!Needed(t)
<1>1. DOMAIN t = 1 .. Len(t) /\ Len(t) \in Nat
  BY TestShape
<1>2. T!Variables(t) = {t[k].id : k \in 1 .. Len(t)}
  BY <1>1 DEF T!Variables
<1>3. N = {x \in T!Variables(t) : \A K \in SUBSET T!Variables(t) : Closed(K) => x \in K}
  BY <1>1 DEF T!Needed
<1>4. t[i].id \in N
  OBVIOUS
<1> HIDE DEF N
<1>5. \A k \in 1 .. Len(t) : t[k].id \in N => t[k].uses \subseteq N
  <2> SUFFICES ASSUME NEW k \in 1 .. Len(t), t[k].id \in N, NEW v \in t[k].uses PROVE v \in N
    OBVIOUS
  <2>1. PICK j \in 1 .. k - 1 : t[j].id = v
    BY UsesAreDefined
  <2>2. v \in T!Variables(t)
    BY <1>1, <1>2, <2>1
  <2>3. ASSUME NEW K \in SUBSET T!Variables(t), Closed(K) PROVE v \in K
    BY <1>3, <2>3
  <2> HIDE DEF Closed
  <2> QED BY <1>3, <2>2, <2>3
<1>6. \A v \in t[i].uses : \E j \in 1 .. Len(t) : t[j].id = v /\ v \in N
  <2> SUFFICES ASSUME NEW v \in t[i].uses PROVE \E j \in 1 .. Len(t) : t[j].id = v /\ v \in N
    OBVIOUS
  <2>1. PICK j \in 1 .. i - 1 : t[j].id = v
    BY UsesAreDefined
  <2>2. j \in 1 .. Len(t)
    BY <1>1, <2>1
  <2>3. v \in N
    BY <1>4, <1>5
  <2> QED BY <2>1, <2>2, <2>3
<1>7. t[i].kind \in T!Calls \/ \E k \in 1 .. Len(t) : t[k].id \in N /\ t[i].id \in t[k].uses
  <2> SUFFICES ASSUME t[i].kind \notin T!Calls,
                      \A k \in 1 .. Len(t) : t[k].id \in N => t[i].id \notin t[k].uses
               PROVE  FALSE
    OBVIOUS
  <2> DEFINE K == N \ {t[i].id}
  <2>1. ASSUME NEW k \in 1 .. Len(t), t[k].kind \in T!Calls PROVE t[k].id \in K
    <3>1. t[k].id \in N
      <4>1. t[k].id \in T!Variables(t)
        BY <1>2
      <4>2. \A L \in SUBSET T!Variables(t) : Closed(L) => t[k].id \in L
        BY <2>1
      <4> HIDE DEF Closed
      <4> QED BY <1>3, <4>1, <4>2
    <3>2. t[k].id # t[i].id
      BY <2>1, IdsDiffer
    <3> QED BY <3>1, <3>2
  <2>2. ASSUME NEW k \in 1 .. Len(t), t[k].id \in K PROVE t[k].uses \subseteq K
    BY <1>5, <2>2
  <2>3. K \in SUBSET T!Variables(t) /\ t[i].id \notin K
    BY <1>3
  <2> HIDE DEF K
  <2>4. Closed(K)
    BY <2>1, <2>2
  <2> HIDE DEF Closed
  <2> QED BY <1>3, <1>4, <2>3, <2>4
<1> QED BY <1>6, <1>7 DEF N

LEMMA StripIsRight == TestsAreRight /\ T!Strip => TestsAreRight'
<1> SUFFICES ASSUME TestsAreRight, T!Strip PROVE TestsAreRight'
  OBVIOUS
<1> DEFINE P == {i \in 1 .. Len(test) : test[i].id \in T!Needed(test)}
<1>1. T!IsTest(test) /\ DOMAIN test = 1 .. Len(test) /\ Len(test) \in Nat
  BY TestShape DEF TestsAreRight
<1>2. P = DOMAIN test \ {i \in DOMAIN test : test[i].id \notin T!Needed(test)}
  BY <1>1
<1>3. P \in SUBSET (1 .. Len(test))
  OBVIOUS
<1>4. \A i \in P : \A v \in test[i].uses : \E j \in P : test[j].id = v
  BY <1>1, NeededIsClosed
<1>5. \A i \in P : test[i].kind \in T!Calls \/ \E k \in P : test[i].id \in test[k].uses
  BY <1>1, NeededIsClosed
<1> HIDE DEF P
<1>6. test' = T!At(test, P)
  BY <1>2 DEF T!Strip
<1> DEFINE c == Cardinality(P)
<1>7. /\ T!IsTest(test') /\ Len(test') = c
      /\ \A n \in 1 .. c : \E i \in P : test'[n] = test[i]
      /\ \A i \in P : \E n \in 1 .. c : test'[n] = test[i]
  BY <1>1, <1>3, <1>4, <1>6, PartIsTest
<1>8. DOMAIN test' = 1 .. c
  BY <1>7, TestShape
<1> HIDE DEF c
<1>9. ASSUME NEW n \in DOMAIN test', test'[n].kind \notin T!Calls
      PROVE  \E m \in DOMAIN test' : test'[n].id \in test'[m].uses
  <2>1. PICK i \in P : test'[n] = test[i]
    BY <1>7, <1>8
  <2>2. PICK k \in P : test[i].id \in test[k].uses
    BY <1>5, <1>9, <2>1
  <2>3. PICK m \in 1 .. c : test'[m] = test[k]
    BY <1>7
  <2> QED BY <1>8, <2>1, <2>2, <2>3
<1>10. T!OnlyUsedStatementsStay'
  BY <1>9 DEF T!OnlyUsedStatementsStay
<1> QED BY <1>7, <1>10 DEF TestsAreRight, T!Strip, T!crossVars

LEMMA TestsStayRight == TestsAreRight /\ (T!Next \/ UNCHANGED tVars) => TestsAreRight'
<1> SUFFICES ASSUME TestsAreRight, T!Next \/ UNCHANGED tVars PROVE TestsAreRight'
  OBVIOUS
<1>1. CASE UNCHANGED tVars \/ T!Finished
  BY <1>1 DEF tVars, T!Finished, T!vars, T!crossVars, TestsAreRight, T!OnlyUsedStatementsStay
<1> QED
  BY <1>1, OthersStayRight, MutateIsRight, DeleteStepIsRight, ChangeStepIsRight, InsertIsRight,
     RestoreIsRight, CrossOverIsRight, TruncateIsRight, StripIsRight
     DEF T!Next

LEMMA TestsInvStays == TestsInv /\ [MCNext]_allVars => TestsInv'
<1> SUFFICES ASSUME TestsInv, [MCNext]_allVars PROVE TestsInv'
  OBVIOUS
<1>1. CASE component # "testcases"
  BY <1>1 DEF MCNext, ExecutorStep, CachesStep, TestCasesStep, allVars, TestsInv
<1>2. CASE component = "testcases"
  <2>1. T!Next \/ UNCHANGED tVars
    BY <1>2 DEF MCNext, ExecutorStep, CachesStep, TestCasesStep, allVars
  <2> QED BY <1>2, <2>1, TestsStayRight DEF TestsInv
<1> QED BY <1>1, <1>2

LEMMA TestsInvHolds == MCSpec => []TestsInv
<1>1. MCInit => TestsInv
  BY TestsBeginRight DEF MCInit, TestsInv
<1> QED BY <1>1, TestsInvStays, PTL DEF MCSpec, MCNext

(* The result of a test is one of what was executed, and a failed one names a call.  *)
ResultIsRight ==
  /\ result = [of |-> result.of, exception |-> result.exception, failed |-> result.failed]
  /\ T!IsTest(result.of)
  /\ result.failed /\ tPc # "stripped" =>
       result.exception \in 1 .. Len(result.of) /\ result.of[result.exception].kind \in T!Calls

ResultInv == component = "testcases" => ResultIsRight

LEMMA ResultBegins == T!Init => ResultIsRight
BY EmptyIsTest DEF T!Init, T!NoResult, ResultIsRight

LEMMA ExecuteKeepsResult == TestsAreRight /\ T!Execute => ResultIsRight'
<1> SUFFICES ASSUME TestsAreRight, T!Execute PROVE ResultIsRight'
  OBVIOUS
<1>1. /\ T!IsTest(T!Clone(test)) /\ Len(T!Clone(test)) = Len(test) /\ DOMAIN test = 1 .. Len(test)
      /\ \A i \in 1 .. Len(test) : T!Clone(test)[i].kind = test[i].kind
  BY CloneIsTest, TestShape DEF TestsAreRight
<1>2. PICK e \in {0} \cup {i \in DOMAIN test : test[i].kind \in T!Calls} :
        result' = [of |-> T!Clone(test), exception |-> e, failed |-> e # 0]
  BY DEF T!Execute
<1>3. result'.of = T!Clone(test) /\ result'.exception = e /\ (result'.failed <=> e # 0)
  BY <1>2
<1> QED BY <1>1, <1>2, <1>3 DEF ResultIsRight

LEMMA StripKeepsResult == ResultIsRight /\ T!Strip => ResultIsRight'
<1> SUFFICES ASSUME ResultIsRight, T!Strip PROVE ResultIsRight'
  OBVIOUS
<1>1. PICK e : result' = [result EXCEPT !.exception = e]
  BY DEF T!Strip
<1>2. result = [of |-> result.of, exception |-> result.exception, failed |-> result.failed]
  BY DEF ResultIsRight
<1>3. result' = [of |-> result.of, exception |-> e, failed |-> result.failed]
  BY <1>1, <1>2
<1>4. tPc' = "stripped"
  BY DEF T!Strip
<1> QED BY <1>3, <1>4 DEF ResultIsRight

LEMMA ResultStaysRight ==
  ASSUME TestsAreRight, ResultIsRight, T!Next \/ UNCHANGED tVars
  PROVE  ResultIsRight'
<1>1. ASSUME UNCHANGED result, tPc' # "stripped" => tPc # "stripped" PROVE ResultIsRight'
  BY <1>1 DEF ResultIsRight
<1>2. CASE UNCHANGED tVars \/ T!Finished
  BY <1>1, <1>2 DEF tVars, T!Finished, T!vars
<1>3. CASE T!Mutate \/ T!CrossOver \/ T!AppendNext \/ T!CrossedOver \/ T!GiveUpCrossOver
  BY <1>1, <1>3 DEF T!Mutate, T!CrossOver, T!AppendNext, T!CrossedOver, T!GiveUpCrossOver, T!Begin
<1>4. CASE T!DeleteStep \/ T!DeleteDone \/ T!ChangeStep \/ T!ChangeDone
  BY <1>1, <1>4 DEF T!DeleteStep, T!DeleteDone, T!ChangeStep, T!ChangeDone
<1>5. CASE T!Insert \/ T!Restore \/ T!Mutated \/ T!Truncate
  BY <1>1, <1>5 DEF T!Insert, T!Restore, T!Mutated, T!Truncate
<1> QED BY <1>2, <1>3, <1>4, <1>5, ExecuteKeepsResult, StripKeepsResult DEF T!Next

LEMMA ResultInvStays == TestsInv /\ ResultInv /\ [MCNext]_allVars => ResultInv'
<1> SUFFICES ASSUME TestsInv, ResultInv, [MCNext]_allVars PROVE ResultInv'
  OBVIOUS
<1>1. CASE component # "testcases"
  BY <1>1 DEF MCNext, ExecutorStep, CachesStep, TestCasesStep, allVars, ResultInv
<1>2. CASE component = "testcases"
  <2>1. T!Next \/ UNCHANGED tVars
    BY <1>2 DEF MCNext, ExecutorStep, CachesStep, TestCasesStep, allVars
  <2> QED BY <1>2, <2>1, ResultStaysRight DEF TestsInv, ResultInv
<1> QED BY <1>1, <1>2

LEMMA CallsAreNeeded ==
  ASSUME NEW t, T!IsTest(t), NEW i \in 1 .. Len(t), t[i].kind \in T!Calls
  PROVE  t[i].id \in T!Needed(t)
<1>1. i \in DOMAIN t
  BY TestShape
<1> QED BY <1>1 DEF T!Needed, T!Variables

(* The position of an exception is adapted once, if one clone has the result.       *)
LEMMA ShiftedOnce ==
  ASSUME Clones = 1, T!Strip, result = [of |-> result.of, exception |-> result.exception, failed |-> result.failed]
  PROVE  result'.exception = T!Shifted(result.exception, {i \in DOMAIN test : test[i].id \notin T!Needed(test)})
<1> DEFINE unused == {i \in DOMAIN test : test[i].id \notin T!Needed(test)}
           e == result.exception
           Body(f, n) == IF n = 0 THEN e ELSE T!Shifted(f[n - 1], unused)
           IsAfter(f) == f = [n \in 0 .. Clones |-> Body(f, n)]
           after == CHOOSE f : IsAfter(f)
           g == [n \in 0 .. 1 |-> IF n = 0 THEN e ELSE T!Shifted(e, unused)]
<1>1. result' = [result EXCEPT !.exception = after[Clones]]
  BY DEF T!Strip
<1> HIDE DEF unused, e
<1>2. IsAfter(g)
  <2>1. DOMAIN g = 0 .. 1 /\ g[0] = e /\ g[1] = T!Shifted(e, unused)
    OBVIOUS
  <2> HIDE DEF g
  <2>2. \A n \in 0 .. 1 : Body(g, n) = IF n = 0 THEN e ELSE T!Shifted(e, unused)
    <3> SUFFICES ASSUME NEW n \in 0 .. 1 PROVE Body(g, n) = IF n = 0 THEN e ELSE T!Shifted(e, unused)
      OBVIOUS
    <3>1. n = 0 \/ (n = 1 /\ n - 1 = 0)
      OBVIOUS
    <3> QED BY <2>1, <3>1
  <2> HIDE DEF Body
  <2> QED BY <2>2 DEF g
<1>3. IsAfter(after)
  <2> HIDE DEF IsAfter, g
  <2> QED BY <1>2
<1> HIDE DEF after
<1>4. after[1] = Body(after, 1) /\ after[0] = Body(after, 0)
  <2> DEFINE h == [n \in 0 .. Clones |-> Body(after, n)]
  <2>1. after = h
    BY <1>3
  <2> HIDE DEF Body
  <2>2. h[0] = Body(after, 0) /\ h[1] = Body(after, 1)
    OBVIOUS
  <2> HIDE DEF h
  <2> QED BY <2>1, <2>2
<1>5. after[1] = T!Shifted(e, unused)
  BY <1>4
<1> QED BY <1>1, <1>5 DEF unused, e

(* All statements that go are before the exception.                                 *)
LEMMA ExceptionIsLast == TestsAreRight /\ ResultIsRight => T!ExceptionStaysLast
<1> SUFFICES ASSUME TestsAreRight, ResultIsRight, T!Strip, result.failed, Clones = 1,
                    T!Clone(test) = T!Chop(result.of, result.exception)
             PROVE  result'.exception = Len(test')
  BY DEF T!ExceptionStaysLast
<1> DEFINE e == result.exception
           U == {i \in DOMAIN test : test[i].id \notin T!Needed(test)}
           P == DOMAIN test \ U
<1>1. /\ T!IsTest(test) /\ T!IsTest(result.of)
      /\ e \in 1 .. Len(result.of) /\ result.of[e].kind \in T!Calls
  BY DEF TestsAreRight, ResultIsRight, T!Strip
<1>2. Len(result.of) \in Nat /\ DOMAIN test = 1 .. Len(test) /\ Len(test) \in Nat /\ e \in Nat
  BY <1>1, TestShape
<1>3. Len(test) = e /\ test[e].kind \in T!Calls
  <2>1. Len(T!Chop(result.of, e)) = e
    BY <1>1, <1>2, ChopIsTest
  <2>2. T!Chop(result.of, e)[e] = result.of[e]
    BY <1>1, <1>2, TestShape DEF T!Chop, T!IsTest
  <2>3. Len(T!Clone(test)) = Len(test) /\ \A i \in 1 .. Len(test) : T!Clone(test)[i].kind = test[i].kind
    BY <1>1, CloneIsTest
  <2>4. Len(test) = e
    BY <2>1, <2>3
  <2> QED BY <1>1, <1>2, <2>2, <2>3, <2>4
<1>4. U \subseteq 1 .. e /\ e \notin U
  BY <1>1, <1>2, <1>3, CallsAreNeeded
<1>5. result'.exception = T!Shifted(e, U)
  BY ShiftedOnce DEF ResultIsRight
<1>6. test' = T!At(test, P)
  BY DEF T!Strip
<1>7. Len(test') = Cardinality(P)
  <2>1. T!At(test, P) = [n \in 1 .. Cardinality(P) |-> T!At(test, P)[n]]
    BY DEF T!At, T!Cardinality, Cardinality
  <2>2. Cardinality(P) \in Nat
    <3>1. IsFiniteSet(1 .. Len(test))
      BY <1>2, IntervalIsFinite
    <3> QED BY <1>2, <3>1, FS_Subset, FS_CardinalityType
  <2> HIDE DEF P
  <2> QED BY <1>6, <2>1, <2>2
<1> HIDE DEF U
<1>8. Cardinality(P) = e - Cardinality(U)
  <2>1. IsFiniteSet(1 .. e) /\ Cardinality(1 .. e) = e
    BY <1>2, IntervalIsFinite
  <2>2. P = (1 .. e) \ U /\ (1 .. e) \cap U = U
    BY <1>2, <1>3, <1>4
  <2> HIDE DEF P, e
  <2>3. Cardinality((1 .. e) \ U) = Cardinality(1 .. e) - Cardinality((1 .. e) \cap U)
    BY <2>1, FS_Difference
  <2> QED BY <2>1, <2>2, <2>3
<1>9. T!Shifted(e, U) = e - Cardinality(U)
  <2>1. {i \in U : i <= e} = U
    <3>1. \A i \in U : i <= e
      BY <1>2, <1>4
    <3> QED BY <3>1
  <2> QED BY <1>4, <2>1 DEF T!Shifted, T!Cardinality, Cardinality
<1> QED BY <1>5, <1>7, <1>8, <1>9

(* A test can be exported at all times: it defines each variable once and before it  *)
(* is used, nothing that no call needs is left of a post-processed one, and the      *)
(* exception of its result is then in its last statement, if that result is one of   *)
(* the test and no other clone shares it (testcasechromosome.py, testfactory.py,     *)
(* postprocess.py).                                                                  *)
THEOREM TestsAreAlwaysWellFormed == MCSpec => TestsAreWellFormed
<1> DEFINE Others == component # "testcases" => TestCasesIdle
           Right == TestsInv /\ ResultInv /\ Others
<1>1. MCInit => Right
  BY TestsBeginRight, ResultBegins DEF MCInit, TestsInv, ResultInv
<1>2. Right /\ [MCNext]_allVars => Right'
  <2>1. Others /\ [MCNext]_allVars => Others'
    BY DEF MCNext, ExecutorStep, CachesStep, TestCasesStep, allVars, tVars, TestCasesIdle
  <2> QED BY <2>1, TestsInvStays, ResultInvStays
<1>3. Right => T!ReferencesAreSound /\ T!OnlyUsedStatementsStay
  <2> SUFFICES ASSUME Right PROVE T!ReferencesAreSound /\ T!OnlyUsedStatementsStay
    OBVIOUS
  <2>1. CASE component = "testcases"
    BY <2>1 DEF TestsInv, TestsAreRight, T!IsTest, T!ReferencesAreSound
  <2>2. CASE component # "testcases"
    <3>1. test = <<>> /\ backup = <<>> /\ tPc = "off"
      BY <2>2 DEF TestCasesIdle
    <3>2. T!WellFormed(<<>>)
      BY EmptyIsTest DEF T!IsTest
    <3> QED BY <3>1, <3>2 DEF T!ReferencesAreSound, T!OnlyUsedStatementsStay
  <2> QED BY <2>1, <2>2
<1>4. Right /\ [MCNext]_allVars => [T!ExceptionStaysLast]_(T!vars)
  <2> SUFFICES ASSUME Right, [MCNext]_allVars, ~UNCHANGED tVars PROVE T!ExceptionStaysLast
    BY DEF tVars, T!vars, T!crossVars
  <2>1. TestsAreRight /\ ResultIsRight
    BY DEF MCNext, ExecutorStep, CachesStep, TestCasesStep, allVars, TestsInv, ResultInv
  <2> QED BY <2>1, ExceptionIsLast
<1> QED
  BY <1>1, <1>2, <1>3, <1>4, PTL DEF MCSpec, MCNext, TestsAreWellFormed, T!TestsAreWellFormed

(* A mutation never takes the last call on the code under test away, and one that    *)
(* is not reported changed nothing (TestCaseChromosome.mutate).                      *)
THEOREM MutationIsAlwaysSound == MCSpec => MutationIsSound
<1>1. TestsInv /\ [MCNext]_allVars => [T!KeepsSutCall /\ T!UnreportedMeansSame]_(T!vars)
  <2> SUFFICES ASSUME TestsInv, [MCNext]_allVars, ~UNCHANGED tVars
               PROVE  T!KeepsSutCall /\ T!UnreportedMeansSame
    BY DEF tVars, T!vars, T!crossVars
  <2>1. TestsAreRight
    BY DEF MCNext, ExecutorStep, CachesStep, TestCasesStep, allVars, TestsInv
  <2>2. SUFFICES ASSUME T!Mutated, T!HasCallOnSut(backup)
                 PROVE  /\ T!HasCallOnSut(test')
                        /\ ~changed' => test' = backup
    BY DEF T!KeepsSutCall, T!UnreportedMeansSame
  <2>3. test' = test /\ (~changed' => ~dirty)
    BY <2>2 DEF T!Mutated
  <2>4. \/ tPc = "insert" /\ T!HasCallOnSut(test)
        \/ tPc = "reinsert"
    BY <2>2 DEF T!Mutated
  <2>5. T!HasCallOnSut(test) /\ (~dirty => test = backup)
    <3>1. CASE tPc = "insert" /\ T!HasCallOnSut(test)
      BY <2>1, <3>1 DEF TestsAreRight
    <3>2. CASE tPc = "reinsert"
      BY <2>1, <2>2, <3>2 DEF TestsAreRight
    <3> QED BY <2>4, <3>1, <3>2
  <2>6. T!HasCallOnSut(test')
    BY <2>3, <2>5
  <2> QED BY <2>3, <2>5, <2>6
<1> QED BY <1>1, TestsInvHolds, PTL DEF MCSpec, MCNext, MutationIsSound, T!MutationIsSound
================================================================================
