------------------------------ MODULE Assertions ------------------------------
(***************************************************************************)
(* Assertions of the finished tests (assertion/assertiongenerator.py):     *)
(* recorded in one execution, those that do not hold in another removed,   *)
(* and then all that hold on every mutant.                                 *)
(*                                                                         *)
(* A run says what the statements of a test do in one execution: the       *)
(* exception each raises when it is reached, and the objects there are     *)
(* then.  Tests may be flaky, that is have several runs.                   *)
(***************************************************************************)
EXTENDS Integers, Sequences, FiniteSets, SequencesExt, FiniteSetsExt

CONSTANTS
  Tests,       \* test -> the statements: [calls, creates], a reference or "none"
  Runs,        \* test -> its runs on the module under test
  Mutants,     \* sequence: "invalid", or test -> its runs on the mutant
  MaxLength    \* max_length_test_case

\* An execution goes through all statements of its test unless it times out; there are
\* finitely many objects in a step, and none of them is called like an exception.
IsRunOf(t, run) ==
  ~run.timeout =>
    /\ DOMAIN run.steps = DOMAIN Tests[t] /\ Len(run.steps) = Len(Tests[t])
    /\ \A i \in DOMAIN run.steps :
         LET objects == run.steps[i].objects
         IN  /\ IsFiniteSet(DOMAIN objects) /\ "exception" \notin DOMAIN objects
             /\ \A r \in DOMAIN objects :
                  IsFiniteSet(objects[r].fields) /\ objects[r].fields \subseteq DOMAIN objects

ConstantsType ==
  /\ DOMAIN Tests = 1..Len(Tests) /\ Len(Tests) \in Nat
  /\ \A t \in DOMAIN Tests : DOMAIN Tests[t] = 1..Len(Tests[t]) /\ Len(Tests[t]) \in Nat
  /\ \A t \in DOMAIN Tests : \A run \in Runs[t] : run.timeout \in BOOLEAN /\ IsRunOf(t, run)
  /\ MaxLength \in Nat

VARIABLES
  phase,       \* "record", "filter", "mutate" or "done"
  queue,       \* the tests still to be executed in this phase
  assertions,  \* test -> per statement the assertions, in order
  recorded,    \* test -> the run they are from
  filtered,    \* test -> the run they were filtered with
  results      \* test -> per mutant: the run, and what was noticed

vars == <<phase, queue, assertions, recorded, filtered, results>>

Statements(t) == DOMAIN Tests[t]
NoRun == [timeout |-> TRUE, steps |-> <<>>]
-----------------------------------------------------------------------------
(***************************************************************************)
(* What can be said of an object: plain values are compared; of others the *)
(* type and the length are, or the type and the fields, one level down.    *)
(***************************************************************************)
Fact(ref, aspect, is) == [ref |-> ref, aspect |-> aspect, is |-> is]

CheckField(objects, ref) ==
    LET v == objects[ref]
    IN  IF v.kind = "plain" THEN {Fact(ref, "value", v.value)}
        ELSE {Fact(ref, "type", v.type)} \cup IF v.kind = "sized" THEN {Fact(ref, "length", v.value)} ELSE {}

CheckReference(objects, ref) ==
    CheckField(objects, ref)
      \cup IF objects[ref].kind = "complex"
           THEN UNION {CheckField(objects, f) : f \in objects[ref].fields} ELSE {}

\* Primitives are looked at once.  Objects whose types are defined elsewhere than in
\* builtins are watched from then on, and the fields of their classes; those of other
\* built-in types are not.  Fields of modules always are.
Watched(t, run, i) ==
    {r \in {Tests[t][k].creates : k \in {k \in 1..i : Tests[t][k].calls}} \ {"none"} :
        r \in DOMAIN run.steps[i].objects /\ run.steps[i].objects[r].home = "elsewhere"}

Observed(t, run, i) ==
    LET step == run.steps[i]
        new == Tests[t][i].creates
        primitive == new \in DOMAIN step.objects /\ step.objects[new].home = "primitive"
        statics == {r \in DOMAIN step.objects :
                      \/ step.objects[r].of = "module"
                      \/ \E w \in Watched(t, run, i) : step.objects[r].of = step.objects[w].type}
    IN  IF step.raises # "none" THEN {Fact("exception", "type", step.raises)}
        ELSE IF ~Tests[t][i].calls THEN {}
        ELSE UNION {CheckReference(step.objects, r) :
                      r \in Watched(t, run, i) \cup statics \cup IF primitive THEN {new} ELSE {}}

\* The trace ends with the first exception.
Ends(run) == LET raising == {i \in DOMAIN run.steps : run.steps[i].raises # "none"}
             IN  IF raising = {} THEN Len(run.steps) ELSE Min(raising)

AssertionTrace(t, run) == [i \in Statements(t) |-> IF run.timeout \/ i > Ends(run) THEN {} ELSE Observed(t, run, i)]
-----------------------------------------------------------------------------
(***************************************************************************)
(* Recording.                                                              *)
(***************************************************************************)
\* What was seen after the last statement that can change anything.
Previous(trace, t, i) ==
    LET before == {k \in 1..i - 1 : Tests[t][k].calls} IN IF before = {} THEN {} ELSE trace[Max(before)]

\* size_with_assertions: the statements, and the assertions of each.
SizeWithAssertions(t, of) ==
    LET Size[n \in 0..Len(Tests[t])] ==
          IF n = 0 THEN Len(Tests[t]) ELSE Size[n - 1] + Len(of[n])
    IN  Size[Len(Tests[t])]

\* Only what has changed is asserted, while the test is not too long.
AddAssertionsFor(t, run) ==
    LET trace == AssertionTrace(t, run)
        Add[i \in 0..Len(Tests[t])] ==
          IF i = 0 THEN [s \in Statements(t) |-> <<>>]
          ELSE LET fresh == SetToSeq(trace[i] \ Previous(trace, t, i))
                   room == Max({0, MaxLength - SizeWithAssertions(t, Add[i - 1])})
               IN  [Add[i - 1] EXCEPT ![i] = SubSeq(fresh, 1, Min({room, Len(fresh)}))]
    IN  Add[Len(Tests[t])]

Record ==
  /\ phase = "record" /\ queue # <<>>
  /\ LET t == Head(queue)
     IN  \E run \in Runs[t] :
            /\ assertions' = [assertions EXCEPT ![t] = AddAssertionsFor(t, run)]
            /\ recorded' = [recorded EXCEPT ![t] = run]
  /\ queue' = Tail(queue)
  /\ UNCHANGED <<phase, filtered, results>>
-----------------------------------------------------------------------------
(***************************************************************************)
(* Verification.  Each observer wraps a statement whose only assertion is  *)
(* an exception in pytest.raises.                                          *)
(***************************************************************************)
OnlyException(list) == Len(list) = 1 /\ list[1].ref = "exception"

Raises(raised, expected, observers) ==
    LET Wrap(r) == IF r = expected THEN "none" ELSE IF r = "none" THEN "Failed" ELSE r
        Wrapped[k \in 0..observers] == IF k = 0 THEN raised ELSE Wrap(Wrapped[k - 1])
    IN  Wrapped[observers]

\* "holds", "failed" or, when it cannot be evaluated, "error".
Verdict(objects, a) ==
    IF a.ref \notin DOMAIN objects \/ (a.aspect = "length" /\ objects[a.ref].kind # "sized") THEN "error"
    ELSE LET v == objects[a.ref]
         IN  IF a.is = (IF a.aspect = "type" THEN v.type ELSE v.value) THEN "holds" ELSE "failed"

\* The violated assertions <<statement, index>>, and whether an exception is left.
Verify(t, run, of, observers) ==
    LET raised[i \in Statements(t)] ==
          IF OnlyException(of[i]) THEN Raises(run.steps[i].raises, of[i][1].is, observers)
          ELSE run.steps[i].raises
        raising == {i \in Statements(t) : raised[i] # "none"}
        last == IF raising = {} THEN Len(Tests[t]) ELSE Min(raising)
        violated == {v \in (1..last) \X (1..MaxLength) :
                       /\ v[2] \in DOMAIN of[v[1]]
                       /\ IF OnlyException(of[v[1]]) THEN raised[v[1]] # "none"
                          ELSE Verdict(run.steps[v[1]].objects, of[v[1]][v[2]]) # "holds"}
    IN  IF run.timeout THEN [timeout |-> TRUE, violated |-> {}, exceptions |-> FALSE]
        ELSE [timeout |-> FALSE, violated |-> violated, exceptions |-> raising # {}]

\* Slip: the positions that are left move down while others are removed.
RemoveAssertionsForwards(list, positions) ==
    FoldLeft(LAMBDA l, p : IF p \in DOMAIN l THEN RemoveAt(l, p) ELSE l, list,
             SetToSortSeq(positions, LAMBDA a, b : a < b))

\* From the last position to the first.
RemoveAssertions(list, positions) ==
    LET Left[n \in 0..Len(list)] ==
          IF n = 0 THEN list
          ELSE IF Len(list) - n + 1 \in positions THEN RemoveAt(Left[n - 1], Len(list) - n + 1)
               ELSE Left[n - 1]
    IN  Left[Len(list)]

At(violated, i) == {v[2] : v \in {v \in violated : v[1] = i}}

Filter ==
  /\ phase = "filter" /\ queue # <<>>
  /\ LET t == Head(queue)
     IN  \E run \in Runs[t] :
            LET found == Verify(t, run, assertions[t], 1)
            IN  /\ assertions' = [assertions EXCEPT ![t] =
                                    [i \in Statements(t) |-> RemoveAssertions(@[i], At(found.violated, i))]]
                /\ filtered' = [filtered EXCEPT ![t] = run]
  /\ queue' = Tail(queue)
  /\ UNCHANGED <<phase, recorded, results>>

\* The executor for mutants has an observer from its start, and is given another.
MutationObservers == 2
Tried == Len(results[CHOOSE t \in DOMAIN Tests : TRUE])

SkipMutant ==
  /\ phase = "mutate" /\ queue = <<>> /\ Tried < Len(Mutants) /\ Mutants[Tried + 1] = "invalid"
  /\ results' = [t \in DOMAIN Tests |-> Append(results[t], [none |-> TRUE])]
  /\ UNCHANGED <<phase, queue, assertions, recorded, filtered>>

\* All tests run on the mutant.
RunMutant ==
  /\ phase = "mutate" /\ queue = <<>> /\ Tried < Len(Mutants) /\ Mutants[Tried + 1] # "invalid"
  /\ \E run \in [DOMAIN Tests -> UNION {Mutants[Tried + 1][t] : t \in DOMAIN Tests}] :
       /\ \A t \in DOMAIN Tests : run[t] \in Mutants[Tried + 1][t]
       /\ results' = [t \in DOMAIN Tests |-> Append(results[t],
                        [none |-> FALSE, run |-> run[t],
                         found |-> Verify(t, run[t], assertions[t], MutationObservers)])]
  /\ UNCHANGED <<phase, queue, assertions, recorded, filtered>>
-----------------------------------------------------------------------------
(***************************************************************************)
(* The summary, and what it leaves of the assertions.                      *)
(***************************************************************************)
Has(t, m) == m <= Len(results[t]) /\ ~results[t][m].none
TimedOut(m) == \E t \in DOMAIN Tests : Has(t, m) /\ results[t][m].found.timeout

\* A test that comes after the one that times out is not asked.
KilledBy(m) ==
    {t \in DOMAIN Tests :
        /\ Has(t, m) /\ ~\E u \in DOMAIN Tests : u <= t /\ results[u][m].found.timeout
        /\ results[t][m].found.violated # {} \/ results[t][m].found.exceptions}

Killed == {m \in 1..Tried : KilledBy(m) # {} /\ ~TimedOut(m)}

\* Slip: mutants that timed out count as well.
MergedAll(t) == UNION {results[t][m].found.violated : m \in {m \in 1..Tried : Has(t, m)}}
Merged(t) == UNION {results[t][m].found.violated : m \in {m \in 1..Tried : Has(t, m) /\ ~TimedOut(m)}}

Relevant(t) ==
    [i \in Statements(t) |->
       RemoveAssertions(assertions[t][i], DOMAIN assertions[t][i] \ At(Merged(t), i))]

NextPhase ==
  /\ queue = <<>>
  /\ \/ /\ phase = "record" /\ phase' = "filter"
        /\ queue' \in SetToSeqs(DOMAIN Tests) /\ UNCHANGED assertions
     \/ /\ phase = "filter" /\ phase' = "mutate" /\ UNCHANGED <<queue, assertions>>
     \/ /\ phase = "mutate" /\ Tried = Len(Mutants) /\ phase' = "done"
        /\ assertions' = [t \in DOMAIN Tests |-> Relevant(t)] /\ UNCHANGED queue
  /\ UNCHANGED <<recorded, filtered, results>>

Init ==
  /\ phase = "record" /\ queue = [t \in DOMAIN Tests |-> t]
  /\ assertions = [t \in DOMAIN Tests |-> [i \in Statements(t) |-> <<>>]]
  /\ recorded = [t \in DOMAIN Tests |-> NoRun] /\ filtered = recorded
  /\ results = [t \in DOMAIN Tests |-> <<>>]

Next == Record \/ Filter \/ SkipMutant \/ RunMutant \/ NextPhase

Spec == Init /\ [][Next]_vars
-----------------------------------------------------------------------------
(***************************************************************************)
(* Properties.                                                             *)
(***************************************************************************)
Says(list, f) == \E k \in DOMAIN list : list[k] = f
Contradicts(list, f) == \E k \in DOMAIN list :
    list[k].ref = f.ref /\ list[k].aspect = f.aspect /\ list[k].is # f.is

\* Although only what changes is asserted: whatever was observed after a statement,
\* the last assertion about it up to there says so.  (Unless the test got too long.)
LatestAssertionIsTrue ==
    phase = "record" =>
      \A t \in DOMAIN Tests :
         SizeWithAssertions(t, assertions[t]) < MaxLength /\ ~recorded[t].timeout =>
           \A i \in 1..Ends(recorded[t]) : \A f \in Observed(t, recorded[t], i) :
              \E k \in 1..i : /\ Says(assertions[t][k], f)
                             /\ \A j \in k..i : ~Contradicts(assertions[t][j], f)

\* Does an assertion after a statement hold in a run?
HoldsIn(run, i, a) ==
    IF a.ref = "exception" THEN run.steps[i].raises = a.is
    ELSE Verdict(run.steps[i].objects, a) = "holds"

\* The assertions that stay hold in the filtering execution, as far as it raised what
\* had been recorded, and however many others were removed beside them.
FilteredAssertionsHold ==
    phase \in {"filter", "mutate"} =>
      \A t \in DOMAIN Tests : ~recorded[t].timeout /\ ~filtered[t].timeout =>
         \A i \in Statements(t) :
            (\A k \in 1..i - 1 : filtered[t].steps[k].raises = recorded[t].steps[k].raises) =>
               \A k \in DOMAIN assertions[t][i] : HoldsIn(filtered[t], i, assertions[t][i][k])

\* In the end those assertions on values stay that do not hold on a mutant which is
\* valid and does not time out in any test, and only they.
RelevantAreKept ==
    phase' = "done" =>
      \A t \in DOMAIN Tests : \A i \in Statements(t) : \A k \in DOMAIN assertions[t][i] :
         LET a == assertions[t][i][k]
         IN  a.ref # "exception" =>
               (Says(assertions'[t][i], a) <=>
                  \E m \in 1..Len(Mutants) :
                     /\ Has(t, m) /\ ~TimedOut(m)
                     /\ \A j \in 1..i - 1 : results[t][m].run.steps[j].raises = "none"
                     /\ ~HoldsIn(results[t][m].run, i, a))
RelevantAssertionsStay == [][RelevantAreKept]_vars

\* "Assertion that did not hold" (the comment on the violated ones): whatever the tests
\* report of a mutant did not hold on it.
ViolatedMeansDoesNotHold ==
    \A t \in DOMAIN Tests : phase = "mutate" =>
      \A m \in DOMAIN results[t] : ~results[t][m].none =>
         \A v \in results[t][m].found.violated :
            ~HoldsIn(results[t][m].run, v[1], assertions[t][v[1]][v[2]])
=============================================================================
