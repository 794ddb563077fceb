------------------------------ MODULE TestCases ------------------------------
(***************************************************************************)
(* A test case chromosome of the search: the sequence of statements, the   *)
(* flag that says it must be executed again, and the result of its last    *)
(* execution, under mutation, crossover, execution and the post-processing *)
(* of the final suite.                                                     *)
(*                                                                         *)
(* A statement defines one variable and uses variables.  Types and values  *)
(* are abstracted: every variable defined earlier may be the one the       *)
(* random choice of the factory picks.                                     *)
(***************************************************************************)
EXTENDS Naturals, Sequences, FiniteSets

CONSTANTS
  ChromosomeLength,   \* configuration: "chromosome_length"
  MaxStatements,      \* bound: no behaviour lets a test grow beyond it
  MaxUses,            \* bound: variables used by one statement
  MaxOperations,      \* bound: mutations, crossovers and executions
  Clones,             \* clones of the chromosome in the suite returned
  Seeds,              \* the test cases the search starts from
  Partners            \* the second parents of a crossover

VARIABLES
  test,       \* the statements of the test case
  changed,    \* TestCaseChromosome.changed
  result,     \* the last execution result, NoResult if there is none
  backup,     \* the clone mutate() falls back to
  dirty,      \* mutate()'s local variable "changed"
  idx,        \* the loop variable of the deletion and of the change
  last,       \* the last mutatable statement when the loop began
  other,      \* in a crossover: the second parent
  offspring,  \* in a crossover: what becomes of the first
  pc,         \* what is being done to the chromosome
  operations

crossVars == <<other, offspring>>
vars == <<test, changed, result, backup, dirty, idx, last, crossVars, pc, operations>>

Ids == 1 .. MaxStatements
Calls == {"sut", "library"}
Kinds == {"primitive", "collection"} \cup Calls
Statement == [id : Ids, kind : Kinds, uses : SUBSET Ids]

-----------------------------------------------------------------------------
(* Test cases.                                                             *)

Variables(t) == {t[i].id : i \in DOMAIN t}

\* The variables a statement at position p may use.
Objects(t, p) == {t[i].id : i \in 1 .. p - 1}

PositionOf(t, v) == CHOOSE i \in DOMAIN t : t[i].id = v

HasCallOnSut(t) == \E i \in DOMAIN t : t[i].kind = "sut"

\* A clone: the same statements with variables of their own.
Clone(t) ==
  [i \in DOMAIN t |-> [t[i] EXCEPT !.id = i,
                                   !.uses = {PositionOf(t, v) : v \in @}]]

\* Every variable is defined once, and before it is used.
WellFormed(t) ==
  /\ \A i, j \in DOMAIN t : t[i].id = t[j].id => i = j
  /\ \A i \in DOMAIN t : t[i].uses \subseteq Objects(t, i)

IsTest(t) == t \in Seq(Statement) /\ Len(t) <= MaxStatements /\ WellFormed(t)

ConstantsType ==
  /\ MaxStatements \in Nat
  /\ \A t \in Seeds \cup Partners : IsTest(t)

Chop(t, pos) == SubSeq(t, 1, pos)

Splice(t, p, block) == SubSeq(t, 1, p - 1) \o block \o SubSeq(t, p, Len(t))

\* The statements at some positions, in their order.
At(t, positions) ==
  [n \in 1 .. Cardinality(positions) |->
     t[CHOOSE i \in positions : Cardinality({j \in positions : j <= i}) = n]]

Without(t, gone) == At(t, {i \in DOMAIN t : t[i].id \notin gone})

-----------------------------------------------------------------------------
(* Deletion.                                                               *)

\* A slip: statements that use the variable only through others stay.
DirectDependents(t, v) ==
  {v} \cup {t[i].id : i \in {j \in DOMAIN t : v \in t[j].uses}}

\* The variable v and those computed from it, directly or not.
Dependents(t, v) ==
  {x \in Variables(t) :
     \A D \in SUBSET Variables(t) :
       /\ v \in D
       /\ \A i \in DOMAIN t : t[i].uses \cap D # {} => t[i].id \in D
       => x \in D}

DeleteStatement(t, p) == Without(t, Dependents(t, t[p].id))

\* Every use of the variable may get another variable defined before the use;
\* a use that keeps it is one for which nothing of the right type exists.
Replaced(t, p) ==
  LET v == t[p].id
      users == {i \in DOMAIN t : v \in t[i].uses}
  IN  {[i \in DOMAIN t |-> IF i \in users
                           THEN [t[i] EXCEPT !.uses = (@ \ {v}) \cup {r[i]}]
                           ELSE t[i]] :
         r \in {f \in [users -> Variables(t)] :
                  \A i \in users : f[i] \in Objects(t, i)}}

DeleteGracefully(t, p) == {DeleteStatement(r, p) : r \in Replaced(t, p)}

-----------------------------------------------------------------------------
(* Construction.                                                           *)

\* A variable the test case does not have yet.
NewVariable(t) == CHOOSE v \in Ids : v \notin Variables(t)

UsesFor(k, avail) ==
  IF k = "primitive" THEN {{}}
  ELSE {u \in SUBSET avail : Cardinality(u) <= MaxUses}

\* The test cases with one new statement, of one of the kinds, at position p.
WithNew(t, p, kinds) ==
  IF Len(t) < MaxStatements
  THEN {Splice(t, p, <<[id |-> NewVariable(t), kind |-> ku[1], uses |-> ku[2]]>>) :
          ku \in UNION {{<<k, u>> : u \in UsesFor(k, Objects(t, p))} : k \in kinds}}
  ELSE {}

\* What satisfy_parameters leaves: it creates a variable or reuses others.
Satisfied(t, p) == {t} \cup WithNew(t, p, Kinds)

\* What was created at position p since the test case had that length goes.
Rollback(t, length, p) ==
  SubSeq(t, 1, p - 1) \o SubSeq(t, p + (Len(t) - length), Len(t))

\* insert_random_statement: a call follows what was created for it, unless
\* its construction fails.
InsertRandom(t, p) ==
  UNION {WithNew(s, p + (Len(s) - Len(t)), Calls) \cup {Rollback(s, Len(t), p)} :
           s \in Satisfied(t, p)}

-----------------------------------------------------------------------------
(* Crossover.                                                              *)

\* append_statement builds a statement of the same kind anew; it does not know
\* collections and raises.
Appended(t, kind) ==
  CASE kind = "primitive" -> WithNew(t, Len(t) + 1, {kind})
    [] kind \in Calls -> UNION {WithNew(s, Len(s) + 1, {kind}) :
                                  s \in Satisfied(t, Len(t) + 1)}
    [] OTHER -> {}

\* The positions one split point in [0, 1) gives in tests of m and n statements.
SplitPositions(m, n) ==
  {p \in (1 .. m - 1) \X (1 .. n - 1) : /\ (p[1] - 1) * (n - 1) < p[2] * (m - 1)
                                       /\ (p[2] - 1) * (m - 1) < p[1] * (n - 1)}

-----------------------------------------------------------------------------
(* The chromosome.                                                         *)

NoResult == [of |-> <<>>, exception |-> 0, failed |-> FALSE]

Init ==
  /\ test \in Seeds
  /\ changed = TRUE
  /\ result = NoResult
  /\ backup = <<>> /\ dirty = FALSE /\ idx = 0 /\ last = 0
  /\ other = <<>> /\ offspring = <<>>
  /\ pc = "idle"
  /\ operations = 0

Begin(operation) ==
  /\ pc = "idle" /\ operations < MaxOperations
  /\ operations' = operations + 1
  /\ pc' = operation

\* A position of an exception, or the last statement.
LastMutatable(t) ==
  IF result.exception \in DOMAIN t THEN result.exception ELSE Len(t)

\* _run_test_case_chromosome: only calls raise.
Execute ==
  /\ changed \/ result = NoResult
  /\ Begin("idle")
  /\ \E e \in {0} \cup {i \in DOMAIN test : test[i].kind \in Calls} :
       result' = [of |-> Clone(test), exception |-> e, failed |-> e # 0]
  /\ changed' = FALSE
  /\ UNCHANGED <<test, backup, dirty, idx, last, crossVars>>

\* The breeding loop clones a chromosome and mutates the clone.
Mutate ==
  /\ Begin("delete")
  /\ LET t == Clone(test)
         chops == Len(t) >= ChromosomeLength /\ LastMutatable(t) > 0
         c == IF chops THEN Chop(t, LastMutatable(t)) ELSE t
     IN  /\ test' = c
         /\ backup' = c
         /\ dirty' = chops
         /\ idx' = LastMutatable(c)
         /\ last' = LastMutatable(c)
  /\ UNCHANGED <<changed, result, crossVars>>

\* _mutation_delete, from the last mutatable statement to the first.
DeleteStep ==
  /\ pc = "delete" /\ idx > 0
  /\ idx' = idx - 1
  /\ \/ UNCHANGED <<test, dirty>>
     \/ /\ idx \in DOMAIN test
        /\ test' \in DeleteGracefully(test, idx)
        /\ dirty' = TRUE
  /\ UNCHANGED <<changed, result, backup, last, pc, operations, crossVars>>

DeleteDone ==
  /\ pc = "delete" /\ idx = 0
  /\ pc' = "change"
  /\ idx' = 1
  /\ last' = LastMutatable(test)
  /\ UNCHANGED <<test, changed, result, backup, dirty, operations, crossVars>>

Reused(uses, p) == [test EXCEPT ![p].uses = uses]

\* CollectionStatement.mutate drops, replaces and inserts elements.
MutateCollection(p) ==
  /\ test[p].kind = "collection"
  /\ \E u \in UsesFor("collection", Objects(test, p)) : test' = Reused(u, p)
  /\ idx' = p + 1

CopiedKinds(p) ==
  {"primitive"} \cup {test[PositionOf(test, v)].kind : v \in test[p].uses}

\* _mutate_parameter: an argument becomes another variable, maybe a new None
\* or a new copy of the old one put right before the call.  The old variable
\* may be another argument too.
MutateArgument(p) ==
  /\ test[p].kind \in Calls
  /\ \E t \in {test} \cup WithNew(test, p, CopiedKinds(p)) :
       LET q == p + (Len(t) - Len(test))
       IN  \E v \in Objects(t, q), gone \in SUBSET t[q].uses :
             /\ q > p => v = t[p].id
             /\ Cardinality(gone) <= 1
             /\ Cardinality((t[q].uses \ gone) \cup {v}) <= MaxUses
             /\ test' = [t EXCEPT ![q].uses = (@ \ gone) \cup {v}]
             /\ idx' \in {q, q + 1}    \* on to another argument, or done

\* change_random_call: another call takes over the variable.
ChangeCall(p) ==
  /\ test[p].kind # "primitive"
  /\ \E k \in Calls, u \in UsesFor("sut", Objects(test, p)) :
       test' = [test EXCEPT ![p] = [id |-> @.id, kind |-> k, uses |-> u]]
  /\ idx' = p + 1

\* _mutation_change, from the first statement to the one that was the last
\* mutatable one when the loop began.  The value of a primitive is abstracted.
ChangeStep ==
  /\ pc = "change" /\ idx <= last
  /\ \/ UNCHANGED <<test, dirty>> /\ idx' = idx + 1
     \/ /\ \/ MutateCollection(idx)
           \/ MutateArgument(idx)
           \/ ChangeCall(idx)
           \/ test[idx].kind = "primitive" /\ idx' = idx + 1 /\ UNCHANGED test
        /\ dirty' = TRUE
  /\ UNCHANGED <<changed, result, backup, last, pc, operations, crossVars>>

ChangeDone ==
  /\ pc = "change" /\ idx > last
  /\ pc' = "insert"
  /\ UNCHANGED <<test, changed, result, backup, dirty, idx, last, operations, crossVars>>

\* One round of _mutation_insert.
Insert ==
  /\ pc \in {"insert", "reinsert"}
  /\ Len(test) < ChromosomeLength
  /\ \E p \in 1 .. LastMutatable(test) + 1 : test' \in InsertRandom(test, p)
  /\ dirty' = (dirty \/ (pc = "insert" /\ Len(test') > Len(test)))
  /\ UNCHANGED <<changed, result, backup, idx, last, pc, operations, crossVars>>

\* A slip: the clone is not put back.
RestoreNothing ==
  /\ pc = "insert" /\ ~HasCallOnSut(test)
  /\ pc' = "reinsert"
  /\ UNCHANGED <<test, changed, result, backup, dirty, idx, last, operations, crossVars>>

\* Without a call on the SUT the clone is restored, and what is inserted then
\* is not reported.
Restore ==
  /\ pc = "insert" /\ ~HasCallOnSut(test)
  /\ test' = backup
  /\ pc' = "reinsert"
  /\ UNCHANGED <<changed, result, backup, dirty, idx, last, operations, crossVars>>

Mutated ==
  /\ \/ pc = "insert" /\ HasCallOnSut(test)
     \/ pc = "reinsert"
  /\ changed' = (changed \/ dirty)
  /\ pc' = "idle"
  /\ backup' = <<>> /\ dirty' = FALSE /\ idx' = 0 /\ last' = 0
  /\ UNCHANGED <<test, result, operations, crossVars>>

\* The first statements of the test, to which those of the other one are added.
CrossOver ==
  /\ Begin("cross")
  /\ Len(test) >= 2
  /\ \E partner \in Partners :
       /\ Len(partner) >= 2
       /\ other' = partner
       /\ \E pos \in SplitPositions(Len(test), Len(partner)) :
            /\ offspring' = Chop(Clone(test), pos[1])
            /\ idx' = pos[2] + 1
  /\ UNCHANGED <<test, changed, result, backup, dirty, last>>

AppendNext ==
  /\ pc = "cross" /\ idx \in DOMAIN other
  /\ offspring' \in Appended(offspring, other[idx].kind)
  /\ idx' = idx + 1
  /\ UNCHANGED <<test, changed, result, backup, dirty, last, other, pc, operations>>

\* The offspring is kept when it is short enough.
CrossedOver ==
  /\ pc = "cross" /\ idx > Len(other)
  /\ IF Len(offspring) < ChromosomeLength
     THEN test' = offspring /\ changed' = TRUE
     ELSE UNCHANGED <<test, changed>>
  /\ pc' = "idle" /\ idx' = 0 /\ other' = <<>> /\ offspring' = <<>>
  /\ UNCHANGED <<result, backup, dirty, last, operations>>

\* A statement could not be appended: both offspring are given up.
GiveUpCrossOver ==
  /\ pc = "cross" /\ idx \in DOMAIN other
  /\ pc' = "idle" /\ idx' = 0 /\ other' = <<>> /\ offspring' = <<>>
  /\ UNCHANGED <<test, changed, result, backup, dirty, last, operations>>

-----------------------------------------------------------------------------
(* Post-processing of the suite that the search returned.                  *)

\* ExceptionTruncation.
Truncate ==
  /\ ~changed /\ result # NoResult
  /\ pc = "idle"
  /\ pc' = "truncated"
  /\ test' = IF result.exception # 0 THEN Chop(test, LastMutatable(test)) ELSE test
  /\ UNCHANGED <<changed, result, backup, dirty, idx, last, operations, crossVars>>

\* Calls and what they use, directly or not.
Needed(t) ==
  {x \in Variables(t) :
     \A K \in SUBSET Variables(t) :
       (\A i \in DOMAIN t :
          /\ t[i].kind \in Calls => t[i].id \in K
          /\ t[i].id \in K => t[i].uses \subseteq K)
       => x \in K}

\* The position of an exception once the statements at those positions are
\* gone; 0 if the statement that raised is one of them.
Shifted(exception, positions) ==
  IF exception \in positions THEN 0
  ELSE exception - Cardinality({i \in positions : i <= exception})

\* TestCasePostProcessor with UnusedStatementsTestCaseVisitor.  The clones in
\* the suite share the execution result: it is adapted once for each of them.
Strip ==
  /\ pc = "truncated"
  /\ pc' = "stripped"
  /\ LET unused == {i \in DOMAIN test : test[i].id \notin Needed(test)}
         after[n \in 0 .. Clones] ==
           IF n = 0 THEN result.exception ELSE Shifted(after[n - 1], unused)
     IN  /\ test' = At(test, DOMAIN test \ unused)
         /\ result' = [result EXCEPT !.exception = after[Clones]]
  /\ UNCHANGED <<changed, backup, dirty, idx, last, operations, crossVars>>

Finished ==
  /\ pc = "stripped" \/ (pc = "idle" /\ operations = MaxOperations)
  /\ UNCHANGED vars

Next ==
  \/ Execute \/ Mutate \/ CrossOver \/ AppendNext \/ CrossedOver \/ GiveUpCrossOver
  \/ DeleteStep \/ DeleteDone \/ ChangeStep \/ ChangeDone
  \/ Insert \/ Restore \/ Mutated
  \/ Truncate \/ Strip \/ Finished

Spec == Init /\ [][Next]_vars

-----------------------------------------------------------------------------
(* Properties.                                                             *)

\* Whatever is deleted, replaced, inserted, taken back or recombined, every
\* statement uses variables that statements before it define, and no variable
\* is defined twice: the test that is exported runs.
ReferencesAreSound == WellFormed(test) /\ WellFormed(backup)

\* A mutation never takes the last call on the code under test away.
KeepsSutCall == Mutated /\ HasCallOnSut(backup) => HasCallOnSut(test')

\* A mutation that is not reported did not change the statements, as long as
\* there was a call on the SUT to begin with.
UnreportedMeansSame == Mutated /\ ~changed' /\ HasCallOnSut(backup) => test' = backup

\* A mutation gives a test that is worth executing, and one that says whether it
\* has to be executed.
MutationIsSound == [][KeepsSutCall /\ UnreportedMeansSame]_vars

\* A chromosome that claims to be unchanged has the statements its last
\* execution result was recorded for: cached fitness values may be reused.
CachedResultIsCurrent ==
  (pc = "idle" /\ ~changed) => Clone(test) = result.of

\* Post-processing keeps the exception where it was raised: in the statement
\* that is now the last one; if the result is that of the test, which is now
\* what was executed up to the exception, and no other clone shares it.
ExceptionStaysLast ==
  Strip /\ result.failed /\ Clone(test) = Chop(result.of, result.exception) /\ Clones = 1 =>
    result'.exception = Len(test')

\* What is left of a post-processed test is used by a call or is a call, and
\* all calls up to the exception are left.
OnlyUsedStatementsStay ==
  pc = "stripped" =>
    \A i \in DOMAIN test :
      test[i].kind \in Calls \/ \E j \in DOMAIN test : test[i].id \in test[j].uses

\* At all times, and after post-processing, a test is one that can be exported.
TestsAreWellFormed ==
  [](ReferencesAreSound /\ OnlyUsedStatementsStay) /\ [][ExceptionStaysLast]_vars
=============================================================================
