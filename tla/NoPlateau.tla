-------------------------------- MODULE NoPlateau --------------------------------
(* The driver (noplateau.sh): iterations of CoverUp, of LLM-written diversity tests *)
(* and of Pynguin alternate until the time budget is used up, too many iterations   *)
(* were made or the coverage is complete.  The tools share tests through two         *)
(* directories that are copied over each other: CoverUp works in the one, the       *)
(* others and the measurement in the other.                                         *)
EXTENDS Integers, Sequences

CONSTANTS EnabledTypes,  \* enabled_types, in the order of the round robin
          TargetFound,   \* whether the file of the module under test exists
          TimeBudget,    \* time_budget
          Overhead,      \* estimated_pynguin_overhead_time
          MaxIterations, \* max_iterations, 100 in the code
          MaxElapsed,    \* bound: how long one iteration takes at most
          Coverages      \* the percentages that the measurement may report

(* What the constants are assumed to be.                                            *)
ConstantsType ==
  /\ EnabledTypes \in Seq({"coverup", "diversity", "pynguin"}) /\ Len(EnabledTypes) > 0
  /\ TargetFound \in BOOLEAN
  /\ TimeBudget \in Nat /\ Overhead \in Nat
  /\ MaxIterations \in Nat /\ MaxElapsed \in Nat
  /\ Coverages \subseteq -1 .. 100

VARIABLES
  pc,          \* "loop", "measure", "final" or "done"
  testDir,     \* $test_dir: test files, by who made them in which iteration
  coverupDir,  \* $coverup_test_dir
  timeUsed,    \* TIME_USED
  toggle,      \* index of the next iteration type, from 0
  iterations,  \* iterations begun
  cov,         \* the coverage measured last
  best         \* best_coverage

dirs == <<testDir, coverupDir>>
vars == <<pc, dirs, timeUsed, toggle, iterations, cov, best>>

Init ==
  /\ pc = "loop"
  /\ testDir = {} /\ coverupDir = {}
  /\ timeUsed = 0 /\ toggle = 0 /\ iterations = 0
  /\ cov = 0 /\ best = 0

Current == EnabledTypes[toggle + 1]

(* A slip: the iteration is not counted.                                            *)
BeginUncounted(type) ==
  /\ pc = "loop"
  /\ timeUsed < TimeBudget
  /\ iterations < MaxIterations
  /\ Current = type
  /\ toggle' = (toggle + 1) % Len(EnabledTypes)
  /\ pc' = "measure"
  /\ UNCHANGED <<iterations, cov, best>>

(* An iteration begins while time and iterations are left.                          *)
Begin(type) ==
  /\ pc = "loop"
  /\ timeUsed < TimeBudget
  /\ iterations < MaxIterations
  /\ Current = type
  /\ iterations' = iterations + 1
  /\ toggle' = (toggle + 1) % Len(EnabledTypes)
  /\ pc' = "measure"
  /\ UNCHANGED <<cov, best>>

Spend == \E t \in 0 .. MaxElapsed : timeUsed' = timeUsed + t

Made(by) == [by |-> by, in |-> iterations']
Merged == [by |-> "merge", in |-> 0]

(* merge_tests.sh writes nothing when there are no tests to merge.                   *)
Merge(dir) == IF dir = {} THEN {} ELSE dir \cup {Merged}

(* A tool that overwrites its file of an earlier iteration.                          *)
Overwrite(dir, by) == {f \in dir : f.by # by} \cup {Made(by)}

(* run_coverup: tests are added in CoverUp's directory, if any, and the directory    *)
(* replaces the other, whatever CoverUp's exit code.                                *)
RunCoverup ==
  /\ Begin("coverup")
  /\ IF TargetFound
     THEN /\ coverupDir' \in {coverupDir, coverupDir \cup {Made("coverup")}}
          /\ testDir' = coverupDir'
          /\ Spend
     ELSE UNCHANGED <<dirs, timeUsed>>

(* make_diverse_tests: mistral.py reads the merged tests and fails without them, or  *)
(* when the model does not answer; its output replaces the previous one.  The        *)
(* function does not touch CoverUp's directory.                                     *)
MakeDiverseTests ==
  /\ Begin("diversity")
  /\ LET merged == Merge(testDir)
     IN testDir' \in {merged \ {Merged}} \cup
          {Overwrite(merged, "diversity") \ {Merged} : m \in merged \cap {Merged}}
  /\ Spend
  /\ UNCHANGED coverupDir

(* run_pynguin: skipped, without a charge, when nothing is left for the search.      *)
(* Pynguin's output replaces the previous one unless it fails; then CoverUp's        *)
(* directory is replaced by the other.                                              *)
SearchTime == TimeBudget - timeUsed - Overhead

SkipPynguin ==
  /\ Begin("pynguin")
  /\ SearchTime <= 0
  /\ UNCHANGED <<dirs, timeUsed>>

(* A slip: CoverUp does not get the tests that Pynguin left.                        *)
RunPynguinAlone ==
  /\ Begin("pynguin")
  /\ SearchTime > 0
  /\ testDir' \in {testDir, Overwrite(testDir, "pynguin")}
  /\ Spend
  /\ UNCHANGED coverupDir

RunPynguin ==
  /\ Begin("pynguin")
  /\ SearchTime > 0
  /\ LET merged == Merge(testDir)
     IN testDir' \in {merged \ {Merged}, Overwrite(merged, "pynguin") \ {Merged}}
  /\ coverupDir' = testDir'
  /\ Spend

(* measure_coverage and the end of the loop's body.                                 *)
Measure ==
  /\ pc = "measure"
  /\ cov' \in Coverages
  /\ best' = IF cov' > best THEN cov' ELSE best
  /\ pc' = IF cov' >= 100 THEN "final" ELSE "loop"
  /\ UNCHANGED <<dirs, timeUsed, toggle, iterations>>

LoopEnds ==
  /\ pc = "loop"
  /\ timeUsed >= TimeBudget \/ iterations >= MaxIterations
  /\ pc' = "final"
  /\ UNCHANGED <<dirs, timeUsed, toggle, iterations, cov, best>>

FinalMeasurement ==
  /\ pc = "final"
  /\ cov' \in Coverages
  /\ pc' = "done"
  /\ UNCHANGED <<dirs, timeUsed, toggle, iterations, best>>

Done == pc = "done" /\ UNCHANGED vars

Iteration == RunCoverup \/ MakeDiverseTests \/ SkipPynguin \/ RunPynguin

Next == Iteration \/ Measure \/ LoopEnds \/ FinalMeasurement \/ Done

(* The script is sequential, and every tool it waits for ends.                      *)
Spec == Init /\ [][Next]_vars /\ WF_vars(Next)
--------------------------------------------------------------------------------
TestFiles == [by : {"coverup", "diversity", "pynguin"}, in : 1 .. MaxIterations]

TypeOK ==
  /\ pc \in {"loop", "measure", "final", "done"}
  /\ testDir \subseteq TestFiles /\ coverupDir \subseteq TestFiles
  /\ timeUsed \in 0 .. TimeBudget + MaxElapsed
  /\ toggle \in 0 .. Len(EnabledTypes) - 1
  /\ iterations \in 0 .. MaxIterations
  /\ cov \in Coverages \cup {0} /\ best \in Coverages \cup {0}

Diverse(dir) == {f \in dir : f.by = "diversity"}

(* The two directories never drift apart: only diversity tests can be in one and    *)
(* not in the other, so neither copy throws away tests of CoverUp or Pynguin.        *)
DirectoriesAgree == testDir \ Diverse(testDir) = coverupDir \ Diverse(coverupDir)

(* In every state the script can be in, with values of the right types.             *)
DirectoriesAreSound == TypeOK /\ DirectoriesAgree

(* Tests survive: a file that both directories hold leaves the one that is measured *)
(* only for a newer file of the same tool.                                          *)
TestsSurvive ==
  [][\A f \in testDir \cap coverupDir :
       f \in testDir' \/ \E g \in testDir' : g.by = f.by /\ g.in > f.in]_vars

(* The driver stops, although a skipped Pynguin iteration costs no time.            *)
Stops == <>(pc = "done")
================================================================================
