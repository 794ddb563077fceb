------------------------------ MODULE Chromosomes ------------------------------
(* The universe the search algorithms of pynguin/ga move in: test cases, the     *)
(* goals they are searched for, and what the computation functions say of a test *)
(* once it has been executed.  A test case is a value: the algorithms never      *)
(* change a chromosome of the population or of the archive, they change clones.  *)
EXTENDS Naturals

CONSTANTS Tests,      \* test-case chromosomes
          Goals,      \* test-case fitness functions, one per branch or code object
          Fitness,    \* Fitness[t][g]: branch distance plus approach level, 0 is best
          Size        \* Size[t]: number of statements

ASSUME FitnessType == Fitness \in [Tests -> [Goals -> Nat]]
ASSUME SizeType == Size \in [Tests -> Nat]

(* A goal is covered by a test whose fitness for it is zero.                     *)
IsCovered(t, g) == Fitness[t][g] = 0

(* The goals of gs that some test of ts covers.                                  *)
CoveredBy(ts, gs) == {g \in gs : \E t \in ts : IsCovered(t, g)}
================================================================================
