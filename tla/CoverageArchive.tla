---------------------------- MODULE CoverageArchive ----------------------------
(* The archive of MOSA and DynaMOSA: for each objective the shortest covering    *)
(* test it was shown, and the objectives that no test has covered yet.           *)
EXTENDS Chromosomes

CONSTANT NoTest       \* what _covered.get(objective, None) gives for no entry

ASSUME NoTestIsNoTest == NoTest \notin Tests

VARIABLES covered,    \* _covered, total: NoTest where the dictionary has no key
          uncovered,  \* _uncovered
          objectives  \* _objectives

archiveVars == <<covered, uncovered, objectives>>

ArchiveType ==
  /\ covered \in [Goals -> Tests \cup {NoTest}]
  /\ uncovered \subseteq Goals
  /\ objectives \subseteq Goals

CoveredGoals(c) == {g \in Goals : c[g] # NoTest}

Solutions(c) == {c[g] : g \in CoveredGoals(c)}

(* A slip of update: a test is stored without covering the objective.              *)
ImprovingUncovered(c, g, ts) ==
  {t \in ts : c[g] = NoTest \/ Size[t] < Size[c[g]]}

(* The tests of ts that beat the entry c holds for g: covering and strictly      *)
(* shorter, or covering where there is no entry.                                 *)
Improving(c, g, ts) ==
  {t \in ts : IsCovered(t, g) /\ (c[g] = NoTest \/ Size[t] < Size[c[g]])}

Shortest(ts) == {t \in ts : \A u \in ts : Size[t] <= Size[u]}

(* update(solutions): the dictionaries it can leave behind.  Among several       *)
(* shortest tests the first of the list wins; the list is a set here, so any may.*)
Updates(c, objs, ts) ==
  LET better == {g \in objs : Improving(c, g, ts) # {}}
      picks == {p \in [better -> ts] :
                  \A g \in better : p[g] \in Shortest(Improving(c, g, ts))}
  IN {[g \in Goals |-> IF g \in better THEN p[g] ELSE c[g]] : p \in picks}

(* A slip: the objective stays in _uncovered.                                      *)
StoredNothing(c, d) == {}

(* The objectives that update removes from _uncovered: those it stored a test for.*)
Stored(c, d) == {g \in Goals : d[g] # c[g]}
================================================================================
