-------------------------------- MODULE Ranking --------------------------------
(* Rank-based preference sorting and the selection of the next population, as    *)
(* MOSA and DynaMOSA use them.  Lists of chromosomes are sets; where the order   *)
(* of a list or a coin decides, every outcome is allowed.                        *)
EXTENDS Chromosomes, FiniteSets

(* PreferenceSortingComparator: fitness for the goal first, then length.         *)
Preferred(t, u, g) ==
  \/ Fitness[t][g] < Fitness[u][g]
  \/ Fitness[t][g] = Fitness[u][g] /\ Size[t] < Size[u]

Best(g, ts) == {t \in ts : \A u \in ts : ~Preferred(u, t, g)}

(* The possible first fronts: one best test for each goal, ties at random.       *)
ZeroFronts(ts, gs) ==
  {{pick[g] : g \in gs} : pick \in {p \in [gs -> ts] : \A g \in gs : p[g] \in Best(g, ts)}}

(* DominanceComparator over the goals gs.                                        *)
Dominates(t, u, gs) ==
  /\ \A g \in gs : Fitness[t][g] <= Fitness[u][g]
  /\ \E g \in gs : Fitness[t][g] < Fitness[u][g]

(* The tests outside the first front that can still enter the population: at     *)
(* most n of them, a test never without those that dominate it, since those are  *)
(* in an earlier front.  Fewer than n enter when equal tests fill the places.    *)
LaterFronts(ts, gs, n) ==
  {r \in SUBSET ts : /\ Cardinality(r) <= n
                     /\ \A t \in r, u \in ts : Dominates(u, t, gs) => u \in r}

(* fast_epsilon_dominance_assignment, times the size of the front: the fewer     *)
(* tests share the front's minimum for a goal, the farther apart they are.       *)
Minimal(f, g) == {t \in f : \A u \in f : Fitness[t][g] <= Fitness[u][g]}

AtLeastAsDistant(t, u, f, gs) ==
  LET shares(x) == {Cardinality(Minimal(f, g)) :
                      g \in {h \in gs : x \in Minimal(f, h) /\ Minimal(f, h) # f}}
  IN \A n \in shares(u) : \E m \in shares(t) : m <= n

(* A front that does not fit is cut to its n most distant tests.                 *)
Truncations(f, gs, n) ==
  {r \in SUBSET f : /\ Cardinality(r) = n
                    /\ \A t \in r, u \in f \ r : AtLeastAsDistant(t, u, f, gs)}

(* The populations that selection can form from the ranked tests ts when remain  *)
(* of them may stay.  The loop over the fronts stops at an empty one, so without *)
(* a first front nobody survives.                                                *)
Survivors(ts, front, gs, remain) ==
  IF front = {} THEN {{}}
  ELSE IF Cardinality(front) <= remain
  THEN {front \cup r : r \in LaterFronts(ts \ front, gs, remain - Cardinality(front))}
  ELSE Truncations(front, gs, remain)
================================================================================
