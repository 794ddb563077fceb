------------------------------- MODULE TestSearch -------------------------------
(* What a search for tests promises, whatever algorithm runs it: it collects      *)
(* covering tests, exchanges one only for a shorter one, and reports completion   *)
(* only when it has a test for every goal.                                        *)
EXTENDS Chromosomes

CONSTANT NoTest

VARIABLES best,        \* the best test known for each goal, or NoTest
          verdict      \* "searching", "complete" or "stopped"

Init ==
  /\ best = [g \in Goals |-> NoTest]
  /\ verdict = "searching"

Improves(b, g) ==
  /\ b[g] \in Tests
  /\ IsCovered(b[g], g)
  /\ best[g] = NoTest \/ Size[b[g]] < Size[best[g]]

(* An iteration of the search may find better tests for some goals.               *)
Improve ==
  /\ verdict = "searching"
  /\ best' \in [Goals -> Tests \cup {NoTest}]
  /\ \A g \in Goals : best'[g] # best[g] => Improves(best', g)
  /\ UNCHANGED verdict

Finish ==
  /\ verdict = "searching"
  /\ \/ verdict' = "stopped"
     \/ verdict' = "complete" /\ \A g \in Goals : best[g] # NoTest
  /\ UNCHANGED best

Next == Improve \/ Finish

Spec == Init /\ [][Next]_<<best, verdict>>
================================================================================
