---------------------------- MODULE SearchBudget ----------------------------
(* A search of any algorithm and the conditions it consults: generate_tests    *)
(* asks for the resources left before each iteration, executes tests in it,    *)
(* and reports the coverage of the best suite after it.                        *)
EXTENDS StoppingConditions, Sequences

CONSTANTS
  Coverages,      \* the coverages that the best suite may have
  MaxLength,      \* bound: statements of a test
  MaxWork,        \* bound: tests in an iteration, and ticks of the clock in it
  MaxIterations   \* bound: iterations of the search

\* What the code takes for granted.
ConstantsType ==
  /\ DOMAIN Limits \subseteq Kinds /\ \A k \in DOMAIN Limits : Limits[k] \in Nat
  /\ \A k \in DOMAIN Limits \ {"coverage"} : Limits[k] > 0
  /\ PlateauLength \in Nat /\ Scale \in Nat \ {0}
  /\ Coverages \subseteq 0 .. Scale

VARIABLES
  counters,       \* what the conditions know
  pc,             \* where generate_tests stands
  work,           \* history: what was done in this iteration
  history         \* history: the coverages reported so far

vars == <<counters, pc, work, history>>

Init ==
  /\ counters = Fresh
  /\ pc = "check"
  /\ work = 0
  /\ history = <<>>

\* The condition of the loop: resources_left, and a fitness that is not zero.
Check ==
  /\ pc = "check"
  /\ \/ pc' = "iterate" /\ ResourcesLeft(counters)
     \/ pc' = "finished"
  /\ work' = 0
  /\ UNCHANGED <<counters, history>>

\* A test of which the first n statements are executed.
ExecuteTest ==
  /\ pc \in {"iterate", "check"} /\ work < MaxWork
  /\ work' = work + 1
  /\ \E n \in 0 .. MaxLength : counters' = AfterTest(counters, n)
  /\ UNCHANGED <<pc, history>>

Tick ==
  /\ pc \in {"iterate", "check"} /\ work < MaxWork
  /\ work' = work + 1
  /\ counters' = [counters EXCEPT !.clock = @ + 1]
  /\ UNCHANGED <<pc, history>>

\* after_search_iteration.
Report ==
  /\ pc = "iterate" /\ Len(history) < MaxIterations
  /\ \E coverage \in Coverages :
       /\ counters' = AfterIteration(counters, coverage)
       /\ history' = Append(history, coverage)
  /\ pc' = "check"
  /\ UNCHANGED work

Finished == (pc = "finished" \/ Len(history) = MaxIterations) /\ UNCHANGED vars

Next == Check \/ ExecuteTest \/ Tick \/ Report \/ Finished

\* The search goes on, iterations end, and time passes.
Fairness == WF_vars(Check) /\ WF_vars(Report) /\ WF_vars(Tick)

Spec == Init /\ [][Next]_vars /\ Fairness

-----------------------------------------------------------------------------
(* Properties.                                                             *)

\* The last n coverages reported, and the best one before them.
LastCoverages(n) == {history[i] : i \in Len(history) - n + 1 .. Len(history)}
BestBefore(n) == Max({0} \cup {history[i] : i \in 1 .. Len(history) - n})

\* A search ends with a plateau only after as many iterations as are
\* configured, none of which gained coverage.
PlateauMeansNoGain ==
  ("plateau" \in DOMAIN Limits /\ IsFulfilled(counters, "plateau")) =>
    LET n == Limits["plateau"]
    IN  Len(history) >= n /\ \A c \in LastCoverages(n) : c <= BestBefore(n)

\* A search ends with a minimum plateau only if the coverage stayed the same
\* percentage, of at least the minimum, for the iterations configured.
MinimumPlateauIsReal ==
  ("minimum" \in DOMAIN Limits /\ IsFulfilled(counters, "minimum")) =>
    /\ Len(history) > PlateauLength
    /\ \E p \in Limits["minimum"] .. 100 :
         {Percent(c) : c \in LastCoverages(PlateauLength + 1)} = {p}

\* A search is cut short only by a plateau that there is.
PlateausAreReal == PlateauMeansNoGain /\ MinimumPlateauIsReal

\* A search with a limit on iterations ends.
SearchEnds == <>(pc = "finished")
=============================================================================
