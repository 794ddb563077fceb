-------------------------------- MODULE Executor --------------------------------
(* Execution of test cases (testcase/execution.py): TestCaseExecutor runs every    *)
(* test in a daemon thread of its own and stops waiting for it after a timeout.    *)
(* A thread cannot be killed from outside; it kills itself when it notices that    *)
(* the tracer names another thread.  The thread of a test may therefore outlive    *)
(* its test and run beside the threads of later tests.                             *)
(*                                                                                 *)
(* An execution and its thread have the same number.  The interpreter may give a   *)
(* new thread the identifier of one that ended; an ended thread compares nothing,  *)
(* so distinct numbers behave alike.                                               *)
EXTENDS Integers, FiniteSets

CONSTANTS MaxExecutions, \* bound: how many tests are executed
          MaxLength      \* bound: statements of a test

ASSUME BoundsType == MaxExecutions \in Nat /\ MaxLength \in Nat

Executions == 1 .. MaxExecutions
NoThread == -1

VARIABLES
  main,      \* the thread that calls execute
  count,     \* executions begun
  length,    \* length[e]: number of statements of e's test
  current,   \* tracer._current_thread_identifier
  pc,        \* where the thread of each execution is
  stmt,      \* the statement the thread is at, 0 before the first
  raised,    \* whether the statement raised
  enabled,   \* the tracer's thread-local flag
  trace,     \* the tracer's thread-local trace
  queue,     \* the thread's return_queue: at most one result
  results,   \* what execute returned
  late       \* history: executions that timed out before their thread named itself

caller == <<main, count, length>>
threads == <<pc, stmt, raised, enabled, trace, queue>>
vars == <<caller, current, threads, results, late>>

NoResult == [kind |-> "none"]
Timeout == [kind |-> "timeout"]
Ran(e) == [kind |-> "ran", trace |-> trace[e], last |-> stmt[e], raised |-> raised[e]]

Init ==
  /\ main = "idle"
  /\ count = 0
  /\ length = [e \in Executions |-> 0]
  /\ current = 0
  /\ pc = [e \in Executions |-> "none"]
  /\ stmt = [e \in Executions |-> 0]
  /\ raised = [e \in Executions |-> FALSE]
  /\ enabled = [e \in Executions |-> TRUE]
  /\ trace = [e \in Executions |-> {}]
  /\ queue = [e \in Executions |-> NoResult]
  /\ results = [e \in Executions |-> NoResult]
  /\ late = {}
--------------------------------------------------------------------------------
(* execute: start a thread and join it, with a timeout.                            *)
Execute ==
  /\ main = "idle"
  /\ count < MaxExecutions
  /\ count' = count + 1
  /\ \E n \in 0 .. MaxLength : length' = [length EXCEPT ![count'] = n]
  /\ pc' = [pc EXCEPT ![count'] = "start"]
  /\ main' = "joining"
  /\ UNCHANGED <<current, stmt, raised, enabled, trace, queue, results, late>>

(* A slip: the tracer keeps naming the thread.                                      *)
TimesOutQuietly ==
  /\ main = "joining"
  /\ pc[count] # "ended"
  /\ results' = [results EXCEPT ![count] = Timeout]
  /\ late' = IF pc[count] = "start" THEN late \cup {count} ELSE late
  /\ main' = "idle"
  /\ UNCHANGED <<count, length, current, threads>>

(* The join may time out at any point; a test without statements has no time at    *)
(* all.  No thread is called NoThread, so that the tracer kills the thread.         *)
TimesOut ==
  /\ main = "joining"
  /\ pc[count] # "ended"
  /\ current' = NoThread
  /\ results' = [results EXCEPT ![count] = Timeout]
  /\ late' = IF pc[count] = "start" THEN late \cup {count} ELSE late
  /\ main' = "idle"
  /\ UNCHANGED <<count, length, threads>>

Returns ==
  /\ main = "joining"
  /\ pc[count] = "ended"
  /\ queue[count] # NoResult
  /\ results' = [results EXCEPT ![count] = queue[count]]
  /\ main' = "idle"
  /\ UNCHANGED <<count, length, current, threads, late>>

(* The thread has ended, its queue is empty: RuntimeError("Bug in Pynguin!").       *)
Fails ==
  /\ main = "joining"
  /\ pc[count] = "ended"
  /\ queue[count] = NoResult
  /\ main' = "failed"
  /\ UNCHANGED <<count, length, current, threads, results, late>>
--------------------------------------------------------------------------------
(* _before_test_case_execution, then the thread tells the tracer to trace it.       *)
NameItself(e) ==
  /\ pc[e] = "start"
  /\ trace' = [trace EXCEPT ![e] = {}]
  /\ current' = e
  /\ stmt' = [stmt EXCEPT ![e] = 1]
  /\ pc' = [pc EXCEPT ![e] = "next"]
  /\ UNCHANGED <<caller, raised, enabled, queue, results, late>>

(* A thread that finds another one named raises an exception nothing catches.       *)
IsCurrent(e) == current = e

Die(e) ==
  /\ pc' = [pc EXCEPT ![e] = "ended"]
  /\ enabled' = [enabled EXCEPT ![e] = TRUE]
  /\ UNCHANGED <<caller, current, stmt, raised, trace, queue, results, late>>

(* _before_statement_execution: the check, and observers with the tracer disabled.  *)
Before(e) ==
  /\ pc[e] = "next"
  /\ stmt[e] <= length[e]
  /\ IF IsCurrent(e)
     THEN /\ pc' = [pc EXCEPT ![e] = "run"]
          /\ UNCHANGED <<caller, current, stmt, raised, enabled, trace, queue, results, late>>
     ELSE Die(e)

(* Instrumented code calls the tracer when a code object is entered and at every    *)
(* line.  Either call raises in a thread that is not the current one; when the      *)
(* tracer is disabled, only the line is left out.                                   *)
Called(e, by) ==
  {[what |-> w, by |-> by, at |-> stmt[e]] :
     w \in {"code"} \cup (IF enabled[e] THEN {"line"} ELSE {})}

Record(e, by) ==
  trace' = [trace EXCEPT ![e] = @ \cup (IF IsCurrent(e) THEN Called(e, by) ELSE {})]

(* execute_ast catches what the statement raises, the tracer's exception included,  *)
(* unless the code under test swallows it.                                          *)
Run(e) ==
  /\ pc[e] = "run"
  /\ Record(e, "test")
  /\ \E r \in BOOLEAN : raised' = [raised EXCEPT ![e] = r]
  /\ pc' = [pc EXCEPT ![e] = "after"]
  /\ UNCHANGED <<caller, current, stmt, enabled, queue, results, late>>

(* A slip: the thread does not look whether it is still the current one.            *)
AfterUnchecked(e) ==
  /\ pc[e] = "after"
  /\ pc' = [pc EXCEPT ![e] = "observe"]
  /\ enabled' = [enabled EXCEPT ![e] = FALSE]
  /\ UNCHANGED <<caller, current, stmt, raised, trace, queue, results, late>>

(* _after_statement_execution: the check, then the observers, tracer disabled.      *)
After(e) ==
  /\ pc[e] = "after"
  /\ IF IsCurrent(e)
     THEN /\ pc' = [pc EXCEPT ![e] = "observe"]
          /\ enabled' = [enabled EXCEPT ![e] = FALSE]
          /\ UNCHANGED <<caller, current, stmt, raised, trace, queue, results, late>>
     ELSE Die(e)

(* An observer may call code under test, say to compare an object for an assertion. *)
(* Then the thread is at its next statement, or done after an exception.            *)
Observe(e) ==
  /\ pc[e] = "observe"
  /\ \/ UNCHANGED trace
     \/ (IsCurrent(e) /\ Record(e, "observer"))
  /\ enabled' = [enabled EXCEPT ![e] = TRUE]
  /\ IF raised[e]
     THEN pc' = [pc EXCEPT ![e] = "collect"] /\ UNCHANGED stmt
     ELSE pc' = [pc EXCEPT ![e] = "next"] /\ stmt' = [stmt EXCEPT ![e] = @ + 1]
  /\ UNCHANGED <<caller, current, raised, queue, results, late>>

ObserverIsKilled(e) ==
  /\ pc[e] = "observe"
  /\ ~IsCurrent(e)
  /\ Die(e)

(* The result holds this thread's trace, and goes to this execution's queue.        *)
Collect(e) ==
  /\ \/ pc[e] = "collect"
     \/ (pc[e] = "next" /\ stmt[e] > length[e])
  /\ queue' = [queue EXCEPT ![e] = Ran(e)]
  /\ pc' = [pc EXCEPT ![e] = "ended"]
  /\ UNCHANGED <<caller, current, stmt, raised, enabled, trace, results, late>>

(* The bound is reached, or the caller got an exception.                            *)
Stopped ==
  /\ main = "failed" \/ (main = "idle" /\ count = MaxExecutions)
  /\ UNCHANGED vars

Caller == Execute \/ TimesOut \/ Returns \/ Fails

Thread(e) ==
  NameItself(e) \/ Before(e) \/ Run(e) \/ After(e) \/ Observe(e) \/ ObserverIsKilled(e) \/ Collect(e)

Next ==
  \/ Caller
  \/ \E e \in Executions : Thread(e)
  \/ Stopped

(* Nothing is assumed of the threads: the code under test may hang.                 *)
Spec == Init /\ [][Next]_vars
--------------------------------------------------------------------------------
Traces == SUBSET [what : {"code", "line"}, by : {"test", "observer"}, at : 1 .. MaxLength]

Results == [kind : {"ran"}, trace : Traces, last : 0 .. MaxLength + 1, raised : BOOLEAN]

TypeOK ==
  /\ main \in {"idle", "joining", "failed"}
  /\ count \in 0 .. MaxExecutions
  /\ length \in [Executions -> 0 .. MaxLength]
  /\ current \in {NoThread, 0} \cup Executions
  /\ pc \in [Executions -> {"none", "start", "next", "run", "after", "observe", "collect", "ended"}]
  /\ stmt \in [Executions -> 0 .. MaxLength + 1]
  /\ raised \in [Executions -> BOOLEAN]
  /\ enabled \in [Executions -> BOOLEAN]
  /\ trace \in [Executions -> Traces]
  /\ queue \in [Executions -> {NoResult} \cup Results]
  /\ results \in [Executions -> {NoResult, Timeout} \cup Results]
  /\ late \subseteq Executions

(* The lines of its own test that a trace holds.                                    *)
OwnLines(tr) == {x.at : x \in {y \in tr : y.what = "line" /\ y.by = "test"}}

(* No result is made from half a trace: when execute returns a result that is not a *)
(* timeout, its trace has the lines of every statement up to the last one or the    *)
(* one that raised, even if a leftover thread renamed the current thread meanwhile   *)
(* and the code under test swallowed the exception the tracer killed it with.       *)
ResultIsWhole ==
  \A e \in Executions :
    LET r == results[e]
    IN r.kind = "ran" =>
         OwnLines(r.trace) = 1 .. (IF r.raised THEN r.last ELSE length[e])

(* A thread that had named itself when its test timed out begins no statement       *)
(* after that: it cannot change the state of the module under test under later      *)
(* tests for longer than its current statement runs.                                *)
TimedOutThreadStops ==
  [][\A e \in Executions :
       results[e] = Timeout /\ e \notin late => ~(pc[e] = "next" /\ pc'[e] = "run")]_vars

(* execute raises "Bug in Pynguin!" only if some earlier test timed out before its  *)
(* thread had named itself: nothing else takes the tracer away from a test.         *)
OnlyLateThreadsKill == main = "failed" => late # {}

(* execute invalidates the current thread after a timeout "such that the tracer      *)
(* kills the thread" (execution.py) and takes an empty queue for a bug; a thread    *)
(* that names itself later undoes it and makes the next test's thread die.          *)
FinishedThreadHasResult == main # "failed"

(* Code that an observer triggers "is not caused by the test case and should        *)
(* therefore not be in the trace" (execution.py): no line of it is, not even of a   *)
(* thread that outlives its test.  The code objects it enters are, because the call *)
(* of the tracer for them does not look whether it is enabled.                      *)
ObserversTraceNoLines ==
  \A e \in Executions : \A x \in trace[e] : x.by = "observer" => x.what = "code"

(* Threads of timed-out tests stay apart from the tests that run beside them: the    *)
(* three parts above, in every state of the right types.                            *)
ThreadsAreApart == TypeOK /\ ResultIsWhole /\ OnlyLateThreadsKill /\ ObserversTraceNoLines
================================================================================
