----------------------------- MODULE ExecutorProofs -----------------------------
(* Proofs about the executor for any number of executions and statements, and      *)
(* whatever the code under test raises, swallows or hangs in.                      *)
EXTENDS Executor, TLAPS

(* A trace holds the lines of the first n statements.                              *)
Whole(tr, n) == OwnLines(tr) = 1 .. n

(* A result whose trace is as long as what was executed of a test of n statements. *)
WholeResult(r, n) == r.kind = "ran" => Whole(r.trace, IF r.raised THEN r.last ELSE n)

(* What the trace of a thread holds, by where the thread is.  After a statement only *)
(* a thread that is still the current one knows that it was traced.                *)
WholeSoFar(e) ==
  /\ pc[e] \in {"next", "run", "after", "observe", "collect"} => stmt[e] >= 1
  /\ pc[e] = "next" => Whole(trace[e], stmt[e] - 1) /\ stmt[e] <= length[e] + 1
  /\ pc[e] \in {"run", "after", "observe", "collect"} => stmt[e] <= length[e]
  /\ pc[e] = "run" => Whole(trace[e], stmt[e] - 1)
  /\ pc[e] = "after" => (current = e => Whole(trace[e], stmt[e]))
  /\ pc[e] \in {"observe", "collect"} => Whole(trace[e], stmt[e])
  /\ pc[e] \in {"none", "start", "next"} => ~raised[e]
  /\ pc[e] = "collect" => raised[e]

TracesAreWhole ==
  \A e \in Executions :
    WholeSoFar(e) /\ WholeResult(queue[e], length[e]) /\ WholeResult(results[e], length[e])

(* The tracer is disabled for a thread exactly while its observers work.           *)
FlagsAreRight == \A e \in Executions : enabled[e] <=> pc[e] # "observe"

(* What has not begun has left nothing behind.                                     *)
Unbegun ==
  /\ main = "joining" => count \in Executions /\ results[count] = NoResult
  /\ \A e \in Executions :
       e > count => pc[e] = "none" /\ queue[e] = NoResult /\ results[e] = NoResult

(* As long as nobody is late, the thread of the running test is named or about to  *)
(* name itself, and has a result when it ends.                                     *)
CurrentIsNamed ==
  late = {} =>
    /\ main # "failed"
    /\ \A e \in Executions : pc[e] = "start" => e = count /\ main = "joining"
    /\ main = "joining" =>
         /\ pc[count] # "none"
         /\ pc[count] # "start" => current = count
         /\ pc[count] = "ended" => queue[count] # NoResult

(* A thread that had named itself in time is not named after its test timed out.   *)
TimedOutIsNotNamed ==
  \A e \in Executions : results[e] = Timeout /\ e \notin late => pc[e] # "start" /\ current # e

Inv ==
  /\ TypeOK /\ TracesAreWhole /\ FlagsAreRight /\ Unbegun /\ CurrentIsNamed
  /\ TimedOutIsNotNamed /\ ObserversTraceNoLines
--------------------------------------------------------------------------------
(* No line is in an empty trace.                                                    *)
LEMMA NoLines == OwnLines({}) = {}
BY DEF OwnLines

(* What a traced statement adds to the lines of its test, and what an observer adds. *)
LEMMA CalledByTest ==
  ASSUME NEW e \in Executions, enabled[e], NEW tr, Whole(tr, stmt[e] - 1), stmt[e] \in Nat \ {0}
  PROVE  Whole(tr \cup Called(e, "test"), stmt[e])
<1>1. OwnLines(tr \cup Called(e, "test")) = OwnLines(tr) \cup {stmt[e]}
  <2>1. [what |-> "line", by |-> "test", at |-> stmt[e]] \in Called(e, "test")
    BY DEF Called
  <2>2. \A x \in Called(e, "test") : x.at = stmt[e]
    BY DEF Called
  <2>3. stmt[e] \in OwnLines(tr \cup Called(e, "test"))
    BY <2>1 DEF OwnLines
  <2>4. OwnLines(tr \cup Called(e, "test")) \subseteq OwnLines(tr) \cup {stmt[e]}
    BY <2>2 DEF OwnLines
  <2>5. OwnLines(tr) \subseteq OwnLines(tr \cup Called(e, "test"))
    BY DEF OwnLines
  <2> QED
    BY <2>3, <2>4, <2>5
<1>2. 1 .. stmt[e] = 1 .. (stmt[e] - 1) \cup {stmt[e]}
  OBVIOUS
<1> QED
  BY <1>1, <1>2 DEF Whole

LEMMA CalledByObserver ==
  ASSUME NEW e \in Executions, NEW tr
  PROVE  OwnLines(tr \cup Called(e, "observer")) = OwnLines(tr)
BY DEF OwnLines, Called

(* What the tracer is told has its type.                                           *)
LEMMA CalledType ==
  ASSUME NEW e \in Executions, NEW by \in {"test", "observer"}, stmt[e] \in 1 .. MaxLength
  PROVE  Called(e, by) \in Traces
BY DEF Called, Traces

(* The executor starts with nothing executed.                                       *)
LEMMA InitInv == Init => Inv
<1> SUFFICES ASSUME Init PROVE Inv
  OBVIOUS
<1> USE BoundsType
<1>1. TypeOK
  BY DEF Init, TypeOK, Executions, NoThread, Traces, Results
<1>2. TracesAreWhole
  BY DEF Init, TracesAreWhole, WholeSoFar, WholeResult, NoResult
<1>3. CurrentIsNamed /\ Unbegun /\ FlagsAreRight /\ TimedOutIsNotNamed /\ ObserversTraceNoLines
  BY DEF Init, CurrentIsNamed, Unbegun, FlagsAreRight, TimedOutIsNotNamed, ObserversTraceNoLines,
         Executions, NoResult, Timeout
<1> QED
  BY <1>1, <1>2, <1>3 DEF Inv
--------------------------------------------------------------------------------
(* The caller begins an execution, or ends one.                                    *)
LEMMA ExecuteInv == Inv /\ Execute => Inv'
<1> SUFFICES ASSUME Inv, Execute PROVE Inv'
  OBVIOUS
<1> USE BoundsType DEF threads, caller
<1>0. count' \in Executions /\ count' = count + 1 /\ count \in Nat
  BY DEF Inv, TypeOK, Execute, Executions
<1>1. TypeOK'
  BY <1>0 DEF Inv, TypeOK, Execute
<1>2. pc'[count'] = "start" /\ pc[count'] = "none"
  BY <1>0 DEF Inv, TypeOK, Unbegun, Execute
<1>3. \A e \in Executions : e # count' => pc'[e] = pc[e] /\ length'[e] = length[e]
  BY <1>0 DEF Inv, TypeOK, Execute
<1>4. TracesAreWhole'
  <2> SUFFICES ASSUME NEW e \in Executions
               PROVE  (/\ WholeSoFar(e) /\ WholeResult(queue[e], length[e])
                       /\ WholeResult(results[e], length[e]))'
    BY DEF TracesAreWhole
  <2>1. CASE e = count'
    BY <1>0, <1>2, <2>1
       DEF Inv, Unbegun, TracesAreWhole, Execute, WholeSoFar, WholeResult, NoResult
  <2>2. CASE e # count'
    BY <1>3, <2>2 DEF Inv, TracesAreWhole, Execute, WholeSoFar, WholeResult
  <2> QED
    BY <2>1, <2>2
<1>5. FlagsAreRight' /\ ObserversTraceNoLines'
  BY <1>2, <1>3 DEF Inv, FlagsAreRight, ObserversTraceNoLines, Execute
<1>6. Unbegun'
  BY <1>0, <1>3 DEF Inv, Unbegun, Execute, Executions
<1>7. CurrentIsNamed'
  BY <1>0, <1>2, <1>3 DEF Inv, CurrentIsNamed, Execute
<1>8. TimedOutIsNotNamed'
  BY <1>0, <1>2, <1>3 DEF Inv, TimedOutIsNotNamed, Unbegun, Execute, NoResult, Timeout
<1> QED
  BY <1>1, <1>4, <1>5, <1>6, <1>7, <1>8 DEF Inv

(* The caller stops waiting, takes a result, or fails.                             *)
LEMMA EndInv == Inv /\ (TimesOut \/ Returns \/ Fails \/ UNCHANGED vars) => Inv'
<1> SUFFICES ASSUME Inv, TimesOut \/ Returns \/ Fails \/ UNCHANGED vars PROVE Inv'
  OBVIOUS
<1> USE BoundsType DEF threads, caller
<1>1. CASE TimesOut
  <2>0. count \in Executions /\ results' = [results EXCEPT ![count] = Timeout]
    BY <1>1 DEF Inv, Unbegun, TimesOut
  <2>1. TypeOK'
    BY <1>1, <2>0 DEF Inv, TypeOK, TimesOut
  <2>2. TracesAreWhole'
    BY <1>1, <2>0 DEF Inv, TypeOK, TracesAreWhole, TimesOut, WholeSoFar, WholeResult, Timeout,
                      NoThread, Executions
  <2>3. FlagsAreRight' /\ ObserversTraceNoLines'
    BY <1>1 DEF Inv, FlagsAreRight, ObserversTraceNoLines, TimesOut
  <2>4. Unbegun'
    BY <1>1, <2>0 DEF Inv, TypeOK, Unbegun, TimesOut, Executions
  <2>5. CurrentIsNamed'
    BY <1>1, <2>0 DEF Inv, CurrentIsNamed, TimesOut
  <2>6. TimedOutIsNotNamed'
    BY <1>1, <2>0 DEF Inv, TypeOK, TimedOutIsNotNamed, TimesOut, NoThread, Executions
  <2> QED
    BY <2>1, <2>2, <2>3, <2>4, <2>5, <2>6 DEF Inv
<1>2. CASE Returns
  <2>0. count \in Executions /\ results' = [results EXCEPT ![count] = queue[count]]
    BY <1>2 DEF Inv, Unbegun, Returns
  <2>1. TypeOK'
    BY <1>2, <2>0 DEF Inv, TypeOK, Returns
  <2>2. TracesAreWhole'
    BY <1>2, <2>0 DEF Inv, TypeOK, TracesAreWhole, Returns, WholeSoFar, WholeResult
  <2>3. FlagsAreRight' /\ ObserversTraceNoLines'
    BY <1>2 DEF Inv, FlagsAreRight, ObserversTraceNoLines, Returns
  <2>4. Unbegun'
    BY <1>2, <2>0 DEF Inv, TypeOK, Unbegun, Returns, Executions
  <2>5. CurrentIsNamed'
    BY <1>2, <2>0 DEF Inv, CurrentIsNamed, Returns
  <2>6. TimedOutIsNotNamed'
    <3>1. queue[count] # Timeout
      BY <2>0 DEF Inv, TypeOK, NoResult, Results, Timeout
    <3> QED
      BY <1>2, <2>0, <3>1 DEF Inv, TypeOK, TimedOutIsNotNamed, Returns
  <2> QED
    BY <2>1, <2>2, <2>3, <2>4, <2>5, <2>6 DEF Inv
<1>3. CASE Fails
  BY <1>3 DEF Inv, TypeOK, TracesAreWhole, FlagsAreRight, ObserversTraceNoLines, Unbegun,
              CurrentIsNamed, TimedOutIsNotNamed, Fails, WholeSoFar
<1>4. CASE UNCHANGED vars
  BY <1>4 DEF vars, Inv, TypeOK, TracesAreWhole, FlagsAreRight, ObserversTraceNoLines, Unbegun,
              CurrentIsNamed, TimedOutIsNotNamed, WholeSoFar
<1> QED
  BY <1>1, <1>2, <1>3, <1>4
--------------------------------------------------------------------------------
(* What a step of one thread leaves to the others, and what follows for all of them *)
(* from the thread's own part.                                                     *)
Alone(e) ==
  /\ \A f \in Executions \ {e} :
       /\ pc'[f] = pc[f] /\ stmt'[f] = stmt[f] /\ raised'[f] = raised[f]
       /\ enabled'[f] = enabled[f] /\ trace'[f] = trace[f] /\ queue'[f] = queue[f]
  /\ current' # current => current' = e /\ pc[e] = "start"
  /\ UNCHANGED <<caller, results, late>>
  /\ pc[e] \notin {"none", "ended"} /\ pc'[e] \notin {"none", "start"}
  /\ pc[e] = "start" => current' = e /\ pc'[e] # "ended"
  /\ pc'[e] # "ended" => queue'[e] = queue[e]
  /\ pc'[e] = "ended" => queue'[e] # NoResult \/ current # e

(* A step of one thread keeps the invariant if the thread's own part holds again.   *)
LEMMA AloneInv ==
  ASSUME NEW e \in Executions, Inv, Alone(e), TypeOK',
         WholeSoFar(e)', WholeResult(queue'[e], length'[e]),
         enabled'[e] <=> pc'[e] # "observe",
         \A x \in trace'[e] : x.by = "observer" => x.what = "code"
  PROVE  Inv'
<1> USE DEF caller
<1>1. TracesAreWhole'
  <2> SUFFICES ASSUME NEW f \in Executions
               PROVE  (/\ WholeSoFar(f) /\ WholeResult(queue[f], length[f])
                       /\ WholeResult(results[f], length[f]))'
    BY DEF TracesAreWhole
  <2>1. CASE f = e
    BY <2>1 DEF Inv, TracesAreWhole, Alone
  <2>2. CASE f # e
    BY <2>2 DEF Inv, TracesAreWhole, Alone, WholeSoFar
  <2> QED
    BY <2>1, <2>2
<1>2. FlagsAreRight' /\ ObserversTraceNoLines'
  BY DEF Inv, FlagsAreRight, ObserversTraceNoLines, Alone
<1>3. Unbegun'
  BY DEF Inv, Unbegun, Alone
<1>4. CurrentIsNamed'
  <2> SUFFICES ASSUME late = {} PROVE CurrentIsNamed'
    BY DEF CurrentIsNamed, Alone
  <2>1. main # "failed" /\ \A f \in Executions : pc'[f] = "start" => f = count /\ main = "joining"
    BY DEF Inv, CurrentIsNamed, Alone
  <2>2. ASSUME main = "joining"
        PROVE  /\ pc'[count] \notin {"none"}
               /\ pc'[count] # "start" => current' = count
               /\ pc'[count] = "ended" => queue'[count] # NoResult
    <3>1. CASE e = count
      BY <2>2, <3>1 DEF Inv, CurrentIsNamed, Alone
    <3>2. CASE e # count
      <4>1. count \in Executions
        BY <2>2 DEF Inv, Unbegun
      <4>2. current' = current
        BY <3>2 DEF Inv, CurrentIsNamed, Alone
      <4> QED
        BY <2>2, <3>2, <4>1, <4>2 DEF Inv, CurrentIsNamed, Alone
    <3> QED
      BY <3>1, <3>2
  <2> QED
    BY <2>1, <2>2 DEF CurrentIsNamed, Alone
<1>5. TimedOutIsNotNamed'
  BY DEF Inv, TimedOutIsNotNamed, Alone
<1> QED
  BY <1>1, <1>2, <1>3, <1>4, <1>5 DEF Inv
--------------------------------------------------------------------------------
(* A thread that is not the current one dies, before or after a statement or in it. *)
Dies(e) == pc[e] \in {"next", "after", "observe"} /\ ~IsCurrent(e) /\ Die(e)

(* Each step of a thread keeps the invariant.                                      *)
LEMMA ThreadInv == ASSUME NEW e \in Executions, Inv, Thread(e) PROVE Inv'
<1> USE BoundsType DEF caller
<1>0. /\ TypeOK /\ WholeSoFar(e) /\ WholeResult(queue[e], length[e])
      /\ enabled[e] <=> pc[e] # "observe"
      /\ \A x \in trace[e] : x.by = "observer" => x.what = "code"
      /\ stmt[e] \in Nat /\ length[e] \in 0 .. MaxLength
  BY DEF Inv, TracesAreWhole, FlagsAreRight, ObserversTraceNoLines, TypeOK
<1>1. CASE NameItself(e)
  <2>1. TypeOK' /\ Alone(e)
    BY <1>0, <1>1 DEF TypeOK, NameItself, Alone, Traces
  <2>2. WholeSoFar(e)'
    <3>1. trace'[e] = {} /\ stmt'[e] = 1 /\ pc'[e] = "next" /\ length' = length
      BY <1>0, <1>1 DEF TypeOK, NameItself
    <3>2. Whole(trace'[e], stmt'[e] - 1)
      BY <3>1, NoLines DEF Whole
    <3> QED
      BY <1>0, <1>1, <3>1, <3>2 DEF WholeSoFar, NameItself
  <2> QED
    BY <1>0, <1>1, <2>1, <2>2, AloneInv DEF TypeOK, NameItself
<1>2. CASE Dies(e)
  <2>1. TypeOK' /\ Alone(e)
    BY <1>0, <1>2 DEF TypeOK, Dies, Die, IsCurrent, Alone
  <2>2. pc'[e] = "ended" /\ enabled'[e]
    BY <1>0, <1>2 DEF TypeOK, Dies, Die
  <2> QED
    BY <1>0, <1>2, <2>1, <2>2, AloneInv DEF WholeSoFar, Dies, Die
<1>3. CASE Before(e) /\ IsCurrent(e)
  <2>1. TypeOK' /\ Alone(e)
    BY <1>0, <1>3 DEF TypeOK, Before, Alone
  <2>2. pc'[e] = "run" /\ WholeSoFar(e)'
    BY <1>0, <1>3 DEF TypeOK, Before, WholeSoFar
  <2> QED
    BY <1>0, <1>3, <2>1, <2>2, AloneInv DEF Before
<1>4. CASE Run(e)
  <2>0. stmt[e] \in 1 .. MaxLength /\ enabled[e] /\ Whole(trace[e], stmt[e] - 1)
    BY <1>0, <1>4 DEF Run, WholeSoFar
  <2>1. trace'[e] = IF IsCurrent(e) THEN trace[e] \cup Called(e, "test") ELSE trace[e]
    BY <1>0, <1>4 DEF TypeOK, Run, Record
  <2>2. trace' \in [Executions -> Traces] /\ \A f \in Executions \ {e} : trace'[f] = trace[f]
    <3>1. Called(e, "test") \in Traces
      BY <2>0, CalledType
    <3> QED
      BY <1>0, <1>4, <3>1 DEF TypeOK, Run, Record, Traces
  <2>3. TypeOK' /\ Alone(e)
    BY <1>0, <1>4, <2>2 DEF TypeOK, Run, Alone
  <2>4. pc'[e] = "after" /\ WholeSoFar(e)'
    <3>1. IsCurrent(e) => Whole(trace'[e], stmt[e])
      <4>1. Whole(trace[e] \cup Called(e, "test"), stmt[e])
        BY <1>0, <2>0, CalledByTest
      <4> QED
        BY <2>1, <4>1
    <3> QED
      BY <1>0, <1>4, <3>1 DEF TypeOK, Run, WholeSoFar, IsCurrent
  <2>5. \A x \in trace'[e] : x.by = "observer" => x.what = "code"
    BY <1>0, <2>1 DEF Called
  <2> QED
    BY <1>0, <1>4, <2>3, <2>4, <2>5, AloneInv DEF Run
<1>5. CASE After(e) /\ IsCurrent(e)
  <2>1. TypeOK' /\ Alone(e)
    BY <1>0, <1>5 DEF TypeOK, After, Alone
  <2>2. pc'[e] = "observe" /\ ~enabled'[e] /\ WholeSoFar(e)'
    BY <1>0, <1>5 DEF TypeOK, After, WholeSoFar, IsCurrent
  <2> QED
    BY <1>0, <1>5, <2>1, <2>2, AloneInv DEF After
<1>6. CASE Observe(e)
  <2>0. /\ stmt[e] \in 1 .. MaxLength /\ stmt[e] <= length[e]
        /\ ~enabled[e] /\ Whole(trace[e], stmt[e])
    BY <1>0, <1>6 DEF Observe, WholeSoFar
  <2>1. trace'[e] \in {trace[e], trace[e] \cup Called(e, "observer")}
    BY <1>0, <1>6 DEF TypeOK, Observe, Record
  <2>2. trace' \in [Executions -> Traces] /\ \A f \in Executions \ {e} : trace'[f] = trace[f]
    <3>1. Called(e, "observer") \in Traces
      BY <2>0, CalledType
    <3> QED
      BY <1>0, <1>6, <3>1 DEF TypeOK, Observe, Record, Traces
  <2>3. TypeOK' /\ Alone(e)
    <3>1. stmt[e] + 1 \in 0 .. MaxLength + 1
      BY <2>0
    <3>2. stmt' \in [Executions -> 0 .. MaxLength + 1]
      BY <1>0, <1>6, <3>1 DEF TypeOK, Observe
    <3>3. /\ pc' \in [Executions -> {"none", "start", "next", "run", "after", "observe",
                                     "collect", "ended"}]
          /\ pc'[e] \in {"next", "collect"}
      BY <1>0, <1>6 DEF TypeOK, Observe
    <3>4. TypeOK'
      BY <1>0, <1>6, <2>2, <3>2, <3>3 DEF TypeOK, Observe
    <3>5. Alone(e)
      BY <1>0, <1>6, <2>2, <3>3 DEF TypeOK, Observe, Alone
    <3> QED
      BY <3>4, <3>5
  <2>4. WholeSoFar(e)' /\ pc'[e] # "observe" /\ pc'[e] # "ended" /\ enabled'[e]
    <3>1. Whole(trace'[e], stmt[e])
      BY <2>0, <2>1, CalledByObserver DEF Whole
    <3>2. CASE raised[e]
      BY <1>0, <1>6, <2>0, <3>1, <3>2 DEF TypeOK, Observe, WholeSoFar
    <3>3. CASE ~raised[e]
      <4>1. stmt'[e] = stmt[e] + 1 /\ pc'[e] = "next" /\ ~raised'[e] /\ length' = length
            /\ enabled'[e]
        BY <1>0, <1>6, <3>3 DEF TypeOK, Observe
      <4>2. stmt'[e] - 1 = stmt[e] /\ stmt'[e] >= 1 /\ stmt'[e] <= length'[e] + 1
        BY <1>0, <2>0, <4>1
      <4> QED
        BY <3>1, <4>1, <4>2 DEF WholeSoFar
    <3> QED
      BY <3>2, <3>3
  <2>5. \A x \in trace'[e] : x.by = "observer" => x.what = "code"
    BY <1>0, <2>0, <2>1 DEF Called
  <2> QED
    BY <1>0, <1>6, <2>3, <2>4, <2>5, AloneInv DEF Observe
<1>7. CASE Collect(e)
  <2>1. Ran(e) \in Results
    BY <1>0 DEF TypeOK, Ran, Results
  <2>2. TypeOK'
    BY <1>0, <1>7, <2>1 DEF TypeOK, Collect
  <2>3. pc'[e] = "ended" /\ queue'[e] = Ran(e) /\ enabled'[e]
    BY <1>0, <1>7 DEF TypeOK, Collect
  <2>4. Alone(e)
    BY <1>0, <1>7, <2>3 DEF TypeOK, Collect, Alone, Ran, NoResult
  <2>5. WholeSoFar(e)'
    BY <1>0, <1>7, <2>3 DEF WholeSoFar, Collect
  <2>6. WholeResult(queue'[e], length'[e])
    <3>1. CASE pc[e] = "collect"
      BY <1>0, <1>7, <2>3, <3>1 DEF WholeSoFar, WholeResult, Collect, Ran
    <3>2. CASE pc[e] = "next" /\ stmt[e] > length[e]
      <4>1. stmt[e] - 1 = length[e] /\ ~raised[e] /\ Whole(trace[e], length[e])
        BY <1>0, <3>2 DEF WholeSoFar
      <4> QED
        BY <1>7, <2>3, <4>1 DEF WholeResult, Collect, Ran
    <3> QED
      BY <1>7, <3>1, <3>2 DEF Collect
  <2> QED
    BY <1>0, <1>7, <2>2, <2>3, <2>4, <2>5, <2>6, AloneInv DEF Collect
<1> QED
  BY <1>1, <1>2, <1>3, <1>4, <1>5, <1>6, <1>7
     DEF Thread, Before, After, ObserverIsKilled, Dies, IsCurrent

(* Every step keeps the invariant, which therefore holds in every reachable state.  *)
LEMMA NextInv == Inv /\ [Next]_vars => Inv'
BY ExecuteInv, EndInv, ThreadInv DEF Next, Caller, Stopped

(* The invariant holds in every reachable state.                                    *)
THEOREM InvAlways == Spec => []Inv
BY InitInv, NextInv, PTL DEF Spec
--------------------------------------------------------------------------------
(* Results are made from whole traces, only a thread that named itself too late      *)
(* makes another test's thread die, and no line that an observer executes is traced.  *)
THEOREM ThreadsAreAlwaysApart == Spec => []ThreadsAreApart
<1>1. Inv => ThreadsAreApart
  <2> SUFFICES ASSUME Inv PROVE ThreadsAreApart
    OBVIOUS
  <2>1. ResultIsWhole
    BY DEF Inv, TracesAreWhole, WholeResult, Whole, ResultIsWhole
  <2>2. OnlyLateThreadsKill
    BY DEF Inv, CurrentIsNamed, OnlyLateThreadsKill
  <2> QED
    BY <2>1, <2>2 DEF Inv, ThreadsAreApart
<1> QED
  BY <1>1, InvAlways, PTL

(* A thread whose test timed out begins no statement after that, if it had named     *)
(* itself before (TestCaseExecutor.execute, ExecutionTracer.current_thread_identifier). *)
THEOREM TimedOutThreadsStop == Spec => TimedOutThreadStops
<1> DEFINE Stops ==
      \A e \in Executions :
        results[e] = Timeout /\ e \notin late => ~(pc[e] = "next" /\ pc'[e] = "run")
<1>1. Inv /\ [Next]_vars => [Stops]_vars
  <2> SUFFICES ASSUME Inv, Next, NEW e \in Executions, results[e] = Timeout, e \notin late,
                      pc[e] = "next", pc'[e] = "run"
               PROVE  FALSE
    BY DEF vars, threads
  <2>1. current # e
    BY DEF Inv, TimedOutIsNotNamed
  <2>2. CASE Caller \/ Stopped
    BY <2>2 DEF Inv, TypeOK, Caller, Execute, TimesOut, Returns, Fails, Stopped, vars, threads,
                caller
  <2>3. CASE \E f \in Executions : Thread(f)
    <3>1. PICK f \in Executions : Thread(f)
      BY <2>3
    <3>2. CASE f = e
      BY <2>1, <3>1, <3>2
         DEF Inv, TypeOK, Thread, NameItself, Before, Run, After, Observe, ObserverIsKilled,
             Collect, Die, IsCurrent
    <3>3. CASE f # e
      BY <3>1, <3>3
         DEF Inv, TypeOK, Thread, NameItself, Before, Run, After, Observe, ObserverIsKilled,
             Collect, Die, IsCurrent
    <3> QED
      BY <3>2, <3>3
  <2> QED
    BY <2>2, <2>3 DEF Next
<1> QED
  BY <1>1, InvAlways, PTL DEF Spec, TimedOutThreadStops
================================================================================
