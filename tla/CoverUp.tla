-------------------------------- MODULE CoverUp --------------------------------
(* CoverUp's main program (coverup.py): one coroutine per code segment prompts    *)
(* for tests, a semaphore limits how many run, tests and a checkpoint are written *)
(* to disk as segments finish, and a later run continues from the checkpoint.     *)
(* Coroutines interleave where the code awaits: for the chat and for the          *)
(* measurement.  Between two awaits a coroutine holds the event loop, and every   *)
(* write to disk is a step of its own, so that the process can die in between.    *)
(* The counters F, U and R and the cost are only displayed; they are left out.    *)
EXTENDS Naturals, FiniteSets

CONSTANTS Segments,       \* code segments with missing coverage before the first run
          MaxConcurrency, \* --max-concurrency, 0 means unlimited
          MaxAttempts,    \* --max-attempts
          FollowUps,      \* outcomes for which the prompter has another prompt
          DisableFailing, \* --disable-failing
          UseCheckpoint,  \* whether --checkpoint is given
          MaxRuns,        \* bound: how often the program is started
          None            \* no segment holds the event loop

ASSUME SegmentsFinite == IsFiniteSet(Segments)
ASSUME NumbersType ==
  MaxConcurrency \in Nat /\ MaxAttempts \in Nat /\ MaxRuns \in Nat \ {0}
ASSUME FollowUpsType == FollowUps \subseteq {"failed", "useless"}
ASSUME OptionsType == DisableFailing \in BOOLEAN /\ UseCheckpoint \in BOOLEAN
ASSUME NoneIsNoSegment == None \notin Segments

VARIABLES
  ckpt,      \* the checkpoint file
  tests,     \* files test_coverup_<n>.py: number, segment, whether fully written
  disabled,  \* files disabled_test_coverup_<n>.py
  phase,     \* where main is; "down" when no process runs
  todo,      \* segments that lack coverage according to state._coverage
  done,      \* state._done
  good,      \* state._counters['G']
  missing,   \* whether module_available records a missing module
  pc,        \* where the coroutine of each segment is
  attempts,  \* improve_coverage's local counter
  holder,    \* the segment that holds the event loop between two awaits
  runs,      \* how often the program was started
  gained,    \* history: segments whose test was measured to help
  recorded   \* history: the segments that the last complete checkpoint calls done

disk == <<ckpt, tests, disabled>>
memory == <<todo, done, good, missing>>
coroutines == <<pc, attempts, holder>>
history == <<runs, gained, recorded>>
vars == <<disk, phase, memory, coroutines, history>>

(* The checkpoint file: absent, cut short by an interrupted write, or a State.     *)
Absent == [kind |-> "absent"]
Torn == [kind |-> "torn"]
Saved(t, d, g) == [kind |-> "saved", todo |-> t, done |-> d, good |-> g]

Idle == {"none", "queued", "over"}
Ended == {"down", "success", "failed"}

Init ==
  /\ ckpt = Absent
  /\ tests = {} /\ disabled = {}
  /\ phase = "down"
  /\ todo = {} /\ done = {} /\ good = 0 /\ missing = FALSE
  /\ pc = [s \in Segments |-> "none"]
  /\ attempts = [s \in Segments |-> 0]
  /\ holder = None
  /\ runs = 0 /\ gained = {} /\ recorded = {}
--------------------------------------------------------------------------------
(* (1) Load or measure the initial coverage.                                      *)

(* State.load_checkpoint at the start of a process: no file means starting afresh, *)
(* a readable one gives the old state, and json.load raises on one cut short.      *)
Start ==
  /\ phase \in Ended
  /\ runs < MaxRuns
  /\ runs' = runs + 1
  /\ missing' = FALSE
  /\ pc' = [s \in Segments |-> "none"]
  /\ attempts' = [s \in Segments |-> 0]
  /\ holder' = None
  /\ UNCHANGED <<disk, recorded>>

(* A slip: the finished segments are not restored from the checkpoint.             *)
ResumeForgetting ==
  /\ ckpt.kind = "saved"
  /\ Start
  /\ todo' = ckpt.todo
  /\ done' = {}
  /\ good' = ckpt.good
  /\ gained' = {}
  /\ phase' = "save"

Resume ==
  /\ ckpt.kind = "saved"
  /\ Start
  /\ todo' = ckpt.todo
  /\ done' = ckpt.done
  /\ good' = ckpt.good
  /\ gained' = gained \cap ckpt.done
  /\ phase' = "save"

StartAfresh ==
  /\ ckpt.kind = "absent"
  /\ Start
  /\ phase' = IF DisableFailing THEN "check" ELSE "measure"
  /\ UNCHANGED <<todo, done, good, gained>>

CannotResume ==
  /\ ckpt.kind = "torn"
  /\ Start
  /\ phase' = "failed"
  /\ UNCHANGED <<todo, done, good, gained>>

(* check_whole_suite renames the modules of failing tests until the suite passes;  *)
(* it runs before the initial measurement and after prompting.  Path.rename        *)
(* replaces a file that already has the new name.                                  *)
DisableTests ==
  /\ phase \in {"check", "recheck"}
  /\ \E failed \in (SUBSET tests) \ {{}} :
       /\ tests' = tests \ failed
       /\ disabled' = {f \in disabled : \A g \in failed : g.n # f.n} \cup failed
  /\ UNCHANGED <<ckpt, phase, memory, coroutines, history>>

SuitePasses ==
  /\ phase \in {"check", "recheck"}
  /\ phase' = IF phase = "check" THEN "measure" ELSE "remeasure"
  /\ UNCHANGED <<disk, memory, coroutines, history>>

(* sys.exit(1) when pytest itself fails.                                           *)
CheckFails ==
  /\ phase \in {"check", "recheck"}
  /\ phase' = "failed"
  /\ UNCHANGED <<disk, memory, coroutines, history>>

(* Measuring the suite gives a new State: a segment lacks coverage unless a test   *)
(* of the suite covers it, and may even then.                                      *)
Tested(s) == \E f \in tests : f.whole /\ f.seg = s

Measure ==
  /\ phase = "measure"
  /\ todo' \in {t \in SUBSET Segments : \A s \in Segments \ t : Tested(s)}
  /\ done' = {}
  /\ good' = 0
  /\ gained' = {}
  /\ phase' = IF UseCheckpoint THEN "save" ELSE "prepare"
  /\ UNCHANGED <<disk, missing, coroutines, runs, recorded>>

(* Either measurement fails when a test of the suite does.                         *)
MeasureFails ==
  /\ phase \in {"measure", "remeasure"}
  /\ phase' = "failed"
  /\ UNCHANGED <<disk, memory, coroutines, history>>
--------------------------------------------------------------------------------
(* save_checkpoint opens the file, which empties it, and then dumps the state.     *)
OpenCheckpoint ==
  /\ ckpt' = Torn
  /\ UNCHANGED <<tests, disabled, recorded>>

DumpCheckpoint ==
  /\ ckpt' = Saved(todo, done, good)
  /\ recorded' = done
  /\ UNCHANGED <<tests, disabled>>

(* main saves before prompting, when it was interrupted, and at the end.           *)
MainOpens ==
  /\ phase \in {"save", "interrupted", "finish"}
  /\ OpenCheckpoint
  /\ phase' = CASE phase = "save" -> "saving"
                [] phase = "interrupted" -> "savingInterrupted"
                [] phase = "finish" -> "savingFinal"
  /\ UNCHANGED <<memory, coroutines, runs, gained>>

MainDumps ==
  /\ phase \in {"saving", "savingInterrupted", "savingFinal"}
  /\ DumpCheckpoint
  /\ phase' = CASE phase = "saving" -> "prepare"
                [] phase = "savingInterrupted" -> "failed"
                [] phase = "savingFinal" -> "success"
  /\ UNCHANGED <<memory, coroutines, runs, gained>>

(* (2) Prompt for tests: a coroutine for every segment that is not done.           *)
Prepare ==
  /\ phase = "prepare"
  /\ pc' = [s \in Segments |-> IF s \in todo \ done THEN "queued" ELSE "none"]
  /\ phase' = "prompt"
  /\ UNCHANGED <<disk, memory, attempts, holder, history>>

(* A slip: the semaphore is not released.                                          *)
SemaphoreHeld ==
  MaxConcurrency = 0 \/
  Cardinality({s \in Segments : pc[s] \notin {"none", "queued"}}) < MaxConcurrency

(* sem_coro: a coroutine starts when the semaphore lets it.                        *)
SemaphoreFree ==
  MaxConcurrency = 0 \/ Cardinality({s \in Segments : pc[s] \notin Idle}) < MaxConcurrency

Acquire(s) ==
  /\ phase = "prompt" /\ holder = None
  /\ pc[s] = "queued"
  /\ SemaphoreFree
  /\ pc' = [pc EXCEPT ![s] = "chat"]
  /\ attempts' = [attempts EXCEPT ![s] = 1]
  /\ UNCHANGED <<disk, phase, memory, holder, history>>

(* improve_coverage returns True: the segment will be marked done.                 *)
Complete(s) ==
  /\ pc' = [pc EXCEPT ![s] = "mark"]
  /\ holder' = s
  /\ UNCHANGED attempts

(* Another round of the loop, unless there were too many.                          *)
TooMany(n) == n > MaxAttempts + 1

TryAgain(s) ==
  IF TooMany(attempts[s] + 1)
  THEN Complete(s)
  ELSE /\ pc' = [pc EXCEPT ![s] = "chat"]
       /\ attempts' = [attempts EXCEPT ![s] = @ + 1]
       /\ UNCHANGED holder

(* The chat gave no response, or one without Python code: give up on the segment.  *)
NoTest(s) ==
  /\ phase = "prompt" /\ holder = None
  /\ pc[s] = "chat"
  /\ Complete(s)
  /\ UNCHANGED <<disk, phase, memory, history>>

(* The test needs modules that are missing and not installed: return False, so     *)
(* that the segment is not marked done.                                            *)
NeedsModule(s) ==
  /\ phase = "prompt" /\ holder = None
  /\ pc[s] = "chat"
  /\ missing' = TRUE
  /\ pc' = [pc EXCEPT ![s] = "finish"]
  /\ holder' = s
  /\ UNCHANGED <<disk, phase, todo, done, good, attempts, history>>

(* A slip: the segment is marked done before the measurement is awaited.           *)
GotTestAndMark(s) ==
  /\ phase = "prompt" /\ holder = None
  /\ pc[s] = "chat"
  /\ pc' = [pc EXCEPT ![s] = "run"]
  /\ done' = done \cup {s}
  /\ UNCHANGED <<disk, phase, todo, good, missing, attempts, holder, history>>

(* A test that can be run: measure_test_coverage is awaited.                       *)
GotTest(s) ==
  /\ phase = "prompt" /\ holder = None
  /\ pc[s] = "chat"
  /\ pc' = [pc EXCEPT ![s] = "run"]
  /\ UNCHANGED <<disk, phase, memory, attempts, holder, history>>

(* The measurement timed out, or the test failed, or it gained nothing.            *)
TestTimesOut(s) ==
  /\ phase = "prompt" /\ holder = None
  /\ pc[s] = "run"
  /\ Complete(s)
  /\ UNCHANGED <<disk, phase, memory, history>>

TestDoesNotHelp(s) ==
  /\ phase = "prompt" /\ holder = None
  /\ pc[s] = "run"
  /\ \E outcome \in {"failed", "useless"} :
       IF outcome \in FollowUps THEN TryAgain(s) ELSE Complete(s)
  /\ UNCHANGED <<disk, phase, memory, history>>

TestHelps(s) ==
  /\ phase = "prompt" /\ holder = None
  /\ pc[s] = "run"
  /\ gained' = gained \cup {s}
  /\ pc' = [pc EXCEPT ![s] = "touch"]
  /\ holder' = s
  /\ UNCHANGED <<disk, phase, memory, attempts, runs, recorded>>

(* new_test_file: the first number for which neither a test nor a disabled one     *)
(* exists.                                                                         *)
Taken == {f.n : f \in tests \cup disabled}

FreeNumber(n) == n \notin Taken /\ 1 .. n - 1 \subseteq Taken

Touch(s) ==
  /\ holder = s /\ pc[s] = "touch"
  /\ \E n \in 1 .. Cardinality(Taken) + 1 :
       /\ FreeNumber(n)
       /\ tests' = tests \cup {[n |-> n, seg |-> s, whole |-> FALSE]}
  /\ pc' = [pc EXCEPT ![s] = "write"]
  /\ UNCHANGED <<ckpt, disabled, phase, memory, attempts, holder, history>>

Write(s) ==
  /\ holder = s /\ pc[s] = "write"
  /\ \E f \in tests :
       /\ f.seg = s /\ ~f.whole
       /\ \A g \in tests : g.seg = s /\ ~g.whole => g.n <= f.n
       /\ tests' = (tests \ {f}) \cup {[f EXCEPT !.whole = TRUE]}
  /\ good' = good + 1
  /\ pc' = [pc EXCEPT ![s] = "mark"]
  /\ UNCHANGED <<ckpt, disabled, phase, todo, done, missing, attempts, holder, history>>

(* work_segment: mark done, save the checkpoint, leave the semaphore.              *)
Mark(s) ==
  /\ holder = s /\ pc[s] = "mark"
  /\ done' = done \cup {s}
  /\ pc' = [pc EXCEPT ![s] = "finish"]
  /\ UNCHANGED <<disk, phase, todo, good, missing, attempts, holder, history>>

Finish(s) ==
  /\ holder = s /\ pc[s] = "finish"
  /\ IF UseCheckpoint
     THEN /\ OpenCheckpoint
          /\ pc' = [pc EXCEPT ![s] = "dump"]
          /\ UNCHANGED holder
     ELSE /\ pc' = [pc EXCEPT ![s] = "over"]
          /\ holder' = None
          /\ UNCHANGED <<disk, recorded>>
  /\ UNCHANGED <<phase, memory, attempts, runs, gained>>

Dump(s) ==
  /\ holder = s /\ pc[s] = "dump"
  /\ DumpCheckpoint
  /\ pc' = [pc EXCEPT ![s] = "over"]
  /\ holder' = None
  /\ UNCHANGED <<phase, memory, attempts, runs, gained>>

(* asyncio.gather returns when all coroutines have.                                *)
AllOver ==
  /\ phase = "prompt" /\ holder = None
  /\ \A s \in Segments : pc[s] \in {"none", "over"}
  /\ phase' = IF DisableFailing THEN "recheck" ELSE "remeasure"
  /\ UNCHANGED <<disk, memory, coroutines, history>>

(* (4), (5) The final coverage, and the final checkpoint.                          *)
Remeasure ==
  /\ phase = "remeasure"
  /\ phase' = IF UseCheckpoint THEN "finish" ELSE "success"
  /\ UNCHANGED <<disk, memory, coroutines, history>>
--------------------------------------------------------------------------------
(* An exception that no handler catches (authentication, quota, a code block the   *)
(* pattern does not match, an unknown tool) ends gather, and asyncio.run cancels   *)
(* the other coroutines where they await.                                          *)
Raise(s) ==
  /\ phase = "prompt" /\ holder = None
  /\ pc[s] = "chat"
  /\ phase' = "failed"
  /\ UNCHANGED <<disk, memory, coroutines, history>>

(* KeyboardInterrupt, in the middle of anything that happens while prompting.      *)
Interrupt ==
  /\ phase = "prompt"
  /\ phase' = IF UseCheckpoint THEN "interrupted" ELSE "failed"
  /\ holder' = None
  /\ UNCHANGED <<disk, memory, pc, attempts, history>>

(* The process is killed: what was in memory is gone.                              *)
Kill ==
  /\ phase \notin Ended
  /\ phase' = "down"
  /\ holder' = None
  /\ UNCHANGED <<disk, memory, pc, attempts, history>>

(* No further run: the bound on runs is reached.                                   *)
NoMoreRuns ==
  /\ phase \in Ended
  /\ runs = MaxRuns
  /\ UNCHANGED vars

Main ==
  \/ Resume \/ StartAfresh \/ CannotResume
  \/ DisableTests \/ SuitePasses \/ CheckFails \/ Measure \/ MeasureFails
  \/ MainOpens \/ MainDumps \/ Prepare \/ AllOver \/ Remeasure

Coroutine(s) ==
  \/ Acquire(s)
  \/ NoTest(s) \/ NeedsModule(s) \/ GotTest(s) \/ Raise(s)
  \/ TestTimesOut(s) \/ TestDoesNotHelp(s) \/ TestHelps(s)
  \/ Touch(s) \/ Write(s) \/ Mark(s) \/ Finish(s) \/ Dump(s)

Next ==
  \/ Main
  \/ \E s \in Segments : Coroutine(s)
  \/ Interrupt \/ Kill
  \/ NoMoreRuns

(* The event loop runs every coroutine that is ready, chats and measurements end   *)
(* (the latter after a timeout), and main goes on; kills and interrupts need not   *)
(* happen.                                                                         *)
Fairness ==
  /\ WF_vars(Main)
  /\ \A s \in Segments : WF_vars(Coroutine(s))

Spec == Init /\ [][Next]_vars /\ Fairness
--------------------------------------------------------------------------------
TypeOK ==
  /\ \/ ckpt \in {Absent, Torn}
     \/ ckpt \in [kind : {"saved"}, todo : SUBSET Segments, done : SUBSET Segments, good : Nat]
  /\ tests \cup disabled \subseteq [n : Nat \ {0}, seg : Segments, whole : BOOLEAN]
  /\ phase \in Ended \cup {"check", "measure", "save", "saving", "prepare", "prompt", "recheck",
                  "remeasure", "finish", "savingFinal", "interrupted", "savingInterrupted"}
  /\ todo \subseteq Segments /\ done \subseteq todo /\ good \in Nat /\ missing \in BOOLEAN
  /\ pc \in [Segments -> Idle \cup {"chat", "run", "touch", "write", "mark", "finish", "dump"}]
  /\ attempts \in [Segments -> 0 .. MaxAttempts + 1]
  /\ holder \in Segments \cup {None}
  /\ runs \in 0 .. MaxRuns
  /\ gained \subseteq Segments /\ recorded \subseteq Segments

(* A checkpoint never promises a test that is not on disk: when it calls a segment *)
(* done whose test was measured to help, that test has been written in full, and   *)
(* it is still there whatever was disabled or killed since.                        *)
CheckpointIsSound ==
  ckpt.kind = "saved" =>
    \A s \in ckpt.done \cap gained : \E f \in tests \cup disabled : f.whole /\ f.seg = s

(* Nothing is lost: a checkpoint written after a kill or an interrupt still calls   *)
(* every segment done that an earlier complete one did; disabling a test by          *)
(* renaming it never replaces one that was disabled in an earlier run, and a new     *)
(* test never replaces an old one.                                                  *)
ProgressIsKept == ckpt' # ckpt /\ ckpt'.kind = "saved" => recorded \subseteq ckpt'.done
NoTestIsLost == \A f \in tests \cup disabled : f.whole => f \in tests' \cup disabled'
NothingIsLost == [][ProgressIsKept /\ NoTestIsLost]_vars

(* A run that ends well has dealt with every segment: it is done, or the user is   *)
(* told about missing modules and a later run will retry it.                       *)
SuccessMeansHandled ==
  phase = "success" => \A s \in todo : s \in done \/ missing

(* No prompt is paid for twice: a segment that a complete checkpoint called done   *)
(* is not prompted for again, whatever interrupted the runs in between.            *)
PaidOnce ==
  phase = "prompt" =>
    \A s \in recorded : pc[s] \notin {"queued", "chat", "run", "touch", "write"}

(* Segments, checkpoints and test files tell the same story at every step, kills     *)
(* and resumed runs included: the four parts above.                                 *)
SegmentsAreSound == TypeOK /\ CheckpointIsSound /\ SuccessMeansHandled /\ PaidOnce

(* Prompting ends: no segment starves behind the semaphore.                        *)
PromptingEnds == phase = "prompt" ~> phase # "prompt"

(* --checkpoint is documented as the "path to save progress to (and to resume it   *)
(* from)" (coverup.py, parse_args): whenever no process runs, the file that was    *)
(* written can be resumed from.                                                    *)
CheckpointCanBeResumed == phase \in Ended => ckpt.kind # "torn"
================================================================================
