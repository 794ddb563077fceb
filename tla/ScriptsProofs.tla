---------------------------- MODULE ScriptsProofs ----------------------------
(* Proofs about CoverUp for any number of segments and runs, every limit and every *)
(* choice of options, with kills and interrupts between any two steps; and about    *)
(* its conversations, the choice of its segments and the driver, for every value of *)
(* their constants, as parts of MCScripts.                                         *)
EXTENDS MCScripts, FiniteSetTheorems, WellFoundedInduction, TLAPS

--------------------------------------------------------------------------------
(* CoverUp.                                                                        *)

(* A segment's test is on disk, enabled or disabled.                               *)
HasTest(s) == \E f \in tests \cup disabled : f.whole /\ f.seg = s

(* Phases in which the memory holds a state that may be saved.                     *)
Active == phase \notin Ended \cup {"check", "measure"}

FilesAreFinite == IsFiniteSet(tests) /\ IsFiniteSet(disabled)

(* No two files have the same number, so that renaming never replaces one.         *)
NumbersDiffer ==
  /\ \A f, g \in tests \cup disabled : f.n = g.n => f = g
  /\ tests \cap disabled = {}

(* No coroutine has been created before prompting, and nothing is held outside of it. *)
NotYet ==
  /\ phase \in {"check", "measure", "save", "saving", "prepare"} =>
       \A s \in Segments : pc[s] = "none"
  /\ holder # None => phase = "prompt"

(* While prompting, there is a coroutine for what lacks coverage and was not done;  *)
(* one that got past marking is done, or its module is missing.                     *)
Coroutines ==
  phase = "prompt" =>
    \A s \in Segments :
      /\ pc[s] # "none" => s \in todo
      /\ pc[s] = "none" => s \notin todo \ done
      /\ s \in done => pc[s] \in {"none", "finish", "dump", "over"}
      /\ pc[s] \in {"finish", "dump", "over"} => s \in done \/ missing

(* The checkpoint and the memory agree on what is done.                            *)
Recorded ==
  /\ ckpt.kind = "saved" => ckpt.done = recorded /\ ckpt.done \subseteq ckpt.todo
  /\ ckpt.kind = "absent" => recorded = {}
  /\ phase \in {"check", "measure"} => ckpt.kind = "absent"
  /\ Active => recorded \subseteq done

(* What was gained is on disk once it is done, or a coroutine is about to write it.  *)
GainedIsKept ==
  Active =>
    /\ \A s \in gained \cap done : HasTest(s)
    /\ phase \in {"save", "saving", "prepare", "prompt"} =>
         \A s \in gained : HasTest(s) \/ pc[s] \in {"touch", "write"}

(* From the end of prompting on, everything is dealt with.                         *)
Handled ==
  phase \in {"recheck", "remeasure", "finish", "savingFinal", "success"} =>
    \A s \in todo : s \in done \/ missing

Inv ==
  /\ TypeOK /\ FilesAreFinite /\ NumbersDiffer
  /\ NotYet /\ Coroutines /\ Recorded /\ GainedIsKept /\ Handled
  /\ CheckpointIsSound
--------------------------------------------------------------------------------
(* A process starts with no coroutine.                                             *)
LEMMA FreshType ==
  /\ [s \in Segments |-> "none"] \in [Segments -> Idle \cup
        {"chat", "run", "touch", "write", "mark", "finish", "dump"}]
  /\ [s \in Segments |-> 0] \in [Segments -> 0 .. MaxAttempts + 1]
<1>1. 0 \in 0 .. MaxAttempts + 1
  BY NumbersType
<1>2. "none" \in Idle
  BY DEF Idle
<1> QED
  BY <1>1, <1>2

LEMMA InitInv == Init => Inv
<1> SUFFICES ASSUME Init PROVE Inv
  OBVIOUS
<1>1. TypeOK
  <2>1. /\ pc \in [Segments -> Idle \cup
              {"chat", "run", "touch", "write", "mark", "finish", "dump"}]
        /\ attempts \in [Segments -> 0 .. MaxAttempts + 1]
    BY FreshType DEF Init
  <2>2. runs \in 0 .. MaxRuns /\ phase \in Ended
    BY NumbersType DEF Init, Ended
  <2> QED
    BY <2>1, <2>2 DEF Init, TypeOK
<1>2. FilesAreFinite
  BY FS_EmptySet DEF Init, FilesAreFinite
<1> QED
  BY <1>1, <1>2
     DEF Inv, Init, NumbersDiffer, NotYet, Coroutines, Recorded, GainedIsKept, Handled, Active,
         Ended, Absent, CheckpointIsSound

(* What every start of a process does to the types.                                *)
LEMMA StartType ==
  ASSUME TypeOK, Start,
         todo' \subseteq Segments, done' \subseteq todo', good' \in Nat, gained' \subseteq Segments,
         phase' \in {"save", "check", "measure", "failed"}
  PROVE  TypeOK'
<1>1. /\ pc' \in [Segments -> Idle \cup
             {"chat", "run", "touch", "write", "mark", "finish", "dump"}]
      /\ attempts' \in [Segments -> 0 .. MaxAttempts + 1]
  BY FreshType DEF Start
<1>2. runs' \in 0 .. MaxRuns
  BY NumbersType DEF Start, TypeOK
<1> QED
  BY <1>1, <1>2 DEF Start, TypeOK, disk, Ended

(* Starting a process: what it takes over from the checkpoint has its tests.        *)
LEMMA StartInv == Inv /\ (Resume \/ StartAfresh \/ CannotResume) => Inv'
<1> SUFFICES ASSUME Inv, Resume \/ StartAfresh \/ CannotResume PROVE Inv'
  OBVIOUS
<1> USE NoneIsNoSegment
    DEF Start, Inv, FilesAreFinite, NumbersDiffer, NotYet, Coroutines, Recorded, GainedIsKept,
        Handled, CheckpointIsSound, HasTest, Active, Ended, disk
<1>1. CASE Resume
  <2>1. TypeOK'
    <3>1. ckpt \in [kind : {"saved"}, todo : SUBSET Segments, done : SUBSET Segments, good : Nat]
      BY <1>1 DEF Resume, TypeOK, Absent, Torn
    <3> QED
      BY <1>1, <3>1, StartType DEF Resume, TypeOK
  <2> QED
    BY <1>1, <2>1 DEF Resume
<1>2. CASE StartAfresh
  <2>1. TypeOK'
    BY <1>2, StartType DEF StartAfresh, TypeOK
  <2> QED
    BY <1>2, <2>1 DEF StartAfresh
<1>3. CASE CannotResume
  <2>1. TypeOK'
    BY <1>3, StartType DEF CannotResume, TypeOK
  <2> QED
    BY <1>3, <2>1 DEF CannotResume
<1> QED
  BY <1>1, <1>2, <1>3

(* Renaming a failing test neither replaces another file nor loses one.            *)
LEMMA DisableTestsInv == Inv /\ DisableTests => Inv'
<1> SUFFICES ASSUME Inv, DisableTests PROVE Inv'
  OBVIOUS
<1>1. PICK failed \in (SUBSET tests) \ {{}} :
        /\ tests' = tests \ failed
        /\ disabled' = {f \in disabled : \A g \in failed : g.n # f.n} \cup failed
  BY DEF DisableTests
<1>2. tests' \cup disabled' \subseteq tests \cup disabled
  BY <1>1
<1>3. \A f \in tests \cup disabled : f \in tests' \cup disabled'
  BY <1>1 DEF Inv, NumbersDiffer
<1>4. UNCHANGED <<ckpt, phase, memory, coroutines, history>>
  BY DEF DisableTests
<1>5. FilesAreFinite'
  BY <1>1, FS_Subset, FS_Union DEF Inv, FilesAreFinite
<1>6. TypeOK'
  BY <1>2, <1>4 DEF Inv, TypeOK, memory, coroutines, history
<1>7. NumbersDiffer'
  BY <1>1, <1>2 DEF Inv, NumbersDiffer
<1>8. \A s \in Segments : HasTest(s) => HasTest(s)'
  BY <1>3 DEF HasTest
<1>9. GainedIsKept' /\ CheckpointIsSound'
  BY <1>4, <1>8
     DEF Inv, TypeOK, GainedIsKept, CheckpointIsSound, HasTest, Active, memory, coroutines, history
<1> QED
  BY <1>4, <1>5, <1>6, <1>7, <1>9
     DEF Inv, NotYet, Coroutines, Recorded, Handled, Active, memory, coroutines, history

(* The other steps of main.                                                        *)
LEMMA MainInv == Inv /\ Main => Inv'
<1> SUFFICES ASSUME Inv, Main PROVE Inv'
  OBVIOUS
<1> USE NumbersType, NoneIsNoSegment
    DEF Inv, TypeOK, FilesAreFinite, NumbersDiffer, NotYet, Coroutines, Recorded, GainedIsKept,
        Handled, CheckpointIsSound, HasTest, Active, Ended, Idle, Absent, Torn, Saved,
        disk, memory, coroutines, history
<1>1. CASE SuitePasses
  BY <1>1 DEF SuitePasses
<1>2. CASE CheckFails
  BY <1>2 DEF CheckFails
<1>3. CASE Measure
  BY <1>3 DEF Measure
<1>4. CASE MeasureFails
  BY <1>4 DEF MeasureFails
<1>5. CASE MainOpens
  BY <1>5 DEF MainOpens, OpenCheckpoint
<1>6. CASE MainDumps
  BY <1>6 DEF MainDumps, DumpCheckpoint
<1>7. CASE Prepare
  BY <1>7 DEF Prepare
<1>8. CASE AllOver
  BY <1>8 DEF AllOver
<1>9. CASE Remeasure
  BY <1>9 DEF Remeasure
<1> QED
  BY <1>1, <1>2, <1>3, <1>4, <1>5, <1>6, <1>7, <1>8, <1>9, StartInv, DisableTestsInv DEF Main

(* A new test takes a number that neither a test nor a disabled test has.           *)
LEMMA TouchInv == ASSUME NEW s \in Segments, Inv, Touch(s) PROVE Inv'
<1>1. PICK n \in 1 .. Cardinality(Taken) + 1 :
        /\ FreeNumber(n)
        /\ tests' = tests \cup {[n |-> n, seg |-> s, whole |-> FALSE]}
  BY DEF Touch
<1> DEFINE new == [n |-> n, seg |-> s, whole |-> FALSE]
<1>2. new \in [n : Nat \ {0}, seg : Segments, whole : BOOLEAN]
  <2>1. n \in Nat \ {0}
    BY <1>1
  <2> QED
    BY <2>1
<1>3. \A f \in tests \cup disabled : f.n # new.n
  BY <1>1 DEF FreeNumber, Taken
<1>4. disabled' = disabled /\ tests' = tests \cup {new}
  BY <1>1 DEF Touch
<1>5. TypeOK'
  BY <1>2, <1>4, NumbersType DEF Inv, TypeOK, Touch, Idle, memory, history
<1>6. FilesAreFinite'
  BY <1>4, FS_AddElement DEF Inv, FilesAreFinite
<1>7. NumbersDiffer'
  BY <1>3, <1>4 DEF Inv, NumbersDiffer
<1>8. \A t \in Segments : HasTest(t) => HasTest(t)'
  BY <1>4 DEF HasTest
<1> QED
  BY <1>5, <1>6, <1>7, <1>8, NoneIsNoSegment
     DEF Inv, TypeOK, Touch, NotYet, Coroutines, Recorded, GainedIsKept, Handled,
         CheckpointIsSound, HasTest, Active, memory, history

(* Writing the file that was touched completes a test and replaces no other.        *)
LEMMA WriteInv == ASSUME NEW s \in Segments, Inv, Write(s) PROVE Inv'
<1>1. PICK f \in tests :
        /\ f.seg = s /\ ~f.whole
        /\ tests' = (tests \ {f}) \cup {[f EXCEPT !.whole = TRUE]}
  BY DEF Write
<1> DEFINE full == [f EXCEPT !.whole = TRUE]
<1>2. /\ f \in [n : Nat \ {0}, seg : Segments, whole : BOOLEAN]
      /\ full \in [n : Nat \ {0}, seg : Segments, whole : BOOLEAN]
      /\ full.n = f.n /\ full.seg = s /\ full.whole
  BY <1>1 DEF Inv, TypeOK
<1>3. disabled' = disabled /\ tests' = (tests \ {f}) \cup {full}
  BY <1>1 DEF Write
<1> HIDE DEF full
<1>4. TypeOK'
  BY <1>2, <1>3, NumbersType DEF Inv, TypeOK, Write, Idle, memory, history
<1>5. FilesAreFinite'
  <2>1. IsFiniteSet(tests \ {f})
    BY FS_Subset DEF Inv, FilesAreFinite
  <2> QED
    BY <1>3, <2>1, FS_AddElement DEF Inv, FilesAreFinite
<1>6. NumbersDiffer'
  <2>1. \A k \in (tests \ {f}) \cup disabled : k.n # f.n
    BY <1>1 DEF Inv, NumbersDiffer
  <2> QED
    BY <1>2, <1>3, <2>1 DEF Inv, NumbersDiffer
<1>7. \A t \in Segments : HasTest(t) => HasTest(t)'
  BY <1>1, <1>3 DEF HasTest
<1>8. HasTest(s)'
  BY <1>2, <1>3 DEF HasTest
<1> QED
  BY <1>4, <1>5, <1>6, <1>7, <1>8, NoneIsNoSegment
     DEF Inv, TypeOK, Write, NotYet, Coroutines, Recorded, GainedIsKept, Handled,
         CheckpointIsSound, HasTest, Active, memory, history

(* The steps of a coroutine.                                                       *)
LEMMA CoroutineInv == ASSUME NEW s \in Segments, Inv, Coroutine(s) PROVE Inv'
<1> USE NumbersType, NoneIsNoSegment
    DEF Inv, TypeOK, FilesAreFinite, NumbersDiffer, NotYet, Coroutines, Recorded, GainedIsKept,
        Handled, CheckpointIsSound, HasTest, Active, Ended, Idle, Absent, Torn, Saved,
        disk, memory, coroutines, history
<1>1. CASE Acquire(s)
  BY <1>1 DEF Acquire
<1>2. CASE NoTest(s)
  BY <1>2 DEF NoTest, Complete
<1>3. CASE NeedsModule(s)
  BY <1>3 DEF NeedsModule
<1>4. CASE GotTest(s)
  BY <1>4 DEF GotTest
<1>5. CASE Raise(s)
  BY <1>5 DEF Raise
<1>6. CASE TestTimesOut(s)
  BY <1>6 DEF TestTimesOut, Complete
<1>7. CASE TestDoesNotHelp(s)
  BY <1>7 DEF TestDoesNotHelp, TryAgain, TooMany, Complete
<1>8. CASE TestHelps(s)
  BY <1>8 DEF TestHelps
<1>9. CASE Mark(s)
  BY <1>9 DEF Mark
<1>10. CASE Finish(s)
  BY <1>10 DEF Finish, OpenCheckpoint
<1>11. CASE Dump(s)
  BY <1>11 DEF Dump, DumpCheckpoint
<1> QED
  BY <1>1, <1>2, <1>3, <1>4, <1>5, <1>6, <1>7, <1>8, <1>9, <1>10, <1>11, TouchInv, WriteInv
     DEF Coroutine

(* Interrupts and kills leave the disk as it is, cut-short checkpoints included.     *)
LEMMA StopInv == Inv /\ (Interrupt \/ Kill \/ UNCHANGED vars) => Inv'
<1> SUFFICES ASSUME Inv, Interrupt \/ Kill \/ UNCHANGED vars PROVE Inv'
  OBVIOUS
<1> USE NumbersType, NoneIsNoSegment
    DEF Inv, TypeOK, FilesAreFinite, NumbersDiffer, NotYet, Coroutines, Recorded, GainedIsKept,
        Handled, CheckpointIsSound, HasTest, Active, Ended, Idle, Absent, Torn, Saved,
        disk, memory, coroutines, history
<1>1. CASE Interrupt
  BY <1>1 DEF Interrupt
<1>2. CASE Kill
  BY <1>2 DEF Kill
<1>3. CASE UNCHANGED vars
  BY <1>3 DEF vars
<1> QED
  BY <1>1, <1>2, <1>3

LEMMA NextInv == Inv /\ [Next]_vars => Inv'
BY MainInv, CoroutineInv, StopInv DEF Next, NoMoreRuns

(* The invariant holds in every reachable state.                                   *)
THEOREM InvAlways == Spec => []Inv
BY InitInv, NextInv, PTL DEF Spec

(* In every reachable state a checkpoint promises only tests that are on disk, a     *)
(* segment that a complete checkpoint called done is never prompted for again, and   *)
(* a run that ends well has dealt with every segment.                               *)
THEOREM SegmentsAreAlwaysSound == Spec => []SegmentsAreSound
<1>1. Inv => SegmentsAreSound
  <2> SUFFICES ASSUME Inv PROVE SegmentsAreSound
    OBVIOUS
  <2>1. PaidOnce
    BY DEF Inv, TypeOK, Coroutines, Recorded, Active, Ended, PaidOnce
  <2>2. SuccessMeansHandled
    BY DEF Inv, Handled, SuccessMeansHandled
  <2> QED
    BY <2>1, <2>2 DEF Inv, SegmentsAreSound
<1> QED
  BY <1>1, InvAlways, PTL

(* No step loses a whole test or a segment that a complete checkpoint called done.   *)
LEMMA StepLosesNothing == Inv /\ [Next]_vars => [ProgressIsKept /\ NoTestIsLost]_vars
<1> SUFFICES ASSUME Inv, Next PROVE ProgressIsKept /\ NoTestIsLost
  BY DEF vars, disk, ProgressIsKept, NoTestIsLost
<1>1. ProgressIsKept
  <2>1. CASE MainDumps
    BY <2>1 DEF MainDumps, DumpCheckpoint, Saved, ProgressIsKept, Inv, Recorded, Active, Ended
  <2>2. CASE \E s \in Segments : Dump(s)
    BY <2>2, NoneIsNoSegment
       DEF Dump, DumpCheckpoint, Saved, ProgressIsKept, Inv, Recorded, NotYet, Active, Ended
  <2>3. CASE MainOpens \/ \E s \in Segments : Finish(s)
    BY <2>3 DEF MainOpens, Finish, OpenCheckpoint, Torn, ProgressIsKept, disk
  <2>4. CASE ~MainDumps /\ ~MainOpens /\ \A s \in Segments : ~Finish(s) /\ ~Dump(s)
    BY <2>4
       DEF Next, Main, Resume, StartAfresh, CannotResume, Start, DisableTests, SuitePasses,
           CheckFails, Measure, MeasureFails, Prepare, AllOver, Remeasure, Coroutine, Acquire,
           NoTest, NeedsModule, GotTest, Raise, TestTimesOut, TestDoesNotHelp, TestHelps, Touch,
           Write, Mark, Interrupt, Kill, NoMoreRuns, vars, disk, ProgressIsKept
  <2> QED
    BY <2>1, <2>2, <2>3, <2>4
<1>2. NoTestIsLost
  <2>1. CASE DisableTests
    BY <2>1 DEF DisableTests, NoTestIsLost, Inv, NumbersDiffer
  <2>2. CASE \E s \in Segments : Touch(s) \/ Write(s)
    BY <2>2 DEF Touch, Write, NoTestIsLost
  <2>3. CASE ~DisableTests /\ \A s \in Segments : ~Touch(s) /\ ~Write(s)
    <3>1. tests' = tests /\ disabled' = disabled
      BY <2>3
         DEF Next, Main, Resume, StartAfresh, CannotResume, Start, SuitePasses, CheckFails,
             Measure, MeasureFails, MainOpens, MainDumps, OpenCheckpoint, DumpCheckpoint,
             Prepare, AllOver, Remeasure, Coroutine, Acquire, NoTest, NeedsModule, GotTest,
             Raise, TestTimesOut, TestDoesNotHelp, TestHelps, Mark, Finish, Dump, Interrupt,
             Kill, NoMoreRuns, vars, disk
    <3> QED
      BY <3>1 DEF NoTestIsLost
  <2> QED
    BY <2>1, <2>2, <2>3
<1> QED
  BY <1>1, <1>2

(* No step loses a whole test or, when it completes a checkpoint, a segment that an  *)
(* earlier complete checkpoint called done.                                         *)
THEOREM NothingIsEverLost == Spec => NothingIsLost
BY StepLosesNothing, InvAlways, PTL DEF Spec, NothingIsLost

--------------------------------------------------------------------------------
(* Conversations.                                                                  *)

Messages == [role : {"user"}] \cup [role : {"assistant"}, calls : Nat]
              \cup [role : {"tool"}, call : Nat]

(* A chat that has not raised has a whole conversation, and what is sent fits.     *)
ChatInv ==
  /\ C!TypeOK
  /\ messages \in [Chats -> Seq(Messages)]
  /\ \A c \in Chats :
       /\ C!IsWhole(messages[c]) \/ cOutcome[c] = "raised"
       /\ cPc[c] = "over" <=> cOutcome[c] # "none"
       /\ cPc[c] = "sent" /\ Limit # 0 => C!Tokens(c) <= Limit

LEMMA SameCardinality == ASSUME NEW A PROVE C!Cardinality(A) = Cardinality(A)
BY DEF C!Cardinality, Cardinality

LEMMA SameFinite == ASSUME NEW A PROVE C!IsFiniteSet(A) <=> IsFiniteSet(A)
BY DEF C!IsFiniteSet, IsFiniteSet

LEMMA ChatConstants ==
  /\ IsFiniteSet(Chats) /\ Limit \in Nat /\ MaxBackoff \in Nat
  /\ MaxCalls \in Nat /\ MaxRounds \in Nat /\ MaxFailures \in Nat
BY OtherConstants, SameFinite DEF C!ConstantsType

LEMMA TokensType ==
  ASSUME messages \in [Chats -> Seq(Messages)], NEW c \in Chats
  PROVE  C!Tokens(c) \in Nat
<1>1. DOMAIN messages[c] = 1 .. Len(messages[c]) /\ Len(messages[c]) \in Nat
  OBVIOUS
<1>2. IsFiniteSet(DOMAIN messages[c])
  BY <1>1, FS_Interval
<1>3. ASSUME NEW A \in SUBSET DOMAIN messages[c] PROVE C!Cardinality(A) \in Nat
  BY <1>2, FS_Subset, FS_CardinalityType, SameCardinality
<1> QED BY <1>3 DEF C!Tokens

(* A conversation that goes on with k calls and the answers to the first n.         *)
Extended(ms, k, n) == ms \o <<C!Asks(k)>> \o C!Answered(n)

LEMMA ExtendedIs ==
  ASSUME NEW ms \in Seq(Messages), NEW k \in Nat, NEW n \in Nat
  PROVE  /\ Extended(ms, k, n) \in Seq(Messages)
         /\ Len(ms) \in Nat /\ Len(Extended(ms, k, n)) = Len(ms) + 1 + n
         /\ \A i \in 1 .. Len(ms) : Extended(ms, k, n)[i] = ms[i]
         /\ Extended(ms, k, n)[Len(ms) + 1] = C!Asks(k)
         /\ \A i \in 1 .. n : Extended(ms, k, n)[Len(ms) + 1 + i] = C!Answers(i)
<1> DEFINE asked == ms \o <<C!Asks(k)>>
           answers == C!Answered(n)
<1>1. C!Asks(k) \in Messages /\ \A i \in Nat : C!Answers(i) \in Messages
  BY DEF C!Asks, C!Answers, Messages
<1>2. /\ answers \in Seq(Messages) /\ Len(answers) = n
      /\ \A i \in 1 .. n : answers[i] = C!Answers(i)
  BY <1>1 DEF C!Answered
<1>3. /\ asked \in Seq(Messages) /\ Len(asked) = Len(ms) + 1 /\ Len(ms) \in Nat
      /\ \A i \in 1 .. Len(ms) : asked[i] = ms[i]
      /\ asked[Len(ms) + 1] = C!Asks(k)
  BY <1>1
<1>4. Extended(ms, k, n) = asked \o answers
  BY DEF Extended
<1> DEFINE all == asked \o answers
<1> HIDE DEF asked, answers
<1> HIDE DEF Messages
<1>5. asked \in Seq(Messages) /\ answers \in Seq(Messages)
  BY <1>2, <1>3
<1>6. /\ all \in Seq(Messages) /\ Len(all) = Len(asked) + Len(answers)
      /\ \A i \in 1 .. Len(asked) : all[i] = asked[i]
      /\ \A i \in 1 .. Len(answers) : all[Len(asked) + i] = answers[i]
  BY <1>5
<1> HIDE DEF all
<1>7. all = Extended(ms, k, n)
  BY <1>4 DEF all
<1>8. /\ \A i \in 1 .. Len(ms) : all[i] = ms[i]
      /\ all[Len(ms) + 1] = C!Asks(k)
      /\ \A i \in 1 .. n : all[Len(ms) + 1 + i] = C!Answers(i)
  BY <1>2, <1>3, <1>6
<1> QED BY <1>2, <1>3, <1>6, <1>7, <1>8

(* A whole conversation stays whole when all calls are answered.                   *)
LEMMA AnsweredIsWhole ==
  ASSUME NEW ms \in Seq(Messages), C!IsWhole(ms), NEW k \in Nat
  PROVE  C!IsWhole(Extended(ms, k, k))
<1> DEFINE new == Extended(ms, k, k)
<1>1. /\ new \in Seq(Messages) /\ Len(new) = Len(ms) + 1 + k /\ Len(ms) \in Nat
      /\ \A i \in 1 .. Len(ms) : new[i] = ms[i]
      /\ new[Len(ms) + 1] = C!Asks(k)
      /\ \A i \in 1 .. k : new[Len(ms) + 1 + i] = C!Answers(i)
  BY ExtendedIs
<1> HIDE DEF new
<1>2. DOMAIN new = 1 .. Len(ms) + 1 + k /\ DOMAIN ms = 1 .. Len(ms)
  BY <1>1
<1>3. ASSUME NEW i \in DOMAIN new
      PROVE  /\ new[i].role = "assistant" =>
                  \A x \in 1 .. new[i].calls : i + x \in DOMAIN new /\ new[i + x] = C!Answers(x)
             /\ new[i].role = "tool" =>
                  LET j == i - new[i].call
                  IN j \in DOMAIN new /\ new[j].role = "assistant" /\ new[i].call <= new[j].calls
  <2>1. CASE i \in 1 .. Len(ms)
    <3>1. new[i] = ms[i] /\ i \in DOMAIN ms /\ ms[i] \in Messages
      BY <1>1, <1>2, <2>1
    <3>2. ASSUME ms[i].role = "assistant", NEW x \in 1 .. ms[i].calls
          PROVE  i + x \in DOMAIN new /\ new[i + x] = C!Answers(x)
      <4>1. i + x \in DOMAIN ms /\ ms[i + x] = C!Answers(x)
        BY <3>1, <3>2 DEF C!IsWhole
      <4> QED BY <1>1, <1>2, <4>1
    <3>3. ASSUME ms[i].role = "tool"
          PROVE  LET j == i - ms[i].call
                 IN j \in DOMAIN new /\ new[j].role = "assistant" /\ ms[i].call <= new[j].calls
      <4>1. LET j == i - ms[i].call
            IN j \in DOMAIN ms /\ ms[j].role = "assistant" /\ ms[i].call <= ms[j].calls
        BY <3>1, <3>3 DEF C!IsWhole
      <4> QED BY <1>1, <1>2, <4>1
    <3> QED BY <3>1, <3>2, <3>3
  <2>2. CASE i = Len(ms) + 1
    BY <1>1, <1>2, <2>2 DEF C!Asks
  <2>3. CASE i \in Len(ms) + 2 .. Len(ms) + 1 + k
    <3> DEFINE x == i - (Len(ms) + 1)
    <3>1. x \in 1 .. k /\ i = Len(ms) + 1 + x
      BY <1>1, <2>3
    <3>2. new[i] = [role |-> "tool", call |-> x]
      BY <1>1, <3>1 DEF C!Answers
    <3>3. i - x = Len(ms) + 1 /\ Len(ms) + 1 \in DOMAIN new
      BY <1>1, <1>2, <3>1
    <3>4. new[i - x] = [role |-> "assistant", calls |-> k]
      BY <1>1, <3>3 DEF C!Asks
    <3> HIDE DEF x
    <3> QED BY <3>1, <3>2, <3>3, <3>4
  <2> QED BY <1>1, <1>2, <2>1, <2>2, <2>3
<1>4. C!IsWhole(new)
  BY <1>3 DEF C!IsWhole
<1> QED BY <1>4 DEF new

LEMMA ChatInit == C!Init => ChatInv
<1> SUFFICES ASSUME C!Init PROVE ChatInv
  OBVIOUS
<1>1. C!TypeOK
  BY ChatConstants DEF C!Init, C!TypeOK
<1>2. <<C!Prompt>> \in Seq(Messages)
  BY DEF C!Prompt, Messages
<1>3. messages \in [Chats -> Seq(Messages)]
  BY <1>2 DEF C!Init
<1>4. C!IsWhole(<<C!Prompt>>)
  BY DEF C!Prompt, C!IsWhole
<1> QED BY <1>1, <1>3, <1>4 DEF C!Init, ChatInv

(* What a chat does to its messages: nothing, the answers to all calls, or the      *)
(* answers to some of them and an end.                                             *)
LEMMA ChatNext == ChatInv /\ [C!Next]_(C!vars) => ChatInv'
<1> SUFFICES ASSUME ChatInv, [C!Next]_(C!vars) PROVE ChatInv'
  OBVIOUS
<1> USE ChatConstants
<1>0. C!TypeOK /\ messages \in [Chats -> Seq(Messages)]
  BY DEF ChatInv
<1>1. ASSUME NEW c \in Chats, C!Begin(c) PROVE ChatInv'
  BY <1>1 DEF ChatInv, C!Begin, C!TypeOK, C!Tokens
<1>2. ASSUME NEW c \in Chats, C!Acquire(c) PROVE ChatInv'
  <2>1. \A d \in Chats : C!Tokens(d)' = C!Tokens(d) /\ C!Tokens(d) \in Nat
    BY <1>0, <1>2, TokensType DEF C!Acquire, C!Tokens
  <2>2. level' \in 0 .. Limit /\ (Limit # 0 => C!Tokens(c) <= Limit)
    BY <1>0, <1>2, <2>1 DEF C!Acquire, C!Fits, C!TypeOK
  <2>3. C!TypeOK'
    BY <1>2, <2>2 DEF ChatInv, C!Acquire, C!TypeOK
  <2> QED BY <1>2, <2>1, <2>2, <2>3 DEF ChatInv, C!Acquire, C!TypeOK
<1>3. ASSUME NEW c \in Chats, C!GiveUp(c) \/ C!Refused(c) \/ C!Respond(c) PROVE ChatInv'
  <2>1. PICK what \in {"response", "nothing", "raised"} : C!Return(c, what)
    BY <1>3 DEF C!GiveUp, C!Refused, C!Respond
  <2>2. UNCHANGED <<messages, sleep, level, rounds, failures>>
    BY <1>3 DEF C!GiveUp, C!Refused, C!Respond
  <2>3. C!TypeOK'
    BY <1>0, <2>1, <2>2 DEF C!Return, C!TypeOK
  <2>4. \A d \in Chats : C!IsWhole(messages'[d]) \/ cOutcome'[d] = "raised"
    BY <1>0, <1>3, <2>1, <2>2
       DEF ChatInv, C!GiveUp, C!Refused, C!Respond, C!Return, C!TypeOK
  <2> QED BY <2>1, <2>2, <2>3, <2>4 DEF ChatInv, C!Return, C!TypeOK, C!Tokens
<1>4. ASSUME NEW c \in Chats, C!Unavailable(c) PROVE ChatInv'
  <2>1. sleep' \in [Chats -> Nat] /\ failures' \in [Chats -> 0 .. MaxFailures]
    BY <1>4 DEF ChatInv, C!Unavailable, C!TypeOK, C!Smaller
  <2> QED BY <1>4, <2>1 DEF ChatInv, C!Unavailable, C!TypeOK, C!Tokens
<1>5. ASSUME NEW c \in Chats, C!Wake(c) PROVE ChatInv'
  BY <1>5 DEF ChatInv, C!Wake, C!TypeOK, C!Tokens
<1>6. ASSUME NEW c \in Chats, C!ConnectionFails(c) PROVE ChatInv'
  <2>1. failures' \in [Chats -> 0 .. MaxFailures]
    BY <1>6 DEF ChatInv, C!ConnectionFails, C!TypeOK
  <2> QED BY <1>6, <2>1 DEF ChatInv, C!ConnectionFails, C!TypeOK, C!Tokens
<1>7. ASSUME NEW c \in Chats, C!CallFunctions(c) PROVE ChatInv'
  <2>1. PICK k \in 1 .. MaxCalls :
          messages' = [messages EXCEPT ![c] = Extended(messages[c], k, k)]
    BY <1>7 DEF C!CallFunctions, Extended
  <2>2. messages[c] \in Seq(Messages) /\ k \in Nat
    BY <1>0
  <2>3. C!IsWhole(messages[c])
    BY <1>7 DEF ChatInv, C!CallFunctions, C!TypeOK
  <2>4. /\ messages'[c] = Extended(messages[c], k, k)
        /\ \A d \in Chats \ {c} : messages'[d] = messages[d]
        /\ messages' = [messages EXCEPT ![c] = messages'[c]]
    BY <1>0, <2>1
  <2>5. messages'[c] \in Seq(Messages)
    BY <2>2, <2>4, ExtendedIs
  <2>6. C!IsWhole(messages'[c])
    BY <2>2, <2>3, <2>4, AnsweredIsWhole
  <2>7. messages' \in [Chats -> Seq(Messages)]
    BY <1>0, <2>4, <2>5
  <2>8. C!TypeOK'
    BY <1>0, <1>7 DEF C!CallFunctions, C!TypeOK
  <2>9. ASSUME NEW d \in Chats, d # c PROVE C!Tokens(d)' = C!Tokens(d)
    BY <2>4, <2>9 DEF C!Tokens
  <2>10. ASSUME NEW d \in Chats
         PROVE  /\ C!IsWhole(messages'[d]) \/ cOutcome'[d] = "raised"
                /\ cPc'[d] = "over" <=> cOutcome'[d] # "none"
                /\ cPc'[d] = "sent" /\ Limit # 0 => C!Tokens(d)' <= Limit
    BY <1>7, <2>4, <2>6, <2>9 DEF ChatInv, C!CallFunctions, C!TypeOK
  <2> QED BY <2>7, <2>8, <2>10 DEF ChatInv
<1>8. ASSUME NEW c \in Chats, C!CannotCall(c) PROVE ChatInv'
  <2>1. PICK k \in 1 .. MaxCalls : \E n \in 0 .. k - 1 :
          messages' = [messages EXCEPT ![c] = Extended(messages[c], k, n)]
    BY <1>8 DEF C!CannotCall, Extended
  <2>2. PICK n \in 0 .. k - 1 :
          messages' = [messages EXCEPT ![c] = Extended(messages[c], k, n)]
    BY <2>1
  <2>3. messages[c] \in Seq(Messages) /\ k \in Nat /\ n \in Nat
    BY <1>0
  <2>4. /\ messages'[c] = Extended(messages[c], k, n)
        /\ \A d \in Chats \ {c} : messages'[d] = messages[d]
        /\ messages' = [messages EXCEPT ![c] = messages'[c]]
    BY <1>0, <2>2
  <2>5. messages'[c] \in Seq(Messages)
    BY <2>3, <2>4, ExtendedIs
  <2>6. messages' \in [Chats -> Seq(Messages)]
    BY <1>0, <2>4, <2>5
  <2>7. C!TypeOK'
    BY <1>0, <1>8 DEF C!CannotCall, C!Return, C!TypeOK
  <2>8. ASSUME NEW d \in Chats, d # c PROVE C!Tokens(d)' = C!Tokens(d)
    BY <2>4, <2>8 DEF C!Tokens
  <2>9. ASSUME NEW d \in Chats
         PROVE  /\ C!IsWhole(messages'[d]) \/ cOutcome'[d] = "raised"
                /\ cPc'[d] = "over" <=> cOutcome'[d] # "none"
                /\ cPc'[d] = "sent" /\ Limit # 0 => C!Tokens(d)' <= Limit
    BY <1>8, <2>4, <2>8 DEF ChatInv, C!CannotCall, C!Return, C!TypeOK
  <2> QED BY <2>6, <2>7, <2>9 DEF ChatInv
<1>9. CASE C!Leak
  BY <1>9 DEF ChatInv, C!Leak, C!TypeOK, C!Tokens
<1>10. CASE UNCHANGED C!vars
  BY <1>10 DEF ChatInv, C!vars, C!TypeOK, C!Tokens
<1> QED
  BY <1>1, <1>2, <1>3, <1>4, <1>5, <1>7, <1>8, <1>6, <1>9, <1>10
     DEF C!Next, C!Chat, C!AllOver

(* Whatever the service answers, refuses or asks for, and however the chats          *)
(* interleave at the limiter, every request is a whole conversation that fits        *)
(* (llm.py, _send_request and chat).                                                *)
THEOREM ConversationsStayWhole == MCSpec => []ConversationsAreWhole
<1>1. MCInit => ChatInv
  BY ChatInit DEF MCInit
<1>2. ChatInv /\ [CoverUp_(Next) \/ NoPlateauStep \/ Chatter_(C!Next) \/ SegmentsStep]_allVars
        => ChatInv'
  <2>1. [CoverUp_(Next) \/ NoPlateauStep \/ Chatter_(C!Next) \/ SegmentsStep]_allVars
          => [C!Next]_(C!vars)
    BY DEF CoverUp_, NoPlateauStep, Chatter_, SegmentsStep, allVars, cVars, C!vars
  <2> QED BY <2>1, ChatNext
<1>3. ChatInv => ConversationsAreWhole
  BY DEF ChatInv, ConversationsAreWhole, C!ConversationsAreWhole
<1> QED BY <1>1, <1>2, <1>3, PTL DEF MCSpec
--------------------------------------------------------------------------------
(* The driver.                                                                     *)

(* Which type comes next is always one of the enabled types.                       *)
LEMMA ToggleType ==
  ASSUME N!ConstantsType, toggle \in 0 .. Len(EnabledTypes) - 1
  PROVE  (toggle + 1) % Len(EnabledTypes) \in 0 .. Len(EnabledTypes) - 1
<1>1. Len(EnabledTypes) \in Nat /\ Len(EnabledTypes) > 0
  BY DEF N!ConstantsType
<1> QED
  BY <1>1

(* Beginning an iteration keeps the types of what it changes, and so does spending  *)
(* time in one; what is made in it is a file.                                      *)
LEMMA BeginType ==
  ASSUME N!ConstantsType, N!TypeOK,
         NEW type \in {"coverup", "diversity", "pynguin"}, N!Begin(type)
  PROVE  /\ nPc' = "measure"
         /\ toggle' \in 0 .. Len(EnabledTypes) - 1
         /\ iterations' \in 1 .. MaxIterations
         /\ cov' \in Coverages \cup {0} /\ best' \in Coverages \cup {0}
         /\ N!Made(type) \in N!TestFiles
<1>1. toggle' \in 0 .. Len(EnabledTypes) - 1
  BY ToggleType DEF N!Begin, N!TypeOK
<1>2. iterations' \in 1 .. MaxIterations
  BY DEF N!Begin, N!TypeOK, N!ConstantsType
<1> QED
  BY <1>1, <1>2 DEF N!Begin, N!TypeOK, N!Made, N!TestFiles

LEMMA SpendType ==
  ASSUME N!ConstantsType, N!TypeOK, timeUsed < TimeBudget, N!Spend
  PROVE  timeUsed' \in 0 .. TimeBudget + MaxElapsed
BY DEF N!ConstantsType, N!TypeOK, N!Spend

(* A merged file is gone again when an iteration ends, and is no file of a tool.     *)
LEMMA MergedLeaves ==
  ASSUME NEW dir \in SUBSET N!TestFiles
  PROVE  /\ N!Merge(dir) \ {N!Merged} = dir
         /\ N!Merged \notin N!TestFiles
<1>1. N!Merged \notin N!TestFiles
  BY DEF N!Merged, N!TestFiles
<1> QED
  BY <1>1 DEF N!Merge

LEMMA InitSound == N!ConstantsType /\ N!Init => N!DirectoriesAreSound
BY DEF N!ConstantsType, N!Init, N!DirectoriesAreSound, N!TypeOK, N!DirectoriesAgree, N!Diverse

(* Each action keeps the types and the agreement of the directories.                *)
LEMMA NextSound ==
  N!ConstantsType /\ N!DirectoriesAreSound /\ [N!Next]_(N!vars) => N!DirectoriesAreSound'
<1> SUFFICES ASSUME N!ConstantsType, N!DirectoriesAreSound, [N!Next]_(N!vars)
             PROVE  N!DirectoriesAreSound'
  OBVIOUS
<1>0. N!TypeOK /\ N!DirectoriesAgree
  BY DEF N!DirectoriesAreSound
<1>1. CASE N!RunCoverup
  <2>1. N!Begin("coverup") /\ timeUsed < TimeBudget
    BY <1>1 DEF N!RunCoverup, N!Begin
  <2>2. CASE TargetFound
    <3>1. testDir' = coverupDir' /\ coverupDir' \subseteq N!TestFiles /\ N!Spend
      BY <1>0, <1>1, <2>1, <2>2, BeginType DEF N!RunCoverup, N!TypeOK
    <3> QED
      BY <1>0, <2>1, <3>1, BeginType, SpendType
         DEF N!DirectoriesAreSound, N!TypeOK, N!DirectoriesAgree, N!Diverse
  <2>3. CASE ~TargetFound
    BY <1>0, <1>1, <2>1, <2>3, BeginType
       DEF N!RunCoverup, N!dirs, N!DirectoriesAreSound, N!TypeOK, N!DirectoriesAgree, N!Diverse
  <2> QED
    BY <2>2, <2>3
<1>2. CASE N!MakeDiverseTests
  <2>1. N!Begin("diversity") /\ N!Spend /\ timeUsed < TimeBudget /\ coverupDir' = coverupDir
    BY <1>2 DEF N!MakeDiverseTests, N!Begin
  <2>2. /\ testDir' \subseteq N!TestFiles
        /\ testDir' \ N!Diverse(testDir') = testDir \ N!Diverse(testDir)
    <3>1. testDir \subseteq N!TestFiles /\ N!Made("diversity") \in N!TestFiles
      BY <1>0, <2>1, BeginType DEF N!TypeOK
    <3>2. CASE testDir' = N!Merge(testDir) \ {N!Merged}
      BY <3>1, <3>2, MergedLeaves
    <3>3. CASE testDir' = N!Overwrite(N!Merge(testDir), "diversity") \ {N!Merged}
      <4>1. testDir' = {f \in testDir : f.by # "diversity"} \cup {N!Made("diversity")}
        BY <3>1, <3>3, MergedLeaves DEF N!Overwrite
      <4>2. N!Made("diversity").by = "diversity"
        BY DEF N!Made
      <4> QED
        BY <3>1, <4>1, <4>2 DEF N!Diverse
    <3> QED
      BY <1>2, <3>2, <3>3 DEF N!MakeDiverseTests
  <2>3. N!DirectoriesAgree'
    BY <1>0, <2>1, <2>2 DEF N!DirectoriesAgree, N!Diverse
  <2> QED
    BY <1>0, <2>1, <2>2, <2>3, BeginType, SpendType DEF N!DirectoriesAreSound, N!TypeOK
<1>3. CASE N!SkipPynguin
  BY <1>0, <1>3, BeginType
     DEF N!SkipPynguin, N!dirs, N!DirectoriesAreSound, N!TypeOK, N!DirectoriesAgree, N!Diverse
<1>4. CASE N!RunPynguin
  <2>1. N!Begin("pynguin") /\ N!Spend /\ timeUsed < TimeBudget /\ coverupDir' = testDir'
    BY <1>4 DEF N!RunPynguin, N!Begin
  <2>2. testDir' \subseteq N!TestFiles
    <3>1. testDir \subseteq N!TestFiles /\ N!Made("pynguin") \in N!TestFiles
      BY <1>0, <2>1, BeginType DEF N!TypeOK
    <3>2. \/ testDir' = N!Merge(testDir) \ {N!Merged}
          \/ testDir' = N!Overwrite(N!Merge(testDir), "pynguin") \ {N!Merged}
      BY <1>4 DEF N!RunPynguin
    <3> QED
      BY <3>1, <3>2, MergedLeaves DEF N!Overwrite
  <2> QED
    BY <1>0, <2>1, <2>2, BeginType, SpendType
       DEF N!DirectoriesAreSound, N!TypeOK, N!DirectoriesAgree, N!Diverse
<1>5. CASE N!Measure
  BY <1>0, <1>5 DEF N!Measure, N!dirs, N!DirectoriesAreSound, N!TypeOK, N!DirectoriesAgree, N!Diverse
<1>6. CASE N!LoopEnds
  BY <1>0, <1>6 DEF N!LoopEnds, N!dirs, N!DirectoriesAreSound, N!TypeOK, N!DirectoriesAgree, N!Diverse
<1>7. CASE N!FinalMeasurement
  BY <1>0, <1>7
     DEF N!FinalMeasurement, N!dirs, N!DirectoriesAreSound, N!TypeOK, N!DirectoriesAgree, N!Diverse
<1>8. CASE UNCHANGED N!vars
  BY <1>0, <1>8 DEF N!vars, N!dirs, N!DirectoriesAreSound, N!TypeOK, N!DirectoriesAgree, N!Diverse
<1> QED
  BY <1>1, <1>2, <1>3, <1>4, <1>5, <1>6, <1>7, <1>8 DEF N!Next, N!Iteration, N!Done

(* Files are from iterations that have begun: what an iteration makes is newer than *)
(* everything that is there.                                                       *)
FilesAreFromThePast == \A f \in testDir \cup coverupDir : f.in <= iterations

(* What a tool overwrites makes room for a newer file of its own.                   *)
LEMMA OverwriteReplaces ==
  ASSUME N!ConstantsType, N!DirectoriesAreSound, FilesAreFromThePast,
         NEW by \in {"coverup", "diversity", "pynguin"}, N!Begin(by),
         testDir' \in {N!Merge(testDir) \ {N!Merged}, N!Overwrite(N!Merge(testDir), by) \ {N!Merged}}
  PROVE  /\ \A f \in testDir : f \in testDir' \/ \E g \in testDir' : g.by = f.by /\ g.in > f.in
         /\ \A f \in testDir' : f.in <= iterations'
<1>1. /\ testDir \subseteq N!TestFiles /\ N!Made(by) \in N!TestFiles /\ iterations' = iterations + 1
      /\ iterations \in Nat /\ \A f \in testDir : f.in \in Nat /\ f.in <= iterations
  BY BeginType
     DEF N!DirectoriesAreSound, N!TypeOK, N!Begin, N!TestFiles, FilesAreFromThePast, N!ConstantsType
<1>2. CASE testDir' = N!Merge(testDir) \ {N!Merged}
  BY <1>1, <1>2, MergedLeaves
<1>3. CASE testDir' = N!Overwrite(N!Merge(testDir), by) \ {N!Merged}
  <2>1. testDir' = {f \in testDir : f.by # by} \cup {N!Made(by)}
    BY <1>1, <1>3, MergedLeaves DEF N!Overwrite
  <2>2. N!Made(by).by = by /\ N!Made(by).in = iterations'
    BY DEF N!Made
  <2> QED
    BY <1>1, <2>1, <2>2
<1> QED
  BY <1>2, <1>3

LEMMA PastInit == N!Init => FilesAreFromThePast
BY DEF N!Init, FilesAreFromThePast

(* Each action keeps that, and no file that both directories hold is lost.          *)
Survive ==
  \A f \in testDir \cap coverupDir :
    f \in testDir' \/ \E g \in testDir' : g.by = f.by /\ g.in > f.in

LEMMA NextSurvive ==
  N!ConstantsType /\ N!DirectoriesAreSound /\ FilesAreFromThePast /\ [N!Next]_(N!vars)
    => FilesAreFromThePast' /\ [Survive]_(N!vars)
<1> SUFFICES ASSUME N!ConstantsType, N!DirectoriesAreSound, FilesAreFromThePast, [N!Next]_(N!vars)
             PROVE  FilesAreFromThePast' /\ Survive
  OBVIOUS
<1>0. /\ testDir \subseteq N!TestFiles /\ coverupDir \subseteq N!TestFiles /\ iterations \in Nat
      /\ \A f \in testDir \cup coverupDir : f.in \in Nat /\ f.in <= iterations
  BY DEF N!DirectoriesAreSound, N!TypeOK, N!TestFiles, FilesAreFromThePast, N!ConstantsType
<1>1. CASE N!RunCoverup
  <2>1. iterations' = iterations + 1 /\ N!Made("coverup").in = iterations'
    BY <1>1 DEF N!RunCoverup, N!Begin, N!Made
  <2>2. CASE TargetFound
    <3>1. testDir' = coverupDir' /\ coverupDir' \in {coverupDir, coverupDir \cup {N!Made("coverup")}}
      BY <1>1, <2>2 DEF N!RunCoverup
    <3> QED
      BY <1>0, <2>1, <3>1 DEF FilesAreFromThePast, Survive
  <2>3. CASE ~TargetFound
    BY <1>0, <1>1, <2>1, <2>3 DEF N!RunCoverup, N!dirs, FilesAreFromThePast, Survive
  <2> QED
    BY <2>2, <2>3
<1>2. CASE N!MakeDiverseTests
  <2>1. /\ N!Begin("diversity") /\ coverupDir' = coverupDir
        /\ testDir' \in {N!Merge(testDir) \ {N!Merged},
                        N!Overwrite(N!Merge(testDir), "diversity") \ {N!Merged}}
    BY <1>2 DEF N!MakeDiverseTests
  <2>2. iterations' = iterations + 1
    BY <2>1 DEF N!Begin
  <2> QED
    BY <1>0, <2>1, <2>2, OverwriteReplaces DEF FilesAreFromThePast, Survive
<1>3. CASE N!SkipPynguin
  BY <1>0, <1>3 DEF N!SkipPynguin, N!Begin, N!dirs, FilesAreFromThePast, Survive
<1>4. CASE N!RunPynguin
  <2>1. /\ N!Begin("pynguin") /\ coverupDir' = testDir'
        /\ testDir' \in {N!Merge(testDir) \ {N!Merged},
                        N!Overwrite(N!Merge(testDir), "pynguin") \ {N!Merged}}
    BY <1>4 DEF N!RunPynguin
  <2> QED
    BY <1>0, <2>1, OverwriteReplaces DEF FilesAreFromThePast, Survive
<1>5. CASE N!Measure \/ N!LoopEnds \/ N!FinalMeasurement \/ UNCHANGED N!vars
  BY <1>0, <1>5 DEF N!Measure, N!LoopEnds, N!FinalMeasurement, N!vars, N!dirs, FilesAreFromThePast, Survive
<1> QED
  BY <1>1, <1>2, <1>3, <1>4, <1>5 DEF N!Next, N!Iteration, N!Done

(* What holds of the driver in every state of its part.                             *)
DriverInv == component = "noplateau" => N!DirectoriesAreSound /\ FilesAreFromThePast

MCNext == CoverUp_(Next) \/ NoPlateauStep \/ Chatter_(C!Next) \/ SegmentsStep

LEMMA DriverInit == MCInit => DriverInv
BY OtherConstants, InitSound, PastInit DEF MCInit, NoPlateauIdle, DriverInv

LEMMA DriverNext == DriverInv /\ [MCNext]_allVars => DriverInv' /\ [Survive]_(N!vars)
<1> SUFFICES ASSUME DriverInv, [MCNext]_allVars PROVE DriverInv' /\ [Survive]_(N!vars)
  OBVIOUS
<1>1. CASE NoPlateauStep
  <2>1. N!DirectoriesAreSound /\ FilesAreFromThePast /\ N!Next /\ component' = component
    BY <1>1 DEF DriverInv, NoPlateauStep
  <2>2. N!DirectoriesAreSound' /\ FilesAreFromThePast' /\ [Survive]_(N!vars)
    BY <2>1, OtherConstants, NextSound, NextSurvive
  <2> QED BY <2>2 DEF DriverInv
<1>2. CASE ~NoPlateauStep
  <2>1. UNCHANGED <<component, nVars>>
    BY <1>2 DEF MCNext, CoverUp_, Chatter_, SegmentsStep, allVars
  <2>2. UNCHANGED N!vars
    BY <2>1 DEF nVars, N!vars, N!dirs
  <2> QED
    BY <2>1, <2>2 DEF nVars, DriverInv, FilesAreFromThePast, N!DirectoriesAreSound, N!TypeOK,
      N!DirectoriesAgree, N!Diverse
<1> QED BY <1>1, <1>2

(* The two test directories never drift apart: whatever iterations follow each other,  *)
(* a test that only one of them holds is one of the diversity step, whose tests the     *)
(* copies after later iterations may lose (noplateau.sh, run_coverup,                  *)
(* make_diverse_tests and run_pynguin).                                             *)
THEOREM DirectoriesNeverDriftApart == MCSpec => []DirectoriesAreSound
<1>1. DriverInv => DirectoriesAreSound
  BY DEF DriverInv, DirectoriesAreSound
<1> QED BY <1>1, DriverInit, DriverNext, PTL DEF MCSpec, MCNext

(* No step loses what was written: CoverUp keeps the segments that a complete        *)
(* checkpoint called done, and its whole tests, through interrupts, kills and        *)
(* resumed runs, and a test that both directories of the driver hold leaves only     *)
(* for a newer one of the same tool.                                               *)
THEOREM WorkAlwaysSurvives == MCSpec => WorkSurvives
<1>1. MCInit => Inv
  BY InitInv DEF MCInit
<1>2. Inv /\ [MCNext]_allVars => Inv' /\ [ProgressIsKept /\ NoTestIsLost]_vars
  <2>1. [MCNext]_allVars => [Next]_vars
    BY DEF MCNext, CoverUp_, NoPlateauStep, Chatter_, SegmentsStep, allVars
  <2> QED BY <2>1, NextInv, StepLosesNothing
<1>3. MCSpec => NothingIsLost
  BY <1>1, <1>2, PTL DEF MCSpec, MCNext, NothingIsLost
<1>4. MCSpec => N!TestsSurvive
  BY DriverInit, DriverNext, PTL DEF MCSpec, MCNext, N!TestsSurvive, Survive
<1> QED BY <1>3, <1>4 DEF WorkSurvives
--------------------------------------------------------------------------------
(* The choice of segments.                                                         *)

(* Lines and places have a first one.                                              *)
LEMMA LeastExists ==
  ASSUME NEW T, T \subseteq Nat, T # {}
  PROVE  \E x \in T : \A y \in T : x <= y
<1> DEFINE R == OpToRel(<, Nat)
<1>1. IsWellFoundedOn(R, Nat)
  BY NatLessThanWellFounded
<1>2. R = {p \in Nat \X Nat : p[1] < p[2]}
  BY DEF OpToRel
<1> HIDE DEF R
<1>3. PICK x \in T : \A y \in T : <<y, x>> \notin R
  BY <1>1, WFMin
<1>4. ASSUME NEW y \in T PROVE x <= y
  <2>1. y \in Nat /\ x \in Nat
    OBVIOUS
  <2>2. y < x => <<y, x>> \in R
    BY <1>2, <2>1
  <2> QED BY <1>3, <2>1, <2>2
<1> QED BY <1>4

LEMMA MinIsLeast ==
  ASSUME NEW T, T \subseteq Nat, T # {}
  PROVE  S!Min(T) \in T
<1>1. \E x \in T : \A y \in T : x <= y
  BY LeastExists
<1> QED BY <1>1 DEF S!Min

(* What the syntax guarantees of the elements of a file, or of no file.              *)
IsSyntax(t) ==
  /\ t \subseteq S!Element
  /\ \A e \in t : 0 < e.begin /\ e.begin <= e.name /\ e.name < e.end
  /\ \A e, f \in t : e = f \/ S!Inside(e, f) \/ S!Inside(f, e) \/ S!Apart(e, f)

ElementType(e) ==
  /\ e.begin \in Nat /\ e.name \in Nat /\ e.end \in Nat
  /\ 0 < e.begin /\ e.begin <= e.name /\ e.name < e.end

LEMMA ElementsAre ==
  ASSUME IsSyntax(sTree), NEW e \in sTree
  PROVE  ElementType(e)
BY DEF IsSyntax, ElementType, S!Element

(* Elements around one line are nested.                                            *)
LEMMA Nested ==
  ASSUME IsSyntax(sTree), NEW line \in Nat, NEW e \in S!Around(line), NEW f \in S!Around(line)
  PROVE  e = f \/ S!Inside(e, f) \/ S!Inside(f, e)
<1>1. e \in sTree /\ f \in sTree /\ line \in e.begin .. e.end - 1 /\ line \in f.begin .. f.end - 1
  BY DEF S!Around, S!LinesOf
<1>2. ElementType(e) /\ ElementType(f)
  BY <1>1, ElementsAre
<1>3. ~S!Apart(e, f)
  BY <1>1, <1>2 DEF S!Apart, ElementType
<1> QED BY <1>1, <1>3 DEF IsSyntax

(* A line in an element that may be a segment is in one that is found.               *)
LEMMA FoundExists ==
  ASSUME IsSyntax(sTree), NEW line \in Nat,
         NEW fitting \in S!Around(line), ~S!TooLarge(fitting)
  PROVE  \E e \in S!Found(line) : TRUE
<1> DEFINE begins == {e.begin : e \in S!Stops(line)}
<1>1. fitting \in S!Stops(line)
  BY DEF S!Stops
<1>2. \A e \in S!Stops(line) : e \in sTree /\ e \in S!Around(line)
  BY DEF S!Stops, S!Around
<1>3. \A e \in S!Stops(line) : ElementType(e)
  BY <1>2, ElementsAre
<1>4. begins \subseteq Nat /\ begins # {}
  BY <1>1, <1>3 DEF ElementType
<1>5. PICK b \in begins : \A d \in begins : b <= d
  BY <1>4, LeastExists
<1>6. PICK e \in S!Stops(line) : e.begin = b
  OBVIOUS
<1>7. ASSUME NEW f \in S!Stops(line) PROVE ~S!Inside(e, f)
  <2>1. e.begin <= f.begin
    BY <1>5, <1>6
  <2> QED BY <1>3, <2>1 DEF ElementType, S!Inside
<1>8. e \in S!Enclosing(line)
  BY <1>7 DEF S!Enclosing
<1>9. ~S!TooLarge(e)
  <2> SUFFICES ASSUME S!TooLarge(e) PROVE FALSE
    OBVIOUS
  <2>1. S!Innermost(e, line)
    BY <1>6 DEF S!Stops
  <2>2. ~S!Inside(fitting, e)
    BY <2>1 DEF S!Innermost
  <2>3. e = fitting \/ S!Inside(e, fitting) \/ S!Inside(fitting, e)
    BY <1>2, Nested
  <2>4. ~S!Inside(e, fitting)
    BY <1>1, <1>7
  <2> QED BY <2>2, <2>3, <2>4
<1> QED BY <1>8, <1>9 DEF S!Found

(* What is chosen was found for a line of interest.                                *)
IsRange(s) ==
  \E line \in S!Interest :
    \E e \in S!Found(line) : s = [element |-> e, context |-> S!Context(e)]

(* What is true of the choice after each line, and of the segments made of it.        *)
SegInv ==
  /\ IsSyntax(sTree)
  /\ sMissing \subseteq Nat \ {0} /\ sBranches \subseteq (Nat \ {0}) \X Nat
  /\ sTodo \subseteq S!Interest
  /\ \A s \in sRanges : IsRange(s)
  /\ \A s, t \in sRanges : s = t \/ S!Apart(s.element, t.element)
  /\ \A line \in S!Interest \ sTodo : S!CanBeCovered(line) => S!InSegments(line)
  /\ sSegments # {} => sTodo = {} /\ sSegments = {S!Segment(range) : range \in sRanges}

LEMMA InterestIs ==
  ASSUME sMissing \subseteq Nat \ {0}, sBranches \subseteq (Nat \ {0}) \X Nat
  PROVE  /\ S!Interest \subseteq Nat
         /\ sMissing \subseteq S!Interest
         /\ \A b \in sBranches : b[1] \in S!Interest
         /\ \A line \in S!Interest : line \in sMissing
              \/ \E b \in sBranches : line = b[1] \/ line = b[2]
<1>1. \A b \in sBranches : b[1] \in Nat \ {0} /\ b[2] \in Nat
  OBVIOUS
<1>2. \A line \in S!Interest : line \in sMissing
              \/ \E b \in sBranches : line = b[1] \/ line = b[2]
  BY DEF S!Interest
<1>3. \A b \in sBranches : b[1] \in S!Interest
  BY <1>1 DEF S!Interest
<1>4. sMissing \subseteq S!Interest
  BY DEF S!Interest
<1>5. S!Interest \subseteq Nat
  BY <1>1, <1>2
<1> QED BY <1>2, <1>3, <1>4, <1>5

(* What is found is an element that may be a segment, and the first one to be so     *)
(* from the outermost inwards.                                                     *)
LEMMA FoundIs ==
  ASSUME NEW line, NEW e \in S!Found(line)
  PROVE  /\ e \in sTree /\ e \in S!Around(line) /\ line \in S!LinesOf(e) /\ ~S!TooLarge(e)
         /\ \A f \in S!Around(line) : ~S!TooLarge(f) => ~S!Inside(e, f)
BY DEF S!Found, S!Enclosing, S!Stops, S!Around

(* What is found for two lines is the same or apart, unless the second line is in    *)
(* what was found for the first.                                                   *)
LEMMA FoundApart ==
  ASSUME IsSyntax(sTree), NEW k \in Nat, NEW line \in Nat,
         NEW e \in S!Found(k), NEW f \in S!Found(line)
  PROVE  e = f \/ S!Apart(e, f) \/ line \in S!LinesOf(e)
<1>1. /\ e \in sTree /\ f \in sTree /\ e \in S!Around(k) /\ f \in S!Around(line)
      /\ ~S!TooLarge(e) /\ ~S!TooLarge(f)
      /\ k \in S!LinesOf(e) /\ line \in S!LinesOf(f)
  BY FoundIs
<1>2. ElementType(e) /\ ElementType(f)
  BY <1>1, ElementsAre
<1>3. CASE S!Inside(e, f)
  <2>1. k \in S!LinesOf(f)
    BY <1>1, <1>2, <1>3 DEF S!Inside, S!LinesOf, ElementType
  <2>2. f \in S!Around(k)
    BY <1>1, <2>1 DEF S!Around
  <2> QED BY <1>1, <1>3, <2>2, FoundIs
<1>4. CASE S!Inside(f, e)
  BY <1>1, <1>2, <1>4 DEF S!Inside, S!LinesOf, ElementType
<1> QED BY <1>1, <1>3, <1>4 DEF IsSyntax

LEMMA SegInit == MCInit => SegInv
<1> SUFFICES ASSUME MCInit PROVE SegInv
  OBVIOUS
<1>1. CASE SegmentsIdle
  BY <1>1 DEF SegmentsIdle, SegInv, IsSyntax, S!Interest
<1>2. CASE S!Init
  <2>1. PICK file \in Files :
          sTree = file.tree /\ sMissing = file.missing /\ sBranches = file.branches
    BY <1>2 DEF S!Init
  <2>2. /\ IsSyntax(sTree)
        /\ sMissing \subseteq Nat \ {0} /\ sBranches \subseteq (Nat \ {0}) \X Nat
    BY <2>1, OtherConstants DEF S!ConstantsType, IsSyntax
  <2> QED BY <1>2, <2>2 DEF S!Init, SegInv
<1> QED BY <1>1, <1>2 DEF MCInit

LEMMA VisitKeeps == SegInv /\ S!Visit => SegInv'
<1> SUFFICES ASSUME SegInv, S!Visit PROVE SegInv'
  OBVIOUS
<1> DEFINE line == S!Min(sTodo)
           new == IF S!InSegments(line) THEN {}
                  ELSE {[element |-> e, context |-> S!Context(e)] : e \in S!Found(line)}
<1>1. /\ sTodo # {} /\ sTodo' = sTodo \ {line} /\ sRanges' = sRanges \cup new
      /\ sTree' = sTree /\ sMissing' = sMissing /\ sBranches' = sBranches
      /\ sSegments' = sSegments /\ S!Interest' = S!Interest
  BY DEF S!Visit, S!Interest
<1>2. line \in sTodo /\ line \in Nat /\ line \in S!Interest /\ S!Interest \subseteq Nat
      /\ IsSyntax(sTree)
  BY <1>1, MinIsLeast, InterestIs DEF SegInv
<1>3. \A s \in new : IsRange(s)
  BY <1>2 DEF IsRange
<1>4. ASSUME S!InSegments(line) PROVE new = {}
  BY <1>4
<1>5. ASSUME NEW s \in new
      PROVE  \E f \in S!Found(line) : s = [element |-> f, context |-> S!Context(f)]
  OBVIOUS
<1>6. ASSUME ~S!InSegments(line), NEW e \in S!Found(line)
      PROVE  [element |-> e, context |-> S!Context(e)] \in new
  BY <1>6
<1> HIDE DEF line, new
<1>7. \A s \in sRanges' : IsRange(s)'
  <2>1. \A s : IsRange(s)' <=> IsRange(s)
    BY <1>1 DEF IsRange, S!Found, S!Enclosing, S!Stops, S!Around, S!Innermost, S!Context
  <2> QED BY <1>1, <1>3, <2>1 DEF SegInv
<1>8. ASSUME NEW s \in sRanges', NEW t \in new
      PROVE  s = t \/ S!Apart(s.element, t.element)
  <2>1. PICK f \in S!Found(line) : t = [element |-> f, context |-> S!Context(f)]
    BY <1>5
  <2>2. IsRange(s)
    BY <1>1, <1>3 DEF SegInv
  <2>3. PICK k \in S!Interest : \E e \in S!Found(k) : s = [element |-> e, context |-> S!Context(e)]
    BY <2>2 DEF IsRange
  <2>4. PICK e \in S!Found(k) : s = [element |-> e, context |-> S!Context(e)]
    BY <2>3
  <2>5. e = f \/ S!Apart(e, f) \/ line \in S!LinesOf(e)
    BY <1>2, FoundApart
  <2>6. CASE line \in S!LinesOf(e) /\ s \in sRanges
    <3>1. S!InSegments(line)
      BY <2>4, <2>6 DEF S!InSegments
    <3> QED BY <1>4, <3>1
  <2>7. CASE line \in S!LinesOf(e) /\ s \in new
    <3>1. PICK d \in S!Found(line) : s = [element |-> d, context |-> S!Context(d)]
      BY <1>5, <2>7
    <3>2. d = f \/ S!Inside(d, f) \/ S!Inside(f, d)
      BY <1>2, FoundIs, Nested
    <3>3. ~S!Inside(d, f) /\ ~S!Inside(f, d)
      BY FoundIs
    <3> QED BY <2>1, <3>1, <3>2, <3>3
  <2>8. e = f \/ S!Apart(e, f) => s = t \/ S!Apart(s.element, t.element)
    BY <2>1, <2>4
  <2> QED BY <1>1, <2>5, <2>6, <2>7, <2>8
<1>9. \A s, t \in sRanges' : s = t \/ S!Apart(s.element, t.element)
  <2>1. \A s, t \in sRanges : s = t \/ S!Apart(s.element, t.element)
    BY DEF SegInv
  <2>2. \A s, t : S!Apart(s, t) <=> S!Apart(t, s)
    BY DEF S!Apart
  <2> QED BY <1>1, <1>8, <2>1, <2>2
<1>10. ASSUME NEW k \in S!Interest' \ sTodo', NEW fitting \in S!Around(k), ~S!TooLarge(fitting)
       PROVE  S!InSegments(k)'
  <2>1. CASE S!InSegments(k)
    BY <1>1, <2>1 DEF S!InSegments
  <2>2. CASE k = line /\ ~S!InSegments(k)
    <3>1. PICK e \in S!Found(line) : TRUE
      BY <1>2, <1>10, <2>2, FoundExists
    <3>2. [element |-> e, context |-> S!Context(e)] \in sRanges'
      BY <1>1, <1>6, <2>2
    <3>3. line \in S!LinesOf(e)
      BY FoundIs
    <3> QED BY <2>2, <3>2, <3>3 DEF S!InSegments
  <2>3. CASE k # line
    BY <1>1, <1>10, <2>1, <2>3 DEF SegInv, S!CanBeCovered
  <2> QED BY <2>1, <2>2, <2>3
<1>11. \A k : S!Around(k)' = S!Around(k) /\ (S!CanBeCovered(k))' = S!CanBeCovered(k)
  BY <1>1 DEF S!Around, S!CanBeCovered
<1>12. \A k \in S!Interest' \ sTodo' : (S!CanBeCovered(k))' => S!InSegments(k)'
  BY <1>1, <1>10, <1>11 DEF S!CanBeCovered
<1>13. sSegments' = {}
  BY <1>1 DEF SegInv
<1>14. (sMissing \subseteq Nat \ {0} /\ sBranches \subseteq (Nat \ {0}) \X Nat)'
  BY <1>1 DEF SegInv
<1>15. IsSyntax(sTree)' /\ sTodo' \subseteq S!Interest'
  BY <1>1, <1>2 DEF SegInv
<1> QED BY <1>7, <1>9, <1>12, <1>13, <1>14, <1>15 DEF SegInv

LEMMA MakeKeeps == SegInv /\ S!MakeSegments => SegInv'
<1> SUFFICES ASSUME SegInv, S!MakeSegments PROVE SegInv'
  OBVIOUS
<1>1. /\ sTodo = {} /\ sSegments' = {S!Segment(range) : range \in sRanges}
      /\ sTree' = sTree /\ sMissing' = sMissing /\ sBranches' = sBranches
      /\ sTodo' = sTodo /\ sRanges' = sRanges
  BY DEF S!MakeSegments
<1>2. S!Interest' = S!Interest
  BY <1>1 DEF S!Interest
<1>3. \A s : IsRange(s)' <=> IsRange(s)
  BY <1>1, <1>2 DEF IsRange, S!Found, S!Enclosing, S!Stops, S!Around, S!Innermost, S!Context
<1>4. \A k : /\ (S!CanBeCovered(k))' <=> S!CanBeCovered(k)
             /\ S!InSegments(k)' <=> S!InSegments(k)
  BY <1>1 DEF S!CanBeCovered, S!Around, S!InSegments
<1>5. {S!Segment(range) : range \in sRanges}' = {S!Segment(range) : range \in sRanges}
  BY <1>1 DEF S!Segment
<1>6. IsSyntax(sTree)' /\ (sMissing \subseteq Nat \ {0} /\ sBranches \subseteq (Nat \ {0}) \X Nat)'
  BY <1>1 DEF SegInv
<1>7. \A k \in S!Interest' \ sTodo' : (S!CanBeCovered(k))' => S!InSegments(k)'
  BY <1>1, <1>2, <1>4 DEF SegInv
<1>8. (\A s, t \in sRanges : s = t \/ S!Apart(s.element, t.element))'
  BY <1>1 DEF SegInv
<1>9. (\A s \in sRanges : IsRange(s))' /\ sTodo' \subseteq S!Interest'
  BY <1>1, <1>2, <1>3 DEF SegInv
<1> QED BY <1>1, <1>5, <1>6, <1>7, <1>8, <1>9 DEF SegInv

(* The parts of an excerpt follow from its element.                                *)
LEMMA SegmentsAreGood == SegInv => S!GapsAreSegmented
<1> SUFFICES ASSUME SegInv PROVE S!GapsAreSegmented
  OBVIOUS
<1>0. /\ IsSyntax(sTree) /\ S!Interest \subseteq Nat /\ sMissing \subseteq S!Interest
      /\ \A b \in sBranches : b[1] \in S!Interest
      /\ \A line \in S!Interest : line \in sMissing
           \/ \E b \in sBranches : line = b[1] \/ line = b[2]
  BY InterestIs DEF SegInv
<1>1. ASSUME NEW s \in sRanges
      PROVE  /\ s.element \in sTree /\ ~S!TooLarge(s.element)
             /\ s.context = S!Context(s.element)
             /\ \E line \in S!Interest : line \in S!LinesOf(s.element)
  <2>1. PICK line \in S!Interest :
          \E e \in S!Found(line) : s = [element |-> e, context |-> S!Context(e)]
    BY DEF SegInv, IsRange
  <2>2. PICK e \in S!Found(line) : s = [element |-> e, context |-> S!Context(e)]
    BY <2>1
  <2> QED BY <2>2, FoundIs
<1>2. \A line : S!InSegments(line) => S!CanBeCovered(line)
  BY <1>1 DEF S!InSegments, S!Around, S!CanBeCovered
<1>3. ASSUME NEW s \in sRanges, NEW p \in S!Shown(s), NEW q \in S!Shown(s)
      PROVE  p = q \/ p[2] <= q[1] \/ q[2] <= p[1]
  <2> DEFINE e == s.element
  <2>1. e \in sTree /\ ElementType(e)
    BY <1>0, <1>1, ElementsAre
  <2>2. ASSUME NEW r \in S!Shown(s)
        PROVE  \/ r = <<e.begin, e.end>>
               \/ \E f \in sTree : S!Inside(e, f) /\ r = <<f.begin, f.name + 1>>
    BY <1>1 DEF S!Shown, S!Context
  <2> HIDE DEF e
  <2>3. ASSUME NEW f \in sTree, S!Inside(e, f)
        PROVE  ElementType(f) /\ f.name + 1 <= e.begin
    BY <1>0, <2>1, <2>3, ElementsAre DEF ElementType, S!Inside
  <2>4. ASSUME NEW f \in sTree, S!Inside(e, f), NEW g \in sTree, S!Inside(e, g)
        PROVE  f = g \/ f.name + 1 <= g.begin \/ g.name + 1 <= f.begin
    <3>1. ElementType(f) /\ ElementType(g)
      BY <2>3, <2>4
    <3>2. ~S!Apart(f, g)
      BY <2>1, <2>4, <3>1 DEF S!Apart, S!Inside, ElementType
    <3>3. f = g \/ S!Inside(f, g) \/ S!Inside(g, f)
      BY <1>0, <3>2 DEF IsSyntax
    <3> QED BY <3>1, <3>3 DEF S!Inside, ElementType
  <2>5. CASE p = <<e.begin, e.end>> \/ q = <<e.begin, e.end>>
    BY <2>2, <2>3, <2>5
  <2>6. CASE p # <<e.begin, e.end>> /\ q # <<e.begin, e.end>>
    <3>1. PICK f \in sTree : S!Inside(e, f) /\ p = <<f.begin, f.name + 1>>
      BY <2>2, <2>6
    <3>2. PICK g \in sTree : S!Inside(e, g) /\ q = <<g.begin, g.name + 1>>
      BY <2>2, <2>6
    <3> QED BY <2>4, <3>1, <3>2
  <2> QED BY <2>5, <2>6
<1>4. ASSUME sTodo = {}, sRanges # {} => sSegments # {}
      PROVE  sSegments = {S!Segment(range) : range \in sRanges}
  BY <1>4 DEF SegInv
<1>5. ASSUME sTodo = {}, NEW line \in S!Interest, S!CanBeCovered(line)
      PROVE  \E range \in sRanges :
               /\ line \in S!LinesOf(range.element)
               /\ \A other \in sRanges : line \in S!LinesOf(other.element) => other = range
  <2>1. PICK range \in sRanges : line \in S!LinesOf(range.element)
    BY <1>5 DEF SegInv, S!InSegments
  <2>2. ASSUME NEW other \in sRanges, line \in S!LinesOf(other.element) PROVE other = range
    <3>1. ElementType(range.element) /\ ElementType(other.element)
      BY <1>0, <1>1, ElementsAre
    <3>2. ~S!Apart(other.element, range.element)
      BY <1>0, <2>1, <2>2, <3>1 DEF S!LinesOf, S!Apart, ElementType
    <3> QED BY <3>2 DEF SegInv
  <2> QED BY <2>1, <2>2
<1>6. ASSUME sTodo = {}, NEW line \in S!Interest, ~S!CanBeCovered(line), NEW range \in sRanges
      PROVE  line \notin S!LinesOf(range.element)
  BY <1>2, <1>6 DEF S!InSegments
<1>7. ASSUME NEW range \in sRanges
      PROVE  LET s == S!Segment(range)
             IN /\ s.element = range.element
                /\ s.missing = sMissing \cap S!LinesOf(range.element)
                /\ s.branches = {b \in sBranches : b[1] \in S!LinesOf(range.element)}
  BY DEF S!Segment
<1>8. ASSUME sTodo = {}, sRanges # {} => sSegments # {}, NEW line \in sMissing
      PROVE  IF S!CanBeCovered(line)
             THEN \E s \in sSegments : \A t \in sSegments : line \in t.missing <=> t = s
             ELSE \A t \in sSegments : line \notin t.missing
  <2>1. sSegments = {S!Segment(range) : range \in sRanges} /\ line \in S!Interest
    BY <1>0, <1>4, <1>8
  <2>2. CASE S!CanBeCovered(line)
    <3>1. PICK range \in sRanges :
            /\ line \in S!LinesOf(range.element)
            /\ \A other \in sRanges : line \in S!LinesOf(other.element) => other = range
      BY <1>5, <1>8, <2>1, <2>2
    <3>2. S!Segment(range) \in sSegments /\ line \in S!Segment(range).missing
      BY <1>7, <1>8, <2>1, <3>1
    <3>3. ASSUME NEW t \in sSegments, line \in t.missing PROVE t = S!Segment(range)
      <4>1. PICK other \in sRanges : t = S!Segment(other)
        BY <2>1
      <4>2. line \in S!LinesOf(other.element)
        BY <1>7, <3>3, <4>1
      <4> QED BY <3>1, <4>1, <4>2
    <3> QED BY <2>2, <3>2, <3>3
  <2>3. CASE ~S!CanBeCovered(line)
    BY <1>6, <1>7, <1>8, <2>1, <2>3
  <2> QED BY <2>2, <2>3
<1>9. ASSUME sTodo = {}, sRanges # {} => sSegments # {}, NEW b \in sBranches
      PROVE  IF S!CanBeCovered(b[1])
             THEN \E s \in sSegments : \A t \in sSegments : b \in t.branches <=> t = s
             ELSE \A t \in sSegments : b \notin t.branches
  <2>1. sSegments = {S!Segment(range) : range \in sRanges} /\ b[1] \in S!Interest
    BY <1>0, <1>4, <1>9
  <2>2. CASE S!CanBeCovered(b[1])
    <3>1. PICK range \in sRanges :
            /\ b[1] \in S!LinesOf(range.element)
            /\ \A other \in sRanges : b[1] \in S!LinesOf(other.element) => other = range
      BY <1>5, <1>9, <2>1, <2>2
    <3>2. S!Segment(range) \in sSegments /\ b \in S!Segment(range).branches
      BY <1>7, <1>9, <2>1, <3>1
    <3>3. ASSUME NEW t \in sSegments, b \in t.branches PROVE t = S!Segment(range)
      <4>1. PICK other \in sRanges : t = S!Segment(other)
        BY <2>1
      <4>2. b[1] \in S!LinesOf(other.element)
        BY <1>7, <3>3, <4>1
      <4> QED BY <3>1, <4>1, <4>2
    <3> QED BY <2>2, <3>2, <3>3
  <2>3. CASE ~S!CanBeCovered(b[1])
    BY <1>6, <1>7, <1>9, <2>1, <2>3
  <2> QED BY <2>2, <2>3
<1>10. ASSUME sTodo = {}, sRanges # {} => sSegments # {}, NEW s \in sSegments
       PROVE  S!AskedFor(s) \/ S!ReachedFromElsewhere(s)
  <2>1. PICK range \in sRanges : s = S!Segment(range)
    BY <1>4, <1>10
  <2>2. PICK line \in S!Interest : line \in S!LinesOf(range.element)
    BY <1>1
  <2>3. CASE line \in sMissing
    BY <1>7, <2>1, <2>2, <2>3 DEF S!AskedFor
  <2>4. ASSUME NEW b \in sBranches, line = b[1] \/ line = b[2]
        PROVE  S!AskedFor(s) \/ S!ReachedFromElsewhere(s)
    <3>1. CASE b[1] \in S!LinesOf(range.element)
      BY <1>7, <2>1, <3>1 DEF S!AskedFor
    <3>2. CASE b[1] \notin S!LinesOf(range.element)
      BY <1>7, <2>1, <2>2, <2>4, <3>2 DEF S!ReachedFromElsewhere
    <3> QED BY <3>1, <3>2
  <2> QED BY <1>0, <2>2, <2>3, <2>4
<1>11. \A s, t \in sRanges : s = t \/ S!Apart(s.element, t.element)
  BY DEF SegInv
<1> QED BY <1>3, <1>8, <1>9, <1>10, <1>11 DEF S!GapsAreSegmented

(* Whatever the file and what a measurement says of it, segments are apart and an       *)
(* excerpt shows no line twice; each missing line in a function, or in a class within   *)
(* the limit, and each missing branch that begins in one, is asked for in exactly one   *)
(* segment, and others in none; and only a branch from elsewhere makes a segment that   *)
(* asks for nothing (segment.py, get_missing_coverage).                             *)
THEOREM GapsAreAlwaysSegmented == MCSpec => []GapsAreSegmented
<1>1. SegInv /\ [MCNext]_allVars => SegInv'
  <2>1. SegInv /\ UNCHANGED sVars => SegInv'
    <3> SUFFICES ASSUME SegInv, UNCHANGED sVars PROVE SegInv'
      OBVIOUS
    <3> USE DEF sVars
    <3>1. S!Interest' = S!Interest
      BY DEF S!Interest
    <3>2. \A s : IsRange(s)' <=> IsRange(s)
      BY <3>1 DEF IsRange, S!Found, S!Enclosing, S!Stops, S!Around, S!Innermost, S!Context
    <3>3. \A k : /\ (S!CanBeCovered(k))' <=> S!CanBeCovered(k)
                 /\ S!InSegments(k)' <=> S!InSegments(k)
      BY DEF S!CanBeCovered, S!Around, S!InSegments
    <3>4. {S!Segment(range) : range \in sRanges}' = {S!Segment(range) : range \in sRanges}
      BY DEF S!Segment
    <3> QED BY <3>1, <3>2, <3>3, <3>4 DEF SegInv
  <2>2. [MCNext]_allVars => S!Visit \/ S!MakeSegments \/ UNCHANGED sVars
    BY DEF MCNext, CoverUp_, NoPlateauStep, Chatter_, SegmentsStep, allVars,
      S!Next, S!Finished, S!vars, sVars
  <2> QED BY <2>1, <2>2, VisitKeeps, MakeKeeps
<1>2. SegInv => GapsAreSegmented
  BY SegmentsAreGood DEF GapsAreSegmented
<1> QED BY <1>1, <1>2, SegInit, PTL DEF MCSpec, MCNext
================================================================================
