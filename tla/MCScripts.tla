------------------------------- MODULE MCScripts -------------------------------
(* The programs that work on test files between and beside Pynguin's runs, and two *)
(* parts of CoverUp, one of which is chosen at the start; the others do nothing.    *)
(* "coverup" is CoverUp, "noplateau" the driver with all iteration types and a       *)
(* budget of a few units of time, "chatter" two conversations that share a rate      *)
(* limiter, and "segments" the choice of segments in two files: a function between   *)
(* classes with methods, and a class in a class with a decorated method.             *)
EXTENDS CoverUp, Integers, Sequences

CONSTANTS EnabledTypes, TargetFound, TimeBudget, Overhead, MaxIterations, MaxElapsed, Coverages,
          Chats, Limit, MaxBackoff, MaxCalls, MaxRounds, MaxFailures,
          Files, LineLimit

VARIABLES component, nPc, testDir, coverupDir, timeUsed, toggle, iterations, cov, best,
          cPc, cOutcome, messages, sleep, level, rounds, failures,
          sTree, sMissing, sBranches, sTodo, sRanges, sSegments

N == INSTANCE NoPlateau WITH pc <- nPc
C == INSTANCE Chatter WITH pc <- cPc, outcome <- cOutcome
S == INSTANCE Segments WITH
       tree <- sTree, missing <- sMissing, branches <- sBranches, todo <- sTodo,
       ranges <- sRanges, segments <- sSegments

ASSUME OtherConstants == N!ConstantsType /\ C!ConstantsType /\ S!ConstantsType

(* Instances for TLC.                                                              *)
AllTypes == <<"coverup", "diversity", "pynguin">>
SomeCoverages == {-1, 0, 60, 100}

Function(b, n, e) == [kind |-> "function", begin |-> b, name |-> n, end |-> e]
Class(b, n, e) == [kind |-> "class", begin |-> b, name |-> n, end |-> e]

FlatFile == {Function(1, 1, 3), Class(3, 4, 9), Function(5, 5, 7), Function(8, 8, 9),
             Class(10, 10, 12), Function(11, 11, 12)}
NestedFile == {Class(1, 1, 10), Class(2, 3, 8), Function(4, 5, 7), Class(8, 8, 10),
               Function(9, 9, 10), Function(11, 11, 13), Class(12, 12, 13)}

(* What a measurement may say of a file: any lines are missing; or a branch as well as  *)
(* a line; or both branches of a condition.                                        *)
Reports(tree, lines) ==
  [tree : {tree}, missing : SUBSET lines, branches : {{}}]
  \cup [tree : {tree}, missing : {{}} \cup {{l} : l \in lines},
        branches : {{b} : b \in lines \X ({0} \cup lines)}]
  \cup [tree : {tree}, missing : {{}},
        branches : {{<<c, 0>>, <<c, l>>} : c \in lines, l \in lines}]

BothFiles == Reports(FlatFile, 1 .. 12) \cup Reports(NestedFile, 1 .. 13)

nVars == <<nPc, testDir, coverupDir, timeUsed, toggle, iterations, cov, best>>
cVars == <<cPc, cOutcome, messages, sleep, level, rounds, failures>>
sVars == <<sTree, sMissing, sBranches, sTodo, sRanges, sSegments>>
allVars == <<component, vars, nVars, cVars, sVars>>

NoPlateauIdle ==
  /\ nPc = "idle" /\ testDir = {} /\ coverupDir = {}
  /\ timeUsed = 0 /\ toggle = 0 /\ iterations = 0 /\ cov = 0 /\ best = 0

SegmentsIdle ==
  sTree = {} /\ sMissing = {} /\ sBranches = {} /\ sTodo = {} /\ sRanges = {} /\ sSegments = {}

(* CoverUp and the conversations are idle where they begin.                        *)
MCInit ==
  /\ Init /\ C!Init
  /\ \/ component \in {"coverup", "chatter"} /\ NoPlateauIdle /\ SegmentsIdle
     \/ component = "noplateau" /\ N!Init /\ SegmentsIdle
     \/ component = "segments" /\ NoPlateauIdle /\ S!Init

CoverUp_(Step) == component = "coverup" /\ Step /\ UNCHANGED <<component, nVars, cVars, sVars>>
NoPlateauStep ==
  component = "noplateau" /\ N!Next /\ UNCHANGED <<component, vars, cVars, sVars>>
Chatter_(Step) == component = "chatter" /\ Step /\ UNCHANGED <<component, vars, nVars, sVars>>
SegmentsStep ==
  component = "segments" /\ S!Next /\ UNCHANGED <<component, vars, nVars, cVars>>

(* The fairness of the specifications.                                             *)
MCSpec ==
  /\ MCInit /\ [][CoverUp_(Next) \/ NoPlateauStep \/ Chatter_(C!Next) \/ SegmentsStep]_allVars
  /\ WF_allVars(CoverUp_(Main))
  /\ \A s \in Segments : WF_allVars(CoverUp_(Coroutine(s)))
  /\ WF_allVars(NoPlateauStep)
  /\ \A c \in Chats : WF_allVars(Chatter_(C!Chat(c)))
  /\ WF_allVars(Chatter_(C!Leak))

(* The driver's two test directories never drift apart, see there.                 *)
DirectoriesAreSound == component = "noplateau" => N!DirectoriesAreSound
(* Nothing that a program has written is lost: CoverUp's progress and tests, and    *)
(* the driver's tests that both directories hold, see there.                       *)
WorkSurvives == NothingIsLost /\ N!TestsSurvive
(* The driver stops, although a skipped Pynguin iteration costs no time.           *)
Stops == component = "noplateau" => N!Stops
(* Requests are whole conversations, see there.                                    *)
ConversationsAreWhole == C!ConversationsAreWhole
(* Prompting ends, and no conversation waits for ever, see there.                  *)
PromptsEnd == PromptingEnds /\ C!ChatsEnd
(* Segments are apart, and each gap is asked for once, see there.                       *)
GapsAreSegmented == S!GapsAreSegmented
================================================================================
