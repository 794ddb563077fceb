-------------------------------- MODULE Slicer --------------------------------
(***************************************************************************)
(* Checked coverage: a test is executed, the tracer records some of its    *)
(* instructions, and the slicer walks backwards from the store of a        *)
(* statement's result to all that the result depends on                    *)
(* (slicer/dynamicslicer.py).  What was executed in between is             *)
(* reconstructed from the trace (slicer/executionflowbuilder.py), and the  *)
(* operand stack is simulated in reverse (slicer/stack).                   *)
(*                                                                         *)
(* Modelled are variables, calls, branches and loops; not the addresses    *)
(* of mutable objects, attributes, closures, generators, imports and       *)
(* exceptions.                                                             *)
(***************************************************************************)
EXTENDS ControlFlow, SequencesExt

CONSTANTS
  Programs,      \* the tests, with the code that they call
  AlsoBranches,  \* whether branch coverage is measured as well: a set of Booleans
  MaxSteps       \* bound: executed instructions

VARIABLES
  program,    \* the test, its code objects registered with their graphs
  alsoBranch, \* whether branch coverage is measured
  frames,     \* the frames of the execution, the running one first
  history,    \* what was executed: where, and on which earlier steps it depends
  trace,      \* what the tracer recorded: the step, and the target of a jump
  defined,    \* the step that last wrote a variable
  criterion,  \* the step from which slicing starts, 0 before
  slicer      \* the state of the slicer

vars == <<program, alsoBranch, frames, history, trace, defined, criterion, slicer>>
executionVars == <<frames, history, trace, defined>>

(***************************************************************************)
(* A program: code objects, each a sequence of blocks of instructions, of  *)
(* which the first are the statements of the test.  The argument of a jump *)
(* is the index of a block; indices start at zero, as in the code.         *)
(***************************************************************************)
Traced == {"BINARY_ADD", "LOAD_FAST", "STORE_FAST", "LOAD_NAME", "STORE_NAME", "LOAD_GLOBAL",
           "STORE_GLOBAL", "POP_JUMP_IF_FALSE", "JUMP_ABSOLUTE", "FOR_ITER", "CALL_FUNCTION",
           "RETURN_VALUE"}
CondBranches == {"POP_JUMP_IF_FALSE", "FOR_ITER"}
JumpOps == CondBranches \cup {"JUMP_ABSOLUTE"}
Uses == {"LOAD_FAST", "LOAD_NAME", "LOAD_GLOBAL"}
Defs == {"STORE_FAST", "STORE_NAME", "STORE_GLOBAL"}

\* Pops and pushes of an instruction, for a jump when it is known to have been taken.
StackEffect(op, arg, jump) ==
    CASE op \in Uses \cup {"LOAD_CONST"} -> <<0, 1>>
      [] op \in Defs \cup {"POP_TOP", "POP_JUMP_IF_FALSE", "RETURN_VALUE"} -> <<1, 0>>
      [] op = "BINARY_ADD" -> <<2, 1>>
      [] op = "GET_ITER" -> <<1, 1>>
      [] op = "JUMP_ABSOLUTE" -> <<0, 0>>
      [] op = "FOR_ITER" -> <<1, IF jump THEN 0 ELSE 2>>
      [] op = "CALL_FUNCTION" -> <<1 + arg, 1>>

\* A place in a program, and the instruction there.
At(co, bb, i) == [co |-> co, bb |-> bb, i |-> i]
Code(co) == program.codes[co]
Statements == program.statements
BlockOf(co, bb) == Code(co).blocks[bb + 1]
InstrAt(at) == BlockOf(at.co, at.bb)[at.i]
OpAt(at) == InstrAt(at).op

\* The variable an instruction reads or writes: of a code object, or of a file.
VariableOf(at) ==
    LET op == InstrAt(at).op
    IN  <<InstrAt(at).arg, IF op \in {"LOAD_FAST", "STORE_FAST"} THEN ToString(at.co)
                              ELSE IF at.co <= Statements THEN "<ast>" ELSE "module">>

\* The code object as the control-flow analysis sees it.
Shape(code) ==
    LET Final(bb) == code.blocks[bb + 1][Len(code.blocks[bb + 1])]
    IN  [bb \in 0 .. Len(code.blocks) - 1 |->
           CASE Final(bb).op \in CondBranches ->
                  [kind |-> "cond", target |-> Final(bb).arg, jumpsIf |-> "false"]
             [] Final(bb).op = "JUMP_ABSOLUTE" ->
                  [kind |-> "jump", target |-> Final(bb).arg, jumpsIf |-> None]
             [] Final(bb).op = "RETURN_VALUE" -> [kind |-> "end", target |-> None, jumpsIf |-> None]
             [] OTHER -> [kind |-> "fall", target |-> None, jumpsIf |-> None]]

\* A test with its code objects, and with the control-dependence graphs that are made
\* when these are instrumented, as the pairs of blocks <<from, to>>.
Registered(p) ==
    [statements |-> p.statements, codes |-> p.codes,
     cdg |-> [co \in DOMAIN p.codes |->
                Pairs(CHOOSE G \in ControlDependenceGraphs(Shape(p.codes[co])) : TRUE)]]

JumpTargets(code) == {code.blocks[bb][Len(code.blocks[bb])].arg :
                        bb \in {b \in DOMAIN code.blocks :
                                  code.blocks[b][Len(code.blocks[b])].op \in JumpOps}}
-----------------------------------------------------------------------------
(***************************************************************************)
(* Execution.                                                              *)
(***************************************************************************)
Frame(co, called) == [at |-> At(co, 0, 1), stack |-> <<>>, local |-> <<>>, called |-> called]
Running == frames[1]
Current == InstrAt(Running.at)
Step == Len(history) + 1

\* The last decision in this call that governs the block.
Governing ==
    LET co == Running.at.co
        inCall == {k \in DOMAIN history : history[k].called = Running.called /\ history[k].at.co = co}
        governs == {k \in inCall : /\ InstrAt(history[k].at).op \in CondBranches
                                   /\ <<history[k].at.bb, Running.at.bb>> \in program.cdg[co]}
    IN  IF governs = {} THEN {} ELSE {CHOOSE k \in governs : \A l \in governs : l <= k}

\* The steps that pushed what an instruction takes from the stack.
Taken(n) == SubSeq(Running.stack, Len(Running.stack) - n + 1, Len(Running.stack))
Left(n) == SubSeq(Running.stack, 1, Len(Running.stack) - n)

Record(deps) ==
    history' = Append(history, [at |-> Running.at, called |-> Running.called,
                                deps |-> deps \cup Governing \cup (Running.called \ {0})])

\* The index that the target of a jump has when the jump is instrumented: the
\* branch adapter has put two blocks behind each loop header it has visited,
\* and a loop header jumps to the second of its own.
ToldTarget(at, target) ==
    LET code == Code(at.co)
        Final(bb) == code.blocks[bb + 1][Len(code.blocks[bb + 1])]
        split(bb) == {h \in 0 .. at.bb : Final(h).op = "FOR_ITER" /\ h < bb}
    IN  IF ~alsoBranch THEN target
        ELSE IF Final(at.bb).op = "FOR_ITER" THEN at.bb + 2 * Cardinality(split(at.bb)) + 2
        ELSE target + 2 * Cardinality(split(target))

Trace ==
    trace' = IF Current.op \in Traced
             THEN Append(trace, [step |-> Step,
                                 target |-> IF Current.op \in JumpOps
                                            THEN ToldTarget(Running.at, Current.arg) ELSE None])
             ELSE trace

Moved(frame) ==
    LET at == frame.at
    IN  IF at.i < Len(BlockOf(at.co, at.bb))
        THEN [frame EXCEPT !.at.i = @ + 1]
        ELSE [frame EXCEPT !.at = At(at.co, at.bb + 1, 1)]

Jumped(frame, bb) == [frame EXCEPT !.at = At(frame.at.co, bb, 1)]
Continue(frame) == frames' = <<frame>> \o Tail(frames)

Executing == criterion = 0 /\ frames # <<>> /\ Len(history) < MaxSteps

Push(frame) == [frame EXCEPT !.stack = Append(@, Step)]
Pop(frame, n) == [frame EXCEPT !.stack = SubSeq(@, 1, Len(@) - n)]

Compute ==
  /\ Executing /\ Current.op \in {"LOAD_CONST", "BINARY_ADD", "GET_ITER", "POP_TOP"}
  /\ LET pops == StackEffect(Current.op, 0, FALSE)[1]
     IN  /\ Record(ToSet(Taken(pops)))
         /\ Continue(Moved(IF Current.op = "POP_TOP" THEN Pop(Running, 1)
                           ELSE Push(Pop(Running, pops))))
  /\ Trace /\ UNCHANGED <<program, alsoBranch, defined, criterion, slicer>>

\* Calls initialise the parameter; other unset variables come from before the test.
Use ==
  /\ Executing /\ Current.op \in Uses
  /\ LET variable == VariableOf(Running.at)
     IN  Record(IF variable \in DOMAIN Running.local THEN {Running.local[variable]}
                ELSE IF variable \in DOMAIN defined THEN {defined[variable]} ELSE {})
  /\ Continue(Moved(Push(Running)))
  /\ Trace /\ UNCHANGED <<program, alsoBranch, defined, criterion, slicer>>

Define ==
  /\ Executing /\ Current.op \in Defs
  /\ LET variable == VariableOf(Running.at)
     IN  /\ Record(ToSet(Taken(1)))
         /\ IF Current.op = "STORE_FAST"
            THEN /\ Continue(Moved([Pop(Running, 1) EXCEPT !.local = (variable :> Step) @@ @]))
                 /\ UNCHANGED defined
            ELSE /\ Continue(Moved(Pop(Running, 1)))
                 /\ defined' = (variable :> Step) @@ defined
  /\ Trace /\ UNCHANGED <<program, alsoBranch, criterion, slicer>>

Jump ==
  /\ Executing /\ Current.op \in JumpOps
  /\ Record(IF Current.op = "JUMP_ABSOLUTE" THEN {} ELSE ToSet(Taken(1)))
  /\ \/ /\ Current.op = "POP_JUMP_IF_FALSE"
        /\ \/ Continue(Jumped(Pop(Running, 1), Current.arg))
           \/ Continue(Moved(Pop(Running, 1)))
     \/ /\ Current.op = "FOR_ITER"
        /\ \/ Continue(Jumped(Pop(Running, 1), Current.arg))
           \/ Continue(Moved(Push(Running)))
     \/ Current.op = "JUMP_ABSOLUTE" /\ Continue(Jumped(Running, Current.arg))
  /\ Trace /\ UNCHANGED <<program, alsoBranch, defined, criterion, slicer>>

\* A function with a parameter is called with the value on top of the stack.
CallFunction ==
  /\ Executing /\ Current.op = "CALL_FUNCTION"
  /\ Record(ToSet(Taken(Current.arg + 1)))
  /\ LET callee == InstrAt(history[Taken(Current.arg + 1)[1]].at).arg
         co == CHOOSE co \in DOMAIN program.codes : Code(co).name = callee
     IN  frames' = <<[Frame(co, {Step}) EXCEPT !.local =
                        IF Current.arg = 0 THEN <<>> ELSE <<"p", ToString(co)>> :> Step],
                     Moved(Pop(Running, Current.arg + 1))>> \o Tail(frames)
  /\ Trace /\ UNCHANGED <<program, alsoBranch, defined, criterion, slicer>>

\* To the caller, or to the next statement of the test.
Return ==
  /\ Executing /\ Current.op = "RETURN_VALUE"
  /\ Record(ToSet(Taken(1)))
  /\ frames' = IF Len(frames) > 1
               THEN <<[frames[2] EXCEPT !.stack = Append(@, Step)]>> \o SubSeq(frames, 3, Len(frames))
               ELSE IF Running.at.co < Statements THEN <<Frame(Running.at.co + 1, {0})>>
               ELSE <<>>
  /\ Trace /\ UNCHANGED <<program, alsoBranch, defined, criterion, slicer>>

Execute == Compute \/ Use \/ Define \/ Jump \/ CallFunction \/ Return
-----------------------------------------------------------------------------
(***************************************************************************)
(* ExecutionFlowBuilder: the instruction that was executed before the one  *)
(* at a place, given the recorded instructions up to a position.           *)
(***************************************************************************)
Nowhere == At(0, 0, 0)
Recorded(position) == history[trace[position].step].at
IsTraced(at) == at # Nowhere /\ OpAt(at) \in Traced

LastOfPrevious(at) ==
    IF at.bb = 0 THEN Nowhere
    ELSE At(at.co, at.bb - 1, Len(BlockOf(at.co, at.bb - 1)))

\* Slip: a block that is a jump target was always reached by falling through.
CameByJumpNever(at, position) == FALSE

CameByJump(at, position) ==
    /\ at.i = 1 /\ at.bb \in JumpTargets(Code(at.co))
    /\ OpAt(Recorded(position)) \in JumpOps /\ trace[position].target = at.bb

LastInstruction(at, position) ==
    IF position = 0
    THEN [at |-> IF at.i > 1 THEN [at EXCEPT !.i = @ - 1] ELSE LastOfPrevious(at),
          jump |-> FALSE, call |-> FALSE, returned |-> FALSE, exception |-> FALSE]
    ELSE LET last == Recorded(position)
             jump == CameByJump(at, position)
             before == IF at.i > 1 THEN [at EXCEPT !.i = @ - 1]
                       ELSE IF jump THEN last ELSE LastOfPrevious(at)
             differs == IsTraced(before) /\ OpAt(before) # OpAt(last)
             returned == /\ OpAt(last) = "RETURN_VALUE"
                         /\ before = Nowhere \/ OpAt(before) = "CALL_FUNCTION" \/ differs
             call == before = Nowhere /\ ~returned
             exception == differs /\ ~call /\ ~returned
         IN  [at |-> IF returned \/ call \/ exception THEN last ELSE before,
              jump |-> jump, call |-> call, returned |-> returned, exception |-> exception]
-----------------------------------------------------------------------------
(***************************************************************************)
(* DynamicSlicer.                                                          *)
(***************************************************************************)
\* A frame whose code object is not known: the stack below the criterion.
Dummy == <<>>

\* The values an instruction pops are, backwards, marks of whether it is in the slice.
Marks(n, in) == [k \in 1 .. n |-> in]

BeginSlice(step) ==
  /\ criterion = 0 /\ frames = <<>> /\ OpAt(history[step].at) = "STORE_NAME"
  /\ criterion' = step
  /\ slicer' = [at |-> history[step].at,
                position |-> Cardinality({k \in DOMAIN trace : trace[k].step < step}),
                stacks |-> <<Marks(1, TRUE), Dummy>>,
                simulated |-> TRUE, dependent |-> FALSE, done |-> FALSE,
                slice |-> {history[step].at}, variables |-> {}, controlled |-> {},
                flow |-> <<step>>, exceptions |-> 0]
  /\ UNCHANGED <<program, alsoBranch>> /\ UNCHANGED executionVars

\* The nodes of the given code object's graph that depend on a node.
DependOn(co, bb) == {e[2] : e \in {e \in program.cdg[co] : e[1] = bb}}

\* Only the index of the node is compared, not its code object.
ControlledBy(s, at) ==
    IF OpAt(at) \notin CondBranches THEN {}
    ELSE {d \in s.controlled : d.bb \in DependOn(at.co, at.bb)}

HasDependence(at) == \E e \in program.cdg[at.co] : e[2] = at.bb /\ e[1] \in Nat

Popped(stacks) == IF Len(stacks) = 1 THEN <<Dummy>> ELSE Tail(stacks)

\* A frame is left, backwards, where it was called; when an exception stopped
\* the simulation, it goes on there with a stack that is not known.
Housekept(s, last) ==
    IF last.returned THEN [s EXCEPT !.stacks = <<<<>>>> \o @]
    ELSE IF ~last.call THEN s
    ELSE [s EXCEPT !.stacks = IF s.simulated THEN Popped(@) ELSE <<Dummy>> \o Popped(@),
                   !.simulated = TRUE]

Started(last) == [slicer EXCEPT !.simulated = @ /\ ~last.exception]

\* What an instruction pops is what its result pushed, of a stack that may be short.
Produced(s, n) == SubSeq(s.stacks[1], 1, IF Len(s.stacks[1]) < n THEN Len(s.stacks[1]) ELSE n)

Defines(s, at) == OpAt(at) \in Defs /\ VariableOf(at) \in s.variables
Calls(s, last) == last.call /\ s.dependent

\* The reasons for which an instruction is in the slice: a dependent one is controlled
\* by it, uses the variable it defines, is in the code object it calls, or takes a value
\* from the stack that it produced.
InSlice(s, last, produced) ==
    \/ ControlledBy(s, last.at) # {}
    \/ Defines(s, last.at)
    \/ Calls(s, last)
    \/ s.simulated /\ (\/ \E k \in DOMAIN produced : produced[k]
                       \/ last.returned /\ s.stacks[2] # <<>> /\ s.stacks[2][1])

\* An unconditional jump that was made is added for the sake of its control dependences.
Added(last, in) == in \/ (last.jump /\ OpAt(last.at) = "JUMP_ABSOLUTE")

Included(s, last, effect, in, added) ==
    [s EXCEPT
      !.at = last.at,
      !.position = IF IsTraced(last.at) THEN @ - 1 ELSE @,
      !.exceptions = IF last.exception THEN @ + 1 ELSE @,
      !.flow = Append(@, IF IsTraced(last.at) THEN trace[s.position].step ELSE 0),
      !.dependent = IF in /\ ~last.call THEN TRUE ELSE @ /\ ~Calls(s, last) /\ ~last.returned,
      !.slice = IF added THEN @ \cup {last.at} ELSE @,
      !.controlled = (@ \ ControlledBy(s, last.at))
                       \cup (IF added /\ HasDependence(last.at) THEN {last.at} ELSE {}),
      !.variables = (IF Defines(s, last.at) THEN @ \ {VariableOf(last.at)} ELSE @)
                      \cup (IF added /\ OpAt(last.at) \in Uses THEN {VariableOf(last.at)} ELSE {}),
      !.stacks = IF s.simulated
                 THEN <<Marks(effect[1], added)
                          \o SubSeq(@[1], Len(Produced(s, effect[2])) + 1, Len(@[1]))>> \o Tail(@)
                 ELSE @]

SliceStep ==
  /\ criterion # 0 /\ ~slicer.done
  /\ \E last \in {LastInstruction(slicer.at, slicer.position)} :
       \/ last.at = Nowhere /\ slicer' = [Started(last) EXCEPT !.done = TRUE]
       \/ /\ last.at # Nowhere
          /\ \E s \in {Housekept(Started(last), last)},
                effect \in {StackEffect(OpAt(last.at), InstrAt(last.at).arg, last.jump)} :
               \E in \in {InSlice(s, last, Produced(s, effect[2]))} :
                 slicer' = Included(s, last, effect, in, Added(last, in))
  /\ UNCHANGED <<program, alsoBranch, criterion>> /\ UNCHANGED executionVars

Init ==
  /\ program \in {Registered(p) : p \in Programs} /\ alsoBranch \in AlsoBranches
  /\ frames = <<Frame(1, {0})>> /\ history = <<>> /\ trace = <<>> /\ defined = <<>>
  /\ criterion = 0 /\ slicer = <<>>

Finished ==
  /\ (criterion # 0 /\ slicer.done) \/ (frames # <<>> /\ Len(history) = MaxSteps)
  /\ UNCHANGED vars

Next == Execute \/ (\E step \in DOMAIN history : BeginSlice(step)) \/ SliceStep \/ Finished

Spec == Init /\ [][Next]_vars
-----------------------------------------------------------------------------
(***************************************************************************)
(* Properties.                                                             *)
(***************************************************************************)
Sliced == criterion # 0 /\ slicer.done

\* All that a step depends on: the values it takes, the variables it reads, the
\* decision that governs it, the call it is part of.
Causes(step) ==
    LET From[found \in SUBSET (1..step)] ==
          LET more == found \cup UNION {history[k].deps : k \in found}
          IN  IF more = found THEN found ELSE From[more]
    IN  From[{step}]

\* The recorded steps are walked backwards one by one, and between two of them
\* exactly what was executed there.
FlowIsReconstructed ==
    Sliced => /\ Len(slicer.flow) = criterion
              /\ \A k \in DOMAIN slicer.flow : slicer.flow[k] \in {0, criterion + 1 - k}

\* The slice holds everything that the result depends on: lines in it count as
\* checked, and assertions that check nothing new are removed.
SliceIsComplete ==
    Sliced => \A k \in Causes(criterion) : history[k].at \in slicer.slice

\* Jumps were recorded with the index of the block that they jump to.  When branches are
\* measured as well, those across or out of a loop header are not, see ToldTarget.
TargetsAreReal ==
    \A k \in DOMAIN trace : OpAt(Recorded(k)) \in JumpOps =>
                             trace[k].target = InstrAt(Recorded(k)).arg

\* The flow of execution is reconstructed whatever was recorded of jumps.  Nothing in a
\* test raises: unless a jump was recorded with the wrong index, nothing in the flow is
\* taken for an exception, which would end the simulation of the stack; and whenever
\* nothing is, the slice is complete.
SlicesAreSound ==
  /\ FlowIsReconstructed
  /\ Sliced /\ TargetsAreReal => slicer.exceptions = 0
  /\ Sliced /\ slicer.exceptions = 0 => SliceIsComplete
=============================================================================
