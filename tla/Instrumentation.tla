--------------------------- MODULE Instrumentation ---------------------------
(***************************************************************************)
(* The probes that the instrumentation adapters put into a basic block     *)
(* (instrumentation/instrumentation.py): which instructions each adapter   *)
(* inserts, where, and in which order the adapters visit the block.  The   *)
(* instrumented block is then executed by a stack machine on symbolic      *)
(* values and compared with the block that was compiled.                   *)
(***************************************************************************)
EXTENDS Integers, FiniteSets, SequencesExt

CONSTANTS
  Blocks,      \* the compiled basic blocks that are looked at
  Stacks,      \* what can be on the stack before
  Memories,    \* what the variables, attributes and items can hold before
  Metrics      \* the sets of coverage metrics that can be configured

(***************************************************************************)
(* A value is a term; a probe is an instruction that is not of the code.   *)
(***************************************************************************)
Term(f, args) == [f |-> f, args |-> args]
Const(c) == Term(c, <<>>)
Nothing == Const("None")
Instr(op, arg, line) == [op |-> op, arg |-> arg, line |-> line, probe |-> FALSE]
Probe(op, arg, line) == [op |-> op, arg |-> arg, line |-> line, probe |-> TRUE]
Probes(pairs, line) == [k \in DOMAIN pairs |-> Probe(pairs[k][1], pairs[k][2], line)]
Do(op) == <<op, Nothing>>
Load(c) == <<"LOAD_CONST", Const(c)>>
Call(n) == <<"CALL_METHOD", n>>
-----------------------------------------------------------------------------
(***************************************************************************)
(* Classes of instructions (utils/opcodes.py).                             *)
(***************************************************************************)
Compares == {"COMPARE_OP", "IS_OP", "CONTAINS_OP"}
Generic == Compares \cup {"UNARY_NOT", "BINARY_ADD"}
Loads == {"LOAD_FAST", "LOAD_NAME", "LOAD_GLOBAL", "LOAD_DEREF", "LOAD_CLASSDEREF"}
Stores == {"STORE_FAST", "STORE_NAME", "STORE_GLOBAL", "STORE_DEREF"}
Deletes == {"DELETE_FAST", "DELETE_NAME", "DELETE_GLOBAL", "DELETE_DEREF"}
AttrReads == {"LOAD_ATTR", "DELETE_ATTR", "IMPORT_FROM", "LOAD_METHOD"}
Subscripts == {"STORE_SUBSCR", "DELETE_SUBSCR", "BINARY_SUBSCR"}
ConditionalJumps == {"POP_JUMP_IF_TRUE", "POP_JUMP_IF_FALSE", "JUMP_IF_TRUE_OR_POP",
                     "JUMP_IF_NOT_EXC_MATCH"}
Jumps == ConditionalJumps \cup {"JUMP_ABSOLUTE", "FOR_ITER"}
CallOps == {"CALL_FUNCTION", "CALL_METHOD"}
Returns == {"RETURN_VALUE", "YIELD_VALUE"}

\* The instruction that reads the variable that an instruction writes.
Scope == [LOAD_FAST |-> "FAST", STORE_FAST |-> "FAST", DELETE_FAST |-> "FAST",
          LOAD_NAME |-> "NAME", STORE_NAME |-> "NAME", DELETE_NAME |-> "NAME",
          LOAD_GLOBAL |-> "GLOBAL", STORE_GLOBAL |-> "GLOBAL", DELETE_GLOBAL |-> "GLOBAL",
          LOAD_DEREF |-> "DEREF", STORE_DEREF |-> "DEREF", DELETE_DEREF |-> "DEREF",
          LOAD_CLASSDEREF |-> "DEREF"]
Reader(op) ==
    IF op = "LOAD_CLASSDEREF" THEN op
    ELSE CHOOSE load \in Loads \ {"LOAD_CLASSDEREF"} : Scope[load] = Scope[op]

NoArgument == {"isalnum", "isupper"}
WithArgument == {"startswith", "endswith"}
-----------------------------------------------------------------------------
(***************************************************************************)
(* The stack machine.  The top of the stack is the last element.           *)
(***************************************************************************)
Place(scope, of, name) == [scope |-> scope, of |-> of, name |-> name]
Variable(i) == Place(Scope[i.op], Nothing, i.arg)
Attribute(o, name) == Place("attribute", o, name)
Item(o, key) == Place("item", o, key)

\* The n-th value from the top, and the stack without the n topmost values.
Top(c, n) == c.stack[Len(c.stack) - n]
Below(c, n) == SubSeq(c.stack, 1, Len(c.stack) - n)
Topmost(c, n) == SubSeq(c.stack, Len(c.stack) - n + 1, Len(c.stack))
Rotated(c, n) == Below(c, n) \o <<Top(c, 0)>> \o SubSeq(Topmost(c, n), 1, n - 1)

Leave(c, n, pushed) == [c EXCEPT !.stack = Below(c, n) \o pushed]
Goto(c, n, pushed, target) == [Leave(c, n, pushed) EXCEPT !.end = Term("goto", <<target>>)]
Raised(c) == [c EXCEPT !.end = Const("raised")]
Held(c, place, unset) == IF place \in DOMAIN c.memory THEN c.memory[place] ELSE unset
Kept(c, place, v) ==
    [c EXCEPT !.memory = [p \in DOMAIN @ \cup {place} |-> IF p = place THEN v ELSE @[p]]]
Dropped(c, place) == [c EXCEPT !.memory = [p \in DOMAIN @ \ {place} |-> @[p]]]
AttributeOf(c, o, name) == Held(c, Attribute(o, name), Term("attr", <<o, name>>))

Tracer == Const("tracer")
Provider == Const("provider")

\* Calls of the tracer and of the pool of constants are reports; a function is
\* an effect that the test sees.
Called(c, n, callee, args) ==
    IF callee.f = "method" /\ callee.args[1] \in {Tracer, Provider}
    THEN [Leave(c, n, <<Nothing>>) EXCEPT !.told = Append(@, <<callee.args[2].f, args>>)]
    ELSE IF callee = Term("method", <<Const("Tracer"), Const("attribute_lookup")>>)
    THEN Leave(c, n, <<Term("owner", args)>>)
    ELSE IF callee \in {Const("id"), Const("type")}
    THEN Leave(c, n, <<Term(callee.f, args)>>)
    ELSE [Leave(c, n, <<Term("result", <<callee>> \o args)>>)
             EXCEPT !.effects = Append(@, Term("call", <<callee>> \o args))]

Builtins == {Const("id"), Const("type"), Const("f"), Const("E")}

Read(c, i) ==
    IF Variable(i) \in DOMAIN c.memory THEN Leave(c, 0, <<c.memory[Variable(i)]>>)
    ELSE IF i.op \in {"LOAD_GLOBAL", "LOAD_NAME"} /\ i.arg \in Builtins
    THEN Leave(c, 0, <<i.arg>>)
    ELSE Raised(c)

Execute(c, i) ==
  LET op == i.op
  IN
  IF c.end # Nothing THEN c ELSE
  CASE op = "POP_TOP" -> Leave(c, 1, <<>>)
    [] op = "DUP_TOP" -> Leave(c, 0, Topmost(c, 1))
    [] op = "DUP_TOP_TWO" -> Leave(c, 0, Topmost(c, 2))
    [] op = "ROT_TWO" -> [c EXCEPT !.stack = Rotated(c, 2)]
    [] op = "ROT_THREE" -> [c EXCEPT !.stack = Rotated(c, 3)]
    [] op = "ROT_FOUR" -> [c EXCEPT !.stack = Rotated(c, 4)]
    [] op = "LOAD_CONST" -> Leave(c, 0, <<i.arg>>)
    [] op \in Loads -> Read(c, i)
    [] op \in Stores -> Kept(Leave(c, 1, <<>>), Variable(i), Top(c, 0))
    [] op \in Deletes ->
         IF Variable(i) \in DOMAIN c.memory THEN Dropped(c, Variable(i)) ELSE Raised(c)
    [] op = "LOAD_ATTR" -> Leave(c, 1, <<AttributeOf(c, Top(c, 0), i.arg)>>)
    [] op = "IMPORT_FROM" -> Leave(c, 0, <<AttributeOf(c, Top(c, 0), i.arg)>>)
    [] op = "LOAD_METHOD" -> Leave(c, 1, <<Term("method", <<Top(c, 0), i.arg>>), Top(c, 0)>>)
    [] op = "STORE_ATTR" -> Kept(Leave(c, 2, <<>>), Attribute(Top(c, 0), i.arg), Top(c, 1))
    [] op = "DELETE_ATTR" -> Dropped(Leave(c, 1, <<>>), Attribute(Top(c, 0), i.arg))
    [] op = "BINARY_SUBSCR" ->
         Leave(c, 2, <<Held(c, Item(Top(c, 1), Top(c, 0)), Term("item", Topmost(c, 2)))>>)
    [] op = "STORE_SUBSCR" -> Kept(Leave(c, 3, <<>>), Item(Top(c, 1), Top(c, 0)), Top(c, 2))
    [] op = "DELETE_SUBSCR" -> Dropped(Leave(c, 2, <<>>), Item(Top(c, 1), Top(c, 0)))
    [] op = "IMPORT_NAME" -> Leave(c, 2, <<Term("module", <<i.arg>>)>>)
    [] op \in Compares \cup {"BINARY_ADD"} -> Leave(c, 2, <<Term(op, Topmost(c, 2))>>)
    [] op = "UNARY_NOT" -> Leave(c, 1, <<Term(op, Topmost(c, 1))>>)
    [] op = "CALL_FUNCTION" -> Called(c, i.arg + 1, Top(c, i.arg), Topmost(c, i.arg))
    [] op = "CALL_METHOD" -> Called(c, i.arg + 2, Top(c, i.arg + 1), Topmost(c, i.arg))
    [] op \in {"POP_JUMP_IF_TRUE", "POP_JUMP_IF_FALSE", "JUMP_IF_TRUE_OR_POP"} \cup Returns ->
         [Leave(c, 1, <<>>) EXCEPT !.end = Term(op, Topmost(c, 1))]
    [] op = "JUMP_IF_NOT_EXC_MATCH" -> [Leave(c, 2, <<>>) EXCEPT !.end = Term(op, Topmost(c, 2))]
    [] op = "JUMP_ABSOLUTE" -> Goto(c, 0, <<>>, i.arg)
    [] op = "FOR_ITER" /\ c.yields -> Goto(c, 0, <<Term("next", Topmost(c, 1))>>, Const("next"))
    [] op = "FOR_ITER" /\ ~c.yields -> Goto(c, 1, <<>>, i.arg)

Start(stack, memory, yields) ==
    [stack |-> stack, memory |-> memory, yields |-> yields,
     effects |-> <<>>, told |-> <<>>, end |-> Nothing]

Ran(c, block) == FoldLeft(Execute, c, block)

\* The blocks that are split off behind a loop header; without them, the body
\* of the loop comes next.
Follows(c, code) ==
    LET resumed == [c EXCEPT !.end = Nothing]
    IN  IF c.end.f # "goto" \/ c.end.args[1] \notin {Const("next"), Const("not_entered")} THEN c
        ELSE IF c.end.args[1] = Const("not_entered") THEN Ran(resumed, code.notEntered)
        ELSE IF code.entered # <<>> THEN Ran(resumed, code.entered)
        ELSE [c EXCEPT !.end = Term("goto", <<Const("body")>>)]

Outcome(code, stack, memory, yields) == Follows(Ran(Start(stack, memory, yields), code.main), code)
-----------------------------------------------------------------------------
(***************************************************************************)
(* BranchCoverageInstrumentation.                                          *)
(***************************************************************************)
Inserted(block, position, probes) ==
    SubSeq(block, 1, position - 1) \o probes \o SubSeq(block, position, Len(block))

\* The positions of the instructions of the code, in their order.
Mapped(block) == SetToSortSeq({k \in DOMAIN block : ~block[k].probe}, <)

ObjectProbe(object, method) == <<Load(object), <<"LOAD_METHOD", Const(method)>>>>
TracerProbe(method) == ObjectProbe("tracer", method)

EntryProbe(line) ==
    Probes(TracerProbe("executed_code_object") \o <<Load("code"), Call(1), Do("POP_TOP")>>, line)

BoolProbe(line) ==
    Probes(<<Do("DUP_TOP")>> \o TracerProbe("executed_bool_predicate")
             \o <<Do("ROT_THREE"), Do("ROT_THREE"), Load("predicate"), Call(2), Do("POP_TOP")>>, line)

CompareProbe(line, compare) ==
    Probes(<<Do("DUP_TOP_TWO")>> \o TracerProbe("executed_compare_predicate")
             \o <<Do("ROT_FOUR"), Do("ROT_FOUR"), Load("predicate"), Load(compare), Call(4),
                  Do("POP_TOP")>>, line)

ExceptionProbe(line) ==
    Probes(<<Do("DUP_TOP_TWO")>> \o TracerProbe("executed_exception_match")
             \o <<Do("ROT_FOUR"), Do("ROT_FOUR"), Load("predicate"), Call(3), Do("POP_TOP")>>, line)

LoopProbe(line, entered, target) ==
    Probes(TracerProbe("executed_bool_predicate")
             \o <<Load(entered), Load("predicate"), Call(2), Do("POP_TOP"),
                  <<"JUMP_ABSOLUTE", target>>>>, line)

VisitEntryNode(code) ==
    [code EXCEPT !.main = EntryProbe(@[1].line) \o @]

InstrumentLoop(code) ==
    LET last == Len(code.main)
        line == code.main[last].line
    IN  [main |-> [code.main EXCEPT ![last].arg = Const("not_entered")],
         entered |-> LoopProbe(line, "True", Const("body")),
         notEntered |-> LoopProbe(line, "False", code.main[last].arg)]

InstrumentJump(block) ==
    LET positions == Mapped(block)
        at == IF Len(positions) > 1 THEN positions[Len(positions) - 1] ELSE 0
        jump == block[Len(block)]
    IN  IF at # 0 /\ block[at].op \in Compares
        THEN Inserted(block, at, CompareProbe(jump.line, block[at].arg.f))
        ELSE Inserted(block, Len(block),
                      IF jump.op = "JUMP_IF_NOT_EXC_MATCH" THEN ExceptionProbe(jump.line)
                      ELSE BoolProbe(jump.line))

BranchNode(code) ==
    LET jump == code.main[Len(code.main)].op
    IN  CASE jump = "FOR_ITER" -> InstrumentLoop(code)
          [] jump \in ConditionalJumps -> [code EXCEPT !.main = InstrumentJump(@)]
          [] OTHER -> code
-----------------------------------------------------------------------------
(***************************************************************************)
(* LineCoverageInstrumentation.                                            *)
(***************************************************************************)
LineProbe(line) ==
    Probes(TracerProbe("track_line_visit") \o <<Load(line), Call(1), Do("POP_TOP")>>, line)

\* A probe of another adapter carries a line and starts one, too.
LineNode(code) ==
    LET block == code.main
        starts == {k \in DOMAIN block : k = 1 \/ block[k].line # block[k - 1].line}
        Visited(k) == (IF k \in starts THEN LineProbe(block[k].line) ELSE <<>>) \o <<block[k]>>
    IN  [code EXCEPT !.main = FlattenSeq([k \in DOMAIN block |-> Visited(k)])]
-----------------------------------------------------------------------------
(***************************************************************************)
(* CheckedCoverageInstrumentation.                                         *)
(***************************************************************************)
\* What a report says of an instruction: file, code object, node, opcode, line,
\* and the offset.
About(i, offset) == <<Const("file"), Const("code"), Const("node"), Const(i.op), Const(i.line),
                      Const(ToString(offset))>>
Arguments(values) == [k \in DOMAIN values |-> <<"LOAD_CONST", values[k]>>]
LoadArgs(i, offset, arg) == Arguments(Append(About(i, offset), arg))

\* The same, keeping a value on top of the stack.
LoadArgsWithProp(i, offset, arg) ==
    FlattenSeq([k \in 1..7 |-> <<LoadArgs(i, offset, arg)[k], Do("ROT_TWO")>>])

\* Jumps, calls and returns are reported before they happen.
TrackedBefore(i, method, args) ==
    Probes(TracerProbe(method) \o args \o <<Call(Len(args)), Do("POP_TOP")>>, i.line) \o <<i>>

\* Loads and stores are reported afterwards, deletions before.
VariableProbe(i, offset) ==
    LET asked(f) == <<<<"LOAD_GLOBAL", Const(f)>>, <<Reader(i.op), i.arg>>, <<"CALL_FUNCTION", 1>>>>
        report == Probes(TracerProbe("track_memory_access") \o LoadArgs(i, offset, i.arg)
                           \o asked("id") \o asked("type") \o <<Call(9), Do("POP_TOP")>>, i.line)
    IN  IF i.op \in Deletes THEN report \o <<i>> ELSE <<i>> \o report

OnTop(f) == <<<<"LOAD_GLOBAL", Const(f)>>, Do("ROT_TWO"), <<"CALL_FUNCTION", 1>>>>

AttributeProbe(i, offset) ==
    LET prepared == IF i.op = "STORE_ATTR"
                    THEN Probes(<<Do("DUP_TOP"), Do("ROT_THREE")>>, i.line) \o <<i>>
                    ELSE Probes(<<Do("DUP_TOP")>>, i.line)
        report == Probes(
            TracerProbe("track_attribute_access") \o <<Do("ROT_THREE"), Do("ROT_THREE")>>
              \o LoadArgsWithProp(i, offset, i.arg)
              \o <<Do("DUP_TOP"), Do("DUP_TOP")>>
              \o ObjectProbe("Tracer", "attribute_lookup") \o <<Do("ROT_THREE"), Do("ROT_THREE")>>
              \o <<<<"LOAD_CONST", i.arg>>, Call(2)>>
              \o <<Do("ROT_TWO"), <<"LOAD_ATTR", i.arg>>>> \o OnTop("id")
              \o <<Do("ROT_THREE"), Do("ROT_THREE"), <<"LOAD_ATTR", i.arg>>>> \o OnTop("type")
              \o <<Call(10), Do("POP_TOP")>>, i.line)
    IN  prepared \o report \o (IF i.op = "STORE_ATTR" THEN <<>> ELSE <<i>>)

\* Slip: the container of a deletion is not brought back under its key.
SubscriptPreparedOnce(i) ==
    CASE i.op = "STORE_SUBSCR" ->
           Probes(<<Do("ROT_TWO"), Do("DUP_TOP"), Do("ROT_FOUR"), Do("ROT_TWO")>>, i.line) \o <<i>>
      [] i.op = "DELETE_SUBSCR" ->
           Probes(<<Do("ROT_TWO"), Do("DUP_TOP"), Do("ROT_THREE")>>, i.line) \o <<i>>
      [] i.op = "BINARY_SUBSCR" -> Probes(<<Do("DUP_TOP_TWO"), Do("POP_TOP")>>, i.line)

SubscriptPrepared(i) ==
    CASE i.op = "STORE_SUBSCR" ->
           Probes(<<Do("ROT_TWO"), Do("DUP_TOP"), Do("ROT_FOUR"), Do("ROT_TWO")>>, i.line) \o <<i>>
      [] i.op = "DELETE_SUBSCR" ->
           Probes(<<Do("ROT_TWO"), Do("DUP_TOP"), Do("ROT_THREE"), Do("ROT_THREE")>>, i.line) \o <<i>>
      [] i.op = "BINARY_SUBSCR" -> Probes(<<Do("DUP_TOP_TWO"), Do("POP_TOP")>>, i.line)

SubscriptProbe(i, offset) ==
    SubscriptPrepared(i)
      \o Probes(TracerProbe("track_attribute_access") \o <<Do("ROT_THREE"), Do("ROT_THREE")>>
                  \o LoadArgsWithProp(i, offset, Nothing) \o OnTop("id")
                  \o <<Load("None"), Load("None"), Call(10), Do("POP_TOP")>>, i.line)
      \o (IF i.op = "BINARY_SUBSCR" THEN <<i>> ELSE <<>>)

ImportProbe(i, offset) ==
    <<i>> \o Probes(<<Do("DUP_TOP")>> \o TracerProbe("track_memory_access")
                      \o <<Do("ROT_THREE"), Do("ROT_THREE")>> \o LoadArgsWithProp(i, offset, i.arg)
                      \o <<Do("DUP_TOP")>> \o OnTop("id") \o <<Do("ROT_TWO")>> \o OnTop("type")
                      \o <<Call(9), Do("POP_TOP")>>, i.line)

Checked(i, offset) ==
    CASE i.op \in Generic -> TrackedBefore(i, "track_generic", Arguments(About(i, offset)))
      [] i.op \in Returns -> TrackedBefore(i, "track_return", Arguments(About(i, offset)))
      [] i.op \in Jumps -> TrackedBefore(i, "track_jump", LoadArgs(i, offset, i.arg))
      [] i.op \in CallOps -> TrackedBefore(i, "track_call", LoadArgs(i, offset, Const(ToString(i.arg))))
      [] i.op \in Loads \cup Stores \cup Deletes -> VariableProbe(i, offset)
      [] i.op \in AttrReads \cup {"STORE_ATTR"} -> AttributeProbe(i, offset)
      [] i.op \in Subscripts -> SubscriptProbe(i, offset)
      [] i.op = "IMPORT_NAME" -> ImportProbe(i, offset)
      [] OTHER -> <<i>>

\* Slip: the offset counts the probes of the other adapters.
OffsetAmongAll(block, k) == 2 * (k - 1)

\* Probes do not count: the offset is that of the compiled code.
Offset(block, k) == 2 * Cardinality({j \in 1 .. k - 1 : ~block[j].probe})

CheckedNode(code) ==
    LET block == code.main
        Visited(k) == IF block[k].probe THEN <<block[k]>> ELSE Checked(block[k], Offset(block, k))
    IN  [code EXCEPT !.main = FlattenSeq([k \in DOMAIN block |-> Visited(k)])]
-----------------------------------------------------------------------------
(***************************************************************************)
(* DynamicSeedingInstrumentation looks at fixed positions from the end.    *)
(***************************************************************************)
AddValue == ObjectProbe("provider", "add_value")
             \o <<Do("ROT_THREE"), Do("ROT_THREE"), Call(1), Do("POP_TOP")>>

StringProbe(name, line) ==
    CASE name = "startswith" ->
           Probes(<<Do("DUP_TOP_TWO"), Do("ROT_TWO"), Do("BINARY_ADD")>> \o AddValue, line)
      [] name = "endswith" -> Probes(<<Do("DUP_TOP_TWO"), Do("BINARY_ADD")>> \o AddValue, line)
      [] name \in NoArgument ->
           Probes(<<Do("DUP_TOP")>> \o ObjectProbe("provider", "add_value_for_strings")
                    \o <<Do("ROT_THREE"), Do("ROT_THREE"), Load(name), Call(2), Do("POP_TOP")>>, line)

FromEnd(block, n) == block[Len(block) + 1 - n]
Calls(block, n, names) ==
    Len(block) >= n /\ FromEnd(block, n).op = "LOAD_METHOD" /\ FromEnd(block, n).arg.f \in names

Seeded(block, asked, probe) ==
    IF asked THEN Inserted(block, Len(block) - 1, probe) ELSE block

SeedingNode(code) ==
    LET block == code.main
        line == IF Len(block) > 1 THEN FromEnd(block, 2).line ELSE ""
        compared == Seeded(block, Len(block) > 1 /\ FromEnd(block, 2).op = "COMPARE_OP",
                           Probes(<<Do("DUP_TOP_TWO")>> \o AddValue \o AddValue, line))
        tested == Seeded(compared, Calls(block, 3, NoArgument),
                         StringProbe(FromEnd(block, 3).arg.f, line))
    IN  [code EXCEPT !.main = Seeded(tested, Calls(block, 4, WithArgument),
                                     StringProbe(FromEnd(block, 4).arg.f, line))]
-----------------------------------------------------------------------------
VARIABLES
  compiled,    \* the block as it was compiled
  code,        \* the block, and those split off behind it, as instrumented so far
  adapters,    \* the adapters that have still to visit the block
  metrics,     \* the configured coverage metrics
  entry,       \* whether the block is the entry of its code object
  before,      \* the stack and the memory the block is executed with
  executed     \* the outcomes of the compiled and of the instrumented block

vars == <<compiled, code, adapters, metrics, entry, before, executed>>

Alone(block) == [main |-> block, entered |-> <<>>, notEntered |-> <<>>]

\* The adapters in the order in which they are applied (build_transformer); the
\* one for constants comes last and is there whatever the metrics are.
Adapters(ms) == SelectSeq(<<"BRANCH", "LINE", "CHECKED">>, LAMBDA m : m \in ms) \o <<"SEEDING">>

Init ==
  /\ compiled \in Blocks /\ code = Alone(compiled)
  /\ metrics \in Metrics /\ adapters = <<"ENTRY">> \o Adapters(metrics)
  /\ entry \in BOOLEAN
  /\ before \in [stack : Stacks, memory : Memories]
  /\ executed = <<>>

Visit(adapter, instrumented) ==
  /\ adapters # <<>> /\ Head(adapters) = adapter
  /\ code' = instrumented
  /\ adapters' = Tail(adapters)
  /\ UNCHANGED <<compiled, metrics, entry, before, executed>>

\* The entry is visited before any node is.
VisitEntry ==
  Visit("ENTRY", IF entry /\ "BRANCH" \in metrics THEN VisitEntryNode(code) ELSE code)
VisitBranch == Visit("BRANCH", BranchNode(code))
VisitLine == Visit("LINE", LineNode(code))
VisitChecked == Visit("CHECKED", CheckedNode(code))
VisitSeeding == Visit("SEEDING", SeedingNode(code))

Run ==
  /\ adapters = <<>> /\ executed = <<>>
  /\ \E yields \in BOOLEAN :
       executed' = <<Outcome(Alone(compiled), before.stack, before.memory, yields),
                     Outcome(code, before.stack, before.memory, yields)>>
  /\ UNCHANGED <<compiled, code, adapters, metrics, entry, before>>

Finished == executed # <<>> /\ UNCHANGED vars

Next ==
  \/ VisitEntry \/ VisitBranch \/ VisitLine \/ VisitChecked \/ VisitSeeding
  \/ Run \/ Finished

Spec == Init /\ [][Next]_vars
-----------------------------------------------------------------------------
(***************************************************************************)
(* What the compiled block does, as the reports should have it.            *)
(***************************************************************************)
Original == executed[1]
Instrumented == executed[2]
Done == executed # <<>>

\* The states of the machine before and after each instruction of the compiled block.
Trail ==
    LET at[k \in 0 .. Len(compiled)] ==
          IF k = 0 THEN Start(before.stack, before.memory, Original.yields)
          ELSE Execute(at[k - 1], compiled[k])
    IN  at

\* The instructions that are executed, and those that do not raise.
Begun == {k \in DOMAIN compiled : Trail[k - 1].end = Nothing}
Succeeded == {k \in Begun : Trail[k].end # Const("raised")}

Identity(v) == <<Term("id", <<v>>), Term("type", <<v>>)>>

\* What is to be reported of the k-th instruction.  A target of a jump is left
\* out: it is the index of a block, among blocks that are still being split.
Fact(k) ==
    LET i == compiled[k]
        c == Trail[k - 1]
        d == Trail[k]
        about == About(i, 2 * (k - 1))
        variable == CASE i.op \in Loads \cup {"IMPORT_NAME"} -> Top(d, 0)
                      [] i.op \in Stores -> Top(c, 0)
                      [] i.op \in Deletes -> c.memory[Variable(i)]
        attribute == IF i.op = "STORE_ATTR" THEN Top(c, 1) ELSE AttributeOf(c, Top(c, 0), i.arg)
    IN  CASE i.op \in Generic -> <<<<"track_generic", about>>>>
          [] i.op \in Returns -> <<<<"track_return", about>>>>
          [] i.op \in Jumps -> <<<<"track_jump", about>>>>
          [] i.op \in CallOps -> <<<<"track_call", Append(about, Const(ToString(i.arg)))>>>>
          [] i.op \in Loads \cup Stores \cup Deletes \cup {"IMPORT_NAME"} /\ k \in Succeeded ->
               <<<<"track_memory_access", about \o <<i.arg>> \o Identity(variable)>>>>
          [] i.op \in AttrReads \cup {"STORE_ATTR"} ->
               <<<<"track_attribute_access",
                   about \o <<i.arg, Term("owner", <<Top(c, 0), i.arg>>)>> \o Identity(attribute)>>>>
          [] i.op \in Subscripts ->
               <<<<"track_attribute_access",
                   about \o <<Nothing, Term("id", <<Top(c, 1)>>), Nothing, Nothing>>>>>>
          [] OTHER -> <<>>

\* What is to be reported of the decision that the block ends with.
Decision ==
    LET last == Len(compiled)
        operands == Original.end.args
    IN  CASE last \notin Begun -> <<>>
          [] last \in Begun /\ compiled[last].op = "FOR_ITER" ->
               <<<<"executed_bool_predicate",
                   <<Const(IF Original.yields THEN "True" ELSE "False"), Const("predicate")>>>>>>
          [] last \in Begun /\ compiled[last].op = "JUMP_IF_NOT_EXC_MATCH" ->
               <<<<"executed_exception_match", operands \o <<Const("predicate")>>>>>>
          [] last \in Begun /\ compiled[last].op \in ConditionalJumps \ {"JUMP_IF_NOT_EXC_MATCH"} ->
               IF last > 1 /\ compiled[last - 1].op \in Compares
               THEN <<<<"executed_compare_predicate",
                        operands[1].args \o <<Const("predicate"), compiled[last - 1].arg>>>>>>
               ELSE <<<<"executed_bool_predicate", operands \o <<Const("predicate")>>>>>>
          [] OTHER -> <<>>

Told(methods) == SelectSeq(Instrumented.told, LAMBDA report : report[1] \in methods)
WithoutTarget(report) ==
    IF report[1] = "track_jump" THEN <<report[1], SubSeq(report[2], 1, 6)>> ELSE report
-----------------------------------------------------------------------------
(***************************************************************************)
(* Properties.                                                             *)
(***************************************************************************)
\* Whichever adapters visit the block, in whichever combination, the code under
\* test cannot tell: stack, variables, attributes, items, calls, and where
\* execution goes next are those of the compiled block.
InstrumentationIsTransparent ==
    Done => /\ Instrumented.end = Original.end
            /\ Instrumented.memory = Original.memory
            /\ Instrumented.effects = Original.effects
            /\ Instrumented.end # Const("raised") => Instrumented.stack = Original.stack

\* The tracer is told what the compiled block does, once and in order, with the
\* operands and the values of that moment and the offsets of the compiled code,
\* although the adapters rewrite each other's blocks.
ReportsAreTrue ==
    Done =>
      /\ "BRANCH" \in metrics =>
           /\ Told({"executed_bool_predicate", "executed_compare_predicate",
                    "executed_exception_match"}) = Decision
           /\ entry => Instrumented.told[1][1] = "executed_code_object" \/ "LINE" \in metrics
      /\ "LINE" \in metrics =>
           LET lines == {report[2][1] : report \in ToSet(Told({"track_line_visit"}))}
           IN  /\ {Const(compiled[k].line) : k \in Begun} \subseteq lines
               /\ Begun = DOMAIN compiled => lines = {Const(compiled[k].line) : k \in Begun}
      /\ "CHECKED" \in metrics =>
           LET tracked == Told({"track_generic", "track_return", "track_jump", "track_call",
                                "track_memory_access", "track_attribute_access"})
           IN  [k \in DOMAIN tracked |-> WithoutTarget(tracked[k])]
                 = FlattenSeq([k \in 1 .. Cardinality(Begun) |-> Fact(k)])
=============================================================================
