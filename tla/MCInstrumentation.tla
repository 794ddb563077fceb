-------------------------- MODULE MCInstrumentation --------------------------
(* Instances of Instrumentation: statements, and conditions, loops and returns. *)
EXTENDS Instrumentation

\* A statement is compiled to instructions of one line, or of two.
On(pairs) == [k \in DOMAIN pairs |-> Instr(pairs[k][1], pairs[k][2], "1")]
Split(block, n) == [k \in DOMAIN block |-> [block[k] EXCEPT !.line = IF k <= n THEN "1" ELSE "2"]]

X == Const("x")
Y == Const("y")
O == Const("o")
LoadX == <<"LOAD_FAST", X>>
LoadY == <<"LOAD_GLOBAL", Y>>
LoadO == <<"LOAD_NAME", O>>
Pop == Do("POP_TOP")

Statements == {
  <<LoadX, <<"STORE_FAST", Y>>>>, <<<<"DELETE_FAST", X>>>>,
  <<LoadO, <<"STORE_NAME", X>>>>, <<<<"DELETE_NAME", O>>>>,
  <<LoadY, <<"STORE_GLOBAL", Y>>>>, <<<<"DELETE_GLOBAL", Y>>>>,
  <<<<"LOAD_DEREF", X>>, <<"STORE_DEREF", X>>>>, <<<<"DELETE_DEREF", X>>>>,
  <<<<"LOAD_CLASSDEREF", X>>, Pop>>,
  <<LoadX, LoadO, <<"STORE_ATTR", Y>>>>, <<LoadO, <<"LOAD_ATTR", Y>>, Pop>>, <<LoadO, <<"DELETE_ATTR", X>>>>,
  <<LoadY, LoadO, LoadX, Do("STORE_SUBSCR")>>, <<LoadO, LoadX, Do("BINARY_SUBSCR"), Pop>>,
  <<LoadO, LoadX, Do("DELETE_SUBSCR")>>,
  <<Load("0"), Load("None"), <<"IMPORT_NAME", O>>, <<"IMPORT_FROM", X>>, <<"STORE_NAME", X>>, Pop>>,
  <<<<"LOAD_GLOBAL", Const("f")>>, LoadX, <<"CALL_FUNCTION", 1>>, Pop>>,
  <<LoadO, <<"LOAD_METHOD", Const("g")>>, LoadX, LoadY, Call(2), Pop>>,
  <<LoadX, LoadY, Do("BINARY_ADD"), Do("UNARY_NOT"), <<"STORE_FAST", X>>>>}

Ends == {
  <<LoadX, LoadY, <<"COMPARE_OP", Const("LT")>>, Do("POP_JUMP_IF_FALSE")>>,
  <<LoadX, LoadY, <<"IS_OP", Const("IS")>>, Do("POP_JUMP_IF_TRUE")>>,
  <<LoadX, LoadY, <<"CONTAINS_OP", Const("NOT_IN")>>, Do("JUMP_IF_TRUE_OR_POP")>>,
  <<LoadX, Do("POP_JUMP_IF_FALSE")>>, <<Do("POP_JUMP_IF_TRUE")>>,
  <<Do("DUP_TOP"), <<"LOAD_GLOBAL", Const("E")>>, Do("JUMP_IF_NOT_EXC_MATCH")>>,
  <<<<"FOR_ITER", Const("exit")>>>>, <<LoadX, <<"JUMP_ABSOLUTE", Const("head")>>>>,
  <<LoadX, Do("YIELD_VALUE")>>,
  <<LoadX, LoadY, <<"COMPARE_OP", Const("EQ")>>, Do("RETURN_VALUE")>>}
  \cup {<<LoadX, <<"LOAD_METHOD", Const(name)>>, LoadY, Call(1), Do(jump)>> :
          name \in WithArgument, jump \in {"POP_JUMP_IF_FALSE", "RETURN_VALUE"}}
  \cup {<<LoadX, <<"LOAD_METHOD", Const("isalnum")>>, Call(0), Do(jump)>> :
          jump \in {"POP_JUMP_IF_FALSE", "RETURN_VALUE"}}

Some == <<LoadX, <<"STORE_FAST", Y>>>>
Return == <<Load("None"), Do("RETURN_VALUE")>>
Compiled == {On(b) : b \in {s \o Return : s \in Statements} \cup Ends \cup {Some \o e : e \in Ends}}
All == Compiled \cup {Split(b, 2) : b \in Compiled} \cup {Split(b, Len(b) - 1) : b \in Compiled}

Stack == {<<Const("bottom"), Const("top")>>}
Value(c) == Term("value", <<c>>)
Variables == {Place(s, Nothing, v) : s \in {"FAST", "NAME", "GLOBAL", "DEREF"}, v \in {X, Y, O}}
Bound == [p \in Variables \cup {Item(Value(O), Value(X)), Attribute(Value(O), X)} |-> Value(p.name)]
Unbound == [p \in DOMAIN Bound \ {Place("FAST", Nothing, X), Place("GLOBAL", Nothing, Y)} |-> Bound[p]]

AllMemories == {Bound, Unbound}
AllMetrics == SUBSET {"BRANCH", "LINE", "CHECKED"} \ {{}}
=============================================================================
