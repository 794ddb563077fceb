------------------------------ MODULE MCSlicer ------------------------------
EXTENDS Slicer

I(op, arg) == [op |-> op, arg |-> arg]
Const == I("LOAD_CONST", None)
Add == I("BINARY_ADD", None)
ReturnIt == I("RETURN_VALUE", None)
Load(x) == I("LOAD_FAST", x)
Store(x) == I("STORE_FAST", x)
IfFalse(bb) == I("POP_JUMP_IF_FALSE", bb)
Goto(bb) == I("JUMP_ABSOLUTE", bb)

Func(name, blocks) == [name |-> name, blocks |-> blocks]
Statement(instructions) ==
    Func("statement", <<instructions \o <<Const, ReturnIt>> >>)

\* v = 1, v = f(), v = f(w) and f(w), as the statements of a test.
Constant(v) == Statement(<<Const, I("STORE_NAME", v)>>)
Called(v, f) ==
    Statement(<<I("LOAD_NAME", f), I("CALL_FUNCTION", 0), I("STORE_NAME", v)>>)
Applied(v, f, w) ==
    Statement(<<I("LOAD_NAME", f), I("LOAD_NAME", w), I("CALL_FUNCTION", 1), I("STORE_NAME", v)>>)
Effect(f, w) ==
    Statement(<<I("LOAD_NAME", f), I("LOAD_NAME", w), I("CALL_FUNCTION", 1), I("POP_TOP", None)>>)

\* if p: return p + 1 / return 2
EarlyReturn(f) ==
    Func(f, << <<Load("p"), IfFalse(2)>>, <<Load("p"), Const, Add, ReturnIt>>, <<Const, ReturnIt>> >>)
\* if p: x = p else: x = 2 / return x
IfElse(f) ==
    Func(f, << <<Load("p"), IfFalse(2)>>, <<Load("p"), Store("x"), Goto(3)>>, <<Const, Store("x")>>,
               <<Load("x"), ReturnIt>> >>)
\* x = 1 / for i in p: x = x + i / return x
ForLoop(f) ==
    Func(f, << <<Const, Store("x"), Load("p"), I("GET_ITER", None)>>, <<I("FOR_ITER", 3)>>,
               <<Store("i"), Load("x"), Load("i"), Add, Store("x"), Goto(1)>>,
               <<Load("x"), ReturnIt>> >>)
\* for i in p: x = i / if p: return p / return 2
LoopThenIf(f) ==
    Func(f, << <<Load("p"), I("GET_ITER", None)>>, <<I("FOR_ITER", 3)>>,
               <<Store("x"), Goto(1)>>, <<Load("p"), IfFalse(5)>>,
               <<Load("p"), ReturnIt>>, <<Const, ReturnIt>> >>)
\* global g / g = p, and return g
SetGlobal == Func("put", << <<Load("p"), I("STORE_GLOBAL", "g"), Const, ReturnIt>> >>)
GetGlobal == Func("get", << <<I("LOAD_GLOBAL", "g"), ReturnIt>> >>)
\* return f(p) + 1
Calling(name, f) ==
    Func(name, << <<I("LOAD_GLOBAL", f), Load("p"), I("CALL_FUNCTION", 1), Const, Add, ReturnIt>> >>)
\* if p: return f(p) / return 2
CallingIf(name, f) ==
    Func(name, << <<Load("p"), IfFalse(2)>>,
                  <<I("LOAD_GLOBAL", f), Load("p"), I("CALL_FUNCTION", 1), ReturnIt>>,
                  <<Const, ReturnIt>> >>)

\* while p: (if p: x = p) p = x / return p
WhileIf(f) ==
    Func(f, << <<Load("p"), Store("x")>>, <<Load("p"), IfFalse(5)>>, <<Load("x"), IfFalse(4)>>,
               <<Load("p"), Store("x")>>, <<Load("x"), Store("p"), Goto(1)>>,
               <<Load("p"), ReturnIt>> >>)

\* log(p) / global g / g = 1
LogThenSet(log) ==
    Func("put", << <<I("LOAD_GLOBAL", log), Load("p"), I("CALL_FUNCTION", 1), I("POP_TOP", None),
                     Const, I("STORE_GLOBAL", "g"), Const, ReturnIt>> >>)

Test(n, codes) == [statements |-> n, codes |-> codes]
Tests ==
  {Test(3, <<Constant("a"), Constant("b"), Applied("c", "f", "a"), EarlyReturn("f")>>),
   Test(2, <<Constant("a"), Applied("b", "f", "a"), IfElse("f")>>),
   Test(2, <<Constant("a"), Applied("b", "f", "a"), ForLoop("f")>>),
   Test(3, <<Constant("a"), Effect("put", "a"), Called("b", "get"), SetGlobal, GetGlobal>>),
   Test(3, <<Constant("a"), Applied("b", "f", "a"), Applied("c", "h", "b"), IfElse("f"), Calling("h", "f")>>),
   Test(2, <<Constant("a"), Applied("b", "f", "a"), LoopThenIf("f")>>),
   Test(2, <<Constant("a"), Applied("b", "h", "a"), IfElse("f"), Calling("h", "f")>>),
   Test(2, <<Constant("a"), Applied("b", "h", "a"), IfElse("f"), CallingIf("h", "f")>>),
   Test(2, <<Constant("a"), Applied("b", "f", "a"), WhileIf("f")>>),
   Test(2, <<Constant("a"), Applied("b", "f", "a"), CallingIf("f", "f")>>)}

\* put(a) / b = get(): put calls f, whose result it drops, and sets what get reads.
CallInBetween ==
  {Test(3, <<Constant("a"), Effect("put", "a"), Called("b", "get"), LogThenSet("f"), GetGlobal,
               EarlyReturn("f")>>)}
=============================================================================
