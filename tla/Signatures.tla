----------------------------- MODULE Signatures -----------------------------
(***************************************************************************)
(* How types of parameters are learned (utils/typetracing.py,              *)
(* InferredSignature in analyses/typesystem.py, and                        *)
(* TypeTracingTestCaseExecutor in testcase/execution.py).  A test that     *)
(* does not time out runs once more, with every argument in a proxy that   *)
(* records what the called code does with it.  What was recorded is merged *)
(* into the knowledge about the parameter; guesses are made from it when a *)
(* signature is asked for.                                                 *)
(*                                                                         *)
(* A trace is the tree that a proxy and those of its attributes and items  *)
(* record, by paths of names.                                              *)
(***************************************************************************)
EXTENDS TypeSystem

CONSTANTS
  Kinds,           \* parameter -> "plain", "*" or "**"
  Original,        \* parameter -> its annotation, AnyType if there is none
  Uses,            \* what called code does with a value: see UseProxy
  Known,           \* all classes
  Edges,           \* the subclass graph
  WithAttribute,   \* attribute -> the topmost classes that have it
  Negate,          \* may a guess be negated? (negate_type > 0)
  Kept,            \* type_tracing_kept_guesses
  TupleSize,       \* bound (collection_size): the items of a guessed tuple
  MaxUses,         \* bound: uses of proxies in an execution
  MaxExecutions    \* bound: executed tests

ConstantsType == Kept \in Nat \ {0} /\ TupleSize \in Nat

VARIABLES
  running,         \* "no", "plain" or "proxied"
  proxies,         \* parameter -> what its proxy has recorded in this execution
  uses,
  knowledge,       \* usage_trace: parameter -> a trace
  guesses,         \* current_guessed_parameters: parameter -> a sequence of types
  signature,       \* the parameter types that were given last
  executions

vars == <<running, proxies, uses, knowledge, guesses, signature, executions>>

Names == DOMAIN Kinds
MaxNesting == 5
Untouched == [accessed |-> {}, checks |-> {}, args |-> <<>>]

Children(trace, path) == {Last(p) : p \in {p \in trace.accessed : p # <<>> /\ Front(p) = path}}
ArgTypes(trace, path, position) ==
    IF <<path, position>> \in DOMAIN trace.args THEN trace.args[<<path, position>>] ELSE {}
-----------------------------------------------------------------------------
(***************************************************************************)
(* Proxies.  A proxy gives a proxy for what it is asked for, unless it is  *)
(* nested too deep; comparisons and the like record the types of their     *)
(* arguments, unless one is a proxy itself (use.args = <<>>).  An          *)
(* isinstance check (use.name = "isinstance") records the class.           *)
(***************************************************************************)
Recorded(trace, use) ==
    LET at == Append(use.path, use.name)
    IN  IF use.name = "isinstance" THEN [trace EXCEPT !.checks = @ \cup {<<use.path, use.args[1]>>}]
        ELSE [trace EXCEPT !.accessed = @ \cup {at},
                !.args = [k \in DOMAIN @ \cup {<<at, n>> : n \in DOMAIN use.args} |->
                            ArgTypes(trace, k[1], k[2])
                              \cup (IF k[1] = at /\ k[2] \in DOMAIN use.args THEN {use.args[k[2]]} ELSE {})]]

IsProxy(trace, path) == path = <<>> \/ (path \in trace.accessed /\ Len(path) <= MaxNesting)

\* The types of an argument replace those that were known.
Merge(mine, other) ==
    [accessed |-> mine.accessed \cup other.accessed, checks |-> mine.checks \cup other.checks,
     args |-> [k \in DOMAIN mine.args \cup DOMAIN other.args |->
                 IF k \in DOMAIN other.args THEN other.args[k] ELSE mine.args[k]]]

ExecutePlain ==
  /\ running = "no" /\ executions < MaxExecutions
  /\ executions' = executions + 1
  /\ running' \in {"no", "plain"}      \* it times out, or not
  /\ UNCHANGED <<proxies, uses, knowledge, guesses, signature>>

BeginProxied ==
  /\ running = "plain" /\ running' = "proxied"
  /\ proxies' = [n \in Names |-> Untouched] /\ uses' = 0
  /\ UNCHANGED <<knowledge, guesses, signature, executions>>

UseProxy(name, use) ==
  /\ running = "proxied" /\ uses < MaxUses /\ IsProxy(proxies[name], use.path)
  /\ proxies' = [proxies EXCEPT ![name] = Recorded(@, use)] /\ uses' = uses + 1
  /\ UNCHANGED <<running, knowledge, guesses, signature, executions>>

\* What a thread that is killed has recorded is dropped.
EndProxied(timeout) ==
  /\ running = "proxied" /\ running' = "no"
  /\ knowledge' = IF timeout THEN knowledge ELSE [n \in Names |-> Merge(knowledge[n], proxies[n])]
  /\ proxies' = [n \in Names |-> Untouched] /\ uses' = 0
  /\ UNCHANGED <<guesses, signature, executions>>
-----------------------------------------------------------------------------
(***************************************************************************)
(* Guesses: all that may come out of one.  Nothing stands for None, no     *)
(* educated guess.                                                         *)
(***************************************************************************)
Nothing == [kind |-> "nothing"]

ChooseOrNegate(classes) ==
    IF classes = {} THEN {Nothing}
    ELSE {MakeInstance(c) :
            c \in classes \cup (IF Negate THEN TypesOutsideOf(Known, Edges, classes) ELSE {})}

OneOf(classes) == UNION {ChooseOrNegate({c}) : c \in classes}

ArgumentAttributes == {"__eq__", "__ne__", "__lt__", "__le__", "__gt__", "__ge__", "__add__", "__radd__",
    "__sub__", "__rsub__", "__truediv__", "__rtruediv__", "__floordiv__", "__rfloordiv__"}

FromTypeCheck(trace, path) == OneOf({c[2] : c \in {c \in trace.checks : c[1] = path}})
FromAttributes(trace, path) ==
    UNION {ChooseOrNegate(IF a \in DOMAIN WithAttribute THEN WithAttribute[a] ELSE {})
             \cup (IF a \in ArgumentAttributes THEN OneOf(ArgTypes(trace, Append(path, a), 1)) ELSE {})
           : a \in Children(trace, path)}

\* Parameters of generics come from what items, and arguments of methods, are.
\* The node below a path to a method's call is asked for a call again.
ItemSources == [list |-> {"__iter__", "__getitem__"}, set |-> {"__iter__"}, dictKey |-> {"__iter__"},
                dictValue |-> {"__getitem__"}, tuple |-> {"__iter__", "__getitem__"}]
ArgumentSources == [list |-> {"__contains__", "__delitem__"}, set |-> {"__contains__", "__delitem__"},
                    dictKey |-> {"__contains__", "__delitem__", "__getitem__", "__setitem__"},
                    dictValue |-> {"__setitem__"}, tuple |-> {"__contains__"}]
MethodSources == [list |-> {"append", "remove"}, set |-> {"add", "remove", "discard"},
                  dictKey |-> {}, dictValue |-> {}, tuple |-> {}]

\* items: what is guessed from the nodes one level further down.
Arguments(trace, path, source, position, items) ==
    {AnyType}
      \cup UNION {items[Append(path, a)] : a \in ItemSources[source] \cap Children(trace, path)}
      \cup UNION {OneOf(ArgTypes(trace, Append(path, a), position)) :
                    a \in ArgumentSources[source] \cap Children(trace, path)}
      \cup UNION {OneOf(ArgTypes(trace, path \o <<m, "__call__", "__call__">>, 1)) :
                    m \in {m \in MethodSources[source] : path \o <<m, "__call__">> \in trace.accessed}}

Refined(trace, path, t, items) ==
    LET OrAny(source, position) ==
          {IF u = Nothing THEN AnyType ELSE u : u \in Arguments(trace, path, source, position, items)}
    IN  CASE t.kind = "tuple" ->
               UNION {{Tuple(args) : args \in [1..n -> OrAny("tuple", 1)]} : n \in 1..TupleSize}
          [] t.kind = "instance" /\ t.class \in {"list", "set"} ->
               {Instance(t.class, <<item>>) : item \in OrAny(t.class, 1)}
          [] t.kind = "instance" /\ t.class = "dict" ->
               {Instance("dict", p) : p \in OrAny("dictKey", 1) \X OrAny("dictValue", 2)}
          [] OTHER -> {t}

\* A guess is refined by guesses about items, and those are; not what is further down.
GuessedAt(trace, path) == FromTypeCheck(trace, path) \cup FromAttributes(trace, path)
OrNothing(types) == IF types = {} THEN {Nothing} ELSE types
Nodes(trace) == trace.accessed \cup {<<>>}

GuessedFrom(trace, start) ==
    LET further == [path \in Nodes(trace) |-> OrNothing(GuessedAt(trace, path))]
        ofItems == [path \in Nodes(trace) |->
                      OrNothing(UNION {Refined(trace, path, t, further) : t \in GuessedAt(trace, path)})]
    IN  OrNothing(UNION {Refined(trace, start, t, ofItems) : t \in GuessedAt(trace, start)})

\* *args is a list and **kwargs a dict: guesses are about what is in them.
Guesses(name, trace) ==
    LET within(a) == IF <<a>> \in trace.accessed THEN GuessedFrom(trace, <<a>>) ELSE {Nothing}
    IN  CASE Kinds[name] = "*" -> within("__iter__")
          [] Kinds[name] = "**" -> within("__getitem__")
          [] OTHER -> GuessedFrom(trace, <<>>)

\* Slip: a guess that was made before is kept a second time.
UpdateGuessTwice(kept, guess) ==
    IF guess = Nothing THEN kept ELSE Append(IF Len(kept) >= Kept THEN Tail(kept) ELSE kept, guess)

UpdateGuess(kept, guess) ==
    IF guess = Nothing \/ guess \in ToSet(kept) THEN kept
    ELSE Append(IF Len(kept) >= Kept THEN Tail(kept) ELSE kept, guess)

TypesToChoose(name, kept) ==
    LET plain == {NoneT, AnyType, Original[name]} \cup (IF kept = <<>> THEN {} ELSE {Sorted(ToSet(kept))})
    IN  plain \cup {WrapVarParam(t, Kinds[name]) : t \in plain}

GetParameterTypes ==
  /\ running = "no"
  /\ \E guess \in [Names -> UNION {Guesses(n, knowledge[n]) : n \in Names}] :
       /\ \A n \in Names : guess[n] \in Guesses(n, knowledge[n])
       /\ guesses' = [n \in Names |-> UpdateGuess(guesses[n], guess[n])]
  /\ \E n \in Names : \E t \in TypesToChoose(n, guesses'[n]) : signature' = <<n, t>>
  /\ UNCHANGED <<running, proxies, uses, knowledge, executions>>
-----------------------------------------------------------------------------
Init ==
  /\ running = "no" /\ uses = 0 /\ executions = 0 /\ signature = <<>>
  /\ proxies = [n \in Names |-> Untouched]
  /\ knowledge = [n \in Names |-> Untouched]
  /\ guesses = [n \in Names |-> <<>>]

Next ==
  \/ ExecutePlain \/ BeginProxied
  \/ \E n \in Names, u \in Uses : UseProxy(n, u)
  \/ \E timeout \in BOOLEAN : EndProxied(timeout)
  \/ GetParameterTypes

Spec == Init /\ [][Next]_vars
-----------------------------------------------------------------------------
(***************************************************************************)
(* Properties.                                                             *)
(***************************************************************************)
\* The last few guesses are kept, each once, and "Guessing will never result in
\* Any, as that is not a useful guess." (the comment on current_guessed_parameters),
\* however tests are executed and signatures asked for.
GuessesAreUseful ==
    \A n \in Names :
       /\ Len(guesses[n]) <= Kept
       /\ IsInjective(guesses[n])
       /\ \A k \in DOMAIN guesses[n] : guesses[n][k].kind \in {"none", "tuple", "instance"}
=============================================================================
