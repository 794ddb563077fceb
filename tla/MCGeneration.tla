----------------------------- MODULE MCGeneration -----------------------------
(* What tests are generated from, and what is asserted in them: four components,  *)
(* one of which is chosen at the start; the others do nothing.  "cluster" is the  *)
(* test cluster of a few modules, from its analysis to the search; "signatures"   *)
(* is a callable whose parameter types are guessed; "mutants" mutates a module;   *)
(* "assertions" generates assertions and removes those that no mutant violates.   *)
EXTENDS Mutants, TLC

CONSTANTS
  ClsTypes, ClsOrder, ClsWorlds, ClsObserved, ClsAsked, ClsMaxObservations,
  SigTypes, SigOrder, SigKinds, SigOriginal, SigUses, SigKnown, SigEdges, SigWithAttribute,
  SigNegate, SigKept, SigTupleSize, SigMaxUses, SigMaxExecutions,
  AsTests, AsRuns, AsMutants, AsMaxLength

VARIABLES
  component,
  running, proxies, uses, knowledge, guesses, signature, executions,
  world, phase, cWaiting, current, seenModules, work, seen, known, edges, attributes,
  reachIn, reachOut, cGenerators, modifiers, returns, accessible,
  answers, generatable, targets, uncovered, observations,
  aPhase, queue, assertions, recorded, filtered, results

S == INSTANCE Signatures WITH
       Types <- SigTypes, Order <- SigOrder, Kinds <- SigKinds, Original <- SigOriginal,
       Uses <- SigUses, Known <- SigKnown, Edges <- SigEdges, WithAttribute <- SigWithAttribute,
       Negate <- SigNegate, Kept <- SigKept, TupleSize <- SigTupleSize, MaxUses <- SigMaxUses,
       MaxExecutions <- SigMaxExecutions
C == INSTANCE TestCluster WITH
       Types <- ClsTypes, Order <- ClsOrder, Worlds <- ClsWorlds, Observed <- ClsObserved,
       Asked <- ClsAsked, MaxObservations <- ClsMaxObservations, waiting <- cWaiting, generators <- cGenerators
A == INSTANCE Assertions WITH
       Tests <- AsTests, Runs <- AsRuns, Mutants <- AsMutants, MaxLength <- AsMaxLength, phase <- aPhase

ASSUME OtherConstants == C!TypesType /\ C!WorldsType /\ C!CodesType /\ S!ConstantsType /\ A!ConstantsType

(* What the constants are given: the types, modules and tests themselves. *)
TS == INSTANCE TypeSystem WITH Types <- {}, Order <- << >>
AData == INSTANCE MCAssertions WITH
       Tests <- << >>, Runs <- << >>, Mutants <- << >>, MaxLength <- 0, phase <- aPhase

sVars == <<running, proxies, uses, knowledge, guesses, signature, executions>>
cVars == <<world, phase, cWaiting, current, seenModules, work, seen, known, edges, attributes,
           reachIn, reachOut, cGenerators, modifiers, returns, accessible,
           answers, generatable, targets, uncovered, observations>>
aVars == <<aPhase, queue, assertions, recorded, filtered, results>>
allVars == <<component, vars, cVars, sVars, aVars>>

\* class C: @d def m(self): (if a < b: x = 1); (while ..: x += 2); y = -z
MCKind == <<"Module", "FunctionDef", "If", "Lt", "Constant", "While", "AugAssign", "Add",
            "UnaryOp", "USub", "Name">>
MCLists == << <<<<2, 9>>>>, <<<<3, 6>>>>, <<<<4>>, <<5>>>>, <<>>, <<>>, <<<<7>>>>, <<<<8>>>>, <<>>,
              <<<<10>>, <<11>>>>, <<>>, <<>> >>
MCFacts == [n \in DOMAIN MCKind |-> CASE n = 2 -> {"overrides", "super", "long"}
                                      [] n = 5 -> {"number"} [] OTHER -> {}]
Deterministic == {"FIRST_ORDER_MUTANTS", "FIRST_TO_LAST", "BETWEEN_OPERATORS", "EACH_CHOICE"}

(* The types, modules and uses that the cluster and the signatures are given.     *)
Plain(c) == TS!Instance(c, <<>>)
ListOf(t) == TS!Instance("list", <<t>>)
TheSingles == <<Plain("A"), Plain("B"), TS!NoneT, Plain("int"), ListOf(Plain("A")), ListOf(TS!AnyType),
             ListOf(Plain("B")), ListOf(TS!UnionOf(<<Plain("A"), Plain("B")>>)), Plain("Numbers"),
             TS!Tuple(<<Plain("A")>>), TS!Tuple(<<Plain("B")>>), Plain("float"), Plain("object"), Plain("Secret"),
             TS!TupleOfAnySize>>
Joined == {Plain("A"), Plain("B"), TS!NoneT, Plain("int"), ListOf(Plain("A"))}
SortedUnion(types) == TS!UnionOf(SelectSeq(TheSingles, LAMBDA t : t \in types))
TheClasses == {TS!AnyType} \cup ToSet(TheSingles) \cup {SortedUnion(s) : s \in (SUBSET Joined \ {{}}) \cup {{t} : t \in ToSet(TheSingles)}}

Cls(module, bases, attrs, methods, code) ==
    [module |-> module, bases |-> bases, attributes |-> attrs, methods |-> methods,
     hints |-> {}, abstract |-> FALSE, skipped |-> FALSE, code |-> code]
Fun(module, type, code) ==
    [module |-> module, returns |-> type, hints |-> {}, hidden |-> FALSE, code |-> code]
Mod(classes, functions, includes) ==
    [classes |-> classes, functions |-> functions, includes |-> includes, hidden |-> FALSE]

Builtin == [object |-> Cls("builtins", <<>>, {"__lt__", "__eq__"}, {}, 0),
            int |-> Cls("builtins", <<"object">>, {"__lt__", "bits"}, {}, 0),
            bool |-> Cls("builtins", <<"int">>, {"bits"}, {}, 0),
            float |-> Cls("builtins", <<"object">>, {"__lt__", "hex"}, {}, 0),
            complex |-> Cls("builtins", <<"object">>, {"real"}, {}, 0),
            list |-> Cls("builtins", <<"object">>, {"__lt__", "append"}, {}, 0)]
Builtins == [Mod(<<"float", "object", "list", "bool", "complex", "int">>, <<>>, <<>>) EXCEPT !.hidden = TRUE]

\* The module under test has a class A, with a method that gives an A, and a class
\* B that is one of another module's classes, which includes the module under test;
\* a function's result is not annotated.  A's method contains code of its own.  Hints
\* name Numbers before it is analysed, and Path, which never is; a class derives from
\* Native, which is skipped.
Included ==
  [root |-> "sut",
   modules |-> [sut |-> Mod(<<"B", "A">>, <<"f">>, <<"lib", "hidden">>),
                lib |-> Mod(<<"Base", "A", "Wrapper", "Numbers">>, <<"g">>, <<"sut", "lib">>),
                hidden |-> [Mod(<<"Secret">>, <<>>, <<>>) EXCEPT !.hidden = TRUE],
                builtins |-> Builtins],
   classes |-> [A |-> [Cls("sut", <<"object">>, {"x", "size"}, {"get", "_own"}, 1)
                         EXCEPT !.hints = {"Numbers"}],
                B |-> Cls("sut", <<"Base", "A">>, {"x", "y", "size"}, {}, 2),
                Base |-> [Cls("lib", <<"Secret">>, {"size", "y"}, {}, 0) EXCEPT !.abstract = TRUE],
                Secret |-> Cls("hidden", <<"object">>, {"y", "__lt__"}, {}, 0),
                Native |-> [Cls("lib", <<"Secret">>, {"size"}, {}, 0) EXCEPT !.skipped = TRUE],
                Wrapper |-> [Cls("lib", <<"Native">>, {"x", "size"}, {}, 0) EXCEPT !.abstract = TRUE],
                Path |-> Cls("hidden", <<"Secret">>, {"x"}, {}, 0),
                Numbers |-> Cls("lib", <<"list">>, {"append"}, {}, 0)] @@ Builtin,
   callables |-> [f |-> [Fun("sut", TS!AnyType, 3) EXCEPT !.hints = {"Path"}], g |-> Fun("lib", ListOf(Plain("A")), 0),
                  get |-> Fun("sut", Plain("A"), 4),
                  _own |-> [Fun("sut", Plain("int"), 5) EXCEPT !.hidden = TRUE]],
   parents |-> <<0, 0, 0, 0, 0, 4>>,
   targets |-> [t1 |-> 1, t2 |-> 4, t3 |-> 6]]

TheWorlds == <<Included>>
TheObserved == {Plain("B"), TS!NoneT}
TheAsked == {Plain("A"), SortedUnion({ListOf(Plain("A")), TS!NoneT})}

-----------------------------------------------------------------------------
\* For Signatures: plain and list types of five classes, what the proxies of two
\* parameters can see, and of what kinds those are.
TheKnown == {"object", "int", "str", "list", "A"}
TheEdges == {<<"object", c>> : c \in TheKnown \ {"object"}}
TheAttributes == [append |-> {"list"}, __lt__ |-> {"int", "str", "list"},
                 __iter__ |-> {"str", "list"}, size |-> {"A"}]
TheKinds == [x |-> "plain", args |-> "*"]
TheOriginal == [x |-> TS!AnyType, args |-> TS!MakeInstance("int")]
Use(path, name, args) == [path |-> path, name |-> name, args |-> args]
TheUses == {Use(<<>>, "isinstance", <<"A">>), Use(<<>>, "__lt__", <<"int">>),
           Use(<<>>, "__lt__", <<"str">>), Use(<<>>, "append", <<>>),
           Use(<<"append">>, "__call__", <<"int">>),
           Use(<<>>, "__iter__", <<>>), Use(<<"__iter__">>, "size", <<>>)}

Items == <<TS!AnyType, TS!MakeInstance("int"), TS!MakeInstance("str"), TS!MakeInstance("A"),
           TS!MakeInstance("object")>>
ListTypes == [k \in DOMAIN Items |-> TS!Instance("list", <<Items[k]>>)]
TheOrder == Tail(Items) \o ListTypes \o <<TS!NoneT>>
TheTypes == {TS!AnyType} \cup ToSet(TheOrder)

TheTests == AData!MCTests
TheRuns == AData!MCRuns
TheMutants == AData!MCMutants

SignaturesIdle ==
  /\ running = "no" /\ proxies = << >> /\ uses = 0 /\ knowledge = << >> /\ guesses = << >>
  /\ signature = << >> /\ executions = 0

MutantsIdle == Init /\ strategy = "EACH_CHOICE"

ClusterIdle ==
  /\ world = 1 /\ phase = "idle" /\ cWaiting = << >> /\ current = "" /\ seenModules = {}
  /\ work = << >> /\ seen = {} /\ known = << >> /\ edges = {} /\ attributes = << >>
  /\ reachIn = << >> /\ reachOut = << >> /\ cGenerators = << >> /\ modifiers = << >>
  /\ returns = << >> /\ accessible = << >> /\ answers = << >> /\ generatable = {}
  /\ targets = << >> /\ uncovered = {} /\ observations = 0

AssertionsIdle ==
  /\ aPhase = "idle" /\ queue = << >> /\ assertions = << >> /\ recorded = << >>
  /\ filtered = << >> /\ results = << >>

MCInit ==
  \/ component = "mutants" /\ Init /\ ClusterIdle /\ SignaturesIdle /\ AssertionsIdle
  \/ component = "cluster" /\ MutantsIdle /\ C!Init /\ SignaturesIdle /\ AssertionsIdle
  \/ component = "signatures" /\ MutantsIdle /\ ClusterIdle /\ S!Init /\ AssertionsIdle
  \/ component = "assertions" /\ MutantsIdle /\ ClusterIdle /\ SignaturesIdle /\ A!Init

MutantsStep == component = "mutants" /\ Next /\ UNCHANGED <<component, cVars, sVars, aVars>>
ClusterStep == component = "cluster" /\ C!Next /\ UNCHANGED <<component, vars, sVars, aVars>>
SignaturesStep == component = "signatures" /\ S!Next /\ UNCHANGED <<component, vars, cVars, aVars>>
AssertionsStep == component = "assertions" /\ A!Next /\ UNCHANGED <<component, vars, cVars, sVars>>

MCSpec == MCInit /\ [][ClusterStep \/ SignaturesStep \/ MutantsStep \/ AssertionsStep]_allVars

\* What is known of the classes is what they are, subtypes are transitive, and the
\* weaker check of them is weaker, see there.
TypesAreRight == component = "cluster" => C!ClassesAreKnown /\ C!SubtypesAreLawful
\* What is cached for a type is what generates it now, see there.
AnswersAreCurrent == component = "cluster" => C!AnswersAreCurrent
\* An object is offered for every target that is uncovered, see there.
UncoveredIsOffered == component = "cluster" => C!UncoveredIsOffered
\* The last few guesses of a parameter's type are useful ones, see there.
GuessesAreUseful == component = "signatures" => S!GuessesAreUseful
\* Assertions hold: the last one about something is true at every statement, and what
\* is left after filtering is true in the second execution, see there.
AssertionsAreTrue ==
  component = "assertions" => A!LatestAssertionIsTrue /\ A!FilteredAssertionsHold
\* Those assertions stay that a mutant violates, see there.
RelevantAssertionsStay == [][component = "assertions" => A!RelevantAreKept]_allVars
===============================================================================
