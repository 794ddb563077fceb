---------------------------- MODULE ModuleAnalysis ----------------------------
(***************************************************************************)
(* How a test cluster is built (analyses/module.py): the builtins, then    *)
(* the module under test and all modules it includes are searched for      *)
(* classes and functions, bases of classes included.  At the end the       *)
(* attributes of classes are pushed down the hierarchy                     *)
(* (TypeSystem.push_attributes_down).                                      *)
(*                                                                         *)
(* A world is the code that is there: modules with their classes,          *)
(* functions and included modules; classes with their module, bases,       *)
(* attributes and methods; functions and methods with what their hints say *)
(* they return; and the classes that the hints of each, or of the __init__ *)
(* of a class, name.  Private ones, and modules on the blacklist, are      *)
(* marked hidden; classes whose module cannot be read are skipped.         *)
(***************************************************************************)
EXTENDS TypeSystem

CONSTANT Worlds      \* a sequence

VARIABLES
  world,        \* the index of the world
  phase,        \* "builtins", "modules", "push" or "search"
  waiting,      \* wait_list: modules to be analysed
  current,      \* the module at hand
  seenModules,
  work,         \* work_list: classes of the module to be analysed, or to be pushed down
  seen,         \* seen_classes
  known,        \* all types, in the order they were met
  edges,        \* the subclass graph: pairs <<super, sub>>
  attributes,   \* the attributes of each known class
  reachIn, reachOut,
  generators,   \* type -> accessible objects that generate it
  modifiers,    \* class -> its methods
  returns,      \* accessible object -> the type it generates
  accessible    \* accessible_objects_under_test: a sequence

graphVars == <<known, edges, attributes>>
loopVars == <<waiting, current, seenModules, work, seen>>
indexVars == <<generators, modifiers, returns, accessible>>
pushVars == <<reachIn, reachOut>>

World == Worlds[world]
Class(c) == World.classes[c]
Numbers == {"bool", "int", "float", "complex"}
Tower == {<<"int", "bool">>, <<"float", "int">>, <<"complex", "float">>}

\* The real hierarchy: the bases of a class, and theirs; numbers form a tower.
HierarchyOf(classes) ==
    Tower \cup {e \in (DOMAIN classes) \X (DOMAIN classes) : e[1] \in ToSet(classes[e[2]].bases)}
RealSuperclasses(c) == Superclasses(HierarchyOf(World.classes), c)

\* All names lead somewhere, and no class is above itself; numbers and built-in
\* collections are what they are in Python.
WorldsType ==
    \A w \in DOMAIN Worlds :
       LET modules == Worlds[w].modules
           classes == Worlds[w].classes
           callables == Worlds[w].callables
       IN  /\ {Worlds[w].root, "builtins"} \subseteq DOMAIN modules
           /\ \A m \in DOMAIN modules :
                /\ modules[m].classes \in Seq(DOMAIN classes)
                /\ modules[m].functions \in Seq(DOMAIN callables)
                /\ modules[m].includes \in Seq(DOMAIN modules)
           /\ \A c \in DOMAIN classes :
                /\ classes[c].bases \in Seq(DOMAIN classes)
                /\ classes[c].methods \subseteq DOMAIN callables /\ IsFiniteSet(classes[c].methods)
                /\ classes[c].hints \subseteq DOMAIN classes
                /\ c \in Generics => ToSet(classes[c].bases) \subseteq {"object"}
                /\ c = "object" => classes[c].bases = <<>>
           /\ \A f \in DOMAIN callables : callables[f].hints \subseteq DOMAIN classes
           /\ IsFiniteSet(DOMAIN classes) /\ Numbers \subseteq ToSet(modules["builtins"].classes)
           /\ LET real == HierarchyOf(classes)
              IN  \A e \in real : e[2] \notin Superclasses(real, e[1])

\* The accessible objects: the constructor of a class, a function or a method.
Constructor(c) == <<"new", c>>
Callable(f) == <<"call", f>>

Extended(function, key, values) ==
    [k \in DOMAIN function \cup {key} |->
       (IF k = key THEN values ELSE {}) \cup (IF k \in DOMAIN function THEN function[k] ELSE {})]

With(function, key, value) == [k \in DOMAIN function \cup {key} |-> IF k = key THEN value ELSE function[k]]

\* Types that are generated without a call have no generators.
AddGenerators(index, objects, types) ==
    LET added == {a \in objects : ~(types[a] = NoneT \/ IsPrimitive(types[a]))}
    IN  [t \in DOMAIN index \cup {types[a] : a \in added} |->
           (IF t \in DOMAIN index THEN index[t] ELSE {}) \cup {a \in added : types[a] = t}]
-----------------------------------------------------------------------------
\* Of a module on the blacklist, the builtins, only the primitives and collections.
Visible(c) ==
    ~World.modules[Class(c).module].hidden \/ c \in Generics \cup {"tuple"} \cup PrimitiveClasses
ClassesOf(module) == Among(World.modules[module].classes, {c \in DOMAIN World.classes : Visible(c)})

AnalysisInit ==
  /\ world \in DOMAIN Worlds
  /\ phase = "builtins" /\ waiting = <<World.root>> /\ current = "builtins" /\ seenModules = {}
  /\ work = ClassesOf("builtins") /\ seen = {}
  /\ known = <<>> /\ edges = {} /\ attributes = <<>>
  /\ reachIn = <<>> /\ reachOut = <<>>
  /\ generators = <<>> /\ modifiers = <<>> /\ returns = <<>> /\ accessible = <<>>

\* What is generated: not by abstract classes, and not of builtin types.
Constructs(c) ==
    /\ ~Class(c).skipped /\ ~Class(c).abstract
    /\ c \notin Generics \cup {"tuple"} \cup PrimitiveClasses

\* The public functions of a module, or the public methods that a class defines itself.
Offered(names) == {f \in names : ~World.callables[f].hidden}

\* What is read of a class: nothing of one that is skipped, no signatures of tuple.
BasesOf(c) == IF Class(c).skipped THEN <<>> ELSE Class(c).bases
AttributesOf(c) == IF Class(c).skipped THEN {} ELSE Class(c).attributes
MethodsOf(c) == IF Class(c).skipped \/ c = "tuple" THEN {} ELSE Offered(Class(c).methods)
Named(functions) == UNION {World.callables[f].hints : f \in functions}
NamedBy(c) ==
    IF Class(c).skipped \/ c = "tuple" THEN {} ELSE Class(c).hints \cup Named(MethodsOf(c))

\* Slip: the bases of a class are linked and not analysed.
AfterwardsWithoutBases(c) == Tail(work)
Afterwards(c) == Tail(work) \o BasesOf(c)

\* to_type_info: classes are known from then on, and linked to none.  The order in
\* which the hints of a signature name them is left to SetToSeq.
Met(before, classes) == before \o Among(classes, DOMAIN World.classes \ ToSet(before))
StillKnown(types) == [t \in types |-> IF t \in DOMAIN attributes THEN attributes[t] ELSE {}]

AnalyseClass ==
  /\ phase \in {"builtins", "modules"} /\ work # <<>>
  /\ LET c == Head(work)
         methods == {Callable(f) : f \in MethodsOf(c)}
         new == IF Constructs(c) THEN {Constructor(c)} ELSE {}
         typed == [a \in methods \cup {Constructor(c)} |->
                     IF a = Constructor(c) THEN MakeInstance(c) ELSE World.callables[a[2]].returns]
     IN  IF c \in seen THEN work' = Tail(work) /\ UNCHANGED <<seen, graphVars, indexVars>>
         ELSE /\ work' = Afterwards(c)
              /\ seen' = seen \cup {c}
              /\ known' = Met(Met(Met(known, <<c>>), SetToSeq(NamedBy(c))), BasesOf(c))
              /\ edges' = edges \cup {<<b, c>> : b \in ToSet(BasesOf(c))}
              /\ attributes' = [StillKnown(ToSet(known')) EXCEPT ![c] = AttributesOf(c)]
              /\ returns' = [a \in DOMAIN returns \cup new \cup methods |->
                               IF a \in DOMAIN returns THEN returns[a] ELSE typed[a]]
              /\ generators' = AddGenerators(generators, new \cup methods, typed)
              /\ modifiers' = IF methods = {} THEN modifiers ELSE Extended(modifiers, c, methods)
              /\ accessible' = IF Class(c).module = World.root
                               THEN accessible \o SetToSeq(new) \o SetToSeq(methods) ELSE accessible
  /\ UNCHANGED <<world, phase, waiting, current, seenModules>> /\ UNCHANGED pushVars

\* int <: float <: complex, once the builtins are known.
EnableNumericTower ==
  /\ phase = "builtins" /\ work = <<>>
  /\ phase' = "modules" /\ current' = ""
  /\ known' = known \o Among(<<"bool", "int", "float", "complex">>, Numbers \ ToSet(known))
  /\ attributes' = StillKnown(ToSet(known'))
  /\ edges' = edges \cup Tower
  /\ UNCHANGED <<world, waiting, seenModules, work, seen>> /\ UNCHANGED indexVars /\ UNCHANGED pushVars

NextModule ==
  /\ phase = "modules" /\ work = <<>> /\ current = "" /\ waiting # <<>>
  /\ waiting' = Tail(waiting)
  /\ IF Head(waiting) \in seenModules \/ World.modules[Head(waiting)].hidden
     THEN UNCHANGED <<current, work>>
     ELSE current' = Head(waiting) /\ work' = ClassesOf(Head(waiting))
  /\ UNCHANGED <<world, phase, seenModules, seen>>
  /\ UNCHANGED graphVars /\ UNCHANGED indexVars /\ UNCHANGED pushVars

\* The functions of a module, and the modules it includes, after its classes.
AnalyseFunctions ==
  /\ phase = "modules" /\ work = <<>> /\ current # ""
  /\ LET functions == {Callable(f) : f \in Offered(ToSet(World.modules[current].functions))}
         fresh == functions \ DOMAIN returns
         typed == [a \in functions |-> World.callables[a[2]].returns]
     IN  /\ returns' = [a \in DOMAIN returns \cup fresh |->
                          IF a \in DOMAIN returns THEN returns[a] ELSE typed[a]]
         /\ generators' = AddGenerators(generators, fresh, typed)
         /\ accessible' = accessible
              \o SetToSeq({a \in fresh : World.callables[a[2]].module = World.root})
         /\ known' = Met(known, SetToSeq(Named({a[2] : a \in fresh})))
         /\ attributes' = StillKnown(ToSet(known'))
  /\ waiting' = waiting \o World.modules[current].includes
  /\ seenModules' = seenModules \cup {current} /\ current' = ""
  /\ UNCHANGED <<world, phase, work, seen, edges, modifiers>> /\ UNCHANGED pushVars
-----------------------------------------------------------------------------
(***************************************************************************)
(* Attributes go down the hierarchy, so that only the topmost classes that *)
(* define one have it.  A comparison by object is a stub.                  *)
(***************************************************************************)
Stubs == {"__lt__", "__le__", "__gt__", "__ge__"}

BeginPush ==
  /\ phase = "modules" /\ work = <<>> /\ current = "" /\ waiting = <<>>
  /\ phase' = "push" /\ work' = known
  /\ attributes' = [attributes EXCEPT !["object"] = @ \ Stubs]
  /\ reachIn' = [c \in ToSet(known) |-> {}] /\ reachOut' = [c \in ToSet(known) |-> {}]
  /\ UNCHANGED <<world, waiting, current, seenModules, seen, known, edges>> /\ UNCHANGED indexVars

PushDown ==
  /\ phase = "push" /\ work # <<>>
  /\ LET c == Last(work)
         arrives == reachIn[c] \cup UNION {reachOut[p] : p \in {p \in ToSet(known) : <<p, c>> \in edges}}
     IN  /\ reachIn' = [reachIn EXCEPT ![c] = arrives]
         /\ attributes' = [attributes EXCEPT ![c] = @ \ arrives]
         /\ reachOut' = [reachOut EXCEPT ![c] = arrives \cup attributes'[c]]
         /\ work' = Front(work) \o (IF reachOut'[c] = reachOut[c] THEN <<>>
                                    ELSE Among(known, {s \in ToSet(known) : <<c, s>> \in edges}))
  /\ UNCHANGED <<world, phase, waiting, current, seenModules, seen, known, edges>> /\ UNCHANGED indexVars

Analysed ==
  /\ phase = "push" /\ work = <<>> /\ phase' = "search"
  /\ UNCHANGED <<world, loopVars>> /\ UNCHANGED graphVars /\ UNCHANGED indexVars /\ UNCHANGED pushVars

Analyse ==
  \/ AnalyseClass \/ EnableNumericTower \/ NextModule \/ AnalyseFunctions
  \/ BeginPush \/ PushDown \/ Analysed

FindByAttribute(a) == {c \in ToSet(known) : a \in attributes[c]}
-----------------------------------------------------------------------------
(***************************************************************************)
(* Properties, of the cluster that has been built.                         *)
(***************************************************************************)
\* Classes that were analysed, with all above them.
AreRead == {c \in seen : \A s \in RealSuperclasses(c) : ~Class(s).skipped}

\* The classes that were analysed are linked as they really are, unless one above
\* was skipped; those that are only named in hints stand alone, whatever they derive
\* from, and none has a superclass that it does not really have.  Types of arguments
\* are looked up in this graph.
HierarchyIsKnown ==
    phase \in {"push", "search"} =>
       /\ \A c \in AreRead : Superclasses(edges, c) = RealSuperclasses(c)
       /\ \A c \in ToSet(known) \ seen : Superclasses(edges, c) = {c}
       /\ \A c \in seen : Superclasses(edges, c) \subseteq RealSuperclasses(c)

\* An attribute leads to the topmost classes that define it, to all of them that
\* were analysed, and to none that is only named: guesses of parameter types start
\* from these.
AttributesLeadToTheTop ==
    phase = "search" =>
       /\ \A c \in AreRead : \A a \in Class(c).attributes \ (IF c = "object" THEN Stubs ELSE {}) :
            (c \in FindByAttribute(a)) <=>
               ~\E s \in RealSuperclasses(c) \ {c} :
                  a \in Class(s).attributes \ (IF s = "object" THEN Stubs ELSE {})
       /\ \A c \in ToSet(known) \ seen : attributes[c] = {}

\* What was analysed of the classes is known as it is.
ClassesAreKnown == HierarchyIsKnown /\ AttributesLeadToTheTop
=============================================================================
