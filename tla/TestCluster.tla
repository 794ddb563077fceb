----------------------------- MODULE TestCluster -----------------------------
(***************************************************************************)
(* The test cluster while tests are generated: the types of returned       *)
(* values are observed and change what an object generates, answers about  *)
(* generators are cached (ModuleTestCluster), and objects whose targets    *)
(* are all covered are no longer offered (FilteredModuleTestCluster).      *)
(***************************************************************************)
EXTENDS ModuleAnalysis

CONSTANTS
  Observed,         \* types of values that calls return
  Asked,            \* types that parameters have
  MaxObservations   \* bound: returned values that are observed

VARIABLES
  answers,          \* the cache of get_generators_for: type -> objects
  generatable,      \* the cache of get_all_generatable_types, {} when it is empty
  targets,          \* __accessible_to_targets: object -> its uncovered targets
  uncovered,        \* the archive's uncovered targets
  observations

cacheVars == <<answers, generatable>>
filterVars == <<targets, uncovered>>
vars == <<world, phase, loopVars, graphVars, indexVars, pushVars, cacheVars, filterVars, observations>>
analysisVars == <<world, phase, loopVars, graphVars, pushVars, modifiers, accessible>>
-----------------------------------------------------------------------------
(***************************************************************************)
(* Targets belong to code objects, which are nested in others; an object   *)
(* that is called has one, unless it is written in C.  What is called is   *)
(* instrumented: the filter cannot be built when a class inherits its      *)
(* __init__ from Python code that is not.                                  *)
(***************************************************************************)
CodeOf(a) == IF a[1] = "new" THEN Class(a[2]).code ELSE World.callables[a[2]].code

\* Of several objects that share a code object, the last is found: a class that
\* inherits its __init__ hides the class that defines it.
ByCode(code) ==
    {accessible[i] : i \in {i \in DOMAIN accessible :
                              /\ code # 0 /\ CodeOf(accessible[i]) = code
                              /\ \A j \in DOMAIN accessible : CodeOf(accessible[j]) = code => j <= i}}

\* A code object is registered after the one that contains it, 0 if there is none.
CodesType ==
    \A w \in DOMAIN Worlds :
       /\ Worlds[w].parents \in Seq(Nat)
       /\ \A code \in DOMAIN Worlds[w].parents : Worlds[w].parents[code] < code
       /\ \A t \in DOMAIN Worlds[w].targets : Worlds[w].targets[t] \in DOMAIN Worlds[w].parents

Codes == 0 .. Len(World.parents)

Innermost[code \in Codes] ==
    IF code = 0 THEN {} ELSE IF ByCode(code) # {} THEN ByCode(code)
    ELSE Innermost[World.parents[code]]

AccessibleOf(target) == Innermost[World.targets[target]]

\* The filter is set up when the search begins.
BeginSearch ==
  /\ Analysed
  /\ uncovered' = DOMAIN World.targets
  /\ targets' = [a \in UNION {ByCode(code) : code \in DOMAIN World.parents} |->
                   {t \in DOMAIN World.targets : a \in AccessibleOf(t)}]
  /\ UNCHANGED cacheVars /\ UNCHANGED observations

\* Slip: an object goes with the first of its targets.
CoverDropsObject(target) ==
  /\ phase = "search" /\ target \in uncovered
  /\ uncovered' = uncovered \ {target}
  /\ targets' = [a \in DOMAIN targets \ AccessibleOf(target) |-> targets[a]]
  /\ UNCHANGED <<analysisVars, generators, returns, observations>> /\ UNCHANGED cacheVars

Cover(target) ==
  /\ phase = "search" /\ target \in uncovered
  /\ uncovered' = uncovered \ {target}
  /\ targets' = [a \in DOMAIN targets \ {a \in AccessibleOf(target) : targets[a] = {target}} |->
                   targets[a] \ (IF a \in AccessibleOf(target) THEN {target} ELSE {})]
  /\ UNCHANGED <<analysisVars, generators, returns, observations>> /\ UNCHANGED cacheVars

\* What may be called next: everything, when nothing is left.
OfferedForCalls == IF DOMAIN targets = {} THEN ToSet(accessible) ELSE DOMAIN targets
-----------------------------------------------------------------------------
(***************************************************************************)
(* Return types.                                                           *)
(***************************************************************************)
Without(index, a, t) ==
    LET left == IF t \in DOMAIN index THEN index[t] \ {a} ELSE {}
    IN  [k \in {k \in DOMAIN index : k # t \/ left # {}} |-> IF k = t THEN left ELSE index[k]]

\* What a call may return; a constructor makes an instance of its class.
Returned(a) == IF a[1] = "new" THEN {MakeInstance(a[2])} ELSE Observed

\* Slip: the answers given so far stay in the cache.
UpdateReturnTypeKeepsAnswers(a, observed) ==
  LET new == AddOrMakeUnion(returns[a], observed)
  IN  /\ phase = "search" /\ observations < MaxObservations /\ a \in DOMAIN returns
      /\ observations' = observations + 1
      /\ IF new = returns[a] THEN UNCHANGED <<generators, returns, cacheVars>>
         ELSE /\ generators' = Extended(Without(generators, a, returns[a]), new, {a})
              /\ returns' = [returns EXCEPT ![a] = new]
              /\ generatable' = {} /\ UNCHANGED answers
      /\ UNCHANGED analysisVars /\ UNCHANGED filterVars

UpdateReturnType(a, observed) ==
  LET new == AddOrMakeUnion(returns[a], observed)
  IN  /\ phase = "search" /\ observations < MaxObservations /\ a \in DOMAIN returns
      /\ observations' = observations + 1
      /\ IF new = returns[a] THEN UNCHANGED <<generators, returns, cacheVars>>
         ELSE /\ generators' = Extended(Without(generators, a, returns[a]), new, {a})
              /\ returns' = [returns EXCEPT ![a] = new]
              /\ answers' = <<>> /\ generatable' = {}
      /\ UNCHANGED analysisVars /\ UNCHANGED filterVars
-----------------------------------------------------------------------------
(***************************************************************************)
(* Questions.                                                              *)
(***************************************************************************)
GeneratorsFor(t) ==
    UNION {generators[g] : g \in {g \in DOMAIN generators : t = AnyType \/ IsMaybeSubtype(edges, g, t)}}

GetGeneratorsFor(t) ==
  /\ phase = "search" /\ t \notin DOMAIN answers
  /\ answers' = With(answers, t, GeneratorsFor(t))
  /\ UNCHANGED <<analysisVars, generators, returns, generatable, observations>> /\ UNCHANGED filterVars

Primitives == {t \in Types : t.kind = "instance" /\ t.class \in PrimitiveClasses}
Collections == {t \in Types : IsCollection(t)}

GetAllGeneratableTypes ==
  /\ phase = "search" /\ generatable = {}
  /\ generatable' = DOMAIN generators \cup Primitives \cup Collections
  /\ UNCHANGED <<analysisVars, generators, returns, answers, observations>> /\ UNCHANGED filterVars

\* Any becomes some type that can be generated, a union one of its own.
ConcreteTypes(t) ==
    LET From[types \in SUBSET Types] ==
          LET more == types \cup UNION {ToSet(u.items) : u \in {u \in types : u.kind = "union"}}
          IN  IF more = types THEN types ELSE From[more]
    IN  {u \in From[IF t = AnyType THEN generatable ELSE {t}] : u.kind # "union"}

\* Methods of a class serve its subclasses.
ModifiersFor(t) ==
    CASE t.kind = "any" -> UNION {modifiers[c] : c \in DOMAIN modifiers}
      [] t.kind = "instance" ->
           UNION {modifiers[c] : c \in Superclasses(edges, t.class) \cap DOMAIN modifiers}
      [] t.kind = "union" ->
           UNION {modifiers[c] : c \in DOMAIN modifiers \cap
                    UNION {Superclasses(edges, i.class) : i \in {i \in ToSet(t.items) : i.kind = "instance"}}}
      [] OTHER -> {}
-----------------------------------------------------------------------------
Init ==
  /\ AnalysisInit
  /\ answers = <<>> /\ generatable = {} /\ targets = <<>> /\ uncovered = {} /\ observations = 0

Next ==
  \/ Analyse /\ phase' # "search" /\ UNCHANGED <<cacheVars, filterVars, observations>>
  \/ BeginSearch
  \/ \E t \in uncovered : Cover(t)
  \/ \E a \in DOMAIN returns : \E t \in Returned(a) : UpdateReturnType(a, t)
  \/ \E t \in Asked : GetGeneratorsFor(t)
  \/ GetAllGeneratableTypes

Spec == Init /\ [][Next]_vars
-----------------------------------------------------------------------------
(***************************************************************************)
(* Properties.                                                             *)
(***************************************************************************)
\* What a cached answer offers for a type is what generates it now, and may be
\* of that type: types are observed, and answers given, in any order.
AnswersAreCurrent ==
    /\ \A t \in DOMAIN answers : answers[t] =
         {a \in DOMAIN returns : /\ \E g \in DOMAIN generators : a \in generators[g]
                                 /\ t = AnyType \/ IsMaybeSubtype(edges, returns[a], t)}
    /\ generatable # {} => \A t \in generatable \ (Primitives \cup Collections) :
                             \E a \in DOMAIN returns : returns[a] = t

\* "This cluster filters out accessible objects under test that are already fully
\* covered, in order to focus the search on areas that are not yet fully covered."
\* (the comment of the class): whatever is uncovered, an object is offered whose
\* code contains it, if there is any.
Around[code \in Codes] == IF code = 0 THEN {} ELSE {code} \cup Around[World.parents[code]]
Enclosing(target) == Around[World.targets[target]]

UncoveredIsOffered ==
    phase = "search" =>
       \A t \in uncovered :
          (\E a \in ToSet(accessible) : CodeOf(a) \in Enclosing(t)) =>
             \E a \in OfferedForCalls : CodeOf(a) \in Enclosing(t)

\* When the search begins: a type is a subtype of itself and of what its supertypes
\* are subtypes of (as far as Any is not part of it), and the weaker check accepts
\* all that the stronger one accepts.
SubtypesAreLawful ==
    (phase = "search" /\ observations = 0 /\ cacheVars = <<<<>>, {}>> /\ uncovered = DOMAIN World.targets) =>
      LET above == [t \in Types |-> {u \in Types : IsSubtype(edges, t, u)}]
          definite == MadeOf(TypeKinds \ {"any"})
      IN  \A t \in Types :
             /\ t \in above[t]
             /\ \A u \in above[t] : IsMaybeSubtype(edges, t, u)
             /\ t \in definite => \A u \in above[t] \cap definite : above[u] \cap definite \subseteq above[t]
=============================================================================
