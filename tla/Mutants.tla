------------------------------- MODULE Mutants -------------------------------
(***************************************************************************)
(* Mutants of the module under test (assertion/mutation_analysis).  The    *)
(* module's syntax tree is changed in place, by generators that yield it   *)
(* mutated and put the original node back when they are resumed; mutants   *)
(* of higher order have several such generators at work at once.           *)
(*                                                                         *)
(* Children of a node are in lists (a field that holds one node is a list  *)
(* of one); a mutation replaces one element of a list.                     *)
(***************************************************************************)
EXTENDS Integers, Sequences, FiniteSets, SequencesExt

CONSTANTS
  Kind,        \* the classes of the nodes, which are numbered as visitors meet them
  Lists,       \* node -> the sequence of its lists
  Facts,       \* node -> what else mutation operators look at
  Strategies,  \* the mutation strategies
  Order        \* mutation_order

VARIABLES
  strategy,
  pass,        \* "count", "create" or "done"
  tree,        \* node -> its lists, as they are now
  left,        \* mutations that no mutant has had yet
  usage,       \* between operators: mutation -> how many mutants have had it
  waiting,     \* the mutations of this mutant that are to be applied
  generators,  \* those that have been: <<[mutation, path]>>
  yielded,     \* is the mutant being used?
  count,       \* mutant_count()
  created      \* mutants that have been yielded to create_mutants

vars == <<strategy, pass, tree, left, usage, waiting, generators, yielded, count, created>>

Nodes == DOMAIN Kind
Root == 1      \* the module
ChildrenOf(n) == UNION {ToSet(Lists[n][k]) : k \in DOMAIN Lists[n]}
Parent(n) == IF n = Root THEN Root ELSE CHOOSE p \in Nodes : n \in ChildrenOf(p)

\* The nodes that hold a node in their node.children, where all nodes below are.
Above == LET A[n \in Nodes] == IF n = Root THEN {} ELSE {Parent(n)} \cup A[Parent(n)] IN A

Preorder ==
    LET P[n \in Nodes] == <<n>> \o FlattenSeq([k \in DOMAIN Lists[n] |->
                                     FlattenSeq([j \in DOMAIN Lists[n][k] |-> P[Lists[n][k][j]]])])
    IN  P[Root]

\* A node that the parser puts in several places is copied, so that it has one parent.
ASSUME TreeType ==
  /\ Len(Kind) \in Nat \ {0} /\ Nodes = 1..Len(Kind) /\ Kind[Root] = "Module"
  /\ Lists \in [Nodes -> Seq(Seq(Nodes))]
  /\ \A n \in Nodes : \A c \in ChildrenOf(n) : n < c
  /\ \A n \in Nodes \ {Root} : \E p \in Nodes : n \in ChildrenOf(p)
  /\ \A p \in Nodes, q \in Nodes : \A k \in DOMAIN Lists[p], l \in DOMAIN Lists[q] :
       \A i \in DOMAIN Lists[p][k], j \in DOMAIN Lists[q][l] :
          Lists[p][k][i] = Lists[q][l][j] => p = q /\ k = l /\ i = j
  /\ Preorder = [n \in Nodes |-> n]
ASSUME OrderType == Order \in Nat
-----------------------------------------------------------------------------
(***************************************************************************)
(* The mutation operators: what a node of a kind is replaced by.  Those of *)
(* a kind are named for it; others for what they do.                       *)
(***************************************************************************)
Arithmetic == [Add |-> <<"Sub">>, Sub |-> <<"Add">>, Mult |-> <<"Div", "FloorDiv", "Pow">>,
               Div |-> <<"FloorDiv", "Mult">>, FloorDiv |-> <<"Div", "Mult">>, Mod |-> <<"Mult">>,
               Pow |-> <<"Mult">>]
Signs == [USub |-> <<"UAdd">>, UAdd |-> <<"USub">>]
Jumps == [Break |-> <<"Continue">>, Continue |-> <<"Break">>]
Connectors == [And |-> <<"Or">>, Or |-> <<"And">>]
Bitwise_ == [BitAnd |-> <<"BitOr">>, BitOr |-> <<"BitAnd">>, BitXor |-> <<"BitAnd">>,
             LShift |-> <<"RShift">>, RShift |-> <<"LShift">>]
Relations == [Lt |-> <<"Gt", "LtE">>, Gt |-> <<"Lt", "GtE">>, LtE |-> <<"GtE", "Lt">>,
              GtE |-> <<"LtE", "Gt">>, Eq |-> <<"NotEq">>, NotEq |-> <<"Eq">>]

Of(table, n) == IF Kind[n] \in DOMAIN table THEN table[Kind[n]] ELSE <<>>
When(guard, name) == IF guard THEN <<name>> ELSE <<>>

\* A unary operator goes, if it is one of these.
Deletes(n, operators) ==
    When(Kind[n] = "UnaryOp" /\ Kind[Lists[n][1][1]] \in operators, "operand")

InAugmentedAssignment(n) == Kind[Parent(n)] = "AugAssign"
Is(n, kinds) == Kind[n] \in kinds
Has(n, fact) == fact \in Facts[n]

\* Numbers grow, strings become another one, or empty; docstrings stay.
Constants(n) ==
    When(Is(n, {"Constant"}) /\ Has(n, "number"), "num")
      \o When(Is(n, {"Constant"}) /\ Has(n, "string") /\ ~Has(n, "docstring"), "str")
      \o When(Is(n, {"Constant"}) /\ Has(n, "string") /\ ~Has(n, "docstring") /\ ~Has(n, "empty"), "str_empty")

Handlers(n, unless, name) == When(Is(n, {"ExceptHandler"}) /\ ~Has(n, unless), name)

Slices(n) == When(Has(n, "lower"), "lower") \o When(Has(n, "step"), "step") \o When(Has(n, "upper"), "upper")

\* Methods: the call of the method they override is moved, goes or is inserted; or
\* they go themselves, like variables that hide those of a super class.
SuperCalls(n, name) ==
    CASE name = "moved" -> When(Is(n, {"FunctionDef"}) /\ Has(n, "super") /\ Has(n, "long"), name)
      [] name = "gone" -> When(Is(n, {"FunctionDef"}) /\ Has(n, "super"), name)
      [] name = "inserted" -> When(Is(n, {"FunctionDef"}) /\ Has(n, "overrides") /\ ~Has(n, "super"), name)
Overriding(n, kind) == When(Is(n, {kind}) /\ Has(n, "overrides"), "pass")

Loops(n, kinds, name) == When(Is(n, kinds), name)

\* What each operator makes of a node, in the order of the operators.
MutationsOf(n) ==
    << <<"ArithmeticOperatorDeletion", Deletes(n, {"UAdd", "USub"})>>,
       <<"ArithmeticOperatorReplacement",
         (IF InAugmentedAssignment(n) THEN <<>> ELSE Of(Arithmetic, n)) \o Of(Signs, n)>>,
       <<"AssignmentOperatorReplacement", IF InAugmentedAssignment(n) THEN Of(Arithmetic, n) ELSE <<>> >>,
       <<"BreakContinueReplacement", Of(Jumps, n)>>,
       <<"ConditionalOperatorDeletion", Deletes(n, {"Not"}) \o When(Is(n, {"NotIn"}), "In")>>,
       <<"ConditionalOperatorInsertion", When(Is(n, {"If", "While"}), "not") \o When(Is(n, {"In"}), "NotIn")>>,
       <<"ConstantReplacement", Constants(n)>>,
       <<"DecoratorDeletion", When(Is(n, {"FunctionDef"}) /\ Has(n, "decorated"), "undecorated")>>,
       <<"ExceptionHandlerDeletion", Handlers(n, "raises", "raise")>>,
       <<"ExceptionSwallowing", Handlers(n, "passes", "pass")>>,
       <<"HidingVariableDeletion", Overriding(n, "Assign")>>,
       <<"LogicalConnectorReplacement", Of(Connectors, n)>>,
       <<"LogicalOperatorDeletion", Deletes(n, {"Invert"})>>,
       <<"LogicalOperatorReplacement", Of(Bitwise_, n)>>,
       <<"OverriddenMethodCallingPositionChange", SuperCalls(n, "moved")>>,
       <<"OverridingMethodDeletion", Overriding(n, "FunctionDef")>>,
       <<"RelationalOperatorReplacement", Of(Relations, n)>>,
       <<"SliceIndexRemove", IF Is(n, {"Slice"}) THEN Slices(n) ELSE <<>> >>,
       <<"SuperCallingDeletion", SuperCalls(n, "gone")>>,
       <<"SuperCallingInsert", SuperCalls(n, "inserted")>>,
       <<"OneIterationLoop", Loops(n, {"For", "While"}, "one")>>,
       <<"ReverseIterationLoop", Loops(n, {"For"}, "reversed")>>,
       <<"ZeroIterationLoop", Loops(n, {"For", "While"}, "zero")>> >>

\* Operator by operator, each in the order of the tree.
AllMutations ==
    LET of(k, n) == LET m == MutationsOf(n)[k]
                    IN  [j \in DOMAIN m[2] |-> [node |-> n, operator |-> m[1], to |-> m[2][j]]]
    IN  FlattenSeq([k \in 1..23 |-> FlattenSeq([j \in DOMAIN Preorder |-> of(k, Preorder[j])])])
-----------------------------------------------------------------------------
(***************************************************************************)
(* Strategies: which mutations a mutant has.                               *)
(***************************************************************************)
Related(one, other) ==
    \/ one.node = other.node \/ one.node \in Above[other.node] \/ other.node \in Above[one.node]
    \/ strategy = "BETWEEN_OPERATORS" /\ one.operator = other.operator

\* Those of a list that are in a set.
Among(mutations, set) ==
    FlattenSeq([k \in DOMAIN mutations |-> IF mutations[k] \in set THEN <<mutations[k]>> ELSE <<>>])

Available ==
    LET usedTimes(u) == {m \in DOMAIN usage : usage[m] = u}
    IN  IF strategy = "BETWEEN_OPERATORS"
        THEN FlattenSeq([u \in 1..Len(AllMutations) + 1 |-> Among(AllMutations, usedTimes(u - 1))])
        ELSE left

NextGroup ==
    LET Picked[k \in 0..Order] ==
          IF k = 0 THEN [chosen |-> <<>>, available |-> Available]
          ELSE LET g == Picked[k - 1]
                   index == IF strategy = "FIRST_TO_LAST" /\ k % 2 = 0 THEN Len(g.available) ELSE 1
                   m == g.available[index]
               IN  IF g.available = <<>> THEN g
                   ELSE [chosen |-> Append(g.chosen, m),
                         available |-> Among(RemoveAt(g.available, index),
                                            {a \in ToSet(g.available) : ~Related(m, a)})]
    IN  IF strategy = "FIRST_ORDER_MUTANTS" THEN <<Head(left)>> ELSE Picked[Order].chosen

Shuffled(mutations) == IF strategy = "RANDOM" THEN SetToSeqs(ToSet(mutations)) ELSE {mutations}
-----------------------------------------------------------------------------
(***************************************************************************)
(* Generators.  The lists from the root down to a node are copied when the *)
(* generator comes by.  When it is resumed it goes on through its copies,  *)
(* and puts every element back.                                            *)
(***************************************************************************)
Place(n) == LET p == Parent(n)
                k == CHOOSE k \in DOMAIN Lists[p] : n \in ToSet(Lists[p][k])
            IN  [owner |-> p, list |-> k, position |-> CHOOSE j \in DOMAIN Lists[p][k] : Lists[p][k][j] = n]

\* The nodes from below the root down to a node, and where they are.
PathTo(n) == ({n} \cup Above[n]) \ {Root}

Itself(n) == [node |-> n, as |-> "itself"]
Replacement(mutation) == [node |-> mutation.node, as |-> mutation.to]
Untouched == [n \in Nodes |-> [k \in DOMAIN Lists[n] |->
                [j \in DOMAIN Lists[n][k] |-> Itself(Lists[n][k][j])]]]

Content(place) == tree[place.owner][place.list][place.position]
IsThere(n) == \A m \in PathTo(n) : Content(Place(m)) = Itself(m)

Apply ==
  /\ ~yielded /\ waiting # <<>>
  /\ LET m == Head(waiting)
         place == Place(m.node)
     IN  /\ IsThere(m.node)
         /\ generators' = Append(generators,
              [mutation |-> m,
               copies |-> [n \in PathTo(m.node) |-> tree[Place(n).owner][Place(n).list]]])
         /\ tree' = [tree EXCEPT ![place.owner][place.list][place.position] = Replacement(m)]
  /\ waiting' = Tail(waiting) /\ yielded' = (Tail(waiting) = <<>>)
  /\ UNCHANGED <<strategy, pass, left, usage, count, created>>

\* The mutant has been counted, or created and used.
Resume ==
  /\ yielded /\ yielded' = FALSE
  /\ IF pass = "count" THEN count' = count + 1 /\ UNCHANGED created
     ELSE created' = created + 1 /\ UNCHANGED count
  /\ UNCHANGED <<strategy, pass, tree, left, usage, waiting, generators>>

\* What a generator makes of a list: it puts back the elements from where it stood.
PutBack(g, owner, list) ==
    LET here == {n \in DOMAIN g.copies : Place(n).owner = owner /\ Place(n).list = list}
        n == CHOOSE n \in here : TRUE
    IN  [j \in DOMAIN tree[owner][list] |->
           IF here = {} \/ j < Place(n).position THEN tree[owner][list][j] ELSE g.copies[n][j]]
AllPutBack(g) == [n \in Nodes |-> [k \in DOMAIN tree[n] |-> PutBack(g, n, k)]]

\* Slip: generators are finished in the order in which they began.
FinishFirst ==
  /\ ~yielded /\ waiting = <<>> /\ generators # <<>>
  /\ tree' = AllPutBack(Head(generators)) /\ generators' = Tail(generators)
  /\ UNCHANGED <<strategy, pass, left, usage, waiting, yielded, count, created>>

Finish ==
  /\ ~yielded /\ waiting = <<>> /\ generators # <<>>
  /\ tree' = AllPutBack(Last(generators)) /\ generators' = Front(generators)
  /\ UNCHANGED <<strategy, pass, left, usage, waiting, yielded, count, created>>

Idle == waiting = <<>> /\ generators = <<>> /\ ~yielded

Without(mutations, group) == Among(mutations, ToSet(mutations) \ ToSet(group))

NextMutant ==
  /\ Idle /\ pass # "done" /\ left # <<>>
  /\ waiting' = NextGroup
  /\ left' = Without(left, NextGroup)
  /\ usage' = [m \in DOMAIN usage |-> usage[m] + IF m \in ToSet(NextGroup) THEN 1 ELSE 0]
  /\ UNCHANGED <<strategy, pass, tree, generators, yielded, count, created>>

NextPass ==
  /\ Idle /\ left = <<>> /\ pass # "done"
  /\ pass' = IF pass = "count" THEN "create" ELSE "done"
  /\ left' \in IF pass = "count" THEN Shuffled(AllMutations) ELSE {<<>>}
  /\ usage' = IF pass = "count" THEN [m \in ToSet(AllMutations) |-> 0] ELSE usage
  /\ UNCHANGED <<strategy, tree, waiting, generators, yielded, count, created>>
-----------------------------------------------------------------------------
Init ==
  /\ strategy \in Strategies /\ pass = "count" /\ tree = Untouched
  /\ left \in Shuffled(AllMutations) /\ usage = [m \in ToSet(AllMutations) |-> 0]
  /\ waiting = <<>> /\ generators = <<>> /\ yielded = FALSE /\ count = 0 /\ created = 0

Next == NextMutant \/ Apply \/ Resume \/ Finish \/ NextPass

Spec == Init /\ [][Next]_vars
-----------------------------------------------------------------------------
(***************************************************************************)
(* Properties.                                                             *)
(***************************************************************************)
\* At any time, while generators are resumed too, the tree is the original one but
\* for the mutations of the generators at work, whatever siblings and descendants
\* they and those of the mutants before were.
Shows(element, n, of) ==
    IF of = {} THEN element = Itself(n)
    ELSE \A i \in of : element = Replacement(generators[i].mutation)
MutatedBy(n) == {i \in DOMAIN generators : generators[i].mutation.node = n}
TreeIsRestored ==
    /\ DOMAIN tree = Nodes
    /\ \A n \in Nodes : DOMAIN tree[n] = DOMAIN Lists[n] /\ \A k \in DOMAIN Lists[n] :
         /\ DOMAIN tree[n][k] = DOMAIN Lists[n][k]
         /\ \A j \in DOMAIN Lists[n][k] : Shows(tree[n][k][j], Lists[n][k][j], MutatedBy(Lists[n][k][j]))

\* A mutation whose node is not in the tree any more (its generator yields nothing,
\* the assertion in HighOrderMutator.mutate fails) is never waited for.
MutationsAreFound == waiting # <<>> => IsThere(Head(waiting).node)

\* In the end every mutation has been in a mutant.
EveryMutationIsUsed ==
    pass = "done" => \A m \in ToSet(AllMutations) : usage[m] > 0

\* Every mutant is the original with its mutations, and each mutation gets a turn.
MutantsAreSound == TreeIsRestored /\ MutationsAreFound /\ EveryMutationIsUsed
=============================================================================
