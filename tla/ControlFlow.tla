---------------------------- MODULE ControlFlow ----------------------------
(***************************************************************************)
(* From the basic blocks of a code object to its control-dependence graph  *)
(* and to the graph of branch goals that DynaMOSA searches along           *)
(* (analyses/controlflow.py, _BranchFitnessGraph).                         *)
(*                                                                         *)
(* A code object is a function from the indices of its blocks to what each *)
(* block ends with.  A graph is a record of nodes and edges; an edge is a  *)
(* triple <<from, to, label>>, with the branch value or None as its label. *)
(***************************************************************************)
EXTENDS Integers, FiniteSets

None == "none"
Branches == {"true", "false"}
Entry == -1                      \* the artificial nodes, where the code has
Exit == 1000                     \* -1, sys.maxsize
Start == -1000                   \* and -sys.maxsize

(***************************************************************************)
(* What a block ends with: a conditional jump (jumpsIf is the value of the *)
(* condition for which it jumps; FOR_ITER jumps when there is no next      *)
(* element), an instruction such as SETUP_FINALLY that names a handler, an *)
(* unconditional jump, nothing, or a return or raise.                      *)
(***************************************************************************)
Terminators(last, i) ==
    [kind: {"jump"}, target: 0..last, jumpsIf: {None}]
      \cup [kind: {"end"}, target: {None}, jumpsIf: {None}]
      \cup (IF i = last THEN {}
            ELSE [kind: {"cond"}, target: 0..last, jumpsIf: Branches]
                   \cup [kind: {"setup"}, target: 0..last, jumpsIf: {None}]
                   \cup [kind: {"fall"}, target: {None}, jumpsIf: {None}])

CodeObjects(last) ==
    {code \in [0..last -> UNION {Terminators(last, i) : i \in 0..last}] :
        \A i \in 0..last : code[i] \in Terminators(last, i)}

IsPredicate(code, node) == node \in DOMAIN code /\ code[node].kind = "cond"
-----------------------------------------------------------------------------
(***************************************************************************)
(* Graphs.                                                                 *)
(***************************************************************************)
Pairs(G) == {<<e[1], e[2]>> : e \in G.edges}
Successors(G, n) == {e[2] : e \in {x \in G.edges : x[1] = n}}
Predecessors(G, n) == {e[1] : e \in {x \in G.edges : x[2] = n}}
Reversed(G) == [nodes |-> G.nodes, edges |-> {<<e[2], e[1], e[3]>> : e \in G.edges}]
ExitNodes(G) == {n \in G.nodes : Successors(G, n) = {}}
EntryNode(G) == CHOOSE n \in G.nodes : Predecessors(G, n) = {}

\* Everything that can be reached from a node of S in any number of steps.
Reachable(G, S) ==
    LET From[found \in SUBSET (G.nodes \cup S)] ==
          LET more == found \cup {e[2] : e \in {x \in G.edges : x[1] \in found}}
          IN  IF more = found THEN found ELSE From[more]
    IN  From[S]

TransitiveSuccessors(G, n) == Reachable(G, Successors(G, n))

\* Nodes without predecessors go, until only the given entry is left of them.
WithoutDeadCode(G, entry) ==
    LET Pruned[nodes \in SUBSET G.nodes] ==
          LET left == {entry} \cup {e[2] : e \in {x \in G.edges : x[1] \in nodes}}
          IN  IF left \cap nodes = nodes THEN nodes ELSE Pruned[left \cap nodes]
        left == Pruned[G.nodes]
    IN  [nodes |-> left,
         edges |-> {e \in G.edges : e[1] \in left /\ e[2] \in left}]
-----------------------------------------------------------------------------
(***************************************************************************)
(* The control-flow graph.  A graph holds one edge between two nodes: when *)
(* both branches lead to the same block, the false one is added last.      *)
(***************************************************************************)
\* Slip: the jump is always the false branch.
EdgesOfFalseJumps(code, i) ==
    LET last == code[i]
    IN  CASE last.kind = "cond" -> {<<i, last.target, "false">>, <<i, i + 1, "true">>}
          [] last.kind \in {"setup", "jump"} -> {<<i, last.target, None>>}
          [] last.kind = "fall" -> {<<i, i + 1, None>>}
          [] last.kind = "end" -> {}

EdgesOf(code, i) ==
    LET last == code[i]
        Leads(b) == IF last.jumpsIf = b THEN last.target ELSE i + 1
    IN  CASE last.kind = "cond" ->
               {<<i, Leads("false"), "false">>}
                 \cup (IF Leads("true") = Leads("false") THEN {}
                       ELSE {<<i, Leads("true"), "true">>})
          [] last.kind = "setup" -> {<<i, i + 1, None>>, <<i, last.target, None>>}
          [] last.kind = "jump" -> {<<i, last.target, None>>}
          [] last.kind = "fall" -> {<<i, i + 1, None>>}
          [] last.kind = "end" -> {}

LiveBlocks(code) ==
    WithoutDeadCode([nodes |-> DOMAIN code,
                     edges |-> UNION {EdgesOf(code, i) : i \in DOMAIN code}], 0)

InfiniteLoops(G) ==
    {n \in G.nodes : n \in Successors(G, n) /\ Successors(G, n) \cap ExitNodes(G) = {}}

\* The loops are looked for when the exit node is in its place already.
CFG(code) ==
    LET live == LiveBlocks(code)
        toExit(ns) == {<<n, Exit, None>> : n \in ns}
        exited == [nodes |-> live.nodes \cup {Exit},
                   edges |-> live.edges \cup toExit(ExitNodes(live))]
    IN  [nodes |-> exited.nodes \cup {Entry},
         edges |-> exited.edges \cup toExit(InfiniteLoops(exited))
                     \cup {<<Entry, 0, None>>}]

\* The upper bound of an approach level: the library finds no diameter for a
\* graph in which the entry cannot be reached.
Diameter(code) == Cardinality(CFG(code).edges)
-----------------------------------------------------------------------------
(***************************************************************************)
(* Dominance, as pairs of a node and a dominator of it: every node starts  *)
(* with all nodes as its dominators, which are cut down until nothing      *)
(* changes (each round shortens a way that avoids a dominator).            *)
(***************************************************************************)
Dominance(G) ==
    LET entry == EntryNode(G)
        Kept(dominance, n, d) ==
          \/ n = entry
          \/ /\ Predecessors(G, n) # {}
             /\ n = d \/ \A p \in Predecessors(G, n) : <<p, d>> \in dominance
        Cut[dominance \in SUBSET (G.nodes \X G.nodes)] ==
          LET less == {pair \in dominance : Kept(dominance, pair[1], pair[2])}
          IN  IF less = dominance THEN dominance ELSE Cut[less]
    IN  Cut[{pair \in G.nodes \X G.nodes : pair[1] = entry => pair[2] = entry}]

\* The queue takes dominators away from the entry on: a node hangs below the
\* last one taken from it, and stays out if some are never taken.
DominatorTree(G) ==
    LET dominance == Dominance(G)
        Strict(n) == {d \in G.nodes \ {n} : <<n, d>> \in dominance}
    IN  [nodes |-> G.nodes,
         edges |-> {e \in G.nodes \X G.nodes \X {None} :
                      /\ <<e[2], e[1]>> \in dominance /\ e[1] # e[2]
                      /\ Strict(e[2]) = Strict(e[1]) \cup {e[1]}}]

Augmented(G) ==
    [nodes |-> G.nodes \cup {Start},
     edges |-> G.edges \cup {<<Start, n, None>> : n \in {EntryNode(G)} \cup ExitNodes(G)}]

PostDominatorTree(G) == DominatorTree(Reversed(G))

\* No node may be outside the tree, or looking it up there fails; there must be an exit.
Analysable(code) ==
    /\ ExitNodes(LiveBlocks(code)) # {}
    /\ LET G == CFG(code)
       IN  Reachable(Reversed(G), {Exit}) = G.nodes
-----------------------------------------------------------------------------
(***************************************************************************)
(* Control dependence: for an edge whose target does not post-dominate its *)
(* source, everything on the way up the tree from the target to the least  *)
(* common ancestor depends on the source.  Dependences of the same two     *)
(* nodes overwrite each other's label, in any order: Labelled(G) holds all *)
(* of them, and a graph keeps one for each pair.                           *)
(***************************************************************************)
AncestorsIn(tree, n) == Reachable(Reversed(tree), {n})

\* Slip: a loop's condition is not taken to depend on itself and the nodes
\* are not followed up the tree.
LabelledDirectly(G) ==
    LET tree == PostDominatorTree(G)
    IN  {e \in G.edges : e[1] # e[2] /\ e[1] \notin TransitiveSuccessors(tree, e[2])}

Labelled(G) ==
    LET tree == PostDominatorTree(G)
        matching == {e \in G.edges : e[1] \notin TransitiveSuccessors(tree, e[2])}
        Dependents(e) ==
          LET fromSource == AncestorsIn(tree, e[1])
              fromTarget == AncestorsIn(tree, e[2])
          IN  (fromTarget \ fromSource) \cup (fromTarget \cap {e[1]})
    IN  UNION {{<<e[1], n, e[3]>> : n \in Dependents(e)} : e \in matching}

ControlDependenceGraphs(code) ==
    LET G == Augmented(CFG(code))
        labelled == Labelled(G)
        pairs == {<<e[1], e[2]>> : e \in labelled}
        chosen == {E \in SUBSET labelled :
                      /\ Cardinality(E) = Cardinality(pairs)
                      /\ {<<e[1], e[2]>> : e \in E} = pairs}
    IN  {WithoutDeadCode([nodes |-> G.nodes, edges |-> E], Start) :
           E \in IF Cardinality(labelled) = Cardinality(pairs) THEN {labelled} ELSE chosen}
-----------------------------------------------------------------------------
(***************************************************************************)
(* What is asked of a control-dependence graph.  A goal is a predicate and *)
(* one of its branches.                                                    *)
(***************************************************************************)
\* The nodes whose control decides over a node without a branch in between.
Governed(cdg, n) ==
    Reachable([nodes |-> cdg.nodes,
               edges |-> {<<e[2], e[1], e[3]>> : e \in {x \in cdg.edges : x[3] = None}}], {n})

ControlDependencies(cdg, n) ==
    {<<e[1], e[3]>> : e \in {x \in cdg.edges : x[3] # None /\ x[2] \in Governed(cdg, n)}}

\* Predecessors that are predicates end the search for the root.
IsDependentOnRoot(code, cdg, n) ==
    LET through == {e \in cdg.edges : ~IsPredicate(code, e[1]) /\ e[1] # e[2]}
        up == Reachable([nodes |-> cdg.nodes,
                         edges |-> {<<e[2], e[1], e[3]>> : e \in through}], {n})
    IN  \E m \in up : \E e \in cdg.edges : e[1] = EntryNode(cdg) /\ e[2] = m

\* Every node of the control-flow graph is visited.
PredicatesOf(code) == {n \in CFG(code).nodes : IsPredicate(code, n)}
GoalsOf(code) == PredicatesOf(code) \X Branches

RootGoals(code, cdg) == {g \in GoalsOf(code) : IsDependentOnRoot(code, cdg, g[1])}

\* Both goals of a predicate come after every goal the predicate depends on.
ChildrenOf(code, cdg, g) == {h \in GoalsOf(code) : g \in ControlDependencies(cdg, h[1])}
-----------------------------------------------------------------------------
(***************************************************************************)
(* Reference definitions, by paths.  n post-dominates m if no way from m   *)
(* to the exit avoids n.                                                   *)
(***************************************************************************)
Avoiding(G, n) == [nodes |-> G.nodes, edges |-> {e \in G.edges : e[1] # n /\ e[2] # n}]
PostDominates(G, n, m) == m = n \/ Exit \notin Reachable(Avoiding(G, n), {m})

DependsOn(G, s, n) ==
    \E e \in G.edges :
        e[1] = s /\ PostDominates(G, n, e[2]) /\ ~(n # s /\ PostDominates(G, n, s))
=============================================================================
