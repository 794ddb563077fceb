---------------------------- MODULE AnalysisProofs ----------------------------
(* Proofs about what the search is told of code and of its execution, as parts of  *)
(* MCAnalysis: distances; the fitness of tests and suites; the control-dependence  *)
(* graph; the goals that are activated along it.                                   *)
EXTENDS MCAnalysis, FiniteSetTheorems, SequenceTheorems, WellFoundedInduction, TLAPS

MCNext == SlicerStep \/ BranchesStep \/ DistancesStep \/ InstrumentationStep

--------------------------------------------------------------------------------
(* Tools.                                                                          *)

LEMMA SameCardinality == ASSUME NEW Z PROVE B!Cardinality(Z) = Cardinality(Z)
BY DEF B!Cardinality, Cardinality

LEMMA SameFinite == ASSUME NEW Z PROVE B!IsFiniteSet(Z) <=> IsFiniteSet(Z)
BY DEF B!IsFiniteSet, IsFiniteSet

LEMMA ImageIsFinite ==
  ASSUME NEW Z, IsFiniteSet(Z), NEW f, DOMAIN f = Z
  PROVE  IsFiniteSet({f[x] : x \in Z})
<1> DEFINE T == {f[x] : x \in Z}
           g == [x \in Z |-> f[x]]
<1>1. g \in Surjection(Z, T)
  BY DEF Surjection
<1> HIDE DEF T, g
<1>2. IsFiniteSet(T)
  BY <1>1, FS_Surjection
<1> QED BY <1>2 DEF T

LEMMA TriplesAreFinite ==
  ASSUME NEW X, NEW Y, NEW Z, IsFiniteSet(X), IsFiniteSet(Y), IsFiniteSet(Z)
  PROVE  IsFiniteSet(X \X Y \X Z)
<1> DEFINE P == (X \X Y) \X Z
           f == [u \in P |-> <<u[1][1], u[1][2], u[2]>>]
<1>1. IsFiniteSet(P)
  BY FS_Product
<1>2. IsFiniteSet({f[u] : u \in P})
  <2>1. DOMAIN f = P
    OBVIOUS
  <2> HIDE DEF P, f
  <2> QED BY <1>1, <2>1, ImageIsFinite
<1>3. X \X Y \X Z \subseteq {f[u] : u \in P}
  <2> SUFFICES ASSUME NEW t \in X \X Y \X Z PROVE t \in {f[u] : u \in P}
    OBVIOUS
  <2>1. PICK x \in X, y \in Y, z \in Z : t = <<x, y, z>>
    OBVIOUS
  <2>2. <<<<x, y>>, z>> \in P /\ f[<<<<x, y>>, z>>] = t
    BY <2>1
  <2> QED BY <2>2
<1> QED BY <1>2, <1>3, FS_Subset

LEMMA LeastExists ==
  ASSUME NEW T, T \subseteq Nat, T # {}
  PROVE  \E x \in T : \A y \in T : x <= y
<1> DEFINE R == OpToRel(<, Nat)
<1>1. IsWellFoundedOn(R, Nat)
  BY NatLessThanWellFounded
<1>2. R = {p \in Nat \X Nat : p[1] < p[2]}
  BY DEF OpToRel
<1> HIDE DEF R
<1>3. PICK x \in T : \A y \in T : <<y, x>> \notin R
  BY <1>1, WFMin
<1>4. ASSUME NEW y \in T PROVE x <= y
  <2>1. y \in Nat /\ x \in Nat
    OBVIOUS
  <2>2. y < x => <<y, x>> \in R
    BY <1>2, <2>1
  <2> QED BY <1>3, <2>1, <2>2
<1> QED BY <1>4

(* What holds of a number when it holds of all smaller ones holds of all.          *)
LEMMA AllUpTo ==
  ASSUME NEW m \in Nat, NEW T, T \subseteq 0 .. m,
         \A n \in 0 .. m : (\A k \in 0 .. m : k < n => k \in T) => n \in T
  PROVE  T = 0 .. m
<1> SUFFICES ASSUME T # 0 .. m PROVE FALSE
  OBVIOUS
<1> DEFINE Others == (0 .. m) \ T
<1>1. Others \subseteq Nat /\ Others # {}
  <2>1. Others \subseteq Nat
    OBVIOUS
  <2>2. PICK x : ~(x \in T <=> x \in 0 .. m)
    OBVIOUS
  <2>3. x \in Others
    BY <2>2
  <2> QED BY <2>1, <2>3
<1>2. PICK n \in Others : \A k \in Others : n <= k
  BY <1>1, LeastExists
<1>3. \A k \in 0 .. m : k < n => k \in T
  <2> SUFFICES ASSUME NEW k \in 0 .. m, k < n, k \notin T PROVE FALSE
    OBVIOUS
  <2>1. k \in Others /\ n \in 0 .. m
    BY <1>2
  <2>2. n <= k
    BY <1>2, <2>1
  <2> QED BY <2>1, <2>2
<1>4. n \in 0 .. m /\ n \notin T
  BY <1>2
<1> HIDE DEF Others
<1> QED BY <1>3, <1>4

--------------------------------------------------------------------------------
(* What is registered of a code object.                                            *)

LEMMA CodeIs ==
  ASSUME NEW c \in MCCodes
  PROVE  /\ IsFiniteSet(DOMAIN c) /\ Cardinality(DOMAIN c) \in Nat
         /\ DOMAIN c = 0 .. Cardinality(DOMAIN c) - 1
         /\ \A i \in DOMAIN c : c[i] \in B!Terminators(Cardinality(DOMAIN c) - 1, i)
<1>1. IsFiniteSet(DOMAIN c) /\ c \in B!CodeObjects(Cardinality(DOMAIN c) - 1)
  BY OtherConstants, SameCardinality, SameFinite DEF B!ConstantsType
<1>2. Cardinality(DOMAIN c) \in Nat
  BY <1>1, FS_CardinalityType
<1> QED BY <1>1, <1>2 DEF B!CodeObjects

LEMMA EdgesAre ==
  ASSUME NEW c \in MCCodes, NEW i \in DOMAIN c, NEW e \in B!EdgesOf(c, i)
  PROVE  e \in (DOMAIN c) \X (0 .. Cardinality(DOMAIN c)) \X {B!None, "true", "false"}
<1> DEFINE last == Cardinality(DOMAIN c) - 1
<1>1. /\ last + 1 \in Nat /\ DOMAIN c = 0 .. last /\ i \in 0 .. last
      /\ c[i] \in B!Terminators(last, i)
  BY CodeIs
<1> HIDE DEF last
<1>2. /\ c[i].kind \in {"cond", "setup", "jump", "fall", "end"}
      /\ c[i].kind \in {"cond", "setup", "jump"} => c[i].target \in 0 .. last
  BY <1>1 DEF B!Terminators
<1>3. PICK x \in Int, label \in {B!None, "true", "false"} :
           e = <<i, x, label>> /\ (x = i + 1 \/ x \in 0 .. last)
  <2>1. CASE c[i].kind = "cond"
    <3>1. \/ e = <<i, IF c[i].jumpsIf = "false" THEN c[i].target ELSE i + 1, "false">>
          \/ e = <<i, IF c[i].jumpsIf = "true" THEN c[i].target ELSE i + 1, "true">>
      BY <2>1 DEF B!EdgesOf
    <3> QED BY <1>1, <1>2, <2>1, <3>1
  <2>2. CASE c[i].kind = "setup"
    <3>1. e = <<i, i + 1, B!None>> \/ e = <<i, c[i].target, B!None>>
      BY <2>2 DEF B!EdgesOf
    <3> QED BY <1>1, <1>2, <2>2, <3>1
  <2>3. CASE c[i].kind = "jump"
    <3>1. e = <<i, c[i].target, B!None>>
      BY <2>3 DEF B!EdgesOf
    <3> QED BY <1>1, <1>2, <2>3, <3>1
  <2>4. CASE c[i].kind = "fall"
    <3>1. e = <<i, i + 1, B!None>>
      BY <2>4 DEF B!EdgesOf
    <3> QED BY <1>1, <3>1
  <2>5. CASE c[i].kind = "end"
    BY <2>5 DEF B!EdgesOf
  <2> QED BY <1>2, <2>1, <2>2, <2>3, <2>4, <2>5
<1>4. x \in 0 .. Cardinality(DOMAIN c)
  BY <1>1, <1>3, CodeIs DEF last
<1> QED BY <1>1, <1>3, <1>4

(* The upper bound of an approach level is never zero.                             *)
LEMMA DiameterType ==
  ASSUME NEW c \in MCCodes, B!LiveBlocks(c).nodes = DOMAIN c
  PROVE  B!Diameter(c) \in Nat \ {0}
<1> DEFINE live == B!LiveBlocks(c)
           toExit(ns) == {<<n, B!Exit, B!None>> : n \in ns}
           exited == [nodes |-> live.nodes \cup {B!Exit},
                      edges |-> live.edges \cup toExit(B!ExitNodes(live))]
           edges == exited.edges \cup toExit(B!InfiniteLoops(exited))
                      \cup {<<B!Entry, 0, B!None>>}
           Ends == (0 .. Cardinality(DOMAIN c)) \cup {B!Exit, B!Entry}
           labels == {B!None, "true", "false"}
<1>1. B!CFG(c).edges = edges
  BY DEF B!CFG
<1>2. DOMAIN c \subseteq Ends /\ IsFiniteSet(Ends) /\ IsFiniteSet(labels)
  <2>1. Cardinality(DOMAIN c) \in Nat /\ DOMAIN c = 0 .. Cardinality(DOMAIN c) - 1
    BY CodeIs
  <2>2. IsFiniteSet(0 .. Cardinality(DOMAIN c))
    BY <2>1, FS_Interval
  <2>3. IsFiniteSet({B!Exit, B!Entry}) /\ IsFiniteSet(labels)
    <3>1. IsFiniteSet({B!Exit}) /\ IsFiniteSet({B!Entry}) /\ IsFiniteSet({B!None})
          /\ IsFiniteSet({"true"}) /\ IsFiniteSet({"false"})
      BY FS_Singleton
    <3>2. {B!Exit, B!Entry} = {B!Exit} \cup {B!Entry}
          /\ labels = ({B!None} \cup {"true"}) \cup {"false"}
      OBVIOUS
    <3>3. IsFiniteSet({B!Exit} \cup {B!Entry}) /\ IsFiniteSet({B!None} \cup {"true"})
      BY <3>1, FS_Union
    <3>4. IsFiniteSet(({B!None} \cup {"true"}) \cup {"false"})
      BY <3>1, <3>3, FS_Union
    <3> QED BY <3>2, <3>3, <3>4
  <2>4. IsFiniteSet(Ends)
    BY <2>2, <2>3, FS_Union
  <2> QED BY <2>1, <2>3, <2>4
<1>3. live.edges \subseteq Ends \X Ends \X labels
  <2>1. live.edges \subseteq UNION {B!EdgesOf(c, i) : i \in DOMAIN c}
    BY DEF B!LiveBlocks, B!WithoutDeadCode
  <2> QED BY <1>2, <2>1, EdgesAre
<1>4. B!ExitNodes(live) \subseteq Ends
  BY <1>2 DEF B!ExitNodes
<1>5. B!InfiniteLoops(exited) \subseteq Ends
  BY <1>2 DEF B!InfiniteLoops
<1> HIDE DEF exited, live, Ends, labels
<1>6. edges \subseteq Ends \X Ends \X labels /\ <<B!Entry, 0, B!None>> \in edges
  <2>1. exited.edges = live.edges \cup toExit(B!ExitNodes(live))
    BY DEF exited
  <2>2. B!Exit \in Ends /\ B!Entry \in Ends /\ 0 \in Ends /\ B!None \in labels
    <3>1. Cardinality(DOMAIN c) \in Nat
      BY CodeIs
    <3> QED BY <3>1 DEF Ends, labels
  <2> QED BY <1>3, <1>4, <1>5, <2>1, <2>2
<1> HIDE DEF edges
<1>7. IsFiniteSet(edges) /\ edges # {}
  <2>1. IsFiniteSet(Ends \X Ends \X labels)
    BY <1>2, TriplesAreFinite
  <2> QED BY <1>6, <2>1, FS_Subset
<1>8. Cardinality(edges) \in Nat /\ Cardinality(edges) # 0
  BY <1>7, FS_CardinalityType, FS_EmptySet
<1> QED BY <1>1, <1>8, SameCardinality DEF B!Diameter

(* No path to another predicate is empty.                                          *)
LEMMA PathLengthType ==
  ASSUME NEW graph, NEW n, NEW m
  PROVE  B!PathLength(graph, n, m) \in Nat /\ (n # m => B!PathLength(graph, n, m) # 0)
<1>1. PICK within : B!PathLength(graph, n, m) =
               LET lengths == {k \in 1 .. B!Cardinality(graph.nodes) : m \in within[k]}
               IN  IF n = m THEN 0 ELSE IF lengths = {} THEN B!Inf ELSE B!Min(lengths)
  BY DEF B!PathLength
<1> DEFINE lengths == {k \in 1 .. B!Cardinality(graph.nodes) : m \in within[k]}
<1>2. CASE n # m /\ lengths # {}
  <2>1. lengths \subseteq Nat \ {0}
    OBVIOUS
  <2> HIDE DEF lengths
  <2>2. PICK x \in lengths : \A y \in lengths : x <= y
    BY <1>2, <2>1, LeastExists
  <2>3. B!Min(lengths) \in lengths
    BY <2>2 DEF B!Min
  <2> QED BY <1>1, <1>2, <2>1, <2>3 DEF lengths
<1>3. CASE ~(n # m /\ lengths # {})
  BY <1>1, <1>3 DEF B!Inf
<1> QED BY <1>2, <1>3

MetaIsRight ==
  /\ bCode \in MCCodes
  /\ meta.predicates = {n \in DOMAIN bCode : bCode[n].kind = "cond"}
  /\ meta.diameter \in Nat \ {0}
  /\ \A q \in meta.predicates, p \in meta.predicates :
       meta.level[<<q, p>>] \in Nat /\ (q # p => meta.level[<<q, p>>] # 0)

LEMMA MetaInit == B!Init => MetaIsRight
<1> SUFFICES ASSUME B!Init PROVE MetaIsRight
  OBVIOUS
<1>1. bCode \in MCCodes /\ B!LiveBlocks(bCode).nodes = DOMAIN bCode
  BY DEF B!Init
<1>2. PICK cdg : meta = B!Metadata(bCode, cdg)
  BY DEF B!Init
<1>3. /\ meta.predicates = B!PredicatesOf(bCode)
      /\ meta.diameter = B!Diameter(bCode)
      /\ meta.level = [pair \in meta.predicates \X meta.predicates |->
                         B!PathLength(cdg, pair[1], pair[2])]
  BY <1>2 DEF B!Metadata
<1>4. B!PredicatesOf(bCode) = {n \in DOMAIN bCode : bCode[n].kind = "cond"}
  <2>1. DOMAIN bCode \subseteq B!CFG(bCode).nodes
    BY <1>1 DEF B!CFG
  <2> QED BY <2>1 DEF B!PredicatesOf, B!IsPredicate
<1>5. \A q \in meta.predicates, p \in meta.predicates :
        meta.level[<<q, p>>] = B!PathLength(cdg, q, p)
  BY <1>3
<1> QED BY <1>1, <1>3, <1>4, <1>5, DiameterType, PathLengthType DEF MetaIsRight

--------------------------------------------------------------------------------
(* Traces and the fitness of a test.                                               *)

Traces(P) ==
  [entered : BOOLEAN, count : [P -> Nat], distance : [P \X B!Branches -> 0 .. B!Inf]]

GoalsFor(P) == IF P = {} THEN {<<B!Entry, B!None>>} ELSE P \X B!Branches

(* A trace of an execution that took these branches.                               *)
TraceIsRight(P, t, took) ==
  /\ t \in Traces(P) /\ took \subseteq GoalsFor(P)
  /\ P = {} => took = IF t.entered THEN GoalsFor(P) ELSE {}
  /\ \A p \in P :
       /\ \A b \in B!Branches : <<p, b>> \in took <=> t.distance[<<p, b>>] = 0
       /\ t.count[p] = 0 => \A b \in B!Branches : t.distance[<<p, b>>] = B!Inf
       /\ t.count[p] # 0 =>
            t.entered /\ (t.distance[<<p, "true">>] = 0 \/ t.distance[<<p, "false">>] = 0)

(* A trace of an execution that took some branches and missed others by little.     *)
NearIsRight(P, t, took, missed) ==
  /\ missed \subseteq P \X B!Branches
  /\ \A g \in P \X B!Branches : t.distance[g] < Close <=> g \in took \cup missed

LEMMA GoalsAre ==
  B!Goals = GoalsFor(meta.predicates) /\ (B!BranchLess <=> meta.predicates = {})
BY DEF B!Goals, B!BranchLess, GoalsFor

LEMMA TraceType ==
  ASSUME NEW P, NEW t, NEW took, TraceIsRight(P, t, took)
  PROVE  /\ t = [entered |-> t.entered, count |-> t.count, distance |-> t.distance]
         /\ t.entered \in BOOLEAN
         /\ \A p \in P : t.count[p] \in Nat /\ (t.count[p] # 0 => t.entered)
         /\ \A g \in P \X B!Branches : t.distance[g] \in 0 .. B!Inf
BY DEF TraceIsRight, Traces

LEMMA EmptyIsRight == TraceIsRight(meta.predicates, B!Empty, {})
<1>1. B!Empty \in Traces(meta.predicates)
  BY DEF B!Empty, Traces, B!Inf
<1>2. /\ ~B!Empty.entered /\ \A p \in meta.predicates : B!Empty.count[p] = 0
      /\ \A p \in meta.predicates, b \in B!Branches : B!Empty.distance[<<p, b>>] = B!Inf
  BY DEF B!Empty
<1> QED BY <1>1, <1>2 DEF TraceIsRight, B!Inf

LEMMA UnitsType ==
  /\ Unit \in Nat /\ Unit >= 1 /\ Close \in 1 .. B!Inf
  /\ B!One \in Nat /\ B!One >= Unit + 1
BY OtherConstants DEF B!ConstantsType, B!One

LEMMA EmptyIsNear == NearIsRight(meta.predicates, B!Empty, {}, {})
<1>1. ~(B!Inf < Close)
  BY UnitsType DEF B!Inf
<1>2. \A g \in meta.predicates \X B!Branches : B!Empty.distance[g] = B!Inf
  BY DEF B!Empty
<1> QED BY <1>1, <1>2 DEF NearIsRight

LEMMA LeastType ==
  ASSUME NEW d \in 0 .. B!Inf, NEW e \in 0 .. B!Inf
  PROVE  /\ B!Least(d, e) \in 0 .. B!Inf /\ B!Least(d, e) <= d
         /\ (B!Least(d, e) = 0 <=> d = 0 \/ e = 0)
BY DEF B!Least, B!Inf

LEMMA LeastBelow ==
  ASSUME NEW d \in Int, NEW e \in Int, NEW k \in Int
  PROVE  B!Least(d, e) < k <=> d < k \/ e < k
BY DEF B!Least

LEMMA UpdatedIsNear ==
  ASSUME NEW P, NEW t, NEW took, NEW missed,
         TraceIsRight(P, t, took), NearIsRight(P, t, took, missed),
         NEW p \in P, NEW b \in B!Branches, NEW d \in MCDistances,
         NEW u, u = B!UpdateDistances(t, p, b, d)
  PROVE  NearIsRight(P, u, took \cup {<<p, b>>},
                     missed \cup {<<p, c>> : c \in {c \in B!Branches \ {b} : d < Close}})
<1> DEFINE more == {<<p, c>> : c \in {c \in B!Branches \ {b} : d < Close}}
           new(g) == IF g[1] # p THEN t.distance[g]
                     ELSE B!Least(t.distance[g], IF g[2] = b THEN 0 ELSE d)
<1>1. d \in 1 .. B!Inf /\ Close \in 1 .. B!Inf
  BY OtherConstants DEF B!ConstantsType
<1>2. t.distance \in [P \X B!Branches -> 0 .. B!Inf]
      /\ t = [entered |-> t.entered, count |-> t.count, distance |-> t.distance]
  BY DEF TraceIsRight, Traces
<1>3. u.distance = [g \in P \X B!Branches |-> new(g)]
  BY <1>2 DEF B!UpdateDistances
<1>4. ASSUME NEW q \in P, NEW c \in B!Branches
      PROVE  u.distance[<<q, c>>] < Close
               <=> <<q, c>> \in (took \cup {<<p, b>>}) \cup (missed \cup more)
  <2>1. u.distance[<<q, c>>] = new(<<q, c>>)
    BY <1>3
  <2>2. t.distance[<<q, c>>] < Close <=> <<q, c>> \in took \cup missed
    BY DEF NearIsRight
  <2>3. t.distance[<<q, c>>] \in 0 .. B!Inf
    BY <1>2
  <2>4. CASE q # p
    <3>1. <<q, c>> # <<p, b>> /\ <<q, c>> \notin more
      BY <2>4
    <3>2. u.distance[<<q, c>>] = t.distance[<<q, c>>]
      BY <2>1, <2>4
    <3> QED BY <2>2, <3>1, <3>2
  <2>5. CASE q = p /\ c = b
    <3>1. u.distance[<<q, c>>] = 0
      BY <2>1, <2>3, <2>5 DEF B!Least, B!Inf
    <3> QED BY <1>1, <2>5, <3>1 DEF B!Inf
  <2>6. CASE q = p /\ c # b
    <3>1. u.distance[<<q, c>>] = B!Least(t.distance[<<q, c>>], d)
      BY <2>1, <2>6
    <3>2. B!Least(t.distance[<<q, c>>], d) < Close <=> t.distance[<<q, c>>] < Close \/ d < Close
      <4>1. t.distance[<<q, c>>] \in Int /\ d \in Int /\ Close \in Int
        <5>1. \A n \in 0 .. B!Inf : n \in Int
          BY DEF B!Inf
        <5>2. \A n \in 1 .. B!Inf : n \in Int
          BY DEF B!Inf
        <5> QED BY <1>1, <2>3, <5>1, <5>2
      <4> QED BY <4>1, LeastBelow
    <3>3. <<q, c>> # <<p, b>> /\ (<<q, c>> \in more <=> d < Close)
      BY <2>6
    <3> QED BY <2>2, <3>1, <3>2, <3>3
  <2> QED BY <2>4, <2>5, <2>6
<1>5. missed \cup more \subseteq P \X B!Branches
  BY DEF NearIsRight
<1> HIDE DEF more
<1> QED BY <1>4, <1>5 DEF NearIsRight, more

(* An executed predicate is away from one branch only.                             *)
LEMMA UpdatedIsRight ==
  ASSUME NEW P, NEW t, NEW took, TraceIsRight(P, t, took), t.entered,
         NEW p \in P, NEW b \in B!Branches, NEW d \in MCDistances,
         NEW u, u = B!UpdateDistances(t, p, b, d)
  PROVE  /\ TraceIsRight(P, u, took \cup {<<p, b>>})
         /\ u.entered /\ u.count[p] # 0
         /\ \A q \in P : q # p => u.count[q] = t.count[q]
         /\ \A g \in P \X B!Branches :
              u.distance[g] <= t.distance[g] /\ (g[1] # p => u.distance[g] = t.distance[g])
<1>1. d \in 1 .. B!Inf
  BY OtherConstants DEF B!ConstantsType
<1>2. /\ t.count \in [P -> Nat] /\ t.distance \in [P \X B!Branches -> 0 .. B!Inf]
      /\ t = [entered |-> t.entered, count |-> t.count, distance |-> t.distance]
  BY DEF TraceIsRight, Traces
<1> DEFINE new(g) == IF g[1] # p THEN t.distance[g]
                     ELSE B!Least(t.distance[g], IF g[2] = b THEN 0 ELSE d)
<1>3. /\ u.entered = t.entered
      /\ u.count = [t.count EXCEPT ![p] = t.count[p] + 1]
      /\ u.distance = [g \in P \X B!Branches |-> new(g)]
      /\ u = [entered |-> u.entered, count |-> u.count, distance |-> u.distance]
  BY <1>2 DEF B!UpdateDistances
<1>4. \A g \in P \X B!Branches : t.distance[g] \in 0 .. B!Inf
  BY <1>2
<1>5. \A g \in P \X B!Branches : new(g) \in 0 .. B!Inf /\ new(g) <= t.distance[g]
  <2> SUFFICES ASSUME NEW g \in P \X B!Branches
               PROVE  new(g) \in 0 .. B!Inf /\ new(g) <= t.distance[g]
    OBVIOUS
  <2>1. t.distance[g] \in 0 .. B!Inf /\ t.distance[g] \in Int
    BY <1>4 DEF B!Inf
  <2>2. (IF g[2] = b THEN 0 ELSE d) \in 0 .. B!Inf
    BY <1>1 DEF B!Inf
  <2> DEFINE x == IF g[2] = b THEN 0 ELSE d
  <2>3. x \in 0 .. B!Inf
    BY <2>2
  <2> HIDE DEF x
  <2>4. B!Least(t.distance[g], x) \in 0 .. B!Inf /\ B!Least(t.distance[g], x) <= t.distance[g]
    BY <2>1, <2>3, LeastType
  <2> QED BY <2>1, <2>4 DEF x
<1>6. u \in Traces(P)
  <2>1. u.distance \in [P \X B!Branches -> 0 .. B!Inf]
    <3> HIDE DEF new
    <3> QED BY <1>3, <1>5
  <2>2. u.count \in [P -> Nat] /\ u.entered \in BOOLEAN
    BY <1>2, <1>3 DEF TraceIsRight, Traces
  <2> QED BY <1>3, <2>1, <2>2 DEF Traces
<1>7. u.count[p] # 0 /\ \A q \in P : q # p => u.count[q] = t.count[q]
  BY <1>2, <1>3
<1>8. ASSUME NEW q \in P, NEW c \in B!Branches
      PROVE  /\ <<q, c>> \in took \cup {<<p, b>>} <=> u.distance[<<q, c>>] = 0
             /\ u.count[q] = 0 => u.distance[<<q, c>>] = B!Inf
             /\ u.count[q] # 0 =>
                  u.distance[<<q, "true">>] = 0 \/ u.distance[<<q, "false">>] = 0
  <2>1. /\ \A e \in B!Branches : u.distance[<<q, e>>] = new(<<q, e>>)
        /\ "true" \in B!Branches /\ "false" \in B!Branches
    BY <1>3 DEF B!Branches
  <2>2. CASE q # p
    <3>1. \A e \in B!Branches : u.distance[<<q, e>>] = t.distance[<<q, e>>]
      BY <2>1, <2>2
    <3>2. <<q, c>> # <<p, b>>
      BY <2>2
    <3> QED BY <1>7, <2>1, <2>2, <3>1, <3>2 DEF TraceIsRight
  <2>3. CASE q = p
    <3>1. \A e \in B!Branches : u.distance[<<q, e>>] =
                                  B!Least(t.distance[<<q, e>>], IF e = b THEN 0 ELSE d)
      BY <2>1, <2>3
    <3>2. \A e \in B!Branches : t.distance[<<q, e>>] \in 0 .. B!Inf
      BY <1>4
    <3>3. u.distance[<<p, b>>] = 0
      <4>1. u.distance[<<p, b>>] = B!Least(t.distance[<<p, b>>], 0)
        BY <2>3, <3>1
      <4>2. t.distance[<<p, b>>] \in 0 .. B!Inf /\ 0 \in 0 .. B!Inf
        BY <2>3, <3>2 DEF B!Inf
      <4> QED BY <4>1, <4>2, LeastType
    <3>4. c # b => (u.distance[<<q, c>>] = 0 <=> t.distance[<<q, c>>] = 0)
      <4> SUFFICES ASSUME c # b PROVE u.distance[<<q, c>>] = 0 <=> t.distance[<<q, c>>] = 0
        OBVIOUS
      <4>1. u.distance[<<q, c>>] = B!Least(t.distance[<<q, c>>], d)
        BY <3>1
      <4>2. t.distance[<<q, c>>] \in 0 .. B!Inf /\ d \in 0 .. B!Inf /\ d # 0
        BY <1>1, <3>2 DEF B!Inf
      <4> QED BY <4>1, <4>2, LeastType
    <3>5. <<q, c>> \in took \cup {<<p, b>>} <=> u.distance[<<q, c>>] = 0
      BY <2>3, <3>3, <3>4 DEF TraceIsRight
    <3> QED BY <1>7, <2>3, <3>3, <3>5 DEF B!Branches
  <2> QED BY <2>2, <2>3
<1>9. took \cup {<<p, b>>} \subseteq GoalsFor(P) /\ P # {}
  BY DEF TraceIsRight, GoalsFor
<1>10. TraceIsRight(P, u, took \cup {<<p, b>>})
  BY <1>3, <1>6, <1>8, <1>9 DEF TraceIsRight
<1>11. \A g \in P \X B!Branches :
         u.distance[g] <= t.distance[g] /\ (g[1] # p => u.distance[g] = t.distance[g])
  BY <1>3, <1>5
<1> QED BY <1>3, <1>7, <1>10, <1>11

(* Normalising keeps the order, and zero apart from everything else.               *)
LEMMA DivIs ==
  ASSUME NEW p \in Nat, NEW k \in Nat, k >= 1
  PROVE  p \div k \in Int /\ k * (p \div k) <= p /\ p < k * (p \div k + 1)
OBVIOUS

LEMMA NormaliseIs ==
  ASSUME NEW d \in 0 .. B!Inf, d # B!Inf,
         NEW q, q = B!Normalise(d), NEW k, k = Unit + d
  PROVE  /\ q \in Int /\ k \in Nat /\ k >= Unit /\ k >= 1 /\ d = k - Unit
         /\ B!One * d \in Nat /\ k * q <= B!One * d /\ B!One * d < k * (q + 1)
<1>1. d \in Nat /\ Unit \in Nat /\ Unit >= 1 /\ B!One \in Nat
  BY UnitsType DEF B!Inf
<1>2. B!One * d \in Nat
  BY <1>1
<1>3. k \in Nat /\ k >= Unit /\ k >= 1 /\ d = k - Unit
  BY <1>1
<1>4. q = (B!One * d) \div k
  BY DEF B!Normalise
<1> QED BY <1>2, <1>3, <1>4, DivIs

LEMMA NormaliseType ==
  ASSUME NEW d \in 0 .. B!Inf
  PROVE  B!Normalise(d) \in 0 .. B!One /\ (B!Normalise(d) = 0 <=> d = 0)
<1>0. d \in Nat /\ Unit \in Nat /\ Unit >= 1 /\ B!One \in Nat /\ B!One >= Unit + 1
  BY UnitsType DEF B!Inf
<1>1. CASE d = B!Inf
  BY <1>0, <1>1 DEF B!Normalise, B!Inf
<1>2. CASE d # B!Inf
  <2> DEFINE q == B!Normalise(d)
             k == Unit + d
             X == B!One
             w == Unit
  <2>1. /\ q \in Int /\ k \in Nat /\ k >= 1 /\ d = k - w
        /\ X * d \in Nat /\ k * q <= X * d /\ X * d < k * (q + 1)
    BY <1>2, NormaliseIs
  <2>2. X \in Nat /\ w \in Nat /\ w >= 1 /\ X >= w + 1
    BY <1>0
  <2> HIDE DEF q, k, X, w
  <2>3. q >= 0
    <3> SUFFICES ASSUME q + 1 <= 0 PROVE FALSE
      BY <2>1
    <3>1. k * (q + 1) <= 0
      BY <2>1
    <3> QED BY <2>1, <3>1
  <2>4. q <= X
    <3> SUFFICES ASSUME q >= X + 1 PROVE FALSE
      BY <2>1, <2>2
    <3>1. k * q >= k * (X + 1)
      BY <2>1, <2>2
    <3>2. k * (X + 1) = k * X + k
      BY <2>1, <2>2
    <3>3. X * d = k * X - X * w /\ X * w >= 0
      BY <2>1, <2>2
    <3>4. k * X \in Int /\ X * w \in Int /\ k * q \in Int
      BY <2>1, <2>2
    <3> QED BY <2>1, <3>1, <3>2, <3>3, <3>4
  <2>5. d = 0 => q = 0
    <3> SUFFICES ASSUME d = 0, q >= 1 PROVE FALSE
      BY <2>1, <2>3
    <3>1. X * d = 0
      BY <2>2
    <3>2. k * q >= k
      BY <2>1
    <3> QED BY <2>1, <3>1, <3>2
  <2>6. d # 0 => q # 0
    <3> SUFFICES ASSUME d # 0, q = 0 PROVE FALSE
      OBVIOUS
    <3>1. X * d < k
      BY <2>1
    <3>2. X * d >= (w + 1) * d
      BY <1>0, <2>2
    <3>3. (w + 1) * d = w * d + d /\ w * d >= w
      BY <1>0, <2>2
    <3>4. w * d \in Int /\ (w + 1) * d \in Int
      BY <1>0, <2>2
    <3> QED BY <1>0, <2>1, <2>2, <3>1, <3>2, <3>3, <3>4
  <2>7. q \in 0 .. X /\ (q = 0 <=> d = 0)
    BY <2>1, <2>2, <2>3, <2>4, <2>5, <2>6
  <2> QED BY <2>7 DEF q, X
<1> QED BY <1>1, <1>2

LEMMA NormaliseGrows ==
  ASSUME NEW d \in 0 .. B!Inf, NEW e \in 0 .. B!Inf, d <= e
  PROVE  B!Normalise(d) <= B!Normalise(e)
<1>1. CASE e = B!Inf
  <2>1. B!Normalise(e) = B!One
    BY <1>1 DEF B!Normalise
  <2> QED BY <2>1, NormaliseType, UnitsType
<1>2. CASE e # B!Inf
  <2> DEFINE q == B!Normalise(d)
             r == B!Normalise(e)
             k == Unit + d
             l == Unit + e
             X == B!One
             w == Unit
  <2>0. d \in Nat /\ e \in Nat /\ d # B!Inf
    BY <1>2 DEF B!Inf
  <2>1. /\ q \in Int /\ k \in Nat /\ k >= 1 /\ d = k - w
        /\ X * d \in Nat /\ k * q <= X * d
    BY <2>0, NormaliseIs
  <2>2. /\ r \in Int /\ l \in Nat /\ e = l - w /\ X * e \in Nat /\ X * e < l * (r + 1)
    BY <1>2, NormaliseIs
  <2>3. l >= k /\ X \in Nat /\ w \in Nat /\ X * w \in Nat
    BY <2>0, UnitsType
  <2> SUFFICES ASSUME r + 1 <= q PROVE FALSE
    BY <2>1, <2>2
  <2> HIDE DEF q, r, k, l, X, w
  <2> DEFINE m == X - q
             z == X * w
  <2>4. m \in Int /\ q = X - m /\ z \in Nat
    BY <2>1, <2>3
  <2>5. X * d = k * X - z /\ X * e = l * X - z /\ k * X \in Int /\ l * X \in Int
    BY <2>1, <2>2, <2>3
  <2> HIDE DEF m, z
  <2>6. k * m \in Int /\ l * m \in Int
    BY <2>1, <2>2, <2>4
  <2>7. z <= k * m
    <3>1. k * q = k * X - k * m
      BY <2>1, <2>3, <2>4
    <3> QED BY <2>1, <2>4, <2>5, <2>6, <3>1
  <2>8. l * m < z
    <3>1. l * (r + 1) <= l * q
      BY <2>1, <2>2
    <3>2. l * q = l * X - l * m
      BY <2>2, <2>3, <2>4
    <3>3. l * (r + 1) \in Int
      BY <2>2
    <3> QED BY <2>2, <2>4, <2>5, <2>6, <3>1, <3>2, <3>3
  <2>9. m >= 0
    <3> SUFFICES ASSUME m < 0 PROVE FALSE
      BY <2>4
    <3>1. k * m <= 0 - 1
      BY <2>1, <2>4
    <3> QED BY <2>4, <2>6, <2>7, <3>1
  <2>10. k * m <= l * m
    BY <2>1, <2>2, <2>3, <2>4, <2>9
  <2> QED BY <2>4, <2>6, <2>7, <2>8, <2>10
<1> QED BY <1>1, <1>2

(* What a way to a goal that was not reached is worth.                             *)
Way == [level : Nat, distance : 0 .. B!Inf]

FitnessOf(c) == B!One * c.level + B!Normalise(c.distance)

LEMMA FitnessOfType ==
  ASSUME NEW c \in Way
  PROVE  /\ FitnessOf(c) \in Nat
         /\ FitnessOf(c) = 0 <=> c.level = 0 /\ c.distance = 0
         /\ c.level # 0 => FitnessOf(c) >= B!One
         /\ c.level = 0 => FitnessOf(c) = B!Normalise(c.distance)
<1>1. c.level \in Nat /\ c.distance \in 0 .. B!Inf
  BY DEF Way
<1>2. B!Normalise(c.distance) \in 0 .. B!One /\ (B!Normalise(c.distance) = 0 <=> c.distance = 0)
  BY <1>1, NormaliseType
<1> DEFINE X == B!One
           l == c.level
           x == B!Normalise(c.distance)
<1>3. X \in Nat /\ X >= 1 /\ l \in Nat /\ x \in 0 .. X /\ FitnessOf(c) = X * l + x
  BY <1>1, <1>2, UnitsType DEF FitnessOf
<1> HIDE DEF X, l, x
<1>4. X * l \in Nat /\ (l = 0 => X * l = 0) /\ (l # 0 => X * l >= X)
  BY <1>3
<1>5. /\ FitnessOf(c) \in Nat
      /\ FitnessOf(c) = 0 <=> l = 0 /\ x = 0
      /\ l # 0 => FitnessOf(c) >= X
      /\ l = 0 => FitnessOf(c) = x
  BY <1>3, <1>4
<1> QED BY <1>1, <1>2, <1>5 DEF X, l, x

LEMMA CloserIsFitter ==
  ASSUME NEW c \in Way, NEW d \in Way, B!Closer(c, d)
  PROVE  FitnessOf(c) <= FitnessOf(d)
<1>1. /\ c.level \in Nat /\ c.distance \in 0 .. B!Inf
      /\ d.level \in Nat /\ d.distance \in 0 .. B!Inf
  BY DEF Way
<1>2. B!Normalise(c.distance) \in 0 .. B!One /\ B!Normalise(d.distance) \in 0 .. B!One
  BY <1>1, NormaliseType
<1>3. CASE c.level < d.level
  <2> DEFINE X == B!One
             l == c.level
             k == d.level
             x == B!Normalise(c.distance)
             y == B!Normalise(d.distance)
  <2>1. /\ X \in Nat /\ l \in Nat /\ k \in Nat /\ l + 1 <= k /\ x \in 0 .. X /\ y \in 0 .. X
        /\ FitnessOf(c) = X * l + x /\ FitnessOf(d) = X * k + y
    BY <1>1, <1>2, <1>3, UnitsType DEF FitnessOf
  <2> HIDE DEF X, l, k, x, y
  <2>2. X * l \in Nat /\ X * k \in Nat /\ X * l + X <= X * k
    <3>1. X * (l + 1) <= X * k
      BY <2>1
    <3>2. X * (l + 1) = X * l + X
      BY <2>1
    <3> QED BY <2>1, <3>1, <3>2
  <2> QED BY <2>1, <2>2
<1>4. CASE c.level = d.level /\ c.distance <= d.distance
  <2>1. B!Normalise(c.distance) <= B!Normalise(d.distance)
    BY <1>1, <1>4, NormaliseGrows
  <2>2. B!One * c.level = B!One * d.level /\ B!One * d.level \in Int /\ B!One \in Nat
    BY <1>1, <1>4, UnitsType
  <2> QED BY <1>2, <2>1, <2>2 DEF FitnessOf
<1> QED BY <1>3, <1>4 DEF B!Closer

LEMMA ClosestExists ==
  ASSUME NEW Z, Z \subseteq Way, Z # {}
  PROVE  \E c \in Z : \A d \in Z : B!Closer(c, d)
<1>0. \A c \in Z : c.level \in Nat /\ c.distance \in Nat
  BY DEF Way, B!Inf
<1> DEFINE levels == {c.level : c \in Z}
<1>1. PICK least \in levels : \A x \in levels : least <= x
  <2>1. levels \subseteq Nat /\ levels # {}
    BY <1>0
  <2> HIDE DEF levels
  <2> QED BY <2>1, LeastExists
<1> DEFINE lowest == {c \in Z : c.level = least}
           lengths == {c.distance : c \in lowest}
<1>2. PICK short \in lengths : \A x \in lengths : short <= x
  <2>1. lengths \subseteq Nat /\ lengths # {}
    BY <1>0, <1>1
  <2> HIDE DEF lengths
  <2> QED BY <2>1, LeastExists
<1>3. PICK c \in Z : c.level = least /\ c.distance = short
  BY <1>2
<1>4. ASSUME NEW d \in Z PROVE B!Closer(c, d)
  <2>1. least <= d.level
    BY <1>1
  <2>2. d.level = least => short <= d.distance
    BY <1>2
  <2> QED BY <1>0, <1>3, <2>1, <2>2 DEF B!Closer
<1> QED BY <1>4

(* The distance of an executed predicate is that of the branch it did not take.    *)
LEMMA OneIsZero ==
  ASSUME NEW P, NEW t, NEW took, TraceIsRight(P, t, took), NEW q \in P, t.count[q] # 0
  PROVE  LET sum == B!Plus(t.distance[<<q, "true">>], t.distance[<<q, "false">>])
         IN  /\ sum \in 0 .. B!Inf
             /\ t.distance[<<q, "true">>] <= sum /\ t.distance[<<q, "false">>] <= sum
             /\ sum = t.distance[<<q, "true">>] \/ sum = t.distance[<<q, "false">>]
<1>1. t.distance[<<q, "true">>] \in 0 .. B!Inf /\ t.distance[<<q, "false">>] \in 0 .. B!Inf
  BY DEF TraceIsRight, Traces, B!Branches
<1> DEFINE x == t.distance[<<q, "true">>]
           y == t.distance[<<q, "false">>]
<1>2. x = 0 \/ y = 0
  BY DEF TraceIsRight
<1> HIDE DEF x, y
<1>3. x \in 0 .. B!Inf /\ y \in 0 .. B!Inf
  BY <1>1 DEF x, y
<1>4. /\ B!Plus(x, y) \in 0 .. B!Inf /\ x <= B!Plus(x, y) /\ y <= B!Plus(x, y)
      /\ B!Plus(x, y) = x \/ B!Plus(x, y) = y
  BY <1>2, <1>3 DEF B!Plus, B!Inf
<1> QED BY <1>4 DEF x, y

Farthest == [level |-> meta.diameter, distance |-> 0]

LEMMA WaysType ==
  ASSUME MetaIsRight, NEW t, NEW took, TraceIsRight(meta.predicates, t, took),
         NEW p \in meta.predicates, t.count[p] = 0
  PROVE  \A c \in {Farthest} \cup B!Candidates(t, p) : c \in Way /\ c.level # 0
<1>1. Farthest \in Way /\ Farthest.level # 0
  BY DEF MetaIsRight, Farthest, Way, B!Inf
<1>2. ASSUME NEW c \in B!Candidates(t, p) PROVE c \in Way /\ c.level # 0
  <2>1. PICK q \in meta.predicates :
           /\ t.count[q] > 0
           /\ c = [level |-> meta.level[<<q, p>>],
                   distance |-> B!Plus(t.distance[<<q, "true">>], t.distance[<<q, "false">>])]
    BY DEF B!Candidates
  <2>2. q # p /\ t.count[q] # 0
    BY <2>1
  <2>3. meta.level[<<q, p>>] \in Nat /\ meta.level[<<q, p>>] # 0
    BY <2>2 DEF MetaIsRight
  <2>4. c.distance \in 0 .. B!Inf
    BY <2>1, <2>2, OneIsZero
  <2> QED BY <2>1, <2>3, <2>4 DEF Way
<1> QED BY <1>1, <1>2

LEMMA ControlFlowDistanceIs ==
  ASSUME MetaIsRight, NEW t, NEW took, TraceIsRight(meta.predicates, t, took),
         NEW g \in B!Goals, NEW c, c = B!ControlFlowDistance(t, g)
  PROVE  /\ c \in Way
         /\ meta.predicates = {} => c.level = (IF t.entered THEN 0 ELSE 1) /\ c.distance = 0
         /\ meta.predicates # {} =>
              /\ g \in meta.predicates \X B!Branches /\ g[1] \in meta.predicates
              /\ t.count[g[1]] # 0 => c.level = 0 /\ c.distance = t.distance[g]
              /\ t.count[g[1]] = 0 =>
                   /\ c.level # 0 /\ c \in {Farthest} \cup B!Candidates(t, g[1])
                   /\ \A d \in {Farthest} \cup B!Candidates(t, g[1]) : B!Closer(c, d)
<1>1. CASE meta.predicates = {}
  <2>1. c = [level |-> IF t.entered THEN 0 ELSE 1, distance |-> 0]
    BY <1>1, GoalsAre DEF B!ControlFlowDistance
  <2> QED BY <1>1, <2>1 DEF Way, B!Inf
<1>2. CASE meta.predicates # {}
  <2>1. /\ g \in meta.predicates \X B!Branches /\ g[1] \in meta.predicates /\ ~B!BranchLess
        /\ t.count[g[1]] \in Nat /\ t.distance[g] \in 0 .. B!Inf
    BY <1>2, GoalsAre DEF GoalsFor, TraceIsRight, Traces
  <2>2. CASE t.count[g[1]] # 0
    <3>1. t.entered /\ t.count[g[1]] > 0
      <4>1. \A p \in meta.predicates : t.count[p] # 0 => t.entered
        BY DEF TraceIsRight
      <4> QED BY <2>1, <2>2, <4>1
    <3>2. c = [level |-> 0, distance |-> t.distance[g]]
      BY <2>1, <3>1 DEF B!ControlFlowDistance
    <3> QED BY <1>2, <2>1, <2>2, <3>2 DEF Way
  <2>3. CASE t.count[g[1]] = 0
    <3> DEFINE ways == {Farthest} \cup B!Candidates(t, g[1])
    <3>1. ways \subseteq Way /\ ways # {} /\ \A d \in ways : d.level # 0
      BY <2>1, <2>3, WaysType
    <3>2. c \in ways /\ \A d \in ways : B!Closer(c, d)
      <4>1. CASE t.entered
        <5>0. ~(t.count[g[1]] > 0)
          BY <2>3
        <5>1. c = CHOOSE c_1 \in ways : \A d \in ways : B!Closer(c_1, d)
          BY <2>1, <4>1, <5>0, Zenon DEF B!ControlFlowDistance, Farthest
        <5> HIDE DEF ways
        <5> QED BY <3>1, <5>1, ClosestExists
      <4>2. CASE ~t.entered
        <5>1. \A q \in meta.predicates : ~(t.count[q] > 0)
          <6>1. \A q \in meta.predicates : t.count[q] # 0 => t.entered
            BY DEF TraceIsRight
          <6> QED BY <4>2, <6>1
        <5>2. B!Candidates(t, g[1]) = {}
          BY <5>1 DEF B!Candidates
        <5>3. c = Farthest
          BY <2>1, <4>2 DEF B!ControlFlowDistance, Farthest
        <5>4. B!Closer(Farthest, Farthest)
          BY DEF B!Closer, Farthest
        <5> QED BY <5>2, <5>3, <5>4
      <4> QED BY <4>1, <4>2
    <3> QED BY <1>2, <2>1, <2>3, <3>1, <3>2
  <2> QED BY <2>2, <2>3
<1> QED BY <1>1, <1>2

LEMMA FitnessIs ==
  ASSUME MetaIsRight, NEW t, NEW took, TraceIsRight(meta.predicates, t, took), NEW g \in B!Goals
  PROVE  /\ B!Fitness(t, g) \in Nat /\ (B!Fitness(t, g) = 0 <=> g \in took)
         /\ \A missed : NearIsRight(meta.predicates, t, took, missed) =>
              (B!IsCovered(t, g) <=> g \in took \cup missed)
<1> DEFINE c == B!ControlFlowDistance(t, g)
<1>1. B!Fitness(t, g) = FitnessOf(c)
  BY DEF B!Fitness, FitnessOf
<1>2. c \in Way
  BY ControlFlowDistanceIs
<1>3. CASE meta.predicates = {}
  <2>1. c.level = (IF t.entered THEN 0 ELSE 1) /\ c.distance = 0
    BY <1>3, ControlFlowDistanceIs
  <2>2. g \in took <=> t.entered
    BY <1>3, GoalsAre DEF TraceIsRight
  <2>3. B!IsCovered(t, g) <=> t.entered
    BY <1>3, GoalsAre DEF B!IsCovered
  <2>4. \A missed : NearIsRight(meta.predicates, t, took, missed) => missed = {}
    BY <1>3 DEF NearIsRight
  <2> HIDE DEF c
  <2> QED BY <1>1, <1>2, <2>1, <2>2, <2>3, <2>4, FitnessOfType
<1>4. CASE meta.predicates # {}
  <2>1. /\ g \in meta.predicates \X B!Branches /\ g[1] \in meta.predicates
        /\ t.count[g[1]] # 0 => c.level = 0 /\ c.distance = t.distance[g]
        /\ t.count[g[1]] = 0 => c.level # 0
    BY <1>4, ControlFlowDistanceIs
  <2> HIDE DEF c
  <2>2. g = <<g[1], g[2]>> /\ g[2] \in B!Branches
    BY <2>1
  <2>3. g \in took <=> t.distance[g] = 0
    <3>1. \A p \in meta.predicates, b \in B!Branches :
            <<p, b>> \in took <=> t.distance[<<p, b>>] = 0
      BY DEF TraceIsRight
    <3> QED BY <2>1, <2>2, <3>1
  <2>4. t.count[g[1]] = 0 => t.distance[g] # 0
    <3>1. \A p \in meta.predicates, b \in B!Branches :
            t.count[p] = 0 => t.distance[<<p, b>>] = B!Inf
      BY DEF TraceIsRight
    <3>2. B!Inf # 0
      BY DEF B!Inf
    <3> QED BY <2>1, <2>2, <3>1, <3>2
  <2>5. t.count[g[1]] \in Nat
    BY <2>1 DEF TraceIsRight, Traces
  <2>6. ASSUME NEW missed, NearIsRight(meta.predicates, t, took, missed)
        PROVE  B!IsCovered(t, g) <=> g \in took \cup missed
    <3>1. t.distance[g] < Close <=> g \in took \cup missed
      BY <2>1, <2>6 DEF NearIsRight
    <3>2. t.count[g[1]] = 0 => t.distance[g] = B!Inf
      BY <2>1, <2>2 DEF TraceIsRight
    <3>3. ~(B!Inf < Close)
      BY UnitsType DEF B!Inf
    <3> QED BY <1>4, <2>5, <3>1, <3>2, <3>3, GoalsAre DEF B!IsCovered
  <2>7. FitnessOf(c) = 0 <=> g \in took
    BY <1>2, <2>1, <2>3, <2>4, FitnessOfType
  <2> QED BY <1>1, <1>2, <2>6, <2>7, FitnessOfType
<1> QED BY <1>3, <1>4

(* A predicate that is executed brings a test closer to every goal, or leaves it    *)
(* where it was.                                                                   *)
LEMMA FitnessFalls ==
  ASSUME MetaIsRight, NEW t, NEW took, TraceIsRight(meta.predicates, t, took), t.entered,
         NEW p \in meta.predicates, NEW b \in B!Branches, NEW d \in MCDistances,
         NEW u, u = B!UpdateDistances(t, p, b, d), NEW g \in B!Goals
  PROVE  B!Fitness(u, g) <= B!Fitness(t, g)
<1> DEFINE P == meta.predicates
           c == B!ControlFlowDistance(t, g)
           e == B!ControlFlowDistance(u, g)
<1>1. /\ TraceIsRight(P, u, took \cup {<<p, b>>})
      /\ u.entered /\ u.count[p] # 0
      /\ \A q \in P : q # p => u.count[q] = t.count[q]
      /\ \A h \in P \X B!Branches :
           u.distance[h] <= t.distance[h] /\ (h[1] # p => u.distance[h] = t.distance[h])
  BY UpdatedIsRight
<1>2. /\ c \in Way /\ g \in P \X B!Branches /\ g[1] \in P
      /\ t.count[g[1]] # 0 => c.level = 0 /\ c.distance = t.distance[g]
      /\ t.count[g[1]] = 0 =>
           /\ c.level # 0 /\ c \in {Farthest} \cup B!Candidates(t, g[1])
           /\ \A a \in {Farthest} \cup B!Candidates(t, g[1]) : B!Closer(c, a)
  BY ControlFlowDistanceIs
<1>3. /\ e \in Way
      /\ u.count[g[1]] # 0 => e.level = 0 /\ e.distance = u.distance[g]
      /\ u.count[g[1]] = 0 =>
           /\ e.level # 0 /\ e \in {Farthest} \cup B!Candidates(u, g[1])
           /\ \A a \in {Farthest} \cup B!Candidates(u, g[1]) : B!Closer(e, a)
  BY <1>1, <1>2, ControlFlowDistanceIs
<1>4. B!Fitness(t, g) = FitnessOf(c) /\ B!Fitness(u, g) = FitnessOf(e)
  BY DEF B!Fitness, FitnessOf
<1>5. \A q \in P : t.count[q] # 0 => u.count[q] # 0
  BY <1>1
<1>6. \A h \in P \X B!Branches : t.distance[h] \in 0 .. B!Inf /\ u.distance[h] \in 0 .. B!Inf
  BY <1>1 DEF TraceIsRight, Traces
<1> HIDE DEF c, e
<1>7. CASE u.count[g[1]] # 0
  <2>1. FitnessOf(e) = B!Normalise(u.distance[g]) /\ u.distance[g] \in 0 .. B!Inf
    BY <1>2, <1>3, <1>6, <1>7, FitnessOfType
  <2>2. CASE t.count[g[1]] # 0
    <3>1. FitnessOf(c) = B!Normalise(t.distance[g]) /\ t.distance[g] \in 0 .. B!Inf
      BY <1>2, <1>6, <2>2, FitnessOfType
    <3>2. u.distance[g] <= t.distance[g]
      BY <1>1, <1>2
    <3> QED BY <1>4, <2>1, <3>1, <3>2, NormaliseGrows
  <2>3. CASE t.count[g[1]] = 0
    <3>1. FitnessOf(c) >= B!One /\ FitnessOf(c) \in Nat
      BY <1>2, <2>3, FitnessOfType
    <3>2. B!Normalise(u.distance[g]) \in 0 .. B!One
      BY <2>1, NormaliseType
    <3> QED BY <1>4, <2>1, <3>1, <3>2, UnitsType
  <2> QED BY <2>2, <2>3
<1>8. CASE u.count[g[1]] = 0
  <2>1. t.count[g[1]] = 0
    BY <1>2, <1>5, <1>8
  <2>2. PICK a \in {Farthest} \cup B!Candidates(u, g[1]) : a \in Way /\ B!Closer(a, c)
    <3>1. CASE c = Farthest
      BY <1>2, <3>1 DEF B!Closer, Way
    <3>2. CASE c \in B!Candidates(t, g[1])
      <4>1. PICK q \in P : /\ t.count[q] > 0 /\ meta.level[<<q, g[1]>>] # B!Inf
                           /\ c = [level |-> meta.level[<<q, g[1]>>],
                                   distance |-> B!Plus(t.distance[<<q, "true">>],
                                                       t.distance[<<q, "false">>])]
        BY <3>2 DEF B!Candidates
      <4> DEFINE way == [level |-> meta.level[<<q, g[1]>>],
                         distance |-> B!Plus(u.distance[<<q, "true">>], u.distance[<<q, "false">>])]
      <4>2. t.count[q] # 0 /\ u.count[q] # 0 /\ u.count[q] > 0
        <5>1. t.count[q] \in Nat /\ u.count[q] \in Nat
          BY <1>1, TraceType
        <5>2. t.count[q] # 0
          BY <4>1, <5>1
        <5>3. u.count[q] # 0
          BY <1>5, <5>2
        <5> QED BY <5>1, <5>2, <5>3
      <4>3. way \in B!Candidates(u, g[1])
        BY <4>1, <4>2 DEF B!Candidates
      <4>4. way.distance <= c.distance
        <5> DEFINE x == t.distance[<<q, "true">>]
                   y == t.distance[<<q, "false">>]
                   v == u.distance[<<q, "true">>]
                   w == u.distance[<<q, "false">>]
        <5>1. v <= x /\ w <= y
          BY <1>1 DEF B!Branches
        <5>2. v \in 0 .. B!Inf /\ w \in 0 .. B!Inf /\ x \in 0 .. B!Inf /\ y \in 0 .. B!Inf
          BY <1>6 DEF B!Branches
        <5>3. /\ B!Plus(x, y) \in 0 .. B!Inf /\ x <= B!Plus(x, y) /\ y <= B!Plus(x, y)
              /\ B!Plus(v, w) = v \/ B!Plus(v, w) = w
          BY <1>1, <4>2, OneIsZero
        <5> HIDE DEF v, w, x, y
        <5>4. /\ B!Plus(x, y) \in Int
              /\ v \in Int /\ w \in Int /\ x \in Int /\ y \in Int
          <6>1. \A n \in 0 .. B!Inf : n \in Int
            BY DEF B!Inf
          <6> QED BY <5>2, <5>3, <6>1
        <5>5. B!Plus(v, w) <= B!Plus(x, y)
          BY <5>1, <5>3, <5>4
        <5> QED BY <4>1, <5>5 DEF v, w, x, y
      <4>5. way \in Way
        BY <1>1, <1>2, <1>8, <4>3, WaysType
      <4>6. B!Closer(way, c)
        BY <4>1, <4>4 DEF B!Closer
      <4> QED BY <4>3, <4>5, <4>6
    <3> QED BY <1>2, <2>1, <3>1, <3>2
  <2>3. FitnessOf(e) <= FitnessOf(a)
    BY <1>3, <1>8, <2>2, CloserIsFitter
  <2>4. FitnessOf(a) <= FitnessOf(c)
    BY <1>2, <2>2, CloserIsFitter
  <2>5. FitnessOf(a) \in Nat /\ FitnessOf(c) \in Nat /\ FitnessOf(e) \in Nat
    BY <1>2, <1>3, <2>2, FitnessOfType
  <2> QED BY <1>4, <2>3, <2>4, <2>5
<1> QED BY <1>7, <1>8

(* So does entering the code object.                                               *)
LEMMA EnteringFalls ==
  ASSUME MetaIsRight, NEW t, NEW took, TraceIsRight(meta.predicates, t, took),
         NEW u, u = [t EXCEPT !.entered = TRUE], NEW more,
         TraceIsRight(meta.predicates, u, more), NEW g \in B!Goals
  PROVE  B!Fitness(u, g) <= B!Fitness(t, g)
<1>1. u.entered /\ u.count = t.count /\ u.distance = t.distance /\ t.entered \in BOOLEAN
  BY DEF TraceIsRight, Traces
<1> DEFINE c == B!ControlFlowDistance(t, g)
           e == B!ControlFlowDistance(u, g)
<1>2. B!Fitness(t, g) = FitnessOf(c) /\ B!Fitness(u, g) = FitnessOf(e)
  BY DEF B!Fitness, FitnessOf
<1>3. c \in Way /\ e \in Way
  BY ControlFlowDistanceIs
<1>4. FitnessOf(c) \in Nat /\ FitnessOf(e) \in Nat
  BY <1>3, FitnessOfType
<1>5. CASE meta.predicates = {}
  <2>1. e.level = 0 /\ e.distance = 0
    BY <1>1, <1>5, ControlFlowDistanceIs
  <2>2. FitnessOf(e) = 0
    BY <1>3, <2>1, FitnessOfType
  <2> QED BY <1>2, <1>4, <2>2
<1>6. CASE meta.predicates # {}
  <2>1. g[1] \in meta.predicates
    BY <1>6, ControlFlowDistanceIs
  <2>2. CASE t.entered
    <3>1. t = [entered |-> t.entered, count |-> t.count, distance |-> t.distance]
      BY TraceType
    <3>2. t.entered = TRUE
      BY <1>1, <2>2
    <3>3. u = t
      <4>1. [t EXCEPT !.entered = t.entered] = t
        BY <3>1
      <4> QED BY <3>2, <4>1
    <3>4. B!Fitness(u, g) = B!Fitness(t, g)
      BY <3>3
    <3> HIDE DEF c, e
    <3> QED BY <1>2, <1>4, <3>4
  <2>3. CASE ~t.entered
    <3>1. \A q \in meta.predicates :
            t.count[q] = 0 /\ ~(t.count[q] > 0) /\ u.count[q] = 0 /\ ~(u.count[q] > 0)
      BY <1>1, <2>3, TraceType
    <3>2. B!Candidates(t, g[1]) = {} /\ B!Candidates(u, g[1]) = {}
      BY <3>1 DEF B!Candidates
    <3>3. c = Farthest
      <4>1. c \in {Farthest} \cup B!Candidates(t, g[1])
        BY <1>6, <2>1, <3>1, ControlFlowDistanceIs
      <4> QED BY <3>2, <4>1
    <3>4. e = Farthest
      <4>1. e \in {Farthest} \cup B!Candidates(u, g[1])
        <5>1. u.count[g[1]] = 0
          BY <2>1, <3>1
        <5>2. u.count[g[1]] = 0 => e \in {Farthest} \cup B!Candidates(u, g[1])
          BY <1>6, ControlFlowDistanceIs
        <5> QED BY <5>1, <5>2
      <4> QED BY <3>2, <4>1
    <3> QED BY <1>2, <1>4, <3>3, <3>4
  <2> QED BY <2>2, <2>3
<1> QED BY <1>5, <1>6

--------------------------------------------------------------------------------
(* Recursion along the natural numbers.                                            *)

Recurs(f, m, Z, start, next) ==
  /\ f \in [0 .. m -> Z] /\ f[0] = start
  /\ \A k \in 1 .. m : f[k] = next[<<f[k - 1], k>>]

LEMMA RecursionExists ==
  ASSUME NEW m \in Nat, NEW Z, NEW start \in Z, NEW next \in [Z \X (1 .. m) -> Z]
  PROVE  \E f : Recurs(f, m, Z, start, next)
<1> DEFINE Good(f, n) == Recurs(f, n, Z, start, next)
           T == {n \in 0 .. m : \E f : Good(f, n)}
<1>1. ASSUME NEW n \in 0 .. m, \A k \in 0 .. m : k < n => k \in T
      PROVE  n \in T
  <2>1. CASE n = 0
    <3>1. Good([k \in 0 .. 0 |-> start], 0)
      BY DEF Recurs
    <3> QED BY <2>1, <3>1
  <2>2. CASE n # 0
    <3>1. n - 1 \in 0 .. m /\ n - 1 < n /\ n \in 1 .. m
      BY <2>2
    <3>2. PICK f : Good(f, n - 1)
      BY <1>1, <3>1
    <3> DEFINE v == next[<<f[n - 1], n>>]
               g == [k \in 0 .. n |-> IF k = n THEN v ELSE f[k]]
    <3>3. v \in Z
      <4>1. f[n - 1] \in Z
        BY <3>1, <3>2 DEF Recurs
      <4> QED BY <3>1, <4>1
    <3> HIDE DEF v
    <3>4. \A k \in 0 .. n - 1 : k \in 0 .. n /\ k # n /\ g[k] = f[k] /\ f[k] \in Z
      BY <3>1, <3>2 DEF Recurs
    <3>5. g \in [0 .. n -> Z]
      <4>1. \A k \in 0 .. n : k = n \/ k \in 0 .. n - 1
        BY <3>1
      <4> QED BY <3>3, <3>4, <4>1
    <3>6. g[0] = start
      BY <3>1, <3>2, <3>4 DEF Recurs
    <3>7. ASSUME NEW k \in 1 .. n PROVE g[k] = next[<<g[k - 1], k>>]
      <4>1. k - 1 \in 0 .. n - 1 /\ g[k - 1] = f[k - 1]
        BY <3>1, <3>4
      <4>2. CASE k = n
        BY <4>1, <4>2 DEF v
      <4>3. CASE k # n
        <5>1. k \in 1 .. n - 1 /\ k \in 0 .. n - 1
          BY <3>1, <4>3
        <5> QED BY <3>2, <3>4, <4>1, <5>1 DEF Recurs
      <4> QED BY <4>2, <4>3
    <3> HIDE DEF g
    <3>8. Good(g, n)
      BY <3>5, <3>6, <3>7 DEF Recurs
    <3> QED BY <3>8
  <2> QED BY <2>1, <2>2
<1>2. T = 0 .. m
  BY <1>1, AllUpTo
<1>3. PICK f : Good(f, m)
  BY <1>2
<1> QED BY <1>3

--------------------------------------------------------------------------------
(* The traces of many tests.                                                       *)

LEMMA MergedType ==
  ASSUME NEW t \in Traces(meta.predicates), NEW u \in Traces(meta.predicates),
         NEW all, all = B!Merged(t, u)
  PROVE  /\ all \in Traces(meta.predicates)
         /\ all.entered <=> t.entered \/ u.entered
         /\ \A p \in meta.predicates :
              /\ all.count[p] = t.count[p] + u.count[p]
              /\ all.count[p] \in Nat /\ t.count[p] \in Nat /\ u.count[p] \in Nat
         /\ \A g \in meta.predicates \X B!Branches :
              /\ all.distance[g] \in 0 .. B!Inf /\ t.distance[g] \in 0 .. B!Inf
              /\ all.distance[g] <= t.distance[g]
              /\ all.distance[g] = 0 <=> t.distance[g] = 0 \/ u.distance[g] = 0
<1> DEFINE P == meta.predicates
<1>1. /\ \A p \in P : t.count[p] \in Nat /\ u.count[p] \in Nat
      /\ \A g \in P \X B!Branches : t.distance[g] \in 0 .. B!Inf /\ u.distance[g] \in 0 .. B!Inf
  BY DEF Traces
<1>2. /\ all.entered = (t.entered \/ u.entered)
      /\ all.count = [p \in P |-> t.count[p] + u.count[p]]
      /\ all.distance = [g \in P \X B!Branches |-> B!Least(t.distance[g], u.distance[g])]
      /\ all = [entered |-> all.entered, count |-> all.count, distance |-> all.distance]
  BY DEF B!Merged
<1>3. \A g \in P \X B!Branches :
        /\ all.distance[g] \in 0 .. B!Inf /\ all.distance[g] <= t.distance[g]
        /\ all.distance[g] = 0 <=> t.distance[g] = 0 \/ u.distance[g] = 0
  BY <1>1, <1>2, LeastType
<1>4. \A p \in P : all.count[p] = t.count[p] + u.count[p] /\ all.count[p] \in Nat
  BY <1>1, <1>2
<1>5. all.count \in [P -> Nat]
  BY <1>2, <1>4
<1>6. all.distance \in [P \X B!Branches -> 0 .. B!Inf]
  BY <1>2, <1>3
<1>7. all \in Traces(P)
  BY <1>2, <1>5, <1>6 DEF Traces
<1> QED BY <1>1, <1>2, <1>3, <1>4, <1>7

(* Traces are merged one after the other.                                          *)
Merges(f, ts) ==
  /\ f \in [0 .. Len(ts) -> Traces(meta.predicates)] /\ f[0] = B!Empty
  /\ \A k \in 1 .. Len(ts) : f[k] = B!Merged(f[k - 1], ts[k])

LEMMA MergesInOrder ==
  ASSUME NEW ts \in Seq(Traces(meta.predicates))
  PROVE  \E f : Merges(f, ts) /\ B!MergedAll(ts) = f[Len(ts)]
<1> DEFINE m == Len(ts)
           All == Traces(meta.predicates)
           Unfolds(f) == f = [k \in 0 .. m |-> IF k = 0 THEN B!Empty
                                               ELSE B!Merged(f[k - 1], ts[k])]
           next == [u \in All \X (1 .. m) |-> B!Merged(u[1], ts[u[2]])]
<1>1. m \in Nat /\ B!Empty \in All /\ \A k \in 1 .. m : ts[k] \in All
  BY EmptyIsRight DEF TraceIsRight
<1> HIDE DEF m, All
<1>2. next \in [All \X (1 .. m) -> All]
  <2>1. ASSUME NEW u \in All \X (1 .. m) PROVE B!Merged(u[1], ts[u[2]]) \in All
    <3>1. u[1] \in All /\ ts[u[2]] \in All
      BY <1>1
    <3> QED BY <3>1, MergedType DEF All
  <2> QED BY <2>1, Zenon
<1>3. PICK f : Recurs(f, m, All, B!Empty, next)
  <2> HIDE DEF next
  <2>1. m \in Nat /\ B!Empty \in All
    BY <1>1
  <2> QED BY <1>2, <2>1, RecursionExists
<1>4. \A k \in 1 .. m : f[k] = B!Merged(f[k - 1], ts[k])
  <2> SUFFICES ASSUME NEW k \in 1 .. m PROVE f[k] = B!Merged(f[k - 1], ts[k])
    OBVIOUS
  <2>1. f[k - 1] \in All
    BY <1>1, <1>3 DEF Recurs
  <2>2. <<f[k - 1], k>> \in All \X (1 .. m)
    BY <2>1
  <2> QED BY <1>3, <2>2 DEF Recurs
<1> HIDE DEF next
<1>5. Unfolds(f)
  BY <1>1, <1>3, <1>4 DEF Recurs
<1> DEFINE chosen == CHOOSE f_1 : Unfolds(f_1)
<1>6. B!MergedAll(ts) = chosen[m]
  BY DEF B!MergedAll, m
<1> HIDE DEF Unfolds
<1>7. Unfolds(chosen)
  BY <1>5
<1> HIDE DEF chosen
<1>8. /\ chosen = [k \in 0 .. m |-> chosen[k]] /\ chosen[0] = B!Empty
      /\ \A k \in 1 .. m : chosen[k] = B!Merged(chosen[k - 1], ts[k])
  <2>1. chosen = [k \in 0 .. m |-> IF k = 0 THEN B!Empty
                                   ELSE B!Merged(chosen[k - 1], ts[k])]
    BY <1>7 DEF Unfolds
  <2>2. \A k \in 0 .. m : chosen[k] = IF k = 0 THEN B!Empty
                                      ELSE B!Merged(chosen[k - 1], ts[k])
    BY <2>1
  <2>3. chosen = [k \in 0 .. m |-> chosen[k]]
    BY <2>1
  <2> QED BY <1>1, <2>2, <2>3
<1>9. \A k \in 0 .. m : chosen[k] \in All
  <2> DEFINE T == {k \in 0 .. m : chosen[k] \in All}
  <2>1. ASSUME NEW n \in 0 .. m, \A k \in 0 .. m : k < n => k \in T
        PROVE  n \in T
    <3>1. CASE n = 0
      BY <1>1, <1>8, <3>1
    <3>2. CASE n # 0
      <4>1. n - 1 \in 0 .. m /\ n - 1 < n /\ n \in 1 .. m
        BY <1>1, <3>2
      <4>2. chosen[n - 1] \in All /\ ts[n] \in All
        BY <1>1, <2>1, <4>1
      <4>3. B!Merged(chosen[n - 1], ts[n]) \in All
        BY <4>2, MergedType DEF All
      <4> QED BY <1>8, <4>1, <4>3
    <3> QED BY <3>1, <3>2
  <2>2. T = 0 .. m
    BY <1>1, <2>1, AllUpTo
  <2> QED BY <2>2
<1>10. Merges(chosen, ts)
  BY <1>8, <1>9 DEF Merges, m, All
<1> QED BY <1>6, <1>10 DEF m

(* What a merged trace says, some of the traces say.                               *)
LEMMA MergedAllIs ==
  ASSUME NEW ts \in Seq(Traces(meta.predicates)), NEW all, all = B!MergedAll(ts)
  PROVE  /\ all \in Traces(meta.predicates)
         /\ all.entered <=> \E k \in DOMAIN ts : ts[k].entered
         /\ \A p \in meta.predicates :
              all.count[p] # 0 <=> \E k \in DOMAIN ts : ts[k].count[p] # 0
         /\ \A g \in meta.predicates \X B!Branches :
              all.distance[g] = 0 <=> \E k \in DOMAIN ts : ts[k].distance[g] = 0
<1> DEFINE m == Len(ts)
           Says(t, n) ==
             /\ t.entered <=> \E k \in 1 .. n : ts[k].entered
             /\ \A p \in meta.predicates : t.count[p] # 0 <=> \E k \in 1 .. n : ts[k].count[p] # 0
             /\ \A g \in meta.predicates \X B!Branches :
                  t.distance[g] = 0 <=> \E k \in 1 .. n : ts[k].distance[g] = 0
<1>1. PICK f : Merges(f, ts) /\ all = f[m]
  BY MergesInOrder
<1>2. /\ m \in Nat /\ DOMAIN ts = 1 .. m
      /\ \A k \in 1 .. m : ts[k] \in Traces(meta.predicates)
  OBVIOUS
<1>3. /\ \A k \in 0 .. m : f[k] \in Traces(meta.predicates)
      /\ f[0] = B!Empty /\ \A k \in 1 .. m : f[k] = B!Merged(f[k - 1], ts[k])
  BY <1>1 DEF Merges
<1> HIDE DEF m
<1> DEFINE T == {n \in 0 .. m : Says(f[n], n)}
<1>4. ASSUME NEW n \in 0 .. m, \A k \in 0 .. m : k < n => k \in T
      PROVE  n \in T
  <2>1. CASE n = 0
    <3>1. /\ ~B!Empty.entered /\ \A p \in meta.predicates : B!Empty.count[p] = 0
          /\ \A g \in meta.predicates \X B!Branches : B!Empty.distance[g] # 0
      BY DEF B!Empty, B!Inf
    <3>2. 1 .. n = {}
      BY <2>1
    <3>3. Says(B!Empty, n)
      BY <3>1, <3>2
    <3> HIDE DEF Says
    <3> QED BY <1>3, <2>1, <3>3
  <2>2. CASE n # 0
    <3>1. n - 1 \in 0 .. m /\ n - 1 < n /\ n \in 1 .. m
      BY <1>2, <2>2
    <3>2. Says(f[n - 1], n - 1)
      BY <1>4, <3>1
    <3>3. 1 .. n = 1 .. (n - 1) \cup {n}
      BY <3>1
    <3> DEFINE t == f[n - 1]
               u == ts[n]
    <3>4. t \in Traces(meta.predicates) /\ u \in Traces(meta.predicates)
      BY <1>2, <1>3, <3>1
    <3>5. f[n] = B!Merged(t, u)
      BY <1>3, <3>1
    <3>6. /\ f[n].entered <=> t.entered \/ u.entered
          /\ \A p \in meta.predicates :
               f[n].count[p] = t.count[p] + u.count[p] /\ t.count[p] \in Nat /\ u.count[p] \in Nat
          /\ \A g \in meta.predicates \X B!Branches :
               f[n].distance[g] = 0 <=> t.distance[g] = 0 \/ u.distance[g] = 0
      BY <3>4, <3>5, MergedType
    <3>7. \A p \in meta.predicates : f[n].count[p] # 0 <=> t.count[p] # 0 \/ u.count[p] # 0
      <4> HIDE DEF t, u
      <4> SUFFICES ASSUME NEW p \in meta.predicates
                   PROVE  f[n].count[p] # 0 <=> t.count[p] # 0 \/ u.count[p] # 0
        OBVIOUS
      <4>1. f[n].count[p] = t.count[p] + u.count[p] /\ t.count[p] \in Nat /\ u.count[p] \in Nat
        BY <3>6
      <4> DEFINE x == t.count[p]
                 y == u.count[p]
                 z == f[n].count[p]
      <4>2. z = x + y /\ x \in Nat /\ y \in Nat
        BY <4>1
      <4> HIDE DEF x, y, z
      <4>3. z # 0 <=> x # 0 \/ y # 0
        BY <4>2
      <4> QED BY <4>3 DEF x, y, z
    <3>8. Says(f[n], n)
      BY <3>2, <3>3, <3>6, <3>7
    <3> HIDE DEF Says
    <3> QED BY <3>8
  <2> QED BY <2>1, <2>2
<1> HIDE DEF Says
<1>5. T = 0 .. m
  BY <1>2, <1>4, AllUpTo
<1>6. Says(all, m)
  BY <1>1, <1>2, <1>5
<1> QED BY <1>1, <1>2, <1>3, <1>6 DEF Says

(* One more test is merged last.                                                   *)
LEMMA OneMoreIsMerged ==
  ASSUME NEW ts \in Seq(Traces(meta.predicates)), NEW t \in Traces(meta.predicates)
  PROVE  B!MergedAll(Append(ts, t)) = B!Merged(B!MergedAll(ts), t)
<1> DEFINE m == Len(ts)
           us == Append(ts, t)
<1>1. us \in Seq(Traces(meta.predicates))
  OBVIOUS
<1>2. PICK f : Merges(f, ts) /\ B!MergedAll(ts) = f[Len(ts)]
  BY MergesInOrder
<1>3. PICK h : Merges(h, us) /\ B!MergedAll(us) = h[Len(us)]
  BY <1>1, MergesInOrder
<1>4. m \in Nat /\ Len(us) = m + 1 /\ us[m + 1] = t /\ \A k \in 1 .. m : us[k] = ts[k]
  OBVIOUS
<1> HIDE DEF m, us
<1> DEFINE T == {n \in 0 .. m : f[n] = h[n]}
<1>5. /\ f[0] = B!Empty /\ h[0] = B!Empty
      /\ \A k \in 1 .. m : f[k] = B!Merged(f[k - 1], ts[k])
      /\ \A k \in 1 .. m + 1 : h[k] = B!Merged(h[k - 1], us[k])
  BY <1>2, <1>3, <1>4 DEF Merges, m
<1>6. ASSUME NEW n \in 0 .. m, \A k \in 0 .. m : k < n => k \in T
      PROVE  n \in T
  <2>1. CASE n = 0
    BY <1>5, <2>1
  <2>2. CASE n # 0
    <3>1. n - 1 \in 0 .. m /\ n - 1 < n /\ n \in 1 .. m /\ n \in 1 .. m + 1
      BY <1>4, <2>2
    <3>2. f[n - 1] = h[n - 1]
      BY <1>6, <3>1
    <3> QED BY <1>4, <1>5, <3>1, <3>2
  <2> QED BY <2>1, <2>2
<1>7. T = 0 .. m
  BY <1>4, <1>6, AllUpTo
<1>8. f[m] = h[m]
  BY <1>4, <1>7
<1>9. h[m + 1] = B!Merged(h[m], t)
  <2>1. m + 1 \in 1 .. m + 1 /\ (m + 1) - 1 = m
    BY <1>4
  <2> QED BY <1>4, <1>5, <2>1
<1> QED BY <1>2, <1>3, <1>4, <1>8, <1>9 DEF m, us

--------------------------------------------------------------------------------
(* The fitness of a suite adds up what its predicates lack.                        *)

Total == Cardinality(DOMAIN bCode)
Lacks(t, k) ==
  IF k - 1 \in meta.predicates
  THEN B!PredicateFitness(t, <<k - 1, "true">>) + B!PredicateFitness(t, <<k - 1, "false">>)
  ELSE 0

Sums(f, t) ==
  /\ f \in [0 .. Total -> Nat] /\ f[0] = 0
  /\ \A k \in 1 .. Total : f[k] = f[k - 1] + Lacks(t, k)

LEMMA PredicateFitnessType ==
  ASSUME NEW t \in Traces(meta.predicates), NEW g \in meta.predicates \X B!Branches
  PROVE  /\ B!PredicateFitness(t, g) \in Nat
         /\ B!PredicateFitness(t, g) = 0 <=> t.distance[g] = 0
<1>1. t.distance[g] \in 0 .. B!Inf
  BY DEF Traces
<1>2. /\ B!Normalise(t.distance[g]) \in 0 .. B!One
      /\ (B!Normalise(t.distance[g]) = 0 <=> t.distance[g] = 0)
  BY <1>1, NormaliseType
<1>3. B!One \in Nat /\ B!One # 0
  BY UnitsType
<1> QED BY <1>2, <1>3 DEF B!PredicateFitness

LEMMA LacksType ==
  ASSUME NEW t \in Traces(meta.predicates), NEW k \in Int
  PROVE  /\ Lacks(t, k) \in Nat
         /\ k - 1 \in meta.predicates =>
              (Lacks(t, k) = 0 <=> \A b \in B!Branches : t.distance[<<k - 1, b>>] = 0)
         /\ k - 1 \notin meta.predicates => Lacks(t, k) = 0
<1>1. CASE k - 1 \in meta.predicates
  <2> DEFINE x == B!PredicateFitness(t, <<k - 1, "true">>)
             y == B!PredicateFitness(t, <<k - 1, "false">>)
  <2>1. /\ <<k - 1, "true">> \in meta.predicates \X B!Branches
        /\ <<k - 1, "false">> \in meta.predicates \X B!Branches
    BY <1>1 DEF B!Branches
  <2>2. /\ x \in Nat /\ (x = 0 <=> t.distance[<<k - 1, "true">>] = 0)
        /\ y \in Nat /\ (y = 0 <=> t.distance[<<k - 1, "false">>] = 0)
    BY <2>1, PredicateFitnessType
  <2>3. Lacks(t, k) = x + y
    BY <1>1 DEF Lacks
  <2> HIDE DEF x, y
  <2>4. x + y \in Nat /\ (x + y = 0 <=> x = 0 /\ y = 0)
    BY <2>2
  <2>5. (\A b \in B!Branches : t.distance[<<k - 1, b>>] = 0) <=> x = 0 /\ y = 0
    BY <2>2 DEF B!Branches
  <2> QED BY <1>1, <2>3, <2>4, <2>5
<1>2. CASE k - 1 \notin meta.predicates
  BY <1>2 DEF Lacks
<1> QED BY <1>1, <1>2

LEMMA SuiteFitnessSums ==
  ASSUME MetaIsRight, meta.predicates # {}, NEW t \in Traces(meta.predicates)
  PROVE  \E f : Sums(f, t) /\ B!SuiteFitness(t) = f[Total]
<1> DEFINE m == Total
           both == [p \in meta.predicates |->
                      B!PredicateFitness(t, <<p, "true">>) + B!PredicateFitness(t, <<p, "false">>)]
           Unfolds(f) ==
             f = [n \in 0 .. B!Cardinality(DOMAIN bCode) |->
                    IF n = 0 THEN 0
                    ELSE f[n - 1] + IF n - 1 \in meta.predicates THEN both[n - 1] ELSE 0]
           next == [u \in Nat \X (1 .. m) |-> u[1] + Lacks(t, u[2])]
<1>1. m \in Nat /\ B!Cardinality(DOMAIN bCode) = m
  BY CodeIs, SameCardinality DEF MetaIsRight, Total
<1> HIDE DEF m
<1>2. next \in [Nat \X (1 .. m) -> Nat]
  <2>1. ASSUME NEW u \in Nat \X (1 .. m) PROVE u[1] + Lacks(t, u[2]) \in Nat
    <3>1. u[1] \in Nat /\ Lacks(t, u[2]) \in Nat
      BY <1>1, LacksType
    <3> DEFINE x == Lacks(t, u[2])
    <3>2. x \in Nat
      BY <3>1
    <3> HIDE DEF x
    <3>3. u[1] + x \in Nat
      BY <3>1, <3>2
    <3> QED BY <3>3 DEF x
  <2> QED BY <2>1, Zenon
<1>3. PICK f : Recurs(f, m, Nat, 0, next)
  <2> HIDE DEF next
  <2>1. 0 \in Nat
    OBVIOUS
  <2> QED BY <1>1, <1>2, <2>1, RecursionExists
<1>4. \A k \in 1 .. m : f[k] = f[k - 1] + Lacks(t, k)
  <2> SUFFICES ASSUME NEW k \in 1 .. m PROVE f[k] = f[k - 1] + Lacks(t, k)
    OBVIOUS
  <2>1. f[k - 1] \in Nat
    BY <1>1, <1>3 DEF Recurs
  <2>2. <<f[k - 1], k>> \in Nat \X (1 .. m)
    BY <2>1
  <2> QED BY <1>3, <2>2 DEF Recurs
<1> HIDE DEF next
<1>5. \A k \in Int :
        (IF k - 1 \in meta.predicates THEN both[k - 1] ELSE 0) = Lacks(t, k)
  BY DEF Lacks
<1> HIDE DEF both
<1>6. Unfolds(f)
  <2>1. f = [n \in 0 .. m |-> f[n]] /\ f[0] = 0
    BY <1>3 DEF Recurs
  <2>2. \A n \in 0 .. m : f[n] =
          IF n = 0 THEN 0
          ELSE f[n - 1] + IF n - 1 \in meta.predicates THEN both[n - 1] ELSE 0
    <3> SUFFICES ASSUME NEW n \in 0 .. m
                 PROVE  f[n] = IF n = 0 THEN 0
                          ELSE f[n - 1] + IF n - 1 \in meta.predicates THEN both[n - 1] ELSE 0
      OBVIOUS
    <3>1. n # 0 => n \in 1 .. m
      BY <1>1
    <3>2. n \in Int
      OBVIOUS
    <3> QED BY <1>4, <1>5, <2>1, <3>1, <3>2
  <2> QED BY <1>1, <2>1, <2>2
<1> DEFINE chosen == CHOOSE f_1 : Unfolds(f_1)
<1>7. B!SuiteFitness(t) = chosen[m]
  BY <1>1, GoalsAre DEF B!SuiteFitness, both
<1> HIDE DEF Unfolds
<1>8. Unfolds(chosen)
  BY <1>6
<1> HIDE DEF chosen
<1>9. /\ chosen = [k \in 0 .. m |-> chosen[k]] /\ chosen[0] = 0
      /\ \A k \in 1 .. m : chosen[k] = chosen[k - 1] + Lacks(t, k)
  <2>1. chosen = [n \in 0 .. m |->
                    IF n = 0 THEN 0
                    ELSE chosen[n - 1] + IF n - 1 \in meta.predicates THEN both[n - 1] ELSE 0]
    BY <1>1, <1>8 DEF Unfolds
  <2>2. \A n \in 0 .. m : chosen[n] =
          IF n = 0 THEN 0
          ELSE chosen[n - 1] + IF n - 1 \in meta.predicates THEN both[n - 1] ELSE 0
    BY <2>1
  <2>3. chosen = [k \in 0 .. m |-> chosen[k]]
    BY <2>1
  <2>4. chosen[0] = 0
    BY <1>1, <2>2
  <2>5. ASSUME NEW k \in 1 .. m PROVE chosen[k] = chosen[k - 1] + Lacks(t, k)
    <3>1. k \in 0 .. m /\ k # 0 /\ k \in Int
      BY <1>1
    <3> QED BY <1>5, <2>2, <3>1
  <2> QED BY <2>3, <2>4, <2>5
<1>10. \A k \in 0 .. m : chosen[k] \in Nat
  <2> DEFINE T == {k \in 0 .. m : chosen[k] \in Nat}
  <2>1. ASSUME NEW n \in 0 .. m, \A k \in 0 .. m : k < n => k \in T
        PROVE  n \in T
    <3>1. CASE n = 0
      BY <1>1, <1>9, <3>1
    <3>2. CASE n # 0
      <4>1. n - 1 \in 0 .. m /\ n - 1 < n /\ n \in 1 .. m /\ n \in Int
        BY <1>1, <3>2
      <4>2. chosen[n - 1] \in Nat /\ Lacks(t, n) \in Nat
        BY <2>1, <4>1, LacksType
      <4>3. chosen[n - 1] + Lacks(t, n) \in Nat
        BY <4>2
      <4>4. chosen[n] = chosen[n - 1] + Lacks(t, n)
        BY <1>9, <4>1
      <4> QED BY <4>3, <4>4
    <3> QED BY <3>1, <3>2
  <2>2. T = 0 .. m
    BY <1>1, <2>1, AllUpTo
  <2> QED BY <2>2
<1>11. Sums(chosen, t)
  BY <1>9, <1>10 DEF Sums, m
<1> QED BY <1>7, <1>11 DEF m

LEMMA TotalType ==
  ASSUME MetaIsRight
  PROVE  Total \in Nat /\ \A p \in meta.predicates : p + 1 \in 1 .. Total /\ (p + 1) - 1 = p
BY CodeIs DEF MetaIsRight, Total

(* Sums(f, t) grows from zero by natural numbers.                                  *)
LEMMA SumIsZero ==
  ASSUME MetaIsRight, NEW t \in Traces(meta.predicates), NEW f, Sums(f, t)
  PROVE  f[Total] = 0 <=> \A k \in 1 .. Total : Lacks(t, k) = 0
<1> DEFINE m == Total
           T == {n \in 0 .. m : f[n] = 0 <=> \A k \in 1 .. n : Lacks(t, k) = 0}
<1>1. m \in Nat
  BY TotalType
<1>2. /\ \A n \in 0 .. m : f[n] \in Nat
      /\ f[0] = 0 /\ \A k \in 1 .. m : f[k] = f[k - 1] + Lacks(t, k)
  BY DEF Sums
<1> HIDE DEF m
<1>3. ASSUME NEW n \in 0 .. m, \A k \in 0 .. m : k < n => k \in T
      PROVE  n \in T
  <2>1. CASE n = 0
    BY <1>2, <2>1
  <2>2. CASE n # 0
    <3>1. n - 1 \in 0 .. m /\ n - 1 < n /\ n \in 1 .. m /\ n \in Int
      BY <1>1, <2>2
    <3>2. f[n - 1] = 0 <=> \A k \in 1 .. n - 1 : Lacks(t, k) = 0
      BY <1>3, <3>1
    <3> DEFINE x == f[n - 1]
               y == Lacks(t, n)
    <3>3. x \in Nat /\ y \in Nat /\ f[n] = x + y
      BY <1>2, <3>1, LacksType
    <3> HIDE DEF x, y
    <3>4. f[n] = 0 <=> x = 0 /\ y = 0
      BY <3>3
    <3>5. 1 .. n = 1 .. (n - 1) \cup {n}
      BY <3>1
    <3>6. f[n] = 0 <=> \A k \in 1 .. n : Lacks(t, k) = 0
      BY <3>2, <3>4, <3>5 DEF x, y
    <3> QED BY <3>6
  <2> QED BY <2>1, <2>2
<1>4. T = 0 .. m
  BY <1>1, <1>3, AllUpTo
<1>5. m \in T
  BY <1>1, <1>4
<1> QED BY <1>5 DEF m

(* A suite lacks nothing when all of its distances are zero.                       *)
LEMMA SuiteFitnessIs ==
  ASSUME MetaIsRight, NEW t \in Traces(meta.predicates)
  PROVE  /\ B!SuiteFitness(t) \in Nat
         /\ meta.predicates = {} => (B!SuiteFitness(t) = 0 <=> t.entered)
         /\ meta.predicates # {} =>
              (B!SuiteFitness(t) = 0 <=> \A g \in meta.predicates \X B!Branches : t.distance[g] = 0)
<1>1. CASE meta.predicates = {}
  <2>1. B!SuiteFitness(t) = IF t.entered THEN 0 ELSE B!One
    BY <1>1, GoalsAre DEF B!SuiteFitness
  <2> QED BY <1>1, <2>1, UnitsType
<1>2. CASE meta.predicates # {}
  <2>1. PICK f : Sums(f, t) /\ B!SuiteFitness(t) = f[Total]
    BY <1>2, SuiteFitnessSums
  <2>2. Total \in Nat
    BY TotalType
  <2>3. f[Total] \in Nat
    BY <2>1, <2>2 DEF Sums
  <2>4. f[Total] = 0 <=> \A k \in 1 .. Total : Lacks(t, k) = 0
    BY <2>1, SumIsZero
  <2>5. ASSUME \A k \in 1 .. Total : Lacks(t, k) = 0, NEW g \in meta.predicates \X B!Branches
        PROVE  t.distance[g] = 0
    <3>1. PICK p \in meta.predicates, b \in B!Branches : g = <<p, b>>
      OBVIOUS
    <3>2. p + 1 \in 1 .. Total /\ (p + 1) - 1 = p /\ p + 1 \in Int
      BY <2>2, TotalType
    <3>3. Lacks(t, p + 1) = 0
      BY <2>5, <3>2
    <3>4. \A e \in B!Branches : t.distance[<<p, e>>] = 0
      <4> DEFINE k == p + 1
      <4>1. k \in Int /\ k - 1 = p /\ Lacks(t, k) = 0
        BY <3>2, <3>3
      <4> HIDE DEF k
      <4> QED BY <4>1, LacksType
    <3> QED BY <3>1, <3>4
  <2>6. ASSUME \A g \in meta.predicates \X B!Branches : t.distance[g] = 0, NEW k \in 1 .. Total
        PROVE  Lacks(t, k) = 0
    <3>1. k \in Int
      OBVIOUS
    <3>2. CASE k - 1 \in meta.predicates
      <4>1. \A b \in B!Branches : t.distance[<<k - 1, b>>] = 0
        BY <2>6, <3>2
      <4> QED BY <3>1, <3>2, <4>1, LacksType
    <3>3. CASE k - 1 \notin meta.predicates
      BY <3>1, <3>3, LacksType
    <3> QED BY <3>2, <3>3
  <2> QED BY <1>2, <2>1, <2>3, <2>4, <2>5, <2>6
<1> QED BY <1>1, <1>2

(* More executions that came no less close make a suite no worse.                  *)
NotWorse(t, u) ==
  /\ t.entered => u.entered
  /\ \A p \in meta.predicates : t.count[p] <= u.count[p]
  /\ \A g \in meta.predicates \X B!Branches : u.distance[g] <= t.distance[g]

LEMMA PredicateFitnessFalls ==
  ASSUME NEW t \in Traces(meta.predicates), NEW u \in Traces(meta.predicates), NotWorse(t, u),
         NEW g \in meta.predicates \X B!Branches
  PROVE  B!PredicateFitness(u, g) <= B!PredicateFitness(t, g)
<1> DEFINE d == t.distance[g]
           e == u.distance[g]
           i == t.count[g[1]]
           j == u.count[g[1]]
<1>1. d \in 0 .. B!Inf /\ e \in 0 .. B!Inf /\ i \in Nat /\ j \in Nat
  BY DEF Traces
<1>2. e <= d /\ i <= j
  BY DEF NotWorse
<1>3. /\ B!PredicateFitness(t, g) = IF d = 0 THEN 0 ELSE IF i >= 2 THEN B!Normalise(d) ELSE B!One
      /\ B!PredicateFitness(u, g) = IF e = 0 THEN 0 ELSE IF j >= 2 THEN B!Normalise(e) ELSE B!One
  BY DEF B!PredicateFitness
<1> HIDE DEF d, e, i, j
<1>4. B!Normalise(e) <= B!Normalise(d)
  BY <1>1, <1>2, NormaliseGrows
<1> DEFINE x == B!Normalise(d)
           y == B!Normalise(e)
<1>5. x \in 0 .. B!One /\ y \in 0 .. B!One /\ y <= x /\ B!One \in Nat
  BY <1>1, <1>4, NormaliseType, UnitsType
<1>6. /\ B!PredicateFitness(t, g) = IF d = 0 THEN 0 ELSE IF i >= 2 THEN x ELSE B!One
      /\ B!PredicateFitness(u, g) = IF e = 0 THEN 0 ELSE IF j >= 2 THEN y ELSE B!One
  BY <1>3
<1> HIDE DEF x, y
<1>7. d \in Nat /\ e \in Nat /\ (d = 0 => e = 0)
  BY <1>1, <1>2 DEF B!Inf
<1> QED BY <1>1, <1>2, <1>5, <1>6, <1>7

LEMMA LacksLess ==
  ASSUME NEW t \in Traces(meta.predicates), NEW u \in Traces(meta.predicates), NotWorse(t, u),
         NEW k \in Int
  PROVE  Lacks(u, k) <= Lacks(t, k)
<1>1. CASE k - 1 \in meta.predicates
  <2> DEFINE x == B!PredicateFitness(t, <<k - 1, "true">>)
             y == B!PredicateFitness(t, <<k - 1, "false">>)
             v == B!PredicateFitness(u, <<k - 1, "true">>)
             w == B!PredicateFitness(u, <<k - 1, "false">>)
  <2>1. /\ <<k - 1, "true">> \in meta.predicates \X B!Branches
        /\ <<k - 1, "false">> \in meta.predicates \X B!Branches
    BY <1>1 DEF B!Branches
  <2>2. x \in Nat /\ y \in Nat /\ v \in Nat /\ w \in Nat /\ v <= x /\ w <= y
    BY <2>1, PredicateFitnessType, PredicateFitnessFalls
  <2>3. Lacks(t, k) = x + y /\ Lacks(u, k) = v + w
    BY <1>1 DEF Lacks
  <2> HIDE DEF x, y, v, w
  <2> QED BY <2>2, <2>3
<1>2. CASE k - 1 \notin meta.predicates
  BY <1>2 DEF Lacks
<1> QED BY <1>1, <1>2

LEMMA SuiteFitnessFalls ==
  ASSUME MetaIsRight, NEW t \in Traces(meta.predicates), NEW u \in Traces(meta.predicates),
         NotWorse(t, u)
  PROVE  B!SuiteFitness(u) <= B!SuiteFitness(t)
<1>1. CASE meta.predicates = {}
  <2>1. /\ B!SuiteFitness(t) = IF t.entered THEN 0 ELSE B!One
        /\ B!SuiteFitness(u) = IF u.entered THEN 0 ELSE B!One
    BY <1>1, GoalsAre DEF B!SuiteFitness
  <2>2. 0 <= B!One /\ B!One <= B!One /\ 0 <= 0
    BY UnitsType
  <2>3. CASE t.entered
    <3>1. u.entered
      BY <2>3 DEF NotWorse
    <3> QED BY <2>1, <2>2, <2>3, <3>1
  <2>4. CASE ~t.entered
    <3>1. B!SuiteFitness(t) = B!One
      BY <2>1, <2>4
    <3>2. B!SuiteFitness(u) = 0 \/ B!SuiteFitness(u) = B!One
      BY <2>1
    <3> QED BY <2>2, <3>1, <3>2
  <2> QED BY <2>3, <2>4
<1>2. CASE meta.predicates # {}
  <2> DEFINE m == Total
  <2>1. PICK f : Sums(f, t) /\ B!SuiteFitness(t) = f[m]
    BY <1>2, SuiteFitnessSums
  <2>2. PICK h : Sums(h, u) /\ B!SuiteFitness(u) = h[m]
    BY <1>2, SuiteFitnessSums
  <2>3. m \in Nat
    BY TotalType
  <2>4. /\ \A n \in 0 .. m : f[n] \in Nat /\ h[n] \in Nat
        /\ f[0] = 0 /\ \A k \in 1 .. m : f[k] = f[k - 1] + Lacks(t, k)
        /\ h[0] = 0 /\ \A k \in 1 .. m : h[k] = h[k - 1] + Lacks(u, k)
    BY <2>1, <2>2 DEF Sums
  <2> HIDE DEF m
  <2> DEFINE T == {n \in 0 .. m : h[n] <= f[n]}
  <2>5. ASSUME NEW n \in 0 .. m, \A k \in 0 .. m : k < n => k \in T
        PROVE  n \in T
    <3>1. CASE n = 0
      BY <2>4, <3>1
    <3>2. CASE n # 0
      <4>1. n - 1 \in 0 .. m /\ n - 1 < n /\ n \in 1 .. m /\ n \in Int
        BY <2>3, <3>2
      <4> DEFINE x == f[n - 1]
                 y == Lacks(t, n)
                 v == h[n - 1]
                 w == Lacks(u, n)
      <4>2. v <= x
        BY <2>5, <4>1
      <4>3. x \in Nat /\ y \in Nat /\ v \in Nat /\ w \in Nat
        BY <2>4, <4>1, LacksType
      <4>4. w <= y
        BY <4>1, LacksLess
      <4>5. f[n] = x + y /\ h[n] = v + w
        BY <2>4, <4>1
      <4> HIDE DEF x, y, v, w
      <4>6. h[n] <= f[n]
        BY <4>2, <4>3, <4>4, <4>5
      <4> QED BY <4>6
    <3> QED BY <3>1, <3>2
  <2>6. T = 0 .. m
    BY <2>3, <2>5, AllUpTo
  <2>7. m \in T
    BY <2>3, <2>6
  <2> QED BY <2>1, <2>2, <2>7
<1> QED BY <1>1, <1>2

--------------------------------------------------------------------------------
(* The traces of the running test, of the import and of the tests that ended are   *)
(* those of executions; code that is being executed has been entered.              *)

Outcomes(P) == [trace : Traces(P), taken : SUBSET GoalsFor(P)]

FitnessInv ==
  /\ MetaIsRight
  /\ TraceIsRight(meta.predicates, bTrace, taken)
  /\ NearIsRight(meta.predicates, bTrace, taken, near)
  /\ at # B!Outside => bTrace.entered
  /\ imported # << >> =>
       /\ TraceIsRight(meta.predicates, imported[1].trace, imported[1].taken)
       /\ NearIsRight(meta.predicates, imported[1].trace, imported[1].taken, imported[1].near)
  /\ results \in Seq(Outcomes(meta.predicates))
  /\ \A k \in DOMAIN results : TraceIsRight(meta.predicates, results[k].trace, results[k].taken)

LEMMA FitnessInit == B!Init => FitnessInv
<1> SUFFICES ASSUME B!Init PROVE FitnessInv
  OBVIOUS
<1>1. /\ at = B!Outside /\ bTrace = B!Empty /\ imported = << >> /\ results = << >> /\ taken = {} /\ near = {}
  BY DEF B!Init
<1>2. MetaIsRight /\ TraceIsRight(meta.predicates, bTrace, taken)
  BY <1>1, MetaInit, EmptyIsRight
<1>3. results \in Seq(Outcomes(meta.predicates)) /\ DOMAIN results = {}
  BY <1>1
<1>4. NearIsRight(meta.predicates, bTrace, taken, near)
  BY <1>1, EmptyIsNear
<1> QED BY <1>1, <1>2, <1>3, <1>4 DEF FitnessInv

LEMMA EnteredIsRight ==
  ASSUME NEW P, NEW t, NEW took, TraceIsRight(P, t, took), NEW u, u = [t EXCEPT !.entered = TRUE]
  PROVE  TraceIsRight(P, u, took \cup (IF P = {} THEN GoalsFor(P) ELSE {})) /\ u.entered
<1>1. /\ t.count \in [P -> Nat] /\ t.distance \in [P \X B!Branches -> 0 .. B!Inf]
      /\ t = [entered |-> t.entered, count |-> t.count, distance |-> t.distance]
  BY DEF TraceIsRight, Traces
<1>2. u = [entered |-> TRUE, count |-> t.count, distance |-> t.distance]
  BY <1>1
<1>3. u.entered /\ u.count = t.count /\ u.distance = t.distance /\ u \in Traces(P)
  BY <1>1, <1>2 DEF Traces
<1>4. CASE P = {}
  <2>1. took \subseteq GoalsFor(P)
    BY DEF TraceIsRight
  <2>2. took \cup GoalsFor(P) = GoalsFor(P)
    BY <2>1
  <2> QED BY <1>3, <1>4, <2>2 DEF TraceIsRight
<1>5. CASE P # {}
  <2>1. took \cup (IF P = {} THEN GoalsFor(P) ELSE {}) = took
    BY <1>5
  <2> QED BY <1>3, <1>5, <2>1 DEF TraceIsRight
<1> QED BY <1>4, <1>5

LEMMA EnteredIsNear ==
  ASSUME NEW P, NEW t, NEW took, NEW missed, NearIsRight(P, t, took, missed),
         TraceIsRight(P, t, took), NEW u, u = [t EXCEPT !.entered = TRUE]
  PROVE  NearIsRight(P, u, took \cup (IF P = {} THEN GoalsFor(P) ELSE {}), missed)
<1>1. u.distance = t.distance
  BY DEF TraceIsRight, Traces
<1> QED BY <1>1 DEF NearIsRight

(* The result of one more test.                                                    *)
LEMMA ResultIsAdded ==
  ASSUME NEW P, results \in Seq(Outcomes(P)),
         \A k \in DOMAIN results : TraceIsRight(P, results[k].trace, results[k].taken),
         NEW t, NEW took, TraceIsRight(P, t, took),
         NEW rs, rs = Append(results, [trace |-> t, taken |-> took])
  PROVE  /\ rs \in Seq(Outcomes(P))
         /\ \A k \in DOMAIN rs : TraceIsRight(P, rs[k].trace, rs[k].taken)
<1> DEFINE one == [trace |-> t, taken |-> took]
           m == Len(results)
<1>1. one \in Outcomes(P) /\ one.trace = t /\ one.taken = took
  BY DEF TraceIsRight, Outcomes
<1> HIDE DEF one
<1>2. /\ rs \in Seq(Outcomes(P)) /\ m \in Nat /\ DOMAIN results = 1 .. m
      /\ DOMAIN rs = 1 .. m + 1 /\ rs[m + 1] = one
      /\ \A k \in 1 .. m : rs[k] = results[k]
  BY <1>1 DEF one
<1>3. \A k \in 1 .. m + 1 : k \in 1 .. m \/ k = m + 1
  BY <1>2
<1> HIDE DEF m
<1> QED BY <1>1, <1>2, <1>3

LEMMA FitnessNext == FitnessInv /\ B!Next => FitnessInv'
<1> SUFFICES ASSUME FitnessInv, B!Next PROVE FitnessInv'
  OBVIOUS
<1>1. bCode' = bCode /\ meta' = meta
  BY DEF B!Next, B!Enter, B!Branch, B!Move, B!Raise, B!Return, B!StoreImportTrace, B!EndTest,
         B!Finished, B!vars
<1>2. MetaIsRight /\ MetaIsRight'
  BY <1>1 DEF FitnessInv, MetaIsRight
<1>3. /\ TraceIsRight(meta.predicates, bTrace, taken)
      /\ NearIsRight(meta.predicates, bTrace, taken, near)
      /\ at # B!Outside => bTrace.entered
      /\ imported # << >> =>
           /\ TraceIsRight(meta.predicates, imported[1].trace, imported[1].taken)
           /\ NearIsRight(meta.predicates, imported[1].trace, imported[1].taken, imported[1].near)
      /\ results \in Seq(Outcomes(meta.predicates))
      /\ \A k \in DOMAIN results : TraceIsRight(meta.predicates, results[k].trace, results[k].taken)
  BY DEF FitnessInv
<1>4. ASSUME NEW t, NEW took, NEW missed, TraceIsRight(meta.predicates, t, took),
             NearIsRight(meta.predicates, t, took, missed),
             bTrace' = t, taken' = took, near' = missed, at' # B!Outside => t.entered,
             imported' = imported, results' = results
      PROVE  FitnessInv'
  BY <1>1, <1>2, <1>3, <1>4 DEF FitnessInv
<1>5. ASSUME bTrace' = bTrace, taken' = taken, near' = near, at' = B!Outside \/ at # B!Outside,
             imported' = imported, results' = results
      PROVE  FitnessInv'
  BY <1>3, <1>4, <1>5
<1>6. CASE B!Enter
  <2>1. TraceIsRight(meta.predicates, bTrace', taken') /\ bTrace'.entered
    BY <1>3, <1>6, GoalsAre, EnteredIsRight DEF B!Enter
  <2>2. imported' = imported /\ results' = results
    BY <1>6 DEF B!Enter
  <2>3. NearIsRight(meta.predicates, bTrace', taken', near')
    BY <1>3, <1>6, GoalsAre, EnteredIsNear DEF B!Enter
  <2> QED BY <1>4, <2>1, <2>2, <2>3
<1>7. CASE B!Branch
  <2>1. at \in meta.predicates /\ bTrace.entered
    BY <1>2, <1>3, <1>7 DEF B!Branch, B!Inside, B!IsPredicate, MetaIsRight
  <2>2. PICK b \in B!Branches, d \in MCDistances :
             /\ bTrace' = B!UpdateDistances(bTrace, at, b, d) /\ taken' = taken \cup {<<at, b>>}
             /\ near' = near \cup {<<at, c>> : c \in {c \in B!Branches \ {b} : d < Close}}
    BY <1>7 DEF B!Branch
  <2>3. TraceIsRight(meta.predicates, bTrace', taken') /\ bTrace'.entered
    BY <1>3, <2>1, <2>2, UpdatedIsRight
  <2>4. imported' = imported /\ results' = results
    BY <1>7 DEF B!Branch
  <2>5. NearIsRight(meta.predicates, bTrace', taken', near')
    BY <1>3, <2>1, <2>2, UpdatedIsNear
  <2> QED BY <1>4, <2>3, <2>4, <2>5
<1>8. CASE B!Move
  BY <1>5, <1>8 DEF B!Move, B!Inside
<1>9. CASE B!Raise
  BY <1>5, <1>9 DEF B!Raise, B!Inside
<1>10. CASE B!Return
  BY <1>5, <1>10 DEF B!Return
<1>11. CASE B!StoreImportTrace
  <2>1. /\ imported' = <<[trace |-> bTrace, taken |-> taken, near |-> near]>>
        /\ bTrace' = bTrace /\ taken' = taken /\ near' = near /\ at' = at /\ results' = results
    BY <1>11 DEF B!StoreImportTrace
  <2>2. imported'[1].trace = bTrace /\ imported'[1].taken = taken /\ imported'[1].near = near
    BY <2>1
  <2> QED BY <1>1, <1>2, <1>3, <2>1, <2>2 DEF FitnessInv
<1>12. CASE B!EndTest
  <2>1. /\ imported' = imported /\ at' = B!Outside
        /\ bTrace' = imported[1].trace /\ taken' = imported[1].taken /\ near' = imported[1].near
        /\ TraceIsRight(meta.predicates, imported[1].trace, imported[1].taken)
        /\ NearIsRight(meta.predicates, imported[1].trace, imported[1].taken, imported[1].near)
    BY <1>3, <1>12 DEF B!EndTest
  <2>2. PICK t, took : TraceIsRight(meta.predicates, t, took)
                         /\ results' = Append(results, [trace |-> t, taken |-> took])
    BY <1>3, <1>12, EmptyIsRight DEF B!EndTest
  <2>3. /\ results' \in Seq(Outcomes(meta.predicates))
        /\ \A k \in DOMAIN results' :
             TraceIsRight(meta.predicates, results'[k].trace, results'[k].taken)
    BY <1>3, <2>2, ResultIsAdded
  <2> QED BY <1>1, <1>2, <1>3, <2>1, <2>3 DEF FitnessInv
<1>13. CASE B!Finished
  BY <1>5, <1>13 DEF B!Finished, B!vars
<1> QED BY <1>6, <1>7, <1>8, <1>9, <1>10, <1>11, <1>12, <1>13 DEF B!Next

ChosenIsRight == component = "branches" => FitnessInv

LEMMA ChosenInit == MCInit => ChosenIsRight
BY FitnessInit DEF MCInit, ChosenIsRight

LEMMA ChosenNext == ChosenIsRight /\ [MCNext]_allVars => ChosenIsRight'
<1> SUFFICES ASSUME ChosenIsRight, [MCNext]_allVars, component = "branches" PROVE FitnessInv'
  BY DEF ChosenIsRight, MCNext, SlicerStep, BranchesStep, DistancesStep, InstrumentationStep, allVars
<1>1. CASE BranchesStep
  BY <1>1, FitnessNext DEF ChosenIsRight, BranchesStep
<1>2. CASE ~BranchesStep
  <2>1. UNCHANGED bVars
    BY <1>2 DEF MCNext, SlicerStep, DistancesStep, InstrumentationStep, allVars
  <2>2. /\ bCode' = bCode /\ meta' = meta /\ at' = at /\ bTrace' = bTrace
        /\ imported' = imported /\ results' = results /\ taken' = taken /\ near' = near
    BY <2>1 DEF bVars
  <2> QED BY <2>2 DEF ChosenIsRight, FitnessInv, MetaIsRight
<1> QED BY <1>1, <1>2

LEMMA AlwaysRight == MCSpec => []ChosenIsRight
BY ChosenInit, ChosenNext, PTL DEF MCSpec, MCNext

--------------------------------------------------------------------------------
(* The theorems.                                                                   *)

(* All traces of tests, merged: what it says of a goal, and what the tests took.   *)
TracesOf(rs) == [k \in DOMAIN rs |-> rs[k].trace]

LEMMA TracesType ==
  ASSUME NEW P, NEW rs \in Seq(Outcomes(P))
  PROVE  /\ TracesOf(rs) \in Seq(Traces(P)) /\ DOMAIN TracesOf(rs) = DOMAIN rs
         /\ \A k \in DOMAIN rs : TracesOf(rs)[k] = rs[k].trace
<1>1. Len(rs) \in Nat /\ DOMAIN rs = 1 .. Len(rs) /\ \A k \in DOMAIN rs : rs[k] \in Outcomes(P)
  OBVIOUS
<1>2. \A k \in DOMAIN rs : rs[k].trace \in Traces(P)
  BY <1>1 DEF Outcomes
<1>3. TracesOf(rs) \in [1 .. Len(rs) -> Traces(P)]
  BY <1>1, <1>2 DEF TracesOf
<1> QED BY <1>1, <1>3 DEF TracesOf

LEMMA SuiteIsReal ==
  ASSUME FitnessInv
  PROVE  LET all == B!MergedAll(TracesOf(results))
             covered == UNION {results[k].taken : k \in DOMAIN results}
         IN  /\ covered \subseteq B!Goals
             /\ \A g \in B!Goals : B!CountsAsCovered(all, g) <=> g \in covered
             /\ B!SuiteFitness(all) = 0 <=> covered = B!Goals
<1> DEFINE P == meta.predicates
           ts == TracesOf(results)
           all == B!MergedAll(ts)
           covered == UNION {results[k].taken : k \in DOMAIN results}
<1>1. /\ results \in Seq(Outcomes(P)) /\ MetaIsRight
      /\ \A k \in DOMAIN results : TraceIsRight(P, results[k].trace, results[k].taken)
  BY DEF FitnessInv
<1>2. /\ ts \in Seq(Traces(P)) /\ DOMAIN ts = DOMAIN results
      /\ \A k \in DOMAIN results : ts[k] = results[k].trace
  BY <1>1, TracesType
<1> HIDE DEF ts
<1>3. /\ all \in Traces(P)
      /\ all.entered <=> \E k \in DOMAIN ts : ts[k].entered
      /\ \A p \in P : all.count[p] # 0 <=> \E k \in DOMAIN ts : ts[k].count[p] # 0
      /\ \A g \in P \X B!Branches :
           all.distance[g] = 0 <=> \E k \in DOMAIN ts : ts[k].distance[g] = 0
  BY <1>2, MergedAllIs
<1> HIDE DEF all
<1>4. covered \subseteq B!Goals
  BY <1>1, GoalsAre DEF TraceIsRight
<1>5. \A g \in B!Goals : g \in covered <=> \E k \in DOMAIN results : g \in results[k].taken
  OBVIOUS
<1> HIDE DEF covered
<1>6. CASE P = {}
  <2>1. B!Goals # {} /\ B!Goals = GoalsFor(P) /\ B!BranchLess
    BY <1>6, GoalsAre DEF GoalsFor
  <2>2. \A k \in DOMAIN results : \A g \in B!Goals : g \in results[k].taken <=> results[k].trace.entered
    BY <1>1, <1>6, <2>1 DEF TraceIsRight
  <2>3. \A g \in B!Goals : g \in covered <=> all.entered
    BY <1>2, <1>3, <1>5, <2>2
  <2>4. \A g \in B!Goals : B!CountsAsCovered(all, g) <=> all.entered
    BY <2>1 DEF B!CountsAsCovered
  <2>5. B!SuiteFitness(all) = 0 <=> all.entered
    BY <1>1, <1>3, <1>6, SuiteFitnessIs
  <2>6. covered = B!Goals <=> all.entered
    BY <1>4, <2>1, <2>3
  <2> QED BY <1>4, <2>3, <2>4, <2>5, <2>6 DEF all, covered, ts
<1>7. CASE P # {}
  <2>1. B!Goals = P \X B!Branches /\ ~B!BranchLess
    BY <1>7, GoalsAre DEF GoalsFor
  <2>2. ASSUME NEW k \in DOMAIN results, NEW g \in B!Goals
        PROVE  /\ g \in results[k].taken <=> results[k].trace.distance[g] = 0
               /\ results[k].trace.distance[g] = 0 => results[k].trace.count[g[1]] # 0
    <3>1. PICK p \in P, b \in B!Branches : g = <<p, b>>
      BY <2>1
    <3>2. B!Inf # 0
      BY DEF B!Inf
    <3> QED BY <1>1, <3>1, <3>2 DEF TraceIsRight
  <2>3. \A g \in B!Goals : g \in covered <=> all.distance[g] = 0
    BY <1>2, <1>3, <1>5, <2>1, <2>2
  <2>4. \A g \in B!Goals : B!CountsAsCovered(all, g) <=> all.distance[g] = 0
    BY <2>1 DEF B!CountsAsCovered
  <2>5. B!SuiteFitness(all) = 0 <=> \A g \in B!Goals : all.distance[g] = 0
    BY <1>1, <1>3, <1>7, <2>1, SuiteFitnessIs
  <2>6. covered = B!Goals <=> \A g \in B!Goals : all.distance[g] = 0
    BY <1>4, <2>3
  <2> QED BY <1>4, <2>3, <2>4, <2>5, <2>6 DEF all, covered, ts
<1> QED BY <1>6, <1>7

(* Whatever the code object, however the tests run through it, whatever exceptions  *)
(* and timeouts they meet and whatever distances they see, the fitness of a goal is  *)
(* zero exactly when its branch was taken; the goal is covered exactly when its      *)
(* branch was taken or missed by less than the threshold; and the coverage of a suite *)
(* counts what its tests took, complete exactly when its fitness is zero            *)
(* (BranchDistanceTestCaseFitnessFunction, BranchDistanceTestSuiteFitnessFunction,   *)
(* BranchGoal.is_covered, compute_branch_coverage).                                 *)
THEOREM FitnessIsAlwaysReal == MCSpec => []FitnessIsReal
<1>1. ASSUME FitnessInv PROVE B!FitnessIsReal
  <2>1. /\ MetaIsRight /\ TraceIsRight(meta.predicates, bTrace, taken)
        /\ NearIsRight(meta.predicates, bTrace, taken, near)
    BY <1>1 DEF FitnessInv
  <2>2. \A g \in B!Goals : (B!Fitness(bTrace, g) = 0 <=> g \in taken)
                             /\ (B!IsCovered(bTrace, g) <=> g \in taken \cup near)
    BY <2>1, FitnessIs
  <2> DEFINE all == B!MergedAll(TracesOf(results))
             covered == UNION {results[k].taken : k \in DOMAIN results}
  <2>3. /\ covered \subseteq B!Goals
        /\ \A g \in B!Goals : B!CountsAsCovered(all, g) <=> g \in covered
        /\ B!SuiteFitness(all) = 0 <=> covered = B!Goals
    BY <1>1, SuiteIsReal
  <2>4. {g \in B!Goals : B!CountsAsCovered(all, g)} = covered
    BY <2>3
  <2>5. B!SuiteCoverage(all) = <<B!Cardinality(covered), B!Cardinality(B!Goals)>>
    <3> HIDE DEF covered, all
    <3> QED BY <2>4 DEF B!SuiteCoverage
  <2> QED BY <2>2, <2>3, <2>5 DEF B!FitnessIsReal, TracesOf
<1>2. ChosenIsRight => FitnessIsReal
  BY <1>1 DEF ChosenIsRight, FitnessIsReal
<1> QED BY <1>2, AlwaysRight, PTL

LEMMA TestComesCloser ==
  ASSUME FitnessInv, B!Next, results' = results, NEW g \in B!Goals
  PROVE  B!Fitness(bTrace', g) <= B!Fitness(bTrace, g)
<1>1. /\ MetaIsRight /\ TraceIsRight(meta.predicates, bTrace, taken)
      /\ at # B!Outside => bTrace.entered
      /\ results \in Seq(Outcomes(meta.predicates))
  BY DEF FitnessInv
<1>2. B!Fitness(bTrace, g) \in Nat
  BY <1>1, FitnessIs
<1>3. CASE bTrace' = bTrace
  BY <1>2, <1>3
<1>4. CASE B!Enter
  <2>1. bTrace' = [bTrace EXCEPT !.entered = TRUE]
    BY <1>4 DEF B!Enter
  <2>2. PICK more : TraceIsRight(meta.predicates, bTrace', more)
    BY <1>1, <2>1, EnteredIsRight
  <2> QED BY <1>1, <2>1, <2>2, EnteringFalls
<1>5. CASE B!Branch
  <2>1. at \in meta.predicates /\ bTrace.entered
    BY <1>1, <1>5 DEF B!Branch, B!Inside, B!IsPredicate, MetaIsRight
  <2>2. PICK b \in B!Branches, d \in MCDistances : bTrace' = B!UpdateDistances(bTrace, at, b, d)
    BY <1>5 DEF B!Branch
  <2> QED BY <1>1, <2>1, <2>2, FitnessFalls
<1>6. CASE B!EndTest
  <2>1. \E r : results' = Append(results, r)
    BY <1>6 DEF B!EndTest
  <2>2. Len(results') = Len(results) + 1 /\ Len(results) \in Nat
    BY <1>1, <2>1
  <2> QED BY <2>2
<1>7. CASE B!Move \/ B!Raise \/ B!Return \/ B!StoreImportTrace \/ B!Finished
  BY <1>3, <1>7 DEF B!Move, B!Raise, B!Return, B!StoreImportTrace, B!Finished, B!vars
<1> QED BY <1>4, <1>5, <1>6, <1>7 DEF B!Next

LEMMA SuiteComesCloser ==
  ASSUME FitnessInv, B!Next
  PROVE  B!SuiteFitness(B!MergedAll(TracesOf(results')))
           <= B!SuiteFitness(B!MergedAll(TracesOf(results)))
<1> DEFINE P == meta.predicates
           ts == TracesOf(results)
           all == B!MergedAll(ts)
<1>1. /\ results \in Seq(Outcomes(P)) /\ MetaIsRight
      /\ \A k \in DOMAIN results : TraceIsRight(P, results[k].trace, results[k].taken)
  BY DEF FitnessInv
<1>2. ts \in Seq(Traces(P)) /\ all \in Traces(P)
  BY <1>1, TracesType, MergedAllIs
<1>3. B!SuiteFitness(all) \in Nat
  BY <1>1, <1>2, SuiteFitnessIs
<1>4. CASE results' = results
  BY <1>3, <1>4
<1>5. CASE B!EndTest
  <2>1. PICK t, took : TraceIsRight(P, t, took)
                         /\ results' = Append(results, [trace |-> t, taken |-> took])
    BY <1>5, EmptyIsRight DEF FitnessInv, B!EndTest
  <2>2. t \in Traces(P)
    BY <2>1 DEF TraceIsRight
  <2> DEFINE more == Append(ts, t)
  <2>3. TracesOf(results') = more
    <3> DEFINE r == [trace |-> t, taken |-> took]
    <3>1. /\ results' = Append(results, r) /\ r.trace = t
          /\ Len(results) \in Nat /\ DOMAIN results = 1 .. Len(results)
      BY <1>1, <2>1
    <3> HIDE DEF r
    <3> QED BY <1>1, <3>1 DEF TracesOf
  <2> DEFINE u == B!Merged(all, t)
  <2>4. B!MergedAll(more) = u
    BY <1>2, <2>2, OneMoreIsMerged
  <2>5. u \in Traces(P) /\ NotWorse(all, u)
    <3>1. /\ u \in Traces(P)
          /\ u.entered <=> all.entered \/ t.entered
          /\ \A p \in P : /\ u.count[p] = all.count[p] + t.count[p]
                          /\ u.count[p] \in Nat /\ all.count[p] \in Nat /\ t.count[p] \in Nat
          /\ \A g \in P \X B!Branches : u.distance[g] <= all.distance[g]
      BY <1>2, <2>2, MergedType
    <3> HIDE DEF u, all
    <3>2. ASSUME NEW p \in P PROVE all.count[p] <= u.count[p]
      <4> DEFINE x == all.count[p]
                 y == t.count[p]
                 z == u.count[p]
      <4>1. z = x + y /\ x \in Nat /\ y \in Nat
        BY <3>1
      <4> HIDE DEF x, y, z
      <4>2. x <= z
        BY <4>1
      <4> QED BY <4>2 DEF x, z
    <3> QED BY <3>1, <3>2 DEF NotWorse
  <2>6. B!SuiteFitness(u) <= B!SuiteFitness(all)
    BY <1>1, <1>2, <2>5, SuiteFitnessFalls
  <2> HIDE DEF u, more, all
  <2> QED BY <2>3, <2>4, <2>6 DEF all
<1> QED BY <1>4, <1>5 DEF B!Next, B!Enter, B!Branch, B!Move, B!Raise, B!Return,
      B!StoreImportTrace, B!Finished, B!vars

(* A test that runs on never gets further from any goal, and one more test never   *)
(* makes a suite worse (ExecutionTrace.update_predicate_distances, merge).         *)
THEOREM FitnessAlwaysImproves == MCSpec => FitnessOnlyImproves
<1>1. ChosenIsRight /\ ChosenIsRight' /\ [MCNext]_allVars
        => [component = "branches" => B!FitnessImproves]_allVars
  <2> SUFFICES ASSUME ChosenIsRight, ChosenIsRight', MCNext, component = "branches"
               PROVE  B!FitnessImproves
    OBVIOUS
  <2>1. component' = component
    BY DEF MCNext, SlicerStep, BranchesStep, DistancesStep, InstrumentationStep
  <2>2. FitnessInv /\ FitnessInv' /\ B!Next
    BY <2>1 DEF ChosenIsRight, MCNext, SlicerStep, BranchesStep, DistancesStep, InstrumentationStep
  <2>3. results' = results => \A g \in B!Goals : B!Fitness(bTrace', g) <= B!Fitness(bTrace, g)
    BY <2>2, TestComesCloser
  <2>4. B!SuiteFitness(B!MergedAll(TracesOf(results')))
          <= B!SuiteFitness(B!MergedAll(TracesOf(results)))
    BY <2>2, SuiteComesCloser
  <2> QED BY <2>3, <2>4 DEF B!FitnessImproves, TracesOf
<1> QED BY <1>1, AlwaysRight, PTL DEF MCSpec, MCNext, FitnessOnlyImproves

--------------------------------------------------------------------------------
(* Distances: strings are at distance zero when they are the same.                 *)

LEMMA SmallestIs ==
  ASSUME NEW T, T \subseteq Nat, T # {}
  PROVE  D!Smallest(T) \in T /\ \A y \in T : D!Smallest(T) <= y
BY LeastExists DEF D!Smallest

LEMMA SameSequence ==
  ASSUME NEW s \in Seq(Int), NEW t \in Seq(Int), Len(s) = Len(t),
         \A k \in 1 .. Len(s) : s[k] = t[k]
  PROVE  s = t
<1>1. s = [k \in 1 .. Len(s) |-> s[k]] /\ t = [k \in 1 .. Len(t) |-> t[k]]
  OBVIOUS
<1> QED BY <1>1

(* The distances of the first i elements of s to the prefixes of t.                *)
RowIs(row, i, s, t) ==
  /\ row \in [0 .. Len(t) -> Nat]
  /\ \A j \in 0 .. Len(t) : row[j] = 0 <=> j = i /\ \A k \in 1 .. i : s[k] = t[k]

LEMMA NextRowIs ==
  ASSUME NEW s \in Seq(Int), NEW t \in Seq(Int), NEW i \in 1 .. Len(s),
         NEW row, RowIs(row, i - 1, s, t)
  PROVE  RowIs(D!NextRow(row, i, s, t), i, s, t)
<1> DEFINE m == Len(t)
           differ(j) == IF s[i] = t[j] THEN 0 ELSE 1
           cell(x, j) == D!Smallest({row[j] + 1, x + 1, row[j - 1] + differ(j)})
           Unfolds(f) == f = [j \in 0 .. m |-> IF j = 0 THEN i ELSE cell(f[j - 1], j)]
           next == [u \in Nat \X (1 .. m) |-> cell(u[1], u[2])]
<1>1. m \in Nat /\ i \in Nat /\ i # 0 /\ i - 1 \in Nat
  OBVIOUS
<1>2. /\ \A j \in 0 .. m : row[j] \in Nat
      /\ \A j \in 0 .. m : row[j] = 0 <=> j = i - 1 /\ \A k \in 1 .. i - 1 : s[k] = t[k]
  BY DEF RowIs
<1> HIDE DEF m
<1>3. ASSUME NEW x \in Nat, NEW j \in 1 .. m
      PROVE  /\ cell(x, j) \in Nat
             /\ cell(x, j) = 0 <=> row[j - 1] = 0 /\ s[i] = t[j]
  <2>1. j \in 0 .. m /\ j - 1 \in 0 .. m
    BY <1>1
  <2> DEFINE a == row[j]
             b == row[j - 1]
             c == differ(j)
             T == {a + 1, x + 1, b + c}
  <2>2. a \in Nat /\ b \in Nat /\ c \in {0, 1} /\ (c = 0 <=> s[i] = t[j])
    BY <1>2, <2>1
  <2> HIDE DEF a, b, c
  <2>3. T \subseteq Nat /\ T # {} /\ (0 \in T <=> b = 0 /\ c = 0)
    BY <2>2
  <2>4. D!Smallest(T) \in T /\ \A y \in T : D!Smallest(T) <= y
    <3> HIDE DEF T
    <3> QED BY <2>3, SmallestIs
  <2>5. D!Smallest(T) \in Nat /\ (D!Smallest(T) = 0 <=> b = 0 /\ c = 0)
    <3> HIDE DEF T
    <3>1. D!Smallest(T) \in Nat /\ (0 \in T => D!Smallest(T) <= 0)
      BY <2>3, <2>4
    <3>2. D!Smallest(T) = 0 <=> 0 \in T
      <4> DEFINE z == D!Smallest(T)
      <4>1. z \in Nat /\ z \in T /\ (0 \in T => z <= 0)
        BY <2>4, <3>1
      <4> HIDE DEF z
      <4>2. z = 0 <=> 0 \in T
        BY <4>1
      <4> QED BY <4>2 DEF z
    <3> QED BY <2>3, <3>1, <3>2
  <2>6. cell(x, j) = D!Smallest(T)
    BY DEF a, b, c
  <2> HIDE DEF cell, T
  <2> QED BY <2>2, <2>5, <2>6 DEF b
<1> HIDE DEF cell
<1>4. next \in [Nat \X (1 .. m) -> Nat]
  <2>1. ASSUME NEW u \in Nat \X (1 .. m) PROVE cell(u[1], u[2]) \in Nat
    <3>1. u[1] \in Nat /\ u[2] \in 1 .. m
      OBVIOUS
    <3> QED BY <1>3, <3>1
  <2> QED BY <2>1, Zenon
<1>5. PICK f : Recurs(f, m, Nat, i, next)
  <2> HIDE DEF next
  <2> QED BY <1>1, <1>4, RecursionExists
<1>6. \A j \in 1 .. m : f[j] = cell(f[j - 1], j)
  <2> SUFFICES ASSUME NEW j \in 1 .. m PROVE f[j] = cell(f[j - 1], j)
    OBVIOUS
  <2>1. f[j - 1] \in Nat
    BY <1>1, <1>5 DEF Recurs
  <2>2. <<f[j - 1], j>> \in Nat \X (1 .. m)
    BY <2>1
  <2> QED BY <1>5, <2>2 DEF Recurs
<1> HIDE DEF next
<1>7. Unfolds(f)
  BY <1>1, <1>5, <1>6 DEF Recurs
<1> DEFINE chosen == CHOOSE f_1 : Unfolds(f_1)
<1>8. D!NextRow(row, i, s, t) = chosen
  BY DEF D!NextRow, m, cell
<1> HIDE DEF Unfolds
<1>9. Unfolds(chosen)
  BY <1>7
<1> HIDE DEF chosen
<1>10. /\ chosen = [j \in 0 .. m |-> chosen[j]] /\ chosen[0] = i
       /\ \A j \in 1 .. m : chosen[j] = cell(chosen[j - 1], j)
  <2>1. chosen = [j \in 0 .. m |-> IF j = 0 THEN i ELSE cell(chosen[j - 1], j)]
    BY <1>9 DEF Unfolds
  <2>2. \A j \in 0 .. m : chosen[j] = IF j = 0 THEN i ELSE cell(chosen[j - 1], j)
    BY <2>1
  <2>3. chosen = [j \in 0 .. m |-> chosen[j]]
    BY <2>1
  <2>4. chosen[0] = i
    BY <1>1, <2>2
  <2>5. ASSUME NEW j \in 1 .. m PROVE chosen[j] = cell(chosen[j - 1], j)
    <3>1. j \in 0 .. m /\ j # 0
      BY <1>1
    <3> QED BY <2>2, <3>1
  <2> QED BY <2>3, <2>4, <2>5
<1>11. \A j \in 0 .. m : chosen[j] \in Nat
  <2> DEFINE T == {j \in 0 .. m : chosen[j] \in Nat}
  <2>1. ASSUME NEW n \in 0 .. m, \A j \in 0 .. m : j < n => j \in T
        PROVE  n \in T
    <3>1. CASE n = 0
      BY <1>1, <1>10, <3>1
    <3>2. CASE n # 0
      <4>1. n - 1 \in 0 .. m /\ n - 1 < n /\ n \in 1 .. m
        BY <1>1, <3>2
      <4>2. chosen[n - 1] \in Nat
        BY <2>1, <4>1
      <4> QED BY <1>3, <1>10, <4>1, <4>2
    <3> QED BY <3>1, <3>2
  <2>2. T = 0 .. m
    BY <1>1, <2>1, AllUpTo
  <2> QED BY <2>2
<1>12. ASSUME NEW j \in 0 .. m
       PROVE  chosen[j] = 0 <=> j = i /\ \A k \in 1 .. i : s[k] = t[k]
  <2>1. CASE j = 0
    BY <1>1, <1>10, <2>1
  <2>2. CASE j # 0
    <3>1. j \in 1 .. m /\ j - 1 \in 0 .. m /\ (j - 1 = i - 1 <=> j = i)
      BY <1>1, <2>2
    <3>2. chosen[j] = 0 <=> row[j - 1] = 0 /\ s[i] = t[j]
      BY <1>3, <1>10, <1>11, <3>1
    <3>3. 1 .. i = 1 .. (i - 1) \cup {i}
      BY <1>1
    <3>4. row[j - 1] = 0 <=> j = i /\ \A k \in 1 .. i - 1 : s[k] = t[k]
      BY <1>2, <3>1
    <3>5. CASE j = i
      <4>1. i \in 1 .. i
        BY <1>1
      <4>2. (\A k \in 1 .. i : s[k] = t[k]) <=> (\A k \in 1 .. i - 1 : s[k] = t[k]) /\ s[i] = t[i]
        BY <3>3, <4>1
      <4>3. chosen[j] = 0 <=> (\A k \in 1 .. i - 1 : s[k] = t[k]) /\ s[i] = t[i]
        BY <3>2, <3>4, <3>5
      <4> QED BY <3>5, <4>2, <4>3, Zenon
    <3>6. CASE j # i
      BY <3>2, <3>4, <3>6
    <3> QED BY <3>5, <3>6
  <2> QED BY <2>1, <2>2
<1> QED BY <1>8, <1>10, <1>11, <1>12 DEF RowIs, m

LEMMA LevenshteinIs ==
  ASSUME NEW s \in Seq(Int), NEW t \in Seq(Int)
  PROVE  D!Levenshtein(s, t) \in Nat /\ (D!Levenshtein(s, t) = 0 <=> s = t)
<1> DEFINE m == Len(s)
           first == [j \in 0 .. Len(t) |-> j]
           Unfolds(f) == f = [i \in 0 .. m |-> IF i = 0 THEN first ELSE D!NextRow(f[i - 1], i, s, t)]
           Good(i, row) == RowIs(row, i, s, t)
           Rows == {u \in (0 .. m) \X [0 .. Len(t) -> Nat] : Good(u[1], u[2])}
           next == [u \in Rows \X (1 .. m) |-> IF u[2] = u[1][1] + 1
                      THEN <<u[2], D!NextRow(u[1][2], u[2], s, t)>> ELSE <<0, first>>]
<1>1. m \in Nat /\ Len(t) \in Nat
  OBVIOUS
<1>2. Good(0, first)
  BY <1>1 DEF RowIs
<1>3. ASSUME NEW i \in 1 .. m, NEW row, Good(i - 1, row)
      PROVE  Good(i, D!NextRow(row, i, s, t))
  BY <1>3, NextRowIs
<1> HIDE DEF m
<1>4. <<0, first>> \in Rows /\ \A i \in 0 .. m : \A row : Good(i, row) => <<i, row>> \in Rows
  BY <1>1, <1>2 DEF RowIs
<1> HIDE DEF Good, first
<1>5. next \in [Rows \X (1 .. m) -> Rows]
  <2>1. ASSUME NEW u \in Rows \X (1 .. m)
        PROVE  (IF u[2] = u[1][1] + 1
                THEN <<u[2], D!NextRow(u[1][2], u[2], s, t)>> ELSE <<0, first>>) \in Rows
    <3>1. CASE u[2] = u[1][1] + 1
      <4>1. u[1] \in Rows /\ u[2] \in 1 .. m /\ u[1][1] \in 0 .. m
        OBVIOUS
      <4>2. u[2] - 1 = u[1][1] /\ Good(u[2] - 1, u[1][2]) /\ u[2] \in 0 .. m
        BY <1>1, <3>1, <4>1
      <4>3. Good(u[2], D!NextRow(u[1][2], u[2], s, t))
        BY <1>3, <4>1, <4>2
      <4>4. <<u[2], D!NextRow(u[1][2], u[2], s, t)>> \in Rows
        BY <1>4, <4>2, <4>3
      <4> QED BY <3>1, <4>4
    <3>2. CASE u[2] # u[1][1] + 1
      BY <1>4, <3>2
    <3> QED BY <3>1, <3>2
  <2> QED BY <2>1, Zenon
<1>6. PICK f : Recurs(f, m, Rows, <<0, first>>, next)
  <2> HIDE DEF next, Rows
  <2> QED BY <1>1, <1>4, <1>5, RecursionExists
<1>7. \A i \in 0 .. m : f[i] \in Rows /\ f[i] = <<f[i][1], f[i][2]>>
  BY <1>6 DEF Recurs
<1>8. /\ f[0] = <<0, first>>
      /\ \A i \in 1 .. m : i - 1 \in 0 .. m
           /\ f[i] = IF i = f[i - 1][1] + 1
                     THEN <<i, D!NextRow(f[i - 1][2], i, s, t)>> ELSE <<0, first>>
  <2>1. ASSUME NEW i \in 1 .. m
        PROVE  /\ i - 1 \in 0 .. m
               /\ f[i] = IF i = f[i - 1][1] + 1
                         THEN <<i, D!NextRow(f[i - 1][2], i, s, t)>> ELSE <<0, first>>
    <3>1. i - 1 \in 0 .. m
      BY <1>1
    <3>2. f[i - 1] \in Rows /\ f[i] = next[<<f[i - 1], i>>]
      BY <1>6, <1>7, <3>1 DEF Recurs
    <3>3. <<f[i - 1], i>> \in Rows \X (1 .. m)
      BY <3>2
    <3> HIDE DEF Rows
    <3> QED BY <3>1, <3>2, <3>3
  <2> QED BY <1>6, <2>1 DEF Recurs
<1> HIDE DEF next
<1>9. \A i \in 0 .. m : f[i][1] = i
  <2> DEFINE T == {i \in 0 .. m : f[i][1] = i}
  <2>1. ASSUME NEW n \in 0 .. m, \A i \in 0 .. m : i < n => i \in T
        PROVE  n \in T
    <3>1. CASE n = 0
      BY <1>1, <1>8, <3>1
    <3>2. CASE n # 0
      <4>1. n \in 1 .. m /\ n - 1 < n /\ (n - 1) + 1 = n
        BY <1>1, <3>2
      <4>2. n - 1 \in 0 .. m /\ f[n - 1][1] = n - 1
        BY <1>8, <2>1, <4>1
      <4>3. f[n] = <<n, D!NextRow(f[n - 1][2], n, s, t)>>
        BY <1>8, <4>1, <4>2
      <4> QED BY <4>3
    <3> QED BY <3>1, <3>2
  <2>2. T = 0 .. m
    BY <1>1, <2>1, AllUpTo
  <2> QED BY <2>2
<1> DEFINE all == [i \in 0 .. m |-> f[i][2]]
<1>10. Unfolds(all)
  <2>1. \A i \in 0 .. m : all[i] = IF i = 0 THEN first ELSE D!NextRow(all[i - 1], i, s, t)
    <3> SUFFICES ASSUME NEW i \in 0 .. m
                 PROVE  all[i] = IF i = 0 THEN first ELSE D!NextRow(all[i - 1], i, s, t)
      OBVIOUS
    <3>1. CASE i = 0
      BY <1>8, <3>1
    <3>2. CASE i # 0
      <4>1. i \in 1 .. m /\ i - 1 \in 0 .. m /\ (i - 1) + 1 = i
        BY <1>1, <3>2
      <4>2. f[i - 1][1] = i - 1
        BY <1>9, <4>1
      <4>3. f[i] = <<i, D!NextRow(f[i - 1][2], i, s, t)>>
        BY <1>8, <4>1, <4>2
      <4> QED BY <3>2, <4>1, <4>3
    <3> QED BY <3>1, <3>2
  <2> HIDE DEF first
  <2>2. all = [i \in 0 .. m |-> all[i]]
    OBVIOUS
  <2> HIDE DEF all
  <2> QED BY <2>1, <2>2
<1> DEFINE chosen == CHOOSE f_1 : Unfolds(f_1)
<1>11. D!Levenshtein(s, t) = chosen[m][Len(t)]
  BY DEF D!Levenshtein, m, first
<1> HIDE DEF Unfolds, all
<1>12. Unfolds(chosen)
  BY <1>10
<1> HIDE DEF chosen
<1>13. \A i \in 0 .. m : chosen[i] = IF i = 0 THEN first ELSE D!NextRow(chosen[i - 1], i, s, t)
  BY <1>12 DEF Unfolds
<1>14. \A i \in 0 .. m : Good(i, chosen[i])
  <2> DEFINE T == {i \in 0 .. m : Good(i, chosen[i])}
  <2>1. ASSUME NEW n \in 0 .. m, \A i \in 0 .. m : i < n => i \in T
        PROVE  n \in T
    <3>1. CASE n = 0
      BY <1>2, <1>13, <3>1
    <3>2. CASE n # 0
      <4>1. n - 1 \in 0 .. m /\ n - 1 < n /\ n \in 1 .. m
        BY <1>1, <3>2
      <4>2. Good(n - 1, chosen[n - 1])
        BY <2>1, <4>1
      <4>3. Good(n, D!NextRow(chosen[n - 1], n, s, t))
        BY <1>3, <4>1, <4>2
      <4>4. chosen[n] = D!NextRow(chosen[n - 1], n, s, t)
        BY <1>13, <3>2
      <4> QED BY <4>3, <4>4
    <3> QED BY <3>1, <3>2
  <2>2. T = 0 .. m
    BY <1>1, <2>1, AllUpTo
  <2> QED BY <2>2
<1>15. /\ chosen[m][Len(t)] \in Nat
       /\ chosen[m][Len(t)] = 0 <=> Len(t) = m /\ \A k \in 1 .. m : s[k] = t[k]
  <2>1. m \in 0 .. m /\ Len(t) \in 0 .. Len(t)
    BY <1>1
  <2>2. RowIs(chosen[m], m, s, t)
    BY <1>14, <2>1 DEF Good
  <2> QED BY <2>1, <2>2 DEF RowIs
<1>16. s = t <=> Len(t) = m /\ \A k \in 1 .. m : s[k] = t[k]
  <2>1. ASSUME Len(t) = m, \A k \in 1 .. m : s[k] = t[k] PROVE s = t
    BY <2>1, SameSequence DEF m
  <2> QED BY <2>1 DEF m
<1> QED BY <1>11, <1>15, <1>16

(* Strings are ordered: exactly one of two comes first unless they are the same.   *)
SamePrefix(s, t, n) == \A k \in 1 .. n : s[k] = t[k]

LEMMA PrecedesIs ==
  ASSUME NEW s \in Seq(Int), NEW t \in Seq(Int)
  PROVE  D!Precedes(s, t) <=>
           \E n \in Nat : /\ n < Len(t) /\ n <= Len(s) /\ SamePrefix(s, t, n)
                          /\ n = Len(s) \/ s[n + 1] < t[n + 1]
<1>1. Len(s) \in Nat /\ Len(t) \in Nat
  OBVIOUS
<1>2. ASSUME NEW n \in 0 .. Len(t) - 1, n <= Len(s)
      PROVE  SubSeq(s, 1, n) = SubSeq(t, 1, n) <=> SamePrefix(s, t, n)
  <2>1. n \in Nat /\ n <= Len(t)
    BY <1>1
  <2>2. /\ SubSeq(s, 1, n) = [k \in 1 .. n |-> s[k]]
        /\ SubSeq(t, 1, n) = [k \in 1 .. n |-> t[k]]
    BY <1>1, <1>2, <2>1
  <2>3. ASSUME SubSeq(s, 1, n) = SubSeq(t, 1, n), NEW k \in 1 .. n PROVE s[k] = t[k]
    <3>1. [l \in 1 .. n |-> s[l]][k] = [l \in 1 .. n |-> t[l]][k]
      BY <2>2, <2>3
    <3> QED BY <3>1
  <2>4. ASSUME \A k \in 1 .. n : s[k] = t[k] PROVE SubSeq(s, 1, n) = SubSeq(t, 1, n)
    BY <2>2, <2>4
  <2> QED BY <2>3, <2>4 DEF SamePrefix
<1>3. \A n : n \in 0 .. Len(t) - 1 <=> n \in Nat /\ n < Len(t)
  BY <1>1
<1> QED BY <1>2, <1>3 DEF D!Precedes

LEMMA OneComesFirst ==
  ASSUME NEW s \in Seq(Int), NEW t \in Seq(Int)
  PROVE  /\ D!Precedes(s, t) => s # t /\ ~D!Precedes(t, s)
         /\ s # t => D!Precedes(s, t) \/ D!Precedes(t, s)
<1>1. /\ Len(s) \in Nat /\ Len(t) \in Nat
      /\ \A k \in 1 .. Len(s) : s[k] \in Int
      /\ \A k \in 1 .. Len(t) : t[k] \in Int
  OBVIOUS
<1>2. ASSUME D!Precedes(s, t) PROVE s # t /\ ~D!Precedes(t, s)
  <2>1. PICK n \in Nat : /\ n < Len(t) /\ n <= Len(s) /\ SamePrefix(s, t, n)
                         /\ n = Len(s) \/ s[n + 1] < t[n + 1]
    BY <1>2, PrecedesIs
  <2>2. n + 1 \in 1 .. Len(t) /\ (n < Len(s) => n + 1 \in 1 .. Len(s))
    BY <1>1, <2>1
  <2>3. s # t
    BY <1>1, <2>1, <2>2
  <2>4. ASSUME D!Precedes(t, s) PROVE FALSE
    <3>1. PICK j \in Nat : /\ j < Len(s) /\ j <= Len(t) /\ SamePrefix(t, s, j)
                           /\ j = Len(t) \/ t[j + 1] < s[j + 1]
      BY <2>4, PrecedesIs
    <3>2. j + 1 \in 1 .. Len(s) /\ (j < Len(t) => j + 1 \in 1 .. Len(t))
      BY <1>1, <3>1
    <3>3. CASE n = j
      <4>1. s[n + 1] < t[n + 1] /\ t[n + 1] < s[n + 1]
        BY <2>1, <3>1, <3>3
      <4>2. s[n + 1] \in Int /\ t[n + 1] \in Int
        BY <1>1, <2>2, <3>2, <3>3
      <4> QED BY <4>1, <4>2
    <3>4. CASE n < j
      <4>1. n + 1 \in 1 .. j /\ n # Len(s)
        BY <1>1, <3>1, <3>4
      <4>2. t[n + 1] = s[n + 1] /\ s[n + 1] < t[n + 1]
        BY <2>1, <3>1, <4>1 DEF SamePrefix
      <4>3. t[n + 1] \in Int
        BY <1>1, <2>2
      <4> QED BY <4>2, <4>3
    <3>5. CASE j < n
      <4>1. j + 1 \in 1 .. n /\ j # Len(t)
        BY <1>1, <2>1, <3>5
      <4>2. s[j + 1] = t[j + 1] /\ t[j + 1] < s[j + 1]
        BY <2>1, <3>1, <4>1 DEF SamePrefix
      <4>3. s[j + 1] \in Int
        BY <1>1, <3>2
      <4> QED BY <4>2, <4>3
    <3> QED BY <3>3, <3>4, <3>5
  <2> QED BY <2>3, <2>4
<1>3. ASSUME s # t PROVE D!Precedes(s, t) \/ D!Precedes(t, s)
  <2> DEFINE T == {n \in Nat : /\ n <= Len(s) /\ n <= Len(t)
                               /\ n = Len(s) \/ n = Len(t) \/ s[n + 1] # t[n + 1]}
  <2>1. \E n : n \in T
    <3>1. CASE Len(s) <= Len(t)
      <4>1. Len(s) \in T
        BY <1>1, <3>1
      <4> QED BY <4>1
    <3>2. CASE Len(t) <= Len(s)
      <4>1. Len(t) \in T
        BY <1>1, <3>2
      <4> QED BY <4>1
    <3> QED BY <1>1, <3>1, <3>2
  <2>2. PICK n \in T : \A j \in T : n <= j
    <3>1. T \subseteq Nat /\ T # {}
      BY <2>1
    <3> HIDE DEF T
    <3> QED BY <3>1, LeastExists
  <2>3. /\ n \in Nat /\ n <= Len(s) /\ n <= Len(t)
        /\ n = Len(s) \/ n = Len(t) \/ s[n + 1] # t[n + 1]
    BY <2>2
  <2>4. SamePrefix(s, t, n) /\ SamePrefix(t, s, n)
    <3>1. ASSUME NEW k \in 1 .. n, s[k] # t[k] PROVE FALSE
      <4>1. k - 1 \in Nat /\ k - 1 <= Len(s) /\ k - 1 <= Len(t) /\ (k - 1) + 1 = k /\ k - 1 < n
        BY <1>1, <2>3
      <4>2. k - 1 \in T
        <5> DEFINE j == k - 1
        <5>1. j \in Nat /\ j <= Len(s) /\ j <= Len(t) /\ s[j + 1] # t[j + 1]
          BY <3>1, <4>1
        <5> HIDE DEF j
        <5>2. j \in T
          BY <5>1
        <5> QED BY <5>2 DEF j
      <4>3. n <= k - 1
        BY <2>2, <4>2
      <4> QED BY <2>3, <4>1, <4>3
    <3> QED BY <3>1 DEF SamePrefix
  <2>5. CASE n = Len(s)
    <3>1. n # Len(t)
      <4>1. ASSUME n = Len(t) PROVE FALSE
        <5>1. Len(s) = Len(t) /\ \A k \in 1 .. Len(s) : s[k] = t[k]
          BY <2>4, <2>5, <4>1 DEF SamePrefix
        <5> QED BY <1>3, <5>1, SameSequence
      <4> QED BY <4>1
    <3>2. n < Len(t)
      BY <1>1, <2>3, <3>1
    <3> QED BY <2>3, <2>4, <2>5, <3>2, PrecedesIs
  <2>6. CASE n # Len(s) /\ n = Len(t)
    <3>1. n < Len(s)
      BY <1>1, <2>3, <2>6
    <3> QED BY <2>3, <2>4, <2>6, <3>1, PrecedesIs
  <2>7. CASE n # Len(s) /\ n # Len(t)
    <3>1. n < Len(s) /\ n < Len(t) /\ s[n + 1] # t[n + 1]
      BY <1>1, <2>3, <2>7
    <3>2. n + 1 \in 1 .. Len(s) /\ n + 1 \in 1 .. Len(t)
      BY <1>1, <2>3, <3>1
    <3>3. s[n + 1] \in Int /\ t[n + 1] \in Int
      BY <1>1, <3>2
    <3>4. s[n + 1] < t[n + 1] \/ t[n + 1] < s[n + 1]
      <4> DEFINE x == s[n + 1]
                 y == t[n + 1]
      <4>1. x \in Int /\ y \in Int /\ x # y
        BY <3>1, <3>3
      <4> HIDE DEF x, y
      <4>2. x < y \/ y < x
        BY <4>1
      <4> QED BY <4>2 DEF x, y
    <3> QED BY <2>3, <2>4, <3>1, <3>4, PrecedesIs
  <2> QED BY <2>5, <2>6, <2>7
<1> QED BY <1>2, <1>3

(* The closest float exists, and larger integers have no smaller floats.           *)
LEMMA FloatIs ==
  ASSUME NEW n \in Int
  PROVE  /\ D!Float(n) \in Int /\ D!IsFloat(D!Float(n))
         /\ \A l \in Int : D!IsFloat(l) => D!Abs(D!Float(n) - n) <= D!Abs(l - n)
<1> DEFINE floats == {m \in n - D!Abs(n) .. n + D!Abs(n) : D!IsFloat(m)}
           T == {D!Abs(m - n) : m \in floats}
<1>1. 0 \in n - D!Abs(n) .. n + D!Abs(n) /\ D!Abs(0 - n) = D!Abs(n) /\ D!Abs(0) = 0
  BY DEF D!Abs
<1>2. 0 <= Exact
  BY OtherConstants DEF D!ConstantsType
<1>3. D!IsFloat(0)
  BY <1>1, <1>2 DEF D!IsFloat
<1>4. 0 \in floats /\ floats \subseteq Int
  BY <1>1, <1>3 DEF D!Abs
<1>5. \A m \in Int : D!Abs(m - n) \in Nat
  BY DEF D!Abs
<1>6. \A m \in floats : D!Abs(m - n) \in Nat
  BY <1>4, <1>5
<1>7. PICK least \in T : \A y \in T : least <= y
  <2>1. T \subseteq Nat /\ T # {}
    BY <1>4, <1>6
  <2> HIDE DEF T
  <2> QED BY <2>1, SmallestIs
<1>8. PICK m \in floats : least = D!Abs(m - n)
  BY <1>7
<1>9. \A l \in floats : D!Abs(m - n) <= D!Abs(l - n)
  BY <1>7, <1>8
<1>10. D!Float(n) = CHOOSE x \in floats : \A l \in floats : D!Abs(x - n) <= D!Abs(l - n)
  BY DEF D!Float
<1> DEFINE f == D!Float(n)
<1>11. f \in floats /\ \A l \in floats : D!Abs(f - n) <= D!Abs(l - n)
  <2> HIDE DEF floats, f
  <2>1. f = CHOOSE x \in floats : \A l \in floats : D!Abs(x - n) <= D!Abs(l - n)
    BY <1>10 DEF f
  <2> QED BY <1>8, <1>9, <2>1
<1>12. f \in Int /\ D!IsFloat(f) /\ D!Abs(f - n) <= D!Abs(n)
  BY <1>1, <1>4, <1>11
<1> HIDE DEF f
<1>13. ASSUME NEW l \in Int, D!IsFloat(l) PROVE D!Abs(f - n) <= D!Abs(l - n)
  <2>1. CASE l \in n - D!Abs(n) .. n + D!Abs(n)
    BY <1>11, <1>13, <2>1
  <2>2. CASE l \notin n - D!Abs(n) .. n + D!Abs(n)
    <3>1. D!Abs(n) <= D!Abs(l - n)
      BY <2>2 DEF D!Abs
    <3>2. D!Abs(n) \in Int /\ D!Abs(l - n) \in Int /\ D!Abs(f - n) \in Int
      BY <1>12 DEF D!Abs
    <3> QED BY <1>12, <3>1, <3>2
  <2> QED BY <2>1, <2>2
<1> QED BY <1>12, <1>13 DEF f

LEMMA SmallIntegersAreExact ==
  ASSUME NEW n \in -Exact .. Exact
  PROVE  D!Float(n) = n
<1>1. Exact \in Nat
  BY OtherConstants DEF D!ConstantsType
<1>2. n \in Int /\ D!Abs(n) <= Exact
  BY <1>1 DEF D!Abs
<1>3. D!IsFloat(n)
  BY <1>2 DEF D!IsFloat
<1> DEFINE f == D!Float(n)
<1>4. f \in Int /\ D!Abs(f - n) <= D!Abs(n - n)
  BY <1>2, <1>3, FloatIs
<1> HIDE DEF f
<1>5. f = n
  BY <1>2, <1>4 DEF D!Abs
<1> QED BY <1>5 DEF f

LEMMA FloatGrows ==
  ASSUME NEW m \in Int, NEW n \in Int, m <= n
  PROVE  D!Float(m) \in Int /\ D!Float(n) \in Int /\ D!Float(m) <= D!Float(n)
<1> DEFINE f == D!Float(m)
           g == D!Float(n)
<1>1. /\ f \in Int /\ g \in Int
      /\ D!Abs(f - m) <= D!Abs(g - m) /\ D!Abs(g - n) <= D!Abs(f - n)
  BY FloatIs
<1>2. m = n => f = g
  OBVIOUS
<1> HIDE DEF f, g
<1>3. g < f => m = n
  BY <1>1 DEF D!Abs
<1> QED BY <1>1, <1>2, <1>3 DEF f, g

(* Distances of two values from the operators' branches.                           *)
Kinds == {"number", "string", "set", "list", "object", "sized"}

LEMMA PlainIs ==
  ASSUME NEW v, D!IsPlain(v)
  PROVE  /\ v.kind \in Kinds
         /\ v.kind = "number" => v.of \in Int
         /\ v.kind = "string" => v.of \in Seq(Int)
         /\ v.kind = "set" => IsFiniteSet(v.of)
         /\ v.kind = "list" => v.of \in Seq(D!Elements(v))
         /\ v.kind = "sized" => v.of[1] \in Nat /\ (v.of[2] <=> v.of[1] # 0)
<1>1. v.kind = "set" => D!IsFiniteSet(v.of)
  BY DEF D!IsPlain
<1>2. v.kind = "set" => IsFiniteSet(v.of)
  BY <1>1 DEF D!IsFiniteSet, IsFiniteSet
<1> QED BY <1>2 DEF D!IsPlain, Kinds

LEMMA EqIs ==
  ASSUME NEW v, D!IsPlain(v), NEW w, D!IsPlain(w)
  PROVE  D!Eq(v, w) \in Nat /\ (D!Eq(v, w) = 0 <=> D!Equals(v, w))
<1>1. v.kind \in Kinds /\ w.kind \in Kinds
  BY PlainIs
<1>2. CASE D!Equals(v, w)
  BY <1>2 DEF D!Eq
<1>3. CASE ~D!Equals(v, w) /\ v.kind = "number" /\ w.kind = "number"
  <2>1. v.of \in Int /\ w.of \in Int /\ v.of # w.of
    BY <1>3, PlainIs DEF D!Equals
  <2>2. D!Eq(v, w) = D!Abs(v.of - w.of)
    BY <1>3 DEF D!Eq, D!IsNumeric
  <2> DEFINE x == v.of
             y == w.of
  <2>3. x \in Int /\ y \in Int /\ x # y /\ D!Eq(v, w) = D!Abs(x - y)
    BY <2>1, <2>2
  <2> HIDE DEF x, y
  <2>4. D!Abs(x - y) \in Nat /\ D!Abs(x - y) # 0
    BY <2>3 DEF D!Abs
  <2> QED BY <1>3, <2>3, <2>4
<1>4. CASE ~D!Equals(v, w) /\ v.kind = "string" /\ w.kind = "string"
  <2>1. v.of \in Seq(Int) /\ w.of \in Seq(Int) /\ v.of # w.of
    BY <1>4, PlainIs DEF D!Equals
  <2>2. D!Eq(v, w) = D!Levenshtein(v.of, w.of)
    BY <1>4 DEF D!Eq, D!IsNumeric
  <2> QED BY <1>4, <2>1, <2>2, LevenshteinIs
<1>5. CASE /\ ~D!Equals(v, w) /\ ~(v.kind = "number" /\ w.kind = "number")
           /\ ~(v.kind = "string" /\ w.kind = "string")
  <2>1. D!Eq(v, w) = D!Infinite
    BY <1>1, <1>5 DEF D!Eq, D!IsNumeric, Kinds
  <2> QED BY <1>5, <2>1 DEF D!Infinite
<1> QED BY <1>2, <1>3, <1>4, <1>5

LEMMA LtAndLeAre ==
  ASSUME NEW v, D!IsPlain(v), NEW w, D!IsPlain(w),
         v.kind = "number" /\ w.kind = "number" => D!Float(v.of) # D!Float(w.of) \/ v.of = w.of
  PROVE  /\ D!Lt(v, w) \in Nat /\ (D!Lt(v, w) = 0 <=> D!Less(v, w))
         /\ D!Le(v, w) \in Nat /\ (D!Le(v, w) = 0 <=> D!AtMost(v, w))
<1>1. v.kind \in Kinds /\ w.kind \in Kinds
  BY PlainIs
<1>2. CASE v.kind = "number" /\ w.kind = "number"
  <2>1. \A more : D!Beyond(v, w, more) = D!Float(v.of) - D!Float(w.of) + more
    BY <1>2 DEF D!Beyond, D!IsNumeric
  <2>2. /\ D!Less(v, w) <=> v.of < w.of
        /\ D!AtMost(v, w) <=> v.of < w.of \/ v.of = w.of
    BY <1>2 DEF D!Less, D!AtMost, D!Equals
  <2> DEFINE x == v.of
             y == w.of
             f == D!Float(x)
             g == D!Float(y)
  <2>3. x \in Int /\ y \in Int
    BY <1>2, PlainIs
  <2>4. /\ D!Lt(v, w) = IF x < y THEN 0 ELSE f - g + 1
        /\ D!Le(v, w) = IF x < y \/ x = y THEN 0 ELSE f - g + 0
    BY <1>2, <2>1, <2>2 DEF D!Lt, D!Le
  <2>5. (D!Less(v, w) <=> x < y) /\ (D!AtMost(v, w) <=> x < y \/ x = y)
    BY <2>2
  <2>6. f \in Int /\ g \in Int /\ (y <= x => g <= f) /\ (f # g \/ x = y)
    BY <1>2, <2>3, FloatIs, FloatGrows
  <2> HIDE DEF x, y, f, g
  <2> QED BY <2>3, <2>4, <2>5, <2>6
<1>3. CASE ~(v.kind = "number" /\ w.kind = "number")
  <2>1. ~(D!IsNumeric(v) /\ D!IsNumeric(w))
    BY <1>1, <1>3 DEF D!IsNumeric, Kinds
  <2>2. /\ D!Lt(v, w) = IF D!Less(v, w) THEN 0 ELSE D!Infinite
        /\ D!Le(v, w) = IF D!AtMost(v, w) THEN 0 ELSE D!Infinite
    BY <2>1 DEF D!Lt, D!Le, D!Beyond
  <2> QED BY <2>2 DEF D!Infinite
<1> QED BY <1>2, <1>3

(* Of two values one is less than the other or the other is at most the one.       *)
LEMMA OrderIs ==
  ASSUME NEW v, D!IsPlain(v), NEW w, D!IsPlain(w), D!Comparable(v, w),
         v.kind = "set" /\ w.kind = "set" => v.of \subseteq w.of \/ w.of \subseteq v.of
  PROVE  D!Less(v, w) <=> ~D!AtMost(w, v)
<1>1. CASE v.kind = "number" /\ w.kind = "number"
  <2>1. /\ D!Less(v, w) <=> v.of < w.of
        /\ D!AtMost(w, v) <=> w.of < v.of \/ w.of = v.of
    BY <1>1 DEF D!Less, D!AtMost, D!Equals
  <2> DEFINE x == v.of
             y == w.of
  <2>2. x \in Int /\ y \in Int
    BY <1>1, PlainIs
  <2>3. (D!Less(v, w) <=> x < y) /\ (D!AtMost(w, v) <=> y < x \/ x = y)
    BY <2>1
  <2> HIDE DEF x, y
  <2> QED BY <2>2, <2>3
<1>2. CASE v.kind = "string" /\ w.kind = "string"
  <2>1. /\ D!Less(v, w) <=> D!Precedes(v.of, w.of)
        /\ D!AtMost(w, v) <=> D!Precedes(w.of, v.of) \/ w.of = v.of
    BY <1>2 DEF D!Less, D!AtMost, D!Equals
  <2>2. v.of \in Seq(Int) /\ w.of \in Seq(Int)
    BY <1>2, PlainIs
  <2> DEFINE x == v.of
             y == w.of
  <2>3. /\ D!Precedes(x, y) => x # y /\ ~D!Precedes(y, x)
        /\ x # y => D!Precedes(x, y) \/ D!Precedes(y, x)
    BY <2>2, OneComesFirst
  <2> QED BY <2>1, <2>3
<1>3. CASE v.kind = "set" /\ w.kind = "set"
  <2>1. /\ D!Less(v, w) <=> v.of # w.of /\ v.of \subseteq w.of
        /\ D!AtMost(w, v) <=> (w.of # v.of /\ w.of \subseteq v.of) \/ w.of = v.of
    BY <1>3 DEF D!Less, D!AtMost, D!Equals
  <2> QED BY <1>3, <2>1
<1>4. v.kind # "nan" /\ w.kind # "nan"
  BY PlainIs DEF Kinds
<1> QED BY <1>1, <1>2, <1>3, <1>4 DEF D!Comparable, D!IsNumeric

LEMMA InIs ==
  ASSUME NEW v, D!IsPlain(v), NEW w, \A e \in D!Elements(w) : D!IsPlain(e)
  PROVE  D!In(v, w) \in Nat /\ (D!In(v, w) = 0 <=> D!Contains(v, w))
<1>1. CASE D!Contains(v, w)
  BY <1>1 DEF D!In
<1>2. CASE ~D!Contains(v, w)
  <2> DEFINE T == {D!Eq(v, e) : e \in D!Elements(w)} \cup {D!Infinite}
  <2>1. \A e \in D!Elements(w) : D!Eq(v, e) \in Nat /\ D!Eq(v, e) # 0
    <3> SUFFICES ASSUME NEW e \in D!Elements(w) PROVE D!Eq(v, e) \in Nat /\ D!Eq(v, e) # 0
      OBVIOUS
    <3>1. ~D!Equals(v, e)
      BY <1>2 DEF D!Contains
    <3> QED BY <3>1, EqIs
  <2>2. T \subseteq Nat \ {0} /\ D!Infinite \in T
    BY <2>1 DEF D!Infinite
  <2>3. D!In(v, w) = D!Smallest(T)
    BY <1>2 DEF D!In
  <2> HIDE DEF T
  <2>4. D!Smallest(T) \in T
    BY <2>2, SmallestIs
  <2> QED BY <1>2, <2>2, <2>3, <2>4
<1> QED BY <1>1, <1>2

IsRight(pair, jumped) ==
  /\ pair[1] >= 0 /\ pair[2] >= 0
  /\ pair[1] = 0 <=> jumped
  /\ pair[2] = 0 <=> ~jumped

LEMMA ComparisonIsRight ==
  ASSUME D!AreOrdinary(MCValues), NEW v \in MCValues, NEW w \in MCValues,
         NEW op \in D!Operators, D!Accepts(op, v, w)
  PROVE  IsRight(D!CompareDistances(op, v, w), D!Compares(op, v, w))
<1>1. /\ D!IsPlain(v) /\ D!IsPlain(w)
      /\ v.kind = "number" /\ w.kind = "number" => D!Float(v.of) # D!Float(w.of) \/ v.of = w.of
      /\ v.kind = "set" /\ w.kind = "set" => v.of \subseteq w.of \/ w.of \subseteq v.of
      /\ w.kind \in {"list", "set"} => \A e \in D!Elements(w) : D!IsPlain(e)
  BY DEF D!AreOrdinary
<1>2. D!Eq(v, w) \in Nat /\ (D!Eq(v, w) = 0 <=> D!Equals(v, w))
  BY <1>1, EqIs
<1>3. D!Neq(v, w) \in Nat /\ (D!Neq(v, w) = 0 <=> ~D!Equals(v, w))
  BY DEF D!Neq
<1>4. CASE op = "=="
  BY <1>2, <1>3, <1>4 DEF D!CompareDistances, D!Compares, IsRight
<1>5. CASE op = "!="
  BY <1>2, <1>3, <1>5 DEF D!CompareDistances, D!Compares, IsRight
<1>6. CASE op \in {"<", "<=", ">", ">="}
  <2>1. D!Comparable(v, w) /\ D!Comparable(w, v)
    BY <1>6 DEF D!Accepts, D!Comparable
  <2>2. /\ D!Lt(v, w) \in Nat /\ (D!Lt(v, w) = 0 <=> D!Less(v, w))
        /\ D!Le(v, w) \in Nat /\ (D!Le(v, w) = 0 <=> D!AtMost(v, w))
        /\ D!Lt(w, v) \in Nat /\ (D!Lt(w, v) = 0 <=> D!Less(w, v))
        /\ D!Le(w, v) \in Nat /\ (D!Le(w, v) = 0 <=> D!AtMost(w, v))
    BY <1>1, LtAndLeAre
  <2>3. (D!Less(v, w) <=> ~D!AtMost(w, v)) /\ (D!Less(w, v) <=> ~D!AtMost(v, w))
    BY <1>1, <2>1, OrderIs
  <2>4. CASE op = "<"
    BY <2>2, <2>3, <2>4 DEF D!CompareDistances, D!Compares, IsRight
  <2>5. CASE op = "<="
    BY <2>2, <2>3, <2>5 DEF D!CompareDistances, D!Compares, IsRight
  <2>6. CASE op = ">"
    BY <2>2, <2>3, <2>6 DEF D!CompareDistances, D!Compares, IsRight
  <2>7. CASE op = ">="
    BY <2>2, <2>3, <2>7 DEF D!CompareDistances, D!Compares, IsRight
  <2> QED BY <1>6, <2>4, <2>5, <2>6, <2>7
<1>7. CASE op \in {"in", "not_in"}
  <2>1. w.kind \in {"list", "set"}
    BY <1>7 DEF D!Accepts
  <2>2. D!In(v, w) \in Nat /\ (D!In(v, w) = 0 <=> D!Contains(v, w))
    BY <1>1, <2>1, InIs
  <2>3. D!Nin(v, w) \in Nat /\ (D!Nin(v, w) = 0 <=> ~D!Contains(v, w))
    BY DEF D!Nin
  <2>4. CASE op = "in"
    BY <2>2, <2>3, <2>4 DEF D!CompareDistances, D!Compares, IsRight
  <2>5. CASE op = "not_in"
    BY <2>2, <2>3, <2>5 DEF D!CompareDistances, D!Compares, IsRight
  <2> QED BY <1>7, <2>4, <2>5
<1>8. CASE op \in {"is", "is_not"}
  <2>1. /\ D!Is(v, w) \in Nat /\ (D!Is(v, w) = 0 <=> D!Identical(v, w))
        /\ D!Isn(v, w) \in Nat /\ (D!Isn(v, w) = 0 <=> ~D!Identical(v, w))
    BY DEF D!Is, D!Isn
  <2>2. CASE op = "is"
    BY <2>1, <2>2 DEF D!CompareDistances, D!Compares, IsRight
  <2>3. CASE op = "is_not"
    BY <2>1, <2>3 DEF D!CompareDistances, D!Compares, IsRight
  <2> QED BY <1>8, <2>2, <2>3
<1> QED BY <1>4, <1>5, <1>6, <1>7, <1>8 DEF D!Operators

LEMMA TruthIsRight ==
  ASSUME NEW v, D!IsPlain(v)
  PROVE  IsRight(D!BoolDistances(v), D!IsTrue(v))
<1>1. v.kind \in Kinds
  BY PlainIs
<1>2. CASE ~D!IsTrue(v)
  <2>1. D!BoolDistances(v) = <<1, 0>>
    BY <1>2 DEF D!BoolDistances
  <2> QED BY <1>2, <2>1 DEF IsRight
<1>3. ASSUME D!IsTrue(v), NEW x \in Nat, x # 0, D!BoolDistances(v) = <<0, x>>
      PROVE  IsRight(D!BoolDistances(v), D!IsTrue(v))
  BY <1>3 DEF IsRight
<1>4. CASE D!IsTrue(v) /\ v.kind = "sized"
  <2>1. v.of[1] \in Nat /\ v.of[1] # 0 /\ D!BoolDistances(v) = <<0, v.of[1]>>
    BY <1>4, PlainIs DEF D!IsTrue, D!BoolDistances
  <2> QED BY <1>3, <1>4, <2>1
<1>5. CASE D!IsTrue(v) /\ v.kind \in {"string", "list"}
  <2>1. v.of # << >> /\ D!BoolDistances(v) = <<0, Len(v.of)>>
    BY <1>5 DEF D!IsTrue, D!BoolDistances
  <2>2. Len(v.of) \in Nat /\ Len(v.of) # 0
    <3>1. PICK T : v.of \in Seq(T)
      BY <1>5, PlainIs
    <3> QED BY <2>1, <3>1, EmptySeq
  <2> QED BY <1>3, <1>5, <2>1, <2>2
<1>6. CASE D!IsTrue(v) /\ v.kind = "set"
  <2>1. v.of # {} /\ D!BoolDistances(v) = <<0, D!Cardinality(v.of)>>
    BY <1>6 DEF D!IsTrue, D!BoolDistances
  <2>2. IsFiniteSet(v.of) /\ D!Cardinality(v.of) = Cardinality(v.of)
    BY <1>6, PlainIs DEF D!Cardinality, Cardinality
  <2>3. Cardinality(v.of) \in Nat /\ Cardinality(v.of) # 0
    BY <2>1, <2>2, FS_CardinalityType, FS_EmptySet
  <2> QED BY <1>3, <1>6, <2>1, <2>2, <2>3
<1>7. CASE D!IsTrue(v) /\ v.kind = "number"
  <2>1. v.of \in Int /\ v.of # 0 /\ D!BoolDistances(v) = <<0, D!Abs(v.of)>>
    BY <1>7, PlainIs DEF D!IsTrue, D!BoolDistances
  <2> DEFINE x == v.of
  <2>2. x \in Int /\ x # 0 /\ D!BoolDistances(v) = <<0, D!Abs(x)>>
    BY <2>1
  <2> HIDE DEF x
  <2>3. D!Abs(x) \in Nat /\ D!Abs(x) # 0
    BY <2>2 DEF D!Abs
  <2> QED BY <1>3, <1>7, <2>2, <2>3
<1>8. CASE D!IsTrue(v) /\ v.kind = "object"
  <2>1. D!BoolDistances(v) = <<0, D!Infinite>> /\ D!Infinite \in Nat /\ D!Infinite # 0
    BY <1>8 DEF D!BoolDistances, D!Infinite
  <2> QED BY <1>3, <1>8, <2>1
<1> QED BY <1>1, <1>2, <1>4, <1>5, <1>6, <1>7, <1>8 DEF Kinds

(* Whatever values a predicate is executed with, as long as none is NaN, numbers   *)
(* are integers no two of which become the same float (so all up to 2^53), of two  *)
(* sets one contains the other and objects are true when they are not empty, the   *)
(* distance is zero for the branch that the jump takes and positive for the other  *)
(* one (executed_compare_predicate, executed_bool_predicate,                       *)
(* executed_exception_match).  For other values it is not: 2^53 + 1 <= 2^53 has    *)
(* distance zero to both branches; and see ExactlyOneIsZero.                       *)
THEOREM ZeroAlwaysMeansTaken ==
  ASSUME D!AreOrdinary(MCValues)
  PROVE  MCSpec => []ZeroMeansTaken
<1>1. ZeroMeansTaken <=> IsRight(distances, jumps)
  BY DEF ZeroMeansTaken, D!ZeroMeansTaken, IsRight
<1>2. MCInit => IsRight(distances, jumps)
  BY DEF MCInit, DistancesIdle, D!Init, D!ExceptionDistances, IsRight
<1>3. IsRight(distances, jumps) /\ [MCNext]_allVars => IsRight(distances, jumps)'
  <2> SUFFICES ASSUME IsRight(distances, jumps), [MCNext]_allVars
               PROVE  IsRight(distances', jumps')
    BY DEF IsRight
  <2>1. CASE DistancesStep /\ D!ComparePredicate
    BY <2>1, ComparisonIsRight DEF D!ComparePredicate
  <2>2. CASE DistancesStep /\ D!BoolPredicate
    BY <2>2, TruthIsRight DEF D!BoolPredicate, D!AreOrdinary
  <2>3. CASE DistancesStep /\ D!ExceptionMatch
    BY <2>3 DEF D!ExceptionMatch, D!ExceptionDistances, IsRight
  <2>4. CASE ~DistancesStep
    BY <2>4 DEF MCNext, SlicerStep, BranchesStep, InstrumentationStep, allVars, dVars
  <2> QED BY <2>1, <2>2, <2>3, <2>4 DEF DistancesStep, D!Next
<1> QED BY <1>1, <1>2, <1>3, PTL DEF MCSpec, MCNext

--------------------------------------------------------------------------------
(* Graphs.                                                                         *)

ClosedUnder(E, K) == \A e \in E : e[1] \in K => e[2] \in K

(* What is reached from some nodes: the least set that edges do not lead out of.    *)
LEMMA ReachableIs ==
  ASSUME NEW G, NEW Z, IsFiniteSet(G.nodes \cup Z), \A e \in G.edges : e[2] \in G.nodes,
         NEW found, found = B!Reachable(G, Z)
  PROVE  /\ Z \subseteq found /\ found \subseteq G.nodes \cup Z /\ ClosedUnder(G.edges, found)
         /\ \A K : Z \subseteq K /\ ClosedUnder(G.edges, K) => found \subseteq K
<1> DEFINE U == G.nodes \cup Z
           E == G.edges
           More(s) == s \cup {e[2] : e \in {x \in E : x[1] \in s}}
           Body(f, s) == IF More(s) = s THEN s ELSE f[More(s)]
           IsFrom(f) == f = [s \in SUBSET U |-> Body(f, s)]
           From == CHOOSE f : IsFrom(f)
           Least(s) == {x \in U : \A K \in SUBSET U : s \subseteq K /\ ClosedUnder(E, K) => x \in K}
           Good(s) == /\ s \subseteq From[s] /\ From[s] \subseteq U /\ ClosedUnder(E, From[s])
                      /\ \A K : s \subseteq K /\ ClosedUnder(E, K) => From[s] \subseteq K
<1>1. \A s \in SUBSET U : s \subseteq More(s) /\ More(s) \in SUBSET U
  OBVIOUS
<1>2. \A s, K : s \subseteq K /\ ClosedUnder(E, K) => More(s) \subseteq K
  BY DEF ClosedUnder
<1>3. \A s : More(s) = s => ClosedUnder(E, s)
  BY DEF ClosedUnder
<1>7. found = From[Z]
  BY DEF B!Reachable
<1> HIDE DEF U, E, More
<1>4. \E f : IsFrom(f)
  <2> DEFINE g == [s \in SUBSET U |-> Least(s)]
  <2>1. ASSUME NEW s \in SUBSET U PROVE g[s] = Body(g, s)
    <3>1. CASE More(s) = s
      <4>1. ClosedUnder(E, s)
        BY <1>3, <3>1
      <4>2. Least(s) = s
        BY <4>1
      <4> QED BY <3>1, <4>2
    <3>2. CASE More(s) # s
      <4>1. Least(s) = Least(More(s))
        BY <1>1, <1>2
      <4>2. More(s) \in SUBSET U
        BY <1>1
      <4> QED BY <3>2, <4>1, <4>2
    <3> QED BY <3>1, <3>2
  <2>2. g = [s \in SUBSET U |-> g[s]]
    OBVIOUS
  <2> HIDE DEF g, Body
  <2>3. IsFrom(g)
    BY <2>1, <2>2
  <2> QED BY <2>3
<1>5. IsFrom(From)
  <2> HIDE DEF IsFrom
  <2> QED BY <1>4
<1>6. \A s \in SUBSET U : From[s] = Body(From, s)
  <2> HIDE DEF Body, From
  <2> QED BY <1>5
<1> HIDE DEF From
<1> DEFINE m == Cardinality(U)
           T == {n \in 0 .. m : \A s \in SUBSET U : Cardinality(U \ s) = n => Good(s)}
<1>8. IsFiniteSet(U) /\ m \in Nat
  <2>1. IsFiniteSet(U)
    BY DEF U
  <2> QED BY <2>1, FS_CardinalityType
<1>9. \A s \in SUBSET U : IsFiniteSet(U \ s) /\ Cardinality(U \ s) \in 0 .. m
  <2> SUFFICES ASSUME NEW s \in SUBSET U PROVE IsFiniteSet(U \ s) /\ Cardinality(U \ s) \in 0 .. m
    OBVIOUS
  <2>1. IsFiniteSet(U \ s) /\ Cardinality(U \ s) <= m
    BY <1>8, FS_Subset
  <2>2. Cardinality(U \ s) \in Nat
    BY <2>1, FS_CardinalityType
  <2> QED BY <1>8, <2>1, <2>2
<1>10. ASSUME NEW n \in 0 .. m, \A k \in 0 .. m : k < n => k \in T PROVE n \in T
  <2> SUFFICES ASSUME NEW s \in SUBSET U, Cardinality(U \ s) = n PROVE Good(s)
    OBVIOUS
  <2>1. CASE More(s) = s
    <3>1. From[s] = s /\ ClosedUnder(E, s)
      BY <1>3, <1>6, <2>1
    <3> QED BY <3>1
  <2>2. CASE More(s) # s
    <3>1. More(s) \in SUBSET U /\ s \subseteq More(s) /\ From[s] = From[More(s)]
      BY <1>1, <1>6, <2>2
    <3> DEFINE k == Cardinality(U \ More(s))
    <3>2. k \in 0 .. m
      BY <1>9, <3>1
    <3>3. k < n
      <4>1. U \ More(s) \subseteq U \ s /\ U \ More(s) # U \ s
        BY <2>2, <3>1
      <4>2. IsFiniteSet(U \ s)
        BY <1>9
      <4>3. k <= n /\ k # n
        BY <4>1, <4>2, FS_Subset
      <4> QED BY <1>8, <3>2, <4>3
    <3>4. Good(More(s))
      BY <1>10, <3>1, <3>2, <3>3
    <3> QED BY <1>2, <3>1, <3>4
  <2> QED BY <2>1, <2>2
<1>11. T = 0 .. m
  <2> HIDE DEF T
  <2>1. T \subseteq 0 .. m
    BY DEF T
  <2> QED BY <1>8, <1>10, <2>1, AllUpTo
<1>12. Good(Z)
  <2>1. Z \in SUBSET U
    BY DEF U
  <2> HIDE DEF Good
  <2> QED BY <1>9, <1>11, <2>1
<1> QED BY <1>7, <1>12 DEF U, E

(* Cutting down a set as long as it changes leaves the greatest part of it that is  *)
(* not cut.                                                                        *)
CutBy(cut, Z) == CHOOSE f : f = [s \in SUBSET Z |-> IF cut[s] = s THEN s ELSE f[cut[s]]]

LEMMA CutDown ==
  ASSUME NEW Z, IsFiniteSet(Z), NEW cut \in [SUBSET Z -> SUBSET Z],
         \A s \in SUBSET Z : cut[s] \subseteq s,
         \A s, t \in SUBSET Z : s \subseteq t => cut[s] \subseteq cut[t]
  PROVE  \A s \in SUBSET Z :
           /\ CutBy(cut, Z)[s] \subseteq s /\ cut[CutBy(cut, Z)[s]] = CutBy(cut, Z)[s]
           /\ \A K \in SUBSET s : K \subseteq cut[K] => K \subseteq CutBy(cut, Z)[s]
<1> DEFINE Greatest(s) == UNION {K \in SUBSET s : K \subseteq cut[K]}
           Body(f, s) == IF cut[s] = s THEN s ELSE f[cut[s]]
           Good(f, s) == /\ f[s] \subseteq s /\ cut[f[s]] = f[s]
                         /\ \A K \in SUBSET s : K \subseteq cut[K] => K \subseteq f[s]
<1>1. \E f : f = [s \in SUBSET Z |-> Body(f, s)]
  <2> DEFINE g == [s \in SUBSET Z |-> Greatest(s)]
  <2>1. ASSUME NEW s \in SUBSET Z PROVE g[s] = Body(g, s)
    <3>1. CASE cut[s] = s
      <4>1. Greatest(s) = s
        BY <3>1
      <4> QED BY <3>1, <4>1
    <3>2. CASE cut[s] # s
      <4>1. cut[s] \in SUBSET Z /\ cut[s] \subseteq s
        OBVIOUS
      <4>2. \A K \in SUBSET s : K \subseteq cut[K] => K \in SUBSET cut[s]
        <5> SUFFICES ASSUME NEW K \in SUBSET s, K \subseteq cut[K] PROVE K \subseteq cut[s]
          OBVIOUS
        <5>1. cut[K] \subseteq cut[s]
          OBVIOUS
        <5> QED BY <5>1
      <4>3. Greatest(s) = Greatest(cut[s])
        BY <4>1, <4>2
      <4> QED BY <3>2, <4>1, <4>3
    <3> QED BY <3>1, <3>2
  <2>2. g = [s \in SUBSET Z |-> g[s]]
    OBVIOUS
  <2> HIDE DEF g, Body
  <2>3. g = [s \in SUBSET Z |-> Body(g, s)]
    BY <2>1, <2>2
  <2> QED BY <2>3
<1>2. ASSUME NEW f, f = [s \in SUBSET Z |-> Body(f, s)] PROVE \A s \in SUBSET Z : Good(f, s)
  <2> DEFINE m == Cardinality(Z)
             T == {n \in 0 .. m : \A s \in SUBSET Z : Cardinality(s) = n => Good(f, s)}
  <2>1. m \in Nat /\ \A s \in SUBSET Z : IsFiniteSet(s) /\ Cardinality(s) \in 0 .. m
    <3>1. m \in Nat
      BY FS_CardinalityType
    <3> SUFFICES ASSUME NEW s \in SUBSET Z PROVE IsFiniteSet(s) /\ Cardinality(s) \in 0 .. m
      BY <3>1
    <3>2. IsFiniteSet(s) /\ Cardinality(s) <= m
      BY FS_Subset
    <3>3. Cardinality(s) \in Nat
      BY <3>2, FS_CardinalityType
    <3> QED BY <3>1, <3>2, <3>3
  <2>2. \A s \in SUBSET Z : f[s] = Body(f, s)
    <3> HIDE DEF Body
    <3> QED BY <1>2
  <2>3. ASSUME NEW n \in 0 .. m, \A k \in 0 .. m : k < n => k \in T PROVE n \in T
    <3> SUFFICES ASSUME NEW s \in SUBSET Z, Cardinality(s) = n PROVE Good(f, s)
      OBVIOUS
    <3>1. CASE cut[s] = s
      <4>1. f[s] = s
        BY <2>2, <3>1
      <4> QED BY <3>1, <4>1
    <3>2. CASE cut[s] # s
      <4>1. cut[s] \in SUBSET Z /\ cut[s] \subseteq s /\ f[s] = f[cut[s]]
        BY <2>2, <3>2
      <4> DEFINE k == Cardinality(cut[s])
      <4>2. k \in 0 .. m /\ k < n
        <5>1. k <= n /\ k # n
          BY <2>1, <3>2, <4>1, FS_Subset
        <5> QED BY <2>1, <4>1, <5>1
      <4>3. Good(f, cut[s])
        BY <2>3, <4>1, <4>2
      <4>4. \A K \in SUBSET s : K \subseteq cut[K] => K \in SUBSET cut[s]
        <5> SUFFICES ASSUME NEW K \in SUBSET s, K \subseteq cut[K] PROVE K \subseteq cut[s]
          OBVIOUS
        <5>1. cut[K] \subseteq cut[s]
          OBVIOUS
        <5> QED BY <5>1
      <4> QED BY <4>1, <4>3, <4>4
    <3> QED BY <3>1, <3>2
  <2>4. T = 0 .. m
    <3> HIDE DEF T
    <3>1. T \subseteq 0 .. m
      BY DEF T
    <3> QED BY <2>1, <2>3, <3>1, AllUpTo
  <2> HIDE DEF Good
  <2> QED BY <2>1, <2>4
<1>3. CutBy(cut, Z) = [s \in SUBSET Z |-> Body(CutBy(cut, Z), s)]
  <2> DEFINE Is(f) == f = [s \in SUBSET Z |-> Body(f, s)]
             chosen == CHOOSE f : Is(f)
  <2>1. Is(chosen)
    <3> HIDE DEF Is
    <3> QED BY <1>1 DEF Is
  <2>2. chosen = CutBy(cut, Z)
    BY DEF CutBy
  <2> HIDE DEF chosen
  <2> QED BY <2>1, <2>2
<1> QED BY <1>2, <1>3

--------------------------------------------------------------------------------
(* Post-dominance in a graph in which every way can be taken on to the exit.       *)

FlowGraph(G) ==
  /\ IsFiniteSet(G.nodes) /\ B!Exit \in G.nodes
  /\ \A e \in G.edges : e[1] \in G.nodes \ {B!Exit} /\ e[2] \in G.nodes
  /\ \A K \in SUBSET G.nodes : K # {} /\ ClosedUnder(G.edges, K) => B!Exit \in K

(* Nodes from which the exit is not reached without d.                             *)
Trapped(G, d, K) ==
  /\ d \notin K /\ B!Exit \notin K
  /\ \A e \in G.edges : e[1] \in K /\ e[2] # d => e[2] \in K

LEMMA PostDominatesIs ==
  ASSUME NEW G, FlowGraph(G), NEW n \in G.nodes, NEW d
  PROVE  B!PostDominates(G, d, n) <=> n = d \/ \E K \in SUBSET G.nodes : n \in K /\ Trapped(G, d, K)
<1> DEFINE A == B!Avoiding(G, d)
           found == B!Reachable(A, {n})
<1>1. /\ A.nodes = G.nodes /\ A.edges = {e \in G.edges : e[1] # d /\ e[2] # d}
      /\ \A e \in G.edges : e[1] \in G.nodes /\ e[2] \in G.nodes
      /\ IsFiniteSet(G.nodes)
  BY DEF B!Avoiding, FlowGraph
<1> HIDE DEF A
<1>2. /\ n \in found /\ found \subseteq G.nodes /\ ClosedUnder(A.edges, found)
      /\ \A K : n \in K /\ ClosedUnder(A.edges, K) => found \subseteq K
  <2>1. IsFiniteSet(A.nodes \cup {n}) /\ A.nodes \cup {n} = G.nodes
    <3>1. A.nodes \cup {n} = G.nodes
      BY <1>1
    <3> QED BY <1>1, <3>1
  <2>2. \A e \in A.edges : e[2] \in A.nodes
    BY <1>1
  <2>3. /\ {n} \subseteq found /\ found \subseteq A.nodes \cup {n} /\ ClosedUnder(A.edges, found)
        /\ \A K : {n} \subseteq K /\ ClosedUnder(A.edges, K) => found \subseteq K
    <3> HIDE DEF found
    <3> QED BY <2>1, <2>2, ReachableIs DEF found
  <2> HIDE DEF found
  <2> QED BY <2>1, <2>3
<1>3. B!PostDominates(G, d, n) <=> n = d \/ B!Exit \notin found
  BY DEF B!PostDominates, A
<1> HIDE DEF found
<1>4. ASSUME n # d, B!Exit \notin found
      PROVE  \E K \in SUBSET G.nodes : n \in K /\ Trapped(G, d, K)
  <2> DEFINE K == found \ {d}
  <2>1. n \in K /\ K \in SUBSET G.nodes /\ d \notin K /\ B!Exit \notin K
    BY <1>2, <1>4
  <2>2. ASSUME NEW e \in G.edges, e[1] \in K, e[2] # d PROVE e[2] \in K
    BY <1>1, <1>2, <2>2 DEF ClosedUnder
  <2> QED BY <2>1, <2>2 DEF Trapped
<1>5. ASSUME NEW K \in SUBSET G.nodes, n \in K, Trapped(G, d, K) PROVE B!Exit \notin found
  BY <1>1, <1>2, <1>5 DEF ClosedUnder, Trapped
<1> QED BY <1>3, <1>4, <1>5

(* The nodes that post-dominate a node.                                            *)
After(G, n) == {d \in G.nodes : B!PostDominates(G, d, n)}

LEMMA AfterIs ==
  ASSUME NEW G, FlowGraph(G), NEW n \in G.nodes
  PROVE  /\ n \in After(G, n) /\ B!Exit \in After(G, n) /\ After(G, n) \subseteq G.nodes
         /\ After(G, B!Exit) = {B!Exit}
         /\ \A d : B!PostDominates(G, d, n) <=> d \in After(G, n)
         /\ \A d \in After(G, n) : After(G, d) \subseteq After(G, n)
         /\ \A d \in After(G, n) : n \in After(G, d) => n = d
         /\ \A d, e \in After(G, n) : d \in After(G, e) \/ e \in After(G, d)
         /\ \A d \in After(G, n) \ {n} : \A e \in G.edges : e[1] = n => d \in After(G, e[2])
         /\ \A d \in G.nodes :
              (n # B!Exit /\ \A e \in G.edges : e[1] = n => d \in After(G, e[2]) \/ e[2] = n)
                => d \in After(G, n)
<1> DEFINE V == G.nodes
           E == G.edges
<1>1. /\ B!Exit \in V /\ \A e \in E : e[1] \in V \ {B!Exit} /\ e[2] \in V
      /\ \A K \in SUBSET V : K # {} /\ ClosedUnder(E, K) => B!Exit \in K
  BY DEF FlowGraph
<1>2. \A m, d \in V : d \in After(G, m) <=> m = d \/ \E K \in SUBSET V : m \in K /\ Trapped(G, d, K)
  BY PostDominatesIs DEF After
<1>3. \A m \in V : m \in After(G, m)
  BY <1>2
<1>4. \A m \in V : B!Exit \in After(G, m)
  <2> SUFFICES ASSUME NEW m \in V, m # B!Exit PROVE B!Exit \in After(G, m)
    BY <1>1, <1>2
  <2>1. Trapped(G, B!Exit, V \ {B!Exit})
    BY <1>1 DEF Trapped
  <2> QED BY <1>1, <1>2, <2>1
<1>5. After(G, B!Exit) = {B!Exit}
  BY <1>1, <1>2 DEF Trapped, After
<1>6. \A d : B!PostDominates(G, d, n) <=> d \in After(G, n)
  <2> SUFFICES ASSUME NEW d, B!PostDominates(G, d, n), d \notin V PROVE FALSE
    BY DEF After
  <2>1. PICK K \in SUBSET V : n \in K /\ Trapped(G, d, K)
    BY PostDominatesIs
  <2>2. ClosedUnder(E, K)
    BY <1>1, <2>1 DEF Trapped, ClosedUnder
  <2> QED BY <1>1, <2>1, <2>2 DEF Trapped
<1>7. \A d \in After(G, n) : After(G, d) \subseteq After(G, n)
  <2> SUFFICES ASSUME NEW d \in After(G, n), NEW c \in After(G, d), c # n, d # n, c # d
               PROVE  c \in After(G, n)
    BY <1>3
  <2>1. d \in V /\ c \in V
    BY DEF After
  <2>2. PICK K \in SUBSET V : n \in K /\ Trapped(G, d, K)
    BY <1>2, <2>1
  <2>3. PICK L \in SUBSET V : d \in L /\ Trapped(G, c, L)
    BY <1>2, <2>1
  <2>4. Trapped(G, c, (K \cup L) \ {c}) /\ n \in (K \cup L) \ {c}
    BY <2>2, <2>3 DEF Trapped
  <2> QED BY <1>2, <2>1, <2>4
<1>8. \A d \in After(G, n) : n \in After(G, d) => n = d
  <2> SUFFICES ASSUME NEW d \in After(G, n), n \in After(G, d), n # d PROVE FALSE
    OBVIOUS
  <2>1. d \in V
    BY DEF After
  <2>2. PICK K \in SUBSET V : n \in K /\ Trapped(G, d, K)
    BY <1>2, <2>1
  <2>3. PICK L \in SUBSET V : d \in L /\ Trapped(G, n, L)
    BY <1>2, <2>1
  <2>4. ClosedUnder(E, K \cup L)
    BY <2>2, <2>3 DEF Trapped, ClosedUnder
  <2> QED BY <1>1, <2>2, <2>3, <2>4 DEF Trapped
<1>9. \A d, e \in After(G, n) : d \in After(G, e) \/ e \in After(G, d)
  <2> SUFFICES ASSUME NEW d \in After(G, n), NEW e \in After(G, n),
                      d \notin After(G, e), e \notin After(G, d)
               PROVE  FALSE
    OBVIOUS
  <2>1. d \in V /\ e \in V
    BY DEF After
  <2>2. d # e /\ d # n /\ e # n
    BY <1>3, <2>1
  <2>3. PICK K \in SUBSET V : n \in K /\ Trapped(G, d, K)
    BY <1>2, <2>1, <2>2
  <2>4. PICK L \in SUBSET V : n \in L /\ Trapped(G, e, L)
    BY <1>2, <2>1, <2>2
  <2>5. e \notin K /\ d \notin L
    BY <1>2, <2>1, <2>3, <2>4
  <2>6. ClosedUnder(E, K \cap L)
    BY <2>2, <2>3, <2>4, <2>5 DEF Trapped, ClosedUnder
  <2> QED BY <1>1, <2>3, <2>4, <2>6 DEF Trapped
<1>10. \A d \in After(G, n) \ {n} : \A e \in E : e[1] = n => d \in After(G, e[2])
  <2> SUFFICES ASSUME NEW d \in After(G, n) \ {n}, NEW e \in E, e[1] = n, e[2] # d
               PROVE  d \in After(G, e[2])
    BY <1>1, <1>3
  <2>1. d \in V
    BY DEF After
  <2>2. PICK K \in SUBSET V : n \in K /\ Trapped(G, d, K)
    BY <1>2, <2>1
  <2>3. e[2] \in K
    BY <2>2 DEF Trapped
  <2> QED BY <1>1, <1>2, <2>1, <2>2, <2>3
<1>11. ASSUME NEW d \in V, n # B!Exit, \A e \in E : e[1] = n => d \in After(G, e[2]) \/ e[2] = n
       PROVE  d \in After(G, n)
  <2> SUFFICES ASSUME n # d PROVE d \in After(G, n)
    BY <1>3
  <2>1. CASE d = B!Exit
    BY <1>4, <2>1
  <2>2. CASE d # B!Exit
    <3> DEFINE earlier == {m \in V \ {d} : d \in After(G, m)}
               K == earlier \cup {n}
    <3>1. B!Exit \notin earlier
      BY <1>5, <2>2
    <3>2. ASSUME NEW x \in E, x[1] \in K, x[2] # d PROVE x[2] \in K
      <4>1. x[1] \in V /\ x[2] \in V
        BY <1>1
      <4>2. CASE x[1] = n
        BY <1>11, <3>2, <4>1, <4>2
      <4>3. CASE x[1] # n
        <5>1. PICK L \in SUBSET V : x[1] \in L /\ Trapped(G, d, L)
          BY <1>2, <3>2, <4>3
        <5>2. x[2] \in L
          BY <3>2, <5>1 DEF Trapped
        <5> QED BY <1>2, <3>2, <4>1, <5>1, <5>2
      <4> QED BY <4>2, <4>3
    <3>3. Trapped(G, d, K) /\ n \in K /\ K \in SUBSET V
      BY <1>11, <3>1, <3>2 DEF Trapped
    <3> QED BY <1>2, <3>3
  <2> QED BY <2>1, <2>2
<1>12. After(G, n) \subseteq V
  BY DEF After
<1> QED BY <1>3, <1>4, <1>5, <1>6, <1>7, <1>8, <1>9, <1>10, <1>11, <1>12


--------------------------------------------------------------------------------
(* The post-dominator tree.                                                        *)

LEMMA DominanceIs ==
  ASSUME NEW G, FlowGraph(G), NEW dominance, dominance = B!Dominance(B!Reversed(G))
  PROVE  \A n, d \in G.nodes : <<n, d>> \in dominance <=> d \in After(G, n)
<1> DEFINE V == G.nodes
           R == B!Reversed(G)
           Z == V \X V
           first == {pair \in Z : pair[1] = B!Exit => pair[2] = B!Exit}
           Kept(s, n, d) ==
             \/ n = B!Exit
             \/ /\ B!Predecessors(R, n) # {}
                /\ n = d \/ \A p \in B!Predecessors(R, n) : <<p, d>> \in s
           Less(s) == {pair \in s : Kept(s, pair[1], pair[2])}
           cut == [s \in SUBSET Z |-> Less(s)]
           Cut == CutBy(cut, Z)
<1>1. /\ IsFiniteSet(V) /\ B!Exit \in V
      /\ \A e \in G.edges : e[1] \in V \ {B!Exit} /\ e[2] \in V
      /\ \A K \in SUBSET V : K # {} /\ ClosedUnder(G.edges, K) => B!Exit \in K
  BY DEF FlowGraph
<1>2. /\ R.nodes = V
      /\ \A n, p : p \in B!Predecessors(R, n) <=> \E e \in G.edges : e[1] = n /\ p = e[2]
  <2>1. R.nodes = V /\ R.edges = {<<e[2], e[1], e[3]>> : e \in G.edges}
    BY DEF B!Reversed
  <2> HIDE DEF R
  <2>2. \A n, p : p \in B!Predecessors(R, n) <=> \E x \in R.edges : x[2] = n /\ p = x[1]
    BY DEF B!Predecessors
  <2>3. ASSUME NEW n, NEW p
        PROVE  (\E x \in R.edges : x[2] = n /\ p = x[1]) <=> (\E e \in G.edges : e[1] = n /\ p = e[2])
    <3>1. ASSUME NEW e \in G.edges
          PROVE  \E x \in R.edges : x[2] = e[1] /\ x[1] = e[2]
      <4>1. <<e[2], e[1], e[3]>> \in R.edges
        BY <2>1
      <4> QED BY <4>1
    <3>2. ASSUME NEW x \in R.edges
          PROVE  \E e \in G.edges : x[2] = e[1] /\ x[1] = e[2]
      BY <2>1
    <3> QED BY <3>1, <3>2
  <2> HIDE DEF V
  <2> QED BY <2>1, <2>2, <2>3
<1>3. \A n \in V : B!Predecessors(R, n) = {} <=> n = B!Exit
  <2> SUFFICES ASSUME NEW n \in V, n # B!Exit, B!Predecessors(R, n) = {} PROVE FALSE
    BY <1>1, <1>2
  <2>1. ClosedUnder(G.edges, {n})
    BY <1>2 DEF ClosedUnder
  <2> QED BY <1>1, <2>1
<1>4. B!EntryNode(R) = B!Exit
  <2> HIDE DEF R
  <2> QED BY <1>1, <1>2, <1>3 DEF B!EntryNode
<1>5. dominance = Cut[first]
  <2>1. dominance = LET C[s \in SUBSET Z] == LET less == Less(s) IN IF less = s THEN s ELSE C[less]
                    IN  C[first]
    <3> HIDE DEF R
    <3> QED BY <1>2, <1>4 DEF B!Dominance, R
  <2>2. \A s \in SUBSET Z : cut[s] = Less(s)
    OBVIOUS
  <2>3. CutBy(cut, Z) = CHOOSE f : f = [s \in SUBSET Z |-> IF Less(s) = s THEN s ELSE f[Less(s)]]
    <3> HIDE DEF Less, cut, Z
    <3>1. \A f : [s \in SUBSET Z |-> IF Less(s) = s THEN s ELSE f[Less(s)]]
                 = [s \in SUBSET Z |-> IF cut[s] = s THEN s ELSE f[cut[s]]]
      BY <2>2
    <3> QED BY <3>1 DEF CutBy
  <2> HIDE DEF Less, cut, first, Z, R
  <2> QED BY <2>1, <2>3
<1>6. /\ cut \in [SUBSET Z -> SUBSET Z]
      /\ \A s \in SUBSET Z : cut[s] \subseteq s
      /\ \A s, t \in SUBSET Z : s \subseteq t => cut[s] \subseteq cut[t]
      /\ \A s \in SUBSET Z : cut[s] = Less(s)
  OBVIOUS
<1>7. IsFiniteSet(Z)
  BY <1>1, FS_Product
<1>8. /\ Cut[first] \subseteq first /\ cut[Cut[first]] = Cut[first]
      /\ \A K \in SUBSET first : K \subseteq cut[K] => K \subseteq Cut[first]
  <2>3. first \in SUBSET Z
    OBVIOUS
  <2> HIDE DEF cut, Less, Z, first
  <2>4. \A s \in SUBSET Z : /\ Cut[s] \subseteq s /\ cut[Cut[s]] = Cut[s]
                            /\ \A K \in SUBSET s : K \subseteq cut[K] => K \subseteq Cut[s]
    BY <1>6, <1>7, CutDown
  <2> QED BY <2>3, <2>4
<1>9. /\ dominance \subseteq first /\ Less(dominance) = dominance
      /\ \A K \in SUBSET first : K \subseteq Less(K) => K \subseteq dominance
  <2> HIDE DEF cut, Cut, Less
  <2>1. \A K \in SUBSET first : cut[K] = Less(K)
    BY <1>6
  <2> QED BY <1>5, <1>8, <2>1
<1> HIDE DEF cut, Cut, R
<1>10. ASSUME NEW n \in V, NEW d \in V, <<n, d>> \in dominance, n # d
       PROVE  d \in After(G, n)
  <2> DEFINE K == {m \in V \ {d} : <<m, d>> \in dominance}
  <2>1. B!Exit \notin K
    BY <1>9
  <2>2. ASSUME NEW e \in G.edges, e[1] \in K, e[2] # d PROVE e[2] \in K
    <3>1. <<e[1], d>> \in Less(dominance) /\ e[1] # d /\ e[1] # B!Exit
      BY <1>1, <1>9, <2>2
    <3>2. e[2] \in B!Predecessors(R, e[1])
      BY <1>2
    <3>3. <<e[2], d>> \in dominance
      BY <3>1, <3>2
    <3> QED BY <1>1, <2>2, <3>3
  <2>3. Trapped(G, d, K) /\ n \in K /\ K \in SUBSET V
    BY <1>10, <2>1, <2>2 DEF Trapped
  <2> HIDE DEF K
  <2> QED BY <2>3, PostDominatesIs DEF After
<1>11. ASSUME NEW n \in V, NEW d \in V, d \in After(G, n)
       PROVE  <<n, d>> \in dominance
  <2> DEFINE K == {pair \in Z : pair[2] \in After(G, pair[1])}
  <2>1. K \subseteq first
    BY <1>1, AfterIs
  <2>2. ASSUME NEW pair \in K PROVE Kept(K, pair[1], pair[2])
    <3> SUFFICES ASSUME pair[1] # B!Exit, pair[1] # pair[2]
                 PROVE  \A p \in B!Predecessors(R, pair[1]) : <<p, pair[2]>> \in K
      BY <1>3
    <3> SUFFICES ASSUME NEW e \in G.edges, e[1] = pair[1] PROVE <<e[2], pair[2]>> \in K
      BY <1>2
    <3>1. /\ pair[1] \in V /\ pair[2] \in V /\ e[2] \in V
          /\ pair[2] \in After(G, pair[1]) \ {pair[1]}
      BY <1>1
    <3>2. pair[2] \in After(G, e[2])
      BY <3>1, AfterIs
    <3> QED BY <3>1, <3>2
  <2>3. K \subseteq Less(K)
    BY <2>2
  <2>4. <<n, d>> \in K
    BY <1>11
  <2> HIDE DEF K, Less
  <2> QED BY <1>9, <2>1, <2>3, <2>4
<1> QED BY <1>10, <1>11, AfterIs

LEMMA GreatestExists ==
  ASSUME NEW m \in Nat, NEW T, T \subseteq 0 .. m, T # {}
  PROVE  \E x \in T : \A y \in T : y <= x
<1> DEFINE Upside == {m - y : y \in T}
<1>1. Upside \subseteq Nat /\ Upside # {}
  <2>1. \A y \in T : m - y \in Nat
    OBVIOUS
  <2> QED BY <2>1
<1>2. PICK u \in Upside : \A v \in Upside : u <= v
  BY <1>1, LeastExists
<1>3. PICK x \in T : u = m - x
  OBVIOUS
<1>4. ASSUME NEW y \in T PROVE y <= x
  <2>1. u <= m - y
    BY <1>2
  <2> QED BY <1>3, <2>1
<1> QED BY <1>4

(* The parent of a node: the first of those that post-dominate it.                 *)
Parent(G, n, i) == i \in After(G, n) \ {n} /\ After(G, n) \ {n} = After(G, i)

LEMMA ParentExists ==
  ASSUME NEW G, FlowGraph(G), NEW n \in G.nodes, n # B!Exit
  PROVE  \E i \in G.nodes : Parent(G, n, i)
<1> DEFINE V == G.nodes
           strict == After(G, n) \ {n}
           Size(d) == Cardinality(After(G, d))
           m == Cardinality(V)
           T == {Size(d) : d \in strict}
<1>1. IsFiniteSet(V) /\ m \in Nat
  BY FS_CardinalityType DEF FlowGraph
<1>2. ASSUME NEW d \in V PROVE IsFiniteSet(After(G, d)) /\ Size(d) \in 0 .. m
  <2>1. After(G, d) \subseteq V
    BY AfterIs
  <2>2. IsFiniteSet(After(G, d)) /\ Size(d) <= m
    BY <1>1, <2>1, FS_Subset
  <2>3. Size(d) \in Nat
    BY <2>2, FS_CardinalityType
  <2> QED BY <1>1, <2>2, <2>3
<1>3. strict \subseteq V /\ B!Exit \in strict
  BY AfterIs
<1>4. PICK i \in strict : \A d \in strict : Size(d) <= Size(i)
  <2>1. T \subseteq 0 .. m /\ T # {}
    BY <1>2, <1>3
  <2>2. PICK x \in T : \A y \in T : y <= x
    <3> HIDE DEF T, m
    <3> QED BY <1>1, <2>1, GreatestExists
  <2> QED BY <2>2
<1>5. i \in V /\ i \in After(G, n) /\ i # n
  BY <1>3
<1>6. ASSUME NEW d \in strict PROVE d \in After(G, i)
  <2> SUFFICES ASSUME d \notin After(G, i) PROVE FALSE
    OBVIOUS
  <2>1. d \in V /\ d \in After(G, n)
    BY <1>3
  <2>2. i \in After(G, d)
    BY <1>5, <2>1, AfterIs
  <2>3. After(G, i) \subseteq After(G, d) /\ d \in After(G, d)
    BY <1>5, <2>1, <2>2, AfterIs
  <2>4. Size(i) <= Size(d) /\ Size(i) # Size(d)
    BY <1>2, <2>1, <2>3, FS_Subset
  <2>5. Size(d) <= Size(i) /\ Size(d) \in 0 .. m /\ Size(i) \in 0 .. m
    BY <1>2, <1>4, <1>5, <2>1
  <2> HIDE DEF Size, m
  <2> QED BY <1>1, <2>4, <2>5
<1>7. After(G, i) \subseteq After(G, n) /\ n \notin After(G, i)
  BY <1>5, AfterIs
<1>8. After(G, n) \ {n} = After(G, i)
  BY <1>6, <1>7
<1> QED BY <1>5, <1>8 DEF Parent

(* What every node inherits from its parent holds of all nodes.                    *)
LEMMA DownTheTree ==
  ASSUME NEW G, FlowGraph(G), NEW K,
         \A n \in G.nodes : (\A i \in G.nodes : Parent(G, n, i) => i \in K) => n \in K
  PROVE  G.nodes \subseteq K
<1> DEFINE V == G.nodes
           Size(d) == Cardinality(After(G, d))
           m == Cardinality(V)
           T == {k \in 0 .. m : \A n \in V : Size(n) = k => n \in K}
<1>1. IsFiniteSet(V) /\ m \in Nat
  BY FS_CardinalityType DEF FlowGraph
<1>2. ASSUME NEW d \in V PROVE IsFiniteSet(After(G, d)) /\ Size(d) \in 0 .. m
  <2>1. After(G, d) \subseteq V
    BY AfterIs
  <2>2. IsFiniteSet(After(G, d)) /\ Size(d) <= m
    BY <1>1, <2>1, FS_Subset
  <2>3. Size(d) \in Nat
    BY <2>2, FS_CardinalityType
  <2> QED BY <1>1, <2>2, <2>3
<1>3. ASSUME NEW k \in 0 .. m, \A j \in 0 .. m : j < k => j \in T PROVE k \in T
  <2> SUFFICES ASSUME NEW n \in V, Size(n) = k PROVE n \in K
    OBVIOUS
  <2>1. ASSUME NEW i \in V, Parent(G, n, i) PROVE i \in K
    <3>1. After(G, i) \subseteq After(G, n) /\ n \in After(G, n) /\ n \notin After(G, i)
      BY <2>1, AfterIs DEF Parent
    <3>2. Size(i) <= Size(n) /\ Size(i) # Size(n)
      BY <1>2, <3>1, FS_Subset
    <3>3. Size(i) \in 0 .. m /\ Size(i) < k
      <4>1. Size(i) \in 0 .. m /\ Size(n) \in 0 .. m
        BY <1>2
      <4> HIDE DEF Size, m
      <4> QED BY <1>1, <2>1, <3>2, <4>1
    <3> QED BY <1>3, <2>1, <3>3
  <2> QED BY <2>1
<1>4. T = 0 .. m
  <2> HIDE DEF T, m
  <2>1. T \subseteq 0 .. m
    BY DEF T
  <2> QED BY <1>1, <1>3, <2>1, AllUpTo
<1> QED BY <1>2, <1>4

LEMMA TreeIs ==
  ASSUME NEW G, FlowGraph(G), NEW tree, tree = B!PostDominatorTree(G)
  PROVE  /\ tree.nodes = G.nodes
         /\ \A e \in tree.edges : e[1] \in G.nodes /\ e[2] \in G.nodes /\ Parent(G, e[2], e[1])
         /\ \A n, i \in G.nodes : Parent(G, n, i) => <<i, n, B!None>> \in tree.edges
<1> DEFINE V == G.nodes
           dominance == B!Dominance(B!Reversed(G))
           Strict(n) == {d \in V \ {n} : <<n, d>> \in dominance}
<1>1. \A n \in V, d \in V : <<n, d>> \in dominance <=> d \in After(G, n)
  BY DominanceIs
<1>2. /\ tree.nodes = V
      /\ tree.edges = {e \in V \X V \X {B!None} :
                         /\ <<e[2], e[1]>> \in dominance /\ e[1] # e[2]
                         /\ Strict(e[2]) = Strict(e[1]) \cup {e[1]}}
  <2>1. B!Reversed(G).nodes = V
    BY DEF B!Reversed
  <2> QED BY <2>1 DEF B!PostDominatorTree, B!DominatorTree
<1> HIDE DEF dominance
<1>3. \A n \in V : Strict(n) = After(G, n) \ {n} /\ n \in After(G, n)
  <2> SUFFICES ASSUME NEW n \in V PROVE Strict(n) = After(G, n) \ {n} /\ n \in After(G, n)
    OBVIOUS
  <2>1. n \in After(G, n) /\ After(G, n) \subseteq V
    BY AfterIs
  <2> QED BY <1>1, <2>1
<1> HIDE DEF Strict
<1>4. ASSUME NEW n \in V, NEW i \in V
      PROVE  Parent(G, n, i)
               <=> <<n, i>> \in dominance /\ i # n /\ Strict(n) = Strict(i) \cup {i}
  BY <1>1, <1>3 DEF Parent
<1>5. ASSUME NEW e \in tree.edges
      PROVE  e[1] \in V /\ e[2] \in V /\ Parent(G, e[2], e[1])
  BY <1>2, <1>4
<1>6. ASSUME NEW n \in V, NEW i \in V, Parent(G, n, i) PROVE <<i, n, B!None>> \in tree.edges
  <2>1. <<i, n, B!None>> \in V \X V \X {B!None}
    OBVIOUS
  <2> QED BY <1>2, <1>4, <1>6, <2>1
<1> QED BY <1>2, <1>5, <1>6

LEMMA AncestorsAre ==
  ASSUME NEW G, FlowGraph(G), NEW tree, tree = B!PostDominatorTree(G), NEW n \in G.nodes
  PROVE  B!AncestorsIn(tree, n) = After(G, n)
<1> DEFINE V == G.nodes
           R == B!Reversed(tree)
           Up(m) == B!Reachable(R, {m})
<1>1. /\ R.nodes = V /\ IsFiniteSet(V)
      /\ \A e \in R.edges : e[1] \in V /\ e[2] \in V /\ Parent(G, e[1], e[2])
      /\ \A m, i \in V : Parent(G, m, i) => \E e \in R.edges : e[1] = m /\ e[2] = i
  <2>1. R.nodes = V /\ R.edges = {<<e[2], e[1], e[3]>> : e \in tree.edges}
    BY TreeIs DEF B!Reversed
  <2>2. IsFiniteSet(V)
    BY DEF FlowGraph
  <2> HIDE DEF R
  <2>3. ASSUME NEW e \in R.edges PROVE e[1] \in V /\ e[2] \in V /\ Parent(G, e[1], e[2])
    <3>1. PICK x \in tree.edges : e = <<x[2], x[1], x[3]>>
      BY <2>1
    <3> QED BY <3>1, TreeIs
  <2>4. ASSUME NEW m \in V, NEW i \in V, Parent(G, m, i)
        PROVE  \E e \in R.edges : e[1] = m /\ e[2] = i
    <3>1. <<i, m, B!None>> \in tree.edges
      BY <2>4, TreeIs
    <3>2. <<m, i, B!None>> \in R.edges
      BY <2>1, <3>1
    <3> QED BY <3>2
  <2> QED BY <2>1, <2>2, <2>3, <2>4
<1> HIDE DEF R
<1>2. ASSUME NEW m \in V
      PROVE  /\ m \in Up(m) /\ Up(m) \subseteq V /\ ClosedUnder(R.edges, Up(m))
             /\ \A K : m \in K /\ ClosedUnder(R.edges, K) => Up(m) \subseteq K
  <2>1. R.nodes \cup {m} = V
    BY <1>1
  <2>2. /\ {m} \subseteq Up(m) /\ Up(m) \subseteq V /\ ClosedUnder(R.edges, Up(m))
        /\ \A K : {m} \subseteq K /\ ClosedUnder(R.edges, K) => Up(m) \subseteq K
    <3> DEFINE up == Up(m)
    <3> HIDE DEF up
    <3>1. /\ {m} \subseteq up /\ up \subseteq V /\ ClosedUnder(R.edges, up)
          /\ \A K : {m} \subseteq K /\ ClosedUnder(R.edges, K) => up \subseteq K
      BY <1>1, <2>1, ReachableIs DEF up
    <3> QED BY <3>1 DEF up
  <2> HIDE DEF Up
  <2> QED BY <2>2
<1> HIDE DEF Up
<1>3. ClosedUnder(R.edges, After(G, n)) /\ n \in After(G, n)
  <2>1. ASSUME NEW e \in R.edges, e[1] \in After(G, n) PROVE e[2] \in After(G, n)
    BY <1>1, <2>1, AfterIs DEF Parent
  <2>2. n \in After(G, n)
    BY AfterIs
  <2> QED BY <2>1, <2>2 DEF ClosedUnder
<1>4. V \subseteq {m \in V : After(G, m) \subseteq Up(m)}
  <2> DEFINE K == {m \in V : After(G, m) \subseteq Up(m)}
  <2>1. ASSUME NEW m \in V, \A i \in V : Parent(G, m, i) => i \in K PROVE m \in K
    <3>1. CASE m = B!Exit
      BY <1>2, <3>1, AfterIs
    <3>2. CASE m # B!Exit
      <4>1. PICK i \in V : Parent(G, m, i)
        BY <3>2, ParentExists
      <4>2. After(G, i) \subseteq Up(i) /\ After(G, m) \ {m} = After(G, i)
        BY <2>1, <4>1 DEF Parent
      <4>3. i \in Up(m)
        BY <1>1, <1>2, <4>1 DEF ClosedUnder
      <4>4. Up(i) \subseteq Up(m)
        BY <1>2, <4>3
      <4> QED BY <1>2, <4>2, <4>4
    <3> QED BY <3>1, <3>2
  <2> HIDE DEF K
  <2>2. V \subseteq K
    BY <2>1, DownTheTree
  <2> QED BY <2>2 DEF K
<1>5. Up(n) = After(G, n)
  BY <1>2, <1>3, <1>4
<1> QED BY <1>5 DEF B!AncestorsIn, Up, R

LEMMA DescendantsAre ==
  ASSUME NEW G, FlowGraph(G), NEW tree, tree = B!PostDominatorTree(G), NEW n \in G.nodes
  PROVE  B!TransitiveSuccessors(tree, n) = {m \in G.nodes : n \in After(G, m) \ {m}}
<1> DEFINE V == G.nodes
           children == B!Successors(tree, n)
           below == B!Reachable(tree, children)
           W == {m \in V : n \in After(G, m) \ {m}}
<1>1. /\ tree.nodes = V /\ IsFiniteSet(V)
      /\ \A e \in tree.edges : e[1] \in V /\ e[2] \in V /\ Parent(G, e[2], e[1])
      /\ \A m, i \in V : Parent(G, m, i) => <<i, m, B!None>> \in tree.edges
  BY TreeIs DEF FlowGraph
<1>2. \A m : m \in children <=> \E e \in tree.edges : e[1] = n /\ e[2] = m
  BY DEF B!Successors
<1> HIDE DEF children
<1>3. /\ children \subseteq below /\ below \subseteq V /\ ClosedUnder(tree.edges, below)
      /\ \A K : children \subseteq K /\ ClosedUnder(tree.edges, K) => below \subseteq K
  <2>1. tree.nodes \cup children = V
    BY <1>1, <1>2
  <2> HIDE DEF below
  <2> QED BY <1>1, <2>1, ReachableIs DEF below
<1> HIDE DEF below
<1>4. children \subseteq W
  BY <1>1, <1>2 DEF Parent
<1>5. ClosedUnder(tree.edges, W)
  <2> SUFFICES ASSUME NEW e \in tree.edges, e[1] \in W PROVE e[2] \in W
    BY DEF ClosedUnder
  <2>1. e[1] \in V /\ e[2] \in V /\ After(G, e[2]) \ {e[2]} = After(G, e[1])
    BY <1>1 DEF Parent
  <2> QED BY <2>1
<1>6. V \subseteq {m \in V : m \in W => m \in below}
  <2> DEFINE K == {m \in V : m \in W => m \in below}
  <2>1. ASSUME NEW m \in V, \A i \in V : Parent(G, m, i) => i \in K PROVE m \in K
    <3> SUFFICES ASSUME n \in After(G, m) \ {m} PROVE m \in below
      OBVIOUS
    <3>1. m # B!Exit
      BY AfterIs
    <3>2. PICK i \in V : Parent(G, m, i)
      BY <3>1, ParentExists
    <3>3. <<i, m, B!None>> \in tree.edges
      BY <1>1, <3>2
    <3>4. CASE n = i
      BY <1>2, <1>3, <3>3, <3>4
    <3>5. CASE n # i
      <4>1. n \in After(G, i) \ {i}
        BY <3>2, <3>5 DEF Parent
      <4>2. i \in below
        BY <2>1, <3>2, <4>1
      <4>3. \A e \in tree.edges : e[1] \in below => e[2] \in below
        BY <1>3 DEF ClosedUnder
      <4> QED BY <3>3, <4>2, <4>3
    <3> QED BY <3>4, <3>5
  <2> HIDE DEF K
  <2>2. V \subseteq K
    BY <2>1, DownTheTree
  <2> QED BY <2>2 DEF K
<1>7. below = W
  BY <1>3, <1>4, <1>5, <1>6
<1> QED BY <1>7 DEF B!TransitiveSuccessors, below, children

(* What the algorithm computes are the dependences, with the label of the edge.     *)
LabelledBy(G, s, n, label) ==
  \E e \in G.edges : /\ e[1] = s /\ e[3] = label /\ n \in After(G, e[2])
                     /\ n = s \/ n \notin After(G, s)

LEMMA LabelledAre ==
  ASSUME NEW G, FlowGraph(G), NEW x
  PROVE  x \in B!Labelled(G) <=>
           \E s \in G.nodes \ {B!Exit}, n \in G.nodes : \E label :
             x = <<s, n, label>> /\ LabelledBy(G, s, n, label)
<1> DEFINE tree == B!PostDominatorTree(G)
           Dependents(e) ==
             (B!AncestorsIn(tree, e[2]) \ B!AncestorsIn(tree, e[1]))
               \cup (B!AncestorsIn(tree, e[2]) \cap {e[1]})
           matching == {e \in G.edges : e[1] \notin B!TransitiveSuccessors(tree, e[2])}
<1>1. B!Labelled(G) = UNION {{<<e[1], n, e[3]>> : n \in Dependents(e)} : e \in matching}
  BY DEF B!Labelled
<1>2. ASSUME NEW e \in G.edges
      PROVE  /\ e[1] \in G.nodes \ {B!Exit} /\ e[2] \in G.nodes
             /\ \A n : n \in G.nodes /\ n \in After(G, e[2]) /\ (n = e[1] \/ n \notin After(G, e[1]))
                         <=> e \in matching /\ n \in Dependents(e)
  <2>1. e[1] \in G.nodes \ {B!Exit} /\ e[2] \in G.nodes
    BY DEF FlowGraph
  <2> DEFINE s == e[1]
             t == e[2]
  <2>2. /\ B!AncestorsIn(tree, s) = After(G, s) /\ B!AncestorsIn(tree, t) = After(G, t)
        /\ B!TransitiveSuccessors(tree, t) = {m \in G.nodes : t \in After(G, m) \ {m}}
    BY <2>1, AncestorsAre, DescendantsAre
  <2>3. /\ After(G, t) \subseteq G.nodes /\ s \in After(G, s)
        /\ t \in After(G, s) => After(G, t) \subseteq After(G, s)
        /\ s \in After(G, t) /\ t \in After(G, s) => s = t
    BY <2>1, AfterIs
  <2>4. \A n : n \in Dependents(e)
                 <=> n \in After(G, t) /\ (n = s \/ n \notin After(G, s))
    BY <2>2, <2>3
  <2>5. e \in matching <=> t \notin After(G, s) \/ t = s
    BY <2>1, <2>2
  <2> HIDE DEF matching, Dependents
  <2>6. ASSUME NEW n, n \in After(G, t), n = s \/ n \notin After(G, s) PROVE e \in matching
    BY <2>3, <2>5, <2>6
  <2> QED BY <2>1, <2>3, <2>4, <2>6
<1> HIDE DEF Dependents, matching
<1>3. ASSUME NEW e \in matching, NEW n \in Dependents(e), x = <<e[1], n, e[3]>>
      PROVE  \E s \in G.nodes \ {B!Exit}, m \in G.nodes : \E label :
               x = <<s, m, label>> /\ LabelledBy(G, s, m, label)
  <2>1. e \in G.edges
    BY DEF matching
  <2>2. /\ e[1] \in G.nodes \ {B!Exit} /\ n \in G.nodes /\ n \in After(G, e[2])
        /\ n = e[1] \/ n \notin After(G, e[1])
    BY <1>2, <2>1
  <2>3. LabelledBy(G, e[1], n, e[3])
    BY <2>1, <2>2 DEF LabelledBy
  <2> QED BY <1>3, <2>2, <2>3
<1>4. ASSUME NEW s \in G.nodes, NEW n \in G.nodes, NEW label, x = <<s, n, label>>,
             LabelledBy(G, s, n, label)
      PROVE  x \in B!Labelled(G)
  <2>1. PICK e \in G.edges : /\ e[1] = s /\ e[3] = label /\ n \in After(G, e[2])
                             /\ n = s \/ n \notin After(G, s)
    BY <1>4 DEF LabelledBy
  <2>2. e \in matching /\ n \in Dependents(e)
    BY <1>2, <2>1
  <2> QED BY <1>1, <1>4, <2>1, <2>2
<1> QED BY <1>1, <1>3, <1>4

LEMMA DependsIs ==
  ASSUME NEW G, FlowGraph(G), NEW s, NEW n
  PROVE  B!DependsOn(G, s, n) <=>
           s \in G.nodes /\ n \in G.nodes /\ \E label : LabelledBy(G, s, n, label)
<1>1. \A e \in G.edges : e[1] \in G.nodes /\ e[2] \in G.nodes
  BY DEF FlowGraph
<1>2. \A m \in G.nodes : B!PostDominates(G, n, m) <=> n \in After(G, m)
  BY AfterIs
<1>3. \A m \in G.nodes : After(G, m) \subseteq G.nodes
  BY AfterIs
<1> QED BY <1>1, <1>2, <1>3 DEF B!DependsOn, LabelledBy

--------------------------------------------------------------------------------
(* The graph that dependences are read off.                                        *)

Leads(c, i, b) == IF c[i].jumpsIf = b THEN c[i].target ELSE i + 1

(* Where a block leads: both branches of a conditional jump, with one edge when     *)
(* they lead to the same block.                                                    *)
LEMMA BlockEdges ==
  ASSUME NEW c \in MCCodes, NEW i \in DOMAIN c
  PROVE  /\ \A e \in B!EdgesOf(c, i) : /\ e[1] = i /\ e[2] \in DOMAIN c
                                       /\ c[i].kind # "cond" => e[3] = B!None
         /\ c[i].kind = "cond" =>
              /\ \A e \in B!EdgesOf(c, i) : e[3] \in B!Branches /\ e[2] = Leads(c, i, e[3])
              /\ \A b \in B!Branches :
                   \E e \in B!EdgesOf(c, i) :
                     /\ e[2] = Leads(c, i, b)
                     /\ e[3] = b \/ Leads(c, i, "true") = Leads(c, i, "false")
              /\ c[i].jumpsIf \in B!Branches
         /\ c[i].kind \in {"setup", "fall"} => \E e \in B!EdgesOf(c, i) : e[2] = i + 1
         /\ c[i].kind \in {"setup", "jump"} => \E e \in B!EdgesOf(c, i) : e[2] = c[i].target
<1> DEFINE last == Cardinality(DOMAIN c) - 1
<1>1. /\ last \in Int /\ DOMAIN c = 0 .. last /\ i \in 0 .. last
      /\ c[i] \in B!Terminators(last, i)
  BY CodeIs
<1> HIDE DEF last
<1>2. /\ c[i].kind \in {"cond", "setup", "jump", "fall", "end"}
      /\ c[i].kind \in {"cond", "setup", "jump"} => c[i].target \in DOMAIN c
      /\ c[i].kind = "cond" => c[i].jumpsIf \in B!Branches
      /\ c[i].kind \in {"cond", "setup", "fall"} => i + 1 \in DOMAIN c
  <2>1. \/ c[i] \in [kind: {"jump"}, target: 0..last, jumpsIf: {B!None}]
        \/ c[i] \in [kind: {"end"}, target: {B!None}, jumpsIf: {B!None}]
        \/ /\ i # last
           /\ \/ c[i] \in [kind: {"cond"}, target: 0..last, jumpsIf: B!Branches]
              \/ c[i] \in [kind: {"setup"}, target: 0..last, jumpsIf: {B!None}]
              \/ c[i] \in [kind: {"fall"}, target: {B!None}, jumpsIf: {B!None}]
    BY <1>1 DEF B!Terminators
  <2>2. i # last => i + 1 \in DOMAIN c
    BY <1>1
  <2>3. CASE c[i] \in [kind: {"jump"}, target: 0..last, jumpsIf: {B!None}]
    BY <1>1, <2>3
  <2>4. CASE c[i] \in [kind: {"end"}, target: {B!None}, jumpsIf: {B!None}]
    BY <2>4
  <2>5. CASE i # last /\ c[i] \in [kind: {"cond"}, target: 0..last, jumpsIf: B!Branches]
    BY <1>1, <2>2, <2>5
  <2>6. CASE i # last /\ c[i] \in [kind: {"setup"}, target: 0..last, jumpsIf: {B!None}]
    BY <1>1, <2>2, <2>6
  <2>7. CASE i # last /\ c[i] \in [kind: {"fall"}, target: {B!None}, jumpsIf: {B!None}]
    BY <2>2, <2>7
  <2> QED BY <2>1, <2>3, <2>4, <2>5, <2>6, <2>7
<1>3. CASE c[i].kind = "cond"
  <2> DEFINE f == Leads(c, i, "false")
             t == Leads(c, i, "true")
  <2>1. f \in DOMAIN c /\ t \in DOMAIN c /\ \A b \in B!Branches : b = "true" \/ b = "false"
    BY <1>2, <1>3 DEF Leads, B!Branches
  <2>2. B!EdgesOf(c, i) = {<<i, f, "false">>} \cup (IF t = f THEN {} ELSE {<<i, t, "true">>})
    BY <1>3 DEF B!EdgesOf, Leads
  <2>3. \A e \in B!EdgesOf(c, i) : e = <<i, f, "false">> \/ e = <<i, t, "true">>
    BY <2>2
  <2>4. /\ <<i, f, "false">> \in B!EdgesOf(c, i)
        /\ t # f => <<i, t, "true">> \in B!EdgesOf(c, i)
    BY <2>2
  <2>5. \A e \in B!EdgesOf(c, i) : /\ e[1] = i /\ e[2] \in DOMAIN c
                                   /\ e[3] \in B!Branches /\ e[2] = Leads(c, i, e[3])
    BY <2>1, <2>3 DEF B!Branches
  <2>6. ASSUME NEW b \in B!Branches
        PROVE  \E e \in B!EdgesOf(c, i) : e[2] = Leads(c, i, b) /\ (e[3] = b \/ t = f)
    <3>1. CASE b = "false"
      BY <2>4, <3>1
    <3>2. CASE b = "true" /\ t # f
      BY <2>4, <3>2
    <3>3. CASE b = "true" /\ t = f
      BY <2>4, <3>3
    <3> QED BY <2>1, <3>1, <3>2, <3>3
  <2> QED BY <1>2, <1>3, <2>5, <2>6
<1>4. CASE c[i].kind = "setup"
  <2>1. B!EdgesOf(c, i) = {<<i, i + 1, B!None>>, <<i, c[i].target, B!None>>}
    BY <1>4 DEF B!EdgesOf
  <2> QED BY <1>2, <1>4, <2>1
<1>5. CASE c[i].kind = "jump"
  <2>1. B!EdgesOf(c, i) = {<<i, c[i].target, B!None>>}
    BY <1>5 DEF B!EdgesOf
  <2> QED BY <1>2, <1>5, <2>1
<1>6. CASE c[i].kind = "fall"
  <2>1. B!EdgesOf(c, i) = {<<i, i + 1, B!None>>}
    BY <1>6 DEF B!EdgesOf
  <2> QED BY <1>2, <1>6, <2>1
<1>7. CASE c[i].kind = "end"
  <2>1. B!EdgesOf(c, i) = {}
    BY <1>7 DEF B!EdgesOf
  <2> QED BY <1>7, <2>1
<1> QED BY <1>2, <1>3, <1>4, <1>5, <1>6, <1>7

(* A code object that can be analysed and is executed.                             *)
IsRunnable(c) == c \in MCCodes /\ B!Analysable(c) /\ B!LiveBlocks(c).nodes = DOMAIN c

Whole(c) == B!Augmented(B!CFG(c))

LEMMA CfgIs ==
  ASSUME NEW c, IsRunnable(c)
  PROVE  /\ IsFiniteSet(DOMAIN c) /\ 0 \in DOMAIN c
         /\ B!Entry \notin DOMAIN c /\ B!Exit \notin DOMAIN c /\ B!Start \notin DOMAIN c
         /\ B!CFG(c).nodes = DOMAIN c \cup {B!Exit, B!Entry}
         /\ \A i \in DOMAIN c : B!EdgesOf(c, i) \subseteq B!CFG(c).edges
         /\ <<B!Entry, 0, B!None>> \in B!CFG(c).edges
         /\ \E n \in DOMAIN c : <<n, B!Exit, B!None>> \in B!CFG(c).edges
         /\ \A e \in B!CFG(c).edges :
              \/ e[1] \in DOMAIN c /\ e \in B!EdgesOf(c, e[1])
              \/ /\ e[1] \in DOMAIN c /\ e[2] = B!Exit /\ e[3] = B!None
                 /\ \/ B!EdgesOf(c, e[1]) = {}
                    \/ \E x \in B!EdgesOf(c, e[1]) : x[2] = e[1]
              \/ e = <<B!Entry, 0, B!None>>
<1> DEFINE live == B!LiveBlocks(c)
           toExit(ns) == {<<n, B!Exit, B!None>> : n \in ns}
           exited == [nodes |-> live.nodes \cup {B!Exit},
                      edges |-> live.edges \cup toExit(B!ExitNodes(live))]
           blockEdges == UNION {B!EdgesOf(c, i) : i \in DOMAIN c}
<1>1. c \in MCCodes /\ live.nodes = DOMAIN c /\ B!ExitNodes(live) # {}
  BY DEF IsRunnable, B!Analysable
<1>2. /\ Cardinality(DOMAIN c) \in Nat /\ DOMAIN c = 0 .. Cardinality(DOMAIN c) - 1
      /\ IsFiniteSet(DOMAIN c)
  BY <1>1, CodeIs
<1>3. B!Entry \notin DOMAIN c /\ B!Exit \notin DOMAIN c /\ B!Start \notin DOMAIN c
  <2>1. B!Exit \notin DOMAIN c
    BY <1>1, OtherConstants DEF B!ConstantsType
  <2>2. \A i \in DOMAIN c : i >= 0
    BY <1>2
  <2> QED BY <2>1, <2>2 DEF B!Entry, B!Start
<1>4. live.edges = blockEdges
  <2>1. live.edges = {e \in blockEdges : e[1] \in live.nodes /\ e[2] \in live.nodes}
    BY DEF B!LiveBlocks, B!WithoutDeadCode
  <2>2. \A e \in blockEdges : e[1] \in DOMAIN c /\ e[2] \in DOMAIN c
    BY <1>1, BlockEdges
  <2> HIDE DEF live, blockEdges
  <2> QED BY <1>1, <2>1, <2>2
<1>5. /\ B!CFG(c).nodes = exited.nodes \cup {B!Entry}
      /\ B!CFG(c).edges = exited.edges \cup toExit(B!InfiniteLoops(exited))
                            \cup {<<B!Entry, 0, B!None>>}
  BY DEF B!CFG
<1> HIDE DEF live
<1>6. /\ B!ExitNodes(live) \subseteq DOMAIN c
      /\ \A n \in B!ExitNodes(live) : B!EdgesOf(c, n) = {}
  <2>1. B!ExitNodes(live) \subseteq DOMAIN c
    BY <1>1 DEF B!ExitNodes
  <2>2. ASSUME NEW n \in B!ExitNodes(live), NEW e \in B!EdgesOf(c, n) PROVE FALSE
    <3>1. e \in live.edges /\ e[1] = n
      BY <1>1, <1>4, <2>1, BlockEdges
    <3>2. B!Successors(live, n) = {}
      BY DEF B!ExitNodes
    <3> QED BY <3>1, <3>2 DEF B!Successors
  <2> QED BY <2>1, <2>2
<1>7. ASSUME NEW n \in B!InfiniteLoops(exited)
      PROVE  n \in DOMAIN c /\ \E x \in B!EdgesOf(c, n) : x[2] = n
  <2>1. /\ exited.nodes = DOMAIN c \cup {B!Exit}
        /\ exited.edges = blockEdges \cup toExit(B!ExitNodes(live))
    BY <1>1, <1>4
  <2>2. n \in exited.nodes /\ n \in B!Successors(exited, n)
    BY DEF B!InfiniteLoops
  <2> HIDE DEF exited
  <2>3. PICK e \in exited.edges : e[1] = n /\ e[2] = n
    BY <2>2 DEF B!Successors
  <2>4. e \notin toExit(B!ExitNodes(live))
    BY <1>3, <1>6, <2>3
  <2>5. PICK i \in DOMAIN c : e \in B!EdgesOf(c, i)
    BY <2>1, <2>4
  <2> QED BY <1>1, <2>3, <2>5, BlockEdges
<1> HIDE DEF exited
<1>8. /\ exited.nodes = DOMAIN c \cup {B!Exit}
      /\ exited.edges = blockEdges \cup toExit(B!ExitNodes(live))
  BY <1>1, <1>4 DEF exited
<1>9. ASSUME NEW e \in B!CFG(c).edges
      PROVE  \/ e[1] \in DOMAIN c /\ e \in B!EdgesOf(c, e[1])
             \/ /\ e[1] \in DOMAIN c /\ e[2] = B!Exit /\ e[3] = B!None
                /\ \/ B!EdgesOf(c, e[1]) = {}
                   \/ \E x \in B!EdgesOf(c, e[1]) : x[2] = e[1]
             \/ e = <<B!Entry, 0, B!None>>
  <2>1. CASE e \in blockEdges
    BY <1>1, <2>1, BlockEdges
  <2>2. CASE e \in toExit(B!ExitNodes(live))
    BY <1>6, <2>2
  <2>3. CASE e \in toExit(B!InfiniteLoops(exited))
    BY <1>7, <2>3
  <2> QED BY <1>5, <1>8, <2>1, <2>2, <2>3
<1>10. PICK n \in B!ExitNodes(live) : TRUE
  BY <1>1
<1>11. n \in DOMAIN c /\ <<n, B!Exit, B!None>> \in B!CFG(c).edges
  BY <1>5, <1>6, <1>8
<1>12. 0 \in DOMAIN c
  BY <1>2, <1>11
<1>13. \A i \in DOMAIN c : B!EdgesOf(c, i) \subseteq B!CFG(c).edges
  BY <1>5, <1>8
<1>14. /\ <<B!Entry, 0, B!None>> \in B!CFG(c).edges
       /\ B!CFG(c).nodes = DOMAIN c \cup {B!Exit, B!Entry}
  BY <1>5, <1>8
<1> QED BY <1>2, <1>3, <1>9, <1>11, <1>12, <1>13, <1>14

LEMMA WholeIs ==
  ASSUME NEW c, IsRunnable(c)
  PROVE  /\ FlowGraph(Whole(c))
         /\ Whole(c).nodes = DOMAIN c \cup {B!Exit, B!Entry, B!Start}
         /\ B!CFG(c).edges \subseteq Whole(c).edges
         /\ <<B!Start, B!Exit, B!None>> \in Whole(c).edges
         /\ \A e \in Whole(c).edges :
              \/ e \in B!CFG(c).edges
              \/ e[1] = B!Start /\ e[3] = B!None /\ e[2] \in B!CFG(c).nodes
<1> DEFINE cfg == B!CFG(c)
           G == Whole(c)
           Starts == {B!EntryNode(cfg)} \cup B!ExitNodes(cfg)
<1>1. /\ cfg.nodes = DOMAIN c \cup {B!Exit, B!Entry} /\ IsFiniteSet(DOMAIN c)
      /\ B!Entry \notin DOMAIN c /\ B!Exit \notin DOMAIN c /\ B!Start \notin DOMAIN c
      /\ 0 \in DOMAIN c
      /\ B!Reachable(B!Reversed(cfg), {B!Exit}) = cfg.nodes
  BY CfgIs DEF IsRunnable, B!Analysable
<1>2. \A e \in cfg.edges : /\ e[1] \in DOMAIN c \cup {B!Entry}
                           /\ e[2] \in DOMAIN c \cup {B!Exit}
  BY CfgIs, BlockEdges DEF IsRunnable
<1>3. B!Entry # B!Exit /\ B!Entry # B!Start /\ B!Exit # B!Start
  BY DEF B!Entry, B!Exit, B!Start
<1>4. /\ G.nodes = cfg.nodes \cup {B!Start}
      /\ G.edges = cfg.edges \cup {<<B!Start, n, B!None>> : n \in Starts}
  BY DEF Whole, B!Augmented
<1> HIDE DEF cfg
<1>5. B!EntryNode(cfg) \in cfg.nodes
  <2>1. B!Predecessors(cfg, B!Entry) = {}
    BY <1>1, <1>2, <1>3 DEF B!Predecessors
  <2>2. \E n \in cfg.nodes : B!Predecessors(cfg, n) = {}
    BY <1>1, <2>1
  <2> QED BY <2>2 DEF B!EntryNode
<1>6. Starts \subseteq cfg.nodes /\ B!Exit \in Starts
  <2>1. B!Successors(cfg, B!Exit) = {}
    BY <1>1, <1>2, <1>3 DEF B!Successors
  <2> QED BY <1>1, <1>5, <2>1 DEF B!ExitNodes
<1> HIDE DEF Starts, G
<1>7. IsFiniteSet(G.nodes)
  <2>1. /\ IsFiniteSet({B!Exit}) /\ IsFiniteSet({B!Entry}) /\ IsFiniteSet({B!Start})
    BY FS_Singleton
  <2>2. IsFiniteSet(((DOMAIN c \cup {B!Exit}) \cup {B!Entry}) \cup {B!Start})
    BY <1>1, <2>1, FS_Union
  <2>3. G.nodes = ((DOMAIN c \cup {B!Exit}) \cup {B!Entry}) \cup {B!Start}
    BY <1>1, <1>4
  <2> QED BY <2>2, <2>3
<1>8. \A e \in G.edges : e[1] \in G.nodes \ {B!Exit} /\ e[2] \in G.nodes
  BY <1>1, <1>2, <1>3, <1>4, <1>6
<1>9. ASSUME NEW K \in SUBSET G.nodes, K # {}, ClosedUnder(G.edges, K) PROVE B!Exit \in K
  <2> SUFFICES ASSUME B!Exit \notin K PROVE FALSE
    OBVIOUS
  <2> DEFINE R == B!Reversed(cfg)
             found == B!Reachable(R, {B!Exit})
             outside == cfg.nodes \ K
  <2>1. R.nodes = cfg.nodes /\ R.edges = {<<e[2], e[1], e[3]>> : e \in cfg.edges}
    BY DEF B!Reversed
  <2> HIDE DEF R
  <2>2. ClosedUnder(R.edges, outside) /\ {B!Exit} \subseteq outside
    <3>1. ASSUME NEW e \in R.edges, e[1] \in outside PROVE e[2] \in outside
      <4>1. PICK x \in cfg.edges : e = <<x[2], x[1], x[3]>>
        BY <2>1
      <4>2. x \in G.edges /\ x[1] \in cfg.nodes
        BY <1>1, <1>2, <1>4
      <4> QED BY <1>9, <3>1, <4>1, <4>2 DEF ClosedUnder
    <3> QED BY <1>1, <3>1 DEF ClosedUnder
  <2>3. found \subseteq outside
    <3>1. /\ \A e \in R.edges : e[2] \in R.nodes
          /\ IsFiniteSet(R.nodes \cup {B!Exit})
      <4>1. R.nodes \cup {B!Exit} = cfg.nodes
        BY <1>1, <2>1
      <4>2. cfg.nodes \subseteq G.nodes
        BY <1>4
      <4>3. IsFiniteSet(cfg.nodes)
        BY <1>7, <4>2, FS_Subset
      <4>4. ASSUME NEW e \in R.edges PROVE e[2] \in R.nodes
        <5>1. PICK x \in cfg.edges : e = <<x[2], x[1], x[3]>>
          BY <2>1
        <5> QED BY <1>1, <1>2, <2>1, <5>1
      <4> QED BY <4>1, <4>3, <4>4
    <3> HIDE DEF found, outside
    <3>2. \A L : {B!Exit} \subseteq L /\ ClosedUnder(R.edges, L) => found \subseteq L
      BY <3>1, ReachableIs DEF found
    <3> QED BY <2>2, <3>2
  <2>4. K \subseteq {B!Start}
    BY <1>1, <1>4, <2>3 DEF R
  <2>5. B!Start \in K
    BY <1>9, <2>4
  <2>6. <<B!Start, B!Exit, B!None>> \in G.edges
    BY <1>4, <1>6
  <2> QED BY <1>9, <2>5, <2>6 DEF ClosedUnder
<1>10. FlowGraph(G)
  BY <1>1, <1>4, <1>7, <1>8, <1>9 DEF FlowGraph
<1> QED BY <1>1, <1>4, <1>6, <1>10 DEF G, cfg

--------------------------------------------------------------------------------
(* What is left when nodes without predecessors go.                                *)
LEMMA PrunedIs ==
  ASSUME NEW graph, IsFiniteSet(graph.nodes), NEW root, NEW left,
         left = B!WithoutDeadCode(graph, root)
  PROVE  /\ left.nodes \subseteq graph.nodes
         /\ left.edges = {e \in graph.edges : e[1] \in left.nodes /\ e[2] \in left.nodes}
         /\ \A n \in left.nodes : n = root \/ \E e \in left.edges : e[2] = n
         /\ \A K \in SUBSET graph.nodes :
              (\A n \in K : n = root \/ \E e \in graph.edges : e[1] \in K /\ e[2] = n)
                => K \subseteq left.nodes
<1> DEFINE V == graph.nodes
           More(s) == {root} \cup {e[2] : e \in {x \in graph.edges : x[1] \in s}}
           Less(s) == More(s) \cap s
           cut == [s \in SUBSET V |-> Less(s)]
<1>1. /\ left.nodes = CutBy(cut, V)[V]
      /\ left.edges = {e \in graph.edges : e[1] \in left.nodes /\ e[2] \in left.nodes}
  <2> DEFINE f == CHOOSE f : f = [s \in SUBSET V |-> IF Less(s) = s THEN s ELSE f[Less(s)]]
  <2>1. /\ left.nodes = f[V]
        /\ left.edges = {e \in graph.edges : e[1] \in left.nodes /\ e[2] \in left.nodes}
    BY DEF B!WithoutDeadCode
  <2>2. \A s \in SUBSET V : cut[s] = Less(s)
    OBVIOUS
  <2>3. f = CutBy(cut, V)
    <3> HIDE DEF Less, cut
    <3>1. \A g : [s \in SUBSET V |-> IF Less(s) = s THEN s ELSE g[Less(s)]]
                 = [s \in SUBSET V |-> IF cut[s] = s THEN s ELSE g[cut[s]]]
      BY <2>2
    <3> QED BY <3>1 DEF CutBy
  <2> HIDE DEF f, cut
  <2> QED BY <2>1, <2>3
<1>2. /\ cut \in [SUBSET V -> SUBSET V]
      /\ \A s \in SUBSET V : cut[s] \subseteq s
      /\ \A s, t \in SUBSET V : s \subseteq t => cut[s] \subseteq cut[t]
      /\ \A s \in SUBSET V : cut[s] = Less(s)
  OBVIOUS
<1>3. /\ left.nodes \subseteq V /\ Less(left.nodes) = left.nodes
      /\ \A K \in SUBSET V : K \subseteq Less(K) => K \subseteq left.nodes
  <2> HIDE DEF cut, Less
  <2>1. \A s \in SUBSET V : /\ CutBy(cut, V)[s] \subseteq s /\ cut[CutBy(cut, V)[s]] = CutBy(cut, V)[s]
                            /\ \A K \in SUBSET s : K \subseteq cut[K] => K \subseteq CutBy(cut, V)[s]
    BY <1>2, CutDown
  <2> QED BY <1>1, <1>2, <2>1
<1>4. ASSUME NEW n \in left.nodes, n # root PROVE \E e \in left.edges : e[2] = n
  <2>1. n \in More(left.nodes)
    BY <1>3
  <2>2. PICK e \in graph.edges : e[1] \in left.nodes /\ e[2] = n
    BY <1>4, <2>1
  <2> QED BY <1>1, <2>2
<1>5. ASSUME NEW K \in SUBSET V,
             \A n \in K : n = root \/ \E e \in graph.edges : e[1] \in K /\ e[2] = n
      PROVE  K \subseteq left.nodes
  <2>1. K \subseteq Less(K)
    BY <1>5
  <2> HIDE DEF Less
  <2> QED BY <1>3, <2>1
<1> QED BY <1>1, <1>3, <1>4, <1>5

(* The graph that is registered: one edge for every two nodes of which the second   *)
(* depends on the first.                                                           *)
LEMMA RegisteredIs ==
  ASSUME NEW c, IsRunnable(c), NEW cdg \in B!ControlDependenceGraphs(c)
  PROVE  /\ cdg.nodes \subseteq Whole(c).nodes
         /\ \A e \in cdg.edges : /\ e[1] \in cdg.nodes /\ e[2] \in cdg.nodes
                                 /\ e = <<e[1], e[2], e[3]>> /\ LabelledBy(Whole(c), e[1], e[2], e[3])
         /\ \A s, n \in cdg.nodes : (\E label : LabelledBy(Whole(c), s, n, label))
                                      => \E e \in cdg.edges : e[1] = s /\ e[2] = n
         /\ \A n \in cdg.nodes : n = B!Start \/ \E e \in cdg.edges : e[2] = n
         /\ \A K \in SUBSET Whole(c).nodes :
              (\A n \in K : n = B!Start \/ \E s \in K : \E label : LabelledBy(Whole(c), s, n, label))
                => K \subseteq cdg.nodes
<1> DEFINE G == Whole(c)
           labelled == B!Labelled(G)
           pairs == {<<e[1], e[2]>> : e \in labelled}
           chosen == {E \in SUBSET labelled :
                        /\ B!Cardinality(E) = B!Cardinality(pairs)
                        /\ {<<e[1], e[2]>> : e \in E} = pairs}
<1>1. FlowGraph(G) /\ IsFiniteSet(G.nodes) /\ \A e \in G.edges : e[1] \in G.nodes \ {B!Exit}
  BY WholeIs DEF FlowGraph
<1>2. PICK E \in SUBSET labelled : /\ {<<e[1], e[2]>> : e \in E} = pairs
                                   /\ cdg = B!WithoutDeadCode([nodes |-> G.nodes, edges |-> E], B!Start)
  <2>1. B!ControlDependenceGraphs(c) =
          {B!WithoutDeadCode([nodes |-> G.nodes, edges |-> E], B!Start) :
             E \in IF B!Cardinality(labelled) = B!Cardinality(pairs) THEN {labelled} ELSE chosen}
    BY DEF B!ControlDependenceGraphs, Whole
  <2> HIDE DEF G
  <2>2. PICK E \in (IF B!Cardinality(labelled) = B!Cardinality(pairs) THEN {labelled} ELSE chosen) :
             cdg = B!WithoutDeadCode([nodes |-> G.nodes, edges |-> E], B!Start)
    BY <2>1
  <2>3. E \in SUBSET labelled /\ {<<e[1], e[2]>> : e \in E} = pairs
    OBVIOUS
  <2> QED BY <2>2, <2>3
<1> HIDE DEF G, labelled
<1>3. ASSUME NEW e \in E
      PROVE  e = <<e[1], e[2], e[3]>> /\ LabelledBy(G, e[1], e[2], e[3])
  <2>1. PICK s \in G.nodes \ {B!Exit}, n \in G.nodes : \E label :
             e = <<s, n, label>> /\ LabelledBy(G, s, n, label)
    BY <1>1, LabelledAre DEF labelled
  <2> QED BY <2>1
<1>4. ASSUME NEW s \in G.nodes, NEW n \in G.nodes, NEW label, LabelledBy(G, s, n, label)
      PROVE  \E e \in E : e[1] = s /\ e[2] = n
  <2>1. s # B!Exit
    BY <1>1, <1>4 DEF LabelledBy
  <2>2. <<s, n, label>> \in labelled
    BY <1>1, <1>4, <2>1, LabelledAre DEF labelled
  <2>3. <<s, n>> \in pairs
    BY <2>2
  <2>4. <<s, n>> \in {<<e[1], e[2]>> : e \in E}
    BY <1>2, <2>3
  <2> QED BY <2>4
<1> DEFINE graph == [nodes |-> G.nodes, edges |-> E]
<1>5. graph.nodes = G.nodes /\ graph.edges = E /\ cdg = B!WithoutDeadCode(graph, B!Start)
  BY <1>2
<1> HIDE DEF graph
<1>6. /\ cdg.nodes \subseteq G.nodes
      /\ cdg.edges = {e \in E : e[1] \in cdg.nodes /\ e[2] \in cdg.nodes}
      /\ \A n \in cdg.nodes : n = B!Start \/ \E e \in cdg.edges : e[2] = n
      /\ \A K \in SUBSET G.nodes :
           (\A n \in K : n = B!Start \/ \E e \in E : e[1] \in K /\ e[2] = n) => K \subseteq cdg.nodes
  <2>1. IsFiniteSet(graph.nodes)
    BY <1>1, <1>5
  <2> QED BY <1>5, <2>1, PrunedIs
<1>7. ASSUME NEW s \in cdg.nodes, NEW n \in cdg.nodes, NEW label, LabelledBy(G, s, n, label)
      PROVE  \E e \in cdg.edges : e[1] = s /\ e[2] = n
  <2>1. PICK e \in E : e[1] = s /\ e[2] = n
    BY <1>4, <1>6, <1>7
  <2> QED BY <1>6, <2>1
<1>8. ASSUME NEW K \in SUBSET G.nodes,
             \A n \in K : n = B!Start \/ \E s \in K : \E label : LabelledBy(G, s, n, label)
      PROVE  K \subseteq cdg.nodes
  <2>1. ASSUME NEW n \in K, n # B!Start PROVE \E e \in E : e[1] \in K /\ e[2] = n
    <3>1. PICK s \in K : \E label : LabelledBy(G, s, n, label)
      BY <1>8, <2>1
    <3>2. PICK e \in E : e[1] = s /\ e[2] = n
      BY <1>4, <3>1
    <3> QED BY <3>2
  <2> QED BY <1>6, <2>1
<1> QED BY <1>3, <1>6, <1>7, <1>8 DEF G

--------------------------------------------------------------------------------
(* What was registered of the code object under test is what the analysis made.    *)
GraphInv ==
  /\ IsRunnable(bCode) /\ B!Reachable(B!LiveBlocks(bCode), {0}) = DOMAIN bCode
  /\ meta.cdg \in B!ControlDependenceGraphs(bCode)
  /\ meta.predicates = B!PredicatesOf(bCode)

LEMMA GraphInit == B!Init => GraphInv
<1> SUFFICES ASSUME B!Init PROVE GraphInv
  OBVIOUS
<1>1. PICK cdg \in B!ControlDependenceGraphs(bCode) : meta = B!Metadata(bCode, cdg)
  BY DEF B!Init
<1>2. meta.cdg = cdg /\ meta.predicates = B!PredicatesOf(bCode)
  BY <1>1 DEF B!Metadata
<1> QED BY <1>2 DEF B!Init, GraphInv, IsRunnable

LEMMA DependencesAre == GraphInv => B!DependencesAreRight
<1> SUFFICES ASSUME GraphInv,
                    NEW s \in meta.cdg.nodes, NEW n \in meta.cdg.nodes
             PROVE  (\E e \in meta.cdg.edges : e[1] = s /\ e[2] = n)
                      <=> B!DependsOn(Whole(bCode), s, n)
  BY DEF B!DependencesAreRight, Whole
<1>1. IsRunnable(bCode) /\ meta.cdg \in B!ControlDependenceGraphs(bCode)
  BY DEF GraphInv
<1>2. s \in Whole(bCode).nodes /\ n \in Whole(bCode).nodes
  BY <1>1, RegisteredIs
<1>3. B!DependsOn(Whole(bCode), s, n) <=> \E label : LabelledBy(Whole(bCode), s, n, label)
  BY <1>1, <1>2, WholeIs, DependsIs
<1>4. (\E e \in meta.cdg.edges : e[1] = s /\ e[2] = n)
        => \E label : LabelledBy(Whole(bCode), s, n, label)
  BY <1>1, RegisteredIs
<1>5. (\E label : LabelledBy(Whole(bCode), s, n, label))
        => \E e \in meta.cdg.edges : e[1] = s /\ e[2] = n
  BY <1>1, RegisteredIs
<1> QED BY <1>3, <1>4, <1>5

--------------------------------------------------------------------------------
(* Everything depends on the start, over some other nodes.                         *)

LEMMA DownFrom ==
  ASSUME NEW G, FlowGraph(G), B!Start \in G.nodes, B!Start # B!Exit,
         \E e \in G.edges : e[1] = B!Start /\ e[2] = B!Exit,
         \A K \in SUBSET G.nodes : B!Start \in K /\ ClosedUnder(G.edges, K) => G.nodes \subseteq K,
         NEW P, B!Start \in P,
         \A s \in P \cap G.nodes, n \in G.nodes \ {B!Exit} :
           (\E label : LabelledBy(G, s, n, label)) => n \in P
  PROVE  G.nodes \ {B!Exit} \subseteq P
<1> DEFINE V == G.nodes
           DependsClosed(X) == \A s \in X, n \in V \ {B!Exit} :
                                 (\E label : LabelledBy(G, s, n, label)) => n \in X
           found == {n \in V : \A X \in SUBSET V : B!Start \in X /\ DependsClosed(X) => n \in X}
<1>1. found \subseteq V /\ B!Start \in found /\ DependsClosed(found)
  OBVIOUS
<1>2. \A X \in SUBSET V : B!Start \in X /\ DependsClosed(X) => found \subseteq X
  OBVIOUS
<1> HIDE DEF found
<1>3. \A e \in G.edges : e[1] \in V \ {B!Exit} /\ e[2] \in V
  BY DEF FlowGraph
<1>4. ASSUME NEW w \in V \ {B!Exit}, w \notin found, NEW v \in found PROVE w \notin After(G, v)
  <2> DEFINE X == {u \in found : w \notin After(G, u)}
  <2>1. B!Start \in X
    <3> SUFFICES ASSUME w \in After(G, B!Start) PROVE FALSE
      BY <1>1
    <3>1. PICK e \in G.edges : e[1] = B!Start /\ e[2] = B!Exit
      OBVIOUS
    <3>2. w \in After(G, B!Exit)
      BY <1>1, <1>4, <3>1, AfterIs
    <3> QED BY <3>2, AfterIs DEF FlowGraph
  <2>2. DependsClosed(X)
    <3> SUFFICES ASSUME NEW u \in X, NEW n \in V \ {B!Exit}, NEW label, LabelledBy(G, u, n, label)
                 PROVE  n \in X
      OBVIOUS
    <3>1. n \in found
      BY <1>1
    <3> SUFFICES ASSUME w \in After(G, n) PROVE FALSE
      BY <3>1
    <3>2. PICK e \in G.edges : /\ e[1] = u /\ e[3] = label /\ n \in After(G, e[2])
                               /\ n = u \/ n \notin After(G, u)
      BY DEF LabelledBy
    <3>3. w \in After(G, e[2])
      BY <1>3, <3>2, AfterIs
    <3>4. LabelledBy(G, u, w, label)
      BY <3>2, <3>3 DEF LabelledBy
    <3> QED BY <1>1, <1>4, <3>4
  <2> QED BY <1>1, <1>2, <2>1, <2>2
<1>5. ClosedUnder(G.edges, found \cup {B!Exit})
  <2> SUFFICES ASSUME NEW e \in G.edges, e[1] \in found, e[2] \notin found, e[2] # B!Exit PROVE FALSE
    BY <1>3 DEF ClosedUnder
  <2>1. e[2] \notin After(G, e[1]) /\ e[2] \in After(G, e[2])
    BY <1>3, <1>4, AfterIs
  <2>2. LabelledBy(G, e[1], e[2], e[3])
    BY <2>1 DEF LabelledBy
  <2> QED BY <1>1, <1>3, <2>2
<1>6. V \subseteq found \cup {B!Exit}
  BY <1>1, <1>5 DEF FlowGraph
<1>7. found \subseteq P
  <2>1. DependsClosed(P \cap V) /\ B!Start \in P \cap V
    OBVIOUS
  <2> QED BY <1>2, <2>1
<1> QED BY <1>6, <1>7

(* A code object of which every block can be executed.                             *)
IsCode(c) == IsRunnable(c) /\ B!Reachable(B!LiveBlocks(c), {0}) = DOMAIN c

LEMMA StartIs ==
  ASSUME NEW c, IsCode(c)
  PROVE  /\ <<B!Start, B!Entry, B!None>> \in Whole(c).edges
         /\ \A K \in SUBSET Whole(c).nodes :
              B!Start \in K /\ ClosedUnder(Whole(c).edges, K) => Whole(c).nodes \subseteq K
<1> DEFINE cfg == B!CFG(c)
           G == Whole(c)
           live == B!LiveBlocks(c)
           found == B!Reachable(live, {0})
           blockEdges == UNION {B!EdgesOf(c, i) : i \in DOMAIN c}
<1>1. /\ IsRunnable(c) /\ c \in MCCodes /\ live.nodes = DOMAIN c /\ found = DOMAIN c
  BY DEF IsCode, IsRunnable
<1>2. /\ cfg.nodes = DOMAIN c \cup {B!Exit, B!Entry} /\ IsFiniteSet(DOMAIN c) /\ 0 \in DOMAIN c
      /\ B!Entry \notin DOMAIN c /\ B!Exit \notin DOMAIN c /\ B!Start \notin DOMAIN c
      /\ <<B!Entry, 0, B!None>> \in cfg.edges
      /\ \E n \in DOMAIN c : <<n, B!Exit, B!None>> \in cfg.edges
      /\ \A i \in DOMAIN c : B!EdgesOf(c, i) \subseteq cfg.edges
      /\ \A e \in cfg.edges : \/ e[1] \in DOMAIN c /\ e \in B!EdgesOf(c, e[1])
                              \/ e[1] \in DOMAIN c /\ e[2] = B!Exit
                              \/ e = <<B!Entry, 0, B!None>>
  BY <1>1, CfgIs
<1>3. live.edges = blockEdges
  <2>1. live.edges = {e \in blockEdges : e[1] \in live.nodes /\ e[2] \in live.nodes}
    BY DEF B!LiveBlocks, B!WithoutDeadCode
  <2>2. \A e \in blockEdges : e[1] \in DOMAIN c /\ e[2] \in DOMAIN c
    BY <1>1, BlockEdges
  <2> HIDE DEF live, blockEdges
  <2> QED BY <1>1, <2>1, <2>2
<1> HIDE DEF live, cfg
<1>4. \A K : 0 \in K /\ ClosedUnder(blockEdges, K) => DOMAIN c \subseteq K
  <2>1. IsFiniteSet(live.nodes \cup {0})
    <3>1. live.nodes \cup {0} = DOMAIN c
      BY <1>1, <1>2
    <3> QED BY <1>2, <3>1
  <2>2. \A e \in live.edges : e[2] \in live.nodes
    BY <1>1, <1>3, BlockEdges
  <2>3. \A K : {0} \subseteq K /\ ClosedUnder(live.edges, K) => found \subseteq K
    <3> HIDE DEF found
    <3> QED BY <2>1, <2>2, ReachableIs DEF found
  <2> HIDE DEF found, blockEdges
  <2> QED BY <1>1, <1>3, <2>3
<1>5. \A n \in DOMAIN c \ {0} : \E e \in blockEdges : e[2] = n
  <2> SUFFICES ASSUME NEW n \in DOMAIN c \ {0}, \A e \in blockEdges : e[2] # n PROVE FALSE
    OBVIOUS
  <2>1. ClosedUnder(blockEdges, (DOMAIN c) \ {n})
    BY <1>1, BlockEdges DEF ClosedUnder
  <2> HIDE DEF blockEdges
  <2> QED BY <1>2, <1>4, <2>1
<1>6. B!EntryNode(cfg) = B!Entry
  <2>1. \A n : B!Predecessors(cfg, n) = {} <=> \A e \in cfg.edges : e[2] # n
    BY DEF B!Predecessors
  <2>2. \A e \in cfg.edges : e[2] # B!Entry
    BY <1>1, <1>2, BlockEdges DEF B!Entry, B!Exit
  <2>3. \A n \in cfg.nodes \ {B!Entry} : \E e \in cfg.edges : e[2] = n
    <3>1. \A n \in DOMAIN c \ {0} : \E e \in cfg.edges : e[2] = n
      BY <1>2, <1>5
    <3>2. \E e \in cfg.edges : e[2] = 0
      BY <1>2
    <3>3. \E e \in cfg.edges : e[2] = B!Exit
      BY <1>2
    <3> QED BY <1>2, <3>1, <3>2, <3>3
  <2>4. B!Entry \in cfg.nodes
    BY <1>2
  <2>5. \A n \in cfg.nodes : B!Predecessors(cfg, n) = {} <=> n = B!Entry
    BY <2>1, <2>2, <2>3
  <2> QED BY <2>4, <2>5 DEF B!EntryNode
<1>7. /\ <<B!Start, B!Entry, B!None>> \in G.edges /\ <<B!Start, B!Exit, B!None>> \in G.edges
      /\ G.nodes = DOMAIN c \cup {B!Exit, B!Entry, B!Start} /\ cfg.edges \subseteq G.edges
  <2>1. G.edges = B!CFG(c).edges
                    \cup {<<B!Start, n, B!None>> : n \in {B!EntryNode(B!CFG(c))} \cup B!ExitNodes(B!CFG(c))}
    BY DEF Whole, B!Augmented
  <2>2. <<B!Start, B!Entry, B!None>> \in G.edges
    BY <1>6, <2>1 DEF cfg
  <2> QED BY <1>1, <2>2, WholeIs DEF cfg
<1>8. ASSUME NEW K, B!Start \in K, ClosedUnder(G.edges, K) PROVE G.nodes \subseteq K
  <2>1. ClosedUnder(blockEdges, K)
    <3>1. blockEdges \subseteq G.edges
      BY <1>2, <1>7
    <3> HIDE DEF blockEdges, G
    <3> QED BY <1>8, <3>1 DEF ClosedUnder
  <2>2. B!Entry \in K /\ B!Exit \in K
    BY <1>7, <1>8 DEF ClosedUnder
  <2>3. 0 \in K
    BY <1>2, <1>7, <1>8, <2>2 DEF ClosedUnder
  <2> HIDE DEF blockEdges, G
  <2> QED BY <1>4, <1>7, <1>8, <2>1, <2>2, <2>3
<1> QED BY <1>7, <1>8 DEF G

(* No node without predecessors post-dominates another one.                        *)
LEMMA NotAfter ==
  ASSUME NEW G, FlowGraph(G), NEW d \in G.nodes, \A e \in G.edges : e[2] # d,
         NEW n \in G.nodes, n # d
  PROVE  d \notin After(G, n)
<1> SUFFICES ASSUME d \in After(G, n) PROVE FALSE
  OBVIOUS
<1>1. PICK K \in SUBSET G.nodes : n \in K /\ Trapped(G, d, K)
  BY PostDominatesIs DEF After
<1>2. ClosedUnder(G.edges, K)
  BY <1>1 DEF Trapped, ClosedUnder
<1> QED BY <1>1, <1>2 DEF FlowGraph, Trapped

LEMMA RegisteredHolds ==
  ASSUME NEW c, IsCode(c), NEW cdg \in B!ControlDependenceGraphs(c)
  PROVE  /\ Whole(c).nodes \ {B!Exit} \subseteq cdg.nodes
         /\ B!EntryNode(cdg) = B!Start
         /\ \A n \in Whole(c).nodes : B!Start \notin After(Whole(c), n) \/ n = B!Start
         /\ \A P : (/\ B!Start \in P
                    /\ \A e \in cdg.edges : e[1] \in P => e[2] \in P)
                      => Whole(c).nodes \ {B!Exit} \subseteq P
<1> DEFINE G == Whole(c)
           V == G.nodes
<1>1. /\ IsRunnable(c) /\ FlowGraph(G) /\ V = DOMAIN c \cup {B!Exit, B!Entry, B!Start}
      /\ <<B!Start, B!Exit, B!None>> \in G.edges /\ B!Start # B!Exit
      /\ \A K \in SUBSET V : B!Start \in K /\ ClosedUnder(G.edges, K) => V \subseteq K
  BY WholeIs, StartIs DEF IsCode, B!Start, B!Exit
<1>2. \A e \in G.edges : e[2] # B!Start
  <2>1. \A e \in B!CFG(c).edges : e[2] # B!Start
    BY <1>1, CfgIs, BlockEdges DEF B!Start, B!Exit, IsRunnable
  <2>2. B!Start \notin B!CFG(c).nodes
    BY <1>1, CfgIs DEF B!Start, B!Exit, B!Entry
  <2> QED BY <1>1, <2>1, <2>2, WholeIs
<1>3. \A n \in V : B!Start \notin After(G, n) \/ n = B!Start
  BY <1>1, <1>2, NotAfter
<1> HIDE DEF G
<1>4. \A s, n, label : LabelledBy(G, s, n, label) => s \in V \ {B!Exit} /\ n # B!Start
  BY <1>1, <1>2, <1>3 DEF LabelledBy, FlowGraph
<1>5. ASSUME NEW P, B!Start \in P,
             \A s \in P \cap V, n \in V \ {B!Exit} :
               (\E label : LabelledBy(G, s, n, label)) => n \in P
      PROVE  V \ {B!Exit} \subseteq P
  <2>1. B!Start \in V /\ \E e \in G.edges : e[1] = B!Start /\ e[2] = B!Exit
    BY <1>1
  <2> QED BY <1>1, <1>5, <2>1, DownFrom
<1>6. V \ {B!Exit} \subseteq cdg.nodes
  <2> DEFINE K == V \ {B!Exit}
             P == {n \in V : n = B!Start \/ \E s \in K : \E label : LabelledBy(G, s, n, label)}
  <2>1. K \subseteq P
    <3>1. B!Start \in P
      BY <1>1
    <3>2. \A s \in P \cap V, n \in V \ {B!Exit} :
            (\E label : LabelledBy(G, s, n, label)) => n \in P
      BY <1>4
    <3> HIDE DEF P
    <3> QED BY <1>5, <3>1, <3>2
  <2>2. \A n \in K : n = B!Start \/ \E s \in K : \E label : LabelledBy(G, s, n, label)
    BY <2>1
  <2>3. K \in SUBSET Whole(c).nodes
    BY DEF G
  <2> HIDE DEF K
  <2> QED BY <1>1, <2>2, <2>3, RegisteredIs DEF G, K
<1>7. /\ cdg.nodes \subseteq V
      /\ \A e \in cdg.edges : /\ e[1] \in cdg.nodes /\ e[2] \in cdg.nodes
                              /\ LabelledBy(G, e[1], e[2], e[3])
      /\ \A s, n \in cdg.nodes : (\E label : LabelledBy(G, s, n, label))
                                   => \E e \in cdg.edges : e[1] = s /\ e[2] = n
      /\ \A n \in cdg.nodes : n = B!Start \/ \E e \in cdg.edges : e[2] = n
  BY <1>1, RegisteredIs DEF G
<1>8. B!EntryNode(cdg) = B!Start
  <2>1. \A n : B!Predecessors(cdg, n) = {} <=> \A e \in cdg.edges : e[2] # n
    BY DEF B!Predecessors
  <2>2. \A e \in cdg.edges : e[2] # B!Start
    BY <1>4, <1>7
  <2>3. B!Start \in cdg.nodes
    BY <1>1, <1>6
  <2>4. \A n \in cdg.nodes : B!Predecessors(cdg, n) = {} <=> n = B!Start
    BY <1>7, <2>1, <2>2
  <2> QED BY <2>3, <2>4 DEF B!EntryNode
<1>9. ASSUME NEW P, B!Start \in P, \A e \in cdg.edges : e[1] \in P => e[2] \in P
      PROVE  V \ {B!Exit} \subseteq P
  <2>1. ASSUME NEW s \in P \cap V, NEW n \in V \ {B!Exit}, \E label : LabelledBy(G, s, n, label)
        PROVE  n \in P
    <3>1. s \in cdg.nodes /\ n \in cdg.nodes
      BY <1>4, <1>6, <2>1
    <3>2. PICK e \in cdg.edges : e[1] = s /\ e[2] = n
      BY <1>7, <2>1, <3>1
    <3> QED BY <1>9, <3>2
  <2> QED BY <1>5, <1>9, <2>1
<1> QED BY <1>3, <1>6, <1>8, <1>9 DEF G

--------------------------------------------------------------------------------
(* What a goal waits for.                                                          *)

(* All nodes from which edges lead to a node.                                      *)
Above(W, E, n) == B!Reachable([nodes |-> W, edges |-> {<<e[2], e[1], e[3]>> : e \in E}], {n})

LEMMA UpFrom ==
  ASSUME NEW W, IsFiniteSet(W), NEW E, \A e \in E : e[1] \in W /\ e[2] \in W, NEW n \in W
  PROVE  /\ n \in Above(W, E, n)
         /\ \A e \in E : e[2] \in Above(W, E, n) => e[1] \in Above(W, E, n)
         /\ \A K : n \in K /\ (\A e \in E : e[2] \in K => e[1] \in K) => Above(W, E, n) \subseteq K
<1> DEFINE found == Above(W, E, n)
           Z == {n}
           R == [nodes |-> W, edges |-> {<<e[2], e[1], e[3]>> : e \in E}]
<1>1. R.nodes = W /\ R.edges = {<<e[2], e[1], e[3]>> : e \in E} /\ found = B!Reachable(R, Z)
  BY DEF Above
<1> HIDE DEF R, found
<1>2. \A e \in R.edges : e[2] \in R.nodes
  <2> SUFFICES ASSUME NEW e \in R.edges PROVE e[2] \in R.nodes
    OBVIOUS
  <2>1. PICK x \in E : e = <<x[2], x[1], x[3]>>
    BY <1>1
  <2> QED BY <1>1, <2>1
<1>3. IsFiniteSet(R.nodes \cup Z) /\ R.nodes \cup Z = W
  <2>1. R.nodes \cup Z = W
    BY <1>1
  <2> QED BY <2>1
<1>4. /\ Z \subseteq found /\ found \subseteq R.nodes \cup Z /\ ClosedUnder(R.edges, found)
      /\ \A K : Z \subseteq K /\ ClosedUnder(R.edges, K) => found \subseteq K
  <2>1. found = B!Reachable(R, Z)
    BY <1>1
  <2>2. IsFiniteSet(R.nodes \cup Z)
    BY <1>3
  <2> HIDE DEF Z
  <2> QED BY <1>2, <2>1, <2>2, ReachableIs
<1>5. \A K : ClosedUnder(R.edges, K) <=> \A e \in E : e[2] \in K => e[1] \in K
  <2> SUFFICES ASSUME NEW K
               PROVE  ClosedUnder(R.edges, K) <=> \A e \in E : e[2] \in K => e[1] \in K
    OBVIOUS
  <2>1. ASSUME ClosedUnder(R.edges, K), NEW e \in E, e[2] \in K PROVE e[1] \in K
    <3>1. <<e[2], e[1], e[3]>> \in R.edges
      BY <1>1
    <3> QED BY <2>1, <3>1 DEF ClosedUnder
  <2>2. ASSUME \A e \in E : e[2] \in K => e[1] \in K, NEW x \in R.edges, x[1] \in K
        PROVE  x[2] \in K
    <3>1. PICK e \in E : x = <<e[2], e[1], e[3]>>
      BY <1>1
    <3> QED BY <2>2, <3>1
  <2> QED BY <2>1, <2>2 DEF ClosedUnder
<1>6. ASSUME NEW K, n \in K, \A e \in E : e[2] \in K => e[1] \in K PROVE found \subseteq K
  BY <1>4, <1>5, <1>6
<1>7. n \in found /\ \A e \in E : e[2] \in found => e[1] \in found
  BY <1>4, <1>5
<1> QED BY <1>6, <1>7 DEF found

LEMMA PredicatesAre ==
  ASSUME NEW c, IsRunnable(c)
  PROVE  /\ B!PredicatesOf(c) = {n \in DOMAIN c : c[n].kind = "cond"}
         /\ \A n : B!IsPredicate(c, n) <=> n \in B!PredicatesOf(c)
<1>1. DOMAIN c \subseteq B!CFG(c).nodes
  BY CfgIs
<1> QED BY <1>1 DEF B!PredicatesOf, B!IsPredicate

(* The label of a dependence says which branch leads to it.                        *)
LEMMA LabelIs ==
  ASSUME NEW c, IsCode(c), NEW s, NEW n, NEW label, LabelledBy(Whole(c), s, n, label)
  PROVE  /\ s \in B!PredicatesOf(c) =>
              label \in B!Branches /\ n \in After(Whole(c), Leads(c, s, label))
         /\ s \notin B!PredicatesOf(c) => label = B!None
<1> DEFINE G == Whole(c)
<1>1. IsRunnable(c) /\ c \in MCCodes /\ FlowGraph(G)
  BY WholeIs DEF IsCode, IsRunnable
<1>2. PICK e \in G.edges : /\ e[1] = s /\ e[3] = label /\ n \in After(G, e[2])
                           /\ n = s \/ n \notin After(G, s)
  BY DEF LabelledBy
<1>3. e[2] # B!Exit
  <2> SUFFICES ASSUME e[2] = B!Exit PROVE FALSE
    OBVIOUS
  <2>1. e[1] \in G.nodes \ {B!Exit}
    BY <1>1, <1>2 DEF FlowGraph
  <2>2. n = B!Exit
    BY <1>1, <1>2, <2>1, AfterIs
  <2>3. B!Exit \in After(G, s)
    BY <1>1, <1>2, <2>1, AfterIs
  <2> QED BY <1>2, <2>1, <2>2, <2>3
<1>4. CASE e \in B!CFG(c).edges
  <2>1. \/ s \in DOMAIN c /\ e \in B!EdgesOf(c, s)
        \/ e = <<B!Entry, 0, B!None>>
    BY <1>1, <1>2, <1>3, <1>4, CfgIs
  <2>2. B!Entry \notin DOMAIN c
    BY <1>1, CfgIs
  <2>3. CASE s \in DOMAIN c /\ e \in B!EdgesOf(c, s)
    <3>1. s \in B!PredicatesOf(c) <=> c[s].kind = "cond"
      BY <1>1, <2>3, PredicatesAre
    <3>2. CASE c[s].kind = "cond"
      <4>1. e[3] \in B!Branches /\ e[2] = Leads(c, s, e[3])
        BY <1>1, <2>3, <3>2, BlockEdges
      <4> QED BY <1>2, <3>1, <3>2, <4>1
    <3>3. CASE c[s].kind # "cond"
      <4>1. e[3] = B!None
        BY <1>1, <2>3, <3>3, BlockEdges
      <4> QED BY <1>2, <3>1, <3>3, <4>1
    <3> QED BY <3>2, <3>3
  <2>4. CASE e = <<B!Entry, 0, B!None>>
    BY <1>1, <1>2, <2>2, <2>4, PredicatesAre
  <2> QED BY <2>1, <2>3, <2>4
<1>5. CASE e \notin B!CFG(c).edges
  <2>1. e[1] = B!Start /\ e[3] = B!None
    BY <1>1, <1>2, <1>5, WholeIs
  <2>2. B!Start \notin DOMAIN c
    BY <1>1, CfgIs
  <2> QED BY <1>1, <1>2, <2>1, <2>2, PredicatesAre
<1> QED BY <1>4, <1>5

(* A node is active when it is a root or depends on one of these goals.            *)
Active(c, cdg, goals, n) ==
  \/ B!IsDependentOnRoot(c, cdg, n)
  \/ \E g \in B!ControlDependencies(cdg, n) : g \in goals

LEMMA ActiveGrows ==
  ASSUME NEW c, NEW cdg, NEW n, NEW X, NEW Y, X \subseteq Y, Active(c, cdg, X, n)
  PROVE  Active(c, cdg, Y, n)
BY DEF Active

(* What is passed on along the edges of the control-dependence graph.              *)
LEMMA StepDown ==
  ASSUME NEW c, IsCode(c), NEW cdg \in B!ControlDependenceGraphs(c), NEW e \in cdg.edges,
         NEW goals
  PROVE  /\ e[1] = B!Start => Active(c, cdg, goals, e[2])
         /\ e[1] \notin B!PredicatesOf(c) /\ Active(c, cdg, goals, e[1]) => Active(c, cdg, goals, e[2])
         /\ e[1] \in B!PredicatesOf(c) /\ <<e[1], e[3]>> \in goals => Active(c, cdg, goals, e[2])
<1> DEFINE W == cdg.nodes
           through == {x \in cdg.edges : ~B!IsPredicate(c, x[1]) /\ x[1] # x[2]}
           up(n) == Above(W, through, n)
           free == {x \in cdg.edges : x[3] = B!None}
           over(n) == Above(W, free, n)
<1>1. /\ IsRunnable(c) /\ FlowGraph(Whole(c)) /\ W \subseteq Whole(c).nodes
      /\ \A x \in cdg.edges : /\ x[1] \in W /\ x[2] \in W
                              /\ LabelledBy(Whole(c), x[1], x[2], x[3])
      /\ B!EntryNode(cdg) = B!Start
      /\ \A n : B!IsPredicate(c, n) <=> n \in B!PredicatesOf(c)
  <2>1. IsRunnable(c)
    BY DEF IsCode
  <2> QED BY <2>1, WholeIs, RegisteredIs, RegisteredHolds, PredicatesAre
<1>2. IsFiniteSet(W)
  BY <1>1, FS_Subset DEF FlowGraph
<1>3. \A n : B!IsDependentOnRoot(c, cdg, n) <=>
               \E m \in up(n) : \E x \in cdg.edges : x[1] = B!Start /\ x[2] = m
  BY <1>1 DEF B!IsDependentOnRoot, Above
<1>4. \A n : B!ControlDependencies(cdg, n) =
               {<<x[1], x[3]>> : x \in {y \in cdg.edges : y[3] # B!None /\ y[2] \in over(n)}}
  BY DEF B!ControlDependencies, B!Governed, Above
<1>5. ASSUME NEW n \in W
      PROVE  /\ n \in up(n) /\ \A x \in through : x[2] \in up(n) => x[1] \in up(n)
             /\ \A K : n \in K /\ (\A x \in through : x[2] \in K => x[1] \in K) => up(n) \subseteq K
  <2>1. \A x \in through : x[1] \in W /\ x[2] \in W
    BY <1>1
  <2> HIDE DEF through
  <2> QED BY <1>2, <2>1, UpFrom
<1>6. ASSUME NEW n \in W
      PROVE  /\ n \in over(n) /\ \A x \in free : x[2] \in over(n) => x[1] \in over(n)
             /\ \A K : n \in K /\ (\A x \in free : x[2] \in K => x[1] \in K) => over(n) \subseteq K
  <2>1. \A x \in free : x[1] \in W /\ x[2] \in W
    BY <1>1
  <2> HIDE DEF free
  <2> QED BY <1>2, <2>1, UpFrom
<1> HIDE DEF up, over
<1>7. ASSUME e[1] = B!Start PROVE Active(c, cdg, goals, e[2])
  <2>1. e[2] \in up(e[2])
    BY <1>1, <1>5
  <2> QED BY <1>3, <1>7, <2>1 DEF Active
<1>8. ASSUME e[1] \notin B!PredicatesOf(c), Active(c, cdg, goals, e[1])
      PROVE  Active(c, cdg, goals, e[2])
  <2> SUFFICES ASSUME e[1] # e[2] PROVE Active(c, cdg, goals, e[2])
    BY <1>8
  <2>1. e \in through
    BY <1>1, <1>8
  <2>2. e \in free
    BY <1>1, <1>8, LabelIs
  <2>3. e[1] \in W /\ e[2] \in W
    BY <1>1
  <2>4. CASE B!IsDependentOnRoot(c, cdg, e[1])
    <3>1. e[1] \in up(e[2]) /\ \A x \in through : x[2] \in up(e[2]) => x[1] \in up(e[2])
      BY <1>5, <2>1, <2>3
    <3>2. up(e[1]) \subseteq up(e[2])
      BY <1>5, <2>3, <3>1
    <3> QED BY <1>3, <2>4, <3>2 DEF Active
  <2>5. CASE \E g \in B!ControlDependencies(cdg, e[1]) : g \in goals
    <3>1. e[1] \in over(e[2]) /\ \A x \in free : x[2] \in over(e[2]) => x[1] \in over(e[2])
      BY <1>6, <2>2, <2>3
    <3>2. over(e[1]) \subseteq over(e[2])
      BY <1>6, <2>3, <3>1
    <3>3. B!ControlDependencies(cdg, e[1]) \subseteq B!ControlDependencies(cdg, e[2])
      BY <1>4, <3>2
    <3> QED BY <2>5, <3>3 DEF Active
  <2> QED BY <1>8, <2>4, <2>5 DEF Active
<1>9. ASSUME e[1] \in B!PredicatesOf(c), <<e[1], e[3]>> \in goals
      PROVE  Active(c, cdg, goals, e[2])
  <2>1. e[3] \in B!Branches
    BY <1>1, <1>9, LabelIs
  <2>2. e[3] # B!None
    BY <2>1 DEF B!Branches, B!None
  <2>3. e[2] \in over(e[2])
    BY <1>1, <1>6
  <2>4. <<e[1], e[3]>> \in B!ControlDependencies(cdg, e[2])
    BY <1>4, <2>2, <2>3
  <2> QED BY <1>9, <2>4 DEF Active
<1> QED BY <1>7, <1>8, <1>9

(* DynaMOSA comes to every goal.                                                   *)
LEMMA RootedAre == GraphInv => B!GoalsAreRooted
<1> SUFFICES ASSUME GraphInv PROVE B!GoalsAreRooted
  OBVIOUS
<1> DEFINE c == bCode
           cdg == meta.cdg
           P == B!PredicatesOf(c)
           goals == B!GoalsOf(c)
           edges == UNION {{<<g, h, B!None>> : h \in B!ChildrenOf(c, cdg, g)} : g \in goals}
           graph == [nodes |-> goals, edges |-> edges]
           roots == B!RootGoals(c, cdg)
           found == B!Reachable(graph, roots)
<1>1. /\ IsCode(c) /\ cdg \in B!ControlDependenceGraphs(c) /\ IsRunnable(c)
  BY DEF GraphInv, IsCode
<1>2. /\ goals = P \X B!Branches /\ IsFiniteSet(goals) /\ P \subseteq DOMAIN c
      /\ P \subseteq Whole(c).nodes \ {B!Exit}
  <2>1. IsFiniteSet(DOMAIN c) /\ P \subseteq DOMAIN c /\ P \subseteq Whole(c).nodes \ {B!Exit}
    BY <1>1, CfgIs, WholeIs, PredicatesAre
  <2>2. IsFiniteSet(P)
    BY <2>1, FS_Subset
  <2>3. IsFiniteSet({"true"}) /\ IsFiniteSet({"false"})
    BY FS_Singleton
  <2>4. IsFiniteSet({"true"} \cup {"false"}) /\ B!Branches = {"true"} \cup {"false"}
    <3>1. B!Branches = {"true"} \cup {"false"}
      BY DEF B!Branches
    <3> QED BY <2>3, <3>1, FS_Union
  <2>5. IsFiniteSet(P \X B!Branches)
    BY <2>2, <2>4, FS_Product
  <2> QED BY <2>1, <2>5 DEF B!GoalsOf
<1>3. graph.nodes = goals /\ graph.edges = edges
  OBVIOUS
<1>4. /\ roots = {g \in goals : B!IsDependentOnRoot(c, cdg, g[1])}
      /\ \A g, h \in goals : g \in B!ControlDependencies(cdg, h[1]) => <<g, h, B!None>> \in edges
      /\ \A e \in edges : e[2] \in goals
  BY DEF B!RootGoals, B!ChildrenOf
<1> HIDE DEF goals, graph, edges, roots
<1>5. found \subseteq goals /\ roots \subseteq found /\ ClosedUnder(edges, found)
  <2>1. graph.nodes \cup roots = goals
    BY <1>3, <1>4
  <2> HIDE DEF found
  <2> QED BY <1>2, <1>3, <1>4, <2>1, ReachableIs DEF found
<1> HIDE DEF found
<1>6. ASSUME NEW p \in P, Active(c, cdg, found, p), NEW b \in B!Branches PROVE <<p, b>> \in found
  <2>1. <<p, b>> \in goals
    BY <1>2
  <2>2. CASE B!IsDependentOnRoot(c, cdg, p)
    BY <1>4, <1>5, <2>1, <2>2
  <2>3. CASE \E g \in B!ControlDependencies(cdg, p) : g \in found
    <3>1. PICK g \in found : g \in B!ControlDependencies(cdg, p)
      BY <2>3
    <3>2. <<g, <<p, b>>, B!None>> \in edges
      BY <1>4, <1>5, <2>1, <3>1
    <3> QED BY <1>5, <3>2 DEF ClosedUnder
  <2> QED BY <1>6, <2>2, <2>3 DEF Active
<1>7. ASSUME NEW p \in P PROVE Active(c, cdg, found, p)
  <2> DEFINE reached == {n \in Whole(c).nodes : n = B!Start \/ Active(c, cdg, found, n)}
  <2>1. ASSUME NEW e \in cdg.edges, e[1] \in reached PROVE e[2] \in reached
    <3>1. e[1] \in Whole(c).nodes /\ e[2] \in Whole(c).nodes
          /\ LabelledBy(Whole(c), e[1], e[2], e[3])
      BY <1>1, RegisteredIs
    <3>2. CASE e[1] = B!Start
      BY <1>1, <3>1, <3>2, StepDown
    <3>3. CASE e[1] # B!Start /\ e[1] \notin P
      BY <1>1, <2>1, <3>1, <3>3, StepDown
    <3>4. CASE e[1] # B!Start /\ e[1] \in P
      <4>1. e[3] \in B!Branches
        BY <1>1, <3>1, <3>4, LabelIs
      <4>2. <<e[1], e[3]>> \in found
        BY <1>6, <2>1, <3>4, <4>1
      <4> QED BY <1>1, <3>1, <3>4, <4>2, StepDown
    <3> QED BY <3>2, <3>3, <3>4
  <2>2. B!Start \in reached
    BY <1>1, WholeIs
  <2> HIDE DEF reached
  <2>3. Whole(c).nodes \ {B!Exit} \subseteq reached
    BY <1>1, <2>1, <2>2, RegisteredHolds
  <2>4. p # B!Start
    BY <1>1, <1>2, CfgIs
  <2> QED BY <1>2, <2>3, <2>4 DEF reached
<1>8. goals \subseteq found
  BY <1>2, <1>6, <1>7
<1>9. goals = found
  BY <1>5, <1>8
<1> QED BY <1>9 DEF B!GoalsAreRooted, goals, graph, edges, roots, found

--------------------------------------------------------------------------------
(* Executions.  Where a block is executed, everything that is executed after it,    *)
(* whatever branches are taken, is active.                                         *)
Ready(c, cdg, goals, v) == \A m \in After(Whole(c), v) \ {B!Exit} : Active(c, cdg, goals, m)

LEMMA CodeHolds ==
  ASSUME NEW c, IsCode(c), NEW cdg \in B!ControlDependenceGraphs(c)
  PROVE  /\ c \in MCCodes /\ IsRunnable(c) /\ FlowGraph(Whole(c))
         /\ DOMAIN c \subseteq Whole(c).nodes \ {B!Exit, B!Start}
         /\ \A i \in DOMAIN c : B!EdgesOf(c, i) \subseteq Whole(c).edges
         /\ \A s, n \in Whole(c).nodes \ {B!Exit} :
              (\E label : LabelledBy(Whole(c), s, n, label))
                => \E e \in cdg.edges : e[1] = s /\ e[2] = n
         /\ \A e \in cdg.edges : LabelledBy(Whole(c), e[1], e[2], e[3])
<1>1. c \in MCCodes /\ IsRunnable(c) /\ FlowGraph(Whole(c))
  BY WholeIs DEF IsCode, IsRunnable
<1>2. DOMAIN c \subseteq Whole(c).nodes \ {B!Exit, B!Start}
  BY <1>1, WholeIs, CfgIs
<1>3. \A i \in DOMAIN c : B!EdgesOf(c, i) \subseteq Whole(c).edges
  BY <1>1, WholeIs, CfgIs
<1>4. Whole(c).nodes \ {B!Exit} \subseteq cdg.nodes
  BY RegisteredHolds
<1>5. \A s, n \in cdg.nodes : (\E label : LabelledBy(Whole(c), s, n, label))
                                => \E e \in cdg.edges : e[1] = s /\ e[2] = n
  BY <1>1, RegisteredIs
<1>6. \A e \in cdg.edges : LabelledBy(Whole(c), e[1], e[2], e[3])
  BY <1>1, RegisteredIs
<1> QED BY <1>1, <1>2, <1>3, <1>4, <1>5, <1>6

LEMMA ReadyGrows ==
  ASSUME NEW c, NEW cdg, NEW v, NEW X, NEW Y, X \subseteq Y, Ready(c, cdg, X, v)
  PROVE  Ready(c, cdg, Y, v)
BY ActiveGrows DEF Ready

LEMMA Begun ==
  ASSUME NEW c, IsCode(c), NEW cdg \in B!ControlDependenceGraphs(c), NEW goals
  PROVE  Ready(c, cdg, goals, 0)
<1> SUFFICES ASSUME NEW m \in After(Whole(c), 0) \ {B!Exit} PROVE Active(c, cdg, goals, m)
  BY DEF Ready
<1> DEFINE G == Whole(c)
<1>1. IsRunnable(c) /\ FlowGraph(G) /\ 0 \in DOMAIN c /\ 0 \in G.nodes \ {B!Exit, B!Start}
  BY CodeHolds, CfgIs
<1>2. /\ <<B!Start, B!Entry, B!None>> \in G.edges /\ <<B!Start, B!Exit, B!None>> \in G.edges
      /\ G.nodes = DOMAIN c \cup {B!Exit, B!Entry, B!Start}
      /\ B!Entry # B!Start /\ B!Entry # B!Exit /\ B!Start # B!Exit
  BY <1>1, StartIs, WholeIs DEF B!Entry, B!Start, B!Exit
<1>3. m \in G.nodes \ {B!Exit, B!Start}
  <2>1. m \in G.nodes
    BY <1>1, AfterIs
  <2>2. B!Start \notin After(G, 0)
    BY <1>1, RegisteredHolds
  <2> QED BY <2>1, <2>2
<1>4. \A e \in G.edges : e[1] = B!Entry => e[2] = 0
  <2>1. \A e \in B!CFG(c).edges : e[1] = B!Entry => e[2] = 0
    BY <1>1, CfgIs
  <2> QED BY <1>1, <1>2, <2>1, WholeIs
<1>5. m \in After(G, B!Entry)
  BY <1>1, <1>2, <1>3, <1>4, AfterIs
<1>6. m \notin After(G, B!Start)
  <2> SUFFICES ASSUME m \in After(G, B!Start) PROVE FALSE
    OBVIOUS
  <2>1. m \in After(G, B!Exit)
    BY <1>1, <1>2, <1>3, AfterIs
  <2> QED BY <1>1, <1>2, <2>1, AfterIs
<1>7. LabelledBy(G, B!Start, m, B!None)
  BY <1>2, <1>5, <1>6 DEF LabelledBy
<1>8. PICK e \in cdg.edges : e[1] = B!Start /\ e[2] = m
  <2>1. \A s, n \in G.nodes \ {B!Exit} :
          (\E label : LabelledBy(G, s, n, label)) => \E e \in cdg.edges : e[1] = s /\ e[2] = n
    BY CodeHolds
  <2> HIDE DEF G
  <2>2. B!Start \in G.nodes \ {B!Exit} /\ m \in G.nodes \ {B!Exit}
    BY <1>2, <1>3
  <2> QED BY <1>7, <2>1, <2>2
<1> QED BY <1>8, StepDown

LEMMA Passed ==
  ASSUME NEW c, IsCode(c), NEW cdg \in B!ControlDependenceGraphs(c), NEW goals,
         NEW v \in DOMAIN c, c[v].kind # "cond", Ready(c, cdg, goals, v),
         NEW e \in B!EdgesOf(c, v)
  PROVE  e[2] \in DOMAIN c /\ Ready(c, cdg, goals, e[2])
<1> DEFINE G == Whole(c)
<1>1. /\ FlowGraph(G) /\ v \in G.nodes \ {B!Exit} /\ e \in G.edges
      /\ e[1] = v /\ e[2] \in DOMAIN c /\ e[2] \in G.nodes \ {B!Exit}
  BY CodeHolds, BlockEdges
<1>2. v \notin B!PredicatesOf(c)
  BY CodeHolds, PredicatesAre
<1> SUFFICES ASSUME NEW m \in After(G, e[2]) \ {B!Exit} PROVE Active(c, cdg, goals, m)
  BY <1>1 DEF Ready
<1>3. CASE m \in After(G, v)
  BY <1>3 DEF Ready
<1>4. CASE m \notin After(G, v)
  <2>1. LabelledBy(G, v, m, e[3])
    BY <1>1, <1>4 DEF LabelledBy
  <2>2. m \in G.nodes \ {B!Exit}
    BY <1>1, AfterIs
  <2>3. PICK x \in cdg.edges : x[1] = v /\ x[2] = m
    BY <1>1, <2>1, <2>2, CodeHolds
  <2>4. Active(c, cdg, goals, v)
    <3>1. v \in After(G, v)
      BY <1>1, AfterIs
    <3> QED BY <1>1, <3>1 DEF Ready
  <2> QED BY <1>2, <2>3, <2>4, StepDown
<1> QED BY <1>3, <1>4

LEMMA Branched ==
  ASSUME NEW c, IsCode(c), NEW cdg \in B!ControlDependenceGraphs(c), NEW X, NEW Y, X \subseteq Y,
         NEW v \in DOMAIN c, c[v].kind = "cond", Ready(c, cdg, X, v),
         NEW b \in B!Branches, <<v, b>> \in Y
  PROVE  Leads(c, v, b) \in DOMAIN c /\ Ready(c, cdg, Y, Leads(c, v, b))
<1> DEFINE G == Whole(c)
           w == Leads(c, v, b)
<1>1. /\ c \in MCCodes /\ IsRunnable(c) /\ FlowGraph(G) /\ v \in G.nodes \ {B!Exit}
      /\ v \in B!PredicatesOf(c)
  BY CodeHolds, PredicatesAre
<1>2. PICK e \in B!EdgesOf(c, v) : e[2] = w
  BY <1>1, BlockEdges
<1>3. /\ e \in G.edges /\ e[1] = v /\ w \in DOMAIN c /\ w \in G.nodes \ {B!Exit}
  BY <1>1, <1>2, CodeHolds, BlockEdges
<1> HIDE DEF w
<1> SUFFICES ASSUME NEW m \in After(G, w) \ {B!Exit} PROVE Active(c, cdg, Y, m)
  BY <1>3 DEF Ready, w
<1>4. CASE m \in After(G, v)
  BY <1>4, ActiveGrows DEF Ready
<1>5. CASE m \notin After(G, v)
  <2>1. LabelledBy(G, v, m, e[3])
    BY <1>2, <1>3, <1>5 DEF LabelledBy
  <2>2. m \in G.nodes \ {B!Exit}
    BY <1>1, <1>3, AfterIs
  <2>3. PICK x \in cdg.edges : x[1] = v /\ x[2] = m
    BY <1>1, <2>1, <2>2, CodeHolds
  <2>4. LabelledBy(G, v, m, x[3])
    BY <2>3, CodeHolds
  <2>5. x[3] \in B!Branches /\ m \in After(G, Leads(c, v, x[3]))
    BY <1>1, <2>4, LabelIs
  <2>6. x[3] = b
    <3> SUFFICES ASSUME x[3] # b PROVE FALSE
      OBVIOUS
    <3>1. \A l \in B!Branches : l = b \/ l = x[3]
      BY <2>5 DEF B!Branches
    <3>2. \A y \in B!EdgesOf(c, v) : m \in After(G, y[2])
      <4> SUFFICES ASSUME NEW y \in B!EdgesOf(c, v) PROVE m \in After(G, y[2])
        OBVIOUS
      <4>1. y[3] \in B!Branches /\ y[2] = Leads(c, v, y[3])
        BY <1>1, BlockEdges
      <4> QED BY <2>5, <3>1, <4>1 DEF w
    <3>3. ASSUME NEW y \in B!EdgesOf(c, v), y[2] = v PROVE FALSE
      BY <1>5, <3>2, <3>3
    <3>4. ASSUME NEW y \in G.edges, y[1] = v PROVE m \in After(G, y[2])
      <4>1. y \in B!CFG(c).edges
        BY <1>1, <3>4, CodeHolds, WholeIs
      <4>2. v # B!Entry /\ B!EdgesOf(c, v) # {}
        BY <1>1, <1>2, CfgIs
      <4>3. y \in B!EdgesOf(c, v)
        BY <1>1, <3>3, <3>4, <4>1, <4>2, CfgIs
      <4> QED BY <3>2, <4>3
    <3> QED BY <1>1, <1>5, <2>2, <3>4, AfterIs
  <2> QED BY <1>1, <2>3, <2>6, StepDown
<1> QED BY <1>4, <1>5

StepsInv ==
  /\ GraphInv
  /\ at # B!Outside => at \in DOMAIN bCode /\ Ready(bCode, meta.cdg, taken, at)
  /\ handlers \in Seq({h \in DOMAIN bCode : Ready(bCode, meta.cdg, taken, h)})
  /\ \A p \in meta.predicates : bTrace.count[p] > 0 => Active(bCode, meta.cdg, taken, p)
  /\ imported # << >> =>
       \A p \in meta.predicates :
         imported[1].trace.count[p] > 0 => Active(bCode, meta.cdg, imported[1].taken, p)

LEMMA StepsInit == B!Init => StepsInv
<1> SUFFICES ASSUME B!Init PROVE StepsInv
  OBVIOUS
<1>1. at = B!Outside /\ handlers = << >> /\ bTrace = B!Empty /\ imported = << >>
  BY DEF B!Init
<1>2. \A p \in meta.predicates : bTrace.count[p] = 0
  BY <1>1 DEF B!Empty
<1> QED BY <1>1, <1>2, GraphInit DEF StepsInv

LEMMA StepsNext == FitnessInv /\ StepsInv /\ B!Next => StepsInv'
<1> SUFFICES ASSUME FitnessInv, StepsInv, B!Next PROVE StepsInv'
  OBVIOUS
<1> DEFINE c == bCode
           cdg == meta.cdg
           P == meta.predicates
           Good(X) == {h \in DOMAIN c : Ready(c, cdg, X, h)}
           Known(t, X) == \A p \in P : t.count[p] > 0 => Active(c, cdg, X, p)
<1>1. bCode' = bCode /\ meta' = meta
  BY DEF B!Next, B!Enter, B!Branch, B!Move, B!Raise, B!Return, B!StoreImportTrace, B!EndTest,
         B!Finished, B!vars
<1>2. /\ GraphInv /\ IsCode(c) /\ cdg \in B!ControlDependenceGraphs(c)
      /\ P = {n \in DOMAIN c : c[n].kind = "cond"} /\ c \in MCCodes
  BY PredicatesAre DEF StepsInv, GraphInv, IsCode, IsRunnable
<1>3. GraphInv'
  BY <1>1, <1>2 DEF GraphInv
<1>4. /\ at # B!Outside => at \in Good(taken)
      /\ handlers \in Seq(Good(taken))
      /\ Known(bTrace, taken)
      /\ imported # << >> => Known(imported[1].trace, imported[1].taken)
  BY DEF StepsInv
<1>5. /\ bTrace.count \in [P -> Nat]
      /\ imported # << >> => imported[1].trace.count \in [P -> Nat]
  BY DEF FitnessInv, TraceIsRight, Traces
<1>6. ASSUME at' # B!Outside => at' \in Good(taken'), handlers' \in Seq(Good(taken')),
             Known(bTrace', taken'),
             imported' # << >> => Known(imported'[1].trace, imported'[1].taken)
      PROVE  StepsInv'
  BY <1>1, <1>3, <1>6 DEF StepsInv
<1> HIDE DEF Good, Known
<1>7. CASE B!Enter
  <2>1. /\ at' = 0 /\ handlers' = << >> /\ bTrace' = [bTrace EXCEPT !.entered = TRUE]
        /\ taken \subseteq taken' /\ imported' = imported
    BY <1>7 DEF B!Enter
  <2>2. 0 \in Good(taken')
    <3>1. 0 \in DOMAIN c
      BY <1>2, CfgIs DEF IsCode
    <3> QED BY <1>2, <3>1, Begun DEF Good
  <2>3. Known(bTrace', taken')
    <3>1. bTrace'.count = bTrace.count
      BY <2>1 DEF FitnessInv, TraceIsRight, Traces
    <3> QED BY <1>4, <2>1, <3>1, ActiveGrows DEF Known
  <2> QED BY <1>4, <1>6, <2>1, <2>2, <2>3
<1>8. CASE B!Branch
  <2>1. at # B!Outside /\ at \in P
    BY <1>2, <1>8 DEF B!Branch, B!Inside, B!IsPredicate
  <2>2. PICK b \in B!Branches, d \in MCDistances :
             /\ bTrace' = B!UpdateDistances(bTrace, at, b, d)
             /\ taken' = taken \cup {<<at, b>>}
             /\ at' = Leads(c, at, b)
    BY <1>8 DEF B!Branch, Leads
  <2>3. handlers' = handlers /\ imported' = imported
    BY <1>8 DEF B!Branch
  <2>4. at \in DOMAIN c /\ c[at].kind = "cond" /\ Ready(c, cdg, taken, at)
    BY <1>2, <1>4, <2>1 DEF Good
  <2>5. at' \in Good(taken')
    <3>1. taken \subseteq taken' /\ <<at, b>> \in taken' /\ at' = Leads(c, at, b)
      BY <2>2
    <3> DEFINE X == taken
               Y == taken'
               v == at
    <3>2. /\ X \subseteq Y /\ <<v, b>> \in Y /\ v \in DOMAIN c /\ c[v].kind = "cond"
          /\ Ready(c, cdg, X, v)
      BY <2>4, <3>1
    <3> HIDE DEF X, Y, v
    <3>3. Leads(c, v, b) \in DOMAIN c /\ Ready(c, cdg, Y, Leads(c, v, b))
      BY <1>2, <3>2, Branched
    <3> QED BY <3>1, <3>3 DEF Good, Y, v
  <2>6. handlers' \in Seq(Good(taken'))
    <3>1. Good(taken) \subseteq Good(taken')
      BY <2>2, ReadyGrows DEF Good
    <3> QED BY <1>4, <2>3, <3>1
  <2>7. Known(bTrace', taken')
    <3>1. \A p \in P : p # at => bTrace'.count[p] = bTrace.count[p]
      <4>1. bTrace'.count = [bTrace.count EXCEPT ![at] = @ + 1]
        BY <2>2 DEF B!UpdateDistances, FitnessInv, TraceIsRight, Traces
      <4> QED BY <1>5, <4>1
    <3>2. Active(c, cdg, taken, at)
      <4>1. at \in After(Whole(c), at) \ {B!Exit}
        BY <1>2, <2>4, CodeHolds, AfterIs
      <4> QED BY <2>4, <4>1 DEF Ready
    <3> QED BY <1>4, <2>2, <3>1, <3>2, ActiveGrows DEF Known
  <2> QED BY <1>4, <1>6, <2>3, <2>5, <2>6, <2>7
<1>9. CASE B!Move
  <2>1. /\ at # B!Outside /\ c[at].kind \in {"setup", "jump", "fall"}
        /\ at' = IF c[at].kind = "jump" THEN c[at].target ELSE at + 1
        /\ bTrace' = bTrace /\ imported' = imported /\ taken' = taken
        /\ \/ c[at].kind = "setup" /\ handlers' = <<c[at].target>> \o handlers
           \/ handlers' = handlers
           \/ handlers # << >> /\ handlers' = Tail(handlers)
    BY <1>9 DEF B!Move, B!Inside
  <2>2. at \in DOMAIN c /\ Ready(c, cdg, taken, at)
    BY <1>4, <2>1 DEF Good
  <2>3. \A e \in B!EdgesOf(c, at) : e[2] \in Good(taken)
    BY <1>2, <2>1, <2>2, Passed DEF Good
  <2>4. /\ c[at].kind \in {"setup", "fall"} => \E e \in B!EdgesOf(c, at) : e[2] = at + 1
        /\ c[at].kind \in {"setup", "jump"} => \E e \in B!EdgesOf(c, at) : e[2] = c[at].target
    BY <1>2, <2>2, BlockEdges
  <2>5. at' \in Good(taken)
    BY <2>1, <2>3, <2>4
  <2>6. c[at].kind = "setup" => c[at].target \in Good(taken)
    BY <2>3, <2>4
  <2>7. handlers' \in Seq(Good(taken))
    <3> DEFINE target == c[at].target
    <3> HIDE DEF target
    <3>1. handlers \in Seq(Good(taken)) /\ (c[at].kind = "setup" => target \in Good(taken))
      BY <1>4, <2>6 DEF target
    <3>2. \/ c[at].kind = "setup" /\ handlers' = <<target>> \o handlers
          \/ handlers' = handlers
          \/ handlers # << >> /\ handlers' = Tail(handlers)
      BY <2>1 DEF target
    <3>3. CASE c[at].kind = "setup" /\ handlers' = <<target>> \o handlers
      <4>1. <<target>> \in Seq(Good(taken))
        BY <3>1, <3>3
      <4> QED BY <3>1, <3>3, <4>1, ConcatProperties
    <3>4. CASE handlers # << >> /\ handlers' = Tail(handlers)
      BY <3>1, <3>4
    <3> QED BY <3>1, <3>2, <3>3, <3>4
  <2> QED BY <1>4, <1>6, <2>1, <2>5, <2>7
<1>10. CASE B!Raise
  <2>1. /\ bTrace' = bTrace /\ imported' = imported /\ taken' = taken
        /\ \/ handlers # << >> /\ at' = Head(handlers) /\ handlers' = Tail(handlers)
           \/ at' = B!Outside /\ handlers' = handlers
    BY <1>10 DEF B!Raise
  <2>2. handlers # << >> => Head(handlers) \in Good(taken) /\ Tail(handlers) \in Seq(Good(taken))
    BY <1>4
  <2> QED BY <1>4, <1>6, <2>1, <2>2
<1>11. CASE B!Return
  <2>1. /\ bTrace' = bTrace /\ imported' = imported /\ taken' = taken
        /\ at' = B!Outside /\ handlers' = << >>
    BY <1>11 DEF B!Return
  <2> QED BY <1>4, <1>6, <2>1
<1>12. CASE B!StoreImportTrace
  <2>1. /\ imported' = <<[trace |-> bTrace, taken |-> taken, near |-> near]>>
        /\ bTrace' = bTrace /\ taken' = taken /\ at' = at /\ handlers' = handlers
    BY <1>12 DEF B!StoreImportTrace
  <2>2. imported'[1].trace = bTrace /\ imported'[1].taken = taken
    BY <2>1
  <2> QED BY <1>4, <1>6, <2>1, <2>2
<1>13. CASE B!EndTest
  <2>1. /\ imported # << >> /\ imported' = imported /\ at' = B!Outside /\ handlers' = << >>
        /\ bTrace' = imported[1].trace /\ taken' = imported[1].taken
    BY <1>13 DEF B!EndTest
  <2> QED BY <1>4, <1>6, <2>1
<1>14. CASE B!Finished
  <2>1. /\ bTrace' = bTrace /\ imported' = imported /\ taken' = taken
        /\ at' = at /\ handlers' = handlers
    BY <1>14 DEF B!Finished, B!vars
  <2> QED BY <1>4, <1>6, <2>1
<1> QED BY <1>7, <1>8, <1>9, <1>10, <1>11, <1>12, <1>13, <1>14 DEF B!Next

LEMMA ActivatedAre == FitnessInv /\ StepsInv => B!ExecutedMeansActivated
<1> SUFFICES ASSUME FitnessInv, StepsInv, NEW p \in meta.predicates, bTrace.count[p] > 0,
                    NEW g \in B!ControlDependencies(meta.cdg, p), g \in taken
             PROVE  B!IsCovered(bTrace, g)
  BY DEF B!ExecutedMeansActivated, StepsInv, Active
<1>1. TraceIsRight(meta.predicates, bTrace, taken) /\ ~B!BranchLess
  BY DEF FitnessInv, B!BranchLess
<1>2. PICK q \in meta.predicates, b \in B!Branches : g = <<q, b>>
  BY <1>1 DEF TraceIsRight, GoalsFor
<1>3. bTrace.distance[g] = 0
  BY <1>1, <1>2 DEF TraceIsRight
<1>4. bTrace.count[q] \in Nat /\ bTrace.count[q] # 0
  <2>1. bTrace.count[q] = 0 => bTrace.distance[<<q, b>>] = B!Inf
    BY <1>1, <1>2 DEF TraceIsRight
  <2>2. bTrace.count[q] \in Nat
    BY <1>1, <1>2 DEF TraceIsRight, Traces
  <2> QED BY <1>2, <1>3, <2>1, <2>2 DEF B!Inf
<1> QED BY <1>1, <1>2, <1>3, <1>4, UnitsType DEF B!IsCovered, B!Inf

GraphIsRight == component = "branches" => FitnessInv /\ StepsInv

LEMMA GraphIsAlwaysRight == MCSpec => []GraphIsRight
<1>1. MCInit => GraphIsRight
  BY FitnessInit, StepsInit DEF MCInit, GraphIsRight
<1>2. GraphIsRight /\ [MCNext]_allVars => GraphIsRight'
  <2> SUFFICES ASSUME GraphIsRight, [MCNext]_allVars, component' = "branches"
               PROVE  FitnessInv' /\ StepsInv'
    BY DEF GraphIsRight
  <2>1. component = "branches"
    BY DEF MCNext, SlicerStep, BranchesStep, DistancesStep, InstrumentationStep, allVars
  <2>2. FitnessInv /\ StepsInv
    BY <2>1 DEF GraphIsRight
  <2>3. CASE BranchesStep
    BY <2>2, <2>3, FitnessNext, StepsNext DEF BranchesStep
  <2>4. CASE ~BranchesStep
    <3>1. UNCHANGED bVars
      BY <2>4 DEF MCNext, SlicerStep, DistancesStep, InstrumentationStep, allVars
    <3>2. /\ bCode' = bCode /\ meta' = meta /\ at' = at /\ handlers' = handlers
          /\ bTrace' = bTrace /\ imported' = imported /\ results' = results /\ taken' = taken
          /\ near' = near
      BY <3>1 DEF bVars
    <3> QED BY <2>2, <3>2 DEF FitnessInv, MetaIsRight, StepsInv, GraphInv
  <2> QED BY <2>3, <2>4
<1> QED BY <1>1, <1>2, PTL DEF MCSpec, MCNext

(* The control-dependence graph is the relation of the definition, for every code   *)
(* object from which the exit is reached everywhere: the post-dominator tree and    *)
(* the least common ancestors neither lose nor invent a dependence.                *)
THEOREM DependencesAreAlwaysRight == MCSpec => []DependencesAreRight
<1>1. GraphIsRight => DependencesAreRight
  BY DependencesAre DEF GraphIsRight, DependencesAreRight, StepsInv
<1> QED BY <1>1, GraphIsAlwaysRight, PTL

(* DynaMOSA comes to every goal, and to the goals of a predicate not later than a   *)
(* test executes it, whatever exceptions the test took.                            *)
THEOREM GoalsAreAlwaysActivated == MCSpec => []GoalsAreActivated
<1>1. GraphIsRight => GoalsAreActivated
  BY RootedAre, ActivatedAre DEF GraphIsRight, GoalsAreActivated, B!GoalsAreActivated, StepsInv
<1> QED BY <1>1, GraphIsAlwaysRight, PTL

=================================================================================
