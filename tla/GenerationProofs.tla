--------------------------- MODULE GenerationProofs ---------------------------
(* Proofs about the test cluster, the guesses of types, the mutants and the        *)
(* assertions, for all modules under test, types, uses, mutations, tests and       *)
(* executions, as parts of MCGeneration.                                           *)
EXTENDS MCGeneration, FiniteSetTheorems, WellFoundedInduction, TLAPS

MCNext == ClusterStep \/ SignaturesStep \/ MutantsStep \/ AssertionsStep

--------------------------------------------------------------------------------
(* Tools.                                                                          *)

LEMMA SameCardinality == ASSUME NEW Z PROVE C!Cardinality(Z) = Cardinality(Z)
BY DEF C!Cardinality, Cardinality

LEMMA SameFinite == ASSUME NEW Z PROVE C!IsFiniteSet(Z) <=> IsFiniteSet(Z)
BY DEF C!IsFiniteSet, IsFiniteSet

(* The elements of a finite set, one after the other.                              *)
LEMMA SequenceOfSet ==
  ASSUME NEW Z, IsFiniteSet(Z)
  PROVE  C!SetToSeq(Z) \in Seq(Z)
<1>1. Cardinality(Z) \in Nat /\ ExistsBijection(1 .. Cardinality(Z), Z)
  BY FS_CardinalityType
<1>2. PICK f \in [1 .. Cardinality(Z) -> Z] : \A a, b \in 1 .. Cardinality(Z) : f[a] = f[b] => a = b
  BY <1>1 DEF ExistsBijection, Bijection, Injection, IsInjective
<1>3. C!IsInjective(f)
  BY <1>2 DEF C!IsInjective
<1>4. C!SetToSeq(Z) \in [1 .. Cardinality(Z) -> Z]
  BY <1>2, <1>3, SameCardinality DEF C!SetToSeq
<1> QED BY <1>1, <1>4

LEMMA HeadAndTail ==
  ASSUME NEW K, NEW s \in Seq(K), s # << >>
  PROVE  Head(s) \in K /\ Tail(s) \in Seq(K)
OBVIOUS

LEMMA JoinedIsSequence ==
  ASSUME NEW K, NEW s \in Seq(K), NEW t \in Seq(K)
  PROVE  s \o t \in Seq(K)
OBVIOUS

LEMMA ImageIsFinite ==
  ASSUME NEW Z, IsFiniteSet(Z), NEW f, DOMAIN f = Z
  PROVE  IsFiniteSet({f[x] : x \in Z})
<1> DEFINE T == {f[x] : x \in Z}
           g == [x \in Z |-> f[x]]
<1>1. g \in Surjection(Z, T)
  BY DEF Surjection
<1> HIDE DEF T, g
<1>2. IsFiniteSet(T)
  BY <1>1, FS_Surjection
<1> QED BY <1>2 DEF T

LEMMA LeastExists ==
  ASSUME NEW T, T \subseteq Nat, T # {}
  PROVE  \E x \in T : \A y \in T : x <= y
<1> DEFINE R == OpToRel(<, Nat)
<1>1. IsWellFoundedOn(R, Nat)
  BY NatLessThanWellFounded
<1>2. R = {p \in Nat \X Nat : p[1] < p[2]}
  BY DEF OpToRel
<1> HIDE DEF R
<1>3. PICK x \in T : \A y \in T : <<y, x>> \notin R
  BY <1>1, WFMin
<1>4. ASSUME NEW y \in T PROVE x <= y
  <2>1. y \in Nat /\ x \in Nat
    OBVIOUS
  <2>2. y < x => <<y, x>> \in R
    BY <1>2, <2>1
  <2> QED BY <1>3, <2>1, <2>2
<1> QED BY <1>4

(* What holds of a number when it holds of all smaller ones holds of all.          *)
LEMMA AllUpTo ==
  ASSUME NEW m \in Nat, NEW T, T \subseteq 0 .. m,
         \A n \in 0 .. m : (\A k \in 0 .. m : k < n => k \in T) => n \in T
  PROVE  T = 0 .. m
<1> SUFFICES ASSUME T # 0 .. m PROVE FALSE
  OBVIOUS
<1> DEFINE Others == (0 .. m) \ T
<1>1. Others \subseteq Nat /\ Others # {}
  <2>1. Others \subseteq Nat
    OBVIOUS
  <2>2. PICK x : ~(x \in T <=> x \in 0 .. m)
    OBVIOUS
  <2>3. x \in Others
    BY <2>2
  <2> QED BY <2>1, <2>3
<1>2. PICK n \in Others : \A k \in Others : n <= k
  BY <1>1, LeastExists
<1>3. \A k \in 0 .. m : k < n => k \in T
  <2> SUFFICES ASSUME NEW k \in 0 .. m, k < n, k \notin T PROVE FALSE
    OBVIOUS
  <2>1. k \in Others /\ n \in 0 .. m
    BY <1>2
  <2>2. n <= k
    BY <1>2, <2>1
  <2> QED BY <2>1, <2>2
<1>4. n \in 0 .. m /\ n \notin T
  BY <1>2
<1> HIDE DEF Others
<1> QED BY <1>3, <1>4

Recurs(f, m, Z, start, next) ==
  /\ f \in [0 .. m -> Z] /\ f[0] = start
  /\ \A k \in 1 .. m : f[k] = next[<<f[k - 1], k>>]

LEMMA RecursionFromExists ==
  ASSUME NEW m \in Nat, NEW Z, NEW start \in Z, NEW next \in [Z \X (1 .. m) -> Z]
  PROVE  \E f : Recurs(f, m, Z, start, next)
<1> DEFINE Good(f, n) == Recurs(f, n, Z, start, next)
           T == {n \in 0 .. m : \E f : Good(f, n)}
<1>1. ASSUME NEW n \in 0 .. m, \A k \in 0 .. m : k < n => k \in T
      PROVE  n \in T
  <2>1. CASE n = 0
    <3>1. Good([k \in 0 .. 0 |-> start], 0)
      BY DEF Recurs
    <3> QED BY <2>1, <3>1
  <2>2. CASE n # 0
    <3>1. n - 1 \in 0 .. m /\ n - 1 < n /\ n \in 1 .. m
      BY <2>2
    <3>2. PICK f : Good(f, n - 1)
      BY <1>1, <3>1
    <3> DEFINE v == next[<<f[n - 1], n>>]
               g == [k \in 0 .. n |-> IF k = n THEN v ELSE f[k]]
    <3>3. v \in Z
      <4>1. f[n - 1] \in Z
        BY <3>1, <3>2 DEF Recurs
      <4>2. <<f[n - 1], n>> \in Z \X (1 .. m)
        BY <3>1, <4>1
      <4> QED BY <4>2
    <3> HIDE DEF v
    <3>4. \A k \in 0 .. n - 1 : k \in 0 .. n /\ k # n /\ g[k] = f[k] /\ f[k] \in Z
      BY <3>1, <3>2 DEF Recurs
    <3>5. g \in [0 .. n -> Z]
      <4>1. \A k \in 0 .. n : k = n \/ k \in 0 .. n - 1
        BY <3>1
      <4> QED BY <3>3, <3>4, <4>1
    <3>6. g[0] = start
      BY <3>1, <3>2, <3>4 DEF Recurs
    <3>7. ASSUME NEW k \in 1 .. n PROVE g[k] = next[<<g[k - 1], k>>]
      <4>1. k - 1 \in 0 .. n - 1 /\ g[k - 1] = f[k - 1]
        BY <3>1, <3>4
      <4>2. CASE k = n
        BY <4>1, <4>2 DEF v
      <4>3. CASE k # n
        <5>1. k \in 1 .. n - 1 /\ k \in 0 .. n - 1
          BY <3>1, <4>3
        <5> QED BY <3>2, <3>4, <4>1, <5>1 DEF Recurs
      <4> QED BY <4>2, <4>3
    <3> HIDE DEF g
    <3>8. Good(g, n)
      BY <3>5, <3>6, <3>7 DEF Recurs
    <3> QED BY <3>8
  <2> QED BY <2>1, <2>2
<1>2. T = 0 .. m
  BY <1>1, AllUpTo
<1>3. PICK f : Good(f, m)
  BY <1>2
<1> QED BY <1>3

(* What flattening leaves.                                                         *)
LEMMA FlattenIs ==
  ASSUME NEW K, NEW ss \in Seq(Seq(K)), NEW flat, flat = FlattenSeq(ss)
  PROVE  /\ flat \in Seq(K)
         /\ \A x : x \in ToSet(flat) <=> \E k \in DOMAIN ss : x \in ToSet(ss[k])
<1> DEFINE m == Len(ss)
           Body(f, i) == IF i = 1 THEN ss[i] ELSE f[i - 1] \o ss[i]
           Flattens(f) == f = [i \in 1 .. m |-> Body(f, i)]
<1>1. m \in Nat /\ DOMAIN ss = 1 .. m
  OBVIOUS
<1>2. CASE m = 0
  <2>1. ss = << >> /\ flat = << >>
    BY <1>2 DEF FlattenSeq
  <2>2. << >> \in Seq(K) /\ DOMAIN << >> = {}
    OBVIOUS
  <2>3. ToSet(flat) = {}
    BY <2>1, <2>2 DEF ToSet
  <2> QED BY <2>1, <2>2, <2>3
<1>3. CASE m # 0
  <2> DEFINE Z == Seq(K)
             next == [u \in Z \X (1 .. m) |-> u[1] \o ss[u[2]]]
  <2>1. next \in [Z \X (1 .. m) -> Z] /\ << >> \in Z
    <3>1. ASSUME NEW u \in Z \X (1 .. m) PROVE u[1] \o ss[u[2]] \in Z
      <4>1. u[1] \in Seq(K) /\ ss[u[2]] \in Seq(K)
        OBVIOUS
      <4> QED BY <4>1
    <3> QED BY <3>1
  <2>2. \A z \in Z, k \in 1 .. m : next[<<z, k>>] = z \o ss[k]
    OBVIOUS
  <2> HIDE DEF next
  <2>3. PICK f : Recurs(f, m, Z, << >>, next)
    <3> HIDE DEF Z
    <3> QED BY <1>1, <2>1, RecursionFromExists, Zenon
  <2>4. f[0] = << >> /\ \A k \in 1 .. m : f[k - 1] \in Z /\ f[k] = f[k - 1] \o ss[k]
    <3>1. \A k \in 1 .. m : k - 1 \in 0 .. m
      BY <1>1
    <3> QED BY <2>2, <2>3, <3>1 DEF Recurs
  <2> DEFINE g == [i \in 1 .. m |-> f[i]]
  <2>5. ASSUME NEW i \in 1 .. m PROVE g[i] = Body(g, i)
    <3>1. CASE i = 1
      <4>1. f[1] = << >> \o ss[1] /\ ss[1] \in Seq(K)
        <5>1. 1 \in 1 .. m /\ 1 - 1 = 0
          BY <1>1, <1>3
        <5>2. f[1] = f[1 - 1] \o ss[1] /\ ss[1] \in Seq(K)
          BY <1>1, <2>4, <5>1
        <5> QED BY <2>4, <5>1, <5>2
      <4>2. f[1] = ss[1]
        BY <4>1
      <4> QED BY <3>1, <4>2
    <3>2. CASE i # 1
      <4>1. i - 1 \in 1 .. m
        BY <3>2
      <4> QED BY <2>4, <3>2, <4>1
    <3> QED BY <3>1, <3>2
  <2>6. g = [i \in 1 .. m |-> g[i]]
    OBVIOUS
  <2>7. Flattens(g)
    <3> HIDE DEF g, Body
    <3> QED BY <2>5, <2>6
  <2> DEFINE h == CHOOSE h : Flattens(h)
  <2>8. Flattens(h)
    <3> HIDE DEF Flattens
    <3> QED BY <2>7
  <2>9. flat = h[m]
    BY <1>3 DEF FlattenSeq
  <2>10. \A i \in 1 .. m : h[i] = Body(h, i)
    <3> HIDE DEF h, Body
    <3> QED BY <2>8
  <2> HIDE DEF h, g
  <2> DEFINE Good(i) == /\ h[i] \in Seq(K)
                        /\ \A x : x \in ToSet(h[i]) <=> \E k \in 1 .. i : x \in ToSet(ss[k])
             T == {i \in 0 .. m : i # 0 => Good(i)}
  <2>11. ASSUME NEW i \in 0 .. m, \A k \in 0 .. m : k < i => k \in T, i # 0
         PROVE  Good(i)
    <3>1. i \in 1 .. m /\ ss[i] \in Seq(K)
      BY <1>1, <2>11
    <3>2. CASE i = 1
      <4>1. h[1] = ss[1] /\ \A k \in 1 .. 1 : k = 1
        BY <2>10, <3>1, <3>2
      <4> QED BY <3>1, <3>2, <4>1
    <3>3. CASE i # 1
      <4>1. i - 1 \in 0 .. m /\ i - 1 < i /\ i - 1 # 0
        BY <3>1, <3>3
      <4>2. Good(i - 1)
        BY <2>11, <4>1
      <4>3. h[i] = h[i - 1] \o ss[i]
        BY <2>10, <3>1, <3>3
      <4>4. h[i] \in Seq(K)
        BY <3>1, <4>2, <4>3
      <4>5. \A x : x \in ToSet(h[i]) <=> x \in ToSet(h[i - 1]) \/ x \in ToSet(ss[i])
        <5> DEFINE p == h[i - 1]
                   q == ss[i]
        <5>1. p \in Seq(K) /\ q \in Seq(K) /\ h[i] = p \o q
          BY <3>1, <4>2, <4>3
        <5> HIDE DEF p, q
        <5>2. /\ DOMAIN (p \o q) = 1 .. Len(p) + Len(q)
              /\ \A k \in 1 .. Len(p) : (p \o q)[k] = p[k]
              /\ \A k \in 1 .. Len(q) : (p \o q)[Len(p) + k] = q[k]
          BY <5>1
        <5>3. \A k \in 1 .. Len(p) + Len(q) : k \in 1 .. Len(p) \/ k - Len(p) \in 1 .. Len(q)
          BY <5>1
        <5>4. ASSUME NEW k \in 1 .. Len(p) + Len(q)
              PROVE  (p \o q)[k] \in ToSet(p) \cup ToSet(q)
          <6>1. CASE k \in 1 .. Len(p)
            BY <5>1, <5>2, <6>1 DEF ToSet
          <6>2. CASE k - Len(p) \in 1 .. Len(q)
            <7>1. (p \o q)[Len(p) + (k - Len(p))] = q[k - Len(p)] /\ Len(p) + (k - Len(p)) = k
              BY <5>1, <5>2, <6>2
            <7> QED BY <5>1, <6>2, <7>1 DEF ToSet
          <6> QED BY <5>3, <6>1, <6>2
        <5>5. ASSUME NEW k \in 1 .. Len(p) PROVE p[k] \in ToSet(p \o q)
          <6>1. k \in 1 .. Len(p) + Len(q)
            BY <5>1
          <6> QED BY <5>2, <6>1 DEF ToSet
        <5>6. ASSUME NEW k \in 1 .. Len(q) PROVE q[k] \in ToSet(p \o q)
          <6>1. Len(p) + k \in 1 .. Len(p) + Len(q)
            BY <5>1
          <6> QED BY <5>2, <6>1 DEF ToSet
        <5>7. DOMAIN p = 1 .. Len(p) /\ DOMAIN q = 1 .. Len(q)
          BY <5>1
        <5>8. \A x : x \in ToSet(p \o q) <=> x \in ToSet(p) \/ x \in ToSet(q)
          BY <5>2, <5>4, <5>5, <5>6, <5>7 DEF ToSet
        <5> QED BY <5>1, <5>8 DEF p, q
      <4>6. \A k \in 1 .. i : k \in 1 .. i - 1 \/ k = i
        BY <3>1
      <4>7. \A k \in 1 .. i - 1 : k \in 1 .. i
        BY <3>1
      <4>8. i \in 1 .. i
        BY <3>1
      <4> QED BY <4>2, <4>4, <4>5, <4>6, <4>7, <4>8
    <3> QED BY <3>2, <3>3
  <2> HIDE DEF Good
  <2>12. \A n \in 0 .. m : (\A k \in 0 .. m : k < n => k \in T) => n \in T
    BY <2>11
  <2>13. T = 0 .. m
    <3> HIDE DEF T
    <3>1. T \subseteq 0 .. m
      BY DEF T
    <3> QED BY <1>1, <2>12, <3>1, AllUpTo
  <2>14. Good(m)
    BY <1>1, <1>3, <2>13
  <2> QED BY <1>1, <2>9, <2>14 DEF Good
<1> QED BY <1>2, <1>3

LEMMA AmongIs ==
  ASSUME NEW K, NEW s \in Seq(K), NEW T
  PROVE  Among(s, T) \in Seq(K) /\ ToSet(Among(s, T)) = ToSet(s) \cap T
<1> DEFINE ss == [k \in DOMAIN s |-> IF s[k] \in T THEN <<s[k]>> ELSE << >>]
<1>1. ss \in Seq(Seq(K)) /\ DOMAIN ss = DOMAIN s
  <2>1. \A k \in DOMAIN s : s[k] \in K /\ (IF s[k] \in T THEN <<s[k]>> ELSE << >>) \in Seq(K)
    OBVIOUS
  <2>2. DOMAIN s = 1 .. Len(s) /\ Len(s) \in Nat
    OBVIOUS
  <2> QED BY <2>1, <2>2
<1>2. \A k \in DOMAIN s : ToSet(ss[k]) = IF s[k] \in T THEN {s[k]} ELSE {}
  BY DEF ToSet
<1>3. Among(s, T) = FlattenSeq(ss)
  BY DEF Among
<1> HIDE DEF ss
<1>4. /\ Among(s, T) \in Seq(K)
      /\ \A x : x \in ToSet(Among(s, T)) <=> \E k \in DOMAIN ss : x \in ToSet(ss[k])
  BY <1>1, <1>3, FlattenIs
<1>5. \A x : x \in ToSet(s) <=> \E k \in DOMAIN s : x = s[k]
  BY DEF ToSet
<1> QED BY <1>1, <1>2, <1>4, <1>5

LEMMA SameAmong == ASSUME NEW s, NEW T PROVE C!Among(s, T) = Among(s, T) /\ C!ToSet(s) = ToSet(s)
BY DEF C!Among, Among, C!FlattenSeq, FlattenSeq, C!ToSet, ToSet

(* A function may be defined from its values for containing code objects.          *)
Nests(f, m, P, here, stop) ==
  /\ f = [n \in 0 .. m |-> f[n]]
  /\ \A n \in 0 .. m :
       f[n] = IF n = 0 THEN {} ELSE IF n \in stop THEN here[n] ELSE here[n] \cup f[P[n]]

LEMMA RecursionExists ==
  ASSUME NEW m \in Nat, NEW P, \A n \in 1 .. m : P[n] \in Nat /\ P[n] < n,
         NEW here, NEW stop
  PROVE  \E f : Nests(f, m, P, here, stop)
<1> DEFINE Body(f, n) == IF n = 0 THEN {}
                         ELSE IF n \in stop THEN here[n] ELSE here[n] \cup f[P[n]]
           Good(f, k) == f = [n \in 0 .. k |-> Body(f, n)]
           T == {k \in 0 .. m : \E f : Good(f, k)}
<1>1. ASSUME NEW k \in 0 .. m, \A j \in 0 .. m : j < k => j \in T
      PROVE  k \in T
  <2>1. CASE k = 0
    <3>1. Good([n \in {0} |-> {}], 0)
      OBVIOUS
    <3> QED BY <2>1, <3>1
  <2>2. CASE k # 0
    <3>1. k - 1 \in 0 .. m /\ k - 1 < k
      BY <2>2
    <3>2. PICK f : Good(f, k - 1)
      BY <1>1, <3>1
    <3> DEFINE g == [n \in 0 .. k |-> IF n = k THEN Body(f, k) ELSE f[n]]
    <3>3. ASSUME NEW n \in 0 .. k PROVE g[n] = Body(g, n)
      <4>1. n # 0 => P[n] \in 0 .. k - 1 /\ P[n] # k
        <5>1. n # 0 => n \in 1 .. m /\ n <= k
          OBVIOUS
        <5> QED BY <2>2, <3>1, <5>1
      <4>2. n # 0 => g[P[n]] = f[P[n]]
        BY <4>1
      <4>3. Body(g, n) = Body(f, n)
        BY <4>2
      <4>4. CASE n = k
        BY <4>3, <4>4
      <4>5. CASE n # k
        <5>1. n \in 0 .. k - 1
          BY <4>5
        <5>2. f[n] = Body(f, n)
          BY <3>2, <5>1
        <5>3. g[n] = f[n]
          BY <4>5
        <5> QED BY <4>3, <5>2, <5>3
      <4> QED BY <4>4, <4>5
    <3>4. g = [n \in 0 .. k |-> g[n]]
      OBVIOUS
    <3> HIDE DEF g, Body
    <3>5. Good(g, k)
      BY <3>3, <3>4
    <3> QED BY <3>5
  <2> QED BY <2>1, <2>2
<1> HIDE DEF Good
<1>2. T = 0 .. m
  BY <1>1, AllUpTo
<1>3. m \in T
  BY <1>2
<1>4. PICK f : Good(f, m)
  BY <1>3
<1>5. f = [n \in 0 .. m |-> f[n]] /\ \A n \in 0 .. m : f[n] = Body(f, n)
  <2> HIDE DEF Body
  <2> QED BY <1>4 DEF Good
<1>6. Nests(f, m, P, here, stop)
  BY <1>5 DEF Nests
<1> QED BY <1>6

--------------------------------------------------------------------------------
(* Code objects and the objects that are found for them.                           *)

LEMMA NestingStays ==
  ASSUME world' = world, accessible' = accessible
  PROVE  /\ C!Innermost' = C!Innermost /\ C!Around' = C!Around
         /\ \A code : C!ByCode(code)' = C!ByCode(code)
<1>1. C!Around' = C!Around
  BY DEF C!Around, C!Codes, C!World
<1>2. \A code : C!ByCode(code)' = C!ByCode(code)
  BY DEF C!ByCode, C!CodeOf, C!World, C!Class
<1>3. C!Innermost' = C!Innermost
  BY DEF C!Innermost, C!Codes, C!World, C!ByCode, C!CodeOf, C!Class
<1> QED BY <1>1, <1>2, <1>3

LEMMA CodesAre ==
  world \in DOMAIN ClsWorlds =>
    /\ Len(C!World.parents) \in Nat
    /\ DOMAIN C!World.parents = 1 .. Len(C!World.parents)
    /\ \A n \in 1 .. Len(C!World.parents) :
         C!World.parents[n] \in Nat /\ C!World.parents[n] < n
    /\ \A t \in DOMAIN C!World.targets : C!World.targets[t] \in 1 .. Len(C!World.parents)
<1> SUFFICES ASSUME world \in DOMAIN ClsWorlds
             PROVE  /\ Len(C!World.parents) \in Nat
                    /\ DOMAIN C!World.parents = 1 .. Len(C!World.parents)
                    /\ \A n \in 1 .. Len(C!World.parents) :
                         C!World.parents[n] \in Nat /\ C!World.parents[n] < n
                    /\ \A t \in DOMAIN C!World.targets :
                         C!World.targets[t] \in 1 .. Len(C!World.parents)
  OBVIOUS
<1>1. /\ C!World.parents \in Seq(Nat)
      /\ \A code \in DOMAIN C!World.parents : C!World.parents[code] < code
      /\ \A t \in DOMAIN C!World.targets : C!World.targets[t] \in DOMAIN C!World.parents
  BY OtherConstants DEF C!CodesType, C!World
<1> HIDE DEF C!World
<1> QED BY <1>1

LEMMA NestingIs ==
  ASSUME world \in DOMAIN ClsWorlds, NEW code \in C!Codes
  PROVE  /\ C!Around[code] = IF code = 0 THEN {} ELSE {code} \cup C!Around[C!World.parents[code]]
         /\ C!Innermost[code] = IF code = 0 THEN {}
                                ELSE IF C!ByCode(code) # {} THEN C!ByCode(code)
                                ELSE C!Innermost[C!World.parents[code]]
<1> DEFINE m == Len(C!World.parents)
           P == C!World.parents
<1>1. m \in Nat /\ C!Codes = 0 .. m /\ \A n \in 1 .. m : P[n] \in Nat /\ P[n] < n
  BY CodesAre DEF C!Codes
<1> HIDE DEF m, P
<1>2. C!Around = [n \in 0 .. m |-> IF n = 0 THEN {} ELSE {n} \cup C!Around[P[n]]]
  <2> DEFINE stop == {}
             here == [n \in 0 .. m |-> {n}]
             Unfolds(f) == f = [n \in 0 .. m |-> IF n = 0 THEN {} ELSE {n} \cup f[P[n]]]
  <2>1. PICK f : Nests(f, m, P, here, stop)
    <3> HIDE DEF stop, here
    <3>1. m \in Nat /\ \A n \in 1 .. m : P[n] \in Nat /\ P[n] < n
      BY <1>1
    <3> QED BY <3>1, RecursionExists
  <2>2. Unfolds(f)
    BY <2>1 DEF Nests
  <2>3. C!Around = CHOOSE f_1 : Unfolds(f_1)
    BY <1>1 DEF C!Around, P
  <2> HIDE DEF Unfolds
  <2>4. Unfolds(C!Around)
    BY <2>2, <2>3
  <2> QED BY <2>4 DEF Unfolds
<1>3. C!Innermost = [n \in 0 .. m |-> IF n = 0 THEN {} ELSE IF C!ByCode(n) # {} THEN C!ByCode(n)
                                      ELSE C!Innermost[P[n]]]
  <2> DEFINE stop == {n \in 0 .. m : C!ByCode(n) # {}}
             here == [n \in 0 .. m |-> C!ByCode(n)]
             Unfolds(f) == f = [n \in 0 .. m |-> IF n = 0 THEN {}
                             ELSE IF C!ByCode(n) # {} THEN C!ByCode(n) ELSE f[P[n]]]
  <2>1. PICK f : Nests(f, m, P, here, stop)
    <3> HIDE DEF stop, here
    <3>1. m \in Nat /\ \A n \in 1 .. m : P[n] \in Nat /\ P[n] < n
      BY <1>1
    <3> QED BY <3>1, RecursionExists
  <2>2. Unfolds(f)
    <3>1. \A n \in 0 .. m : f[n] = IF n = 0 THEN {} ELSE IF C!ByCode(n) # {} THEN C!ByCode(n)
                                   ELSE f[P[n]]
      BY <2>1 DEF Nests
    <3> QED BY <2>1, <3>1 DEF Nests
  <2>3. C!Innermost = CHOOSE f_1 : Unfolds(f_1)
    BY <1>1 DEF C!Innermost, P
  <2> HIDE DEF Unfolds
  <2>4. Unfolds(C!Innermost)
    BY <2>2, <2>3
  <2> QED BY <2>4 DEF Unfolds
<1> QED BY <1>1, <1>2, <1>3 DEF P

(* An object is found for a code object if there is one for any that contains it.  *)
LEMMA FoundAround ==
  ASSUME world \in DOMAIN ClsWorlds, NEW code \in C!Codes
  PROVE  /\ \A a \in C!Innermost[code] : \E c \in C!Around[code] : a \in C!ByCode(c)
         /\ C!Around[code] \subseteq DOMAIN C!World.parents
         /\ \A c \in C!Around[code] : C!ByCode(c) # {} => C!Innermost[code] # {}
<1> DEFINE m == Len(C!World.parents)
           Found(n) == /\ \A a \in C!Innermost[n] : \E c \in C!Around[n] : a \in C!ByCode(c)
                       /\ C!Around[n] \subseteq 1 .. m
                       /\ \A c \in C!Around[n] : C!ByCode(c) # {} => C!Innermost[n] # {}
           T == {n \in 0 .. m : Found(n)}
<1>1. /\ m \in Nat /\ C!Codes = 0 .. m /\ DOMAIN C!World.parents = 1 .. m
      /\ \A n \in 1 .. m : C!World.parents[n] \in Nat /\ C!World.parents[n] < n
  BY CodesAre DEF C!Codes
<1> HIDE DEF m
<1>2. ASSUME NEW n \in 0 .. m, \A k \in 0 .. m : k < n => k \in T
      PROVE  n \in T
  <2>1. n \in C!Codes
    BY <1>1
  <2>2. CASE n = 0
    BY <2>1, <2>2, NestingIs
  <2>3. CASE n # 0
    <3> DEFINE p == C!World.parents[n]
    <3>1. p \in 0 .. m /\ p < n
      BY <1>1, <2>3
    <3>2. Found(p)
      BY <1>2, <3>1
    <3>3. /\ C!Around[n] = {n} \cup C!Around[p]
          /\ C!Innermost[n] = IF C!ByCode(n) # {} THEN C!ByCode(n) ELSE C!Innermost[p]
      BY <2>1, <2>3, NestingIs
    <3> HIDE DEF p
    <3>4. n \in 1 .. m
      BY <2>3
    <3> QED BY <3>2, <3>3, <3>4
  <2> QED BY <2>2, <2>3
<1> HIDE DEF Found
<1>3. T = 0 .. m
  BY <1>1, <1>2, AllUpTo
<1>4. Found(code)
  BY <1>1, <1>3
<1> QED BY <1>1, <1>4 DEF Found

(* Of the objects with a code object, the last is found.                           *)
LEMMA LastIsFound ==
  ASSUME NEW Z, accessible \in Seq(Z), NEW a \in C!ToSet(accessible), C!CodeOf(a) # 0
  PROVE  C!ByCode(C!CodeOf(a)) # {}
<1> DEFINE code == C!CodeOf(a)
           At == {i \in 1 .. Len(accessible) : C!CodeOf(accessible[i]) = code}
           Back == {Len(accessible) - i : i \in At}
<1>1. Len(accessible) \in Nat /\ DOMAIN accessible = 1 .. Len(accessible)
  OBVIOUS
<1>2. PICK i \in DOMAIN accessible : a = accessible[i]
  BY DEF C!ToSet
<1>3. Back \subseteq Nat /\ Back # {}
  BY <1>1, <1>2
<1>4. PICK x \in Back : \A y \in Back : x <= y
  <2> HIDE DEF Back
  <2> QED BY <1>3, LeastExists
<1>5. PICK k \in At : x = Len(accessible) - k
  BY <1>4
<1>6. \A j \in DOMAIN accessible : C!CodeOf(accessible[j]) = code => j <= k
  <2> SUFFICES ASSUME NEW j \in DOMAIN accessible, C!CodeOf(accessible[j]) = code PROVE j <= k
    OBVIOUS
  <2>1. Len(accessible) - j \in Back
    BY <1>1
  <2>2. Len(accessible) - k <= Len(accessible) - j
    BY <1>4, <1>5, <2>1
  <2> QED BY <1>1, <1>5, <2>2
<1>7. accessible[k] \in C!ByCode(code)
  BY <1>1, <1>5, <1>6 DEF C!ByCode
<1> QED BY <1>7
--------------------------------------------------------------------------------
(* The test cluster.                                                               *)

Objects == {"new", "call"} \X (DOMAIN C!World.classes \cup DOMAIN C!World.callables)

(* What an object is declared to generate.                                         *)
Declared(a) == IF a[1] = "new" THEN C!MakeInstance(a[2]) ELSE C!World.callables[a[2]].returns

AnalysisIsRight ==
  /\ world \in DOMAIN ClsWorlds
  /\ phase \in {"builtins", "modules", "push", "search"}
  /\ accessible \in Seq(Objects)
  /\ phase \in {"builtins", "modules"} =>
       /\ work \in Seq(DOMAIN C!World.classes)
       /\ cWaiting \in Seq(DOMAIN C!World.modules)
       /\ current \in DOMAIN C!World.modules \cup {""}

(* Until the search begins nothing was asked, and objects generate what they are    *)
(* declared to.                                                                    *)
BeforeSearch ==
  phase # "search" =>
    /\ answers = << >> /\ generatable = {}
    /\ \A a \in DOMAIN returns : returns[a] = Declared(a)

(* The index from types to objects is the inverse of the types of the objects.      *)
IsInverse(index, types) ==
  \A g \in DOMAIN index :
     index[g] # {} /\ \A a \in index[g] : a \in DOMAIN types /\ types[a] = g

GeneratorsAreRight == IsInverse(cGenerators, returns)

(* Whatever is found for an uncovered target is offered with it.                    *)
FilterIsRight ==
  phase = "search" =>
    /\ uncovered \subseteq DOMAIN C!World.targets
    /\ DOMAIN targets \subseteq C!ToSet(accessible)
    /\ \A t \in uncovered : \A a \in C!AccessibleOf(t) : a \in DOMAIN targets /\ t \in targets[a]

ClusterInv ==
  /\ AnalysisIsRight /\ BeforeSearch /\ GeneratorsAreRight /\ C!AnswersAreCurrent
  /\ FilterIsRight

(* Classes of a module that are visible are classes of it.                          *)
LEMMA ClassesType ==
  ASSUME world \in DOMAIN ClsWorlds, NEW module \in DOMAIN C!World.modules
  PROVE  /\ C!ClassesOf(module) \in Seq(DOMAIN C!World.classes)
         /\ ToSet(C!ClassesOf(module)) =
              {c \in ToSet(C!World.modules[module].classes) : C!Visible(c)}
<1> DEFINE all == C!World.modules[module].classes
           K == DOMAIN C!World.classes
           T == {c \in K : C!Visible(c)}
<1>1. all \in Seq(K)
  BY OtherConstants DEF C!WorldsType, C!World
<1>2. C!ClassesOf(module) = Among(all, T)
  BY SameAmong DEF C!ClassesOf
<1>3. ToSet(all) \subseteq K
  <2> HIDE DEF all, K
  <2> QED BY <1>1 DEF ToSet
<1>4. ToSet(all) \cap T = {c \in ToSet(all) : C!Visible(c)}
  BY <1>3
<1> HIDE DEF all, K, T
<1>5. Among(all, T) \in Seq(K) /\ ToSet(Among(all, T)) = ToSet(all) \cap T
  BY <1>1, AmongIs
<1> QED BY <1>2, <1>4, <1>5 DEF all, K

Agrees(now, objects, types) == \A a \in objects : a \in DOMAIN now /\ now[a] = types[a]

LEMMA AddedIsInverse ==
  ASSUME NEW index, NEW old, IsInverse(index, old), NEW types, NEW objects, NEW now,
         Agrees(now, DOMAIN old, old), Agrees(now, objects, types)
  PROVE  IsInverse(C!AddGenerators(index, objects, types), now)
<1> DEFINE added == {a \in objects : ~(types[a] = C!NoneT \/ C!IsPrimitive(types[a]))}
           all == [t \in DOMAIN index \cup {types[a] : a \in added} |->
                     (IF t \in DOMAIN index THEN index[t] ELSE {}) \cup {a \in added : types[a] = t}]
<1>1. C!AddGenerators(index, objects, types) = all
  BY DEF C!AddGenerators
<1>2. added \subseteq objects
  OBVIOUS
<1> HIDE DEF added
<1>3. IsInverse(all, now)
  <2> SUFFICES ASSUME NEW g \in DOMAIN all
               PROVE  all[g] # {} /\ \A a \in all[g] : a \in DOMAIN now /\ now[a] = g
    BY DEF IsInverse
  <2>1. all[g] = (IF g \in DOMAIN index THEN index[g] ELSE {}) \cup {a \in added : types[a] = g}
    OBVIOUS
  <2>2. g \in DOMAIN index \/ \E a \in added : types[a] = g
    OBVIOUS
  <2> HIDE DEF all
  <2> QED BY <1>2, <2>1, <2>2 DEF IsInverse, Agrees
<1> QED BY <1>1, <1>3

LEMMA AnalyseClassInv ==
  ASSUME ClusterInv, C!AnalyseClass, UNCHANGED <<answers, generatable>>
  PROVE  AnalysisIsRight' /\ BeforeSearch' /\ GeneratorsAreRight' /\ phase' # "search"
<1> DEFINE c == Head(work)
           methods == {C!Callable(f) : f \in C!MethodsOf(c)}
           new == IF C!Constructs(c) THEN {C!Constructor(c)} ELSE {}
           typed == [a \in methods \cup {C!Constructor(c)} |->
                       IF a = C!Constructor(c) THEN C!MakeInstance(c)
                       ELSE C!World.callables[a[2]].returns]
<1>1. /\ phase \in {"builtins", "modules"} /\ work # << >>
      /\ UNCHANGED <<world, phase, cWaiting, current>>
  BY DEF C!AnalyseClass
<1>2. /\ world \in DOMAIN ClsWorlds /\ accessible \in Seq(Objects)
      /\ work \in Seq(DOMAIN C!World.classes) /\ cWaiting \in Seq(DOMAIN C!World.modules)
      /\ current \in DOMAIN C!World.modules \cup {""}
  BY <1>1 DEF ClusterInv, AnalysisIsRight
<1>3. C!World' = C!World
  BY <1>1 DEF C!World
<1>4. c \in DOMAIN C!World.classes /\ Tail(work) \in Seq(DOMAIN C!World.classes)
  BY <1>1, <1>2, HeadAndTail
<1>5. /\ C!Class(c).bases \in Seq(DOMAIN C!World.classes)
      /\ C!Class(c).methods \subseteq DOMAIN C!World.callables
      /\ IsFiniteSet(C!Class(c).methods)
  BY <1>2, <1>4, OtherConstants, SameFinite DEF C!WorldsType, C!Class, C!World
<1>6. \A a \in DOMAIN returns : returns[a] = Declared(a)
  BY <1>1 DEF ClusterInv, BeforeSearch
<1>7. methods \subseteq Objects /\ new \subseteq Objects
  <2>1. C!MethodsOf(c) \subseteq DOMAIN C!World.callables
    BY <1>5 DEF C!MethodsOf, C!Offered
  <2> QED BY <1>4, <2>1 DEF Objects, C!Callable, C!Constructor
<1>8. IsFiniteSet(methods) /\ IsFiniteSet(new)
  <2>1. IsFiniteSet(C!MethodsOf(c))
    <3>1. C!MethodsOf(c) \subseteq C!Class(c).methods
      BY DEF C!MethodsOf, C!Offered
    <3> QED BY <1>5, <3>1, FS_Subset
  <2>2. IsFiniteSet(methods)
    <3> DEFINE Z == C!MethodsOf(c)
               f == [x \in Z |-> C!Callable(x)]
    <3>1. methods = {f[x] : x \in Z}
      OBVIOUS
    <3>2. IsFiniteSet({f[x] : x \in Z})
      <4> HIDE DEF Z
      <4>1. DOMAIN f = Z
        OBVIOUS
      <4> HIDE DEF f
      <4> QED BY <2>1, <4>1, ImageIsFinite DEF Z
    <3> QED BY <3>1, <3>2
  <2>3. IsFiniteSet(new)
    BY FS_EmptySet, FS_Singleton
  <2> QED BY <2>2, <2>3
<1>9. \A a \in new \cup methods : a \in DOMAIN typed /\ typed[a] = Declared(a)
  BY DEF C!Callable, C!Constructor, Declared
<1> HIDE DEF methods, new, typed
<1>10. CASE c \in seen
  <2>1. work' = Tail(work) /\ UNCHANGED <<cGenerators, returns, accessible>>
    BY <1>10 DEF C!AnalyseClass, C!indexVars
  <2> QED BY <1>1, <1>2, <1>3, <1>4, <2>1
          DEF ClusterInv, AnalysisIsRight, BeforeSearch, GeneratorsAreRight, IsInverse, Declared, Objects
<1>11. CASE c \notin seen
  <2>1. /\ work' = Tail(work) \o C!BasesOf(c)
        /\ returns' = [a \in DOMAIN returns \cup new \cup methods |->
                         IF a \in DOMAIN returns THEN returns[a] ELSE typed[a]]
        /\ cGenerators' = C!AddGenerators(cGenerators, new \cup methods, typed)
        /\ \/ accessible' = accessible \o C!SetToSeq(new) \o C!SetToSeq(methods)
           \/ accessible' = accessible
    BY <1>11 DEF C!AnalyseClass, C!Afterwards, methods, new, typed
  <2>2. work' \in Seq(DOMAIN C!World.classes)
    <3>1. C!BasesOf(c) \in Seq(DOMAIN C!World.classes)
      <4> DEFINE K == DOMAIN C!World.classes
      <4>1. C!Class(c).bases \in Seq(K)
        BY <1>5
      <4> HIDE DEF K
      <4>2. << >> \in Seq(K)
        OBVIOUS
      <4>3. C!BasesOf(c) \in Seq(K)
        BY <4>1, <4>2 DEF C!BasesOf
      <4> QED BY <4>3 DEF K
    <3> QED BY <1>4, <2>1, <3>1, JoinedIsSequence
  <2>3. accessible' \in Seq(Objects)
    <3>1. C!SetToSeq(new) \in Seq(new) /\ C!SetToSeq(methods) \in Seq(methods)
      BY <1>8, SequenceOfSet
    <3>2. C!SetToSeq(new) \in Seq(Objects) /\ C!SetToSeq(methods) \in Seq(Objects)
      BY <1>7, <3>1
    <3> HIDE DEF Objects
    <3>3. accessible \o C!SetToSeq(new) \in Seq(Objects)
      BY <1>2, <3>2, JoinedIsSequence
    <3>4. accessible \o C!SetToSeq(new) \o C!SetToSeq(methods) \in Seq(Objects)
      BY <3>2, <3>3, JoinedIsSequence
    <3> QED BY <1>2, <2>1, <3>4
  <2>4. \A a \in DOMAIN returns' : returns'[a] = Declared(a)
    BY <1>6, <1>9, <2>1
  <2>5. IsInverse(cGenerators', returns')
    <3>1. Agrees(returns', DOMAIN returns, returns)
      BY <2>1 DEF Agrees
    <3>2. Agrees(returns', new \cup methods, typed)
      BY <1>6, <1>9, <2>1 DEF Agrees
    <3>3. IsInverse(cGenerators, returns)
      BY DEF ClusterInv, GeneratorsAreRight
    <3> QED BY <2>1, <3>1, <3>2, <3>3, AddedIsInverse
  <2>6. AnalysisIsRight'
    BY <1>1, <1>2, <1>3, <2>2, <2>3 DEF ClusterInv, AnalysisIsRight, Objects
  <2>7. BeforeSearch'
    BY <1>1, <1>3, <2>4 DEF ClusterInv, BeforeSearch, Declared
  <2> QED BY <1>1, <2>5, <2>6, <2>7 DEF GeneratorsAreRight
<1> QED BY <1>10, <1>11

LEMMA AnalyseFunctionsInv ==
  ASSUME ClusterInv, C!AnalyseFunctions, UNCHANGED <<answers, generatable>>
  PROVE  AnalysisIsRight' /\ BeforeSearch' /\ GeneratorsAreRight' /\ phase' # "search"
<1> DEFINE functions == {C!Callable(f) : f \in C!Offered(C!ToSet(C!World.modules[current].functions))}
           fresh == functions \ DOMAIN returns
           typed == [a \in functions |-> C!World.callables[a[2]].returns]
           shown == {a \in fresh : C!World.callables[a[2]].module = C!World.root}
<1>1. /\ phase = "modules" /\ current # ""
      /\ UNCHANGED <<world, phase, work>> /\ current' = ""
      /\ cWaiting' = cWaiting \o C!World.modules[current].includes
      /\ returns' = [a \in DOMAIN returns \cup fresh |->
                       IF a \in DOMAIN returns THEN returns[a] ELSE typed[a]]
      /\ cGenerators' = C!AddGenerators(cGenerators, fresh, typed)
      /\ accessible' = accessible \o C!SetToSeq(shown)
  BY DEF C!AnalyseFunctions
<1>2. /\ world \in DOMAIN ClsWorlds /\ accessible \in Seq(Objects)
      /\ work \in Seq(DOMAIN C!World.classes) /\ cWaiting \in Seq(DOMAIN C!World.modules)
      /\ current \in DOMAIN C!World.modules
  BY <1>1 DEF ClusterInv, AnalysisIsRight
<1>3. C!World' = C!World
  BY <1>1 DEF C!World
<1>4. /\ C!World.modules[current].functions \in Seq(DOMAIN C!World.callables)
      /\ C!World.modules[current].includes \in Seq(DOMAIN C!World.modules)
  BY <1>2, OtherConstants DEF C!WorldsType, C!World
<1>5. \A a \in DOMAIN returns : returns[a] = Declared(a)
  BY <1>1 DEF ClusterInv, BeforeSearch
<1>6. /\ C!ToSet(C!World.modules[current].functions) \subseteq DOMAIN C!World.callables
      /\ IsFiniteSet(C!ToSet(C!World.modules[current].functions))
  <2> DEFINE s == C!World.modules[current].functions
  <2>1. /\ DOMAIN s = 1 .. Len(s) /\ Len(s) \in Nat
        /\ \A i \in DOMAIN s : s[i] \in DOMAIN C!World.callables
    <3> HIDE DEF s
    <3> QED BY <1>4 DEF s
  <2>2. IsFiniteSet(DOMAIN s)
    <3> HIDE DEF s
    <3>1. IsFiniteSet(1 .. Len(s))
      BY <2>1, FS_Interval
    <3> QED BY <2>1, <3>1
  <2>3. C!ToSet(s) = {s[i] : i \in DOMAIN s}
    BY DEF C!ToSet
  <2> HIDE DEF s
  <2>4. IsFiniteSet({s[i] : i \in DOMAIN s})
    BY <2>2, ImageIsFinite
  <2> QED BY <2>1, <2>3, <2>4 DEF s
<1>7. functions \subseteq Objects /\ IsFiniteSet(functions)
  <2>1. IsFiniteSet(C!Offered(C!ToSet(C!World.modules[current].functions)))
    BY <1>6, FS_Subset DEF C!Offered
  <2>2. IsFiniteSet(functions)
    <3> DEFINE Z == C!Offered(C!ToSet(C!World.modules[current].functions))
               f == [x \in Z |-> C!Callable(x)]
    <3>1. functions = {f[x] : x \in Z}
      OBVIOUS
    <3>2. IsFiniteSet({f[x] : x \in Z})
      <4> HIDE DEF Z
      <4>1. DOMAIN f = Z
        OBVIOUS
      <4> HIDE DEF f
      <4> QED BY <2>1, <4>1, ImageIsFinite DEF Z
    <3> QED BY <3>1, <3>2
  <2> QED BY <1>6, <2>2 DEF Objects, C!Callable, C!Offered
<1>8. \A a \in functions : a \in DOMAIN typed /\ typed[a] = Declared(a)
  BY DEF C!Callable, Declared
<1>9. shown \subseteq functions /\ fresh \subseteq functions /\ IsFiniteSet(shown)
  <2>1. shown \subseteq functions /\ fresh \subseteq functions
    OBVIOUS
  <2> HIDE DEF shown, functions
  <2> QED BY <1>7, <2>1, FS_Subset
<1> HIDE DEF functions, fresh, typed, shown
<1>10. accessible' \in Seq(Objects)
  <2>1. C!SetToSeq(shown) \in Seq(shown)
    BY <1>9, SequenceOfSet
  <2>2. C!SetToSeq(shown) \in Seq(Objects)
    BY <1>7, <1>9, <2>1
  <2> HIDE DEF Objects
  <2>3. accessible \o C!SetToSeq(shown) \in Seq(Objects)
    BY <1>2, <2>2, JoinedIsSequence
  <2> QED BY <1>1, <2>3
<1>11. \A a \in DOMAIN returns' : returns'[a] = Declared(a)
  BY <1>1, <1>5, <1>8, <1>9
<1>12. IsInverse(cGenerators', returns')
  <2>1. Agrees(returns', DOMAIN returns, returns)
    BY <1>1 DEF Agrees
  <2>2. Agrees(returns', fresh, typed)
    BY <1>1, <1>5, <1>8, <1>9 DEF Agrees
  <2>3. IsInverse(cGenerators, returns)
    BY DEF ClusterInv, GeneratorsAreRight
  <2> QED BY <1>1, <2>1, <2>2, <2>3, AddedIsInverse
<1>13. AnalysisIsRight'
  <2>1. cWaiting' \in Seq(DOMAIN C!World.modules)
    BY <1>1, <1>2, <1>4, JoinedIsSequence
  <2> QED BY <1>1, <1>2, <1>3, <1>10, <2>1 DEF AnalysisIsRight, Objects
<1>14. BeforeSearch'
  BY <1>1, <1>3, <1>11 DEF ClusterInv, BeforeSearch, Declared
<1> QED BY <1>1, <1>12, <1>13, <1>14 DEF GeneratorsAreRight
(* The other steps of the analysis leave the index as it is.                       *)
LEMMA AnalysisInv ==
  ASSUME ClusterInv, C!Analyse, phase' # "search", UNCHANGED <<answers, generatable>>
  PROVE  ClusterInv'
<1>1. AnalysisIsRight /\ BeforeSearch /\ GeneratorsAreRight
  BY DEF ClusterInv
<1>2. AnalysisIsRight' /\ BeforeSearch' /\ GeneratorsAreRight' /\ phase' # "search"
  <2>1. CASE C!AnalyseClass
    BY <2>1, AnalyseClassInv
  <2>2. CASE C!AnalyseFunctions
    BY <2>2, AnalyseFunctionsInv
  <2>3. CASE C!EnableNumericTower \/ C!BeginPush \/ C!PushDown
    <3>1. /\ UNCHANGED <<world, cWaiting, cGenerators, returns, accessible>>
          /\ phase \in {"builtins", "modules", "push"} /\ phase' \in {"modules", "push"}
          /\ phase' = "modules" => phase = "builtins" /\ work' = work /\ current' = ""
      BY <2>3 DEF C!EnableNumericTower, C!BeginPush, C!PushDown, C!indexVars, C!pushVars
    <3>2. C!World' = C!World
      BY <3>1 DEF C!World
    <3>3. AnalysisIsRight'
      BY <1>1, <3>1, <3>2 DEF AnalysisIsRight, Objects
    <3>4. BeforeSearch'
      BY <1>1, <3>1, <3>2 DEF BeforeSearch, Declared
    <3> QED BY <1>1, <3>1, <3>3, <3>4 DEF GeneratorsAreRight
  <2>4. CASE C!NextModule
    <3>1. /\ UNCHANGED <<world, phase, cGenerators, returns, accessible>>
          /\ phase = "modules" /\ cWaiting # << >> /\ cWaiting' = Tail(cWaiting)
          /\ \/ UNCHANGED <<current, work>>
             \/ current' = Head(cWaiting) /\ work' = C!ClassesOf(Head(cWaiting))
      BY <2>4 DEF C!NextModule, C!indexVars
    <3>2. C!World' = C!World
      BY <3>1 DEF C!World
    <3>3. world \in DOMAIN ClsWorlds /\ cWaiting \in Seq(DOMAIN C!World.modules)
      BY <1>1, <3>1 DEF AnalysisIsRight
    <3>4. /\ Head(cWaiting) \in DOMAIN C!World.modules
          /\ Tail(cWaiting) \in Seq(DOMAIN C!World.modules)
      BY <3>1, <3>3, HeadAndTail
    <3>5. C!ClassesOf(Head(cWaiting)) \in Seq(DOMAIN C!World.classes)
      BY <3>3, <3>4, ClassesType
    <3>6. AnalysisIsRight'
      BY <1>1, <3>1, <3>2, <3>4, <3>5 DEF AnalysisIsRight, Objects
    <3>7. BeforeSearch'
      BY <1>1, <3>1, <3>2 DEF BeforeSearch, Declared
    <3> QED BY <1>1, <3>1, <3>6, <3>7 DEF GeneratorsAreRight
  <2>5. ~C!Analysed
    BY DEF C!Analysed
  <2> QED BY <2>1, <2>2, <2>3, <2>4, <2>5 DEF C!Analyse
<1>3. answers' = << >> /\ generatable' = {}
  BY <1>2 DEF BeforeSearch
<1>4. C!AnswersAreCurrent'
  BY <1>3 DEF C!AnswersAreCurrent
<1>5. FilterIsRight'
  BY <1>2 DEF FilterIsRight
<1> QED BY <1>2, <1>4, <1>5 DEF ClusterInv

(* The filter starts with the object that is found for each target.                *)
LEMMA BeginSearchInv ==
  ASSUME ClusterInv, C!BeginSearch
  PROVE  ClusterInv'
<1>1. /\ phase' = "search" /\ phase = "push"
      /\ UNCHANGED <<world, accessible, cGenerators, returns, answers, generatable>>
      /\ uncovered' = DOMAIN C!World.targets
      /\ targets' = [a \in UNION {C!ByCode(code) : code \in DOMAIN C!World.parents} |->
                       {t \in DOMAIN C!World.targets : a \in C!AccessibleOf(t)}]
  BY DEF C!BeginSearch, C!Analysed, C!indexVars, C!cacheVars
<1>2. world \in DOMAIN ClsWorlds /\ accessible \in Seq(Objects)
  BY DEF ClusterInv, AnalysisIsRight
<1>3. C!World' = C!World
  BY <1>1 DEF C!World
<1>4. \A t : C!AccessibleOf(t)' = C!AccessibleOf(t)
  BY <1>1, <1>3, NestingStays DEF C!AccessibleOf
<1>5. AnalysisIsRight'
  BY <1>1, <1>2, <1>3 DEF AnalysisIsRight, Objects
<1>6. BeforeSearch' /\ GeneratorsAreRight'
  BY <1>1 DEF ClusterInv, BeforeSearch, GeneratorsAreRight
<1>7. C!AnswersAreCurrent'
  BY <1>1 DEF ClusterInv, BeforeSearch, C!AnswersAreCurrent
<1>8. \A code : C!ByCode(code) \subseteq C!ToSet(accessible)
  BY DEF C!ByCode, C!ToSet
<1>9. ASSUME NEW t \in DOMAIN C!World.targets, NEW a \in C!AccessibleOf(t)
      PROVE  a \in DOMAIN targets' /\ t \in targets'[a]
  <2>1. C!World.targets[t] \in C!Codes
    BY <1>2, CodesAre DEF C!Codes
  <2>2. \E c \in DOMAIN C!World.parents : a \in C!ByCode(c)
    BY <1>2, <1>9, <2>1, FoundAround DEF C!AccessibleOf
  <2> QED BY <1>1, <1>9, <2>2
<1>10. FilterIsRight'
  <2>1. DOMAIN targets' \subseteq C!ToSet(accessible)
    BY <1>1, <1>8
  <2>2. C!ToSet(accessible)' = C!ToSet(accessible)
    BY <1>1 DEF C!ToSet
  <2> QED BY <1>1, <1>3, <1>4, <1>9, <2>1, <2>2 DEF FilterIsRight
<1> QED BY <1>5, <1>6, <1>7, <1>10 DEF ClusterInv

(* What is asked for and covered leaves the analysed world alone.                  *)
LEMMA SearchKeeps ==
  ASSUME ClusterInv, phase = "search", UNCHANGED C!analysisVars
  PROVE  /\ AnalysisIsRight' /\ BeforeSearch' /\ UNCHANGED <<accessible, edges>>
         /\ C!World' = C!World /\ \A t : C!AccessibleOf(t)' = C!AccessibleOf(t)
         /\ UNCHANGED C!filterVars => FilterIsRight'
<1>1. UNCHANGED <<world, phase, work, cWaiting, current, accessible, edges>>
  BY DEF C!analysisVars, C!loopVars, C!graphVars
<1>2. C!World' = C!World
  BY <1>1 DEF C!World
<1>3. \A t : C!AccessibleOf(t)' = C!AccessibleOf(t)
  BY <1>1, <1>2, NestingStays DEF C!AccessibleOf
<1>4. AnalysisIsRight'
  BY <1>1, <1>2 DEF ClusterInv, AnalysisIsRight, Objects
<1>5. BeforeSearch'
  BY <1>1 DEF BeforeSearch
<1>6. C!ToSet(accessible)' = C!ToSet(accessible)
  BY <1>1 DEF C!ToSet
<1>7. UNCHANGED C!filterVars => FilterIsRight'
  BY <1>1, <1>2, <1>3, <1>6 DEF ClusterInv, FilterIsRight, C!filterVars
<1> QED BY <1>1, <1>2, <1>3, <1>4, <1>5, <1>7

LEMMA CoverInv ==
  ASSUME ClusterInv, NEW t \in uncovered, C!Cover(t)
  PROVE  ClusterInv'
<1> DEFINE last == {a \in C!AccessibleOf(t) : targets[a] = {t}}
<1>1. /\ phase = "search" /\ UNCHANGED C!analysisVars
      /\ UNCHANGED <<cGenerators, returns, answers, generatable>>
      /\ uncovered' = uncovered \ {t}
      /\ targets' = [a \in DOMAIN targets \ last |->
                       targets[a] \ (IF a \in C!AccessibleOf(t) THEN {t} ELSE {})]
  BY DEF C!Cover, C!cacheVars
<1>2. /\ AnalysisIsRight' /\ BeforeSearch' /\ UNCHANGED <<accessible, edges>>
      /\ C!World' = C!World /\ \A u : C!AccessibleOf(u)' = C!AccessibleOf(u)
  BY <1>1, SearchKeeps
<1>3. GeneratorsAreRight' /\ C!AnswersAreCurrent'
  BY <1>1, <1>2 DEF ClusterInv, GeneratorsAreRight, C!AnswersAreCurrent
<1>4. /\ uncovered \subseteq DOMAIN C!World.targets /\ DOMAIN targets \subseteq C!ToSet(accessible)
      /\ \A u \in uncovered : \A a \in C!AccessibleOf(u) : a \in DOMAIN targets /\ u \in targets[a]
  BY <1>1 DEF ClusterInv, FilterIsRight
<1>5. ASSUME NEW u \in uncovered \ {t}, NEW a \in C!AccessibleOf(u)
      PROVE  a \in DOMAIN targets' /\ u \in targets'[a]
  <2>1. a \in DOMAIN targets /\ u \in targets[a] /\ u # t
    BY <1>4, <1>5
  <2>2. a \notin last
    BY <2>1
  <2> HIDE DEF last
  <2> QED BY <1>1, <2>1, <2>2
<1>6. DOMAIN targets' \subseteq DOMAIN targets
  BY <1>1
<1>7. C!ToSet(accessible)' = C!ToSet(accessible)
  BY <1>2 DEF C!ToSet
<1>8. FilterIsRight'
  BY <1>1, <1>2, <1>4, <1>5, <1>6, <1>7 DEF FilterIsRight
<1> QED BY <1>2, <1>3, <1>8 DEF ClusterInv

(* A changed type moves the object in the index, and forgets the answers.          *)
LEMMA UpdateReturnTypeInv ==
  ASSUME ClusterInv, NEW a \in DOMAIN returns, NEW t, C!UpdateReturnType(a, t)
  PROVE  ClusterInv'
<1> DEFINE new == C!AddOrMakeUnion(returns[a], t)
           less == C!Without(cGenerators, a, returns[a])
<1>1. /\ phase = "search" /\ UNCHANGED C!analysisVars /\ UNCHANGED C!filterVars
      /\ IF new = returns[a] THEN UNCHANGED <<cGenerators, returns, answers, generatable>>
         ELSE /\ cGenerators' = C!Extended(less, new, {a})
              /\ returns' = [returns EXCEPT ![a] = new]
              /\ answers' = << >> /\ generatable' = {}
  BY DEF C!UpdateReturnType, C!cacheVars
<1>2. /\ AnalysisIsRight' /\ BeforeSearch' /\ UNCHANGED <<accessible, edges>> /\ FilterIsRight'
  BY <1>1, SearchKeeps
<1>3. IsInverse(cGenerators, returns)
  BY DEF ClusterInv, GeneratorsAreRight
<1>4. CASE new = returns[a]
  BY <1>1, <1>2, <1>4 DEF ClusterInv, GeneratorsAreRight, C!AnswersAreCurrent
<1>5. CASE new # returns[a]
  <2>1. /\ cGenerators' = C!Extended(less, new, {a}) /\ returns' = [returns EXCEPT ![a] = new]
        /\ answers' = << >> /\ generatable' = {}
    BY <1>1, <1>5
  <2>2. /\ \A k \in DOMAIN less : /\ k \in DOMAIN cGenerators /\ less[k] # {}
                                  /\ less[k] \subseteq cGenerators[k]
                                  /\ k = returns[a] => a \notin less[k]
    BY <1>3 DEF C!Without, IsInverse
  <2>3. cGenerators' = [k \in DOMAIN less \cup {new} |->
           (IF k = new THEN {a} ELSE {}) \cup (IF k \in DOMAIN less THEN less[k] ELSE {})]
    BY <2>1 DEF C!Extended
  <2>4. /\ DOMAIN returns' = DOMAIN returns /\ returns'[a] = new
        /\ \A b \in DOMAIN returns \ {a} : returns'[b] = returns[b]
    BY <2>1
  <2> HIDE DEF less, new
  <2>5. ASSUME NEW k \in DOMAIN less, NEW b \in less[k]
        PROVE  b \in DOMAIN returns /\ returns[b] = k /\ b # a
    BY <1>3, <2>2, <2>5 DEF IsInverse
  <2>6. IsInverse(cGenerators', returns')
    <3> SUFFICES ASSUME NEW k \in DOMAIN cGenerators'
                 PROVE  /\ cGenerators'[k] # {}
                        /\ \A b \in cGenerators'[k] : b \in DOMAIN returns' /\ returns'[b] = k
      BY DEF IsInverse
    <3>1. cGenerators'[k] = (IF k = new THEN {a} ELSE {})
                              \cup (IF k \in DOMAIN less THEN less[k] ELSE {})
      BY <2>3
    <3>2. k = new \/ k \in DOMAIN less
      BY <2>3
    <3> QED BY <2>2, <2>4, <2>5, <3>1, <3>2
  <2>7. C!AnswersAreCurrent'
    BY <2>1 DEF C!AnswersAreCurrent
  <2> QED BY <1>2, <2>6, <2>7 DEF ClusterInv, GeneratorsAreRight
<1> QED BY <1>4, <1>5

LEMMA QuestionInv ==
  ASSUME ClusterInv, (\E t \in ClsAsked : C!GetGeneratorsFor(t)) \/ C!GetAllGeneratableTypes
  PROVE  ClusterInv'
<1>1. /\ phase = "search" /\ UNCHANGED C!analysisVars /\ UNCHANGED C!filterVars
      /\ UNCHANGED <<cGenerators, returns>>
  BY DEF C!GetGeneratorsFor, C!GetAllGeneratableTypes
<1>2. /\ AnalysisIsRight' /\ BeforeSearch' /\ UNCHANGED <<accessible, edges>> /\ FilterIsRight'
  BY <1>1, SearchKeeps
<1>3. GeneratorsAreRight'
  BY <1>1 DEF ClusterInv, GeneratorsAreRight
<1>4. IsInverse(cGenerators, returns) /\ C!AnswersAreCurrent
  BY DEF ClusterInv, GeneratorsAreRight
<1>5. ASSUME NEW t \in ClsAsked, C!GetGeneratorsFor(t)
      PROVE  C!AnswersAreCurrent'
  <2>1. answers' = C!With(answers, t, C!GeneratorsFor(t)) /\ generatable' = generatable
    BY <1>5 DEF C!GetGeneratorsFor
  <2>2. answers' = [k \in DOMAIN answers \cup {t} |->
                      IF k = t THEN C!GeneratorsFor(t) ELSE answers[k]]
    BY <2>1 DEF C!With
  <2>3. C!GeneratorsFor(t) =
          {a \in DOMAIN returns : /\ \E g \in DOMAIN cGenerators : a \in cGenerators[g]
                                  /\ t = C!AnyType \/ C!IsMaybeSubtype(edges, returns[a], t)}
    BY <1>4 DEF C!GeneratorsFor, IsInverse
  <2> QED BY <1>1, <1>2, <1>4, <2>1, <2>2, <2>3 DEF C!AnswersAreCurrent
<1>6. ASSUME C!GetAllGeneratableTypes
      PROVE  C!AnswersAreCurrent'
  <2>1. /\ generatable' = DOMAIN cGenerators \cup C!Primitives \cup C!Collections
        /\ answers' = answers
    BY <1>6 DEF C!GetAllGeneratableTypes
  <2>2. \A g \in DOMAIN cGenerators : \E a \in DOMAIN returns : returns[a] = g
    BY <1>4 DEF IsInverse
  <2> QED BY <1>1, <1>2, <1>4, <2>1, <2>2 DEF C!AnswersAreCurrent
<1> QED BY <1>2, <1>3, <1>5, <1>6 DEF ClusterInv

LEMMA ClusterInit == C!Init => ClusterInv
<1> SUFFICES ASSUME C!Init PROVE ClusterInv
  OBVIOUS
<1>1. /\ world \in DOMAIN ClsWorlds /\ phase = "builtins"
      /\ cWaiting = <<C!World.root>> /\ current = "builtins"
      /\ work = C!ClassesOf("builtins") /\ cGenerators = << >> /\ returns = << >>
      /\ accessible = << >> /\ answers = << >> /\ generatable = {}
  BY DEF C!Init, C!AnalysisInit
<1>2. {C!World.root, "builtins"} \subseteq DOMAIN C!World.modules
  BY <1>1, OtherConstants DEF C!WorldsType, C!World
<1>3. C!ClassesOf("builtins") \in Seq(DOMAIN C!World.classes)
  BY <1>1, <1>2, ClassesType
<1>4. cWaiting \in Seq(DOMAIN C!World.modules)
  <2> DEFINE K == DOMAIN C!World.modules
             r == C!World.root
  <2>1. r \in K /\ cWaiting = <<r>>
    BY <1>1, <1>2
  <2> HIDE DEF K, r
  <2>2. <<r>> \in Seq(K)
    BY <2>1
  <2> QED BY <2>1, <2>2 DEF K
<1>5. accessible \in Seq(Objects)
  BY <1>1
<1>6. AnalysisIsRight
  BY <1>1, <1>2, <1>3, <1>4, <1>5 DEF AnalysisIsRight
<1>7. BeforeSearch /\ GeneratorsAreRight /\ C!AnswersAreCurrent /\ FilterIsRight
  BY <1>1 DEF BeforeSearch, GeneratorsAreRight, IsInverse, C!AnswersAreCurrent, FilterIsRight
<1> QED BY <1>6, <1>7 DEF ClusterInv

LEMMA ClusterNext == ClusterInv /\ C!Next => ClusterInv'
<1> SUFFICES ASSUME ClusterInv, C!Next PROVE ClusterInv'
  OBVIOUS
<1>1. CASE C!Analyse /\ phase' # "search" /\ UNCHANGED <<C!cacheVars, C!filterVars, observations>>
  BY <1>1, AnalysisInv DEF C!cacheVars
<1>2. CASE C!BeginSearch
  BY <1>2, BeginSearchInv
<1>3. CASE \E t \in uncovered : C!Cover(t)
  BY <1>3, CoverInv
<1>4. CASE \E a \in DOMAIN returns : \E t \in C!Returned(a) : C!UpdateReturnType(a, t)
  BY <1>4, UpdateReturnTypeInv
<1>5. CASE (\E t \in ClsAsked : C!GetGeneratorsFor(t)) \/ C!GetAllGeneratableTypes
  BY <1>5, QuestionInv
<1> QED BY <1>1, <1>2, <1>3, <1>4, <1>5 DEF C!Next

(* What is found for an uncovered target is offered, and if there is an object      *)
(* around it, one is found.                                                        *)
LEMMA OfferedAround ==
  ASSUME ClusterInv
  PROVE  C!UncoveredIsOffered
<1> SUFFICES ASSUME phase = "search", NEW t \in uncovered,
                    NEW a \in C!ToSet(accessible), C!CodeOf(a) \in C!Enclosing(t)
             PROVE  \E b \in C!OfferedForCalls : C!CodeOf(b) \in C!Enclosing(t)
  BY DEF C!UncoveredIsOffered
<1> DEFINE code == C!World.targets[t]
<1>1. /\ world \in DOMAIN ClsWorlds /\ accessible \in Seq(Objects)
      /\ t \in DOMAIN C!World.targets
      /\ \A b \in C!AccessibleOf(t) : b \in DOMAIN targets
  BY DEF ClusterInv, AnalysisIsRight, FilterIsRight
<1>2. code \in C!Codes
  BY <1>1, CodesAre DEF C!Codes
<1>3. /\ \A b \in C!Innermost[code] : \E c \in C!Around[code] : b \in C!ByCode(c)
      /\ C!Around[code] \subseteq DOMAIN C!World.parents
      /\ \A c \in C!Around[code] : C!ByCode(c) # {} => C!Innermost[code] # {}
  BY <1>1, <1>2, FoundAround
<1>4. C!CodeOf(a) \in C!Around[code] /\ C!CodeOf(a) # 0
  BY <1>1, <1>3, CodesAre DEF C!Enclosing
<1>5. C!ByCode(C!CodeOf(a)) # {}
  BY <1>1, <1>4, LastIsFound
<1>6. PICK b : b \in C!Innermost[code]
  BY <1>3, <1>4, <1>5
<1>7. PICK c \in C!Around[code] : b \in C!ByCode(c)
  BY <1>3, <1>6
<1>8. C!CodeOf(b) = c
  BY <1>7 DEF C!ByCode
<1>9. b \in DOMAIN targets
  BY <1>1, <1>6 DEF C!AccessibleOf
<1>10. b \in C!OfferedForCalls
  BY <1>9 DEF C!OfferedForCalls
<1> QED BY <1>7, <1>8, <1>10 DEF C!Enclosing

--------------------------------------------------------------------------------
(* Guesses.                                                                        *)

Useful == {"none", "tuple", "instance"}

IsGuess(t) == t = S!Nothing \/ t.kind \in Useful

(* A guess is None, or a type that is useful.                                      *)
LEMMA MadeIsUseful == ASSUME NEW c PROVE S!MakeInstance(c).kind \in Useful
<1>1. S!TupleOfAnySize.kind = "tuple" /\ S!NoneT.kind = "none"
  BY DEF S!TupleOfAnySize, S!NoneT
<1>2. ASSUME NEW args PROVE S!FixedUp(S!Instance(c, args)).kind = "instance"
  BY DEF S!FixedUp, S!Instance
<1> QED BY <1>1, <1>2 DEF S!MakeInstance, Useful

LEMMA ChosenIsUseful ==
  ASSUME NEW classes, NEW t \in S!ChooseOrNegate(classes)
  PROVE  IsGuess(t)
<1>1. t = S!Nothing \/ \E c : t = S!MakeInstance(c)
  BY DEF S!ChooseOrNegate
<1> QED BY <1>1, MadeIsUseful DEF IsGuess

LEMMA GuessedAtIsUseful ==
  ASSUME NEW trace, NEW path, NEW t \in S!GuessedAt(trace, path)
  PROVE  IsGuess(t)
<1>1. ASSUME NEW classes, NEW u \in S!OneOf(classes)
      PROVE  IsGuess(u)
  BY ChosenIsUseful DEF S!OneOf
<1>2. CASE t \in S!FromTypeCheck(trace, path)
  BY <1>1, <1>2 DEF S!FromTypeCheck
<1>3. CASE t \in S!FromAttributes(trace, path)
  <2>1. \/ \E classes : t \in S!ChooseOrNegate(classes)
        \/ \E classes : t \in S!OneOf(classes)
    BY <1>3 DEF S!FromAttributes
  <2> QED BY <1>1, <2>1, ChosenIsUseful
<1> QED BY <1>2, <1>3 DEF S!GuessedAt

LEMMA RefinedIsUseful ==
  ASSUME NEW trace, NEW path, NEW t, IsGuess(t),
         NEW items, NEW u \in S!Refined(trace, path, t, items)
  PROVE  IsGuess(u)
<1>1. \/ u = t
      \/ \E args : u = S!Tuple(args)
      \/ \E class, args : u = S!Instance(class, args)
  <2> DEFINE OrAny(source, position) ==
               {IF v = S!Nothing THEN S!AnyType ELSE v : v \in S!Arguments(trace, path, source, position, items)}
             tuples == UNION {{S!Tuple(args) : args \in [1 .. n -> OrAny("tuple", 1)]} : n \in 1 .. SigTupleSize}
             ones == {S!Instance(t.class, <<item>>) : item \in OrAny(t.class, 1)}
             dicts == {S!Instance("dict", p) : p \in OrAny("dictKey", 1) \X OrAny("dictValue", 2)}
  <2>1. S!Refined(trace, path, t, items) =
          CASE t.kind = "tuple" -> tuples
            [] t.kind = "instance" /\ t.class \in {"list", "set"} -> ones
            [] t.kind = "instance" /\ t.class = "dict" -> dicts
            [] OTHER -> {t}
    BY Zenon DEF S!Refined
  <2> HIDE DEF OrAny
  <2>2. u \in tuples => \E args : u = S!Tuple(args)
    OBVIOUS
  <2>3. u \in ones \cup dicts => \E class, args : u = S!Instance(class, args)
    OBVIOUS
  <2> HIDE DEF tuples, ones, dicts
  <2>4. u \in tuples \cup ones \cup dicts \cup {t}
    <3> DEFINE a == t.kind = "tuple"
               b == t.kind = "instance" /\ t.class \in {"list", "set"}
               c == t.kind = "instance" /\ t.class = "dict"
    <3>1. ~(a /\ b) /\ ~(a /\ c) /\ ~(b /\ c)
      OBVIOUS
    <3> QED BY <2>1, <3>1
  <2> QED BY <2>2, <2>3, <2>4
<1>2. \A args : S!Tuple(args).kind = "tuple"
  BY DEF S!Tuple
<1>3. \A class, args : S!Instance(class, args).kind = "instance"
  BY DEF S!Instance
<1> QED BY <1>1, <1>2, <1>3 DEF IsGuess, Useful

LEMMA GuessIsUseful ==
  ASSUME NEW name, NEW trace, NEW g \in S!Guesses(name, trace)
  PROVE  IsGuess(g)
<1>1. ASSUME NEW start, NEW u \in S!GuessedFrom(trace, start)
      PROVE  IsGuess(u)
  <2>1. \/ u = S!Nothing
        \/ \E t \in S!GuessedAt(trace, start) : \E items : u \in S!Refined(trace, start, t, items)
    <3> DEFINE further == [path \in S!Nodes(trace) |-> S!OrNothing(S!GuessedAt(trace, path))]
               ofItems == [path \in S!Nodes(trace) |->
                             S!OrNothing(UNION {S!Refined(trace, path, t, further) :
                                                  t \in S!GuessedAt(trace, path)})]
               all == UNION {S!Refined(trace, start, t, ofItems) : t \in S!GuessedAt(trace, start)}
    <3>1. S!GuessedFrom(trace, start) = S!OrNothing(all)
      BY Zenon DEF S!GuessedFrom
    <3> HIDE DEF ofItems
    <3>2. u = S!Nothing \/ u \in all
      <4> HIDE DEF all
      <4> QED BY <1>1, <3>1 DEF S!OrNothing
    <3> QED BY <3>2
  <2> QED BY <2>1, GuessedAtIsUseful, RefinedIsUseful DEF IsGuess
<1>2. g = S!Nothing \/ \E start : g \in S!GuessedFrom(trace, start)
  BY DEF S!Guesses
<1> QED BY <1>1, <1>2 DEF IsGuess

(* The kept guesses of a parameter, after one more.                                *)
IsKept(kept) ==
  /\ kept \in Seq(Range(kept)) /\ Len(kept) <= SigKept
  /\ \A j, k \in DOMAIN kept : kept[j] = kept[k] => j = k
  /\ \A k \in DOMAIN kept : kept[k].kind \in Useful

LEMMA UpdateKeeps ==
  ASSUME NEW kept, IsKept(kept), NEW g, IsGuess(g)
  PROVE  IsKept(S!UpdateGuess(kept, g))
<1>0. SigKept \in Nat \ {0}
  BY OtherConstants DEF S!ConstantsType
<1>1. CASE g = S!Nothing \/ g \in S!ToSet(kept)
  BY <1>1 DEF S!UpdateGuess
<1>2. CASE g # S!Nothing /\ g \notin S!ToSet(kept)
  <2> DEFINE K == Range(kept) \cup {g}
             rest == IF Len(kept) >= SigKept THEN Tail(kept) ELSE kept
             longer == Append(rest, g)
  <2>1. kept \in Seq(K) /\ g \in K /\ g.kind \in Useful
    BY <1>2 DEF IsKept, IsGuess
  <2>2. \A k \in DOMAIN kept : kept[k] # g
    BY <1>2 DEF S!ToSet
  <2>3. S!UpdateGuess(kept, g) = longer
    BY <1>2 DEF S!UpdateGuess
  <2> HIDE DEF K
  <2>4. /\ rest \in Seq(K) /\ Len(rest) < SigKept
        /\ \A j, k \in DOMAIN rest : rest[j] = rest[k] => j = k
        /\ \A k \in DOMAIN rest : rest[k] # g /\ rest[k].kind \in Useful
    <3>1. CASE Len(kept) >= SigKept
      <4>1. kept # << >> /\ Len(kept) = SigKept
        BY <1>0, <2>1, <3>1 DEF IsKept
      <4>2. /\ rest \in Seq(K) /\ Len(rest) = Len(kept) - 1
            /\ \A k \in DOMAIN rest : k + 1 \in DOMAIN kept /\ rest[k] = kept[k + 1] /\ k \in Nat
        BY <2>1, <3>1, <4>1
      <4> QED BY <1>0, <2>2, <4>1, <4>2 DEF IsKept
    <3>2. CASE ~ Len(kept) >= SigKept
      BY <1>0, <2>1, <2>2, <3>2 DEF IsKept
    <3> QED BY <3>1, <3>2
  <2> HIDE DEF rest
  <2>5. /\ longer \in Seq(K) /\ Len(longer) = Len(rest) + 1 /\ Len(rest) \in Nat
        /\ DOMAIN longer = 1 .. Len(rest) + 1 /\ DOMAIN rest = 1 .. Len(rest)
        /\ longer[Len(rest) + 1] = g
        /\ \A k \in 1 .. Len(rest) : longer[k] = rest[k]
    BY <2>1, <2>4
  <2> HIDE DEF longer
  <2>6. Len(longer) <= SigKept
    BY <1>0, <2>4, <2>5
  <2>7. \A j, k \in DOMAIN longer : longer[j] = longer[k] => j = k
    <3> SUFFICES ASSUME NEW j \in DOMAIN longer, NEW k \in DOMAIN longer, longer[j] = longer[k]
                 PROVE  j = k
      OBVIOUS
    <3>1. (j \in DOMAIN rest \/ j = Len(rest) + 1) /\ (k \in DOMAIN rest \/ k = Len(rest) + 1)
      BY <2>5
    <3> QED BY <2>4, <2>5, <3>1
  <2>8. \A k \in DOMAIN longer : longer[k].kind \in Useful
    <3> SUFFICES ASSUME NEW k \in DOMAIN longer PROVE longer[k].kind \in Useful
      OBVIOUS
    <3>1. k \in DOMAIN rest \/ k = Len(rest) + 1
      BY <2>5
    <3> QED BY <2>1, <2>4, <2>5, <3>1
  <2>9. longer \in Seq(Range(longer))
    BY <2>5 DEF Range
  <2> QED BY <2>3, <2>6, <2>7, <2>8, <2>9 DEF IsKept
<1> QED BY <1>1, <1>2

(* Every parameter has its kept guesses.                                           *)
GuessInv == guesses \in [S!Names -> {guesses[n] : n \in S!Names}] /\ \A n \in S!Names : IsKept(guesses[n])

LEMMA GuessInit == S!Init => GuessInv
<1> SUFFICES ASSUME S!Init PROVE GuessInv
  OBVIOUS
<1>1. guesses = [n \in S!Names |-> << >>]
  BY DEF S!Init
<1>2. IsKept(<< >>)
  BY OtherConstants DEF IsKept, S!ConstantsType
<1> QED BY <1>1, <1>2 DEF GuessInv

LEMMA GuessNext == GuessInv /\ S!Next => GuessInv'
<1> SUFFICES ASSUME GuessInv, S!Next PROVE GuessInv'
  OBVIOUS
<1>1. CASE guesses' = guesses
  BY <1>1 DEF GuessInv
<1>2. CASE S!GetParameterTypes
  <2>1. PICK guess : /\ \A n \in S!Names : guess[n] \in S!Guesses(n, knowledge[n])
                     /\ guesses' = [n \in S!Names |-> S!UpdateGuess(guesses[n], guess[n])]
    BY <1>2 DEF S!GetParameterTypes
  <2>2. \A n \in S!Names : IsKept(S!UpdateGuess(guesses[n], guess[n]))
    BY <2>1, GuessIsUseful, UpdateKeeps DEF GuessInv
  <2> QED BY <2>1, <2>2 DEF GuessInv
<1> QED
  BY <1>1, <1>2 DEF S!Next, S!ExecutePlain, S!BeginProxied, S!UseProxy, S!EndProxied

--------------------------------------------------------------------------------
(* Sequences and their positions.                                                  *)

LEMMA MaxIs ==
  ASSUME NEW x \in Int, NEW y \in Int
  PROVE  A!Max({x, y}) = IF x >= y THEN x ELSE y
<1> DEFINE z == IF x >= y THEN x ELSE y
<1>1. z \in {x, y} /\ \A u \in {x, y} : z >= u
  OBVIOUS
<1>2. \A v \in {x, y} : (\A u \in {x, y} : v >= u) => v = z
  OBVIOUS
<1>3. /\ A!Max({x, y}) \in {x, y}
      /\ \A u \in {x, y} : A!Max({x, y}) >= u
  <2> HIDE DEF z
  <2> QED BY <1>1 DEF A!Max
<1> QED BY <1>2, <1>3

LEMMA MinIs ==
  ASSUME NEW T, T \subseteq Nat, T # {}
  PROVE  A!Min(T) \in T /\ \A y \in T : A!Min(T) <= y
<1>1. \E x \in T : \A y \in T : x <= y
  BY LeastExists
<1> QED BY <1>1 DEF A!Min

LEMMA GreatestIs ==
  ASSUME NEW m \in Nat, NEW T, T \subseteq 0 .. m, T # {}
  PROVE  A!Max(T) \in T /\ \A y \in T : A!Max(T) >= y
<1> DEFINE Bounds == {x \in 0 .. m : \A y \in T : y <= x}
<1>1. Bounds \subseteq Nat /\ m \in Bounds
  OBVIOUS
<1>2. PICK x \in Bounds : \A y \in Bounds : x <= y
  BY <1>1, LeastExists
<1>3. x \in T
  <2> SUFFICES ASSUME x \notin T PROVE FALSE
    OBVIOUS
  <2>1. \A y \in T : y \in 0 .. m /\ y <= x /\ y # x
    BY <1>2
  <2>2. PICK z \in T : TRUE
    OBVIOUS
  <2>3. x \in 0 .. m /\ x # 0
    BY <1>2, <2>1, <2>2
  <2>4. x - 1 \in 0 .. m /\ \A y \in T : y <= x - 1
    BY <2>1, <2>3
  <2>5. x <= x - 1
    BY <1>2, <2>4
  <2> QED BY <2>3, <2>5
<1>4. \E v \in T : \A y \in T : v >= y
  BY <1>2, <1>3
<1> QED BY <1>4 DEF A!Max

(* All elements of a finite set, each once.                                        *)
LEMMA AllInSequence ==
  ASSUME NEW Z, IsFiniteSet(Z), NEW s, s = A!SetToSeq(Z)
  PROVE  /\ s \in Seq(Z) /\ Len(s) = Cardinality(Z) /\ Cardinality(Z) \in Nat
         /\ \A x \in Z : \E k \in DOMAIN s : s[k] = x
<1> DEFINE n == Cardinality(Z)
<1>1. n \in Nat /\ ExistsBijection(1 .. n, Z) /\ A!Cardinality(Z) = n
  BY FS_CardinalityType DEF A!Cardinality, Cardinality
<1>2. PICK f \in [1 .. n -> Z] : \A a, b \in 1 .. n : f[a] = f[b] => a = b
  BY <1>1 DEF ExistsBijection, Bijection, Injection, IsInjective
<1>3. A!IsInjective(f)
  BY <1>2 DEF A!IsInjective
<1>4. s \in [1 .. n -> Z] /\ A!IsInjective(s)
  BY <1>1, <1>2, <1>3 DEF A!SetToSeq
<1>5. s \in Injection(1 .. n, Z)
  BY <1>4 DEF A!IsInjective, Injection, IsInjective
<1>6. IsFiniteSet(1 .. n) /\ Cardinality(1 .. n) = n
  BY <1>1, FS_Interval
<1>7. s \in Surjection(1 .. n, Z)
  BY <1>5, <1>6, FS_Injection
<1> HIDE DEF n
<1>8. \A x \in Z : \E k \in 1 .. n : s[k] = x
  BY <1>7 DEF Surjection
<1>9. s \in Seq(Z) /\ Len(s) = n /\ DOMAIN s = 1 .. n
  BY <1>1, <1>4
<1> QED BY <1>1, <1>8, <1>9 DEF n

LEMMA RemoveAtIs ==
  ASSUME NEW K, NEW l \in Seq(K), NEW p \in 1 .. Len(l), NEW r, r = A!RemoveAt(l, p)
  PROVE  /\ r \in Seq(K) /\ Len(r) = Len(l) - 1
         /\ \A k \in 1 .. p - 1 : r[k] = l[k]
         /\ \A k \in p .. Len(l) - 1 : r[k] = l[k + 1]
<1> DEFINE m == Len(l)
           a == SubSeq(l, 1, p - 1)
           b == SubSeq(l, p + 1, m)
<1>1. m \in Nat /\ p \in 1 .. m /\ DOMAIN l = 1 .. m /\ \A k \in 1 .. m : l[k] \in K
  OBVIOUS
<1>2. a \in Seq(K) /\ Len(a) = p - 1 /\ \A k \in 1 .. p - 1 : a[k] = l[k]
  BY <1>1
<1>3. b \in Seq(K) /\ Len(b) = m - p /\ \A k \in 1 .. m - p : b[k] = l[k + p]
  <2>1. b = [k \in 1 .. m - p |-> l[k + p]]
    BY <1>1
  <2>2. \A k \in 1 .. m - p : k + p \in 1 .. m
    BY <1>1
  <2> HIDE DEF b
  <2> QED BY <1>1, <2>1, <2>2
<1>4. r = a \o b
  BY DEF A!RemoveAt
<1> HIDE DEF a, b, m
<1>5. r \in Seq(K) /\ Len(r) = m - 1
  BY <1>1, <1>2, <1>3, <1>4
<1>6. ASSUME NEW k \in 1 .. p - 1 PROVE r[k] = l[k]
  BY <1>1, <1>2, <1>3, <1>4
<1>7. ASSUME NEW k \in p .. m - 1 PROVE r[k] = l[k + 1]
  <2>1. k - (p - 1) \in 1 .. m - p /\ k - (p - 1) + p = k + 1 /\ k \in 1 .. m - 1 /\ ~(k <= p - 1)
    BY <1>1
  <2>2. r[k] = b[k - (p - 1)]
    BY <1>1, <1>2, <1>3, <1>4, <2>1
  <2> QED BY <1>3, <2>1, <2>2
<1> QED BY <1>5, <1>6, <1>7 DEF m

--------------------------------------------------------------------------------
(* Assertions: what is removed of them.                                            *)

(* The positions after q have been looked at.                                      *)
LeftFrom(l, q, list, positions, K) ==
  /\ l \in Seq(K) /\ q <= Len(l) /\ Len(l) <= Len(list)
  /\ \A k \in 1 .. q : l[k] = list[k]
  /\ \A k \in q + 1 .. Len(l) : \E j \in q + 1 .. Len(list) : j \notin positions /\ l[k] = list[j]
  /\ \A j \in q + 1 .. Len(list) : j \notin positions => \E k \in q + 1 .. Len(l) : l[k] = list[j]

LEMMA OneMoreIsLookedAt ==
  ASSUME NEW K, NEW list \in Seq(K), NEW positions, NEW q \in 1 .. Len(list),
         NEW l, LeftFrom(l, q, list, positions, K)
  PROVE  LeftFrom(IF q \in positions THEN A!RemoveAt(l, q) ELSE l, q - 1, list, positions, K)
<1> DEFINE m == Len(list)
           n == Len(l)
<1>1. /\ m \in Nat /\ q \in 1 .. m /\ l \in Seq(K) /\ n \in Nat /\ q <= n /\ n <= m
      /\ \A k \in 1 .. q : l[k] = list[k]
  BY DEF LeftFrom
<1>2. \A k \in q + 1 .. n : \E j \in q + 1 .. m : j \notin positions /\ l[k] = list[j]
  BY DEF LeftFrom
<1>3. \A j \in q + 1 .. m : j \notin positions => \E k \in q + 1 .. n : l[k] = list[j]
  BY DEF LeftFrom
<1>4. CASE q \in positions
  <2> DEFINE r == A!RemoveAt(l, q)
             o == Len(r)
  <2>1. /\ r \in Seq(K) /\ o = n - 1
        /\ \A k \in 1 .. q - 1 : r[k] = l[k]
        /\ \A k \in q .. n - 1 : r[k] = l[k + 1]
    <3>1. q \in 1 .. Len(l)
      BY <1>1
    <3> QED BY <1>1, <3>1, RemoveAtIs
  <2> HIDE DEF r, m, n
  <2>2. \A k \in 1 .. q - 1 : r[k] = list[k]
    BY <1>1, <2>1
  <2>3. ASSUME NEW k \in q .. o PROVE \E j \in q .. m : j \notin positions /\ r[k] = list[j]
    <3>1. k + 1 \in q + 1 .. n /\ k \in q .. n - 1
      BY <1>1, <2>1
    <3>2. PICK j \in q + 1 .. m : j \notin positions /\ l[k + 1] = list[j]
      BY <1>2, <3>1
    <3>3. j \in q .. m
      BY <1>1
    <3> QED BY <2>1, <3>1, <3>2, <3>3
  <2>4. ASSUME NEW j \in q .. m, j \notin positions PROVE \E k \in q .. o : r[k] = list[j]
    <3>1. j \in q + 1 .. m
      BY <1>1, <1>4, <2>4
    <3>2. PICK k \in q + 1 .. n : l[k] = list[j]
      BY <1>3, <2>4, <3>1
    <3>3. k - 1 \in q .. o /\ k - 1 \in q .. n - 1 /\ k - 1 + 1 = k
      BY <1>1, <2>1
    <3> QED BY <2>1, <3>2, <3>3
  <2>5. q - 1 <= o /\ o <= m /\ q - 1 + 1 = q
    BY <1>1, <2>1
  <2>6. LeftFrom(r, q - 1, list, positions, K)
    BY <2>1, <2>2, <2>3, <2>4, <2>5 DEF LeftFrom, m
  <2> QED BY <1>4, <2>6 DEF r
<1>5. CASE q \notin positions
  <2> HIDE DEF m, n
  <2>1. \A k \in 1 .. q - 1 : l[k] = list[k]
    BY <1>1
  <2>2. ASSUME NEW k \in q .. n PROVE \E j \in q .. m : j \notin positions /\ l[k] = list[j]
    <3>1. CASE k = q
      <4>1. q \in q .. m /\ l[q] = list[q]
        BY <1>1
      <4> QED BY <1>5, <3>1, <4>1
    <3>2. CASE k # q
      <4>1. k \in q + 1 .. n
        BY <1>1, <3>2
      <4>2. PICK j \in q + 1 .. m : j \notin positions /\ l[k] = list[j]
        BY <1>2, <4>1
      <4>3. j \in q .. m
        BY <1>1
      <4> QED BY <4>2, <4>3
    <3> QED BY <3>1, <3>2
  <2>3. ASSUME NEW j \in q .. m, j \notin positions PROVE \E k \in q .. n : l[k] = list[j]
    <3>1. CASE j = q
      <4>1. q \in q .. n /\ l[q] = list[q]
        BY <1>1
      <4> QED BY <3>1, <4>1
    <3>2. CASE j # q
      <4>1. j \in q + 1 .. m
        BY <1>1, <3>2
      <4>2. PICK k \in q + 1 .. n : l[k] = list[j]
        BY <1>3, <2>3, <4>1
      <4>3. k \in q .. n
        BY <1>1
      <4> QED BY <4>2, <4>3
    <3> QED BY <3>1, <3>2
  <2>4. q - 1 <= n /\ q - 1 + 1 = q
    BY <1>1
  <2>5. LeftFrom(l, q - 1, list, positions, K)
    BY <1>1, <2>1, <2>2, <2>3, <2>4 DEF LeftFrom, m, n
  <2> QED BY <1>5, <2>5
<1> QED BY <1>4, <1>5

(* All others are left, and nothing else.                                          *)
LEMMA RemoveAssertionsIs ==
  ASSUME NEW K, NEW list \in Seq(K), NEW positions
  PROVE  LeftFrom(A!RemoveAssertions(list, positions), 0, list, positions, K)
<1> DEFINE m == Len(list)
           at(k) == m - k + 1
           step(l, k) == IF at(k) \in positions THEN A!RemoveAt(l, at(k)) ELSE l
           Long(k) == {l \in Seq(K) : m - k <= Len(l)}
           Unfolds(f) == f = [k \in 0 .. m |-> IF k = 0 THEN list
                                ELSE IF Len(list) - k + 1 \in positions
                                     THEN A!RemoveAt(f[k - 1], Len(list) - k + 1)
                                     ELSE f[k - 1]]
           Z == Seq(K)
           total(l, k) == IF LeftFrom(l, at(k), list, positions, K) THEN step(l, k) ELSE list
           next == [u \in Z \X (1 .. m) |-> total(u[1], u[2])]
<1>1. m \in Nat /\ list \in Z
  OBVIOUS
<1> HIDE DEF m
<1>2. ASSUME NEW k \in 1 .. m, NEW l, LeftFrom(l, at(k), list, positions, K)
      PROVE  LeftFrom(step(l, k), m - k, list, positions, K)
  <2>1. at(k) \in 1 .. Len(list) /\ at(k) - 1 = m - k
    BY <1>1 DEF m
  <2> HIDE DEF at
  <2> QED BY <1>2, <2>1, OneMoreIsLookedAt
<1>3. next \in [Z \X (1 .. m) -> Z]
  <2>1. ASSUME NEW u \in Z \X (1 .. m) PROVE total(u[1], u[2]) \in Z
    <3>1. CASE LeftFrom(u[1], at(u[2]), list, positions, K)
      <4> DEFINE l == u[1]
                 k == u[2]
      <4>1. k \in 1 .. m /\ LeftFrom(l, at(k), list, positions, K)
        BY <3>1
      <4> HIDE DEF l, k, at, step
      <4>2. LeftFrom(step(l, k), m - k, list, positions, K)
        BY <1>2, <4>1
      <4>3. step(l, k) \in Z
        BY <4>2 DEF LeftFrom
      <4> QED BY <4>1, <4>3 DEF l, k
    <3>2. CASE ~LeftFrom(u[1], at(u[2]), list, positions, K)
      BY <1>1, <3>2
    <3> QED BY <3>1, <3>2
  <2> HIDE DEF total, Z
  <2> QED BY <2>1, Zenon
<1>4. PICK f : Recurs(f, m, Z, list, next)
  <2> HIDE DEF next, Z
  <2> QED BY <1>1, <1>3, RecursionFromExists
<1>5. ASSUME NEW k \in 1 .. m PROVE f[k] = total(f[k - 1], k)
  <2>1. <<f[k - 1], k>> \in Z \X (1 .. m)
    BY <1>1, <1>4 DEF Recurs
  <2> HIDE DEF total, Z
  <2> QED BY <1>4, <2>1 DEF Recurs
<1> HIDE DEF next
<1>6. f[0] = list /\ f \in [0 .. m -> Z]
  BY <1>4 DEF Recurs
<1>7. ASSUME NEW f_1, f_1[0] = list, \A k \in 1 .. m : LeftFrom(f_1[k - 1], at(k), list, positions, K) =>
                                                           f_1[k] = step(f_1[k - 1], k)
      PROVE  \A k \in 0 .. m : LeftFrom(f_1[k], m - k, list, positions, K)
  <2> DEFINE T == {k \in 0 .. m : LeftFrom(f_1[k], m - k, list, positions, K)}
  <2>1. ASSUME NEW n \in 0 .. m, \A k \in 0 .. m : k < n => k \in T
        PROVE  n \in T
    <3>1. CASE n = 0
      <4>1. LeftFrom(list, m, list, positions, K)
        BY <1>1 DEF LeftFrom, m
      <4>2. m - n = m
        BY <1>1, <3>1
      <4> QED BY <1>7, <3>1, <4>1, <4>2
    <3>2. CASE n # 0
      <4>1. n - 1 \in 0 .. m /\ n - 1 < n /\ n \in 1 .. m /\ m - (n - 1) = at(n)
        BY <1>1, <3>2
      <4>2. LeftFrom(f_1[n - 1], at(n), list, positions, K)
        BY <2>1, <4>1
      <4> HIDE DEF at, step
      <4>3. LeftFrom(step(f_1[n - 1], n), m - n, list, positions, K)
        BY <1>2, <4>1, <4>2
      <4> QED BY <1>7, <4>1, <4>2, <4>3
    <3> QED BY <3>1, <3>2
  <2>2. T = 0 .. m
    <3> HIDE DEF T
    <3>1. T \subseteq 0 .. m
      BY DEF T
    <3> QED BY <1>1, <2>1, <3>1, AllUpTo
  <2> QED BY <2>2
<1>8. \A k \in 0 .. m : LeftFrom(f[k], m - k, list, positions, K)
  <2>1. \A k \in 1 .. m : LeftFrom(f[k - 1], at(k), list, positions, K) => f[k] = step(f[k - 1], k)
    BY <1>5
  <2> HIDE DEF at, step
  <2> QED BY <1>6, <1>7, <2>1
<1>9. Unfolds(f)
  <2>1. ASSUME NEW k \in 1 .. m PROVE f[k] = step(f[k - 1], k)
    <3>1. LeftFrom(f[k - 1], at(k), list, positions, K)
      <4>1. k - 1 \in 0 .. m /\ m - (k - 1) = at(k)
        BY <1>1
      <4> HIDE DEF at
      <4> QED BY <1>8, <4>1
    <3> QED BY <1>5, <3>1
  <2>2. f = [k \in 0 .. m |-> f[k]]
    BY <1>6
  <2>3. ASSUME NEW k \in 0 .. m
        PROVE  f[k] = IF k = 0 THEN list
                      ELSE IF Len(list) - k + 1 \in positions
                           THEN A!RemoveAt(f[k - 1], Len(list) - k + 1) ELSE f[k - 1]
    <3>1. k # 0 => k \in 1 .. m
      BY <1>1
    <3> QED BY <1>6, <2>1, <3>1 DEF m
  <2> QED BY <2>2, <2>3, Zenon
<1> DEFINE chosen == CHOOSE f_1 : Unfolds(f_1)
<1>10. A!RemoveAssertions(list, positions) = chosen[m]
  BY DEF A!RemoveAssertions, m
<1> HIDE DEF Unfolds
<1>11. Unfolds(chosen)
  BY <1>9
<1> HIDE DEF chosen
<1>12. chosen[0] = list /\ \A k \in 1 .. m : chosen[k] = step(chosen[k - 1], k)
  <2>1. chosen = [k \in 0 .. m |-> IF k = 0 THEN list
                                ELSE IF Len(list) - k + 1 \in positions
                                     THEN A!RemoveAt(chosen[k - 1], Len(list) - k + 1)
                                     ELSE chosen[k - 1]]
    BY <1>11 DEF Unfolds
  <2>2. \A k \in 0 .. m : chosen[k] = IF k = 0 THEN list
                                ELSE IF Len(list) - k + 1 \in positions
                                     THEN A!RemoveAt(chosen[k - 1], Len(list) - k + 1)
                                     ELSE chosen[k - 1]
    BY <2>1
  <2>3. 0 \in 0 .. m /\ \A k \in 1 .. m : k \in 0 .. m /\ k # 0
    BY <1>1
  <2> QED BY <2>2, <2>3 DEF m
<1>13. LeftFrom(chosen[m], m - m, list, positions, K)
  <2>1. m \in 0 .. m
    BY <1>1
  <2> HIDE DEF step, at
  <2> QED BY <1>7, <1>12, <2>1
<1>14. m - m = 0
  BY <1>1
<1> QED BY <1>10, <1>13, <1>14

--------------------------------------------------------------------------------
(* Assertions: what is observed.                                                   *)

IsARun(t, run) == run = A!NoRun \/ run \in AsRuns[t]

LEMMA RunIs ==
  ASSUME NEW t \in DOMAIN AsTests, NEW run, IsARun(t, run)
  PROVE  run.timeout \in BOOLEAN /\ (~run.timeout => A!IsRunOf(t, run))
<1>1. \A r \in AsRuns[t] : r.timeout \in BOOLEAN /\ A!IsRunOf(t, r)
  BY OtherConstants DEF A!ConstantsType
<1>2. CASE run = A!NoRun
  BY <1>2 DEF A!NoRun
<1>3. CASE run \in AsRuns[t]
  BY <1>1, <1>3
<1> QED BY <1>2, <1>3 DEF IsARun

LEMMA StatementsAre ==
  ASSUME NEW t \in DOMAIN AsTests
  PROVE  A!Statements(t) = 1 .. Len(AsTests[t]) /\ Len(AsTests[t]) \in Nat
BY OtherConstants DEF A!ConstantsType, A!Statements

(* Nothing is raised before the last step that is observed.                        *)
LEMMA EndsIs ==
  ASSUME NEW t \in DOMAIN AsTests, NEW run, IsARun(t, run), ~run.timeout
  PROVE  /\ A!Ends(run) \in 0 .. Len(AsTests[t])
         /\ \A j \in A!Statements(t) : j < A!Ends(run) => run.steps[j].raises = "none"
<1> DEFINE m == Len(AsTests[t])
           raising == {i \in DOMAIN run.steps : run.steps[i].raises # "none"}
<1>1. m \in Nat /\ A!Statements(t) = 1 .. m
  BY StatementsAre
<1>2. DOMAIN run.steps = 1 .. m /\ Len(run.steps) = m
  BY <1>1, RunIs DEF A!IsRunOf, A!Statements
<1>3. CASE raising = {}
  <2>1. A!Ends(run) = m
    BY <1>2, <1>3 DEF A!Ends
  <2> QED BY <1>1, <1>2, <1>3, <2>1
<1>4. CASE raising # {}
  <2>1. A!Ends(run) = A!Min(raising)
    BY <1>4 DEF A!Ends
  <2>2. raising \subseteq 1 .. m /\ raising \subseteq Nat
    BY <1>2
  <2>3. A!Min(raising) \in raising /\ \A y \in raising : A!Min(raising) <= y
    <3> HIDE DEF raising
    <3> QED BY <1>1, <1>4, <2>2, MinIs
  <2>4. A!Ends(run) \in 1 .. m /\ \A j \in raising : A!Ends(run) <= j
    BY <2>1, <2>2, <2>3
  <2>5. ASSUME NEW j \in 1 .. m, j < A!Ends(run) PROVE run.steps[j].raises = "none"
    <3>1. j \notin raising
      <4> DEFINE e == A!Ends(run)
      <4>1. e \in 1 .. m /\ j < e /\ (j \in raising => e <= j)
        BY <2>4, <2>5
      <4> HIDE DEF e, raising
      <4> QED BY <1>1, <4>1
    <3> QED BY <1>2, <3>1
  <2>6. A!Ends(run) \in 0 .. m
    BY <2>4
  <2> QED BY <1>1, <2>5, <2>6
<1> QED BY <1>3, <1>4

(* What is said of an object is as it is.                                          *)
LEMMA CheckedIs ==
  ASSUME NEW objects, NEW r \in DOMAIN objects,
         IsFiniteSet(objects[r].fields), objects[r].fields \subseteq DOMAIN objects
  PROVE  /\ IsFiniteSet(A!CheckReference(objects, r))
         /\ \A f \in A!CheckReference(objects, r) :
              /\ f.ref \in DOMAIN objects /\ A!Verdict(objects, f) = "holds"
              /\ f.is = IF f.aspect = "type" THEN objects[f.ref].type ELSE objects[f.ref].value
<1>1. ASSUME NEW q \in DOMAIN objects
      PROVE  /\ IsFiniteSet(A!CheckField(objects, q))
             /\ \A f \in A!CheckField(objects, q) :
                  /\ f.ref \in DOMAIN objects /\ A!Verdict(objects, f) = "holds"
                  /\ f.is = IF f.aspect = "type" THEN objects[f.ref].type ELSE objects[f.ref].value
  <2> DEFINE v == objects[q]
             plain == A!Fact(q, "value", v.value)
             type == A!Fact(q, "type", v.type)
             long == A!Fact(q, "length", v.value)
  <2>1. A!CheckField(objects, q) \in {{plain}, {type}, {type} \cup {long}}
    BY DEF A!CheckField
  <2>2. A!CheckField(objects, q) \subseteq {plain, type, long}
    BY <2>1
  <2>3. IsFiniteSet(A!CheckField(objects, q))
    <3>1. IsFiniteSet({plain}) /\ IsFiniteSet({type}) /\ IsFiniteSet({long})
      BY FS_Singleton
    <3>2. IsFiniteSet({type} \cup {long})
      BY <3>1, FS_Union
    <3> HIDE DEF plain, type, long
    <3> QED BY <2>1, <3>1, <3>2
  <2>4. long \in A!CheckField(objects, q) => v.kind = "sized"
    BY DEF A!CheckField, A!Fact
  <2>5. ASSUME NEW f \in A!CheckField(objects, q)
        PROVE  /\ f.ref \in DOMAIN objects /\ A!Verdict(objects, f) = "holds"
               /\ f.is = IF f.aspect = "type" THEN objects[f.ref].type ELSE objects[f.ref].value
    <3>1. f = plain \/ f = type \/ (f = long /\ v.kind = "sized")
      BY <2>2, <2>4
    <3>2. /\ f.ref = q /\ f.aspect \in {"value", "type", "length"}
          /\ f.aspect = "length" => v.kind = "sized"
          /\ f.is = IF f.aspect = "type" THEN v.type ELSE v.value
      BY <3>1 DEF A!Fact
    <3> QED BY <3>2 DEF A!Verdict
  <2> QED BY <2>3, <2>5
<1> DEFINE below == {A!CheckField(objects, q) : q \in objects[r].fields}
<1>2. IsFiniteSet(UNION below)
  <2> DEFINE g == [q \in objects[r].fields |-> A!CheckField(objects, q)]
  <2>1. below = {g[q] : q \in objects[r].fields}
    OBVIOUS
  <2>2. IsFiniteSet({g[q] : q \in objects[r].fields})
    <3>1. DOMAIN g = objects[r].fields
      OBVIOUS
    <3> HIDE DEF g
    <3> QED BY <3>1, ImageIsFinite
  <2>3. \A u \in below : IsFiniteSet(u)
    BY <1>1
  <2> HIDE DEF below
  <2> QED BY <2>1, <2>2, <2>3, FS_UNION
<1>3. A!CheckReference(objects, r) \in {A!CheckField(objects, r), A!CheckField(objects, r) \cup UNION below}
  BY DEF A!CheckReference
<1>4. IsFiniteSet(A!CheckReference(objects, r))
  <2>1. IsFiniteSet(A!CheckField(objects, r))
    BY <1>1
  <2>2. IsFiniteSet(A!CheckField(objects, r) \cup UNION below)
    BY <1>2, <2>1, FS_Union
  <2> QED BY <1>3, <2>1, <2>2
<1>5. \A f \in A!CheckReference(objects, r) : \E q \in DOMAIN objects : f \in A!CheckField(objects, q)
  BY <1>3
<1> QED BY <1>1, <1>4, <1>5

(* What is observed is so, an exception is observed alone, and nothing is after a  *)
(* statement that calls nothing.                                                    *)
ObservedOf(t, run, i, f) ==
  /\ f.ref = "exception" => A!Observed(t, run, i) = {f}
  /\ f.ref = "exception" <=> run.steps[i].raises # "none"
  /\ A!HoldsIn(run, i, f)
  /\ f.is = IF f.ref = "exception" THEN run.steps[i].raises
            ELSE IF f.aspect = "type" THEN run.steps[i].objects[f.ref].type
            ELSE run.steps[i].objects[f.ref].value

LEMMA ObservedIs ==
  ASSUME NEW t \in DOMAIN AsTests, NEW run, IsARun(t, run), ~run.timeout,
         NEW i \in A!Statements(t)
  PROVE  /\ IsFiniteSet(A!Observed(t, run, i))
         /\ \A f \in A!Observed(t, run, i) : ObservedOf(t, run, i, f)
         /\ ~AsTests[t][i].calls /\ run.steps[i].raises = "none" => A!Observed(t, run, i) = {}
<1> DEFINE step == run.steps[i]
           objects == step.objects
           new == AsTests[t][i].creates
           primitive == new \in DOMAIN objects /\ objects[new].home = "primitive"
           statics == {r \in DOMAIN objects :
                         \/ objects[r].of = "module"
                         \/ \E w \in A!Watched(t, run, i) : objects[r].of = objects[w].type}
           all == A!Watched(t, run, i) \cup statics \cup IF primitive THEN {new} ELSE {}
           checked == {A!CheckReference(objects, r) : r \in all}
<1>1. /\ IsFiniteSet(DOMAIN objects) /\ "exception" \notin DOMAIN objects
      /\ \A r \in DOMAIN objects :
           IsFiniteSet(objects[r].fields) /\ objects[r].fields \subseteq DOMAIN objects
  <2>1. A!IsRunOf(t, run)
    BY RunIs
  <2>2. i \in DOMAIN run.steps
    BY <2>1 DEF A!IsRunOf, A!Statements
  <2> HIDE DEF objects
  <2>3. /\ A!IsFiniteSet(DOMAIN objects) /\ "exception" \notin DOMAIN objects
        /\ \A r \in DOMAIN objects :
             A!IsFiniteSet(objects[r].fields) /\ objects[r].fields \subseteq DOMAIN objects
    BY <2>1, <2>2 DEF A!IsRunOf, objects
  <2> QED BY <2>3 DEF A!IsFiniteSet, IsFiniteSet
<1>2. CASE step.raises # "none"
  <2> DEFINE e == A!Fact("exception", "type", step.raises)
  <2>1. A!Observed(t, run, i) = {e}
    BY <1>2 DEF A!Observed
  <2>2. IsFiniteSet({e})
    BY FS_Singleton
  <2>3. e.ref = "exception" /\ e.is = step.raises
    BY DEF A!Fact
  <2> HIDE DEF e
  <2>4. ASSUME NEW f \in A!Observed(t, run, i) PROVE ObservedOf(t, run, i, f)
    BY <1>2, <2>1, <2>3 DEF ObservedOf, A!HoldsIn
  <2> QED BY <1>2, <2>1, <2>2, <2>4
<1>3. CASE step.raises = "none" /\ ~AsTests[t][i].calls
  <2>1. A!Observed(t, run, i) = {}
    BY <1>3 DEF A!Observed
  <2> QED BY <2>1, FS_EmptySet
<1>4. CASE step.raises = "none" /\ AsTests[t][i].calls
  <2>1. A!Observed(t, run, i) = UNION checked
    BY <1>4 DEF A!Observed
  <2>2. all \subseteq DOMAIN objects
    BY DEF A!Watched
  <2> HIDE DEF all
  <2>3. IsFiniteSet(UNION checked)
    <3> DEFINE g == [r \in all |-> A!CheckReference(objects, r)]
    <3>1. checked = {g[r] : r \in all}
      OBVIOUS
    <3>2. IsFiniteSet(all)
      BY <1>1, <2>2, FS_Subset
    <3>3. IsFiniteSet({g[r] : r \in all})
      <4>1. DOMAIN g = all
        OBVIOUS
      <4> HIDE DEF g
      <4> QED BY <3>2, <4>1, ImageIsFinite
    <3>4. \A u \in checked : IsFiniteSet(u)
      BY <1>1, <2>2, CheckedIs
    <3> HIDE DEF checked
    <3> QED BY <3>1, <3>3, <3>4, FS_UNION
  <2>4. ASSUME NEW f \in UNION checked PROVE ObservedOf(t, run, i, f)
    <3>1. PICK r \in all : f \in A!CheckReference(objects, r)
      OBVIOUS
    <3>2. /\ f.ref \in DOMAIN objects /\ A!Verdict(objects, f) = "holds"
          /\ f.is = IF f.aspect = "type" THEN objects[f.ref].type ELSE objects[f.ref].value
      BY <1>1, <2>2, <3>1, CheckedIs
    <3>3. f.ref # "exception"
      BY <1>1, <3>2
    <3> QED BY <1>4, <3>2, <3>3 DEF ObservedOf, A!HoldsIn
  <2> HIDE DEF checked
  <2> QED BY <1>4, <2>1, <2>3, <2>4
<1>5. AsTests[t][i].calls \/ ~AsTests[t][i].calls
  OBVIOUS
<1> QED BY <1>2, <1>3, <1>4, <1>5

--------------------------------------------------------------------------------
(* Assertions: what is added of them.                                              *)

Sizes(f, t, of) ==
  /\ f \in [0 .. Len(AsTests[t]) -> Nat] /\ f[0] = Len(AsTests[t])
  /\ \A n \in 1 .. Len(AsTests[t]) : f[n] = f[n - 1] + Len(of[n])

SizeOf(t, of) == \E f : Sizes(f, t, of) /\ A!SizeWithAssertions(t, of) = f[Len(AsTests[t])]

LEMMA SizeIs ==
  ASSUME NEW t \in DOMAIN AsTests, NEW of, \A i \in A!Statements(t) : Len(of[i]) \in Nat
  PROVE  SizeOf(t, of)
<1> DEFINE m == Len(AsTests[t])
           Unfolds(f) == f = [n \in 0 .. m |-> IF n = 0 THEN m ELSE f[n - 1] + Len(of[n])]
           next == [u \in Nat \X (1 .. m) |-> u[1] + Len(of[u[2]])]
<1>1. m \in Nat /\ \A n \in 1 .. m : Len(of[n]) \in Nat
  BY StatementsAre
<1> HIDE DEF m
<1>2. next \in [Nat \X (1 .. m) -> Nat]
  <2>1. ASSUME NEW u \in Nat \X (1 .. m) PROVE u[1] + Len(of[u[2]]) \in Nat
    <3>1. u[1] \in Nat /\ Len(of[u[2]]) \in Nat
      BY <1>1
    <3> QED BY <3>1
  <2> QED BY <2>1, Zenon
<1>3. PICK f : Recurs(f, m, Nat, m, next)
  <2> HIDE DEF next
  <2> QED BY <1>1, <1>2, RecursionFromExists
<1>4. \A n \in 1 .. m : f[n] = f[n - 1] + Len(of[n])
  <2> SUFFICES ASSUME NEW n \in 1 .. m PROVE f[n] = f[n - 1] + Len(of[n])
    OBVIOUS
  <2>1. <<f[n - 1], n>> \in Nat \X (1 .. m)
    BY <1>1, <1>3 DEF Recurs
  <2> QED BY <1>3, <2>1 DEF Recurs
<1> HIDE DEF next
<1>5. Unfolds(f)
  <2>1. f = [n \in 0 .. m |-> f[n]] /\ f[0] = m
    BY <1>3 DEF Recurs
  <2>2. \A n \in 0 .. m : n # 0 => n \in 1 .. m
    BY <1>1
  <2>3. \A n \in 0 .. m : f[n] = IF n = 0 THEN m ELSE f[n - 1] + Len(of[n])
    BY <1>4, <2>1, <2>2
  <2> QED BY <2>1, <2>3, Zenon
<1> DEFINE chosen == CHOOSE f_1 : Unfolds(f_1)
<1>6. A!SizeWithAssertions(t, of) = chosen[m]
  BY DEF A!SizeWithAssertions, m
<1> HIDE DEF Unfolds
<1>7. Unfolds(chosen)
  BY <1>5
<1> HIDE DEF chosen
<1>8. /\ chosen = [n \in 0 .. m |-> chosen[n]] /\ chosen[0] = m
      /\ \A n \in 1 .. m : chosen[n] = chosen[n - 1] + Len(of[n])
  <2>1. chosen = [n \in 0 .. m |-> IF n = 0 THEN m ELSE chosen[n - 1] + Len(of[n])]
    BY <1>7 DEF Unfolds
  <2>2. \A n \in 0 .. m : chosen[n] = IF n = 0 THEN m ELSE chosen[n - 1] + Len(of[n])
    BY <2>1
  <2>3. chosen = [n \in 0 .. m |-> chosen[n]]
    BY <2>1
  <2>4. 0 \in 0 .. m /\ \A n \in 1 .. m : n \in 0 .. m /\ n # 0
    BY <1>1
  <2> QED BY <2>2, <2>3, <2>4
<1>9. \A n \in 0 .. m : chosen[n] \in Nat
  <2> DEFINE T == {n \in 0 .. m : chosen[n] \in Nat}
  <2>1. ASSUME NEW n \in 0 .. m, \A k \in 0 .. m : k < n => k \in T
        PROVE  n \in T
    <3>1. CASE n = 0
      BY <1>1, <1>8, <3>1
    <3>2. CASE n # 0
      <4>1. n - 1 \in 0 .. m /\ n - 1 < n /\ n \in 1 .. m
        BY <1>1, <3>2
      <4>2. chosen[n - 1] \in Nat /\ Len(of[n]) \in Nat
        BY <1>1, <2>1, <4>1
      <4>3. chosen[n - 1] + Len(of[n]) \in Nat
        BY <4>2
      <4> QED BY <1>8, <4>1, <4>3
    <3> QED BY <3>1, <3>2
  <2>2. T = 0 .. m
    BY <1>1, <2>1, AllUpTo
  <2> QED BY <2>2
<1>10. Sizes(chosen, t, of)
  BY <1>8, <1>9 DEF Sizes, m
<1> QED BY <1>6, <1>10 DEF SizeOf, m

(* The size grows by what is added.                                                *)
LEMMA SizeGrows ==
  ASSUME NEW t \in DOMAIN AsTests, NEW K, NEW of \in [A!Statements(t) -> Seq(K)],
         NEW i \in A!Statements(t), of[i] = << >>,
         NEW of2 \in [A!Statements(t) -> Seq(K)],
         \A k \in A!Statements(t) : k # i => of2[k] = of[k]
  PROVE  /\ A!SizeWithAssertions(t, of) \in Nat
         /\ A!SizeWithAssertions(t, of2) = A!SizeWithAssertions(t, of) + Len(of2[i])
<1> DEFINE m == Len(AsTests[t])
           n2 == Len(of2[i])
<1>1. m \in Nat /\ A!Statements(t) = 1 .. m /\ n2 \in Nat /\ i \in 1 .. m
  BY StatementsAre
<1>2. /\ \A k \in 1 .. m : Len(of[k]) \in Nat /\ Len(of2[k]) \in Nat
      /\ \A k \in 1 .. m : k # i => Len(of2[k]) = Len(of[k])
      /\ Len(of[i]) = 0 /\ Len(of2[i]) = n2
  BY <1>1
<1> HIDE DEF m, n2
<1>3. SizeOf(t, of) /\ SizeOf(t, of2)
  BY <1>1, <1>2, SizeIs
<1>4. PICK f : Sizes(f, t, of) /\ A!SizeWithAssertions(t, of) = f[m]
  BY <1>3 DEF SizeOf, m
<1>5. PICK g : Sizes(g, t, of2) /\ A!SizeWithAssertions(t, of2) = g[m]
  BY <1>3 DEF SizeOf, m
<1>6. /\ f[0] = m /\ \A n \in 0 .. m : f[n] \in Nat
      /\ \A n \in 1 .. m : f[n] = f[n - 1] + Len(of[n])
  BY <1>4 DEF Sizes, m
<1>7. /\ g[0] = m /\ \A n \in 0 .. m : g[n] \in Nat
      /\ \A n \in 1 .. m : g[n] = g[n - 1] + Len(of2[n])
  BY <1>5 DEF Sizes, m
<1> DEFINE T == {n \in 0 .. m : g[n] = f[n] + (IF n < i THEN 0 ELSE n2)}
<1>8. ASSUME NEW n \in 0 .. m, \A k \in 0 .. m : k < n => k \in T
      PROVE  n \in T
  <2>1. CASE n = 0
    <3>1. 0 < i /\ m + 0 = m
      BY <1>1
    <3>2. g[0] = f[0] + (IF 0 < i THEN 0 ELSE n2)
      BY <1>6, <1>7, <3>1
    <3> QED BY <2>1, <3>2
  <2>2. CASE n # 0
    <3>1. n - 1 \in 0 .. m /\ n - 1 < n /\ n \in 1 .. m
      BY <1>1, <2>2
    <3>2. g[n - 1] = f[n - 1] + (IF n - 1 < i THEN 0 ELSE n2)
      BY <1>8, <3>1
    <3> DEFINE a == f[n - 1]
               b == g[n - 1]
               c == Len(of[n])
               d == Len(of2[n])
    <3>3. a \in Nat /\ b \in Nat /\ c \in Nat /\ d \in Nat /\ f[n] = a + c /\ g[n] = b + d
      BY <1>2, <1>6, <1>7, <3>1
    <3>4. (n # i => d = c) /\ (n = i => c = 0 /\ d = n2)
      BY <1>2, <3>1
    <3>5. b = a + (IF n - 1 < i THEN 0 ELSE n2)
      BY <3>2
    <3> HIDE DEF a, b, c, d
    <3>6. b + d = a + c + (IF n < i THEN 0 ELSE n2)
      <4>1. CASE n < i
        BY <1>1, <3>1, <3>3, <3>4, <3>5, <4>1
      <4>2. CASE n = i
        BY <1>1, <3>1, <3>3, <3>4, <3>5, <4>2
      <4>3. CASE n > i
        <5>1. ~(n - 1 < i) /\ n # i /\ ~(n < i)
          BY <1>1, <3>1, <4>3
        <5> QED BY <1>1, <3>3, <3>4, <3>5, <5>1
      <4> QED BY <1>1, <3>1, <4>1, <4>2, <4>3
    <3> QED BY <3>3, <3>6
  <2> QED BY <2>1, <2>2
<1>9. T = 0 .. m
  <2> HIDE DEF T
  <2>1. T \subseteq 0 .. m
    BY DEF T
  <2> QED BY <1>1, <1>8, <2>1, AllUpTo
<1>10. g[m] = f[m] + n2 /\ f[m] \in Nat
  <2>1. m \in 0 .. m /\ ~(m < i)
    BY <1>1
  <2>2. g[m] = f[m] + (IF m < i THEN 0 ELSE n2)
    BY <1>9, <2>1
  <2> QED BY <1>6, <2>1, <2>2
<1> QED BY <1>4, <1>5, <1>10 DEF n2

Fresh(t, run, i) == A!SetToSeq(A!AssertionTrace(t, run)[i] \ A!Previous(A!AssertionTrace(t, run), t, i))
Noticed(t, run) == UNION {A!AssertionTrace(t, run)[i] : i \in A!Statements(t)}

LEMMA TraceIsFinite ==
  ASSUME NEW t \in DOMAIN AsTests, NEW run, IsARun(t, run), NEW i \in A!Statements(t)
  PROVE  /\ IsFiniteSet(A!AssertionTrace(t, run)[i])
         /\ A!AssertionTrace(t, run)[i] # {} =>
              /\ ~run.timeout /\ i <= A!Ends(run)
              /\ A!AssertionTrace(t, run)[i] = A!Observed(t, run, i)
<1> DEFINE none == run.timeout \/ i > A!Ends(run)
<1>1. A!AssertionTrace(t, run)[i] = IF none THEN {} ELSE A!Observed(t, run, i)
  BY DEF A!AssertionTrace
<1>2. run.timeout \in BOOLEAN
  BY RunIs
<1>3. ~none => ~run.timeout /\ i <= A!Ends(run)
  <2>1. ~run.timeout => A!Ends(run) \in Nat /\ i \in Nat
    BY EndsIs, StatementsAre
  <2> QED BY <1>2, <2>1
<1>4. ~none => IsFiniteSet(A!Observed(t, run, i))
  BY <1>3, ObservedIs
<1> HIDE DEF none
<1> QED BY <1>1, <1>3, <1>4, FS_EmptySet

LEMMA FreshIs ==
  ASSUME NEW t \in DOMAIN AsTests, NEW run, IsARun(t, run), NEW i \in A!Statements(t)
  PROVE  /\ Fresh(t, run, i) \in Seq(A!AssertionTrace(t, run)[i])
         /\ Len(Fresh(t, run, i)) <= Cardinality(A!AssertionTrace(t, run)[i])
         /\ Cardinality(A!AssertionTrace(t, run)[i]) \in Nat
         /\ \A f \in A!AssertionTrace(t, run)[i] \ A!Previous(A!AssertionTrace(t, run), t, i) :
              \E k \in DOMAIN Fresh(t, run, i) : Fresh(t, run, i)[k] = f
<1> DEFINE all == A!AssertionTrace(t, run)[i]
           new == all \ A!Previous(A!AssertionTrace(t, run), t, i)
           s == A!SetToSeq(new)
<1>1. IsFiniteSet(all)
  BY TraceIsFinite
<1>2. new \subseteq all
  OBVIOUS
<1> HIDE DEF all
<1>3. IsFiniteSet(new) /\ Cardinality(new) <= Cardinality(all) /\ Cardinality(all) \in Nat
  BY <1>1, <1>2, FS_Subset, FS_CardinalityType
<1> HIDE DEF new
<1>4. /\ s \in Seq(new) /\ Len(s) = Cardinality(new)
      /\ \A x \in new : \E k \in DOMAIN s : s[k] = x
  BY <1>3, AllInSequence
<1>5. s \in Seq(all)
  BY <1>2, <1>4
<1>6. Fresh(t, run, i) = s
  BY DEF Fresh, s, new, all
<1> HIDE DEF s
<1> QED BY <1>3, <1>4, <1>5, <1>6 DEF all, new

(* The lists up to the n-th: all that is new, if there is room.                    *)
AddedUpTo(l, n, t, run) ==
  \A j \in A!Statements(t) :
    /\ n < j => l[j] = << >>
    /\ l[j] \in Seq(A!AssertionTrace(t, run)[j])
    /\ Len(l[j]) <= Cardinality(A!AssertionTrace(t, run)[j]) /\ Len(l[j]) <= AsMaxLength
    /\ j <= n /\ A!SizeWithAssertions(t, l) < AsMaxLength => l[j] = Fresh(t, run, j)

OneAdded(l, n, t, run) ==
  LET room == A!Max({0, AsMaxLength - A!SizeWithAssertions(t, l)})
  IN  [l EXCEPT ![n] = SubSeq(Fresh(t, run, n), 1, A!Min({room, Len(Fresh(t, run, n))}))]

LEMMA OneMoreIsAdded ==
  ASSUME NEW t \in DOMAIN AsTests, NEW run, IsARun(t, run), NEW n \in A!Statements(t),
         NEW l \in [A!Statements(t) -> Seq(Noticed(t, run))], AddedUpTo(l, n - 1, t, run)
  PROVE  /\ OneAdded(l, n, t, run) \in [A!Statements(t) -> Seq(Noticed(t, run))]
         /\ AddedUpTo(OneAdded(l, n, t, run), n, t, run)
<1> DEFINE m == Len(AsTests[t])
           K == Noticed(t, run)
           fresh == Fresh(t, run, n)
           c == Len(fresh)
           old == A!SizeWithAssertions(t, l)
           room == A!Max({0, AsMaxLength - old})
           q == A!Min({room, c})
           x == SubSeq(fresh, 1, q)
           l2 == [l EXCEPT ![n] = x]
           new == A!SizeWithAssertions(t, l2)
           trace == A!AssertionTrace(t, run)[n]
<1>1. m \in Nat /\ A!Statements(t) = 1 .. m /\ n \in 1 .. m /\ AsMaxLength \in Nat
  BY StatementsAre, OtherConstants DEF A!ConstantsType
<1>2. /\ fresh \in Seq(trace) /\ c <= Cardinality(trace) /\ Cardinality(trace) \in Nat /\ c \in Nat
      /\ trace \subseteq K
  <2>1. fresh \in Seq(trace) /\ c <= Cardinality(trace) /\ Cardinality(trace) \in Nat
    BY FreshIs
  <2>2. trace \subseteq K
    BY DEF Noticed
  <2> HIDE DEF fresh, trace, K
  <2> QED BY <2>1, <2>2
<1>3. l[n] = << >>
  BY <1>1 DEF AddedUpTo
<1>4. old \in Nat
  <2>1. << >> \in Seq(K)
    OBVIOUS
  <2>2. l \in [A!Statements(t) -> Seq(K)]
    OBVIOUS
  <2> HIDE DEF K
  <2> QED BY <1>3, <2>1, <2>2, SizeGrows
<1> HIDE DEF old, fresh, trace, K, m
<1>5. room \in Nat /\ room <= AsMaxLength /\ room = IF old < AsMaxLength THEN AsMaxLength - old ELSE 0
  <2>1. room = IF 0 >= AsMaxLength - old THEN 0 ELSE AsMaxLength - old
    <3>1. 0 \in Int /\ AsMaxLength - old \in Int
      BY <1>1, <1>4
    <3> QED BY <3>1, MaxIs
  <2> HIDE DEF room
  <2> QED BY <1>1, <1>4, <2>1
<1> HIDE DEF room, c
<1>6. q \in Nat /\ q <= room /\ q <= c /\ (q = room \/ q = c)
  <2> DEFINE T == {room, c}
  <2>1. T \subseteq Nat /\ T # {}
    BY <1>2, <1>5
  <2>2. A!Min(T) \in T /\ \A y \in T : A!Min(T) <= y
    <3> HIDE DEF T
    <3> QED BY <2>1, MinIs
  <2> QED BY <1>2, <1>5, <2>2
<1> HIDE DEF q
<1>7. x \in Seq(trace) /\ Len(x) = q /\ x \in Seq(K) /\ (q = c => x = fresh)
  <2>1. x = [k \in 1 .. q |-> fresh[k]]
    BY <1>2, <1>6
  <2>2. fresh = [k \in 1 .. c |-> fresh[k]] /\ \A k \in 1 .. c : fresh[k] \in trace
    BY <1>2 DEF c
  <2>3. \A k \in 1 .. q : k \in 1 .. c
    BY <1>2, <1>6
  <2> HIDE DEF x
  <2>4. x \in Seq(trace) /\ Len(x) = q
    <3>1. \A k \in 1 .. q : fresh[k] \in trace
      BY <2>2, <2>3
    <3>2. x \in [1 .. q -> trace]
      BY <2>1, <3>1
    <3> QED BY <1>6, <3>2
  <2>5. q = c => x = fresh
    BY <2>1, <2>2
  <2>6. x \in Seq(K)
    BY <1>2, <2>4
  <2> QED BY <2>4, <2>5, <2>6
<1> HIDE DEF x
<1>8. l2 \in [A!Statements(t) -> Seq(K)] /\ l2[n] = x /\ \A j \in 1 .. m : j # n => l2[j] = l[j]
  BY <1>1, <1>7 DEF K
<1> HIDE DEF l2
<1>9. new = old + q
  <2>1. l \in [A!Statements(t) -> Seq(K)]
    BY DEF K
  <2>2. A!SizeWithAssertions(t, l2) = A!SizeWithAssertions(t, l) + Len(l2[n])
    <3>1. /\ t \in DOMAIN AsTests /\ n \in A!Statements(t) /\ l[n] = << >>
          /\ l2 \in [A!Statements(t) -> Seq(K)]
          /\ \A k \in A!Statements(t) : k # n => l2[k] = l[k]
      BY <1>1, <1>3, <1>8
    <3> QED BY <2>1, <3>1, SizeGrows, Zenon
  <2> QED BY <1>7, <1>8, <2>2 DEF old
<1> HIDE DEF new
<1>10. new < AsMaxLength => old < AsMaxLength /\ q = c
  BY <1>1, <1>2, <1>4, <1>5, <1>6, <1>9
<1>11. OneAdded(l, n, t, run) = l2
  BY DEF OneAdded, l2, x, q, room, c, old, fresh
<1>12. ASSUME NEW j \in 1 .. m
       PROVE  /\ n < j => l2[j] = << >>
              /\ l2[j] \in Seq(A!AssertionTrace(t, run)[j])
              /\ Len(l2[j]) <= Cardinality(A!AssertionTrace(t, run)[j]) /\ Len(l2[j]) <= AsMaxLength
              /\ j <= n /\ new < AsMaxLength => l2[j] = Fresh(t, run, j)
  <2>1. CASE j = n
    <3>1. q <= Cardinality(trace) /\ q <= AsMaxLength
      BY <1>1, <1>2, <1>5, <1>6
    <3>2. l2[n] \in Seq(trace) /\ Len(l2[n]) <= Cardinality(trace) /\ Len(l2[n]) <= AsMaxLength
      BY <1>7, <1>8, <3>1
    <3>3. new < AsMaxLength => l2[n] = fresh
      BY <1>7, <1>8, <1>10
    <3>4. ~(n < n)
      BY <1>1
    <3> QED BY <2>1, <3>2, <3>3, <3>4 DEF trace, fresh
  <2>2. CASE j # n
    <3>1. /\ n - 1 < j => l[j] = << >>
          /\ l[j] \in Seq(A!AssertionTrace(t, run)[j])
          /\ Len(l[j]) <= Cardinality(A!AssertionTrace(t, run)[j]) /\ Len(l[j]) <= AsMaxLength
          /\ j <= n - 1 /\ old < AsMaxLength => l[j] = Fresh(t, run, j)
      BY <1>1 DEF AddedUpTo, old
    <3>2. (n < j => n - 1 < j) /\ (j <= n => j <= n - 1)
      BY <1>1, <2>2
    <3>3. l2[j] = l[j]
      BY <1>8, <2>2
    <3> QED BY <1>10, <3>1, <3>2, <3>3
  <2> QED BY <2>1, <2>2
<1>13. AddedUpTo(l2, n, t, run)
  BY <1>1, <1>12 DEF AddedUpTo, new
<1> QED BY <1>8, <1>11, <1>13 DEF K

LEMMA AddAssertionsForIs ==
  ASSUME NEW t \in DOMAIN AsTests, NEW run, IsARun(t, run)
  PROVE  AddedUpTo(A!AddAssertionsFor(t, run), Len(AsTests[t]), t, run)
<1> DEFINE m == Len(AsTests[t])
           none == [s \in A!Statements(t) |-> << >>]
           Z == [A!Statements(t) -> Seq(Noticed(t, run))]
           total(l, n) == IF AddedUpTo(l, n - 1, t, run) THEN OneAdded(l, n, t, run) ELSE none
           next == [u \in Z \X (1 .. m) |-> total(u[1], u[2])]
           Unfolds(f) == f = [n \in 0 .. m |-> IF n = 0 THEN none ELSE OneAdded(f[n - 1], n, t, run)]
<1>1. m \in Nat /\ A!Statements(t) = 1 .. m /\ AsMaxLength \in Nat
  BY StatementsAre, OtherConstants DEF A!ConstantsType
<1>2. none \in Z
  <2>1. << >> \in Seq(Noticed(t, run))
    OBVIOUS
  <2> QED BY <2>1
<1>3. AddedUpTo(none, 0, t, run)
  <2> SUFFICES ASSUME NEW j \in A!Statements(t)
               PROVE  /\ 0 < j => none[j] = << >>
                      /\ none[j] \in Seq(A!AssertionTrace(t, run)[j])
                      /\ Len(none[j]) <= Cardinality(A!AssertionTrace(t, run)[j])
                      /\ Len(none[j]) <= AsMaxLength
                      /\ j <= 0 /\ A!SizeWithAssertions(t, none) < AsMaxLength => none[j] = Fresh(t, run, j)
    BY DEF AddedUpTo
  <2>1. none[j] = << >> /\ Len(none[j]) = 0 /\ none[j] \in Seq(A!AssertionTrace(t, run)[j])
    OBVIOUS
  <2>2. Cardinality(A!AssertionTrace(t, run)[j]) \in Nat
    BY FreshIs
  <2>3. ~(j <= 0)
    BY <1>1
  <2> HIDE DEF none
  <2> QED BY <1>1, <2>1, <2>2, <2>3
<1> HIDE DEF m, none
<1>4. ASSUME NEW n \in 1 .. m, NEW l \in Z, AddedUpTo(l, n - 1, t, run)
      PROVE  OneAdded(l, n, t, run) \in Z /\ AddedUpTo(OneAdded(l, n, t, run), n, t, run)
  BY <1>1, <1>4, OneMoreIsAdded
<1>5. next \in [Z \X (1 .. m) -> Z]
  <2>1. ASSUME NEW u \in Z \X (1 .. m) PROVE total(u[1], u[2]) \in Z
    <3> DEFINE l == u[1]
               n == u[2]
    <3>1. l \in Z /\ n \in 1 .. m
      OBVIOUS
    <3> HIDE DEF l, n, Z
    <3>2. CASE AddedUpTo(l, n - 1, t, run)
      <4>1. OneAdded(l, n, t, run) \in Z
        BY <1>4, <3>1, <3>2
      <4>2. total(l, n) \in Z
        BY <3>2, <4>1
      <4> QED BY <4>2 DEF l, n
    <3>3. CASE ~AddedUpTo(l, n - 1, t, run)
      <4>1. total(l, n) \in Z
        BY <1>2, <3>3
      <4> QED BY <4>1 DEF l, n
    <3> QED BY <3>2, <3>3
  <2> HIDE DEF total, Z
  <2> QED BY <2>1, Zenon
<1>6. PICK f : Recurs(f, m, Z, none, next)
  <2> HIDE DEF next, Z
  <2> QED BY <1>1, <1>2, <1>5, RecursionFromExists
<1>7. ASSUME NEW n \in 1 .. m PROVE f[n] = total(f[n - 1], n)
  <2>1. <<f[n - 1], n>> \in Z \X (1 .. m)
    BY <1>1, <1>6 DEF Recurs
  <2> HIDE DEF total, Z
  <2> QED BY <1>6, <2>1 DEF Recurs
<1> HIDE DEF next
<1>8. f[0] = none /\ f \in [0 .. m -> Z]
  BY <1>6 DEF Recurs
<1>9. ASSUME NEW g, g[0] = none,
             \A n \in 1 .. m : g[n - 1] \in Z /\ AddedUpTo(g[n - 1], n - 1, t, run) =>
                                 g[n] = OneAdded(g[n - 1], n, t, run)
      PROVE  \A n \in 0 .. m : g[n] \in Z /\ AddedUpTo(g[n], n, t, run)
  <2> DEFINE T == {n \in 0 .. m : g[n] \in Z /\ AddedUpTo(g[n], n, t, run)}
  <2> HIDE DEF Z
  <2>1. ASSUME NEW n \in 0 .. m, \A k \in 0 .. m : k < n => k \in T
        PROVE  n \in T
    <3>1. CASE n = 0
      BY <1>2, <1>3, <1>9, <3>1
    <3>2. CASE n # 0
      <4>1. n - 1 \in 0 .. m /\ n - 1 < n /\ n \in 1 .. m
        BY <1>1, <3>2
      <4>2. g[n - 1] \in Z /\ AddedUpTo(g[n - 1], n - 1, t, run)
        BY <2>1, <4>1
      <4>3. OneAdded(g[n - 1], n, t, run) \in Z /\ AddedUpTo(OneAdded(g[n - 1], n, t, run), n, t, run)
        BY <1>4, <4>1, <4>2
      <4> QED BY <1>9, <4>1, <4>2, <4>3
    <3> QED BY <3>1, <3>2
  <2>2. T = 0 .. m
    <3> HIDE DEF T
    <3>1. T \subseteq 0 .. m
      BY DEF T
    <3> QED BY <1>1, <2>1, <3>1, AllUpTo
  <2> QED BY <2>2
<1>10. \A n \in 0 .. m : f[n] \in Z /\ AddedUpTo(f[n], n, t, run)
  <2>1. \A n \in 1 .. m : f[n - 1] \in Z /\ AddedUpTo(f[n - 1], n - 1, t, run) =>
                           f[n] = OneAdded(f[n - 1], n, t, run)
    BY <1>7
  <2> HIDE DEF Z
  <2> QED BY <1>8, <1>9, <2>1
<1>11. Unfolds(f)
  <2>1. ASSUME NEW n \in 1 .. m PROVE f[n] = OneAdded(f[n - 1], n, t, run)
    <3>1. n - 1 \in 0 .. m
      BY <1>1
    <3> HIDE DEF Z
    <3> QED BY <1>7, <1>10, <3>1
  <2>2. f = [n \in 0 .. m |-> f[n]]
    BY <1>8
  <2>3. \A n \in 0 .. m : n # 0 => n \in 1 .. m
    BY <1>1
  <2>4. \A n \in 0 .. m : f[n] = IF n = 0 THEN none ELSE OneAdded(f[n - 1], n, t, run)
    BY <1>8, <2>1, <2>3
  <2> QED BY <2>2, <2>4, Zenon
<1> DEFINE chosen == CHOOSE f_1 : Unfolds(f_1)
<1>12. A!AddAssertionsFor(t, run) = chosen[m]
  BY DEF A!AddAssertionsFor, OneAdded, Fresh, m, none
<1> HIDE DEF Unfolds
<1>13. Unfolds(chosen)
  BY <1>11
<1> HIDE DEF chosen
<1>14. chosen[0] = none /\ \A n \in 1 .. m : chosen[n] = OneAdded(chosen[n - 1], n, t, run)
  <2>1. chosen = [n \in 0 .. m |-> IF n = 0 THEN none ELSE OneAdded(chosen[n - 1], n, t, run)]
    BY <1>13 DEF Unfolds
  <2>2. \A n \in 0 .. m : chosen[n] = IF n = 0 THEN none ELSE OneAdded(chosen[n - 1], n, t, run)
    BY <2>1
  <2>3. 0 \in 0 .. m /\ \A n \in 1 .. m : n \in 0 .. m /\ n # 0
    BY <1>1
  <2> QED BY <2>2, <2>3
<1>15. m \in 0 .. m
  BY <1>1
<1> HIDE DEF Z
<1>16. AddedUpTo(chosen[m], m, t, run)
  BY <1>9, <1>14, <1>15
<1> QED BY <1>12, <1>16 DEF m

(* The assertions of a test are facts of the run that was recorded; an exception    *)
(* is asserted alone.                                                               *)
ListsAreOf(t, lists, run) ==
  \A i \in A!Statements(t) :
    /\ lists[i] \in Seq(A!AssertionTrace(t, run)[i]) /\ Len(lists[i]) <= AsMaxLength
    /\ \A k \in DOMAIN lists[i] : lists[i][k].ref = "exception" => Len(lists[i]) = 1

LatestIsTrue(t, lists, run) ==
  A!SizeWithAssertions(t, lists) < AsMaxLength /\ ~run.timeout =>
    \A i \in 1 .. A!Ends(run) : \A f \in A!Observed(t, run, i) :
      \E k \in 1 .. i : /\ A!Says(lists[k], f)
                        /\ \A j \in k .. i : ~A!Contradicts(lists[j], f)

LEMMA AddedAreOf ==
  ASSUME NEW t \in DOMAIN AsTests, NEW run, IsARun(t, run),
         NEW lists, AddedUpTo(lists, Len(AsTests[t]), t, run)
  PROVE  ListsAreOf(t, lists, run)
<1> SUFFICES ASSUME NEW i \in A!Statements(t)
             PROVE  /\ lists[i] \in Seq(A!AssertionTrace(t, run)[i]) /\ Len(lists[i]) <= AsMaxLength
                    /\ \A k \in DOMAIN lists[i] : lists[i][k].ref = "exception" => Len(lists[i]) = 1
  BY DEF ListsAreOf
<1> DEFINE all == A!AssertionTrace(t, run)[i]
           l == lists[i]
<1>1. l \in Seq(all) /\ Len(l) <= Cardinality(all) /\ Len(l) <= AsMaxLength
  BY DEF AddedUpTo
<1>2. ASSUME NEW k \in DOMAIN l, l[k].ref = "exception" PROVE Len(l) = 1
  <2>1. l[k] \in all /\ Len(l) \in Nat /\ k \in 1 .. Len(l)
    <3> HIDE DEF all, l
    <3> QED BY <1>1
  <2>2. all = A!Observed(t, run, i) /\ ~run.timeout
    BY <2>1, TraceIsFinite
  <2>3. all = {l[k]}
    <3>1. ObservedOf(t, run, i, l[k])
      BY <2>1, <2>2, ObservedIs
    <3> QED BY <1>2, <2>2, <3>1 DEF ObservedOf
  <2>4. Cardinality(all) = 1
    BY <2>3, FS_Singleton
  <2> DEFINE n == Len(l)
  <2>5. n \in Nat /\ n <= 1 /\ k \in 1 .. n
    BY <1>1, <2>1, <2>4
  <2> HIDE DEF n
  <2>6. n = 1
    BY <2>5
  <2> QED BY <2>6 DEF n
<1> QED BY <1>1, <1>2

LEMMA LatestIs ==
  ASSUME NEW t \in DOMAIN AsTests, NEW run, IsARun(t, run),
         NEW lists, AddedUpTo(lists, Len(AsTests[t]), t, run)
  PROVE  LatestIsTrue(t, lists, run)
<1> DEFINE m == Len(AsTests[t])
           trace == A!AssertionTrace(t, run)
           last == A!Ends(run)
<1> SUFFICES ASSUME A!SizeWithAssertions(t, lists) < AsMaxLength, ~run.timeout,
                    NEW i \in 1 .. last, NEW f \in A!Observed(t, run, i)
             PROVE  \E k \in 1 .. i : /\ A!Says(lists[k], f)
                                      /\ \A j \in k .. i : ~A!Contradicts(lists[j], f)
  BY DEF LatestIsTrue
<1>1. /\ m \in Nat /\ A!Statements(t) = 1 .. m /\ last \in 0 .. m
      /\ \A j \in 1 .. m : j < last => run.steps[j].raises = "none"
  BY StatementsAre, EndsIs
<1>2. ASSUME NEW j \in 1 .. i
      PROVE  /\ j \in 1 .. m /\ j <= last
             /\ trace[j] = A!Observed(t, run, j)
             /\ lists[j] \in Seq(trace[j]) /\ lists[j] = Fresh(t, run, j)
  <2>1. j \in 1 .. m /\ j <= last /\ ~(j > last) /\ j <= m
    BY <1>1
  <2>2. trace[j] = A!Observed(t, run, j)
    BY <1>1, <2>1 DEF A!AssertionTrace
  <2>3. lists[j] \in Seq(trace[j]) /\ lists[j] = Fresh(t, run, j)
    BY <1>1, <2>1 DEF AddedUpTo
  <2> QED BY <2>1, <2>2, <2>3
<1> HIDE DEF m, trace, last
<1>3. i \in Nat /\ i \in 1 .. i /\ i \in 1 .. m
  BY <1>1
(* The first statement from which on it is observed wherever something is.          *)
<1> DEFINE Since == {k \in 1 .. i : f \in trace[k] /\ \A j \in k .. i : AsTests[t][j].calls => f \in trace[j]}
<1>4. PICK k \in Since : \A j \in Since : k <= j
  <2>1. f \in trace[i]
    BY <1>2, <1>3
  <2>2. \A j \in i .. i : j = i
    BY <1>3
  <2>3. i \in Since
    BY <1>3, <2>1, <2>2
  <2>4. Since \subseteq Nat
    BY <1>3
  <2> HIDE DEF Since
  <2> QED BY <2>3, <2>4, LeastExists
<1>5. k \in 1 .. i /\ f \in trace[k] /\ \A j \in k .. i : AsTests[t][j].calls => f \in trace[j]
  BY <1>4
<1>6. f \notin A!Previous(trace, t, k)
  <2> SUFFICES ASSUME f \in A!Previous(trace, t, k) PROVE FALSE
    OBVIOUS
  <2> DEFINE before == {j \in 1 .. k - 1 : AsTests[t][j].calls}
             p == A!Max(before)
  <2>1. before # {} /\ f \in trace[p]
    BY DEF A!Previous
  <2>2. before \subseteq 0 .. i
    BY <1>3, <1>5
  <2>3. p \in before /\ \A j \in before : p >= j
    <3> HIDE DEF before
    <3> QED BY <1>3, <2>1, <2>2, GreatestIs
  <2>4. p \in 1 .. i /\ p < k
    BY <1>3, <1>5, <2>3
  <2> HIDE DEF p
  <2>5. ASSUME NEW j \in p .. i, AsTests[t][j].calls PROVE f \in trace[j]
    <3>1. CASE j = p
      BY <2>1, <3>1
    <3>2. CASE j > p /\ j < k
      <4>1. j \in 1 .. k - 1
        BY <1>3, <1>5, <2>4, <3>2
      <4>2. j \in before
        BY <2>5, <4>1
      <4>3. p >= j
        BY <2>3, <4>2
      <4> QED BY <1>3, <2>4, <3>2, <4>3
    <3>3. CASE j >= k
      <4>1. j \in k .. i
        BY <1>3, <1>5, <2>4, <3>3
      <4> QED BY <1>5, <2>5, <4>1
    <3> QED BY <1>3, <1>5, <2>4, <3>1, <3>2, <3>3
  <2>6. p \in Since
    BY <2>1, <2>4, <2>5
  <2>7. k <= p
    BY <1>4, <2>6
  <2> QED BY <1>3, <1>5, <2>4, <2>7
<1> HIDE DEF Since
<1>7. A!Says(lists[k], f)
  <2>1. k \in A!Statements(t)
    BY <1>1, <1>2, <1>5
  <2>2. f \in A!AssertionTrace(t, run)[k] \ A!Previous(A!AssertionTrace(t, run), t, k)
    BY <1>5, <1>6 DEF trace
  <2>3. \E q \in DOMAIN Fresh(t, run, k) : Fresh(t, run, k)[q] = f
    BY <2>1, <2>2, FreshIs
  <2>4. lists[k] = Fresh(t, run, k)
    BY <1>2, <1>5
  <2> QED BY <2>3, <2>4 DEF A!Says
<1>8. ASSUME NEW j \in k .. i PROVE ~A!Contradicts(lists[j], f)
  <2> SUFFICES ASSUME NEW q \in DOMAIN lists[j],
                      lists[j][q].ref = f.ref, lists[j][q].aspect = f.aspect
               PROVE  lists[j][q].is = f.is
    BY DEF A!Contradicts
  <2> DEFINE g == lists[j][q]
  <2>1. j \in 1 .. i
    BY <1>3, <1>5
  <2>2. j \in A!Statements(t) /\ j <= last /\ trace[j] = A!Observed(t, run, j) /\ lists[j] \in Seq(trace[j])
    BY <1>1, <1>2, <2>1
  <2>3. g \in A!Observed(t, run, j)
    BY <2>2
  <2>4. ObservedOf(t, run, j, g)
    BY <2>2, <2>3, ObservedIs
  <2>5. f \in A!Observed(t, run, j)
    <3>1. CASE AsTests[t][j].calls
      BY <1>5, <2>2, <3>1
    <3>2. CASE j = i
      BY <3>2
    <3>3. CASE ~AsTests[t][j].calls /\ j # i
      <4>1. j < last /\ j \in 1 .. m
        BY <1>1, <1>2, <1>3, <2>1, <3>3
      <4>2. run.steps[j].raises = "none"
        BY <1>1, <4>1
      <4>3. A!Observed(t, run, j) = {}
        BY <2>2, <3>3, <4>2, ObservedIs
      <4> QED BY <2>3, <4>3
    <3> QED BY <3>1, <3>2, <3>3
  <2>6. ObservedOf(t, run, j, f)
    BY <2>2, <2>5, ObservedIs
  <2> HIDE DEF g
  <2>7. g.ref = f.ref /\ g.aspect = f.aspect
    BY DEF g
  <2>8. g.is = f.is
    BY <2>4, <2>6, <2>7 DEF ObservedOf
  <2> QED BY <2>8 DEF g
<1> QED BY <1>5, <1>7, <1>8

--------------------------------------------------------------------------------
(* Assertions: what is reported of them.                                           *)

LEMMA RaisesIs ==
  ASSUME NEW raised, NEW expected
  PROVE  A!Raises(raised, expected, 1) = "none" <=> raised = expected
<1> DEFINE Wrap(r) == IF r = expected THEN "none" ELSE IF r = "none" THEN "Failed" ELSE r
           Unfolds(f) == f = [k \in 0 .. 1 |-> IF k = 0 THEN raised ELSE Wrap(f[k - 1])]
           g == [k \in 0 .. 1 |-> IF k = 0 THEN raised ELSE Wrap(raised)]
           chosen == CHOOSE f : Unfolds(f)
<1>1. Unfolds(g)
  <2>1. g = [k \in 0 .. 1 |-> g[k]] /\ g[0] = raised /\ g[1] = Wrap(raised)
    OBVIOUS
  <2>2. \A k \in 0 .. 1 : k = 0 \/ k = 1
    OBVIOUS
  <2> HIDE DEF g, Wrap
  <2>3. \A k \in 0 .. 1 : g[k] = IF k = 0 THEN raised ELSE Wrap(g[k - 1])
    BY <2>1, <2>2
  <2> QED BY <2>1, <2>3, Zenon
<1>2. A!Raises(raised, expected, 1) = chosen[1]
  BY DEF A!Raises
<1> HIDE DEF Unfolds, g
<1>3. Unfolds(chosen)
  BY <1>1
<1> HIDE DEF chosen
<1>4. chosen[1] = Wrap(raised)
  <2>1. chosen = [k \in 0 .. 1 |-> IF k = 0 THEN raised ELSE Wrap(chosen[k - 1])]
    BY <1>3 DEF Unfolds
  <2> HIDE DEF Wrap
  <2>2. \A k \in 0 .. 1 : chosen[k] = IF k = 0 THEN raised ELSE Wrap(chosen[k - 1])
    BY <2>1
  <2>3. 0 \in 0 .. 1 /\ 1 \in 0 .. 1 /\ 1 - 1 = 0
    OBVIOUS
  <2> QED BY <2>2, <2>3
<1>5. Wrap(raised) = "none" <=> raised = expected
  OBVIOUS
<1> HIDE DEF Wrap
<1> QED BY <1>2, <1>4, <1>5

(* An assertion is reported when it is reached and not so.                         *)
Reported(run, lists, observers, i, k) ==
  /\ \A j \in 1 .. i - 1 : run.steps[j].raises = "none"
  /\ IF A!OnlyException(lists[i]) THEN A!Raises(run.steps[i].raises, lists[i][1].is, observers) # "none"
     ELSE A!Verdict(run.steps[i].objects, lists[i][k]) # "holds"

LEMMA BeforeIsNoException ==
  ASSUME NEW t \in DOMAIN AsTests, NEW rec, IsARun(t, rec), NEW lists, ListsAreOf(t, lists, rec),
         NEW i \in A!Statements(t), NEW k \in DOMAIN lists[i]
  PROVE  /\ ~rec.timeout /\ i <= A!Ends(rec)
         /\ lists[i][k] \in A!Observed(t, rec, i)
         /\ \A j \in 1 .. i - 1 : ~A!OnlyException(lists[j]) /\ rec.steps[j].raises = "none"
<1>1. A!Statements(t) = 1 .. Len(AsTests[t]) /\ Len(AsTests[t]) \in Nat
  BY StatementsAre
<1>2. \A j \in A!Statements(t) : \A q \in DOMAIN lists[j] :
        lists[j][q] \in A!AssertionTrace(t, rec)[j]
  BY DEF ListsAreOf
<1>3. \A j \in A!Statements(t) : \A q \in DOMAIN lists[j] :
        ~rec.timeout /\ j <= A!Ends(rec) /\ lists[j][q] \in A!Observed(t, rec, j)
  BY <1>2, TraceIsFinite
<1>4. ~rec.timeout /\ i <= A!Ends(rec) /\ lists[i][k] \in A!Observed(t, rec, i)
  BY <1>3
<1>5. A!Ends(rec) \in 0 .. Len(AsTests[t]) /\ \A j \in A!Statements(t) : j < A!Ends(rec) => rec.steps[j].raises = "none"
  BY <1>4, EndsIs
<1>6. ASSUME NEW j \in 1 .. i - 1 PROVE ~A!OnlyException(lists[j]) /\ rec.steps[j].raises = "none"
  <2>1. j \in A!Statements(t) /\ j < A!Ends(rec)
    <3> DEFINE e == A!Ends(rec)
    <3>1. e \in Int /\ i <= e /\ i \in 1 .. Len(AsTests[t])
      BY <1>1, <1>4, <1>5
    <3> HIDE DEF e
    <3>2. j < e /\ j \in 1 .. Len(AsTests[t])
      BY <1>1, <3>1
    <3> QED BY <1>1, <3>2 DEF e
  <2>2. rec.steps[j].raises = "none"
    BY <1>5, <2>1
  <2>3. ~A!OnlyException(lists[j])
    <3> SUFFICES ASSUME A!OnlyException(lists[j]) PROVE FALSE
      OBVIOUS
    <3>1. Len(lists[j]) = 1 /\ lists[j][1].ref = "exception" /\ lists[j] \in Seq(A!AssertionTrace(t, rec)[j])
      BY <2>1 DEF A!OnlyException, ListsAreOf
    <3>2. 1 \in DOMAIN lists[j]
      BY <3>1
    <3>3. lists[j][1] \in A!Observed(t, rec, j)
      BY <1>3, <2>1, <3>2
    <3>4. ObservedOf(t, rec, j, lists[j][1])
      BY <1>4, <2>1, <3>3, ObservedIs
    <3> QED BY <2>2, <3>1, <3>4 DEF ObservedOf
  <2> QED BY <2>2, <2>3
<1> QED BY <1>4, <1>6

LEMMA VerifyIs ==
  ASSUME NEW t \in DOMAIN AsTests, NEW rec, IsARun(t, rec), NEW lists, ListsAreOf(t, lists, rec),
         NEW i \in A!Statements(t), NEW k \in DOMAIN lists[i],
         NEW run, ~run.timeout, NEW observers, NEW found, found = A!Verify(t, run, lists, observers)
  PROVE  k \in A!At(found.violated, i) <=> Reported(run, lists, observers, i, k)
<1> DEFINE m == Len(AsTests[t])
           raised == [j \in A!Statements(t) |->
                        IF A!OnlyException(lists[j])
                        THEN A!Raises(run.steps[j].raises, lists[j][1].is, observers)
                        ELSE run.steps[j].raises]
           raising == {j \in A!Statements(t) : raised[j] # "none"}
           last == IF raising = {} THEN m ELSE A!Min(raising)
           IsSo(v) == /\ v[2] \in DOMAIN lists[v[1]]
                      /\ IF A!OnlyException(lists[v[1]]) THEN raised[v[1]] # "none"
                         ELSE A!Verdict(run.steps[v[1]].objects, lists[v[1]][v[2]]) # "holds"
           violated == {v \in (1 .. last) \X (1 .. AsMaxLength) : IsSo(v)}
<1>1. found.violated = violated
  BY DEF A!Verify
<1>2. m \in Nat /\ A!Statements(t) = 1 .. m /\ i \in 1 .. m
  BY StatementsAre
<1>3. k \in 1 .. AsMaxLength
  <2>1. Len(lists[i]) \in Nat /\ DOMAIN lists[i] = 1 .. Len(lists[i]) /\ Len(lists[i]) <= AsMaxLength
    BY DEF ListsAreOf
  <2>2. AsMaxLength \in Nat
    BY OtherConstants DEF A!ConstantsType
  <2> QED BY <2>1, <2>2
<1>4. \A j \in 1 .. i - 1 : j \in 1 .. m /\ raised[j] = run.steps[j].raises
  <2> SUFFICES ASSUME NEW j \in 1 .. i - 1 PROVE j \in 1 .. m /\ raised[j] = run.steps[j].raises
    OBVIOUS
  <2>1. j \in 1 .. m
    BY <1>2
  <2>2. ~A!OnlyException(lists[j])
    BY BeforeIsNoException
  <2> QED BY <1>2, <2>1, <2>2
<1>5. IsSo(<<i, k>>) <=> IF A!OnlyException(lists[i])
                         THEN A!Raises(run.steps[i].raises, lists[i][1].is, observers) # "none"
                         ELSE A!Verdict(run.steps[i].objects, lists[i][k]) # "holds"
  OBVIOUS
<1> HIDE DEF raised, m
<1>6. i \in 1 .. last <=> \A j \in 1 .. i - 1 : run.steps[j].raises = "none"
  <2>1. CASE raising = {}
    <3>1. \A j \in 1 .. i - 1 : run.steps[j].raises = "none"
      BY <1>2, <1>4, <2>1
    <3>2. last = m
      BY <2>1
    <3> QED BY <1>2, <3>1, <3>2
  <2>2. CASE raising # {}
    <3>1. raising \subseteq Nat /\ raising \subseteq 1 .. m
      BY <1>2
    <3>2. last \in raising /\ \A y \in raising : last <= y
      <4> DEFINE T == raising
      <4> HIDE DEF T
      <4>1. T \subseteq Nat /\ T # {}
        BY <2>2, <3>1 DEF T
      <4>2. A!Min(T) \in T /\ \A y \in T : A!Min(T) <= y
        BY <4>1, MinIs
      <4>3. last = A!Min(T)
        BY <2>2 DEF T
      <4> QED BY <4>2, <4>3 DEF T
    <3>3. \A j \in 1 .. m : j \in raising <=> raised[j] # "none"
      BY <1>2
    <3> HIDE DEF last, raising
    <3>4. last \in 1 .. m
      BY <3>1, <3>2
    <3>5. ASSUME i \in 1 .. last, NEW j \in 1 .. i - 1 PROVE run.steps[j].raises = "none"
      <4>1. j \in 1 .. m /\ ~(last <= j)
        BY <1>2, <3>4, <3>5
      <4>2. j \notin raising
        BY <3>2, <4>1
      <4> QED BY <1>4, <3>3, <4>1, <4>2
    <3>6. ASSUME i \notin 1 .. last PROVE run.steps[last].raises # "none" /\ last \in 1 .. i - 1
      <4>1. last \in 1 .. i - 1
        BY <1>2, <3>4, <3>6
      <4> QED BY <1>4, <3>2, <3>3, <3>4, <4>1
    <3> QED BY <3>5, <3>6
  <2> QED BY <2>1, <2>2
<1>7. k \in A!At(violated, i) <=> <<i, k>> \in violated
  <2>1. \A v \in violated : v = <<v[1], v[2]>>
    OBVIOUS
  <2> HIDE DEF violated
  <2> QED BY <2>1 DEF A!At
<1>8. <<i, k>> \in violated <=> i \in 1 .. last /\ IsSo(<<i, k>>)
  <2> HIDE DEF last, IsSo
  <2> QED BY <1>3
<1> HIDE DEF violated, last, IsSo
<1> QED BY <1>1, <1>5, <1>6, <1>7, <1>8 DEF Reported

(* What is left of the assertions is what others say.                              *)
LEMMA LeftIs ==
  ASSUME NEW K, NEW list \in Seq(K), NEW positions, NEW l, l = A!RemoveAssertions(list, positions)
  PROVE  /\ l \in Seq(K) /\ Len(l) <= Len(list)
         /\ \A f : A!Says(l, f) <=> \E j \in DOMAIN list : j \notin positions /\ list[j] = f
<1>1. LeftFrom(l, 0, list, positions, K)
  BY RemoveAssertionsIs
<1>2. /\ l \in Seq(K) /\ Len(l) <= Len(list)
      /\ DOMAIN l = 1 .. Len(l) /\ DOMAIN list = 1 .. Len(list) /\ 0 + 1 = 1
  BY <1>1 DEF LeftFrom
<1>3. \A k \in 1 .. Len(l) : \E j \in 1 .. Len(list) : j \notin positions /\ l[k] = list[j]
  BY <1>1 DEF LeftFrom
<1>4. \A j \in 1 .. Len(list) : j \notin positions => \E k \in 1 .. Len(l) : l[k] = list[j]
  BY <1>1 DEF LeftFrom
<1>5. ASSUME NEW f, A!Says(l, f) PROVE \E j \in DOMAIN list : j \notin positions /\ list[j] = f
  <2>1. PICK k \in 1 .. Len(l) : l[k] = f
    BY <1>2, <1>5 DEF A!Says
  <2> QED BY <1>2, <1>3, <2>1
<1>6. ASSUME NEW f, NEW j \in DOMAIN list, j \notin positions, list[j] = f PROVE A!Says(l, f)
  <2>1. PICK k \in 1 .. Len(l) : l[k] = list[j]
    BY <1>2, <1>4, <1>6
  <2> QED BY <1>2, <1>6, <2>1 DEF A!Says
<1> QED BY <1>2, <1>5, <1>6

LEMMA RemovedAreOf ==
  ASSUME NEW t \in DOMAIN AsTests, NEW rec, NEW lists, ListsAreOf(t, lists, rec),
         NEW new, \A i \in A!Statements(t) :
                    \E positions : new[i] = A!RemoveAssertions(lists[i], positions)
  PROVE  ListsAreOf(t, new, rec)
<1> SUFFICES ASSUME NEW i \in A!Statements(t)
             PROVE  /\ new[i] \in Seq(A!AssertionTrace(t, rec)[i]) /\ Len(new[i]) <= AsMaxLength
                    /\ \A k \in DOMAIN new[i] : new[i][k].ref = "exception" => Len(new[i]) = 1
  BY DEF ListsAreOf
<1> DEFINE K == A!AssertionTrace(t, rec)[i]
           list == lists[i]
           l == new[i]
<1>1. /\ list \in Seq(K) /\ Len(list) <= AsMaxLength
      /\ \A k \in DOMAIN list : list[k].ref = "exception" => Len(list) = 1
  BY DEF ListsAreOf
<1>2. PICK positions : l = A!RemoveAssertions(list, positions)
  OBVIOUS
<1> HIDE DEF K, list, l
<1>3. /\ l \in Seq(K) /\ Len(l) <= Len(list)
      /\ \A f : A!Says(l, f) => \E j \in DOMAIN list : list[j] = f
  BY <1>1, <1>2, LeftIs
<1>4. Len(l) <= AsMaxLength
  <2>1. Len(l) \in Nat /\ Len(list) \in Nat /\ AsMaxLength \in Nat
    BY <1>1, <1>3, OtherConstants DEF A!ConstantsType
  <2> QED BY <1>1, <1>3, <2>1
<1>5. ASSUME NEW k \in DOMAIN l, l[k].ref = "exception" PROVE Len(l) = 1
  <2>1. A!Says(l, l[k])
    BY DEF A!Says
  <2>2. Len(list) = 1
    BY <1>1, <1>3, <1>5, <2>1
  <2> DEFINE n == Len(l)
  <2>3. n \in Nat /\ n <= 1 /\ k \in 1 .. n
    BY <1>3, <2>2
  <2> HIDE DEF n
  <2>4. n = 1
    BY <2>3
  <2> QED BY <2>4 DEF n
<1> QED BY <1>3, <1>4, <1>5 DEF K, l

(* What is left holds in the execution that the others were removed after.         *)
HoldAfter(t, lists, rec, fil) ==
  ~rec.timeout /\ ~fil.timeout =>
    \A i \in A!Statements(t) :
      (\A k \in 1 .. i - 1 : fil.steps[k].raises = rec.steps[k].raises) =>
        \A k \in DOMAIN lists[i] : A!HoldsIn(fil, i, lists[i][k])

LEMMA FilteredHold ==
  ASSUME NEW t \in DOMAIN AsTests, NEW rec, IsARun(t, rec), NEW lists, ListsAreOf(t, lists, rec),
         NEW fil, NEW new,
         \A i \in A!Statements(t) :
           new[i] = A!RemoveAssertions(lists[i], A!At(A!Verify(t, fil, lists, 1).violated, i))
  PROVE  ListsAreOf(t, new, rec) /\ HoldAfter(t, new, rec, fil)
<1>1. ListsAreOf(t, new, rec)
  BY RemovedAreOf
<1>2. ASSUME ~fil.timeout, NEW i \in A!Statements(t),
             \A k \in 1 .. i - 1 : fil.steps[k].raises = rec.steps[k].raises,
             NEW k \in DOMAIN new[i]
      PROVE  A!HoldsIn(fil, i, new[i][k])
  <2> DEFINE found == A!Verify(t, fil, lists, 1)
             positions == A!At(found.violated, i)
             a == new[i][k]
  <2>1. /\ lists[i] \in Seq(A!AssertionTrace(t, rec)[i]) /\ new[i] = A!RemoveAssertions(lists[i], positions)
        /\ \A j \in DOMAIN lists[i] : lists[i][j].ref = "exception" => Len(lists[i]) = 1
    BY DEF ListsAreOf
  <2>2. A!Says(new[i], a)
    BY <1>2 DEF A!Says
  <2>3. PICK j \in DOMAIN lists[i] : j \notin positions /\ lists[i][j] = a
    <3> HIDE DEF positions, a
    <3> QED BY <2>1, <2>2, LeftIs
  <2>4. ~Reported(fil, lists, 1, i, j)
    BY <1>2, <2>3, VerifyIs
  <2>5. \A q \in 1 .. i - 1 : fil.steps[q].raises = "none"
    BY <1>2, BeforeIsNoException
  <2>6. CASE A!OnlyException(lists[i])
    <3>1. Len(lists[i]) = 1 /\ lists[i][1].ref = "exception"
      BY <2>6 DEF A!OnlyException
    <3>2. j = 1
      BY <2>1, <3>1
    <3>3. A!Raises(fil.steps[i].raises, a.is, 1) = "none" /\ a.ref = "exception"
      BY <2>3, <2>4, <2>5, <2>6, <3>1, <3>2 DEF Reported
    <3> HIDE DEF a
    <3>4. fil.steps[i].raises = a.is
      BY <3>3, RaisesIs
    <3>5. A!HoldsIn(fil, i, a)
      BY <3>3, <3>4 DEF A!HoldsIn
    <3> QED BY <3>5 DEF a
  <2>7. CASE ~A!OnlyException(lists[i])
    <3>1. a.ref # "exception"
      <4> SUFFICES ASSUME a.ref = "exception" PROVE FALSE
        OBVIOUS
      <4>1. Len(lists[i]) = 1
        BY <2>1, <2>3
      <4>2. j = 1
        BY <2>1, <4>1
      <4> QED BY <2>3, <2>7, <4>1, <4>2 DEF A!OnlyException
    <3>2. A!Verdict(fil.steps[i].objects, a) = "holds"
      BY <2>3, <2>4, <2>5, <2>7 DEF Reported
    <3> HIDE DEF a
    <3>3. A!HoldsIn(fil, i, a)
      BY <3>1, <3>2 DEF A!HoldsIn
    <3> QED BY <3>3 DEF a
  <2> QED BY <2>6, <2>7
<1> QED BY <1>1, <1>2 DEF HoldAfter

(* What the tests reported of the mutants.                                         *)
ResultsAreOf(t) ==
  /\ \E K : results[t] \in Seq(K)
  /\ Len(results[t]) = A!Tried
  /\ \A m \in 1 .. A!Tried :
       \/ results[t][m].none
       \/ results[t][m].found = A!Verify(t, results[t][m].run, assertions[t], A!MutationObservers)

LEMMA RelevantIs ==
  ASSUME NEW t \in DOMAIN AsTests, NEW rec, IsARun(t, rec), ListsAreOf(t, assertions[t], rec),
         ResultsAreOf(t), NEW i \in A!Statements(t), NEW k \in DOMAIN assertions[t][i],
         NEW a, a = assertions[t][i][k], a.ref # "exception"
  PROVE  A!Says(A!Relevant(t)[i], a) <=>
           \E m \in 1 .. A!Tried :
             /\ A!Has(t, m) /\ ~A!TimedOut(m)
             /\ \A j \in 1 .. i - 1 : results[t][m].run.steps[j].raises = "none"
             /\ ~A!HoldsIn(results[t][m].run, i, a)
<1> DEFINE lists == assertions[t]
           list == lists[i]
           Counts == {m \in 1 .. A!Tried : A!Has(t, m) /\ ~A!TimedOut(m)}
           merged == A!Merged(t)
           kept == A!At(merged, i)
           Differs(m) == /\ \A j \in 1 .. i - 1 : results[t][m].run.steps[j].raises = "none"
                         /\ ~A!HoldsIn(results[t][m].run, i, a)
<1>1. /\ list \in Seq(A!AssertionTrace(t, rec)[i])
      /\ \A j \in DOMAIN list : list[j].ref = "exception" => Len(list) = 1
  BY DEF ListsAreOf
<1>2. ~A!OnlyException(list)
  <2> SUFFICES ASSUME A!OnlyException(list) PROVE FALSE
    OBVIOUS
  <2>1. Len(list) = 1 /\ list[1].ref = "exception" /\ k = 1
    BY <1>1 DEF A!OnlyException
  <2> QED BY <2>1
<1>3. ASSUME NEW m \in Counts, NEW j \in DOMAIN list, list[j] = a
      PROVE  j \in A!At(results[t][m].found.violated, i) <=> Differs(m)
  <2> DEFINE run == results[t][m].run
             found == results[t][m].found
  <2>1. found = A!Verify(t, run, lists, A!MutationObservers) /\ ~found.timeout
    BY DEF ResultsAreOf, A!Has, A!TimedOut
  <2> HIDE DEF run, found
  <2>2. ~run.timeout
    BY <2>1 DEF A!Verify
  <2>3. j \in A!At(found.violated, i) <=> Reported(run, lists, A!MutationObservers, i, j)
    BY <2>1, <2>2, VerifyIs
  <2>4. Reported(run, lists, A!MutationObservers, i, j) <=>
          /\ \A q \in 1 .. i - 1 : run.steps[q].raises = "none"
          /\ ~A!HoldsIn(run, i, a)
    BY <1>2, <1>3 DEF Reported, A!HoldsIn
  <2> QED BY <2>3, <2>4 DEF run, found
<1>4. \A j : j \in kept <=> \E m \in Counts : j \in A!At(results[t][m].found.violated, i)
  <2>1. merged = UNION {results[t][m].found.violated : m \in Counts}
    BY DEF A!Merged
  <2> HIDE DEF merged, Counts
  <2>2. \A v : v \in merged <=> \E m \in Counts : v \in results[t][m].found.violated
    BY <2>1
  <2> QED BY <2>2 DEF A!At
<1>5. A!Relevant(t)[i] = A!RemoveAssertions(list, DOMAIN list \ kept)
  BY DEF A!Relevant
<1> HIDE DEF kept, merged
<1>6. A!Says(A!Relevant(t)[i], a) <=> \E j \in DOMAIN list : j \notin DOMAIN list \ kept /\ list[j] = a
  <2> DEFINE l == A!Relevant(t)[i]
             positions == DOMAIN list \ kept
  <2>1. l = A!RemoveAssertions(list, positions)
    BY <1>5
  <2> HIDE DEF l, positions, list
  <2>2. A!Says(l, a) <=> \E j \in DOMAIN list : j \notin positions /\ list[j] = a
    BY <1>1, <2>1, LeftIs
  <2> QED BY <2>2 DEF l, positions
<1>7. A!Says(A!Relevant(t)[i], a) <=> \E m \in Counts : Differs(m)
  <2>1. k \in DOMAIN list /\ list[k] = a
    OBVIOUS
  <2> HIDE DEF list, Counts, Differs
  <2>2. A!Says(A!Relevant(t)[i], a) <=> \E j \in DOMAIN list : j \in kept /\ list[j] = a
    BY <1>6
  <2> QED BY <1>3, <1>4, <2>1, <2>2
<1> QED BY <1>7

--------------------------------------------------------------------------------
(* Assertions: the inductive invariant.                                            *)

TestIsRight(t, step, lists, rec, fil) ==
  /\ IsARun(t, rec) /\ ListsAreOf(t, lists, rec)
  /\ step = "record" => LatestIsTrue(t, lists, rec) /\ fil = A!NoRun
  /\ step \in {"filter", "mutate"} => HoldAfter(t, lists, rec, fil)

AssertionsType ==
  /\ aPhase \in {"record", "filter", "mutate", "done"} /\ queue \in Seq(DOMAIN AsTests)
  /\ DOMAIN assertions = DOMAIN AsTests /\ DOMAIN recorded = DOMAIN AsTests
  /\ DOMAIN filtered = DOMAIN AsTests

ResultsAreRight ==
  \A t \in DOMAIN AsTests :
    /\ aPhase \in {"record", "filter"} => results[t] = << >>
    /\ aPhase = "mutate" => ResultsAreOf(t)

AssertionsInv ==
  /\ AssertionsType
  /\ \A t \in DOMAIN AsTests : TestIsRight(t, aPhase, assertions[t], recorded[t], filtered[t])
  /\ ResultsAreRight

LEMMA TestsAre == DOMAIN AsTests = 1 .. Len(AsTests) /\ Len(AsTests) \in Nat
BY OtherConstants DEF A!ConstantsType

LEMMA AssertionsInit == A!Init => AssertionsInv
<1> SUFFICES ASSUME A!Init PROVE AssertionsInv
  OBVIOUS
<1>1. AssertionsType
  <2>1. queue \in [1 .. Len(AsTests) -> DOMAIN AsTests]
    BY TestsAre DEF A!Init
  <2>2. queue \in Seq(DOMAIN AsTests)
    BY <2>1, TestsAre
  <2> QED BY <2>2 DEF A!Init, AssertionsType
<1>2. ASSUME NEW t \in DOMAIN AsTests
      PROVE  TestIsRight(t, aPhase, assertions[t], recorded[t], filtered[t])
  <2>1. /\ aPhase = "record" /\ recorded[t] = A!NoRun /\ filtered[t] = A!NoRun
        /\ assertions[t] = [i \in A!Statements(t) |-> << >>]
    BY <1>1 DEF A!Init, AssertionsType
  <2>2. IsARun(t, recorded[t]) /\ A!NoRun.timeout
    BY <2>1 DEF IsARun, A!NoRun
  <2>3. ListsAreOf(t, assertions[t], recorded[t])
    <3>1. AsMaxLength \in Nat
      BY OtherConstants DEF A!ConstantsType
    <3> QED BY <2>1, <3>1 DEF ListsAreOf
  <2>4. LatestIsTrue(t, assertions[t], recorded[t])
    BY <2>1, <2>2 DEF LatestIsTrue
  <2> QED BY <2>1, <2>2, <2>3, <2>4 DEF TestIsRight
<1>3. ResultsAreRight
  BY DEF A!Init, ResultsAreRight
<1> QED BY <1>1, <1>2, <1>3 DEF AssertionsInv

LEMMA RecordKeeps == AssertionsInv /\ A!Record => AssertionsInv'
<1> SUFFICES ASSUME AssertionsInv, A!Record PROVE AssertionsInv'
  OBVIOUS
<1> DEFINE t == Head(queue)
<1>1. /\ aPhase = "record" /\ aPhase' = aPhase /\ queue # << >> /\ queue' = Tail(queue)
      /\ filtered' = filtered /\ results' = results
  BY DEF A!Record
<1>2. PICK run \in AsRuns[t] : /\ assertions' = [assertions EXCEPT ![t] = A!AddAssertionsFor(t, run)]
                               /\ recorded' = [recorded EXCEPT ![t] = run]
  BY DEF A!Record
<1>3. t \in DOMAIN AsTests /\ Tail(queue) \in Seq(DOMAIN AsTests)
  <2>1. queue \in Seq(DOMAIN AsTests) /\ queue # << >>
    BY <1>1 DEF AssertionsInv, AssertionsType
  <2> QED BY <2>1, HeadAndTail
<1> HIDE DEF t
<1>4. AssertionsType'
  BY <1>1, <1>2, <1>3 DEF AssertionsInv, AssertionsType
<1>5. ASSUME NEW u \in DOMAIN AsTests
      PROVE  TestIsRight(u, aPhase, assertions'[u], recorded'[u], filtered[u])
  <2>1. TestIsRight(u, aPhase, assertions[u], recorded[u], filtered[u])
    BY DEF AssertionsInv
  <2>2. CASE u = t
    <3>1. assertions'[u] = A!AddAssertionsFor(t, run) /\ recorded'[u] = run
      BY <1>2, <2>2 DEF AssertionsInv, AssertionsType
    <3>2. IsARun(t, run)
      BY DEF IsARun
    <3>3. AddedUpTo(A!AddAssertionsFor(t, run), Len(AsTests[t]), t, run)
      BY <1>3, <3>2, AddAssertionsForIs
    <3>4. ListsAreOf(t, A!AddAssertionsFor(t, run), run) /\ LatestIsTrue(t, A!AddAssertionsFor(t, run), run)
      BY <1>3, <3>2, <3>3, AddedAreOf, LatestIs
    <3> QED BY <1>1, <2>1, <2>2, <3>1, <3>2, <3>4 DEF TestIsRight
  <2>3. CASE u # t
    <3>1. assertions'[u] = assertions[u] /\ recorded'[u] = recorded[u]
      BY <1>2, <2>3 DEF AssertionsInv, AssertionsType
    <3> QED BY <2>1, <3>1
  <2> QED BY <2>2, <2>3
<1>6. ResultsAreRight'
  BY <1>1 DEF AssertionsInv, ResultsAreRight
<1> QED BY <1>1, <1>4, <1>5, <1>6 DEF AssertionsInv

LEMMA FilterKeeps == AssertionsInv /\ A!Filter => AssertionsInv'
<1> SUFFICES ASSUME AssertionsInv, A!Filter PROVE AssertionsInv'
  OBVIOUS
<1> DEFINE t == Head(queue)
           Left(run) == [i \in A!Statements(t) |->
                           A!RemoveAssertions(assertions[t][i],
                                              A!At(A!Verify(t, run, assertions[t], 1).violated, i))]
<1>1. /\ aPhase = "filter" /\ aPhase' = aPhase /\ queue # << >> /\ queue' = Tail(queue)
      /\ recorded' = recorded /\ results' = results
  BY DEF A!Filter
<1>2. t \in DOMAIN AsTests /\ Tail(queue) \in Seq(DOMAIN AsTests)
  <2>1. queue \in Seq(DOMAIN AsTests) /\ queue # << >>
    BY <1>1 DEF AssertionsInv, AssertionsType
  <2> QED BY <2>1, HeadAndTail
<1>3. PICK run \in AsRuns[t] : /\ assertions' = [assertions EXCEPT ![t] = Left(run)]
                               /\ filtered' = [filtered EXCEPT ![t] = run]
  BY DEF A!Filter
<1> DEFINE new == Left(run)
<1>4. \A i \in A!Statements(t) :
        new[i] = A!RemoveAssertions(assertions[t][i], A!At(A!Verify(t, run, assertions[t], 1).violated, i))
  OBVIOUS
<1> HIDE DEF t, new, Left
<1>5. AssertionsType'
  BY <1>1, <1>2, <1>3 DEF AssertionsInv, AssertionsType
<1>6. ASSUME NEW u \in DOMAIN AsTests
      PROVE  TestIsRight(u, aPhase, assertions'[u], recorded[u], filtered'[u])
  <2>1. TestIsRight(u, aPhase, assertions[u], recorded[u], filtered[u])
    BY DEF AssertionsInv
  <2>2. CASE u = t
    <3>1. assertions'[u] = new /\ filtered'[u] = run
      BY <1>3, <2>2 DEF AssertionsInv, AssertionsType, new
    <3>2. IsARun(t, recorded[t]) /\ ListsAreOf(t, assertions[t], recorded[t])
      BY <2>1, <2>2 DEF TestIsRight
    <3>3. ListsAreOf(t, new, recorded[t]) /\ HoldAfter(t, new, recorded[t], run)
      BY <1>2, <1>4, <3>2, FilteredHold
    <3> QED BY <1>1, <2>2, <3>1, <3>2, <3>3 DEF TestIsRight
  <2>3. CASE u # t
    <3>1. assertions'[u] = assertions[u] /\ filtered'[u] = filtered[u]
      BY <1>3, <2>3 DEF AssertionsInv, AssertionsType
    <3> QED BY <2>1, <3>1
  <2> QED BY <2>2, <2>3
<1>7. ResultsAreRight'
  BY <1>1 DEF AssertionsInv, ResultsAreRight
<1> QED BY <1>1, <1>5, <1>6, <1>7 DEF AssertionsInv

LEMMA AppendedIs ==
  ASSUME NEW K, NEW s \in Seq(K), NEW e
  PROVE  /\ \E K_1 : Append(s, e) \in Seq(K_1)
         /\ Len(Append(s, e)) = Len(s) + 1
         /\ \A m \in 1 .. Len(s) : Append(s, e)[m] = s[m]
         /\ Append(s, e)[Len(s) + 1] = e
<1> DEFINE Z == K \cup {e}
<1>1. s \in Seq(Z) /\ e \in Z
  OBVIOUS
<1> HIDE DEF Z
<1>2. Append(s, e) \in Seq(Z) /\ Len(Append(s, e)) = Len(s) + 1
  BY <1>1
<1> QED BY <1>1, <1>2

(* Every test has one result more.                                                 *)
LEMMA MutantKeeps ==
  ASSUME AssertionsInv, aPhase = "mutate", aPhase' = aPhase, queue' = queue,
         assertions' = assertions, recorded' = recorded, filtered' = filtered,
         NEW more, results' = [t \in DOMAIN AsTests |-> Append(results[t], more[t])],
         \A t \in DOMAIN AsTests :
           more[t].none \/ more[t].found = A!Verify(t, more[t].run, assertions[t], A!MutationObservers)
  PROVE  AssertionsInv'
<1> DEFINE chosen == CHOOSE t \in DOMAIN AsTests : TRUE
<1>1. AssertionsType' /\ \A t \in DOMAIN AsTests : TestIsRight(t, aPhase, assertions[t], recorded[t], filtered[t])
  BY DEF AssertionsInv, AssertionsType
<1>2. ASSUME NEW t \in DOMAIN AsTests PROVE ResultsAreOf(t)'
  <2>1. \A u \in DOMAIN AsTests : ResultsAreOf(u)
    BY DEF AssertionsInv, ResultsAreRight
  <2>2. chosen \in DOMAIN AsTests
    OBVIOUS
  <2> DEFINE n == A!Tried
  <2>3. n = Len(results[chosen]) /\ A!Tried' = Len(results'[chosen])
    BY DEF A!Tried
  <2> HIDE DEF chosen
  <2>4. ASSUME NEW u \in DOMAIN AsTests
        PROVE  /\ n \in Nat
               /\ \E K : results'[u] \in Seq(K)
               /\ Len(results'[u]) = n + 1
               /\ \A m \in 1 .. n : results'[u][m] = results[u][m]
               /\ results'[u][n + 1] = more[u]
    <3>1. PICK K : results[u] \in Seq(K)
      BY <2>1 DEF ResultsAreOf
    <3>2. Len(results[u]) = n /\ n \in Nat
      BY <2>1, <3>1 DEF ResultsAreOf
    <3>3. results'[u] = Append(results[u], more[u])
      OBVIOUS
    <3> HIDE DEF n
    <3> DEFINE s == results[u]
               r == Append(s, more[u])
    <3>4. s \in Seq(K)
      BY <3>1
    <3> HIDE DEF s
    <3>5. /\ \E K_1 : r \in Seq(K_1)
          /\ Len(r) = Len(s) + 1
          /\ \A m \in 1 .. Len(s) : r[m] = s[m]
          /\ r[Len(s) + 1] = more[u]
      BY <3>4, AppendedIs
    <3> HIDE DEF r
    <3>6. results'[u] = r /\ Len(s) = n
      BY <3>2, <3>3 DEF r, s
    <3> QED BY <3>2, <3>5, <3>6 DEF s
  <2>5. A!Tried' = n + 1
    BY <2>2, <2>3, <2>4
  <2> HIDE DEF n
  <2>6. ASSUME NEW m \in 1 .. n + 1
        PROVE  \/ results'[t][m].none
               \/ results'[t][m].found = A!Verify(t, results'[t][m].run, assertions[t], A!MutationObservers)
    <3>1. CASE m = n + 1
      BY <2>4, <3>1
    <3>2. CASE m # n + 1
      <4>1. m \in 1 .. n
        BY <2>4, <3>2
      <4>2. results'[t][m] = results[t][m]
        BY <2>4, <4>1
      <4> QED BY <2>1, <4>1, <4>2 DEF ResultsAreOf, n
    <3> QED BY <3>1, <3>2
  <2> QED BY <2>4, <2>5, <2>6 DEF ResultsAreOf
<1>3. ResultsAreRight'
  BY <1>2 DEF ResultsAreRight
<1> QED BY <1>1, <1>3 DEF AssertionsInv

LEMMA SkipMutantKeeps == AssertionsInv /\ A!SkipMutant => AssertionsInv'
<1> SUFFICES ASSUME AssertionsInv, A!SkipMutant PROVE AssertionsInv'
  OBVIOUS
<1> DEFINE more == [t \in DOMAIN AsTests |-> [none |-> TRUE]]
<1>1. results' = [t \in DOMAIN AsTests |-> Append(results[t], more[t])]
  BY DEF A!SkipMutant
<1>2. \A t \in DOMAIN AsTests : more[t].none
  OBVIOUS
<1> HIDE DEF more
<1>3. /\ aPhase = "mutate" /\ aPhase' = aPhase /\ queue' = queue
      /\ assertions' = assertions /\ recorded' = recorded /\ filtered' = filtered
  BY DEF A!SkipMutant
<1> QED BY <1>1, <1>2, <1>3, MutantKeeps

LEMMA RunMutantKeeps == AssertionsInv /\ A!RunMutant => AssertionsInv'
<1> SUFFICES ASSUME AssertionsInv, A!RunMutant PROVE AssertionsInv'
  OBVIOUS
<1>1. PICK run : results' = [t \in DOMAIN AsTests |-> Append(results[t],
                               [none |-> FALSE, run |-> run[t],
                                found |-> A!Verify(t, run[t], assertions[t], A!MutationObservers)])]
  BY DEF A!RunMutant
<1> DEFINE more == [t \in DOMAIN AsTests |->
                      [none |-> FALSE, run |-> run[t],
                       found |-> A!Verify(t, run[t], assertions[t], A!MutationObservers)]]
<1>2. results' = [t \in DOMAIN AsTests |-> Append(results[t], more[t])]
  BY <1>1
<1>3. \A t \in DOMAIN AsTests :
        more[t].found = A!Verify(t, more[t].run, assertions[t], A!MutationObservers)
  OBVIOUS
<1> HIDE DEF more
<1>4. /\ aPhase = "mutate" /\ aPhase' = aPhase /\ queue' = queue
      /\ assertions' = assertions /\ recorded' = recorded /\ filtered' = filtered
  BY DEF A!RunMutant
<1> QED BY <1>2, <1>3, <1>4, MutantKeeps

LEMMA NextPhaseKeeps == AssertionsInv /\ A!NextPhase => AssertionsInv'
<1> SUFFICES ASSUME AssertionsInv, A!NextPhase PROVE AssertionsInv'
  OBVIOUS
<1>1. /\ recorded' = recorded /\ filtered' = filtered /\ results' = results /\ AssertionsType
      /\ \A t \in DOMAIN AsTests : TestIsRight(t, aPhase, assertions[t], recorded[t], filtered[t])
  BY DEF A!NextPhase, AssertionsInv
<1>2. CASE aPhase = "record" /\ aPhase' = "filter" /\ queue' \in A!SetToSeqs(DOMAIN AsTests) /\ assertions' = assertions
  <2>1. queue' \in Seq(DOMAIN AsTests)
    <3>1. IsFiniteSet(DOMAIN AsTests)
      BY TestsAre, FS_Interval
    <3>2. A!Cardinality(DOMAIN AsTests) \in Nat
      BY <3>1, FS_CardinalityType DEF A!Cardinality, Cardinality
    <3>3. A!SetToSeqs(DOMAIN AsTests) \subseteq [1 .. A!Cardinality(DOMAIN AsTests) -> DOMAIN AsTests]
      BY DEF A!SetToSeqs
    <3>4. queue' \in [1 .. A!Cardinality(DOMAIN AsTests) -> DOMAIN AsTests]
      BY <1>2, <3>3
    <3> QED BY <3>2, <3>4
  <2>2. AssertionsType'
    BY <1>1, <1>2, <2>1 DEF AssertionsType
  <2>3. ASSUME NEW t \in DOMAIN AsTests
        PROVE  TestIsRight(t, "filter", assertions[t], recorded[t], filtered[t])
    <3>1. TestIsRight(t, "record", assertions[t], recorded[t], filtered[t])
      BY <1>1, <1>2
    <3>2. filtered[t].timeout
      BY <3>1 DEF TestIsRight, A!NoRun
    <3> QED BY <3>1, <3>2 DEF TestIsRight, HoldAfter
  <2>4. ResultsAreRight'
    BY <1>1, <1>2 DEF AssertionsInv, ResultsAreRight
  <2> QED BY <1>1, <1>2, <2>2, <2>3, <2>4 DEF AssertionsInv
<1>3. CASE aPhase = "filter" /\ aPhase' = "mutate" /\ queue' = queue /\ assertions' = assertions
  <2>1. AssertionsType'
    BY <1>1, <1>3 DEF AssertionsType
  <2>2. ASSUME NEW t \in DOMAIN AsTests
        PROVE  TestIsRight(t, "mutate", assertions[t], recorded[t], filtered[t])
    BY <1>1, <1>3 DEF TestIsRight
  <2>3. ASSUME NEW t \in DOMAIN AsTests PROVE ResultsAreOf(t)'
    <3> DEFINE chosen == CHOOSE u \in DOMAIN AsTests : TRUE
    <3>1. chosen \in DOMAIN AsTests
      OBVIOUS
    <3>2. A!Tried' = Len(results'[chosen])
      BY DEF A!Tried
    <3> HIDE DEF chosen
    <3>3. \A u \in DOMAIN AsTests : results'[u] = << >>
      BY <1>1, <1>3 DEF AssertionsInv, ResultsAreRight
    <3>4. << >> \in Seq({}) /\ Len(<< >>) = 0
      OBVIOUS
    <3>5. A!Tried' = 0
      BY <3>1, <3>2, <3>3, <3>4
    <3>6. results'[t] \in Seq({}) /\ Len(results'[t]) = 0
      BY <3>3, <3>4
    <3>7. \A m \in 1 .. 0 : FALSE
      OBVIOUS
    <3> QED BY <3>5, <3>6, <3>7 DEF ResultsAreOf
  <2>4. ResultsAreRight'
    BY <1>3, <2>3 DEF ResultsAreRight
  <2> QED BY <1>1, <1>3, <2>1, <2>2, <2>4 DEF AssertionsInv
<1>4. CASE aPhase' = "done" /\ assertions' = [t \in DOMAIN AsTests |-> A!Relevant(t)] /\ queue' = queue
  <2>1. AssertionsType'
    BY <1>1, <1>4 DEF AssertionsType
  <2>2. ASSUME NEW t \in DOMAIN AsTests
        PROVE  TestIsRight(t, "done", assertions'[t], recorded[t], filtered[t])
    <3>1. IsARun(t, recorded[t]) /\ ListsAreOf(t, assertions[t], recorded[t])
      BY <1>1 DEF TestIsRight
    <3>2. assertions'[t] = A!Relevant(t)
      BY <1>4
    <3>3. \A i \in A!Statements(t) : \E positions :
            A!Relevant(t)[i] = A!RemoveAssertions(assertions[t][i], positions)
      BY DEF A!Relevant
    <3>4. ListsAreOf(t, assertions'[t], recorded[t])
      BY <3>1, <3>2, <3>3, RemovedAreOf
    <3> QED BY <3>1, <3>4 DEF TestIsRight
  <2>3. ResultsAreRight'
    BY <1>4 DEF ResultsAreRight
  <2> QED BY <1>1, <1>4, <2>1, <2>2, <2>3 DEF AssertionsInv
<1> QED BY <1>2, <1>3, <1>4 DEF A!NextPhase

LEMMA AssertionsNext == AssertionsInv /\ A!Next => AssertionsInv'
BY RecordKeeps, FilterKeeps, SkipMutantKeeps, RunMutantKeeps, NextPhaseKeeps DEF A!Next

LEMMA AssertionsStays == AssertionsInv /\ UNCHANGED aVars => AssertionsInv'
<1> SUFFICES ASSUME AssertionsInv, UNCHANGED aVars PROVE AssertionsInv'
  OBVIOUS
<1>1. /\ aPhase' = aPhase /\ queue' = queue /\ assertions' = assertions /\ recorded' = recorded
      /\ filtered' = filtered /\ results' = results
  BY DEF aVars
<1>2. AssertionsType'
  BY <1>1 DEF AssertionsInv, AssertionsType
<1>3. \A t \in DOMAIN AsTests : ResultsAreOf(t) => ResultsAreOf(t)'
  BY <1>1 DEF ResultsAreOf, A!Tried
<1>4. ResultsAreRight'
  BY <1>1, <1>3 DEF AssertionsInv, ResultsAreRight
<1> QED BY <1>1, <1>2, <1>4 DEF AssertionsInv

(* In the end exactly those assertions on values stay that a mutant violates.      *)
LEMMA RelevantStay ==
  AssertionsInv /\ A!Next => A!RelevantAreKept
<1> SUFFICES ASSUME AssertionsInv, A!Next, aPhase' = "done",
                    NEW t \in DOMAIN AsTests, NEW i \in A!Statements(t),
                    NEW k \in DOMAIN assertions[t][i], assertions[t][i][k].ref # "exception"
             PROVE  A!Says(assertions'[t][i], assertions[t][i][k]) <=>
                      \E m \in 1 .. Len(AsMutants) :
                        /\ A!Has(t, m) /\ ~A!TimedOut(m)
                        /\ \A j \in 1 .. i - 1 : results[t][m].run.steps[j].raises = "none"
                        /\ ~A!HoldsIn(results[t][m].run, i, assertions[t][i][k])
  BY DEF A!RelevantAreKept
<1>1. /\ aPhase = "mutate" /\ A!Tried = Len(AsMutants)
      /\ assertions' = [u \in DOMAIN AsTests |-> A!Relevant(u)]
  BY DEF A!Next, A!Record, A!Filter, A!SkipMutant, A!RunMutant, A!NextPhase
<1>2. IsARun(t, recorded[t]) /\ ListsAreOf(t, assertions[t], recorded[t])
  BY DEF AssertionsInv, TestIsRight
<1>3. ResultsAreOf(t)
  BY <1>1 DEF AssertionsInv, ResultsAreRight
<1> DEFINE a == assertions[t][i][k]
<1>4. assertions'[t][i] = A!Relevant(t)[i]
  BY <1>1
<1>5. a = assertions[t][i][k] /\ a.ref # "exception"
  OBVIOUS
<1> HIDE DEF a
<1>6. A!Says(A!Relevant(t)[i], a) <=>
           \E m \in 1 .. A!Tried :
             /\ A!Has(t, m) /\ ~A!TimedOut(m)
             /\ \A j \in 1 .. i - 1 : results[t][m].run.steps[j].raises = "none"
             /\ ~A!HoldsIn(results[t][m].run, i, a)
  BY <1>2, <1>3, <1>5, RelevantIs
<1> QED BY <1>1, <1>4, <1>5, <1>6

--------------------------------------------------------------------------------
(* Mutants: the tree, parents, places and the nodes above.                         *)

LEMMA NodesAre ==
  /\ Len(Kind) \in Nat \ {0} /\ Nodes = 1 .. Len(Kind) /\ Root \in Nodes
  /\ \A n \in Nodes : n \in Nat /\ n >= 1 /\ Lists[n] \in Seq(Seq(Nodes))
  /\ \A n \in Nodes : \A k \in DOMAIN Lists[n] :
       /\ Lists[n][k] \in Seq(Nodes)
       /\ \A j \in DOMAIN Lists[n][k] : Lists[n][k][j] \in ChildrenOf(n) /\ Lists[n][k][j] \in Nodes
<1>1. Len(Kind) \in Nat \ {0} /\ Nodes = 1 .. Len(Kind) /\ Lists \in [Nodes -> Seq(Seq(Nodes))]
  BY TreeType
<1>2. Root \in Nodes /\ \A n \in Nodes : n \in Nat /\ n >= 1
  BY <1>1 DEF Root
<1>3. ASSUME NEW n \in Nodes, NEW k \in DOMAIN Lists[n]
      PROVE  /\ Lists[n][k] \in Seq(Nodes)
             /\ \A j \in DOMAIN Lists[n][k] : Lists[n][k][j] \in ChildrenOf(n) /\ Lists[n][k][j] \in Nodes
  <2>1. Lists[n] \in Seq(Seq(Nodes))
    BY <1>1
  <2>2. Lists[n][k] \in Seq(Nodes)
    BY <2>1
  <2>3. \A j \in DOMAIN Lists[n][k] : Lists[n][k][j] \in Nodes
    BY <2>2
  <2> QED BY <2>2, <2>3 DEF ChildrenOf, ToSet
<1> QED BY <1>1, <1>2, <1>3

(* Every node but the module is somewhere, and nowhere else.                       *)
LEMMA PlaceIs ==
  ASSUME NEW n \in Nodes, n # Root
  PROVE  /\ Place(n).owner = Parent(n) /\ Parent(n) \in Nodes /\ Parent(n) < n
         /\ Place(n).list \in DOMAIN Lists[Parent(n)]
         /\ Place(n).position \in DOMAIN Lists[Parent(n)][Place(n).list]
         /\ \A p \in Nodes : \A k \in DOMAIN Lists[p] : \A j \in DOMAIN Lists[p][k] :
              Lists[p][k][j] = n <=>
                p = Place(n).owner /\ k = Place(n).list /\ j = Place(n).position
<1> DEFINE p == Parent(n)
           k == CHOOSE k \in DOMAIN Lists[p] : n \in ToSet(Lists[p][k])
           j == CHOOSE j \in DOMAIN Lists[p][k] : Lists[p][k][j] = n
<1>1. p \in Nodes /\ n \in ChildrenOf(p)
  <2>1. \E q \in Nodes : n \in ChildrenOf(q)
    BY TreeType
  <2> QED BY <2>1 DEF Parent
<1>2. p < n
  BY <1>1, TreeType
<1>3. Place(n) = [owner |-> p, list |-> k, position |-> j]
  BY DEF Place
<1>4. k \in DOMAIN Lists[p] /\ n \in ToSet(Lists[p][k])
  <2>1. \E l \in DOMAIN Lists[p] : n \in ToSet(Lists[p][l])
    BY <1>1 DEF ChildrenOf
  <2> HIDE DEF p
  <2> QED BY <2>1
<1>5. j \in DOMAIN Lists[p][k] /\ Lists[p][k][j] = n
  <2> HIDE DEF p, k
  <2>1. \E l \in DOMAIN Lists[p][k] : Lists[p][k][l] = n
    BY <1>4 DEF ToSet
  <2> QED BY <2>1
<1> HIDE DEF p, k, j
<1>6. ASSUME NEW q \in Nodes, NEW l \in DOMAIN Lists[q], NEW i \in DOMAIN Lists[q][l]
      PROVE  Lists[q][l][i] = n <=> q = p /\ l = k /\ i = j
  <2>1. Lists[q][l][i] = Lists[p][k][j] => q = p /\ l = k /\ i = j
    BY <1>1, <1>4, <1>5, TreeType
  <2> QED BY <1>5, <2>1
<1>7. Place(n).owner = p /\ Place(n).list = k /\ Place(n).position = j
  BY <1>3
<1> QED BY <1>1, <1>2, <1>4, <1>5, <1>6, <1>7 DEF p

LEMMA AboveIs ==
  /\ Above[Root] = {}
  /\ \A n \in Nodes : n # Root => Above[n] = {Parent(n)} \cup Above[Parent(n)]
  /\ \A n \in Nodes : Above[n] \subseteq Nodes /\ \A a \in Above[n] : a < n
<1> DEFINE m == Len(Kind)
           P == [n \in 1 .. m |-> IF n = Root THEN 0 ELSE Parent(n)]
           here == [n \in 1 .. m |-> IF n = Root THEN {} ELSE {Parent(n)}]
           Body(f, n) == IF n = Root THEN {} ELSE {Parent(n)} \cup f[Parent(n)]
           IsAbove(f) == f = [n \in Nodes |-> Body(f, n)]
<1>1. m \in Nat /\ Nodes = 1 .. m /\ Root \in Nodes /\ \A n \in Nodes : n \in Nat
  BY NodesAre
<1>2. \A n \in Nodes : n # Root => Parent(n) \in Nodes /\ Parent(n) < n
  BY PlaceIs
<1>3. \A n \in 1 .. m : P[n] \in Nat /\ P[n] < n
  BY <1>1, <1>2
<1>4. \E f : IsAbove(f)
  <2> HIDE DEF P, here
  <2>1. PICK f : Nests(f, m, P, here, {})
    BY <1>1, <1>3, RecursionExists, Zenon
  <2>2. /\ \A n \in 0 .. m : f[n] = IF n = 0 THEN {} ELSE here[n] \cup f[P[n]]
    BY <2>1 DEF Nests
  <2> DEFINE g == [n \in Nodes |-> f[n]]
  <2>3. ASSUME NEW n \in Nodes PROVE g[n] = Body(g, n)
    <3>1. n \in 0 .. m /\ n # 0 /\ n \in 1 .. m /\ 0 \in 0 .. m
      BY <1>1
    <3>2. f[n] = here[n] \cup f[P[n]] /\ f[0] = {}
      BY <2>2, <3>1
    <3>3. CASE n = Root
      BY <3>1, <3>2, <3>3 DEF here, P
    <3>4. CASE n # Root
      <4>1. here[n] = {Parent(n)} /\ P[n] = Parent(n) /\ Parent(n) \in Nodes
        BY <1>2, <3>1, <3>4 DEF here, P
      <4> QED BY <3>2, <3>4, <4>1
    <3> QED BY <3>3, <3>4
  <2>4. g = [n \in Nodes |-> g[n]]
    OBVIOUS
  <2> HIDE DEF g, Body
  <2>5. IsAbove(g)
    BY <2>3, <2>4
  <2> QED BY <2>5
<1>5. Above = CHOOSE f : IsAbove(f)
  BY DEF Above
<1>6. IsAbove(Above)
  <2> HIDE DEF IsAbove
  <2> QED BY <1>4, <1>5
<1>7. \A n \in Nodes : Above[n] = Body(Above, n)
  <2> HIDE DEF Body
  <2> QED BY <1>6
<1> DEFINE Good(n) == Above[n] \subseteq Nodes /\ \A a \in Above[n] : a < n
           T == {n \in 0 .. m : n # 0 => Good(n)}
<1>8. ASSUME NEW n \in 0 .. m, \A k \in 0 .. m : k < n => k \in T, n # 0
      PROVE  Good(n)
  <2>1. n \in Nodes
    BY <1>1, <1>8
  <2>2. CASE n = Root
    <3>1. Above[n] = {}
      BY <1>7, <2>1, <2>2
    <3> QED BY <3>1
  <2>3. CASE n # Root
    <3>1. Parent(n) \in Nodes /\ Parent(n) < n /\ Above[n] = {Parent(n)} \cup Above[Parent(n)]
      BY <1>2, <1>7, <2>1, <2>3
    <3>2. Parent(n) \in 0 .. m /\ Parent(n) # 0
      BY <1>1, <3>1
    <3>3. Good(Parent(n))
      BY <1>8, <3>1, <3>2
    <3>4. \A a \in Above[Parent(n)] : a \in Nat /\ a < n
      <4>1. n \in Nat /\ Parent(n) \in Nat
        BY <1>1, <2>1, <3>1
      <4> QED BY <1>1, <3>1, <3>3, <4>1
    <3> QED BY <3>1, <3>3, <3>4
  <2> QED BY <2>2, <2>3
<1>9. T = 0 .. m
  <2> HIDE DEF Good
  <2>1. \A n \in 0 .. m : (\A k \in 0 .. m : k < n => k \in T) => n \in T
    BY <1>8
  <2> HIDE DEF T
  <2>2. T \subseteq 0 .. m
    BY DEF T
  <2> QED BY <1>1, <2>1, <2>2, AllUpTo
<1>10. \A n \in Nodes : Good(n)
  <2> HIDE DEF Good
  <2>1. \A n \in Nodes : n \in 0 .. m /\ n # 0
    BY <1>1
  <2> QED BY <1>9, <2>1
<1> QED BY <1>1, <1>7, <1>10

(* The nodes on the way to a node are below one another.                           *)
LEMMA PathIs ==
  ASSUME NEW n \in Nodes, n # Root
  PROVE  /\ n \in PathTo(n)
         /\ \A a \in PathTo(n) : /\ a \in Nodes /\ a # Root /\ (a = n \/ a \in Above[n])
                                 /\ a # n => Parent(a) # Parent(n)
<1>1. n \in PathTo(n)
  BY DEF PathTo
<1>2. ASSUME NEW a \in PathTo(n), a # n
      PROVE  a \in Nodes /\ a # Root /\ a \in Above[n] /\ Parent(a) # Parent(n)
  <2>1. a \in Above[n] /\ a # Root
    BY <1>2 DEF PathTo
  <2>2. a \in Nodes /\ Above[n] = {Parent(n)} \cup Above[Parent(n)] /\ Parent(n) \in Nodes
    BY <2>1, AboveIs, PlaceIs
  <2>3. Parent(a) < a /\ Parent(a) \in Nodes
    BY <2>1, <2>2, PlaceIs
  <2>4. a = Parent(n) \/ a < Parent(n)
    BY <2>1, <2>2, AboveIs
  <2>5. a \in Nat /\ Parent(a) \in Nat /\ Parent(n) \in Nat
    BY <2>2, <2>3, NodesAre
  <2> QED BY <2>1, <2>2, <2>3, <2>4, <2>5
<1> QED BY <1>1, <1>2

--------------------------------------------------------------------------------
(* What the operators offer: for other nodes than the module.                      *)

(* What takes the place of a node.                                                 *)
Names ==
  {"Add", "And", "BitAnd", "BitOr", "Break", "Continue", "Div", "Eq", "FloorDiv",
   "Gt", "GtE", "LShift", "Lt", "LtE", "Mult", "NotEq", "Or", "Pow", "RShift",
   "Sub", "UAdd", "USub", "operand", "num", "str", "str_empty", "lower", "step",
   "upper", "In", "not", "NotIn", "undecorated", "raise", "pass", "moved",
   "gone", "inserted", "one", "reversed", "zero"}

LEMMA NamesAre ==
  /\ "Add" \in Names /\ "And" \in Names /\ "BitAnd" \in Names
  /\ "BitOr" \in Names /\ "Break" \in Names /\ "Continue" \in Names
  /\ "Div" \in Names /\ "Eq" \in Names /\ "FloorDiv" \in Names /\ "Gt" \in Names
  /\ "GtE" \in Names /\ "LShift" \in Names /\ "Lt" \in Names /\ "LtE" \in Names
  /\ "Mult" \in Names /\ "NotEq" \in Names /\ "Or" \in Names /\ "Pow" \in Names
  /\ "RShift" \in Names /\ "Sub" \in Names /\ "UAdd" \in Names
  /\ "USub" \in Names /\ "operand" \in Names /\ "num" \in Names
  /\ "str" \in Names /\ "str_empty" \in Names /\ "lower" \in Names
  /\ "step" \in Names /\ "upper" \in Names /\ "In" \in Names /\ "not" \in Names
  /\ "NotIn" \in Names /\ "undecorated" \in Names /\ "raise" \in Names
  /\ "pass" \in Names /\ "moved" \in Names /\ "gone" \in Names
  /\ "inserted" \in Names /\ "one" \in Names /\ "reversed" \in Names
  /\ "zero" \in Names
BY DEF Names

LEMMA WhenIs ==
  ASSUME NEW g, NEW name \in Names
  PROVE  When(g, name) \in Seq(Names) /\ (~g => When(g, name) = << >>)
BY DEF When

LEMMA OfIs ==
  ASSUME NEW n
  PROVE  /\ Of(Arithmetic, n) \in Seq(Names) /\ Of(Signs, n) \in Seq(Names)
         /\ Of(Jumps, n) \in Seq(Names) /\ Of(Connectors, n) \in Seq(Names)
         /\ Of(Bitwise_, n) \in Seq(Names) /\ Of(Relations, n) \in Seq(Names)
         /\ Kind[n] = "Module" =>
              \A t \in {Arithmetic, Signs, Jumps, Connectors, Bitwise_, Relations} : Of(t, n) = << >>
<1>1. Of(Arithmetic, n) \in Seq(Names) /\ (Kind[n] = "Module" => Of(Arithmetic, n) = << >>)
  <2>1. DOMAIN Arithmetic = {"Add", "Sub", "Mult", "Div", "FloorDiv", "Mod", "Pow"}
    BY DEF Arithmetic
  <2>2. /\ Arithmetic["Add"] = <<"Sub">> /\ <<"Sub">> \in Seq(Names)
        /\ Arithmetic["Sub"] = <<"Add">> /\ <<"Add">> \in Seq(Names)
        /\ Arithmetic["Mult"] = <<"Div", "FloorDiv", "Pow">> /\ <<"Div", "FloorDiv", "Pow">> \in Seq(Names)
        /\ Arithmetic["Div"] = <<"FloorDiv", "Mult">> /\ <<"FloorDiv", "Mult">> \in Seq(Names)
        /\ Arithmetic["FloorDiv"] = <<"Div", "Mult">> /\ <<"Div", "Mult">> \in Seq(Names)
        /\ Arithmetic["Mod"] = <<"Mult">> /\ <<"Mult">> \in Seq(Names)
        /\ Arithmetic["Pow"] = <<"Mult">> /\ <<"Mult">> \in Seq(Names)
    BY NamesAre DEF Arithmetic
  <2>3. \A x \in DOMAIN Arithmetic : Arithmetic[x] \in Seq(Names)
    BY <2>1, <2>2
  <2> QED BY <2>1, <2>3 DEF Of
<1>2. Of(Signs, n) \in Seq(Names) /\ (Kind[n] = "Module" => Of(Signs, n) = << >>)
  <2>1. DOMAIN Signs = {"USub", "UAdd"}
    BY DEF Signs
  <2>2. /\ Signs["USub"] = <<"UAdd">> /\ <<"UAdd">> \in Seq(Names)
        /\ Signs["UAdd"] = <<"USub">> /\ <<"USub">> \in Seq(Names)
    BY NamesAre DEF Signs
  <2>3. \A x \in DOMAIN Signs : Signs[x] \in Seq(Names)
    BY <2>1, <2>2
  <2> QED BY <2>1, <2>3 DEF Of
<1>3. Of(Jumps, n) \in Seq(Names) /\ (Kind[n] = "Module" => Of(Jumps, n) = << >>)
  <2>1. DOMAIN Jumps = {"Break", "Continue"}
    BY DEF Jumps
  <2>2. /\ Jumps["Break"] = <<"Continue">> /\ <<"Continue">> \in Seq(Names)
        /\ Jumps["Continue"] = <<"Break">> /\ <<"Break">> \in Seq(Names)
    BY NamesAre DEF Jumps
  <2>3. \A x \in DOMAIN Jumps : Jumps[x] \in Seq(Names)
    BY <2>1, <2>2
  <2> QED BY <2>1, <2>3 DEF Of
<1>4. Of(Connectors, n) \in Seq(Names) /\ (Kind[n] = "Module" => Of(Connectors, n) = << >>)
  <2>1. DOMAIN Connectors = {"And", "Or"}
    BY DEF Connectors
  <2>2. /\ Connectors["And"] = <<"Or">> /\ <<"Or">> \in Seq(Names)
        /\ Connectors["Or"] = <<"And">> /\ <<"And">> \in Seq(Names)
    BY NamesAre DEF Connectors
  <2>3. \A x \in DOMAIN Connectors : Connectors[x] \in Seq(Names)
    BY <2>1, <2>2
  <2> QED BY <2>1, <2>3 DEF Of
<1>5. Of(Bitwise_, n) \in Seq(Names) /\ (Kind[n] = "Module" => Of(Bitwise_, n) = << >>)
  <2>1. DOMAIN Bitwise_ = {"BitAnd", "BitOr", "BitXor", "LShift", "RShift"}
    BY DEF Bitwise_
  <2>2. /\ Bitwise_["BitAnd"] = <<"BitOr">> /\ <<"BitOr">> \in Seq(Names)
        /\ Bitwise_["BitOr"] = <<"BitAnd">> /\ <<"BitAnd">> \in Seq(Names)
        /\ Bitwise_["BitXor"] = <<"BitAnd">> /\ <<"BitAnd">> \in Seq(Names)
        /\ Bitwise_["LShift"] = <<"RShift">> /\ <<"RShift">> \in Seq(Names)
        /\ Bitwise_["RShift"] = <<"LShift">> /\ <<"LShift">> \in Seq(Names)
    BY NamesAre DEF Bitwise_
  <2>3. \A x \in DOMAIN Bitwise_ : Bitwise_[x] \in Seq(Names)
    BY <2>1, <2>2
  <2> QED BY <2>1, <2>3 DEF Of
<1>6. Of(Relations, n) \in Seq(Names) /\ (Kind[n] = "Module" => Of(Relations, n) = << >>)
  <2>1. DOMAIN Relations = {"Lt", "Gt", "LtE", "GtE", "Eq", "NotEq"}
    BY DEF Relations
  <2>2. /\ Relations["Lt"] = <<"Gt", "LtE">> /\ <<"Gt", "LtE">> \in Seq(Names)
        /\ Relations["Gt"] = <<"Lt", "GtE">> /\ <<"Lt", "GtE">> \in Seq(Names)
        /\ Relations["LtE"] = <<"GtE", "Lt">> /\ <<"GtE", "Lt">> \in Seq(Names)
        /\ Relations["GtE"] = <<"LtE", "Gt">> /\ <<"LtE", "Gt">> \in Seq(Names)
        /\ Relations["Eq"] = <<"NotEq">> /\ <<"NotEq">> \in Seq(Names)
        /\ Relations["NotEq"] = <<"Eq">> /\ <<"Eq">> \in Seq(Names)
    BY NamesAre DEF Relations
  <2>3. \A x \in DOMAIN Relations : Relations[x] \in Seq(Names)
    BY <2>1, <2>2
  <2> QED BY <2>1, <2>3 DEF Of
<1> QED BY <1>1, <1>2, <1>3, <1>4, <1>5, <1>6

(* One kind of operator after the other.                                           *)
LEMMA OffersAre ==
  ASSUME NEW n \in Nodes, NEW k \in 1 .. 23
  PROVE  /\ MutationsOf(n)[k][2] \in Seq(Names)
         /\ n = Root => MutationsOf(n)[k][2] = << >>
<1> DEFINE is == Kind[n]
           m == n = Root
           Fine(s) == s \in Seq(Names) /\ (m => s = << >>)
<1>1. m => is = "Module"
  BY TreeType
<1>2. ASSUME NEW s, NEW t, Fine(s), Fine(t) PROVE Fine(s \o t)
  <2>1. s \o t \in Seq(Names)
    BY <1>2
  <2>2. m => s \o t = << >>
    BY <1>2
  <2> QED BY <2>1, <2>2
<1>3. ASSUME NEW g, NEW name \in Names, m => ~g PROVE Fine(When(g, name))
  BY <1>3, WhenIs
<1>4. Fine(<< >>)
  OBVIOUS
<1>5. /\ Fine(Of(Arithmetic, n)) /\ Fine(Of(Signs, n)) /\ Fine(Of(Jumps, n))
      /\ Fine(Of(Connectors, n)) /\ Fine(Of(Bitwise_, n)) /\ Fine(Of(Relations, n))
  BY <1>1, OfIs
<1> HIDE DEF Fine, m
<1>6. ASSUME NEW kinds PROVE Fine(Deletes(n, kinds))
  <2>1. m => ~(is = "UnaryOp" /\ Kind[Lists[n][1][1]] \in kinds)
    BY <1>1
  <2>2. Fine(When(is = "UnaryOp" /\ Kind[Lists[n][1][1]] \in kinds, "operand"))
    BY <1>3, <2>1, NamesAre
  <2> QED BY <2>2 DEF Deletes
<1>7. Fine(IF InAugmentedAssignment(n) THEN << >> ELSE Of(Arithmetic, n))
  BY <1>4, <1>5
<1>8. Fine(IF InAugmentedAssignment(n) THEN Of(Arithmetic, n) ELSE << >>)
  BY <1>4, <1>5
<1>9. ASSUME NEW K, "Module" \notin K, NEW g, NEW name \in Names
      PROVE  Fine(When(Is(n, K) /\ g, name)) /\ Fine(When(Is(n, K), name))
  <2>1. m => ~Is(n, K)
    BY <1>1, <1>9 DEF Is
  <2> QED BY <1>3, <2>1, NamesAre
<1>10. Fine(Constants(n))
  <2> DEFINE p == When(Is(n, {"Constant"}) /\ Has(n, "number"), "num")
             q == When(Is(n, {"Constant"}) /\ Has(n, "string") /\ ~Has(n, "docstring"), "str")
             r == When(Is(n, {"Constant"}) /\ Has(n, "string") /\ ~Has(n, "docstring")
                       /\ ~Has(n, "empty"), "str_empty")
  <2>1. m => ~Is(n, {"Constant"})
    BY <1>1 DEF Is
  <2>2. Fine(p) /\ Fine(q) /\ Fine(r)
    BY <1>3, <2>1, NamesAre
  <2>3. Constants(n) = p \o q \o r
    BY DEF Constants
  <2> HIDE DEF p, q, r
  <2>4. Fine(p \o q)
    BY <1>2, <2>2
  <2>5. Fine(p \o q \o r)
    BY <1>2, <2>2, <2>4
  <2> QED BY <2>3, <2>5
<1>11. Fine(IF Is(n, {"Slice"}) THEN Slices(n) ELSE << >>)
  <2> DEFINE p == When(Has(n, "lower"), "lower")
             q == When(Has(n, "step"), "step")
             r == When(Has(n, "upper"), "upper")
  <2>1. m => ~Is(n, {"Slice"})
    BY <1>1 DEF Is
  <2>2. p \in Seq(Names) /\ q \in Seq(Names) /\ r \in Seq(Names)
    BY WhenIs, NamesAre
  <2>3. Slices(n) = p \o q \o r
    BY DEF Slices
  <2> HIDE DEF p, q, r
  <2>4. Slices(n) \in Seq(Names)
    BY <2>2, <2>3
  <2> QED BY <1>4, <2>1, <2>4 DEF Fine
<1>12. Fine(Deletes(n, {"Not"}) \o When(Is(n, {"NotIn"}), "In"))
  <2>1. Fine(When(Is(n, {"NotIn"}), "In"))
    BY <1>9, NamesAre
  <2> QED BY <1>2, <1>6, <2>1
<1>13. Fine(When(Is(n, {"If", "While"}), "not") \o When(Is(n, {"In"}), "NotIn"))
  <2>1. Fine(When(Is(n, {"If", "While"}), "not")) /\ Fine(When(Is(n, {"In"}), "NotIn"))
    BY <1>9, NamesAre
  <2> QED BY <1>2, <2>1
<1>14. Fine((IF InAugmentedAssignment(n) THEN << >> ELSE Of(Arithmetic, n)) \o Of(Signs, n))
  BY <1>2, <1>5, <1>7
<1>15. Fine(When(Is(n, {"FunctionDef"}) /\ Has(n, "decorated"), "undecorated"))
  BY <1>9, NamesAre
<1>16. Fine(Handlers(n, "raises", "raise")) /\ Fine(Handlers(n, "passes", "pass"))
  <2>1. m => ~Is(n, {"ExceptHandler"})
    BY <1>1 DEF Is
  <2> QED BY <1>3, <2>1, NamesAre DEF Handlers
<1>17. Fine(Overriding(n, "Assign")) /\ Fine(Overriding(n, "FunctionDef"))
  <2>1. m => ~Is(n, {"Assign"}) /\ ~Is(n, {"FunctionDef"})
    BY <1>1 DEF Is
  <2> QED BY <1>3, <2>1, NamesAre DEF Overriding
<1>18. Fine(SuperCalls(n, "moved")) /\ Fine(SuperCalls(n, "gone")) /\ Fine(SuperCalls(n, "inserted"))
  <2>1. m => ~Is(n, {"FunctionDef"})
    BY <1>1 DEF Is
  <2>2. /\ Fine(When(Is(n, {"FunctionDef"}) /\ Has(n, "super") /\ Has(n, "long"), "moved"))
        /\ Fine(When(Is(n, {"FunctionDef"}) /\ Has(n, "super"), "gone"))
        /\ Fine(When(Is(n, {"FunctionDef"}) /\ Has(n, "overrides") /\ ~Has(n, "super"), "inserted"))
    BY <1>3, <2>1, NamesAre
  <2> QED BY <2>2 DEF SuperCalls
<1>19. /\ Fine(Loops(n, {"For", "While"}, "one")) /\ Fine(Loops(n, {"For"}, "reversed"))
       /\ Fine(Loops(n, {"For", "While"}, "zero"))
  <2>1. m => ~Is(n, {"For", "While"}) /\ ~Is(n, {"For"})
    BY <1>1 DEF Is
  <2> QED BY <1>3, <2>1, NamesAre DEF Loops
<1>20. Fine(MutationsOf(n)[k][2])
  <2>1. CASE k \in 1 .. 6
    <3>2. MutationsOf(n)[1][2] = Deletes(n, {"UAdd", "USub"})
      BY DEF MutationsOf
    <3>3. Fine(MutationsOf(n)[2][2])
      BY <1>14 DEF MutationsOf
    <3>4. Fine(MutationsOf(n)[3][2])
      BY <1>8 DEF MutationsOf
    <3>5. Fine(MutationsOf(n)[4][2])
      BY <1>5 DEF MutationsOf
    <3>6. Fine(MutationsOf(n)[5][2])
      BY <1>12 DEF MutationsOf
    <3>7. Fine(MutationsOf(n)[6][2])
      BY <1>13 DEF MutationsOf
    <3> QED BY <1>6, <2>1, <3>2, <3>3, <3>4, <3>5, <3>6, <3>7
  <2>2. CASE k \in 7 .. 12
    BY <1>5, <1>10, <1>15, <1>16, <1>17, <2>2 DEF MutationsOf
  <2>3. CASE k \in 13 .. 18
    BY <1>5, <1>6, <1>11, <1>17, <1>18, <2>3 DEF MutationsOf
  <2>4. CASE k \in 19 .. 23
    BY <1>18, <1>19, <2>4 DEF MutationsOf
  <2> QED BY <2>1, <2>2, <2>3, <2>4
<1> QED BY <1>20 DEF Fine, m

Offered ==
  UNION {UNION {{[node |-> n, operator |-> MutationsOf(n)[k][1], to |-> MutationsOf(n)[k][2][j]] :
                   j \in DOMAIN MutationsOf(n)[k][2]} : k \in 1 .. 23} : n \in Nodes}

LEMMA MutationsAre ==
  AllMutations \in Seq(Offered) /\ \A m \in Offered : m.node \in Nodes /\ m.node # Root
<1> DEFINE Offer(n, k) == [j \in DOMAIN MutationsOf(n)[k][2] |->
                             [node |-> n, operator |-> MutationsOf(n)[k][1],
                              to |-> MutationsOf(n)[k][2][j]]]
           Row(k) == [i \in DOMAIN Preorder |-> Offer(k, Preorder[i])]
           m == Len(Kind)
<1>1. m \in Nat /\ Nodes = 1 .. m /\ Preorder = [n \in Nodes |-> n]
  BY NodesAre, TreeType
<1>2. ASSUME NEW n \in Nodes, NEW k \in 1 .. 23
      PROVE  /\ Offer(n, k) \in Seq(Offered)
             /\ MutationsOf(n)[k][2] = << >> \/ n # Root
  <2>1. MutationsOf(n)[k][2] \in Seq(Names) /\ (n = Root => MutationsOf(n)[k][2] = << >>)
    BY OffersAre
  <2>2. \A j \in DOMAIN MutationsOf(n)[k][2] : Offer(n, k)[j] \in Offered
    BY DEF Offered
  <2> DEFINE s == MutationsOf(n)[k][2]
             t == Offer(n, k)
  <2>3. DOMAIN t = DOMAIN s /\ t = [j \in DOMAIN s |-> t[j]]
    OBVIOUS
  <2> HIDE DEF s, t
  <2>4. DOMAIN s = 1 .. Len(s) /\ Len(s) \in Nat
    BY <2>1 DEF s
  <2>5. \A j \in DOMAIN s : t[j] \in Offered
    BY <2>2 DEF s, t
  <2>6. t \in Seq(Offered)
    BY <2>3, <2>4, <2>5
  <2> QED BY <2>1, <2>6 DEF t
<1>3. ASSUME NEW e \in Offered PROVE e.node \in Nodes /\ e.node # Root
  <2>1. PICK n \in Nodes, k \in 1 .. 23 : \E j \in DOMAIN MutationsOf(n)[k][2] :
          e = [node |-> n, operator |-> MutationsOf(n)[k][1], to |-> MutationsOf(n)[k][2][j]]
    BY DEF Offered
  <2>2. e.node = n /\ MutationsOf(n)[k][2] # << >>
    BY <2>1
  <2> QED BY <1>2, <2>2
<1> DEFINE Rows == [k \in 1 .. 23 |-> FlattenSeq([i \in DOMAIN Preorder |-> Offer(Preorder[i], k)])]
<1>4. ASSUME NEW k \in 1 .. 23
      PROVE  FlattenSeq([i \in DOMAIN Preorder |-> Offer(Preorder[i], k)]) \in Seq(Offered)
  <2> DEFINE parts == [i \in DOMAIN Preorder |-> Offer(Preorder[i], k)]
  <2>1. DOMAIN parts = 1 .. m /\ \A i \in 1 .. m : parts[i] = Offer(i, k)
    BY <1>1
  <2>2. \A i \in 1 .. m : parts[i] \in Seq(Offered)
    BY <1>1, <1>2, <2>1
  <2>3. parts = [i \in DOMAIN parts |-> parts[i]]
    OBVIOUS
  <2> HIDE DEF parts
  <2>4. parts \in Seq(Seq(Offered))
    BY <1>1, <2>1, <2>2, <2>3
  <2>5. FlattenSeq(parts) \in Seq(Offered)
    BY <2>4, FlattenIs
  <2> QED BY <2>5 DEF parts
<1>5. AllMutations = FlattenSeq(Rows)
  BY DEF AllMutations
<1>6. Rows \in Seq(Seq(Offered))
  <2> HIDE DEF Offer
  <2> QED BY <1>4
<1> HIDE DEF Rows
<1>7. AllMutations \in Seq(Offered)
  BY <1>5, <1>6, FlattenIs
<1> QED BY <1>3, <1>7

--------------------------------------------------------------------------------
(* The mutations of a mutant are of nodes of which none is below another.          *)

Apart(a, b) == a.node # b.node /\ a.node \notin Above[b.node] /\ b.node \notin Above[a.node]

LEMMA RemoveIs ==
  ASSUME NEW K, NEW s \in Seq(K), NEW i \in DOMAIN s
  PROVE  RemoveAt(s, i) \in Seq(K) /\ ToSet(RemoveAt(s, i)) \subseteq ToSet(s)
<1> DEFINE p == SubSeq(s, 1, i - 1)
           q == SubSeq(s, i + 1, Len(s))
           Z == ToSet(s)
<1>1. s \in Seq(Z) /\ Z \subseteq K /\ i \in 1 .. Len(s) /\ Len(s) \in Nat
  <2>1. \A k \in 1 .. Len(s) : s[k] \in Z /\ s[k] \in K
    BY DEF ToSet
  <2>2. DOMAIN s = 1 .. Len(s) /\ Len(s) \in Nat
    OBVIOUS
  <2>3. Z \subseteq K
    BY <2>1, <2>2 DEF ToSet
  <2> QED BY <2>1, <2>2, <2>3
<1> HIDE DEF Z
<1>2. p \in Seq(Z) /\ q \in Seq(Z)
  BY <1>1
<1> HIDE DEF p, q
<1>3. p \o q \in Seq(Z)
  BY <1>2
<1>4. RemoveAt(s, i) = p \o q
  BY DEF RemoveAt, p, q
<1>5. \A k \in DOMAIN (p \o q) : (p \o q)[k] \in Z
  BY <1>3
<1>6. ToSet(RemoveAt(s, i)) \subseteq Z
  BY <1>4, <1>5 DEF ToSet
<1>7. p \o q \in Seq(K)
  BY <1>1, <1>3
<1> QED BY <1>4, <1>6, <1>7 DEF Z

LEMMA AvailableIs ==
  ASSUME left \in Seq(ToSet(AllMutations))
  PROVE  Available \in Seq(ToSet(AllMutations))
<1> DEFINE Z == ToSet(AllMutations)
           m == Len(AllMutations) + 1
           used(u) == {e \in DOMAIN usage : usage[e] = u}
           parts == [u \in 1 .. m |-> Among(AllMutations, used(u - 1))]
<1>1. AllMutations \in Seq(Z) /\ m \in Nat
  <2>1. AllMutations \in Seq(Offered)
    BY MutationsAre
  <2> QED BY <2>1 DEF ToSet
<1>2. \A u \in 1 .. m : parts[u] \in Seq(Z)
  <2> HIDE DEF Z, used, m
  <2> QED BY <1>1, AmongIs
<1>3. parts \in Seq(Seq(Z))
  <2>1. parts = [u \in 1 .. m |-> parts[u]]
    OBVIOUS
  <2> HIDE DEF parts, m
  <2> QED BY <1>1, <1>2, <2>1
<1>4. Available = IF strategy = "BETWEEN_OPERATORS" THEN FlattenSeq(parts) ELSE left
  BY DEF Available
<1> HIDE DEF parts, Z
<1>5. FlattenSeq(parts) \in Seq(Z)
  BY <1>3, FlattenIs
<1> QED BY <1>4, <1>5 DEF Z

AreApart(s) == \A i \in DOMAIN s, j \in DOMAIN s : i # j => Apart(s[i], s[j])

Groups == [chosen : Seq(ToSet(AllMutations)), available : Seq(ToSet(AllMutations))]

IsGroup(g) ==
  /\ g \in Groups /\ AreApart(g.chosen)
  /\ \A i \in DOMAIN g.chosen : \A a \in ToSet(g.available) : Apart(g.chosen[i], a)

(* One mutation more for a mutant.                                                 *)
OneMore(g, k) ==
  LET index == IF strategy = "FIRST_TO_LAST" /\ k % 2 = 0 THEN Len(g.available) ELSE 1
      m == g.available[index]
  IN  IF g.available = << >> THEN g
      ELSE [chosen |-> Append(g.chosen, m),
            available |-> Among(RemoveAt(g.available, index),
                                {a \in ToSet(g.available) : ~Related(m, a)})]

LEMMA OneMoreIsApart ==
  ASSUME NEW g \in Groups, NEW k \in Nat
  PROVE  OneMore(g, k) \in Groups /\ (IsGroup(g) => IsGroup(OneMore(g, k)))
<1> DEFINE All == ToSet(AllMutations)
           index == IF strategy = "FIRST_TO_LAST" /\ k % 2 = 0 THEN Len(g.available) ELSE 1
           m == g.available[index]
           others == {a \in ToSet(g.available) : ~Related(m, a)}
           rest == Among(RemoveAt(g.available, index), others)
           h == OneMore(g, k)
<1>1. CASE g.available = << >>
  <2>1. h = g
    BY <1>1 DEF OneMore
  <2> QED BY <2>1
<1>2. CASE g.available # << >>
  <2>1. g.available \in Seq(All) /\ g.chosen \in Seq(All)
    BY DEF Groups
  <2>2. index \in DOMAIN g.available
    <3> DEFINE s == g.available
    <3>1. s \in Seq(All) /\ s # << >>
      BY <1>2, <2>1
    <3> HIDE DEF s
    <3>2. Len(s) \in DOMAIN s /\ 1 \in DOMAIN s
      BY <3>1
    <3> QED BY <3>2 DEF s
  <2>3. h = [chosen |-> Append(g.chosen, m), available |-> rest]
    BY <1>2 DEF OneMore
  <2>4. m \in All /\ m \in ToSet(g.available)
    BY <2>1, <2>2 DEF ToSet
  <2> HIDE DEF index, m, All
  <2>5. /\ RemoveAt(g.available, index) \in Seq(All)
        /\ ToSet(RemoveAt(g.available, index)) \subseteq ToSet(g.available)
    BY <2>1, <2>2, RemoveIs
  <2>6. rest \in Seq(All) /\ ToSet(rest) \subseteq ToSet(g.available) \cap others
    <3> HIDE DEF others
    <3>1. rest \in Seq(All) /\ ToSet(rest) = ToSet(RemoveAt(g.available, index)) \cap others
      BY <2>5, AmongIs
    <3> QED BY <2>5, <3>1
  <2> HIDE DEF rest
  <2>7. Append(g.chosen, m) \in Seq(All)
    BY <2>1, <2>4
  <2>8. h \in Groups
    BY <2>3, <2>6, <2>7 DEF Groups, All
  <2>9. ASSUME IsGroup(g) PROVE IsGroup(h)
    <3> DEFINE c == g.chosen
               n == Len(c)
               d == Append(c, m)
    <3>1. n \in Nat /\ DOMAIN c = 1 .. n /\ DOMAIN d = 1 .. n + 1
          /\ d[n + 1] = m /\ \A i \in 1 .. n : d[i] = c[i]
      BY <2>1, <2>4
    <3>2. h.chosen = d /\ h.available = rest
      BY <2>3
    <3>3. \A i \in 1 .. n : \A a \in ToSet(g.available) : Apart(c[i], a)
      BY <2>9, <3>1 DEF IsGroup
    <3>4. \A i \in 1 .. n, j \in 1 .. n : i # j => Apart(c[i], c[j])
      BY <2>9, <3>1 DEF IsGroup, AreApart
    <3> HIDE DEF c, n, d, h
    <3>5. \A i \in 1 .. n + 1 : i \in 1 .. n \/ i = n + 1
      BY <3>1
    <3>6. \A i \in 1 .. n : Apart(d[i], m) /\ Apart(m, d[i])
      BY <2>4, <3>1, <3>3 DEF Apart
    <3>7. AreApart(d)
      <4> SUFFICES ASSUME NEW i \in 1 .. n + 1, NEW j \in 1 .. n + 1, i # j PROVE Apart(d[i], d[j])
        BY <3>1 DEF AreApart
      <4>1. CASE i \in 1 .. n /\ j \in 1 .. n
        BY <3>1, <3>4, <4>1
      <4>2. CASE i = n + 1
        BY <3>1, <3>5, <3>6, <4>2
      <4>3. CASE j = n + 1
        BY <3>1, <3>5, <3>6, <4>3
      <4> QED BY <3>5, <4>1, <4>2, <4>3
    <3>8. \A a \in ToSet(rest) : Apart(m, a)
      BY <2>6 DEF Apart, Related
    <3>9. \A i \in DOMAIN d : \A a \in ToSet(rest) : Apart(d[i], a)
      <4> SUFFICES ASSUME NEW i \in 1 .. n + 1, NEW a \in ToSet(rest) PROVE Apart(d[i], a)
        BY <3>1
      <4>1. a \in ToSet(g.available)
        BY <2>6
      <4> QED BY <3>1, <3>3, <3>5, <3>8, <4>1
    <3> QED BY <2>8, <3>2, <3>7, <3>9 DEF IsGroup, h
  <2> QED BY <2>8, <2>9
<1> QED BY <1>1, <1>2

LEMMA NextGroupIs ==
  ASSUME left \in Seq(ToSet(AllMutations)), left # << >>
  PROVE  NextGroup \in Seq(ToSet(AllMutations)) /\ AreApart(NextGroup)
<1> DEFINE All == ToSet(AllMutations)
           start == [chosen |-> << >>, available |-> Available]
           Body(f, k) == IF k = 0 THEN start ELSE OneMore(f[k - 1], k)
           IsPicked(f) == f = [k \in 0 .. Order |-> Body(f, k)]
           Picked == CHOOSE f : IsPicked(f)
<1>1. NextGroup = IF strategy = "FIRST_ORDER_MUTANTS" THEN <<Head(left)>> ELSE Picked[Order].chosen
  BY DEF NextGroup, OneMore
<1>2. CASE strategy = "FIRST_ORDER_MUTANTS"
  <2>1. Head(left) \in All
    OBVIOUS
  <2> HIDE DEF All
  <2>2. <<Head(left)>> \in Seq(All) /\ DOMAIN <<Head(left)>> = {1}
    BY <2>1
  <2>3. AreApart(<<Head(left)>>)
    BY <2>2 DEF AreApart
  <2> QED BY <1>1, <1>2, <2>2, <2>3 DEF All
<1>3. CASE strategy # "FIRST_ORDER_MUTANTS"
  <2>1. Order \in Nat
    BY OrderType
  <2>2. IsGroup(start)
    <3>1. Available \in Seq(All)
      BY AvailableIs
    <3>2. start \in Groups /\ start.chosen = << >>
      BY <3>1 DEF Groups
    <3> QED BY <3>2 DEF IsGroup, AreApart
  <2> DEFINE next == [u \in Groups \X (1 .. Order) |-> OneMore(u[1], u[2])]
  <2>3. next \in [Groups \X (1 .. Order) -> Groups]
    <3>1. ASSUME NEW u \in Groups \X (1 .. Order) PROVE OneMore(u[1], u[2]) \in Groups
      <4>1. u[1] \in Groups /\ u[2] \in Nat
        BY <2>1
      <4> QED BY <4>1, OneMoreIsApart
    <3> QED BY <3>1
  <2>4. \A g \in Groups, k \in 1 .. Order : next[<<g, k>>] = OneMore(g, k)
    OBVIOUS
  <2> HIDE DEF next, start
  <2>5. PICK f : Recurs(f, Order, Groups, start, next)
    BY <2>1, <2>2, <2>3, RecursionFromExists, Zenon DEF IsGroup
  <2>6. f \in [0 .. Order -> Groups] /\ \A k \in 0 .. Order : f[k] = Body(f, k)
    <3>1. \A k \in 0 .. Order : k # 0 => k \in 1 .. Order /\ k - 1 \in 0 .. Order
      BY <2>1
    <3> QED BY <2>4, <2>5, <3>1 DEF Recurs
  <2>7. f = [k \in 0 .. Order |-> f[k]]
    BY <2>6
  <2>8. IsPicked(f)
    <3> HIDE DEF Body
    <3> QED BY <2>6, <2>7
  <2>9. IsPicked(Picked)
    <3> HIDE DEF IsPicked
    <3> QED BY <2>8
  <2>10. \A k \in 0 .. Order : Picked[k] = Body(Picked, k)
    <3> HIDE DEF Body, Picked
    <3> QED BY <2>9
  <2> HIDE DEF Picked
  <2> DEFINE T == {k \in 0 .. Order : IsGroup(Picked[k])}
  <2>11. ASSUME NEW k \in 0 .. Order, \A i \in 0 .. Order : i < k => i \in T PROVE k \in T
    <3>1. CASE k = 0
      BY <2>2, <2>10, <3>1
    <3>2. CASE k # 0
      <4>1. k - 1 \in 0 .. Order /\ k - 1 < k /\ k \in Nat
        BY <2>1, <3>2
      <4>2. IsGroup(Picked[k - 1])
        BY <2>11, <4>1
      <4>3. Picked[k - 1] \in Groups
        BY <4>2 DEF IsGroup
      <4>4. IsGroup(OneMore(Picked[k - 1], k))
        BY <4>1, <4>2, <4>3, OneMoreIsApart
      <4> QED BY <2>10, <3>2, <4>4
    <3> QED BY <3>1, <3>2
  <2>12. T = 0 .. Order
    <3> HIDE DEF T
    <3>1. T \subseteq 0 .. Order
      BY DEF T
    <3> QED BY <2>1, <2>11, <3>1, AllUpTo
  <2>13. IsGroup(Picked[Order])
    BY <2>1, <2>12
  <2> QED BY <1>1, <1>3, <2>13 DEF IsGroup, Groups
<1> QED BY <1>2, <1>3

--------------------------------------------------------------------------------
(* The invariant.                                                                  *)

Mutations == ToSet(AllMutations)

LEMMA MutationsType ==
  AllMutations \in Seq(Mutations) /\ \A m \in Mutations : m.node \in Nodes /\ m.node # Root
<1>1. AllMutations \in Seq(Offered) /\ \A m \in Offered : m.node \in Nodes /\ m.node # Root
  BY MutationsAre
<1>2. DOMAIN AllMutations = 1 .. Len(AllMutations) /\ Len(AllMutations) \in Nat
      /\ \A k \in DOMAIN AllMutations : AllMutations[k] \in Offered
  BY <1>1
<1>3. Mutations \subseteq Offered /\ \A k \in DOMAIN AllMutations : AllMutations[k] \in Mutations
  BY <1>2 DEF ToSet, Mutations
<1>4. AllMutations = [k \in 1 .. Len(AllMutations) |-> AllMutations[k]]
  BY <1>1, <1>2
<1> HIDE DEF Mutations
<1>5. AllMutations \in Seq(Mutations)
  BY <1>2, <1>3, <1>4
<1> QED BY <1>1, <1>3, <1>5

LEMMA ShuffledIs ==
  ASSUME NEW s \in Shuffled(AllMutations)
  PROVE  s \in Seq(Mutations) /\ ToSet(s) = Mutations
<1>1. CASE strategy # "RANDOM"
  BY <1>1, MutationsType DEF Shuffled, Mutations
<1>2. CASE strategy = "RANDOM"
  <2>1. IsFiniteSet(Mutations)
    <3>1. DOMAIN AllMutations = 1 .. Len(AllMutations) /\ Len(AllMutations) \in Nat
      BY MutationsType
    <3> DEFINE f == [k \in 1 .. Len(AllMutations) |-> AllMutations[k]]
    <3>2. f \in Surjection(1 .. Len(AllMutations), Mutations)
      BY <3>1 DEF Surjection, Mutations, ToSet
    <3> QED BY <3>1, <3>2, FS_Interval, FS_Surjection
  <2> DEFINE n == Cardinality(Mutations)
  <2>2. n \in Nat /\ IsFiniteSet(1 .. n) /\ Cardinality(1 .. n) = n
    BY <2>1, FS_CardinalityType, FS_Interval
  <2>3. s \in [1 .. n -> Mutations] /\ \A a, b \in 1 .. n : s[a] = s[b] => a = b
    BY <1>2 DEF Shuffled, SetToSeqs, Mutations, IsInjective
  <2>4. s \in Injection(1 .. n, Mutations)
    BY <2>3 DEF Injection, IsInjective
  <2> HIDE DEF n
  <2>5. s \in Surjection(1 .. n, Mutations)
    BY <2>1, <2>2, <2>4, FS_Injection DEF n
  <2> HIDE DEF Mutations
  <2>6. s \in Seq(Mutations)
    BY <2>2, <2>3
  <2> QED BY <2>3, <2>5, <2>6 DEF Surjection, ToSet
<1> QED BY <1>1, <1>2

(* A list that a generator has copied shows what those before it made of it.       *)
CopyIs(i, n) ==
  LET there == Lists[Place(n).owner][Place(n).list]
      copy == generators[i].copies[n]
  IN  /\ DOMAIN copy = DOMAIN there
      /\ \A j \in DOMAIN there : Shows(copy[j], there[j], {h \in MutatedBy(there[j]) : h < i})

GeneratorsAre ==
  /\ \E K : generators \in Seq(K)
  /\ \A i \in DOMAIN generators :
       LET path == PathTo(generators[i].mutation.node)
       IN  /\ generators[i].mutation \in Mutations
           /\ DOMAIN generators[i].copies = path
           /\ \A n \in path : CopyIs(i, n)

AllApart ==
  /\ AreApart(waiting)
  /\ \A i \in DOMAIN generators :
       /\ \A j \in DOMAIN generators : i # j => Apart(generators[i].mutation, generators[j].mutation)
       /\ \A m \in ToSet(waiting) : Apart(generators[i].mutation, m)

MutationsGetTurns ==
  /\ left \in Seq(Mutations) /\ waiting \in Seq(Mutations) /\ usage \in [Mutations -> Nat]
  /\ \A m \in Mutations : m \in ToSet(left) \/ usage[m] > 0
  /\ pass = "done" => left = << >>

MutantsInv == MutationsGetTurns /\ GeneratorsAre /\ AllApart /\ TreeIsRestored

LEMMA MutantsInit == Init => MutantsInv
<1> SUFFICES ASSUME Init PROVE MutantsInv
  OBVIOUS
<1>1. generators = << >> /\ waiting = << >> /\ tree = Untouched /\ pass = "count"
      /\ usage = [m \in Mutations |-> 0] /\ left \in Shuffled(AllMutations)
  BY DEF Init, Mutations
<1>2. left \in Seq(Mutations) /\ ToSet(left) = Mutations
  BY <1>1, ShuffledIs
<1>3. MutationsGetTurns
  <2> HIDE DEF Mutations
  <2> QED BY <1>1, <1>2 DEF MutationsGetTurns
<1>4. generators \in Seq({}) /\ DOMAIN generators = {}
  BY <1>1
<1>5. GeneratorsAre
  BY <1>4 DEF GeneratorsAre
<1>6. AllApart
  BY <1>1, <1>4 DEF AllApart, AreApart
<1>7. TreeIsRestored
  <2>1. \A n : MutatedBy(n) = {}
    BY <1>4 DEF MutatedBy
  <2>2. DOMAIN tree = Nodes
    BY <1>1 DEF Untouched
  <2>3. ASSUME NEW n \in Nodes
        PROVE  DOMAIN tree[n] = DOMAIN Lists[n] /\ \A k \in DOMAIN Lists[n] :
                 /\ DOMAIN tree[n][k] = DOMAIN Lists[n][k]
                 /\ \A j \in DOMAIN Lists[n][k] : tree[n][k][j] = Itself(Lists[n][k][j])
    BY <1>1 DEF Untouched
  <2> QED BY <2>1, <2>2, <2>3 DEF TreeIsRestored, Shows
<1> QED BY <1>3, <1>5, <1>6, <1>7 DEF MutantsInv

LEMMA NextMutantKeeps == MutantsInv /\ NextMutant => MutantsInv'
<1> SUFFICES ASSUME MutantsInv, NextMutant PROVE MutantsInv'
  OBVIOUS
<1>1. /\ generators = << >> /\ generators' = generators /\ tree' = tree /\ pass' = pass
      /\ pass # "done" /\ waiting' = NextGroup /\ left # << >>
      /\ left' = Without(left, NextGroup)
      /\ usage' = [m \in DOMAIN usage |-> usage[m] + IF m \in ToSet(NextGroup) THEN 1 ELSE 0]
  BY DEF NextMutant, Idle
<1>2. left \in Seq(Mutations) /\ usage \in [Mutations -> Nat]
      /\ \A m \in Mutations : m \in ToSet(left) \/ usage[m] > 0
  BY DEF MutantsInv, MutationsGetTurns
<1>3. NextGroup \in Seq(Mutations) /\ AreApart(NextGroup)
  BY <1>1, <1>2, NextGroupIs DEF Mutations
<1> HIDE DEF Mutations
<1>4. left' \in Seq(Mutations) /\ ToSet(left') = ToSet(left) \cap (ToSet(left) \ ToSet(NextGroup))
  BY <1>1, <1>2, AmongIs DEF Without
<1>5. MutationsGetTurns'
  <2>1. usage' \in [Mutations -> Nat]
    BY <1>1, <1>2
  <2>2. \A m \in Mutations : m \in ToSet(left') \/ usage'[m] > 0
    BY <1>1, <1>2, <1>4
  <2> QED BY <1>1, <1>3, <1>4, <2>1, <2>2 DEF MutationsGetTurns
<1>6. GeneratorsAre' /\ TreeIsRestored'
  BY <1>1 DEF MutantsInv, GeneratorsAre, TreeIsRestored, CopyIs, MutatedBy, Shows
<1>7. AllApart'
  <2>1. DOMAIN generators' = {}
    BY <1>1
  <2> QED BY <1>1, <1>3, <2>1 DEF AllApart
<1> QED BY <1>5, <1>6, <1>7 DEF MutantsInv

LEMMA NextPassKeeps == MutantsInv /\ NextPass => MutantsInv'
<1> SUFFICES ASSUME MutantsInv, NextPass PROVE MutantsInv'
  OBVIOUS
<1>1. /\ generators' = generators /\ tree' = tree /\ waiting' = waiting /\ left = << >>
      /\ pass' = IF pass = "count" THEN "create" ELSE "done"
      /\ left' \in IF pass = "count" THEN Shuffled(AllMutations) ELSE {<< >>}
      /\ usage' = IF pass = "count" THEN [m \in Mutations |-> 0] ELSE usage
  BY DEF NextPass, Mutations
<1>2. MutationsGetTurns
  BY DEF MutantsInv
<1>3. pass = "count" => left' \in Seq(Mutations) /\ ToSet(left') = Mutations
  BY <1>1, ShuffledIs
<1> HIDE DEF Mutations
<1>4. MutationsGetTurns'
  <2>1. CASE pass = "count"
    BY <1>1, <1>2, <1>3, <2>1 DEF MutationsGetTurns
  <2>2. CASE pass # "count"
    BY <1>1, <1>2, <2>2 DEF MutationsGetTurns
  <2> QED BY <2>1, <2>2
<1>5. GeneratorsAre' /\ TreeIsRestored'
  BY <1>1 DEF MutantsInv, GeneratorsAre, TreeIsRestored, CopyIs, MutatedBy, Shows
<1>6. AllApart'
  BY <1>1 DEF MutantsInv, AllApart, AreApart
<1> QED BY <1>4, <1>5, <1>6 DEF MutantsInv

LEMMA MutantsStay ==
  MutantsInv /\ UNCHANGED <<pass, tree, left, usage, waiting, generators>> => MutantsInv'
<1> SUFFICES ASSUME MutantsInv, UNCHANGED <<pass, tree, left, usage, waiting, generators>>
             PROVE  MutantsInv'
  OBVIOUS
<1>1. /\ pass' = pass /\ tree' = tree /\ left' = left /\ usage' = usage /\ waiting' = waiting
      /\ generators' = generators
  OBVIOUS
<1>2. MutationsGetTurns'
  BY <1>1 DEF MutantsInv, MutationsGetTurns
<1>3. GeneratorsAre' /\ TreeIsRestored'
  BY <1>1 DEF MutantsInv, GeneratorsAre, TreeIsRestored, CopyIs, MutatedBy, Shows
<1>4. AllApart'
  BY <1>1 DEF MutantsInv, AllApart, AreApart
<1> QED BY <1>2, <1>3, <1>4 DEF MutantsInv

(* A mutation that waits is of a node that nobody has changed, nor one above it.   *)
LEMMA WaitingIsThere ==
  ASSUME TreeIsRestored, NEW m \in Mutations,
         \A i \in DOMAIN generators : Apart(generators[i].mutation, m)
  PROVE  IsThere(m.node) /\ MutatedBy(m.node) = {}
<1>1. m.node \in Nodes /\ m.node # Root
  BY MutationsType
<1>2. ASSUME NEW a \in PathTo(m.node)
      PROVE  MutatedBy(a) = {} /\ Content(Place(a)) = Itself(a)
  <2>1. a \in Nodes /\ a # Root /\ (a = m.node \/ a \in Above[m.node])
    BY <1>1, PathIs
  <2>2. MutatedBy(a) = {}
    BY <2>1 DEF MutatedBy, Apart
  <2> DEFINE o == Place(a).owner
             l == Place(a).list
             j == Place(a).position
  <2>3. o \in Nodes /\ l \in DOMAIN Lists[o] /\ j \in DOMAIN Lists[o][l]
    BY <2>1, PlaceIs
  <2>4. Lists[o][l][j] = a
    BY <2>1, <2>3, PlaceIs
  <2>5. Shows(tree[o][l][j], a, MutatedBy(a))
    BY <2>3, <2>4 DEF TreeIsRestored
  <2>6. Content(Place(a)) = tree[o][l][j]
    BY DEF Content
  <2> QED BY <2>2, <2>5, <2>6 DEF Shows
<1>3. m.node \in PathTo(m.node)
  BY <1>1, PathIs
<1> QED BY <1>2, <1>3 DEF IsThere

LEMMA ApplyKeeps == MutantsInv /\ Apply => MutantsInv'
<1> SUFFICES ASSUME MutantsInv, Apply PROVE MutantsInv'
  OBVIOUS
<1> DEFINE m == Head(waiting)
           n == m.node
           place == Place(n)
           len == Len(generators)
           path == PathTo(n)
           copies == [a \in path |-> tree[Place(a).owner][Place(a).list]]
           g == [mutation |-> m, copies |-> copies]
<1>1. /\ waiting # << >> /\ waiting' = Tail(waiting) /\ pass' = pass /\ left' = left
      /\ usage' = usage /\ generators' = Append(generators, g)
      /\ tree' = [tree EXCEPT ![place.owner][place.list][place.position] = Replacement(m)]
  BY DEF Apply
<1>2. waiting \in Seq(Mutations) /\ TreeIsRestored /\ GeneratorsAre /\ AllApart
  BY DEF MutantsInv, MutationsGetTurns
<1>3. /\ m \in Mutations /\ m \in ToSet(waiting) /\ Tail(waiting) \in Seq(Mutations)
      /\ DOMAIN waiting = 1 .. Len(waiting) /\ DOMAIN Tail(waiting) = 1 .. Len(waiting) - 1
      /\ \A i \in 1 .. Len(waiting) - 1 : Tail(waiting)[i] = waiting[i + 1]
      /\ Len(waiting) \in Nat /\ 1 \in DOMAIN waiting /\ m = waiting[1]
  <2> HIDE DEF Mutations
  <2>1. 1 \in DOMAIN waiting /\ m = waiting[1]
    BY <1>1, <1>2
  <2>2. m \in Mutations
    BY <1>2, <2>1
  <2>3. m \in ToSet(waiting)
    BY <2>1 DEF ToSet
  <2>4. Tail(waiting) \in Seq(Mutations) /\ Len(waiting) \in Nat
    BY <1>1, <1>2
  <2>5. /\ DOMAIN waiting = 1 .. Len(waiting) /\ DOMAIN Tail(waiting) = 1 .. Len(waiting) - 1
        /\ \A i \in 1 .. Len(waiting) - 1 : Tail(waiting)[i] = waiting[i + 1]
    BY <1>1, <1>2
  <2> QED BY <2>1, <2>2, <2>3, <2>4, <2>5
<1>4. n \in Nodes /\ n # Root
  BY <1>3, MutationsType
<1>5. IsThere(n) /\ MutatedBy(n) = {}
  BY <1>2, <1>3, WaitingIsThere DEF AllApart
<1> HIDE DEF g
<1>6. /\ len \in Nat /\ DOMAIN generators = 1 .. len /\ DOMAIN generators' = 1 .. len + 1
      /\ \A i \in 1 .. len : generators'[i] = generators[i]
      /\ generators'[len + 1] = g /\ \E K : generators' \in Seq(K)
  <2>1. PICK K : generators \in Seq(K)
    BY <1>2 DEF GeneratorsAre
  <2>2. Len(generators') = len + 1 /\ generators'[len + 1] = g
        /\ \A i \in 1 .. len : generators'[i] = generators[i]
    BY <1>1, <2>1, AppendedIs
  <2>3. PICK K_1 : generators' \in Seq(K_1)
    BY <1>1, <2>1, AppendedIs
  <2>4. DOMAIN generators = 1 .. len /\ len \in Nat
    BY <2>1
  <2>5. DOMAIN generators' = 1 .. Len(generators')
    BY <2>3
  <2> QED BY <2>2, <2>3, <2>4, <2>5
<1>7. \A i \in 1 .. len + 1 : i \in 1 .. len \/ i = len + 1
  BY <1>6
<1>8. \A i \in 1 .. len : i \in 1 .. len + 1 /\ i < len + 1 /\ i \in Nat
  BY <1>6
<1>9. len + 1 \in 1 .. len + 1 /\ len + 1 \notin 1 .. len
  BY <1>6
<1> HIDE DEF len
<1>10. g.mutation = m /\ g.copies = copies
  BY DEF g
<1>11. MutationsGetTurns'
  BY <1>1, <1>3 DEF MutantsInv, MutationsGetTurns
<1>12. AllApart'
  <2>1. AreApart(waiting')
    <3> SUFFICES ASSUME NEW i \in 1 .. Len(waiting) - 1, NEW j \in 1 .. Len(waiting) - 1, i # j
                 PROVE  Apart(waiting'[i], waiting'[j])
      BY <1>1, <1>3 DEF AreApart
    <3>1. i + 1 \in DOMAIN waiting /\ j + 1 \in DOMAIN waiting /\ i + 1 # j + 1
      BY <1>3
    <3> QED BY <1>1, <1>2, <1>3, <3>1 DEF AllApart, AreApart
  <2>2. ASSUME NEW w \in ToSet(waiting') PROVE w \in ToSet(waiting) /\ Apart(m, w)
    <3>1. PICK i \in 1 .. Len(waiting) - 1 : w = waiting[i + 1]
      BY <1>1, <1>3 DEF ToSet
    <3>2. i + 1 \in DOMAIN waiting /\ i + 1 # 1
      BY <1>3
    <3> QED BY <1>2, <1>3, <3>1, <3>2 DEF AllApart, AreApart, ToSet
  <2>3. ASSUME NEW i \in 1 .. len
        PROVE  Apart(generators[i].mutation, m) /\ Apart(m, generators[i].mutation)
    BY <1>2, <1>3, <1>6 DEF AllApart, Apart
  <2>4. ASSUME NEW i \in 1 .. len + 1, NEW j \in 1 .. len + 1, i # j
        PROVE  Apart(generators'[i].mutation, generators'[j].mutation)
    <3>1. CASE i \in 1 .. len /\ j \in 1 .. len
      BY <1>2, <1>6, <2>4, <3>1 DEF AllApart
    <3>2. CASE i = len + 1 \/ j = len + 1
      BY <1>6, <1>7, <1>10, <2>3, <2>4, <3>2
    <3> QED BY <1>7, <3>1, <3>2
  <2>5. ASSUME NEW i \in 1 .. len + 1, NEW w \in ToSet(waiting')
        PROVE  Apart(generators'[i].mutation, w)
    BY <1>2, <1>6, <1>7, <1>10, <2>2 DEF AllApart
  <2> QED BY <1>6, <2>1, <2>4, <2>5 DEF AllApart
<1>13. \A x : MutatedBy(x)' = MutatedBy(x) \cup (IF x = n THEN {len + 1} ELSE {})
  BY <1>6, <1>7, <1>8, <1>9, <1>10 DEF MutatedBy
<1>14. \A x : MutatedBy(x) \subseteq 1 .. len
  BY <1>6 DEF MutatedBy
<1>15. \A e, x : \A s \in SUBSET (1 .. len) : Shows(e, x, s)' <=> Shows(e, x, s)
  <2> SUFFICES ASSUME NEW e, NEW x, NEW s \in SUBSET (1 .. len)
               PROVE  Shows(e, x, s)' <=> Shows(e, x, s)
    OBVIOUS
  <2>1. \A i \in s : generators'[i] = generators[i]
    BY <1>6
  <2> QED BY <2>1 DEF Shows
<1>16. ASSUME NEW o \in Nodes
       PROVE  DOMAIN tree'[o] = DOMAIN Lists[o] /\ \A k \in DOMAIN Lists[o] :
                /\ DOMAIN tree'[o][k] = DOMAIN Lists[o][k]
                /\ \A j \in DOMAIN Lists[o][k] : 
                     tree'[o][k][j] = IF Lists[o][k][j] = n THEN Replacement(m) ELSE tree[o][k][j]
  <2>1. /\ DOMAIN tree = Nodes /\ DOMAIN tree[o] = DOMAIN Lists[o]
        /\ \A k \in DOMAIN Lists[o] : DOMAIN tree[o][k] = DOMAIN Lists[o][k]
    BY <1>2 DEF TreeIsRestored
  <2>2. \A k \in DOMAIN Lists[o] : \A j \in DOMAIN Lists[o][k] :
          Lists[o][k][j] = n <=> o = place.owner /\ k = place.list /\ j = place.position
    BY <1>4, PlaceIs
  <2> HIDE DEF place, m, n
  <2>3. DOMAIN tree'[o] = DOMAIN Lists[o]
    BY <1>1, <2>1
  <2>4. ASSUME NEW k \in DOMAIN Lists[o]
        PROVE  DOMAIN tree'[o][k] = DOMAIN Lists[o][k]
    BY <1>1, <2>1
  <2>5. ASSUME NEW k \in DOMAIN Lists[o], NEW j \in DOMAIN Lists[o][k]
        PROVE  tree'[o][k][j] = IF Lists[o][k][j] = n THEN Replacement(m) ELSE tree[o][k][j]
    BY <1>1, <2>1, <2>2
  <2> QED BY <2>3, <2>4, <2>5
<1>17. TreeIsRestored'
  <2>1. DOMAIN tree' = Nodes
    BY <1>1, <1>2 DEF TreeIsRestored
  <2>2. ASSUME NEW o \in Nodes, NEW k \in DOMAIN Lists[o], NEW j \in DOMAIN Lists[o][k]
        PROVE  Shows(tree[o][k][j], Lists[o][k][j], MutatedBy(Lists[o][k][j]))'
    <3> DEFINE x == Lists[o][k][j]
    <3>1. Shows(tree[o][k][j], x, MutatedBy(x))
      BY <1>2 DEF TreeIsRestored
    <3>2. CASE x = n
      <4>1. MutatedBy(x)' = {len + 1} /\ tree'[o][k][j] = Replacement(m)
        BY <1>5, <1>13, <1>16, <3>2
      <4>2. generators'[len + 1].mutation = m
        BY <1>6, <1>10
      <4> HIDE DEF m
      <4> QED BY <4>1, <4>2 DEF Shows, Replacement
    <3>3. CASE x # n
      <4>1. MutatedBy(x)' = MutatedBy(x) /\ tree'[o][k][j] = tree[o][k][j]
        BY <1>13, <1>16, <3>3
      <4> HIDE DEF x
      <4>2. Shows(tree[o][k][j], x, MutatedBy(x))'
        BY <1>14, <1>15, <3>1, <4>1 DEF Shows
      <4> QED BY <4>1, <4>2 DEF x
    <3> QED BY <3>2, <3>3
  <2> QED BY <1>16, <2>1, <2>2 DEF TreeIsRestored
<1>18. GeneratorsAre'
  <2>1. ASSUME NEW i \in 1 .. len, NEW a \in PathTo(generators[i].mutation.node)
        PROVE  CopyIs(i, a)'
    <3> DEFINE there == Lists[Place(a).owner][Place(a).list]
               copy == generators[i].copies[a]
               before(x) == {h \in MutatedBy(x) : h < i}
    <3>1. CopyIs(i, a) /\ generators'[i] = generators[i]
      BY <1>2, <1>6 DEF GeneratorsAre
    <3>2. \A x : {h \in MutatedBy(x)' : h < i} = before(x) /\ before(x) \subseteq 1 .. len
      <4>1. ~(len + 1 < i)
        BY <1>8, <1>6
      <4> QED BY <1>13, <1>14, <4>1
    <3>3. DOMAIN copy = DOMAIN there /\ \A j \in DOMAIN there : Shows(copy[j], there[j], before(there[j]))
      BY <3>1 DEF CopyIs
    <3> HIDE DEF there
    <3>4. ASSUME NEW j \in DOMAIN there
          PROVE  Shows(generators[i].copies[a][j], there[j], {h \in MutatedBy(there[j]) : h < i})'
      <4> DEFINE e == copy[j]
                 x == there[j]
                 s == before(x)
      <4>1. s \in SUBSET (1 .. len) /\ {h \in MutatedBy(x)' : h < i} = s /\ Shows(e, x, s)
        BY <3>2, <3>3
      <4>2. generators'[i].copies[a][j] = e
        BY <3>1
      <4> HIDE DEF e, x, s
      <4>3. \A h \in s : generators'[h] = generators[h]
        BY <1>6, <4>1
      <4>4. Shows(generators[i].copies[a][j], x, {h \in MutatedBy(x) : h < i})'
        BY <4>1, <4>2, <4>3 DEF Shows
      <4> QED BY <4>4 DEF x
    <3> QED BY <3>1, <3>3, <3>4 DEF CopyIs, there
  <2>2. ASSUME NEW a \in path, NEW i, i = len + 1 PROVE CopyIs(i, a)'
    <3> DEFINE o == Place(a).owner
               l == Place(a).list
    <3>1. a \in Nodes /\ a # Root
      BY <1>4, PathIs
    <3>2. o \in Nodes /\ l \in DOMAIN Lists[o]
      BY <3>1, PlaceIs
    <3>3. generators'[i].copies[a] = tree[o][l]
      BY <1>6, <1>10, <2>2
    <3>4. DOMAIN tree[o][l] = DOMAIN Lists[o][l]
          /\ \A j \in DOMAIN Lists[o][l] : Shows(tree[o][l][j], Lists[o][l][j], MutatedBy(Lists[o][l][j]))
      BY <1>2, <3>2 DEF TreeIsRestored
    <3>5. \A x : {h \in MutatedBy(x)' : h < i} = MutatedBy(x)
      <4>1. ~(len + 1 < len + 1)
        BY <1>6
      <4> QED BY <1>8, <1>13, <1>14, <2>2, <4>1
    <3> HIDE DEF o, l
    <3>6. ASSUME NEW j \in DOMAIN Lists[o][l]
          PROVE  Shows(generators[i].copies[a][j], Lists[o][l][j],
                       {h \in MutatedBy(Lists[o][l][j]) : h < i})'
      <4> DEFINE e == tree[o][l][j]
                 x == Lists[o][l][j]
                 s == MutatedBy(x)
      <4>1. s \in SUBSET (1 .. len) /\ {h \in MutatedBy(x)' : h < i} = s /\ Shows(e, x, s)
        BY <1>14, <3>4, <3>5
      <4>2. generators'[i].copies[a][j] = e
        BY <3>3
      <4>3. \A h \in s : generators'[h] = generators[h]
        BY <1>6, <4>1
      <4> QED BY <4>1, <4>2, <4>3 DEF Shows
    <3> QED BY <3>3, <3>4, <3>6 DEF CopyIs, o, l
  <2>3. ASSUME NEW i \in 1 .. len + 1
        PROVE  /\ generators'[i].mutation \in Mutations
               /\ DOMAIN generators'[i].copies = PathTo(generators'[i].mutation.node)
               /\ \A a \in PathTo(generators'[i].mutation.node) : CopyIs(i, a)'
    <3>1. CASE i \in 1 .. len
      BY <1>2, <1>6, <2>1, <3>1 DEF GeneratorsAre
    <3>2. CASE i = len + 1
      <4>1. generators'[i].mutation = m /\ DOMAIN generators'[i].copies = PathTo(m.node)
        BY <1>6, <1>10, <3>2
      <4>2. \A a \in PathTo(m.node) : CopyIs(i, a)'
        BY <2>2, <3>2
      <4> QED BY <1>3, <4>1, <4>2
    <3> QED BY <1>7, <3>1, <3>2
  <2> QED BY <1>6, <2>3 DEF GeneratorsAre
<1> QED BY <1>11, <1>12, <1>17, <1>18 DEF MutantsInv

LEMMA FrontIs ==
  ASSUME NEW K, NEW s \in Seq(K), s # << >>
  PROVE  /\ Front(s) \in Seq(K) /\ Len(s) \in Nat /\ Len(s) >= 1
         /\ DOMAIN s = 1 .. Len(s) /\ DOMAIN Front(s) = 1 .. Len(s) - 1
         /\ \A i \in 1 .. Len(s) - 1 : Front(s)[i] = s[i]
<1>1. Front(s) = SubSeq(s, 1, Len(s) - 1)
  BY DEF Front
<1>2. Len(s) \in Nat /\ Len(s) >= 1
  OBVIOUS
<1>3. SubSeq(s, 1, Len(s) - 1) \in Seq(K) /\ Len(SubSeq(s, 1, Len(s) - 1)) = Len(s) - 1
      /\ \A i \in 1 .. Len(s) - 1 : SubSeq(s, 1, Len(s) - 1)[i] = s[i]
  <2>1. PICK n \in Nat : n = Len(s) - 1 /\ n <= Len(s)
    BY <1>2
  <2>2. SubSeq(s, 1, n) \in Seq(K)
    BY <2>1
  <2>3. Len(SubSeq(s, 1, n)) = n
    BY <2>1
  <2>4. \A i \in 1 .. n : SubSeq(s, 1, n)[i] = s[i]
    BY <2>1
  <2> QED BY <2>1, <2>2, <2>3, <2>4
<1>4. DOMAIN s = 1 .. Len(s) /\ DOMAIN SubSeq(s, 1, Len(s) - 1) = 1 .. Len(s) - 1
  BY <1>2, <1>3
<1> QED BY <1>1, <1>2, <1>3, <1>4

(* The last generator puts its lists back: all but for its own mutation, which the *)
(* lists that it copied do not show.                                               *)
LEMMA LastPutsBack ==
  ASSUME MutantsInv, generators # << >>, NEW len, len = Len(generators),
         NEW o \in Nodes, NEW k \in DOMAIN Lists[o]
  PROVE  /\ DOMAIN PutBack(Last(generators), o, k) = DOMAIN Lists[o][k]
         /\ \A j \in DOMAIN Lists[o][k] :
              Shows(PutBack(Last(generators), o, k)[j], Lists[o][k][j],
                    MutatedBy(Lists[o][k][j]) \ {len})
<1> DEFINE g == generators[len]
           n == g.mutation.node
           here == {a \in DOMAIN g.copies : Place(a).owner = o /\ Place(a).list = k}
           chosen == CHOOSE a \in here : TRUE
<1>1. TreeIsRestored /\ GeneratorsAre
  BY DEF MutantsInv
<1>2. len \in Nat /\ DOMAIN generators = 1 .. len /\ len \in DOMAIN generators
  <2>1. PICK K : generators \in Seq(K)
    BY <1>1 DEF GeneratorsAre
  <2> QED BY <2>1
<1>3. g.mutation \in Mutations /\ DOMAIN g.copies = PathTo(n) /\ \A a \in PathTo(n) : CopyIs(len, a)
  BY <1>1, <1>2 DEF GeneratorsAre
<1>4. n \in Nodes /\ n # Root
  BY <1>3, MutationsType
<1>5. n \in PathTo(n) /\ \A a \in PathTo(n) : a \in Nodes /\ a # Root /\ (a # n => Parent(a) # Parent(n))
  BY <1>4, PathIs
<1>6. DOMAIN tree[o][k] = DOMAIN Lists[o][k]
      /\ \A j \in DOMAIN Lists[o][k] : Shows(tree[o][k][j], Lists[o][k][j], MutatedBy(Lists[o][k][j]))
  BY <1>1 DEF TreeIsRestored
<1> DEFINE put == PutBack(Last(generators), o, k)
<1>7. put = [j \in DOMAIN tree[o][k] |->
               IF here = {} \/ j < Place(chosen).position THEN tree[o][k][j] ELSE g.copies[chosen][j]]
  BY DEF PutBack, Last
<1>8. here # {} => chosen \in here
  OBVIOUS
<1>9. \A j \in DOMAIN Lists[o][k] : Lists[o][k][j] = n =>
        Place(n).owner = o /\ Place(n).list = k /\ Place(n).position = j
  BY <1>4, PlaceIs
<1>10. \A a \in PathTo(n) : Place(a).owner = Place(n).owner => a = n
  BY <1>4, <1>5, PlaceIs
<1>11. \A x : len \in MutatedBy(x) => x = n
  BY DEF MutatedBy
<1>12. \A x : {h \in MutatedBy(x) : h < len} = MutatedBy(x) \ {len}
  <2>1. \A h \in 1 .. len : h < len \/ h = len
    BY <1>2
  <2>2. ~(len < len)
    BY <1>2
  <2>3. \A x : MutatedBy(x) \subseteq 1 .. len
    BY <1>2 DEF MutatedBy
  <2> QED BY <2>1, <2>2, <2>3
<1> HIDE DEF g, put
<1>13. ASSUME NEW j \in DOMAIN Lists[o][k]
       PROVE  Shows(put[j], Lists[o][k][j], MutatedBy(Lists[o][k][j]) \ {len})
  <2> DEFINE x == Lists[o][k][j]
  <2>1. Shows(tree[o][k][j], x, MutatedBy(x))
    BY <1>6
  <2>2. CASE here = {} \/ j < Place(chosen).position
    <3>1. put[j] = tree[o][k][j]
      BY <1>6, <1>7, <2>2
    <3>2. x # n
      <4> SUFFICES ASSUME x = n PROVE FALSE
        OBVIOUS
      <4>1. Place(n).owner = o /\ Place(n).list = k /\ Place(n).position = j
        BY <1>9
      <4>2. n \in here
        BY <1>3, <1>5, <4>1
      <4>3. chosen = n
        BY <1>3, <1>8, <1>10, <4>1, <4>2
      <4>4. j \in Nat
        <5>1. Lists[o][k] \in Seq(Nodes)
          BY NodesAre
        <5> QED BY <5>1
      <4> HIDE DEF here, chosen, n
      <4>5. here # {} /\ ~(j < j) /\ Place(chosen).position = j
        BY <4>1, <4>2, <4>3, <4>4
      <4> QED BY <2>2, <4>5
    <3>3. MutatedBy(x) \ {len} = MutatedBy(x)
      BY <1>11, <3>2
    <3> QED BY <2>1, <3>1, <3>3
  <2>3. CASE ~(here = {} \/ j < Place(chosen).position)
    <3>1. put[j] = g.copies[chosen][j]
      BY <1>6, <1>7, <2>3
    <3>2. chosen \in PathTo(n) /\ Place(chosen).owner = o /\ Place(chosen).list = k
      BY <1>3, <1>8, <2>3
    <3>3. CopyIs(len, chosen)
      BY <1>3, <3>2
    <3>4. Shows(generators[len].copies[chosen][j], x, {h \in MutatedBy(x) : h < len})
      BY <3>2, <3>3 DEF CopyIs
    <3> QED BY <1>12, <3>1, <3>4 DEF g
  <2> QED BY <2>2, <2>3
<1>14. DOMAIN put = DOMAIN Lists[o][k]
  BY <1>6, <1>7
<1> QED BY <1>13, <1>14 DEF put

LEMMA FinishKeeps == MutantsInv /\ Finish => MutantsInv'
<1> SUFFICES ASSUME MutantsInv, Finish PROVE MutantsInv'
  OBVIOUS
<1>1. /\ waiting = << >> /\ generators # << >> /\ tree' = AllPutBack(Last(generators))
      /\ generators' = Front(generators)
      /\ waiting' = waiting /\ pass' = pass /\ left' = left /\ usage' = usage
  BY DEF Finish
<1>2. TreeIsRestored /\ GeneratorsAre /\ AllApart /\ MutationsGetTurns
  BY DEF MutantsInv
<1>3. PICK len : len = Len(generators)
  OBVIOUS
<1>4. /\ len \in Nat /\ len >= 1 /\ DOMAIN generators = 1 .. len /\ DOMAIN generators' = 1 .. len - 1
      /\ \A i \in 1 .. len - 1 : generators'[i] = generators[i]
      /\ \E K : generators' \in Seq(K)
  <2>1. PICK K : generators \in Seq(K)
    BY <1>2 DEF GeneratorsAre
  <2> QED BY <1>1, <1>3, <2>1, FrontIs
<1>5. \A i \in 1 .. len - 1 : i \in 1 .. len /\ i # len
  BY <1>4
<1>6. \A i \in 1 .. len : i \in 1 .. len - 1 \/ i = len
  BY <1>4
<1>7. MutationsGetTurns'
  BY <1>1, <1>2 DEF MutationsGetTurns
<1>8. AllApart'
  BY <1>1, <1>2, <1>4, <1>5 DEF AllApart, AreApart
<1>9. \A x : MutatedBy(x)' = MutatedBy(x) \ {len}
  BY <1>4, <1>5, <1>6 DEF MutatedBy
<1>10. \A x : \A h \in MutatedBy(x) \ {len} : h \in 1 .. len - 1 /\ generators'[h] = generators[h]
  BY <1>4, <1>6 DEF MutatedBy
<1>11. TreeIsRestored'
  <2>1. DOMAIN tree' = Nodes
    BY <1>1 DEF AllPutBack
  <2>2. ASSUME NEW o \in Nodes
        PROVE  DOMAIN tree'[o] = DOMAIN Lists[o]
               /\ \A k \in DOMAIN Lists[o] : tree'[o][k] = PutBack(Last(generators), o, k)
    <3>1. DOMAIN tree[o] = DOMAIN Lists[o]
      BY <1>2 DEF TreeIsRestored
    <3> QED BY <1>1, <3>1 DEF AllPutBack
  <2>3. ASSUME NEW o \in Nodes, NEW k \in DOMAIN Lists[o]
        PROVE  /\ DOMAIN tree'[o][k] = DOMAIN Lists[o][k]
               /\ \A j \in DOMAIN Lists[o][k] :
                    Shows(tree[o][k][j], Lists[o][k][j], MutatedBy(Lists[o][k][j]))'
    <3>1. /\ DOMAIN tree'[o][k] = DOMAIN Lists[o][k]
          /\ \A j \in DOMAIN Lists[o][k] :
               Shows(tree'[o][k][j], Lists[o][k][j], MutatedBy(Lists[o][k][j]) \ {len})
      BY <1>1, <1>3, <2>2, LastPutsBack
    <3>2. ASSUME NEW j \in DOMAIN Lists[o][k]
          PROVE  Shows(tree[o][k][j], Lists[o][k][j], MutatedBy(Lists[o][k][j]))'
      <4> DEFINE x == Lists[o][k][j]
                 s == MutatedBy(x) \ {len}
      <4>1. Shows(tree'[o][k][j], x, s) /\ MutatedBy(x)' = s
        BY <1>9, <3>1
      <4>2. \A h \in s : generators'[h] = generators[h]
        BY <1>10
      <4> QED BY <4>1, <4>2 DEF Shows
    <3> QED BY <3>1, <3>2
  <2> QED BY <2>1, <2>2, <2>3 DEF TreeIsRestored
<1>12. GeneratorsAre'
  <2>1. ASSUME NEW i \in 1 .. len - 1, NEW a \in PathTo(generators[i].mutation.node)
        PROVE  CopyIs(i, a)'
    <3> DEFINE there == Lists[Place(a).owner][Place(a).list]
    <3>1. CopyIs(i, a) /\ generators'[i] = generators[i]
      BY <1>2, <1>4, <1>5 DEF GeneratorsAre
    <3>2. \A x : {h \in MutatedBy(x)' : h < i} = {h \in MutatedBy(x) : h < i}
      <4>1. ~(len < i)
        BY <1>4
      <4> QED BY <1>9, <4>1
    <3>3. DOMAIN generators[i].copies[a] = DOMAIN there /\ \A j \in DOMAIN there :
            Shows(generators[i].copies[a][j], there[j], {h \in MutatedBy(there[j]) : h < i})
      BY <3>1 DEF CopyIs
    <3> HIDE DEF there
    <3>4. ASSUME NEW j \in DOMAIN there
          PROVE  Shows(generators[i].copies[a][j], there[j], {h \in MutatedBy(there[j]) : h < i})'
      <4> DEFINE e == generators[i].copies[a][j]
                 x == there[j]
                 s == {h \in MutatedBy(x) : h < i}
      <4>1. {h \in MutatedBy(x)' : h < i} = s /\ Shows(e, x, s)
        BY <3>2, <3>3
      <4>2. generators'[i].copies[a][j] = e
        BY <3>1
      <4>3. \A h \in s : generators'[h] = generators[h]
        <5>1. \A h \in s : h \in MutatedBy(x) /\ h # len
          BY <1>4
        <5> QED BY <1>10, <5>1
      <4> HIDE DEF e, x, s
      <4>4. Shows(generators[i].copies[a][j], x, {h \in MutatedBy(x) : h < i})'
        BY <4>1, <4>2, <4>3 DEF Shows
      <4> QED BY <4>4 DEF x
    <3> QED BY <3>1, <3>3, <3>4 DEF CopyIs, there
  <2>2. ASSUME NEW i \in 1 .. len - 1
        PROVE  /\ generators'[i].mutation \in Mutations
               /\ DOMAIN generators'[i].copies = PathTo(generators'[i].mutation.node)
               /\ \A a \in PathTo(generators'[i].mutation.node) : CopyIs(i, a)'
    BY <1>2, <1>4, <1>5, <2>1 DEF GeneratorsAre
  <2> QED BY <1>4, <2>2 DEF GeneratorsAre
<1> QED BY <1>7, <1>8, <1>11, <1>12 DEF MutantsInv

LEMMA MutantsNext == MutantsInv /\ Next => MutantsInv'
<1>1. MutantsInv /\ Resume => MutantsInv'
  BY MutantsStay DEF Resume
<1> QED BY <1>1, NextMutantKeeps, ApplyKeeps, FinishKeeps, NextPassKeeps DEF Next

LEMMA AreSound == MutantsInv => MutantsAreSound
<1> SUFFICES ASSUME MutantsInv PROVE MutantsAreSound
  OBVIOUS
<1>1. TreeIsRestored /\ AllApart /\ MutationsGetTurns
  BY DEF MutantsInv
<1>2. MutationsAreFound
  <2> SUFFICES ASSUME waiting # << >> PROVE IsThere(Head(waiting).node)
    BY DEF MutationsAreFound
  <2> HIDE DEF Mutations
  <2>1. Head(waiting) \in Mutations /\ 1 \in DOMAIN waiting /\ Head(waiting) = waiting[1]
    BY <1>1 DEF MutationsGetTurns
  <2>2. Head(waiting) \in ToSet(waiting)
    BY <2>1 DEF ToSet
  <2>3. \A i \in DOMAIN generators : Apart(generators[i].mutation, Head(waiting))
    BY <1>1, <2>2 DEF AllApart
  <2> QED BY <1>1, <2>1, <2>3, WaitingIsThere
<1>3. EveryMutationIsUsed
  <2> SUFFICES ASSUME pass = "done", NEW m \in Mutations PROVE usage[m] > 0
    BY DEF EveryMutationIsUsed, Mutations
  <2> HIDE DEF Mutations
  <2>1. left = << >> /\ (m \in ToSet(left) \/ usage[m] > 0)
    BY <1>1 DEF MutationsGetTurns
  <2> QED BY <2>1 DEF ToSet
<1> QED BY <1>1, <1>2, <1>3 DEF MutantsAreSound

--------------------------------------------------------------------------------
(* The theorems.                                                                   *)

ChosenIsRight ==
  /\ component \in {"cluster", "signatures", "mutants", "assertions"}
  /\ component = "cluster" => ClusterInv
  /\ component = "signatures" => GuessInv
  /\ component = "assertions" => AssertionsInv
  /\ MutantsInv

LEMMA ChosenInit == MCInit => ChosenIsRight
BY ClusterInit, GuessInit, MutantsInit, AssertionsInit DEF MCInit, MutantsIdle, ChosenIsRight

(* A cluster that nothing happens to stays as it is.                               *)
LEMMA ClusterStays == ClusterInv /\ UNCHANGED cVars => ClusterInv'
<1> SUFFICES ASSUME ClusterInv, UNCHANGED cVars PROVE ClusterInv'
  OBVIOUS
<1>1. /\ world' = world /\ phase' = phase /\ cWaiting' = cWaiting /\ current' = current
      /\ work' = work /\ edges' = edges /\ cGenerators' = cGenerators /\ returns' = returns
      /\ accessible' = accessible /\ answers' = answers /\ generatable' = generatable
      /\ targets' = targets /\ uncovered' = uncovered
  BY DEF cVars
<1>2. C!World' = C!World
  BY <1>1 DEF C!World
<1>3. AnalysisIsRight'
  BY <1>1, <1>2 DEF ClusterInv, AnalysisIsRight, Objects
<1>4. BeforeSearch' /\ GeneratorsAreRight'
  BY <1>1, <1>2 DEF ClusterInv, BeforeSearch, GeneratorsAreRight, Declared
<1>5. C!AnswersAreCurrent'
  BY <1>1 DEF ClusterInv, C!AnswersAreCurrent, C!GeneratorsFor
<1>6. FilterIsRight'
  <2>1. C!Innermost' = C!Innermost
    BY <1>1, NestingStays
  <2> QED BY <1>1, <1>2, <2>1 DEF ClusterInv, FilterIsRight, C!AccessibleOf
<1> QED BY <1>3, <1>4, <1>5, <1>6 DEF ClusterInv

LEMMA ChosenNext == ChosenIsRight /\ [MCNext]_allVars => ChosenIsRight'
<1> SUFFICES ASSUME ChosenIsRight, [MCNext]_allVars PROVE ChosenIsRight'
  OBVIOUS
<1>1. component' = component
  BY DEF MCNext, ClusterStep, SignaturesStep, MutantsStep, AssertionsStep, allVars
<1>2. ASSUME component = "cluster" PROVE ClusterInv'
  <2>1. CASE ClusterStep
    BY <1>2, <2>1, ClusterNext DEF ChosenIsRight, ClusterStep
  <2>2. CASE ~ClusterStep
    <3>1. UNCHANGED cVars
      BY <1>2, <2>2 DEF MCNext, SignaturesStep, MutantsStep, AssertionsStep, allVars
    <3> QED BY <1>2, <3>1, ClusterStays DEF ChosenIsRight
  <2> QED BY <2>1, <2>2
<1>3. ASSUME component = "signatures" PROVE GuessInv'
  <2>1. CASE SignaturesStep
    BY <1>3, <2>1, GuessNext DEF ChosenIsRight, SignaturesStep
  <2>2. CASE ~SignaturesStep
    <3>1. guesses' = guesses
      BY <1>3, <2>2 DEF MCNext, ClusterStep, MutantsStep, AssertionsStep, allVars, sVars
    <3> QED BY <1>3, <3>1 DEF ChosenIsRight, GuessInv
  <2> QED BY <2>1, <2>2
<1>4. ASSUME component = "assertions" PROVE AssertionsInv'
  <2>1. CASE AssertionsStep
    BY <1>4, <2>1, AssertionsNext DEF ChosenIsRight, AssertionsStep
  <2>2. CASE ~AssertionsStep
    <3>1. UNCHANGED aVars
      BY <1>4, <2>2 DEF MCNext, ClusterStep, SignaturesStep, MutantsStep, allVars
    <3> QED BY <1>4, <3>1, AssertionsStays DEF ChosenIsRight
  <2> QED BY <2>1, <2>2
<1>5. MutantsInv'
  <2>1. CASE MutantsStep
    BY <2>1, MutantsNext DEF ChosenIsRight, MutantsStep
  <2>2. CASE ~MutantsStep
    <3>1. UNCHANGED vars
      BY <2>2 DEF MCNext, ClusterStep, SignaturesStep, AssertionsStep, allVars
    <3> QED BY <3>1, MutantsStay DEF ChosenIsRight, vars
  <2> QED BY <2>1, <2>2
<1> QED BY <1>1, <1>2, <1>3, <1>4, <1>5 DEF ChosenIsRight

LEMMA AlwaysRight == MCSpec => []ChosenIsRight
BY ChosenInit, ChosenNext, PTL DEF MCSpec, MCNext

(* Whatever modules are analysed and in whatever order they include each other,    *)
(* classes are covered and types observed while the caches are asked, a cached     *)
(* answer is what would be computed now (ModuleTestCluster.get_generators_for,     *)
(* get_all_generatable_types, update_return_type).                                 *)
THEOREM AnswersAreAlwaysCurrent == MCSpec => []AnswersAreCurrent
<1>1. ChosenIsRight => AnswersAreCurrent
  BY DEF ChosenIsRight, ClusterInv, AnswersAreCurrent
<1> QED BY <1>1, AlwaysRight, PTL

(* While a target is uncovered that some object under test contains, however deep  *)
(* its code object is nested in others, one that contains it is offered for calls  *)
(* (FilteredModuleTestCluster).                                                     *)
THEOREM UncoveredIsAlwaysOffered == MCSpec => []UncoveredIsOffered
<1>1. ChosenIsRight => UncoveredIsOffered
  BY OfferedAround DEF ChosenIsRight, UncoveredIsOffered
<1> QED BY <1>1, AlwaysRight, PTL

(* Whatever proxies see of whatever parameters, the guesses that are kept of each  *)
(* are at most as many as are to be kept, different, and never Any or no guess     *)
(* (InferredSignature.get_parameter_types, _update_guess).                         *)
THEOREM GuessesAreAlwaysUseful == MCSpec => []GuessesAreUseful
<1>1. ChosenIsRight => GuessesAreUseful
  BY DEF ChosenIsRight, GuessInv, IsKept, Useful, GuessesAreUseful, S!GuessesAreUseful, S!IsInjective
<1> QED BY <1>1, AlwaysRight, PTL

(* Whatever tests do in whatever executions, flaky ones and those that time out    *)
(* among them: although only what changes is asserted, the last assertion about    *)
(* something is true at every statement, and what filtering leaves holds in the    *)
(* second execution (AssertionGenerator._add_assertions_for, __remove_non_holding_ *)
(* assertions).                                                                    *)
THEOREM AssertionsAreAlwaysTrue == MCSpec => []AssertionsAreTrue
<1>1. ChosenIsRight => AssertionsAreTrue
  <2> SUFFICES ASSUME AssertionsInv PROVE A!LatestAssertionIsTrue /\ A!FilteredAssertionsHold
    BY DEF ChosenIsRight, AssertionsAreTrue
  <2>1. ASSUME aPhase = "record", NEW t \in DOMAIN AsTests
        PROVE  LatestIsTrue(t, assertions[t], recorded[t])
    BY <2>1 DEF AssertionsInv, TestIsRight
  <2>2. ASSUME aPhase \in {"filter", "mutate"}, NEW t \in DOMAIN AsTests
        PROVE  HoldAfter(t, assertions[t], recorded[t], filtered[t])
    BY <2>2 DEF AssertionsInv, TestIsRight
  <2>3. A!LatestAssertionIsTrue
    BY <2>1 DEF A!LatestAssertionIsTrue, LatestIsTrue
  <2>4. A!FilteredAssertionsHold
    BY <2>2 DEF A!FilteredAssertionsHold, HoldAfter
  <2> QED BY <2>3, <2>4
<1> QED BY <1>1, AlwaysRight, PTL

(* Whatever mutants do to the module: those assertions on values stay that do not  *)
(* hold on a mutant which does not time out, although an exception that an earlier *)
(* statement should raise hides those after it, and no others                      *)
(* (MutationAnalysisAssertionGenerator._remove_non_relevant_assertions).           *)
THEOREM RelevantAssertionsAlwaysStay == MCSpec => RelevantAssertionsStay
<1>1. ChosenIsRight /\ [MCNext]_allVars => [component = "assertions" => A!RelevantAreKept]_allVars
  <2> SUFFICES ASSUME ChosenIsRight, MCNext, component = "assertions" PROVE A!RelevantAreKept
    OBVIOUS
  <2>1. A!Next
    BY DEF MCNext, ClusterStep, SignaturesStep, MutantsStep, AssertionsStep
  <2> QED BY <2>1, RelevantStay DEF ChosenIsRight
<1> QED BY <1>1, AlwaysRight, PTL DEF MCSpec, MCNext, RelevantAssertionsStay

(* Whatever the module, its mutations, the strategy and the order of mutants:      *)
(* while generators of a mutant begin and are resumed, the tree is the original    *)
(* one but for the mutations of those at work, the node of a mutation that is to   *)
(* be applied is always found, and in the end each mutation has been in a mutant   *)
(* (HighOrderMutator.mutate, MutationOperator._generic_visit_list).                *)
THEOREM MutantsAreAlwaysSound == MCSpec => []MutantsAreSound
<1>1. ChosenIsRight => MutantsAreSound
  BY AreSound DEF ChosenIsRight
<1> QED BY <1>1, AlwaysRight, PTL
===============================================================================
