---------------------------- MODULE SearchesProofs ----------------------------
(* Proofs about the searches beside DynaMOSA: MIO, and, as parts of MCSearches, the *)
(* plateaus that cut a search short and the searches that judge whole suites.      *)
EXTENDS MCSearches, FiniteSetTheorems, WellFoundedInduction, TLAPS

--------------------------------------------------------------------------------
(* MIO: populations are sorted, within their capacity and never lose their best     *)
(* test, for every set of targets and tests and every budget.                       *)
Populations == [counter : Nat, capacity : Nat \ {0}, solutions : Seq(Tests)]

TypeOK ==
  /\ archive \in [Targets -> Populations]
  /\ n \in Nat \ {0}
  /\ solution \in Tests \cup {NoTest}

Inv == TypeOK /\ PopulationsAreSound

-----------------------------------------------------------------------------
(* The sort.                                                                *)

LEMMA Interval ==
  ASSUME NEW k \in Nat
  PROVE  IsFiniteSet(1 .. k) /\ Cardinality(1 .. k) = k
BY FS_Interval

\* Each place of a sorted sequence is the rank of one element.
LEMMA RanksAreDistinct ==
  ASSUME NEW ts \in Seq(Tests), NEW g \in Targets,
         NEW j \in DOMAIN ts, NEW k \in DOMAIN ts, j # k, Precedes(ts, g, j, k)
  PROVE  Rank(ts, g, j) \in 1 .. Len(ts) /\ Rank(ts, g, j) < Rank(ts, g, k)
<1> DEFINE Before(i) == {l \in DOMAIN ts : Precedes(ts, g, l, i)}
<1>1. /\ DOMAIN ts = 1 .. Len(ts) /\ Len(ts) \in Nat
      /\ \A l \in DOMAIN ts : H[ts[l]][g] \in Nat
  BY HType
<1>2. IsFiniteSet(DOMAIN ts) /\ Cardinality(DOMAIN ts) = Len(ts)
  <2>1. IsFiniteSet(1 .. Len(ts)) /\ Cardinality(1 .. Len(ts)) = Len(ts)
    BY <1>1, Interval
  <2> QED BY <1>1, <2>1
<1>3. /\ IsFiniteSet(Before(j)) /\ Cardinality(Before(j)) \in Nat
      /\ IsFiniteSet(Before(k)) /\ Cardinality(Before(k)) \in Nat
      /\ Cardinality(Before(j)) <= Len(ts)
  BY <1>2, FS_Subset, FS_CardinalityType
<1>4. j \in Before(j) /\ k \in Before(k) /\ k \notin Before(j)
  BY <1>1 DEF Precedes
<1>5. Before(j) \subseteq Before(k)
  BY <1>1 DEF Precedes
<1>6. Cardinality(Before(j)) <= Cardinality(Before(k)) /\ Cardinality(Before(j)) # Cardinality(Before(k))
  BY <1>3, <1>4, <1>5, FS_Subset
<1>7. Cardinality(Before(j)) # 0
  BY <1>3, <1>4, FS_EmptySet
<1>8. Cardinality(Before(j)) \in 1 .. Len(ts)
  BY <1>1, <1>3, <1>7
<1>9. Cardinality(Before(j)) < Cardinality(Before(k))
  BY <1>3, <1>6
<1> QED BY <1>8, <1>9 DEF Rank

\* What Sorted returns has the elements of what it is given, from the best to the
\* worst.
LEMMA SortedSorts ==
  ASSUME NEW ts \in Seq(Tests), NEW g \in Targets
  PROVE  LET s == Sorted(ts, g)
         IN  /\ s \in Seq(Tests) /\ Len(s) = Len(ts)
             /\ \A i \in DOMAIN s : \E j \in DOMAIN ts : s[i] = ts[j]
             /\ \A j \in DOMAIN ts : \E i \in DOMAIN s : s[i] = ts[j]
             /\ \A i, j \in DOMAIN s : i < j => H[s[i]][g] >= H[s[j]][g]
<1> DEFINE s == Sorted(ts, g)
           rank == [j \in DOMAIN ts |-> Rank(ts, g, j)]
           At(i) == CHOOSE j \in DOMAIN ts : Rank(ts, g, j) = i
<1>1. /\ DOMAIN ts = 1 .. Len(ts) /\ Len(ts) \in Nat
      /\ \A l \in DOMAIN ts : ts[l] \in Tests /\ H[ts[l]][g] \in Nat
  BY HType
<1>2. \A j, k \in DOMAIN ts : Precedes(ts, g, j, k) \/ Precedes(ts, g, k, j)
  BY <1>1 DEF Precedes
<1>3. \A j \in DOMAIN ts : Rank(ts, g, j) \in 1 .. Len(ts)
  <2> SUFFICES ASSUME NEW j \in DOMAIN ts PROVE Rank(ts, g, j) \in 1 .. Len(ts)
    OBVIOUS
  <2> DEFINE Earlier == {l \in DOMAIN ts : Precedes(ts, g, l, j)}
  <2>1. IsFiniteSet(DOMAIN ts) /\ Cardinality(DOMAIN ts) = Len(ts)
    BY <1>1, Interval
  <2>2. IsFiniteSet(Earlier) /\ Cardinality(Earlier) \in Nat /\ Cardinality(Earlier) <= Len(ts)
    BY <2>1, FS_Subset, FS_CardinalityType
  <2>3. j \in Earlier
    BY <1>1 DEF Precedes
  <2>4. Cardinality(Earlier) # 0
    BY <2>2, <2>3, FS_EmptySet
  <2>5. Cardinality(Earlier) \in 1 .. Len(ts)
    BY <1>1, <2>2, <2>4
  <2> QED BY <2>5 DEF Rank
<1>4. \A j, k \in DOMAIN ts : j # k => Rank(ts, g, j) # Rank(ts, g, k)
  BY <1>1, <1>2, <1>3, RanksAreDistinct
<1>5. \A i \in 1 .. Len(ts) : \E j \in DOMAIN ts : Rank(ts, g, j) = i
  <2>1. rank \in Injection(DOMAIN ts, 1 .. Len(ts))
    BY <1>3, <1>4 DEF Injection, IsInjective
  <2>2. IsFiniteSet(1 .. Len(ts)) /\ Cardinality(DOMAIN ts) = Cardinality(1 .. Len(ts))
    BY <1>1, Interval
  <2>3. rank \in Surjection(DOMAIN ts, 1 .. Len(ts))
    BY <2>1, <2>2, FS_Injection
  <2> QED BY <2>3 DEF Surjection
<1>6. \A i \in 1 .. Len(ts) : At(i) \in DOMAIN ts /\ Rank(ts, g, At(i)) = i
  BY <1>5
<1>7. s = [i \in 1 .. Len(ts) |-> ts[At(i)]]
  BY <1>1 DEF Sorted
<1>8. s \in Seq(Tests) /\ Len(s) = Len(ts) /\ DOMAIN s = 1 .. Len(ts)
  <2>1. s \in [1 .. Len(ts) -> Tests]
    BY <1>1, <1>6, <1>7
  <2> QED BY <2>1, <1>1
<1>9. \A i \in DOMAIN s : \E j \in DOMAIN ts : s[i] = ts[j]
  BY <1>6, <1>7, <1>8
<1>10. \A j \in DOMAIN ts : \E i \in DOMAIN s : s[i] = ts[j]
  <2> SUFFICES ASSUME NEW j \in DOMAIN ts PROVE \E i \in DOMAIN s : s[i] = ts[j]
    OBVIOUS
  <2>1. Rank(ts, g, j) \in 1 .. Len(ts) /\ At(Rank(ts, g, j)) = j
    BY <1>3, <1>4, <1>6
  <2> QED BY <2>1, <1>7, <1>8
<1>11. \A i, j \in DOMAIN s : i < j => H[s[i]][g] >= H[s[j]][g]
  <2> SUFFICES ASSUME NEW i \in 1 .. Len(ts), NEW j \in 1 .. Len(ts), i < j
               PROVE  H[ts[At(i)]][g] >= H[ts[At(j)]][g]
    BY <1>7, <1>8
  <2>1. At(i) \in DOMAIN ts /\ At(j) \in DOMAIN ts /\ At(i) # At(j)
    BY <1>6
  <2>2. Precedes(ts, g, At(i), At(j))
    <3>1. ASSUME Precedes(ts, g, At(j), At(i)) PROVE FALSE
      <4>1. Rank(ts, g, At(j)) < Rank(ts, g, At(i))
        BY <2>1, <3>1, RanksAreDistinct
      <4> QED BY <4>1, <1>6
    <3> QED BY <1>2, <2>1, <3>1
  <2> QED BY <1>1, <2>1, <2>2 DEF Precedes
<1>12. s = Sorted(ts, g)
  OBVIOUS
<1> HIDE DEF s
<1> QED BY <1>8, <1>9, <1>10, <1>11, <1>12
-----------------------------------------------------------------------------
(* The operations of a population.                                          *)

\* There is a place in what Room returns, and the best element is in it unless the
\* population has room for one test only.
LEMMA RoomIsPart ==
  ASSUME NEW p \in Populations, Len(p.solutions) <= p.capacity
  PROVE  /\ Room(p) \in Seq(Tests)
         /\ Len(Room(p)) < p.capacity
         /\ Len(Room(p)) <= Len(p.solutions)
         /\ \A i \in DOMAIN Room(p) : Room(p)[i] = p.solutions[i]
         /\ Len(Room(p)) = Len(p.solutions) \/ Len(Room(p)) = Len(p.solutions) - 1 
         /\ Len(Room(p)) # Len(p.solutions) => ~(Len(p.solutions) < p.capacity)
<1>1. p.solutions \in Seq(Tests) /\ p.capacity \in Nat \ {0} /\ Len(p.solutions) \in Nat
  BY DEF Populations
<1>2. CASE Len(p.solutions) < p.capacity
  BY <1>1, <1>2 DEF Room
<1>3. CASE ~(Len(p.solutions) < p.capacity)
  <2>1. Len(p.solutions) >= 1
    BY <1>1, <1>3
  <2>2. Room(p) = SubSeq(p.solutions, 1, Len(p.solutions) - 1)
    BY <1>3 DEF Room, Front
  <2>3. /\ Room(p) \in Seq(Tests)
        /\ Len(Room(p)) = Len(p.solutions) - 1
        /\ \A i \in 1 .. Len(p.solutions) - 1 : Room(p)[i] = p.solutions[i]
    BY <1>1, <2>1, <2>2
  <2> QED BY <1>1, <1>3, <2>3
<1> QED BY <1>2, <1>3

\* An addition leaves a population sorted and within its capacity, and the best test
\* is as good as before.
LEMMA WithIsOrdered ==
  ASSUME NEW p \in Populations, NEW t \in Tests, NEW g \in Targets,
         IsOrdered(p, g), Adds(p, t, g)
  PROVE  /\ With(p, t, g) \in Populations
         /\ IsOrdered(With(p, t, g), g)
         /\ With(p, t, g).capacity = p.capacity \/ IsCovered(With(p, t, g), g)
         /\ With(p, t, g).solutions # <<>>
         /\ p.solutions # <<>> =>
              H[With(p, t, g).solutions[1]][g] >= H[p.solutions[1]][g]
<1> DEFINE q == With(p, t, g)
           ts == Append(Room(p), t)
<1>1. /\ p.solutions \in Seq(Tests) /\ p.capacity \in Nat \ {0} /\ Len(p.solutions) \in Nat
      /\ p.counter \in Nat
      /\ MaxH \in Nat /\ H[t][g] \in 0 .. MaxH /\ H[t][g] > 0
      /\ \A u \in Tests : H[u][g] \in 0 .. MaxH
  BY HType DEF Populations, Adds
<1>2. CASE H[t][g] = MaxH
  <2>1. q = [counter |-> 0, capacity |-> 1, solutions |-> <<t>>]
    BY <1>2 DEF With
  <2>2. IsCovered(q, g)
    BY <1>2, <2>1 DEF IsCovered
  <2>3. q \in Populations
    BY <2>1 DEF Populations
  <2>4. IsOrdered(q, g)
    BY <1>1, <2>1, <2>2 DEF IsOrdered
  <2>5. p.solutions # <<>> => H[q.solutions[1]][g] >= H[p.solutions[1]][g]
    BY <1>1, <1>2, <2>1
  <2> QED BY <2>1, <2>2, <2>3, <2>4, <2>5
<1>3. CASE H[t][g] # MaxH
  <2>1. q = [counter |-> 0, capacity |-> p.capacity, solutions |-> Sorted(ts, g)]
    BY <1>3 DEF With, Populations
  <2>2. Len(p.solutions) <= p.capacity
    BY DEF IsOrdered
  <2>3. ~IsCovered(p, g)
    BY <1>3 DEF Adds
  <2>4. /\ ts \in Seq(Tests) /\ Len(ts) = Len(Room(p)) + 1 /\ Len(ts) <= p.capacity
        /\ ts[Len(ts)] = t
        /\ \A i \in 1 .. Len(Room(p)) : ts[i] = p.solutions[i] /\ i \in DOMAIN p.solutions
    BY <1>1, <2>2, RoomIsPart
  <2>5. \A i \in DOMAIN ts : H[ts[i]][g] > 0 /\ H[ts[i]][g] # MaxH
    BY <1>1, <1>3, <2>3, <2>4 DEF IsOrdered
  <2> DEFINE s == Sorted(ts, g)
  <2>6. /\ s \in Seq(Tests) /\ Len(s) = Len(ts)
        /\ \A i \in DOMAIN s : \E j \in DOMAIN ts : s[i] = ts[j]
        /\ \A j \in DOMAIN ts : \E i \in DOMAIN s : s[i] = ts[j]
        /\ \A i, j \in DOMAIN s : i < j => H[s[i]][g] >= H[s[j]][g]
    BY <2>4, SortedSorts
  <2> HIDE DEF s, ts
  <2>7. q \in Populations
    BY <1>1, <2>1, <2>6 DEF Populations, s
  <2>8. \A i \in DOMAIN s : H[s[i]][g] > 0 /\ H[s[i]][g] # MaxH
    BY <2>5, <2>6
  <2>9. IsOrdered(q, g)
    <3>1. q.solutions = s /\ q.capacity = p.capacity
      BY <2>1 DEF s
    <3>2. Len(s) <= p.capacity
      BY <2>4, <2>6
    <3> HIDE DEF q
    <3> QED BY <2>6, <2>8, <3>1, <3>2 DEF IsOrdered
  <2>10. q.capacity = p.capacity /\ q.solutions # <<>>
    BY <2>1, <2>4, <2>6, RoomIsPart, <2>2 DEF s
  <2>11. ASSUME p.solutions # <<>> PROVE H[q.solutions[1]][g] >= H[p.solutions[1]][g]
    <3>0. Len(p.solutions) >= 1 /\ p.solutions[1] \in Tests
      BY <1>1, <2>11
    <3>1. \A i \in DOMAIN s : H[s[1]][g] >= H[s[i]][g]
      <4> SUFFICES ASSUME NEW i \in DOMAIN s PROVE H[s[1]][g] >= H[s[i]][g]
        OBVIOUS
      <4>1. 1 \in DOMAIN s /\ s[1] \in Tests /\ s[i] \in Tests /\ (i = 1 \/ 1 < i)
        BY <2>6
      <4> QED BY <1>1, <2>6, <4>1
    <3>2. \E j \in DOMAIN ts : H[ts[j]][g] >= H[p.solutions[1]][g]
      <4>1. CASE Len(Room(p)) >= 1
        <5>1. 1 \in DOMAIN ts /\ ts[1] = p.solutions[1] /\ ts[1] \in Tests
          BY <2>2, <2>4, <4>1, RoomIsPart
        <5> QED BY <1>1, <5>1
      <4>2. CASE ~(Len(Room(p)) >= 1)
        <5>0. /\ Room(p) \in Seq(Tests)
              /\ Len(Room(p)) = Len(p.solutions) \/ Len(Room(p)) = Len(p.solutions) - 1
              /\ Len(Room(p)) # Len(p.solutions) => ~(Len(p.solutions) < p.capacity)
          BY <2>2, RoomIsPart
        <5> DEFINE r == Len(Room(p))
                   l == Len(p.solutions)
        <5>a. r \in Nat /\ l \in Nat /\ l >= 1 /\ ~(r >= 1) /\ (r = l \/ r = l - 1)
          BY <1>1, <3>0, <4>2, <5>0
        <5> HIDE DEF r, l
        <5>b. r # l /\ l = 1
          BY <5>a
        <5>1. Len(p.solutions) = 1 /\ ~(Len(p.solutions) < p.capacity)
          BY <5>0, <5>b DEF r, l
        <5>2. IsBetter(p.solutions[1], t, g)
          BY <1>3, <5>1 DEF Adds
        <5>3. p.solutions[1] \in Tests
          BY <1>1, <5>1
        <5>4. H[t][g] >= H[p.solutions[1]][g]
          BY <1>1, <5>2, <5>3 DEF IsBetter
        <5>5. Len(ts) \in DOMAIN ts
          BY <2>4, RoomIsPart, <2>2
        <5> QED BY <2>4, <5>4, <5>5
      <4> QED BY <4>1, <4>2
    <3>3. PICK j \in DOMAIN ts : H[ts[j]][g] >= H[p.solutions[1]][g]
      BY <3>2
    <3>4. PICK i \in DOMAIN s : s[i] = ts[j]
      BY <2>6, <3>3
    <3>5. /\ 1 \in DOMAIN s /\ s[1] \in Tests /\ s[i] \in Tests /\ p.solutions[1] \in Tests
      BY <2>6, <3>0
    <3>6. H[s[1]][g] >= H[p.solutions[1]][g]
      BY <1>1, <3>1, <3>3, <3>4, <3>5
    <3> QED BY <2>1, <3>6 DEF s
  <2> QED BY <2>7, <2>9, <2>10, <2>11
<1> QED BY <1>2, <1>3

\* So does a shrinkage.
LEMMA ShrunkIsOrdered ==
  ASSUME NEW p \in Populations, NEW g \in Targets, NEW size \in Nat \ {0}, IsOrdered(p, g)
  PROVE  LET q == Shrunk(p, size, g)
         IN  /\ q \in Populations /\ IsOrdered(q, g)
             /\ IsCovered(p, g) => q = p
             /\ ~IsCovered(p, g) => q.capacity = size
             /\ p.solutions # <<>> => q.solutions # <<>> /\ q.solutions[1] = p.solutions[1]
<1>1. CASE IsCovered(p, g)
  BY <1>1 DEF Shrunk
<1>2. CASE ~IsCovered(p, g)
  <2> DEFINE q == Shrunk(p, size, g)
             l == IF size < Len(p.solutions) THEN size ELSE Len(p.solutions)
  <2>1. p.solutions \in Seq(Tests) /\ Len(p.solutions) \in Nat
    BY DEF Populations
  <2>2. q = [counter |-> p.counter, capacity |-> size, solutions |-> SubSeq(p.solutions, 1, l)]
    BY <1>2 DEF Shrunk, Populations
  <2>3. l \in Nat /\ l <= size /\ l <= Len(p.solutions)
    BY <2>1
  <2>4. /\ q.solutions \in Seq(Tests) /\ Len(q.solutions) = l
        /\ \A i \in 1 .. l : q.solutions[i] = p.solutions[i] /\ i \in DOMAIN p.solutions
    BY <2>1, <2>2, <2>3
  <2>5. q \in Populations
    BY <2>2, <2>4 DEF Populations
  <2>6. \A i \in DOMAIN p.solutions : H[p.solutions[i]][g] # MaxH
    BY <1>2 DEF IsOrdered
  <2>7. IsOrdered(q, g)
    BY <2>2, <2>3, <2>4, <2>6 DEF IsOrdered
  <2>8. p.solutions # <<>> => q.solutions # <<>> /\ q.solutions[1] = p.solutions[1]
    <3> SUFFICES ASSUME p.solutions # <<>>
                 PROVE  q.solutions # <<>> /\ q.solutions[1] = p.solutions[1]
      OBVIOUS
    <3>1. Len(p.solutions) >= 1 /\ l >= 1
      BY <2>1
    <3> QED BY <2>4, <3>1
  <2> QED BY <1>2, <2>2, <2>5, <2>7, <2>8
<1> QED BY <1>1, <1>2
-----------------------------------------------------------------------------
(* The archive.                                                             *)

\* A population that counts as covered stays so, with a test that covers the target.
LEMMA CoveredStays ==
  ASSUME NEW p \in Populations, NEW t \in Tests, NEW g \in Targets,
         Adds(p, t, g), IsCovered(p, g)
  PROVE  IsCovered(With(p, t, g), g)
BY DEF Adds, With, IsCovered

\* What is offered to the archive, after a test may have been sampled from it.
OfferKeeps(a, b) ==
  \A g \in Targets :
    /\ b[g] \in Populations /\ IsOrdered(b[g], g)
    /\ b[g].capacity = a[g].capacity \/ IsCovered(b[g], g)
    /\ IsCovered(a[g], g) => IsCovered(b[g], g)
    /\ a[g].solutions # <<>> =>
         b[g].solutions # <<>> /\ H[b[g].solutions[1]][g] >= H[a[g].solutions[1]][g]

LEMMA UpdatedKeeps ==
  ASSUME NEW a \in [Targets -> Populations], \A g \in Targets : IsOrdered(a[g], g),
         NEW t \in Tests
  PROVE  Updated(a, t) \in [Targets -> Populations] /\ OfferKeeps(a, Updated(a, t))
<1> DEFINE b == Updated(a, t)
<1>1. ASSUME NEW g \in Targets
      PROVE  /\ b[g] \in Populations /\ IsOrdered(b[g], g)
             /\ b[g].capacity = a[g].capacity \/ IsCovered(b[g], g)
             /\ IsCovered(a[g], g) => IsCovered(b[g], g)
             /\ a[g].solutions # <<>> =>
                  b[g].solutions # <<>> /\ H[b[g].solutions[1]][g] >= H[a[g].solutions[1]][g]
  <2>1. b[g] = IF Adds(a[g], t, g) THEN With(a[g], t, g) ELSE a[g]
    BY DEF Updated
  <2>2. CASE Adds(a[g], t, g)
    <3>1. b[g] = With(a[g], t, g)
      BY <2>1, <2>2
    <3> HIDE DEF b
    <3> QED BY <2>2, <3>1, WithIsOrdered, CoveredStays
  <2>3. CASE ~Adds(a[g], t, g)
    <3>1. b[g] = a[g]
      BY <2>1, <2>3
    <3>2. a[g].solutions # <<>> => H[a[g].solutions[1]][g] \in Nat
      <4>1. a[g].solutions \in Seq(Tests)
        BY DEF Populations
      <4> QED BY <4>1, HType
    <3> HIDE DEF b
    <3> QED BY <3>1, <3>2
  <2> QED BY <2>2, <2>3
<1>2. b = [g \in Targets |-> b[g]]
  BY DEF Updated
<1> HIDE DEF b
<1>3. b \in [Targets -> Populations] /\ OfferKeeps(a, b)
  BY <1>1, <1>2 DEF OfferKeeps
<1> QED BY <1>3 DEF b

\* A sampled test is one of the archive's.
LEMMA SampledKeeps ==
  ASSUME NEW a \in [Targets -> Populations], \A g \in Targets : IsOrdered(a[g], g),
         NEW h \in Targets
  PROVE  LET b == [a EXCEPT ![h].counter = @ + 1]
         IN  b \in [Targets -> Populations] /\ OfferKeeps(a, b)
<1> DEFINE b == [a EXCEPT ![h].counter = @ + 1]
<1>1. ASSUME NEW g \in Targets
      PROVE  /\ b[g] \in Populations
             /\ b[g].capacity = a[g].capacity /\ b[g].solutions = a[g].solutions
  BY DEF Populations
<1>2. b = [g \in Targets |-> b[g]]
  OBVIOUS
<1> HIDE DEF b
<1>3. ASSUME NEW g \in Targets
      PROVE  a[g].solutions # <<>> => H[a[g].solutions[1]][g] >= H[a[g].solutions[1]][g]
  <2>1. a[g].solutions \in Seq(Tests)
    BY DEF Populations
  <2> QED BY <2>1, HType
<1>4. b \in [Targets -> Populations] /\ OfferKeeps(a, b)
  BY <1>1, <1>2, <1>3 DEF OfferKeeps, IsOrdered, IsCovered
<1> QED BY <1>4 DEF b

LEMMA OffersKeep ==
  ASSUME NEW a, NEW b, NEW c, OfferKeeps(a, b), OfferKeeps(b, c),
         a \in [Targets -> Populations], b \in [Targets -> Populations], c \in [Targets -> Populations]
  PROVE  OfferKeeps(a, c)
<1>1. ASSUME NEW g \in Targets
      PROVE  /\ a[g].solutions # <<>> => H[a[g].solutions[1]][g] \in Nat
             /\ b[g].solutions # <<>> => H[b[g].solutions[1]][g] \in Nat
             /\ c[g].solutions # <<>> => H[c[g].solutions[1]][g] \in Nat
  <2>1. a[g].solutions \in Seq(Tests) /\ b[g].solutions \in Seq(Tests) /\ c[g].solutions \in Seq(Tests)
    BY DEF Populations
  <2> QED BY <2>1, HType
<1>2. ASSUME NEW g \in Targets, IsCovered(b[g], g), OfferKeeps(b, c)
      PROVE  IsCovered(c[g], g)
  BY <1>2 DEF OfferKeeps
<1> QED BY <1>1, <1>2 DEF OfferKeeps
-----------------------------------------------------------------------------
(* The algorithm.                                                           *)

LEMMA InitInv == Init => Inv
<1> SUFFICES ASSUME Init PROVE Inv
  OBVIOUS
<1>1. archive = [g \in Targets |-> Population(Initial.n)]
  BY DEF Init
<1>2. \A g \in Targets : /\ archive[g] = [counter |-> 0, capacity |-> Initial.n, solutions |-> <<>>]
                         /\ archive[g] \in Populations
  BY <1>1, ParametersType DEF Population, Populations
<1>3. TypeOK
  BY <1>1, <1>2, ParametersType DEF Init, TypeOK
<1>4. PopulationsAreOrdered
  BY <1>2, ParametersType DEF PopulationsAreOrdered, IsOrdered
<1>5. CapacityIsN
  BY <1>2 DEF Init, CapacityIsN, Covered
<1> QED BY <1>3, <1>4, <1>5 DEF Inv, PopulationsAreSound

\* Whatever is offered, and to the archive with whatever counters.
LEMMA OfferIsSafe ==
  ASSUME Inv, NEW a \in [Targets -> Populations], OfferKeeps(archive, a),
         NEW t \in Tests, Offer(a, t), n' = n
  PROVE  Inv' /\ OfferKeeps(archive, archive')
<1>1. archive' = Updated(a, t)
  BY DEF Offer
<1>2. \A g \in Targets : IsOrdered(a[g], g)
  BY DEF OfferKeeps
<1>3. archive' \in [Targets -> Populations] /\ OfferKeeps(a, archive')
  BY <1>1, <1>2, UpdatedKeeps
<1>4. OfferKeeps(archive, archive')
  BY <1>3, OffersKeep DEF Inv, TypeOK
<1>5. TypeOK'
  BY <1>3 DEF Inv, TypeOK, Offer
<1>6. PopulationsAreOrdered'
  BY <1>4 DEF PopulationsAreOrdered, OfferKeeps
<1>7. CapacityIsN'
  BY <1>4 DEF Inv, PopulationsAreSound, CapacityIsN, Covered, OfferKeeps
<1> QED BY <1>4, <1>5, <1>6, <1>7 DEF Inv, PopulationsAreSound

LEMMA NothingLost ==
  ASSUME Inv
  PROVE  OfferKeeps(archive, archive)
<1>1. \A g \in Targets : archive[g].solutions # <<>> => H[archive[g].solutions[1]][g] \in Nat
  <2> SUFFICES ASSUME NEW g \in Targets, archive[g].solutions # <<>>
               PROVE  H[archive[g].solutions[1]][g] \in Nat
    OBVIOUS
  <2>1. archive[g].solutions \in Seq(Tests)
    BY DEF Inv, TypeOK, Populations
  <2> QED BY <2>1, HType
<1> QED BY <1>1 DEF Inv, TypeOK, PopulationsAreSound, PopulationsAreOrdered, OfferKeeps

\* The best test of each population is kept.
Keeps(a, b) ==
  \A g \in Targets :
    a[g].solutions # <<>> =>
      b[g].solutions # <<>> /\ H[b[g].solutions[1]][g] >= H[a[g].solutions[1]][g]

LEMMA EvolutionIsSafe ==
  ASSUME Inv, EvolveFurther \/ EvolveRandom \/ EvolveSampled
  PROVE  Inv' /\ Keeps(archive, archive')
<1>1. archive \in [Targets -> Populations] /\ OfferKeeps(archive, archive)
  BY NothingLost DEF Inv, TypeOK
<1>2. CASE EvolveFurther
  <2>1. PICK t \in Tests : Offer(archive, t)
    BY <1>2 DEF EvolveFurther, Inv, TypeOK
  <2>2. n' = n
    BY <1>2 DEF EvolveFurther
  <2>3. Inv' /\ OfferKeeps(archive, archive')
    BY <1>1, <2>1, <2>2, OfferIsSafe
  <2> QED BY <2>3 DEF OfferKeeps, Keeps
<1>3. CASE EvolveRandom
  <2>1. PICK t \in Tests : Offer(archive, t)
    BY <1>3 DEF EvolveRandom
  <2>2. n' = n
    BY <1>3 DEF EvolveRandom
  <2>3. Inv' /\ OfferKeeps(archive, archive')
    BY <1>1, <2>1, <2>2, OfferIsSafe
  <2> QED BY <2>3 DEF OfferKeeps, Keeps
<1>4. CASE EvolveSampled
  <2> DEFINE a(g) == [archive EXCEPT ![g].counter = @ + 1]
  <2>1. PICK g \in Candidates(archive) :
          \/ \E t \in Tests : Offer(a(g), t)
          \/ \E i \in DOMAIN archive[g].solutions : Offer(a(g), archive[g].solutions[i])
    BY <1>4 DEF EvolveSampled
  <2>2. g \in Targets
    BY DEF Candidates
  <2>3. archive[g].solutions \in Seq(Tests)
    BY <1>1, <2>2 DEF Populations
  <2>4. PICK t \in Tests : Offer(a(g), t)
    <3> HIDE DEF a
    <3>1. \A i \in DOMAIN archive[g].solutions : archive[g].solutions[i] \in Tests
      BY <2>3
    <3> QED BY <2>1, <3>1
  <2>5. a(g) \in [Targets -> Populations] /\ OfferKeeps(archive, a(g))
    BY <1>1, <2>2, SampledKeeps DEF Inv, PopulationsAreSound, PopulationsAreOrdered
  <2>6. n' = n
    BY <1>4 DEF EvolveSampled
  <2> HIDE DEF a
  <2>7. Inv' /\ OfferKeeps(archive, archive')
    BY <2>4, <2>5, <2>6, OfferIsSafe
  <2> QED BY <2>7 DEF OfferKeeps, Keeps
<1> QED BY <1>2, <1>3, <1>4

\* Unless n stays the same, all uncovered populations have room for the new n.
LEMMA UpdateIsSafe ==
  ASSUME Inv, UpdateParameters
  PROVE  Inv' /\ Keeps(archive, archive')
<1>1. /\ n' \in Nat \ {0}
      /\ archive' = IF n' = n THEN archive ELSE [g \in Targets |-> Shrunk(archive[g], n', g)]
      /\ solution' = solution
  BY DEF UpdateParameters, IsValid
<1>2. /\ archive \in [Targets -> Populations] /\ solution \in Tests \cup {NoTest}
      /\ \A g \in Targets : IsOrdered(archive[g], g)
  BY DEF Inv, TypeOK, PopulationsAreSound, PopulationsAreOrdered
<1>3. CASE n' = n
  <2>1. archive' = archive
    BY <1>1, <1>3
  <2>2. Inv'
    BY <1>1, <1>3, <2>1
       DEF Inv, TypeOK, PopulationsAreSound, PopulationsAreOrdered, CapacityIsN, Covered
  <2>3. Keeps(archive, archive')
    BY <2>1, NothingLost DEF OfferKeeps, Keeps
  <2> QED BY <2>2, <2>3
<1>4. CASE n' # n
  <2>1. ASSUME NEW g \in Targets
        PROVE  /\ archive'[g] \in Populations /\ IsOrdered(archive'[g], g)
               /\ IsCovered(archive'[g], g) \/ archive'[g].capacity = n'
               /\ archive[g].solutions # <<>> =>
                    /\ archive'[g].solutions # <<>>
                    /\ archive'[g].solutions[1] = archive[g].solutions[1]
    <3>1. archive'[g] = Shrunk(archive[g], n', g)
      BY <1>1, <1>4
    <3> QED BY <1>1, <1>2, <3>1, ShrunkIsOrdered
  <2>2. TypeOK'
    <3>1. archive' = [g \in Targets |-> archive'[g]]
      BY <1>1, <1>4
    <3> QED BY <1>1, <1>2, <2>1, <3>1 DEF TypeOK
  <2>3. PopulationsAreOrdered'
    BY <2>1 DEF PopulationsAreOrdered
  <2>4. CapacityIsN'
    BY <2>1 DEF CapacityIsN, Covered
  <2>5. Keeps(archive, archive')
    BY <2>1, NothingLost DEF OfferKeeps, Keeps
  <2> QED BY <2>2, <2>3, <2>4, <2>5 DEF Inv, PopulationsAreSound
<1> QED BY <1>3, <1>4

LEMMA NextIsSafe ==
  ASSUME Inv, [Next]_vars
  PROVE  Inv' /\ Keeps(archive, archive')
<1>1. CASE EvolveFurther \/ EvolveRandom \/ EvolveSampled
  BY <1>1, EvolutionIsSafe
<1>2. CASE UpdateParameters
  BY <1>2, UpdateIsSafe
<1>3. CASE Check \/ Report \/ Finished \/ UNCHANGED vars
  <2>1. archive' = archive /\ n' = n /\ solution' = solution
    BY <1>3 DEF Check, Report, Finished, vars
  <2>2. Inv'
    BY <2>1 DEF Inv, TypeOK, PopulationsAreSound, PopulationsAreOrdered, CapacityIsN, Covered
  <2>3. Keeps(archive, archive')
    BY <2>1, NothingLost DEF OfferKeeps, Keeps
  <2> QED BY <2>2, <2>3
<1> QED BY <1>1, <1>2, <1>3 DEF Next

-----------------------------------------------------------------------------
(* The theorems.                                                            *)

\* At all times MIO's populations are sorted and within their capacity, a test that
\* covers its target is alone in a population that counts as covered, and each other
\* population has the capacity that the algorithm believes it to have.
THEOREM PopulationsAreAlwaysSound == Spec => []PopulationsAreSound
<1>1. Inv /\ [Next]_vars => Inv'
  BY NextIsSafe
<1>2. Inv => PopulationsAreSound
  BY DEF Inv
<1> QED BY InitInv, <1>1, <1>2, PTL DEF Spec

\* What a population came closest to its target with is never lost, neither to a new
\* test nor when populations shrink.
THEOREM BestIsAlwaysKept == Spec => BestIsKept
<1>1. Inv /\ [Next]_vars => Inv'
  BY NextIsSafe
<1>2. Inv /\ [Next]_vars =>
        [\A g \in Targets :
          archive[g].solutions # <<>> =>
            /\ archive'[g].solutions # <<>>
            /\ H[archive'[g].solutions[1]][g] >= H[archive[g].solutions[1]][g]]_vars
  BY NextIsSafe DEF Keeps
<1> QED BY InitInv, <1>1, <1>2, PTL DEF Spec, BestIsKept

MCNext == MIOStep \/ Budget(B!Next) \/ SuitesStep

--------------------------------------------------------------------------------
(* The stopping conditions.                                                        *)

Counts == [iterations : Int, tests : Int, statements : Int, clock : Int, percent : Int,
           previous : Int, same : Int, last : Int, stable : Int]

(* The best coverage is from before the reports that are counted.                    *)
PlateauIsReal ==
  /\ bCounters.same \in 0 .. Len(bHistory) /\ bCounters.previous >= 0
  /\ \A i \in 1 .. Len(bHistory) : bHistory[i] <= bCounters.previous
  /\ \/ bCounters.previous = 0
     \/ \E i \in 1 .. Len(bHistory) - bCounters.same : bHistory[i] = bCounters.previous

(* The last percentage is that of the reports that are counted and of one before    *)
(* them, unless it is zero, which the counter begins with.                          *)
MinimumIsReal ==
  /\ bCounters.stable \in Nat
  /\ bCounters.last > 0 =>
       /\ bCounters.stable < Len(bHistory)
       /\ \A i \in Len(bHistory) - bCounters.stable .. Len(bHistory) :
            B!Percent(bHistory[i]) = bCounters.last

CountersAreRight ==
  /\ bHistory \in Seq(Coverages) /\ bCounters \in Counts
  /\ PlateauIsReal /\ MinimumIsReal

BudgetInv == component = "budget" => CountersAreRight

LEMMA BudgetConstants ==
  /\ \A k \in DOMAIN SearchLimits : SearchLimits[k] \in Nat
  /\ \A k \in DOMAIN SearchLimits \ {"coverage"} : SearchLimits[k] > 0
  /\ PlateauLength \in Nat /\ Scale \in Nat \ {0} /\ Coverages \subseteq 0 .. Scale
BY OtherConstants DEF B!ConstantsType

LEMMA CoverageType == \A coverage \in Coverages : coverage \in Int /\ coverage >= 0
BY BudgetConstants

LEMMA PercentType ==
  ASSUME NEW coverage \in Coverages
  PROVE  B!Percent(coverage) \in Int /\ B!Percent(coverage) <= 100
<1> DEFINE q == (coverage * 100) \div Scale
<1>1. coverage \in Nat /\ coverage <= Scale /\ Scale \in Nat /\ Scale > 0
  BY BudgetConstants
<1>2. coverage * 100 \in Nat /\ coverage * 100 <= 100 * Scale
  BY <1>1
<1>3. q \in Int /\ Scale * q <= coverage * 100
  BY <1>1, <1>2
<1>4. q <= 100
  BY <1>1, <1>2, <1>3
<1> HIDE DEF q
<1>5. B!Percent(coverage) = q - (IF coverage \in RoundedDown THEN 1 ELSE 0)
  BY DEF B!Percent, q
<1> QED BY <1>3, <1>4, <1>5

LEMMA FreshIsRight ==
  ASSUME bCounters = B!Fresh, bHistory = <<>>
  PROVE  CountersAreRight
BY DEF B!Fresh, CountersAreRight, Counts, PlateauIsReal, MinimumIsReal

(* Changing two counters.                                                          *)
LEMMA Changed ==
  ASSUME NEW c \in Counts, NEW x \in Int, NEW y \in Int
  PROVE  /\ [c EXCEPT !.previous = x, !.same = y] \in Counts
         /\ [c EXCEPT !.last = x, !.stable = y] \in Counts
         /\ [c EXCEPT !.iterations = x, !.percent = y] \in Counts
         /\ [c EXCEPT !.tests = x, !.statements = y] \in Counts
BY Zenon DEF Counts

LEMMA Fields ==
  ASSUME NEW c \in Counts
  PROVE  /\ c.previous \in Int /\ c.same \in Int /\ c.last \in Int /\ c.stable \in Int
         /\ c.iterations \in Int /\ c.tests \in Int /\ c.statements \in Int
BY DEF Counts

(* What a report does to the counters of the plateaus.                              *)
LEMMA Reported ==
  ASSUME NEW c \in Counts, NEW coverage \in Coverages, NEW d, d = B!AfterIteration(c, coverage)
  PROVE  /\ d \in Counts
         /\ d.previous = (IF coverage > c.previous THEN coverage ELSE c.previous)
         /\ d.same = (IF coverage > c.previous THEN 0
                      ELSE IF coverage = c.previous THEN c.same + 1 ELSE c.same)
         /\ d.last = B!Percent(coverage)
         /\ d.stable = (IF B!Percent(coverage) = c.last THEN c.stable + 1 ELSE 0)
<1> DEFINE percent == B!Percent(coverage)
           previous == IF coverage > c.previous THEN coverage ELSE c.previous
           same == IF coverage > c.previous THEN 0
                   ELSE IF coverage = c.previous THEN c.same + 1 ELSE c.same
           stable == IF percent = c.last THEN c.stable + 1 ELSE 0
           after == [c EXCEPT !.previous = previous, !.same = same]
           stayed == [after EXCEPT !.last = percent, !.stable = stable]
<1>1. coverage \in Int /\ percent \in Int
  BY CoverageType, PercentType
<1> HIDE DEF percent
<1>2. previous \in Int /\ same \in Int /\ stable \in Int
  BY <1>1, Fields
<1>3. after = B!Plateau(c, coverage)
  BY DEF B!Plateau
<1> HIDE DEF previous, same
<1>4. after \in Counts
  BY <1>2, Changed
<1>5. after.previous = previous /\ after.same = same
      /\ after.last = c.last /\ after.stable = c.stable
  BY DEF Counts
<1> HIDE DEF after
<1>6. stayed = B!StablePlateau(B!Plateau(c, coverage), percent)
  BY <1>3, <1>5 DEF B!StablePlateau
<1> HIDE DEF stable
<1>7. stayed \in Counts
  BY <1>1, <1>2, <1>4, Changed
<1>8. stayed.previous = previous /\ stayed.same = same
      /\ stayed.last = percent /\ stayed.stable = stable
  BY <1>4, <1>5 DEF Counts
<1>9. d = [stayed EXCEPT !.iterations = stayed.iterations + 1, !.percent = percent]
  BY <1>6 DEF B!AfterIteration, percent
<1> HIDE DEF stayed
<1>10. PICK k \in Int : d = [stayed EXCEPT !.iterations = k, !.percent = percent]
  <2>1. stayed.iterations + 1 \in Int
    BY <1>7, Fields
  <2> QED BY <1>9, <2>1
<1>11. d \in Counts
  <2>1. [stayed EXCEPT !.iterations = k, !.percent = percent] \in Counts
    BY <1>1, <1>7, Changed
  <2> QED BY <1>10, <2>1
<1>12. d.previous = previous /\ d.same = same /\ d.last = percent /\ d.stable = stable
  BY <1>7, <1>8, <1>9 DEF Counts
<1> QED BY <1>11, <1>12 DEF previous, same, stable, percent

LEMMA ReportIsRight ==
  ASSUME CountersAreRight, B!Report
  PROVE  CountersAreRight'
<1>1. PICK coverage \in Coverages : /\ bCounters' = B!AfterIteration(bCounters, coverage)
                                    /\ bHistory' = Append(bHistory, coverage)
  BY DEF B!Report
<1> DEFINE len == Len(bHistory)
<1>2. /\ bHistory \in Seq(Coverages) /\ bCounters \in Counts /\ len \in Nat
      /\ coverage \in Int /\ coverage >= 0
      /\ \A i \in 1 .. len : bHistory[i] \in Coverages /\ bHistory[i] \in Int
  BY CoverageType DEF CountersAreRight
<1>3. /\ bHistory' \in Seq(Coverages) /\ Len(bHistory') = len + 1
      /\ \A i \in 1 .. len : bHistory'[i] = bHistory[i]
      /\ bHistory'[len + 1] = coverage
  BY <1>1, <1>2
<1> DEFINE c == bCounters
           d == bCounters'
<1>4. /\ d \in Counts
      /\ d.previous = (IF coverage > c.previous THEN coverage ELSE c.previous)
      /\ d.same = (IF coverage > c.previous THEN 0
                   ELSE IF coverage = c.previous THEN c.same + 1 ELSE c.same)
      /\ d.last = B!Percent(coverage)
      /\ d.stable = (IF B!Percent(coverage) = c.last THEN c.stable + 1 ELSE 0)
  BY <1>1, <1>2, Reported
<1>5. /\ c.previous \in Int /\ c.same \in Int /\ c.last \in Int /\ c.stable \in Int
      /\ c.same \in 0 .. len /\ c.previous >= 0 /\ c.stable \in Nat
      /\ \A i \in 1 .. len : bHistory[i] <= c.previous
      /\ c.previous = 0 \/ \E i \in 1 .. len - c.same : bHistory[i] = c.previous
      /\ c.last > 0 => /\ c.stable < len
                       /\ \A i \in len - c.stable .. len : B!Percent(bHistory[i]) = c.last
  BY <1>2 DEF CountersAreRight, PlateauIsReal, MinimumIsReal, Counts
<1> HIDE DEF len, c, d
<1>6. /\ d.same \in 0 .. len + 1 /\ d.previous >= 0
      /\ \A i \in 1 .. len + 1 : bHistory'[i] <= d.previous
  <2>1. d.same \in 0 .. len + 1 /\ d.previous >= 0 /\ d.previous \in Int
        /\ c.previous <= d.previous /\ coverage <= d.previous
    BY <1>2, <1>4, <1>5
  <2>2. \A i \in 1 .. len : bHistory'[i] <= d.previous
    BY <1>2, <1>3, <1>5, <2>1
  <2> QED BY <1>2, <1>3, <2>1, <2>2
<1>7. d.previous = 0 \/ \E i \in 1 .. len + 1 - d.same : bHistory'[i] = d.previous
  <2>1. CASE coverage > c.previous
    BY <1>2, <1>3, <1>4, <2>1
  <2>2. CASE ~(coverage > c.previous)
    <3>1. d.previous = c.previous /\ d.same <= c.same + 1 /\ d.same \in Int
      BY <1>2, <1>4, <1>5, <2>2
    <3>2. \A i \in 1 .. len - c.same : i \in 1 .. len + 1 - d.same /\ i \in 1 .. len
      BY <1>2, <1>5, <3>1
    <3> QED BY <1>3, <1>5, <3>1, <3>2
  <2> QED BY <2>1, <2>2
<1>8. /\ d.stable \in Nat
      /\ d.last > 0 => /\ d.stable < len + 1
                       /\ \A i \in len + 1 - d.stable .. len + 1 :
                            B!Percent(bHistory'[i]) = d.last
  <2>1. B!Percent(coverage) \in Int
    BY PercentType
  <2>2. CASE B!Percent(coverage) # c.last
    BY <1>2, <1>3, <1>4, <2>1, <2>2
  <2>3. CASE B!Percent(coverage) = c.last /\ d.last > 0
    <3>1. /\ d.last = c.last /\ c.last > 0 /\ d.stable = c.stable + 1 /\ c.stable < len
          /\ c.stable \in Nat
      BY <1>4, <1>5, <2>3
    <3>2. ASSUME NEW i \in len + 1 - d.stable .. len + 1
          PROVE  B!Percent(bHistory'[i]) = d.last
      <4>1. CASE i = len + 1
        BY <1>3, <1>4, <4>1
      <4>2. CASE i # len + 1
        <5>1. i \in len - c.stable .. len /\ i \in 1 .. len
          BY <1>2, <3>1, <4>2
        <5> QED BY <1>3, <1>5, <3>1, <5>1
      <4> QED BY <4>1, <4>2
    <3> QED BY <1>2, <3>1, <3>2
  <2>4. CASE B!Percent(coverage) = c.last /\ ~(d.last > 0)
    BY <1>4, <1>5, <2>4
  <2> QED BY <2>2, <2>3, <2>4
<1> QED
  BY <1>3, <1>4, <1>6, <1>7, <1>8
     DEF c, d, len, CountersAreRight, PlateauIsReal, MinimumIsReal

(* Nothing else touches those counters.                                            *)
LEMMA BudgetNextIsRight ==
  ASSUME CountersAreRight, B!Next
  PROVE  CountersAreRight'
<1>1. CASE B!Report
  BY <1>1, ReportIsRight
<1>2. CASE ~B!Report
  <2>1. /\ bHistory' = bHistory /\ bCounters' \in Counts
        /\ bCounters'.previous = bCounters.previous /\ bCounters'.same = bCounters.same
        /\ bCounters'.last = bCounters.last /\ bCounters'.stable = bCounters.stable
    <3>1. CASE B!Check \/ B!Finished
      BY <3>1 DEF CountersAreRight, B!Check, B!Finished, B!vars
    <3>2. CASE B!ExecuteTest
      <4>1. PICK k \in Int : bCounters' = B!AfterTest(bCounters, k)
        BY <3>2 DEF B!ExecuteTest
      <4>2. bCounters \in Counts
        BY DEF CountersAreRight
      <4>3. bCounters.tests + 1 \in Int /\ bCounters.statements + k \in Int
        BY <4>2, Fields
      <4>4. bCounters' = [bCounters EXCEPT !.tests = bCounters.tests + 1,
                                           !.statements = bCounters.statements + k]
        BY <4>1 DEF B!AfterTest
      <4>5. bCounters' \in Counts
        BY <4>2, <4>3, <4>4, Changed
      <4>6. /\ bCounters'.previous = bCounters.previous /\ bCounters'.same = bCounters.same
            /\ bCounters'.last = bCounters.last /\ bCounters'.stable = bCounters.stable
        BY <4>2, <4>4 DEF Counts
      <4> QED BY <3>2, <4>5, <4>6 DEF B!ExecuteTest
    <3>3. CASE B!Tick
      BY <3>3 DEF CountersAreRight, Counts, B!Tick
    <3> QED BY <1>2, <3>1, <3>2, <3>3 DEF B!Next
  <2> QED BY <2>1 DEF CountersAreRight, PlateauIsReal, MinimumIsReal
<1> QED BY <1>1, <1>2

LEMMA PlateausFollow == CountersAreRight => B!PlateausAreReal
<1> SUFFICES ASSUME CountersAreRight PROVE B!PlateausAreReal
  OBVIOUS
<1> USE BudgetConstants
<1> DEFINE len == Len(bHistory)
<1>0. /\ bHistory \in Seq(Coverages) /\ len \in Nat /\ bCounters.previous \in Int
      /\ bCounters.same \in 0 .. len /\ bCounters.previous >= 0
      /\ \A i \in 1 .. len : bHistory[i] \in Coverages /\ bHistory[i] \in Int
      /\ bCounters.stable \in Nat /\ bCounters.last \in Int
  <2>1. bHistory \in Seq(Coverages) /\ bCounters \in Counts
    BY DEF CountersAreRight
  <2>2. \A i \in 1 .. len : bHistory[i] \in Coverages
    BY <2>1
  <2>3. len \in Nat
    BY <2>1
  <2>4. bCounters.previous \in Int /\ bCounters.last \in Int
    BY <2>1, Fields
  <2>5. \A i \in 1 .. len : bHistory[i] \in Int
    BY <2>2, CoverageType
  <2>6. bCounters.same \in 0 .. len /\ bCounters.previous >= 0 /\ bCounters.stable \in Nat
    BY DEF CountersAreRight, PlateauIsReal, MinimumIsReal
  <2> QED BY <2>1, <2>2, <2>3, <2>4, <2>5, <2>6
<1>1. B!PlateauMeansNoGain
  <2> SUFFICES ASSUME "plateau" \in DOMAIN SearchLimits, B!IsFulfilled(bCounters, "plateau"),
                      NEW n_, n_ = SearchLimits["plateau"]
               PROVE  len >= n_ /\ \A c \in B!LastCoverages(n_) : c <= B!BestBefore(n_)
    BY DEF B!PlateauMeansNoGain
  <2> DEFINE before == {0} \cup {bHistory[i] : i \in 1 .. len - n_}
  <2>1. n_ \in Nat /\ bCounters.same >= n_
    BY DEF B!IsFulfilled, B!CurrentValue
  <2>2. bCounters.previous \in before
    <3>1. CASE bCounters.previous = 0
      BY <3>1
    <3>2. CASE bCounters.previous # 0
      <4>1. PICK i \in 1 .. len - bCounters.same : bHistory[i] = bCounters.previous
        BY <3>2 DEF CountersAreRight, PlateauIsReal
      <4>2. i \in 1 .. len - n_
        BY <1>0, <2>1
      <4> QED BY <4>1, <4>2
    <3> QED BY <3>1, <3>2
  <2>3. \A b \in before : b \in Int /\ b <= bCounters.previous
    <3>1. ASSUME NEW i \in 1 .. len - n_
          PROVE  bHistory[i] \in Int /\ bHistory[i] <= bCounters.previous
      <4>1. i \in 1 .. len
        BY <1>0, <2>1
      <4> QED BY <1>0, <4>1 DEF CountersAreRight, PlateauIsReal
    <3> QED BY <1>0, <3>1
  <2>4. \E x \in before : \A y \in before : x >= y
    BY <1>0, <2>2, <2>3
  <2>5. B!BestBefore(n_) \in before /\ \A y \in before : B!BestBefore(n_) >= y
    <3>1. B!BestBefore(n_) = B!Max(before)
      BY DEF B!BestBefore
    <3> HIDE DEF before
    <3> QED BY <2>4, <3>1 DEF B!Max
  <2>6. ASSUME NEW c \in B!LastCoverages(n_) PROVE c <= B!BestBefore(n_)
    <3>1. PICK i \in len - n_ + 1 .. len : c = bHistory[i]
      BY DEF B!LastCoverages
    <3>2. i \in 1 .. len
      BY <1>0, <2>1
    <3>3. c \in Int /\ c <= bCounters.previous
      BY <1>0, <3>1, <3>2 DEF CountersAreRight, PlateauIsReal
    <3>4. bCounters.previous <= B!BestBefore(n_) /\ B!BestBefore(n_) \in Int
      BY <2>2, <2>3, <2>5
    <3> QED BY <1>0, <3>3, <3>4
  <2> QED BY <1>0, <2>1, <2>6
<1>2. B!MinimumPlateauIsReal
  <2> SUFFICES ASSUME "minimum" \in DOMAIN SearchLimits, B!IsFulfilled(bCounters, "minimum")
               PROVE  /\ len > PlateauLength
                      /\ \E p \in SearchLimits["minimum"] .. 100 :
                           {B!Percent(c) : c \in B!LastCoverages(PlateauLength + 1)} = {p}
    BY DEF B!MinimumPlateauIsReal
  <2> DEFINE p == bCounters.last
  <2>1. /\ bCounters.stable >= PlateauLength /\ p >= SearchLimits["minimum"] /\ p > 0
        /\ SearchLimits["minimum"] \in Int
    BY <1>0 DEF B!IsFulfilled
  <2>2. /\ bCounters.stable < len
        /\ \A i \in len - bCounters.stable .. len : B!Percent(bHistory[i]) = p
    BY <2>1 DEF CountersAreRight, MinimumIsReal
  <2>3. len > PlateauLength /\ len \in 1 .. len
    BY <1>0, <2>1, <2>2
  <2>4. \A i \in len - (PlateauLength + 1) + 1 .. len : B!Percent(bHistory[i]) = p
    BY <1>0, <2>1, <2>2
  <2>5. len \in len - (PlateauLength + 1) + 1 .. len
    BY <1>0
  <2>6. {B!Percent(c) : c \in B!LastCoverages(PlateauLength + 1)} = {p}
    BY <2>4, <2>5 DEF B!LastCoverages
  <2>7. p <= 100
    BY <1>0, <2>3, <2>4, <2>5, PercentType
  <2>8. p \in SearchLimits["minimum"] .. 100
    BY <1>0, <2>1, <2>7
  <2> QED BY <2>3, <2>6, <2>8
<1> QED BY <1>1, <1>2 DEF B!PlateausAreReal

(* Whatever coverages are reported and whatever is executed, a search is cut short    *)
(* only by a plateau that there is (stoppingcondition.py).                          *)
THEOREM PlateausAreAlwaysReal == MCSpec => []PlateausAreReal
<1>1. MCInit => BudgetInv
  BY FreshIsRight DEF MCInit, B!Init, BudgetInv
<1>2. BudgetInv /\ [MCNext]_allVars => BudgetInv'
  <2> SUFFICES ASSUME BudgetInv, [MCNext]_allVars PROVE BudgetInv'
    OBVIOUS
  <2>1. CASE Budget(B!Next)
    BY <2>1, BudgetNextIsRight DEF Budget, BudgetInv
  <2>2. CASE MIOStep \/ SuitesStep \/ UNCHANGED allVars
    BY <2>2 DEF MIOStep, SuitesStep, allVars, bVars, BudgetInv, CountersAreRight, PlateauIsReal,
      MinimumIsReal
  <2> QED BY <2>1, <2>2 DEF MCNext
<1>3. BudgetInv => PlateausAreReal
  BY PlateausFollow DEF BudgetInv, PlateausAreReal
<1> QED BY <1>1, <1>2, <1>3, PTL DEF MCSpec, MCNext
--------------------------------------------------------------------------------
(* Suites and their fitness.                                                       *)

Entries == [suite : SUBSET SuiteTests, fitness : Nat]

LEMMA LeastExists ==
  ASSUME NEW T, T \subseteq Nat, T # {}
  PROVE  \E x \in T : \A y \in T : x <= y
<1> DEFINE R == OpToRel(<, Nat)
<1>1. IsWellFoundedOn(R, Nat)
  BY NatLessThanWellFounded
<1>2. R = {p \in Nat \X Nat : p[1] < p[2]}
  BY DEF OpToRel
<1> HIDE DEF R
<1>3. PICK x \in T : \A y \in T : <<y, x>> \notin R
  BY <1>1, WFMin
<1>4. ASSUME NEW y \in T PROVE x <= y
  <2>1. y \in Nat /\ x \in Nat
    OBVIOUS
  <2>2. y < x => <<y, x>> \in R
    BY <1>2, <2>1
  <2> QED BY <1>3, <2>1, <2>2
<1> QED BY <1>4

LEMMA SameCardinality == ASSUME NEW A PROVE W!Cardinality(A) = Cardinality(A)
BY DEF W!Cardinality, Cardinality

LEMMA SuiteConstants ==
  /\ Suites \subseteq SUBSET SuiteTests
  /\ Elite \in Nat /\ PopulationSize \in Nat /\ 0 < Elite /\ Elite <= PopulationSize
  /\ Worst \in Nat /\ Worst > 0
  /\ IsFiniteSet(Goals) /\ NoTest \notin SuiteTests
  /\ SuiteFitnesses \in [SuiteTests -> [Goals -> 0 .. Worst]]
BY OtherConstants DEF W!ConstantsType, W!IsFiniteSet, IsFiniteSet

(* What a suite is away from a goal is what its best test is.                       *)
LEMMA DistanceIsLeast ==
  ASSUME NEW suite \in SUBSET SuiteTests, NEW g \in Goals
  PROVE  /\ W!Distance(suite, g) \in 0 .. Worst
         /\ \A t \in suite : W!Distance(suite, g) <= SuiteFitnesses[t][g]
         /\ suite # {} => \E t \in suite : W!Distance(suite, g) = SuiteFitnesses[t][g]
<1>1. CASE suite = {}
  BY <1>1, SuiteConstants DEF W!Distance
<1>2. CASE suite # {}
  <2> DEFINE T == {SuiteFitnesses[t][g] : t \in suite}
  <2>1. T \subseteq 0 .. Worst /\ T \subseteq Nat /\ T # {}
    BY <1>2, SuiteConstants
  <2>2. W!Distance(suite, g) = W!Min(T)
    BY <1>2 DEF W!Distance
  <2> HIDE DEF T
  <2>3. \E x \in T : \A y \in T : x <= y
    BY <2>1, LeastExists
  <2>4. W!Distance(suite, g) \in T /\ \A y \in T : W!Distance(suite, g) <= y
    BY <2>2, <2>3 DEF W!Min
  <2> QED BY <1>2, <2>1, <2>4 DEF T
<1> QED BY <1>1, <1>2

Missed(suite, ex) ==
  {p \in (Goals \ ex) \X (1 .. Worst) : p[2] <= W!Distance(suite, p[1])}

LEMMA MissedIsFinite ==
  ASSUME NEW suite, NEW ex
  PROVE  /\ IsFiniteSet(Missed(suite, ex))
         /\ W!SuiteFitness(suite, ex) = Cardinality(Missed(suite, ex))
         /\ W!SuiteFitness(suite, ex) \in Nat
<1>1. IsFiniteSet(Goals \ ex)
  BY SuiteConstants, FS_Subset
<1>2. IsFiniteSet(1 .. Worst)
  BY SuiteConstants, Interval
<1>3. IsFiniteSet((Goals \ ex) \X (1 .. Worst))
  BY <1>1, <1>2, FS_Product
<1>4. IsFiniteSet(Missed(suite, ex))
  <2>1. Missed(suite, ex) \in SUBSET ((Goals \ ex) \X (1 .. Worst))
    BY DEF Missed
  <2> QED BY <1>3, <2>1, FS_Subset
<1>5. W!SuiteFitness(suite, ex) = Cardinality(Missed(suite, ex))
  BY SameCardinality DEF W!SuiteFitness, Missed
<1> QED BY <1>4, <1>5, FS_CardinalityType

(* More tests never make a suite worse.                                            *)
LEMMA MoreTestsAreNoWorse ==
  ASSUME NEW small \in SUBSET SuiteTests, NEW large \in SUBSET SuiteTests, small \subseteq large,
         NEW ex
  PROVE  W!SuiteFitness(large, ex) <= W!SuiteFitness(small, ex)
<1>1. ASSUME NEW g \in Goals PROVE W!Distance(large, g) <= W!Distance(small, g)
  <2>1. CASE small = {}
    <3>1. W!Distance(small, g) = Worst
      BY <2>1 DEF W!Distance
    <3> QED BY <3>1, DistanceIsLeast, SuiteConstants
  <2>2. CASE small # {}
    <3>1. PICK t \in small : W!Distance(small, g) = SuiteFitnesses[t][g]
      BY <2>2, DistanceIsLeast
    <3>2. W!Distance(large, g) <= SuiteFitnesses[t][g]
      BY DistanceIsLeast
    <3> QED BY <3>1, <3>2
  <2> QED BY <2>1, <2>2
<1>2. ASSUME NEW p \in Missed(large, ex) PROVE p \in Missed(small, ex)
  <2>1. p \in (Goals \ ex) \X (1 .. Worst) /\ p[2] <= W!Distance(large, p[1])
    BY DEF Missed
  <2>2. PICK g \in Goals \ ex : \E k \in 1 .. Worst : p = <<g, k>>
    BY <2>1
  <2>3. PICK k \in 1 .. Worst : p = <<g, k>>
    BY <2>2
  <2>4. k <= W!Distance(large, g) /\ k \in Nat
    BY <2>1, <2>3, SuiteConstants
  <2>5. W!Distance(large, g) \in Nat /\ W!Distance(small, g) \in Nat
    <3>1. W!Distance(large, g) \in 0 .. Worst /\ W!Distance(small, g) \in 0 .. Worst
      BY DistanceIsLeast
    <3> QED BY <3>1
  <2>6. k <= W!Distance(small, g)
    BY <1>1, <2>4, <2>5
  <2> QED BY <2>3, <2>6 DEF Missed
<1>3. Missed(large, ex) \in SUBSET Missed(small, ex)
  BY <1>2
<1> QED BY <1>3, MissedIsFinite, FS_Subset

(* A suite of fitness zero covers every goal that is considered.                    *)
LEMMA ZeroCoversAll ==
  ASSUME NEW suite \in SUBSET SuiteTests, NEW ex, W!SuiteFitness(suite, ex) = 0,
         NEW g \in Goals \ ex
  PROVE  g \in W!CoveredBy(suite, Goals)
<1>1. Missed(suite, ex) = {}
  BY MissedIsFinite, FS_EmptySet
<1>2. W!Distance(suite, g) \in 0 .. Worst
  BY DistanceIsLeast
<1>3. ASSUME W!Distance(suite, g) >= 1 PROVE FALSE
  <2>1. <<g, 1>> \in Missed(suite, ex)
    BY <1>2, <1>3, SuiteConstants DEF Missed
  <2> QED BY <1>1, <2>1
<1>4. W!Distance(suite, g) = 0
  BY <1>2, <1>3, SuiteConstants
<1>5. suite # {}
  BY <1>4, SuiteConstants DEF W!Distance
<1>6. PICK t \in suite : SuiteFitnesses[t][g] = 0
  BY <1>4, <1>5, DistanceIsLeast
<1> QED BY <1>6 DEF W!CoveredBy, W!IsCovered
--------------------------------------------------------------------------------
(* The sort of suites, as that of MIO's tests.                                      *)

LEMMA SuiteRanks ==
  ASSUME NEW pop \in Seq(Entries), NEW j \in DOMAIN pop
  PROVE  /\ W!Rank(pop, j) \in 1 .. Len(pop)
         /\ \A k \in DOMAIN pop : j # k /\ W!Precedes(pop, j, k) =>
              W!Rank(pop, j) < W!Rank(pop, k)
<1> DEFINE Before(i) == {l \in DOMAIN pop : W!Precedes(pop, l, i)}
<1>1. /\ DOMAIN pop = 1 .. Len(pop) /\ Len(pop) \in Nat
      /\ \A l \in DOMAIN pop : pop[l].fitness \in Nat
  <2>1. \A l \in DOMAIN pop : pop[l] \in Entries
    OBVIOUS
  <2> QED BY <2>1 DEF Entries
<1>2. IsFiniteSet(DOMAIN pop) /\ Cardinality(DOMAIN pop) = Len(pop)
  <2>1. IsFiniteSet(1 .. Len(pop)) /\ Cardinality(1 .. Len(pop)) = Len(pop)
    BY <1>1, Interval
  <2> QED BY <1>1, <2>1
<1>3. ASSUME NEW i \in DOMAIN pop
      PROVE  /\ IsFiniteSet(Before(i)) /\ Cardinality(Before(i)) \in Nat
             /\ Cardinality(Before(i)) <= Len(pop) /\ i \in Before(i)
             /\ W!Rank(pop, i) = Cardinality(Before(i))
  <2>1. i \in Before(i)
    BY <1>1 DEF W!Precedes
  <2>2. W!Rank(pop, i) = Cardinality(Before(i))
    BY SameCardinality DEF W!Rank
  <2>3. Before(i) \in SUBSET DOMAIN pop
    OBVIOUS
  <2> HIDE DEF Before
  <2> QED BY <1>2, <2>1, <2>2, <2>3, FS_Subset, FS_CardinalityType
<1>4. W!Rank(pop, j) \in 1 .. Len(pop)
  <2>1. Cardinality(Before(j)) # 0
    BY <1>3, FS_EmptySet
  <2> HIDE DEF Before
  <2> QED BY <1>1, <1>3, <2>1
<1>5. ASSUME NEW k \in DOMAIN pop, j # k, W!Precedes(pop, j, k)
      PROVE  W!Rank(pop, j) < W!Rank(pop, k)
  <2>1. Before(j) \in SUBSET Before(k) /\ k \notin Before(j) /\ k \in Before(k)
    BY <1>1, <1>5 DEF W!Precedes
  <2> HIDE DEF Before
  <2>2. Before(j) # Before(k)
    BY <2>1
  <2>3. Cardinality(Before(j)) <= Cardinality(Before(k))
        /\ Cardinality(Before(j)) # Cardinality(Before(k))
    BY <1>3, <2>1, <2>2, FS_Subset
  <2> QED BY <1>3, <2>3
<1> QED BY <1>4, <1>5

IsRanked(pop) == \A i, j \in DOMAIN pop : i <= j => pop[i].fitness <= pop[j].fitness

(* A sorted population has the suites of the one it is made of, the best first.     *)
LEMMA SuitesAreSorted ==
  ASSUME NEW pop \in Seq(Entries), NEW s, s = W!Sorted(pop)
  PROVE  /\ s \in Seq(Entries) /\ Len(s) = Len(pop) /\ IsRanked(s)
         /\ \A i \in DOMAIN s : \E j \in DOMAIN pop : s[i] = pop[j]
         /\ \A j \in DOMAIN pop : \E i \in DOMAIN s : s[i] = pop[j]
<1> DEFINE At(i) == CHOOSE j \in DOMAIN pop : W!Rank(pop, j) = i
           rank == [j \in DOMAIN pop |-> W!Rank(pop, j)]
<1>1. DOMAIN pop = 1 .. Len(pop) /\ Len(pop) \in Nat
      /\ \A l \in DOMAIN pop : pop[l] \in Entries
  OBVIOUS
<1>2. \A l \in DOMAIN pop : pop[l].fitness \in Nat
  BY <1>1 DEF Entries
<1>3. \A j, k \in DOMAIN pop : W!Precedes(pop, j, k) \/ W!Precedes(pop, k, j)
  BY <1>1, <1>2 DEF W!Precedes
<1>4. \A j \in DOMAIN pop : W!Rank(pop, j) \in 1 .. Len(pop)
  BY SuiteRanks
<1>5. \A j, k \in DOMAIN pop : j # k => W!Rank(pop, j) # W!Rank(pop, k)
  BY <1>1, <1>3, <1>4, SuiteRanks
<1>6. \A i \in 1 .. Len(pop) : \E j \in DOMAIN pop : W!Rank(pop, j) = i
  <2>1. rank \in Injection(DOMAIN pop, 1 .. Len(pop))
    BY <1>4, <1>5 DEF Injection, IsInjective
  <2>2. IsFiniteSet(1 .. Len(pop)) /\ Cardinality(DOMAIN pop) = Cardinality(1 .. Len(pop))
    BY <1>1, Interval
  <2>3. rank \in Surjection(DOMAIN pop, 1 .. Len(pop))
    BY <2>1, <2>2, FS_Injection
  <2> QED BY <2>3 DEF Surjection
<1>7. \A i \in 1 .. Len(pop) : At(i) \in DOMAIN pop /\ W!Rank(pop, At(i)) = i
  BY <1>6
<1>8. s = [i \in 1 .. Len(pop) |-> pop[At(i)]]
  BY <1>1 DEF W!Sorted
<1>9. s \in Seq(Entries) /\ Len(s) = Len(pop) /\ DOMAIN s = 1 .. Len(pop)
  <2>1. s \in [1 .. Len(pop) -> Entries]
    BY <1>1, <1>7, <1>8
  <2> QED BY <2>1, <1>1
<1>10. \A i \in DOMAIN s : \E j \in DOMAIN pop : s[i] = pop[j]
  BY <1>7, <1>8, <1>9
<1>11. ASSUME NEW j \in DOMAIN pop PROVE \E i \in DOMAIN s : s[i] = pop[j]
  <2>1. W!Rank(pop, j) \in 1 .. Len(pop) /\ At(W!Rank(pop, j)) = j
    BY <1>4, <1>5, <1>7
  <2> QED BY <2>1, <1>8, <1>9
<1>12. ASSUME NEW i \in DOMAIN s, NEW j \in DOMAIN s, i <= j
       PROVE  s[i].fitness <= s[j].fitness
  <2>1. i \in 1 .. Len(pop) /\ j \in 1 .. Len(pop)
    BY <1>9
  <2>2. At(i) \in DOMAIN pop /\ At(j) \in DOMAIN pop
    BY <1>7, <2>1
  <2>3. W!Precedes(pop, At(i), At(j))
    <3>1. CASE i = j
      BY <1>2, <2>2, <3>1 DEF W!Precedes
    <3>2. CASE i # j
      <4>1. At(i) # At(j)
        BY <1>7, <2>1, <3>2
      <4>2. ASSUME W!Precedes(pop, At(j), At(i)) PROVE FALSE
        <5>1. W!Rank(pop, At(j)) < W!Rank(pop, At(i))
          BY <2>2, <4>1, <4>2, SuiteRanks
        <5> QED BY <1>7, <1>12, <2>1, <5>1
      <4> QED BY <1>3, <2>2, <4>2
    <3> QED BY <3>1, <3>2
  <2>4. s[i] = pop[At(i)] /\ s[j] = pop[At(j)]
    BY <1>8, <2>1
  <2> QED BY <1>2, <2>2, <2>3, <2>4 DEF W!Precedes
<1> QED BY <1>9, <1>10, <1>11, <1>12 DEF IsRanked
--------------------------------------------------------------------------------
(* The searches for suites.                                                        *)

(* The archive holds covering tests, and whatever one of them covers is covered.    *)
ArchiveIsRight ==
  /\ W!ArchiveType /\ objectives = Goals
  /\ \A g \in Goals : covered[g] # NoTest => W!IsCovered(covered[g], g)
  /\ W!CoveredBy(W!Solutions(covered), Goals) \subseteq W!CoveredGoals(covered)

(* What is reported, and which goals are no longer considered.                      *)
SolutionIsRight ==
  /\ wSolution \subseteq SuiteTests
  /\ algorithm \in W!WithArchive =>
       wSolution = W!Solutions(covered) /\ excluded \subseteq W!CoveredGoals(covered)
  /\ algorithm \notin W!WithArchive => excluded = {}
  /\ algorithm = "RANDOM" => wSolution = passing \cup failing
  /\ wPc = "complete" => W!SuiteFitness(wSolution, excluded) = 0

(* The cached fitness of every suite is what it would be computed to be.            *)
IsValued(pop, ex) ==
  pop \in Seq(Entries)
  /\ \A i \in DOMAIN pop : pop[i].fitness = W!SuiteFitness(pop[i].suite, ex)

PopulationIsRight ==
  /\ IsValued(population, excluded) /\ IsRanked(population)
  /\ IsValued(generation, excluded)
  /\ Len(population) <= PopulationSize + 1 /\ Len(generation) <= PopulationSize + 1
  /\ wPc = "new" => excluded = {}
  /\ W!IsWholeSuite /\ wPc # "new" => Len(population) >= PopulationSize
  /\ algorithm = "WHOLE_SUITE" /\ wPc # "new" => wSolution = population[1].suite
  /\ wPc # "breed" => generation = <<>>
  /\ wPc = "breed" => /\ W!IsWholeSuite
                      /\ Len(generation) >= 1 /\ generation[1] = population[1]

RandomIsRight ==
  /\ passing \subseteq SuiteTests /\ failing \subseteq SuiteTests
  /\ (passing \cup failing) \cap TimingOut = {} /\ passing \cap Raising = {}

SuitesAreRight == ArchiveIsRight /\ SolutionIsRight /\ PopulationIsRight /\ RandomIsRight

SuitesInv == component = "suites" => SuitesAreRight

(* What update does to one entry of the archive: it leaves it alone, and then no    *)
(* shown test improves on it, or it replaces it by a test that does.               *)
LEMMA SuitesUpdateEntry ==
  ASSUME NEW c \in [Goals -> SuiteTests \cup {NoTest}], NEW ts \in SUBSET SuiteTests,
         NEW d \in W!Updates(c, Goals, ts)
  PROVE  /\ d \in [Goals -> SuiteTests \cup {NoTest}]
         /\ \A g \in Goals : \/ d[g] = c[g] /\ W!Improving(c, g, ts) = {}
                             \/ d[g] \in W!Improving(c, g, ts)
<1> DEFINE better == {g \in Goals : W!Improving(c, g, ts) # {}}
<1>1. PICK p \in [better -> ts] :
        /\ \A g \in better : p[g] \in W!Shortest(W!Improving(c, g, ts))
        /\ d = [g \in Goals |-> IF g \in better THEN p[g] ELSE c[g]]
  BY DEF W!Updates
<1>2. d \in [Goals -> SuiteTests \cup {NoTest}]
  BY <1>1
<1>3. ASSUME NEW g \in Goals
      PROVE  \/ d[g] = c[g] /\ W!Improving(c, g, ts) = {}
             \/ d[g] \in W!Improving(c, g, ts)
  <2>1. CASE g \in better
    BY <1>1, <2>1 DEF W!Shortest
  <2>2. CASE g \notin better
    BY <1>1, <2>2
  <2> QED BY <2>1, <2>2
<1> QED BY <1>2, <1>3

LEMMA ArchiveStaysRight ==
  ASSUME ArchiveIsRight, NEW ts \in SUBSET SuiteTests, W!UpdateArchive(ts)
  PROVE  /\ ArchiveIsRight'
         /\ W!CoveredGoals(covered) \subseteq W!CoveredGoals(covered')
<1>1. /\ covered \in [Goals -> SuiteTests \cup {NoTest}] /\ covered' \in W!Updates(covered, Goals, ts)
      /\ uncovered' \subseteq Goals /\ objectives' = Goals
  BY DEF ArchiveIsRight, W!UpdateArchive, W!ArchiveType
<1>2. /\ covered' \in [Goals -> SuiteTests \cup {NoTest}]
      /\ \A g \in Goals : \/ covered'[g] = covered[g] /\ W!Improving(covered, g, ts) = {}
                          \/ covered'[g] \in W!Improving(covered, g, ts)
  BY <1>1, SuitesUpdateEntry
<1>3. \A g \in Goals : covered[g] # NoTest => covered'[g] # NoTest
  BY <1>2, SuiteConstants DEF W!Improving
<1>4. \A g \in Goals : covered'[g] # NoTest => W!IsCovered(covered'[g], g)
  BY <1>2 DEF ArchiveIsRight, W!Improving
<1>5. ASSUME NEW g \in W!CoveredBy(W!Solutions(covered'), Goals)
      PROVE  covered'[g] # NoTest
  <2>1. PICK h \in Goals : covered'[h] # NoTest /\ W!IsCovered(covered'[h], g)
    BY DEF W!CoveredBy, W!Solutions, W!CoveredGoals
  <2>2. g \in Goals
    BY DEF W!CoveredBy
  <2>3. CASE covered'[h] = covered[h]
    <3>1. g \in W!CoveredBy(W!Solutions(covered), Goals)
      BY <2>1, <2>2, <2>3 DEF W!CoveredBy, W!Solutions, W!CoveredGoals
    <3>2. covered[g] # NoTest
      BY <3>1 DEF ArchiveIsRight, W!CoveredGoals
    <3> QED BY <1>3, <2>2, <3>2
  <2>4. CASE covered'[h] \in W!Improving(covered, h, ts)
    <3>1. covered'[h] \in ts
      BY <2>4 DEF W!Improving
    <3>2. covered[g] = NoTest => covered'[h] \in W!Improving(covered, g, ts)
      BY <2>1, <3>1 DEF W!Improving
    <3>3. covered[g] = NoTest => covered'[g] \in W!Improving(covered, g, ts)
      BY <1>2, <2>2, <3>2
    <3> QED BY <1>3, <2>2, <3>3, SuiteConstants DEF W!Improving
  <2> QED BY <1>2, <2>3, <2>4
<1>6. ArchiveIsRight'
  BY <1>1, <1>2, <1>4, <1>5 DEF ArchiveIsRight, W!ArchiveType, W!CoveredGoals, W!CoveredBy
<1> QED BY <1>3, <1>6 DEF W!CoveredGoals

(* What the archive's tests cover is what it has tests for.                         *)
LEMMA SolutionsCover ==
  ASSUME ArchiveIsRight
  PROVE  /\ W!Solutions(covered) \subseteq SuiteTests
         /\ W!CoveredBy(W!Solutions(covered), Goals) = W!CoveredGoals(covered)
<1>1. W!Solutions(covered) \subseteq SuiteTests
  BY DEF ArchiveIsRight, W!ArchiveType, W!Solutions, W!CoveredGoals
<1>2. W!CoveredGoals(covered) \subseteq W!CoveredBy(W!Solutions(covered), Goals)
  BY DEF ArchiveIsRight, W!CoveredBy, W!Solutions, W!CoveredGoals
<1> QED BY <1>1, <1>2 DEF ArchiveIsRight

LEMMA EvaluatedIsEntry ==
  ASSUME NEW suite \in SUBSET SuiteTests, NEW ex
  PROVE  /\ W!Evaluated(suite, ex) \in Entries
         /\ W!Evaluated(suite, ex).suite = suite
         /\ W!Evaluated(suite, ex).fitness = W!SuiteFitness(suite, ex)
BY MissedIsFinite DEF W!Evaluated, Entries

LEMMA SortedIsValued ==
  ASSUME NEW pop, NEW ex, IsValued(pop, ex), Len(pop) >= 1
  PROVE  /\ IsValued(W!Sorted(pop), ex) /\ IsRanked(W!Sorted(pop))
         /\ Len(W!Sorted(pop)) = Len(pop)
         /\ W!Sorted(pop)[1].suite \subseteq SuiteTests
         /\ W!SuiteFitness(W!Sorted(pop)[1].suite, ex) <= W!SuiteFitness(pop[1].suite, ex)
<1> DEFINE s == W!Sorted(pop)
<1>1. pop \in Seq(Entries) /\ s = W!Sorted(pop)
  BY DEF IsValued
<1> HIDE DEF s
<1>2. /\ s \in Seq(Entries) /\ Len(s) = Len(pop) /\ IsRanked(s)
      /\ \A i \in DOMAIN s : \E j \in DOMAIN pop : s[i] = pop[j]
      /\ \A j \in DOMAIN pop : \E i \in DOMAIN s : s[i] = pop[j]
  BY <1>1, SuitesAreSorted
<1>3. \A i \in DOMAIN s : s[i].fitness = W!SuiteFitness(s[i].suite, ex)
  BY <1>2 DEF IsValued
<1>4. /\ 1 \in DOMAIN pop /\ 1 \in DOMAIN s /\ s[1] \in Entries
      /\ \A i \in DOMAIN s : 1 <= i
  BY <1>1, <1>2
<1>5. PICK i \in DOMAIN s : s[i] = pop[1]
  BY <1>2, <1>4
<1>6. s[1].fitness <= s[i].fitness
  BY <1>2, <1>4 DEF IsRanked
<1>7. W!SuiteFitness(s[1].suite, ex) <= W!SuiteFitness(pop[1].suite, ex)
  BY <1>3, <1>4, <1>5, <1>6
<1>8. s[1].suite \subseteq SuiteTests
  BY <1>4 DEF Entries
<1> QED BY <1>1, <1>2, <1>3, <1>7, <1>8 DEF IsValued

LEMMA RecomputedIsValued ==
  ASSUME NEW pop \in Seq(Entries), NEW ex
  PROVE  IsValued(W!Recomputed(pop, ex), ex) /\ Len(W!Recomputed(pop, ex)) = Len(pop)
<1> DEFINE r == W!Recomputed(pop, ex)
<1>1. r = [i \in 1 .. Len(pop) |-> W!Evaluated(pop[i].suite, ex)]
  BY DEF W!Recomputed
<1>2. ASSUME NEW i \in 1 .. Len(pop) PROVE pop[i].suite \in SUBSET SuiteTests
  <2>1. pop[i] \in Entries
    OBVIOUS
  <2> QED BY <2>1 DEF Entries
<1> HIDE DEF r
<1>3. ASSUME NEW i \in 1 .. Len(pop)
      PROVE  r[i] \in Entries /\ r[i].fitness = W!SuiteFitness(r[i].suite, ex)
  <2>1. r[i] = W!Evaluated(pop[i].suite, ex)
    BY <1>1
  <2> QED BY <1>2, <2>1, EvaluatedIsEntry
<1>4. r \in [1 .. Len(pop) -> Entries]
  BY <1>1, <1>3
<1>5. r \in Seq(Entries) /\ Len(r) = Len(pop) /\ DOMAIN r = 1 .. Len(pop)
  BY <1>4
<1> QED BY <1>3, <1>5 DEF IsValued, r

(* A new population takes the place of the old one.                                 *)
LEMMA ReplaceIsRight ==
  ASSUME ArchiveIsRight, W!IsWholeSuite,
         algorithm \in W!WithArchive => excluded \subseteq W!CoveredGoals(covered),
         NEW pop, IsValued(pop, excluded), Len(pop) >= 1, W!Replace(pop)
  PROVE  /\ ArchiveIsRight'
         /\ IsValued(population', excluded') /\ IsRanked(population')
         /\ Len(population') = Len(pop)
         /\ wSolution' \subseteq SuiteTests
         /\ algorithm \in W!WithArchive =>
              wSolution' = W!Solutions(covered') /\ excluded' \subseteq W!CoveredGoals(covered')
         /\ algorithm = "WHOLE_SUITE" =>
              /\ excluded' = excluded /\ wSolution' = population'[1].suite
              /\ W!SuiteFitness(wSolution', excluded) <= W!SuiteFitness(pop[1].suite, excluded)
<1>1. CASE algorithm = "WHOLE_SUITE_ARCHIVE"
  <2> DEFINE ts == UNION {pop[i].suite : i \in DOMAIN pop}
  <2>1. ts \in SUBSET SuiteTests
    <3>1. \A i \in DOMAIN pop : pop[i] \in Entries
      BY DEF IsValued
    <3> QED BY <3>1 DEF Entries
  <2>2. /\ W!UpdateArchive(ts) /\ wSolution' = W!Solutions(covered')
        /\ IF uncovered' = uncovered
           THEN excluded' = excluded /\ population' = W!Sorted(pop)
           ELSE /\ excluded' = excluded \cup W!CoveredGoals(covered')
                /\ population' = W!Sorted(W!Recomputed(pop, excluded'))
    BY <1>1 DEF W!Replace
  <2> HIDE DEF ts
  <2>3. ArchiveIsRight' /\ W!CoveredGoals(covered) \subseteq W!CoveredGoals(covered')
    BY <2>1, <2>2, ArchiveStaysRight
  <2>4. wSolution' \subseteq SuiteTests
    BY <2>2, <2>3 DEF ArchiveIsRight, W!ArchiveType, W!Solutions, W!CoveredGoals
  <2>5. excluded' \subseteq W!CoveredGoals(covered')
    BY <1>1, <2>2, <2>3 DEF W!WithArchive
  <2>6. /\ IsValued(population', excluded') /\ IsRanked(population')
        /\ Len(population') = Len(pop)
    <3>1. CASE uncovered' = uncovered
      BY <2>2, <3>1, SortedIsValued
    <3>2. CASE uncovered' # uncovered
      <4> DEFINE new == W!Recomputed(pop, excluded')
      <4>1. IsValued(new, excluded') /\ Len(new) = Len(pop)
        BY RecomputedIsValued DEF IsValued
      <4>2. population' = W!Sorted(new)
        BY <2>2, <3>2
      <4> HIDE DEF new
      <4> QED BY <4>1, <4>2, SortedIsValued
    <3> QED BY <3>1, <3>2
  <2> QED BY <1>1, <2>2, <2>3, <2>4, <2>5, <2>6
<1>2. CASE algorithm = "WHOLE_SUITE"
  <2>1. /\ population' = W!Sorted(pop) /\ wSolution' = population'[1].suite
        /\ UNCHANGED <<covered, uncovered, objectives, excluded>>
    BY <1>2 DEF W!Replace, W!archiveVars
  <2>2. ArchiveIsRight'
    BY <2>1 DEF ArchiveIsRight, W!ArchiveType, W!CoveredBy, W!Solutions, W!CoveredGoals
  <2>3. algorithm \notin W!WithArchive
    BY <1>2 DEF W!WithArchive
  <2> QED BY <1>2, <2>1, <2>2, <2>3, SortedIsValued
<1> QED BY <1>1, <1>2 DEF W!IsWholeSuite

(* Sequences of valued suites.                                                     *)
LEMMA ValuedPairs ==
  ASSUME NEW ex, NEW pop, IsValued(pop, ex),
         NEW a \in Entries, a.fitness = W!SuiteFitness(a.suite, ex),
         NEW b \in Entries, b.fitness = W!SuiteFitness(b.suite, ex)
  PROVE  /\ IsValued(pop \o <<a, b>>, ex) /\ Len(pop \o <<a, b>>) = Len(pop) + 2
         /\ Len(pop) >= 1 => (pop \o <<a, b>>)[1] = pop[1]
<1> DEFINE q == pop \o <<a, b>>
<1>1. pop \in Seq(Entries) /\ <<a, b>> \in Seq(Entries) /\ Len(pop) \in Nat
      /\ Len(<<a, b>>) = 2
  BY DEF IsValued
<1>2. /\ q \in Seq(Entries) /\ Len(q) = Len(pop) + 2
      /\ \A i \in 1 .. Len(pop) : q[i] = pop[i]
      /\ q[Len(pop) + 1] = a /\ q[Len(pop) + 2] = b
  BY <1>1
<1> HIDE DEF q
<1>3. ASSUME NEW i \in DOMAIN q PROVE q[i].fitness = W!SuiteFitness(q[i].suite, ex)
  <2>1. i \in 1 .. Len(pop) \/ i = Len(pop) + 1 \/ i = Len(pop) + 2
    BY <1>1, <1>2
  <2>2. CASE i \in 1 .. Len(pop)
    <3>1. q[i] = pop[i] /\ i \in DOMAIN pop
      BY <1>1, <1>2, <2>2
    <3> QED BY <3>1 DEF IsValued
  <2> QED BY <1>2, <2>1, <2>2
<1>4. Len(pop) >= 1 => q[1] = pop[1]
  BY <1>1, <1>2
<1> QED BY <1>2, <1>3, <1>4 DEF IsValued, q

(* Evolve copies the best suites.                                                  *)
LEMMA EliteIsValued ==
  ASSUME NEW ex, IsValued(population, ex), Len(population) >= PopulationSize
  PROVE  /\ IsValued(W!Elitism, ex) /\ Len(W!Elitism) = Elite
         /\ W!Elitism[1] = population[1]
<1> DEFINE q == W!Elitism
<1>1. population \in Seq(Entries) /\ q = SubSeq(population, 1, Elite)
  BY DEF IsValued, W!Elitism
<1>2. Elite \in Nat /\ 0 < Elite /\ Elite <= Len(population)
  BY <1>1, SuiteConstants
<1> HIDE DEF q
<1>3. q \in Seq(Entries) /\ Len(q) = Elite /\ \A i \in 1 .. Elite : q[i] = population[i]
  BY <1>1, <1>2
<1>4. ASSUME NEW i \in DOMAIN q PROVE q[i].fitness = W!SuiteFitness(q[i].suite, ex)
  BY <1>1, <1>2, <1>3 DEF IsValued
<1> QED BY <1>2, <1>3, <1>4 DEF IsValued, q

(* A step of a search keeps all this, and its report does not fall back.            *)
StepIsRight == SuitesAreRight' /\ W!NeverFallsBack

LEMMA StartWholeSuiteIsRight == SuitesAreRight /\ W!StartWholeSuite => StepIsRight
<1> SUFFICES ASSUME SuitesAreRight, W!StartWholeSuite PROVE StepIsRight
  OBVIOUS
<1> USE DEF SuitesAreRight
<1>1. PICK suites \in [1 .. PopulationSize -> Suites] :
        W!Replace([i \in 1 .. PopulationSize |-> W!Evaluated(suites[i], {})])
  BY DEF W!StartWholeSuite
<1> DEFINE pop == [i \in 1 .. PopulationSize |-> W!Evaluated(suites[i], {})]
<1>2. /\ wPc = "new" /\ wPc' = "search" /\ W!IsWholeSuite /\ excluded = {}
      /\ UNCHANGED <<algorithm, generation, passing, failing>> /\ generation = <<>>
  BY DEF W!StartWholeSuite, PopulationIsRight
<1>3. IsValued(pop, excluded) /\ Len(pop) = PopulationSize
  <2>1. ASSUME NEW i \in 1 .. PopulationSize
        PROVE  pop[i] \in Entries /\ pop[i].fitness = W!SuiteFitness(pop[i].suite, {})
    <3>1. suites[i] \in SUBSET SuiteTests /\ pop[i] = W!Evaluated(suites[i], {})
      BY SuiteConstants
    <3> HIDE DEF pop
    <3> QED BY <3>1, EvaluatedIsEntry
  <2>2. pop \in [1 .. PopulationSize -> Entries]
    BY <2>1
  <2>3. DOMAIN pop = 1 .. PopulationSize
    OBVIOUS
  <2> HIDE DEF pop
  <2>4. pop \in Seq(Entries) /\ Len(pop) = PopulationSize
    BY <2>2, <2>3, SuiteConstants
  <2> QED BY <1>2, <2>1, <2>3, <2>4 DEF IsValued
<1>4. W!Replace(pop)
  BY <1>1
<1> HIDE DEF pop
<1>5. /\ ArchiveIsRight'
      /\ IsValued(population', excluded') /\ IsRanked(population')
      /\ Len(population') = PopulationSize
      /\ wSolution' \subseteq SuiteTests
      /\ algorithm \in W!WithArchive =>
           wSolution' = W!Solutions(covered') /\ excluded' \subseteq W!CoveredGoals(covered')
      /\ algorithm = "WHOLE_SUITE" => excluded' = excluded /\ wSolution' = population'[1].suite
  BY <1>2, <1>3, <1>4, ReplaceIsRight, SuiteConstants DEF SolutionIsRight
<1>6. algorithm \notin W!WithArchive => algorithm = "WHOLE_SUITE"
  BY <1>2 DEF W!IsWholeSuite, W!WithArchive
<1>7. SolutionIsRight'
  BY <1>2, <1>5, <1>6 DEF SolutionIsRight, W!WithArchive, W!IsWholeSuite
<1>8. IsValued(generation', excluded') /\ Len(generation') = 0
  BY <1>2 DEF IsValued
<1>9. PopulationIsRight'
  BY <1>2, <1>5, <1>8, SuiteConstants DEF PopulationIsRight, W!IsWholeSuite
<1>10. RandomIsRight'
  BY <1>2 DEF RandomIsRight
<1> QED BY <1>2, <1>5, <1>7, <1>9, <1>10 DEF StepIsRight, W!NeverFallsBack

LEMMA EvolveIsRight == SuitesAreRight /\ W!Evolve => StepIsRight
<1> SUFFICES ASSUME SuitesAreRight, W!Evolve PROVE StepIsRight
  OBVIOUS
<1> USE DEF SuitesAreRight
<1>1. /\ wPc = "search" /\ wPc' = "breed" /\ W!IsWholeSuite /\ generation' = W!Elitism
      /\ UNCHANGED <<covered, uncovered, objectives, algorithm, wSolution, excluded,
                     population, passing, failing>>
  BY DEF W!Evolve, W!GoesOn, W!archiveVars
<1>2. /\ IsValued(W!Elitism, excluded) /\ Len(W!Elitism) = Elite
      /\ W!Elitism[1] = population[1]
  BY <1>1, EliteIsValued DEF PopulationIsRight
<1>3. ArchiveIsRight'
  BY <1>1 DEF ArchiveIsRight, W!ArchiveType, W!CoveredBy, W!Solutions, W!CoveredGoals
<1>4. SolutionIsRight'
  BY <1>1 DEF SolutionIsRight
<1>5. PopulationIsRight'
  BY <1>1, <1>2, SuiteConstants DEF PopulationIsRight, W!IsWholeSuite
<1>6. RandomIsRight'
  BY <1>1 DEF RandomIsRight
<1>7. W!NeverFallsBack
  BY <1>1, MissedIsFinite DEF W!NeverFallsBack, W!CoveredBySolution
<1> QED BY <1>3, <1>4, <1>5, <1>6, <1>7 DEF StepIsRight

LEMMA BreedIsRight == SuitesAreRight /\ W!Breed => StepIsRight
<1> SUFFICES ASSUME SuitesAreRight, W!Breed PROVE StepIsRight
  OBVIOUS
<1> USE DEF SuitesAreRight
<1>1. /\ wPc = "breed" /\ wPc' = wPc /\ Len(generation) < PopulationSize
      /\ UNCHANGED <<covered, uncovered, objectives, algorithm, wSolution, excluded,
                     population, passing, failing>>
  BY DEF W!Breed, W!archiveVars
<1>2. PICK a \in Entries, b \in Entries :
        /\ generation' = generation \o <<a, b>>
        /\ a.fitness = W!SuiteFitness(a.suite, excluded)
        /\ b.fitness = W!SuiteFitness(b.suite, excluded)
  <2>1. PICK i \in DOMAIN population, j \in DOMAIN population, s \in Suites, t \in Suites :
          LET parents == <<population[i], population[j]>>
              offspring == <<W!Evaluated(s, excluded), W!Evaluated(t, excluded)>>
          IN IF W!Preferred(offspring, parents)
             THEN \E a \in W!Kept(offspring[1], parents), b \in W!Kept(offspring[2], parents) :
                    generation' = generation \o <<a, b>>
             ELSE generation' = generation \o parents
    BY DEF W!Breed
  <2> DEFINE parents == <<population[i], population[j]>>
             x == W!Evaluated(s, excluded)
             y == W!Evaluated(t, excluded)
             Fine(e) == e \in Entries /\ e.fitness = W!SuiteFitness(e.suite, excluded)
  <2>2. Fine(parents[1]) /\ Fine(parents[2])
    BY DEF PopulationIsRight, IsValued
  <2>3. Fine(x) /\ Fine(y)
    BY SuiteConstants, EvaluatedIsEntry
  <2>4. \/ \E a \in W!Kept(x, parents), b \in W!Kept(y, parents) :
             generation' = generation \o <<a, b>>
        \/ generation' = generation \o <<parents[1], parents[2]>>
    BY <2>1
  <2>5. W!Kept(x, parents) \subseteq {x, parents[1], parents[2]}
        /\ W!Kept(y, parents) \subseteq {y, parents[1], parents[2]}
    BY DEF W!Kept
  <2> HIDE DEF x, y, parents
  <2>6. \/ \E a \in W!Kept(x, parents), b \in W!Kept(y, parents) :
             Fine(a) /\ Fine(b) /\ generation' = generation \o <<a, b>>
        \/ /\ Fine(parents[1]) /\ Fine(parents[2])
           /\ generation' = generation \o <<parents[1], parents[2]>>
    <3> HIDE DEF Fine
    <3> QED BY <2>2, <2>3, <2>4, <2>5
  <2> QED BY <2>6
<1>3. /\ IsValued(generation', excluded) /\ Len(generation') = Len(generation) + 2
      /\ generation'[1] = generation[1]
  BY <1>1, <1>2, ValuedPairs DEF PopulationIsRight
<1>4. ArchiveIsRight'
  BY <1>1 DEF ArchiveIsRight, W!ArchiveType, W!CoveredBy, W!Solutions, W!CoveredGoals
<1>5. SolutionIsRight'
  BY <1>1 DEF SolutionIsRight
<1>6. Len(generation) \in Nat
  BY DEF PopulationIsRight, IsValued
<1>7. Len(generation') <= PopulationSize + 1 /\ Len(generation') >= 1
  BY <1>1, <1>3, <1>6, SuiteConstants
<1>8. PopulationIsRight'
  BY <1>1, <1>3, <1>7 DEF PopulationIsRight, W!IsWholeSuite
<1>9. RandomIsRight'
  BY <1>1 DEF RandomIsRight
<1>10. W!NeverFallsBack
  BY <1>1, MissedIsFinite DEF W!NeverFallsBack, W!CoveredBySolution
<1> QED BY <1>4, <1>5, <1>8, <1>9, <1>10 DEF StepIsRight

LEMMA NextGenerationIsRight == SuitesAreRight /\ W!NextGeneration => StepIsRight
<1> SUFFICES ASSUME SuitesAreRight, W!NextGeneration PROVE StepIsRight
  OBVIOUS
<1> USE DEF SuitesAreRight
<1>1. /\ wPc = "breed" /\ wPc' = "search" /\ W!IsWholeSuite /\ W!Replace(generation)
      /\ Len(generation) >= PopulationSize /\ Len(generation) >= 1
      /\ IsValued(generation, excluded) /\ generation[1] = population[1]
      /\ generation' = <<>> /\ UNCHANGED <<algorithm, passing, failing>>
      /\ Len(generation) <= PopulationSize + 1
  BY DEF W!NextGeneration, PopulationIsRight
<1>2. /\ ArchiveIsRight'
      /\ IsValued(population', excluded') /\ IsRanked(population')
      /\ Len(population') = Len(generation)
      /\ wSolution' \subseteq SuiteTests
      /\ algorithm \in W!WithArchive =>
           wSolution' = W!Solutions(covered') /\ excluded' \subseteq W!CoveredGoals(covered')
      /\ algorithm = "WHOLE_SUITE" =>
           /\ excluded' = excluded /\ wSolution' = population'[1].suite
           /\ W!SuiteFitness(wSolution', excluded) <= W!SuiteFitness(generation[1].suite, excluded)
  BY <1>1, ReplaceIsRight DEF SolutionIsRight
<1>3. algorithm \notin W!WithArchive => algorithm = "WHOLE_SUITE"
  BY <1>1 DEF W!IsWholeSuite, W!WithArchive
<1>4. SolutionIsRight'
  BY <1>1, <1>2, <1>3 DEF SolutionIsRight, W!IsWholeSuite, W!WithArchive
<1>5. IsValued(generation', excluded') /\ Len(generation') = 0
  BY <1>1 DEF IsValued
<1>6. PopulationIsRight'
  BY <1>1, <1>2, <1>5, SuiteConstants DEF PopulationIsRight, W!IsWholeSuite
<1>7. RandomIsRight'
  BY <1>1 DEF RandomIsRight
<1>8. W!NeverFallsBack
  <2>1. CASE algorithm \in W!WithArchive
    <3>1. W!CoveredGoals(covered) \subseteq W!CoveredGoals(covered')
      <4>1. algorithm = "WHOLE_SUITE_ARCHIVE"
        BY <1>1, <2>1 DEF W!IsWholeSuite, W!WithArchive
      <4>2. W!UpdateArchive(UNION {generation[i].suite : i \in DOMAIN generation})
        BY <1>1, <4>1 DEF W!Replace
      <4>3. UNION {generation[i].suite : i \in DOMAIN generation} \in SUBSET SuiteTests
        <5>1. \A i \in DOMAIN generation : generation[i] \in Entries
          BY <1>1 DEF IsValued
        <5> QED BY <5>1 DEF Entries
      <4> QED BY <4>2, <4>3, ArchiveStaysRight
    <3>2. W!CoveredBySolution = W!CoveredGoals(covered)
      BY <2>1, SolutionsCover DEF SolutionIsRight, W!CoveredBySolution
    <3>3. W!CoveredBy(wSolution', Goals) = W!CoveredGoals(covered')
      <4>1. W!CoveredBy(W!Solutions(covered'), Goals) \subseteq W!CoveredGoals(covered')
        BY <1>2 DEF ArchiveIsRight, W!CoveredBy, W!Solutions, W!CoveredGoals
      <4>2. W!CoveredGoals(covered') \subseteq W!CoveredBy(W!Solutions(covered'), Goals)
        BY <1>2 DEF ArchiveIsRight, W!CoveredBy, W!Solutions, W!CoveredGoals
      <4> QED BY <1>2, <2>1, <4>1, <4>2
    <3> QED BY <2>1, <3>1, <3>2, <3>3 DEF W!NeverFallsBack
  <2>2. CASE algorithm \notin W!WithArchive
    <3>1. algorithm = "WHOLE_SUITE" /\ excluded = {} /\ wSolution = generation[1].suite
      BY <1>1, <1>3, <2>2 DEF SolutionIsRight, PopulationIsRight
    <3>2. W!SuiteFitness(wSolution', {}) <= W!SuiteFitness(wSolution, {})
      BY <1>2, <3>1
    <3> QED BY <2>2, <3>2 DEF W!NeverFallsBack
  <2> QED BY <2>1, <2>2
<1> QED BY <1>2, <1>4, <1>6, <1>7, <1>8 DEF StepIsRight

(* The random searches.                                                            *)
LEMMA RandomIsRightStep ==
  SuitesAreRight /\ (W!StartRandom \/ W!GenerateSequence) => StepIsRight
<1> SUFFICES ASSUME SuitesAreRight, W!StartRandom \/ W!GenerateSequence PROVE StepIsRight
  OBVIOUS
<1> USE DEF SuitesAreRight
<1>1. /\ algorithm = "RANDOM" /\ algorithm \notin W!WithArchive /\ ~W!IsWholeSuite
      /\ wPc \in {"new", "search"} /\ wPc' = "search" /\ excluded = {}
      /\ UNCHANGED <<covered, uncovered, objectives, algorithm, excluded, population, generation>>
      /\ wSolution = passing \cup failing
  BY DEF W!StartRandom, W!GenerateSequence, W!GoesOn, W!archiveVars, W!WithArchive,
         W!IsWholeSuite, SolutionIsRight
<1>2. RandomIsRight' /\ wSolution' = passing' \cup failing' /\ wSolution \subseteq wSolution'
  <2>1. CASE W!StartRandom
    BY <1>1, <2>1 DEF W!StartRandom, RandomIsRight
  <2>2. CASE W!GenerateSequence
    <3>1. PICK t \in SuiteTests \ (passing \cup failing \cup TimingOut) :
            IF t \in Raising
            THEN failing' = failing \cup {t} /\ UNCHANGED passing
            ELSE passing' = passing \cup {t} /\ UNCHANGED failing
      BY <2>2 DEF W!GenerateSequence
    <3>2. wSolution' = passing' \cup failing'
      BY <2>2 DEF W!GenerateSequence
    <3>3. RandomIsRight'
      BY <3>1 DEF RandomIsRight
    <3>4. wSolution \subseteq wSolution'
      BY <1>1, <3>1, <3>2
    <3> QED BY <3>2, <3>3, <3>4
  <2> QED BY <2>1, <2>2
<1>3. wSolution' \in SUBSET SuiteTests /\ wSolution \in SUBSET SuiteTests
  BY <1>1, <1>2 DEF RandomIsRight
<1>4. ArchiveIsRight'
  BY <1>1 DEF ArchiveIsRight, W!ArchiveType, W!CoveredBy, W!Solutions, W!CoveredGoals
<1>5. SolutionIsRight'
  BY <1>1, <1>2, <1>3 DEF SolutionIsRight
<1>6. PopulationIsRight'
  BY <1>1 DEF PopulationIsRight, W!IsWholeSuite
<1>7. W!NeverFallsBack
  BY <1>1, <1>2, <1>3, MoreTestsAreNoWorse DEF W!NeverFallsBack
<1> QED BY <1>2, <1>4, <1>5, <1>6, <1>7 DEF StepIsRight

LEMMA TestSuiteSearchIsRight ==
  SuitesAreRight /\ (W!StartTestSuiteSearch \/ W!SearchTestSuite) => StepIsRight
<1> SUFFICES ASSUME SuitesAreRight, W!StartTestSuiteSearch \/ W!SearchTestSuite
             PROVE  StepIsRight
  OBVIOUS
<1> USE DEF SuitesAreRight
<1>1. /\ algorithm = "RANDOM_TEST_SUITE_SEARCH" /\ algorithm \notin W!WithArchive
      /\ ~W!IsWholeSuite /\ wPc \in {"new", "search"} /\ wPc' = "search" /\ excluded = {}
      /\ UNCHANGED <<covered, uncovered, objectives, algorithm, excluded, population, generation,
                     passing, failing>>
      /\ wSolution' \in Suites
  BY DEF W!StartTestSuiteSearch, W!SearchTestSuite, W!GoesOn, W!archiveVars, W!WithArchive,
         W!IsWholeSuite, SolutionIsRight
<1>2. wPc = "search" => W!SuiteFitness(wSolution', {}) < W!SuiteFitness(wSolution, {})
  <2>1. wPc = "search" => W!SearchTestSuite
    BY DEF W!StartTestSuiteSearch
  <2> QED BY <1>1, <2>1 DEF W!SearchTestSuite
<1>3. wSolution' \subseteq SuiteTests
  BY <1>1, SuiteConstants
<1>4. ArchiveIsRight'
  BY <1>1 DEF ArchiveIsRight, W!ArchiveType, W!CoveredBy, W!Solutions, W!CoveredGoals
<1>5. SolutionIsRight'
  BY <1>1, <1>3 DEF SolutionIsRight
<1>6. PopulationIsRight'
  BY <1>1 DEF PopulationIsRight, W!IsWholeSuite
<1>7. RandomIsRight'
  BY <1>1 DEF RandomIsRight
<1>8. W!NeverFallsBack
  BY <1>1, <1>2, MissedIsFinite DEF W!NeverFallsBack
<1> QED BY <1>4, <1>5, <1>6, <1>7, <1>8 DEF StepIsRight

LEMMA TestCaseSearchIsRight == SuitesAreRight /\ W!SearchTestCase => StepIsRight
<1> SUFFICES ASSUME SuitesAreRight, W!SearchTestCase PROVE StepIsRight
  OBVIOUS
<1> USE DEF SuitesAreRight
<1>1. /\ algorithm = "RANDOM_TEST_CASE_SEARCH" /\ algorithm \in W!WithArchive
      /\ ~W!IsWholeSuite /\ wPc \in {"new", "search"} /\ wPc' = "search"
      /\ UNCHANGED <<algorithm, excluded, population, generation, passing, failing>>
      /\ wSolution' = W!Solutions(covered')
  BY DEF W!SearchTestCase, W!GoesOn, W!WithArchive, W!IsWholeSuite
<1>2. PICK t \in SuiteTests : W!UpdateArchive({t})
  BY DEF W!SearchTestCase
<1>3. ArchiveIsRight' /\ W!CoveredGoals(covered) \subseteq W!CoveredGoals(covered')
  BY <1>2, ArchiveStaysRight
<1>4. wSolution' \subseteq SuiteTests
  BY <1>1, <1>3 DEF ArchiveIsRight, W!ArchiveType, W!Solutions, W!CoveredGoals
<1>5. wSolution = W!Solutions(covered) /\ excluded \subseteq W!CoveredGoals(covered)
  BY <1>1 DEF SolutionIsRight
<1>6. SolutionIsRight'
  BY <1>1, <1>3, <1>4, <1>5 DEF SolutionIsRight
<1>7. PopulationIsRight'
  BY <1>1 DEF PopulationIsRight, W!IsWholeSuite
<1>8. RandomIsRight'
  BY <1>1 DEF RandomIsRight
<1>9. W!NeverFallsBack
  <2>1. W!CoveredBySolution = W!CoveredGoals(covered)
    BY <1>5, SolutionsCover DEF W!CoveredBySolution
  <2>2. W!CoveredGoals(covered') \subseteq W!CoveredBy(wSolution', Goals)
    BY <1>1, <1>3 DEF ArchiveIsRight, W!CoveredBy, W!Solutions, W!CoveredGoals
  <2> QED BY <1>1, <1>3, <2>1, <2>2 DEF W!NeverFallsBack
<1> QED BY <1>3, <1>6, <1>7, <1>8, <1>9 DEF StepIsRight

(* Nothing changes but where the search is.                                         *)
LEMMA EndIsRight ==
  SuitesAreRight /\ (W!Complete \/ W!OutOfResources \/ UNCHANGED wVars) => StepIsRight
<1> SUFFICES ASSUME SuitesAreRight, W!Complete \/ W!OutOfResources \/ UNCHANGED wVars
             PROVE  StepIsRight
  OBVIOUS
<1> USE DEF SuitesAreRight
<1>1. /\ UNCHANGED <<covered, uncovered, objectives, algorithm, wSolution, excluded,
                     population, generation, passing, failing>>
      /\ wPc' = wPc \/ (wPc = "search" /\ wPc' \in {"complete", "stopped"})
      /\ wPc' = "complete" => W!SuiteFitness(wSolution, excluded) = 0
  BY DEF W!Complete, W!OutOfResources, W!archiveVars, wVars, SolutionIsRight
<1>2. ArchiveIsRight'
  BY <1>1 DEF ArchiveIsRight, W!ArchiveType, W!CoveredBy, W!Solutions, W!CoveredGoals
<1>3. SolutionIsRight'
  BY <1>1 DEF SolutionIsRight
<1>4. PopulationIsRight'
  BY <1>1 DEF PopulationIsRight, W!IsWholeSuite
<1>5. RandomIsRight'
  BY <1>1 DEF RandomIsRight
<1>6. W!NeverFallsBack
  BY <1>1, MissedIsFinite DEF W!NeverFallsBack, W!CoveredBySolution
<1> QED BY <1>2, <1>3, <1>4, <1>5, <1>6 DEF StepIsRight

LEMMA SuitesNextIsRight == SuitesAreRight /\ (W!Next \/ UNCHANGED wVars) => StepIsRight
<1>1. SuitesAreRight /\ W!Finished => StepIsRight
  BY EndIsRight DEF W!Finished, W!vars, W!archiveVars, wVars
<1> QED
  BY <1>1, StartWholeSuiteIsRight, EvolveIsRight, BreedIsRight, NextGenerationIsRight,
     RandomIsRightStep, TestSuiteSearchIsRight, TestCaseSearchIsRight, EndIsRight DEF W!Next

LEMMA SuitesBeginRight == W!Init => SuitesAreRight
<1> SUFFICES ASSUME W!Init PROVE SuitesAreRight
  OBVIOUS
<1>1. covered = [g \in Goals |-> NoTest] /\ uncovered = Goals /\ objectives = Goals
  BY DEF W!Init
<1>2. W!CoveredGoals(covered) = {} /\ W!Solutions(covered) = {}
  BY <1>1 DEF W!CoveredGoals, W!Solutions
<1>3. ArchiveIsRight
  BY <1>1, <1>2 DEF ArchiveIsRight, W!ArchiveType, W!CoveredBy
<1>4. SolutionIsRight
  BY <1>2 DEF W!Init, SolutionIsRight
<1>5. PopulationIsRight
  BY SuiteConstants DEF W!Init, PopulationIsRight, IsValued, IsRanked
<1>6. RandomIsRight
  BY DEF W!Init, RandomIsRight
<1> QED BY <1>3, <1>4, <1>5, <1>6 DEF SuitesAreRight

LEMMA SuitesFollow == SuitesAreRight => W!SuitesAreSound
<1> SUFFICES ASSUME SuitesAreRight PROVE W!SuitesAreSound
  OBVIOUS
<1> USE DEF SuitesAreRight
<1>1. \A i, j \in DOMAIN population : i <= j =>
        W!SuiteFitness(population[i].suite, excluded)
          <= W!SuiteFitness(population[j].suite, excluded)
  BY DEF PopulationIsRight, IsValued, IsRanked
<1>2. excluded \subseteq W!CoveredBySolution
  BY SolutionsCover DEF SolutionIsRight, W!CoveredBySolution
<1>3. wPc = "complete" => W!CoveredBySolution = Goals
  <2> SUFFICES ASSUME wPc = "complete", NEW g \in Goals PROVE g \in W!CoveredBySolution
    BY DEF W!CoveredBySolution, W!CoveredBy
  <2>1. CASE g \in excluded
    BY <1>2, <2>1
  <2>2. CASE g \notin excluded
    BY <2>2, ZeroCoversAll DEF SolutionIsRight, W!CoveredBySolution
  <2> QED BY <2>1, <2>2
<1> QED
  BY <1>1, <1>2, <1>3 DEF W!SuitesAreSound, ArchiveIsRight, PopulationIsRight, RandomIsRight

LEMMA SuitesInvHolds ==
  /\ MCInit => SuitesInv
  /\ SuitesInv /\ [MCNext]_allVars => SuitesInv'
<1>1. MCInit => SuitesInv
  BY SuitesBeginRight DEF MCInit, SuitesInv
<1>2. ASSUME SuitesInv, [MCNext]_allVars PROVE SuitesInv'
  <2>1. CASE component # "suites"
    BY <1>2, <2>1 DEF MCNext, MIOStep, Budget, SuitesStep, allVars, SuitesInv
  <2>2. CASE component = "suites"
    <3>1. W!Next \/ UNCHANGED wVars
      BY <1>2, <2>2 DEF MCNext, MIOStep, Budget, SuitesStep, allVars
    <3> QED BY <1>2, <2>2, <3>1, SuitesNextIsRight DEF SuitesInv, StepIsRight
  <2> QED BY <2>1, <2>2
<1> QED BY <1>1, <1>2

(* Whatever crossover, mutation and the factories give, populations are ranked by what *)
(* their suites are worth now and complete results cover every goal                  *)
(* (wholesuitealgorithm.py, randomalgorithm.py).                                   *)
THEOREM SuitesAreAlwaysSound == MCSpec => []SuitesAreSound
<1>1. SuitesInv => SuitesAreSound
  BY SuitesFollow DEF SuitesInv, SuitesAreSound
<1> QED BY <1>1, SuitesInvHolds, PTL DEF MCSpec, MCNext

(* Nothing that a search has found is lost again: MIO's best test for a target, the   *)
(* goals that a reported suite covers with an archive, and its fitness without one.  *)
THEOREM ResultsAreNeverLost == MCSpec => ResultsNeverFallBack
<1>1. MCInit => Inv
  BY InitInv DEF MCInit
<1>2. [MCNext]_allVars => [Next]_vars
  BY DEF MCNext, MIOStep, Budget, SuitesStep, allVars
<1>3. Inv /\ [MCNext]_allVars => Inv'
  BY <1>2, NextIsSafe
<1>4. Inv /\ [MCNext]_allVars =>
        [\A g \in Targets :
          archive[g].solutions # <<>> =>
            /\ archive'[g].solutions # <<>>
            /\ H[archive'[g].solutions[1]][g] >= H[archive[g].solutions[1]][g]]_vars
  BY <1>2, NextIsSafe DEF Keeps
<1>5. SuitesInv /\ [MCNext]_allVars => [W!NeverFallsBack]_(W!vars)
  <2> SUFFICES ASSUME SuitesInv, [MCNext]_allVars PROVE W!NeverFallsBack \/ UNCHANGED wVars
    BY DEF wVars, W!vars, W!archiveVars
  <2>1. CASE component # "suites"
    BY <2>1 DEF MCNext, MIOStep, Budget, SuitesStep, allVars
  <2>2. CASE component = "suites"
    <3>1. W!Next \/ UNCHANGED wVars
      BY <2>2 DEF MCNext, MIOStep, Budget, SuitesStep, allVars
    <3> QED BY <2>2, <3>1, SuitesNextIsRight DEF SuitesInv, StepIsRight
  <2> QED BY <2>1, <2>2
<1> QED
  BY <1>1, <1>3, <1>4, <1>5, SuitesInvHolds, PTL
     DEF MCSpec, MCNext, ResultsNeverFallBack, BestIsKept, W!ReportsNeverFallBack
===============================================================================
