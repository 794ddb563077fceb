----------------------------- MODULE TypesProofs -----------------------------
(* Proofs about the class graph and the subtypes of the test cluster, for all      *)
(* modules under test and all types, as a part of MCGeneration.  The graph is      *)
(* searched for the least set that is closed under its edges; subtyping is the     *)
(* least relation that its rules are closed under; types are finite trees.         *)
EXTENDS GenerationProofs

--------------------------------------------------------------------------------
(* The graph.                                                                      *)

Closed(edges_1, K) == \A e \in edges_1 : e[1] \in K => e[2] \in K

(* What is found from some classes: the least set that edges do not lead out of.   *)
LEMMA DescendantsAre ==
  ASSUME NEW E, NEW Z, IsFiniteSet(Z \cup {e[2] : e \in E}), NEW D, D = C!Descendants(E, Z)
  PROVE  /\ Z \subseteq D /\ D \subseteq Z \cup {e[2] : e \in E} /\ Closed(E, D)
         /\ \A K : Z \subseteq K /\ Closed(E, K) => D \subseteq K
<1> DEFINE U == Z \cup {e[2] : e \in E}
           More(s) == s \cup {e[2] : e \in {x \in E : x[1] \in s}}
           Body(f, s) == IF More(s) = s THEN s ELSE f[More(s)]
           IsFrom(f) == f = [s \in SUBSET U |-> Body(f, s)]
           From == CHOOSE f : IsFrom(f)
           Least(s) == {x \in U : \A K \in SUBSET U : s \subseteq K /\ Closed(E, K) => x \in K}
           Good(s) == /\ s \subseteq From[s] /\ From[s] \subseteq U /\ Closed(E, From[s])
                      /\ \A K : s \subseteq K /\ Closed(E, K) => From[s] \subseteq K
<1>1. \A s \in SUBSET U : s \subseteq More(s) /\ More(s) \in SUBSET U
  OBVIOUS
<1>2. \A s, K : s \subseteq K /\ Closed(E, K) => More(s) \subseteq K
  BY DEF Closed
<1>3. \A s : More(s) = s => Closed(E, s)
  BY DEF Closed
<1> HIDE DEF U, More
<1>4. \E f : IsFrom(f)
  <2> DEFINE g == [s \in SUBSET U |-> Least(s)]
  <2>1. ASSUME NEW s \in SUBSET U PROVE g[s] = Body(g, s)
    <3>1. CASE More(s) = s
      <4>1. Closed(E, s)
        BY <1>3, <3>1
      <4>2. Least(s) = s
        BY <4>1
      <4> QED BY <3>1, <4>2
    <3>2. CASE More(s) # s
      <4>1. Least(s) = Least(More(s))
        BY <1>1, <1>2
      <4>2. More(s) \in SUBSET U
        BY <1>1
      <4> QED BY <3>2, <4>1, <4>2
    <3> QED BY <3>1, <3>2
  <2>2. g = [s \in SUBSET U |-> g[s]]
    OBVIOUS
  <2> HIDE DEF g, Body
  <2>3. IsFrom(g)
    BY <2>1, <2>2
  <2> QED BY <2>3
<1>5. IsFrom(From)
  <2> HIDE DEF IsFrom
  <2> QED BY <1>4
<1>6. \A s \in SUBSET U : From[s] = Body(From, s)
  <2> HIDE DEF Body, From
  <2> QED BY <1>5
<1>7. D = From[Z]
  BY DEF C!Descendants, U, More
<1> HIDE DEF From
<1> DEFINE m == Cardinality(U)
           T == {n \in 0 .. m : \A s \in SUBSET U : Cardinality(U \ s) = n => Good(s)}
<1>8. IsFiniteSet(U) /\ m \in Nat
  <2>1. IsFiniteSet(U)
    BY DEF U
  <2> QED BY <2>1, FS_CardinalityType
<1>9. \A s \in SUBSET U : IsFiniteSet(U \ s) /\ Cardinality(U \ s) \in 0 .. m
  <2> SUFFICES ASSUME NEW s \in SUBSET U PROVE IsFiniteSet(U \ s) /\ Cardinality(U \ s) \in 0 .. m
    OBVIOUS
  <2>1. IsFiniteSet(U \ s) /\ Cardinality(U \ s) <= m
    BY <1>8, FS_Subset
  <2>2. Cardinality(U \ s) \in Nat
    BY <2>1, FS_CardinalityType
  <2> QED BY <1>8, <2>1, <2>2
<1>10. ASSUME NEW n \in 0 .. m, \A k \in 0 .. m : k < n => k \in T PROVE n \in T
  <2> SUFFICES ASSUME NEW s \in SUBSET U, Cardinality(U \ s) = n PROVE Good(s)
    OBVIOUS
  <2>1. CASE More(s) = s
    <3>1. From[s] = s /\ Closed(E, s)
      BY <1>3, <1>6, <2>1
    <3> QED BY <3>1
  <2>2. CASE More(s) # s
    <3>1. More(s) \in SUBSET U /\ s \subseteq More(s) /\ From[s] = From[More(s)]
      BY <1>1, <1>6, <2>2
    <3> DEFINE k == Cardinality(U \ More(s))
    <3>2. k \in 0 .. m
      BY <1>9, <3>1
    <3>3. k < n
      <4>1. U \ More(s) \subseteq U \ s /\ U \ More(s) # U \ s
        BY <2>2, <3>1
      <4>2. IsFiniteSet(U \ s)
        BY <1>9
      <4>3. k <= n /\ k # n
        BY <4>1, <4>2, FS_Subset
      <4> QED BY <1>8, <3>2, <4>3
    <3>4. Good(More(s))
      BY <1>10, <3>1, <3>2, <3>3
    <3> QED BY <1>2, <3>1, <3>4
  <2> QED BY <2>1, <2>2
<1>11. T = 0 .. m
  <2> HIDE DEF T
  <2>1. T \subseteq 0 .. m
    BY DEF T
  <2> QED BY <1>8, <1>10, <2>1, AllUpTo
<1>12. Good(Z)
  <2>1. Z \in SUBSET U
    BY DEF U
  <2> HIDE DEF Good
  <2> QED BY <1>9, <1>11, <2>1
<1> QED BY <1>7, <1>12 DEF U

(* The classes above a class, itself among them.                                   *)
LEMMA SuperclassesAre ==
  ASSUME NEW E, IsFiniteSet(E), NEW c, NEW D, D = C!Superclasses(E, c)
  PROVE  /\ c \in D /\ \A e \in E : e[2] \in D => e[1] \in D
         /\ \A K : c \in K /\ (\A e \in E : e[2] \in K => e[1] \in K) => D \subseteq K
<1> DEFINE R == {<<e[2], e[1]>> : e \in E}
<1>1. D = C!Descendants(R, {c})
  BY DEF C!Superclasses
<1>2. \A e \in E : <<e[2], e[1]>> \in R
  OBVIOUS
<1>3. \A x \in R : \E e \in E : x = <<e[2], e[1]>>
  OBVIOUS
<1> HIDE DEF R
<1>4. ASSUME NEW K PROVE Closed(R, K) <=> \A e \in E : e[2] \in K => e[1] \in K
  <2>1. ASSUME Closed(R, K), NEW e \in E, e[2] \in K PROVE e[1] \in K
    <3> DEFINE x == <<e[2], e[1]>>
    <3>1. x \in R /\ x[1] = e[2] /\ x[2] = e[1]
      BY <1>2
    <3> HIDE DEF x
    <3> QED BY <2>1, <3>1 DEF Closed
  <2>2. ASSUME \A e \in E : e[2] \in K => e[1] \in K, NEW x \in R, x[1] \in K PROVE x[2] \in K
    <3>1. PICK e \in E : x = <<e[2], e[1]>>
      BY <1>3
    <3>2. x[1] = e[2] /\ x[2] = e[1]
      BY <3>1
    <3> QED BY <2>2, <3>2
  <2> QED BY <2>1, <2>2 DEF Closed
<1>5. IsFiniteSet({c} \cup {x[2] : x \in R})
  <2> DEFINE T == {e[1] : e \in E}
             f == [e \in E |-> e[1]]
  <2>1. IsFiniteSet(T)
    <3>1. T = {f[e] : e \in E} /\ DOMAIN f = E
      OBVIOUS
    <3> HIDE DEF f, T
    <3> QED BY <3>1, ImageIsFinite
  <2>2. \A x \in R : x[2] \in T
    <3> SUFFICES ASSUME NEW x \in R PROVE x[2] \in T
      OBVIOUS
    <3>1. PICK e \in E : x = <<e[2], e[1]>>
      BY <1>3
    <3>2. x[2] = e[1]
      BY <3>1
    <3> QED BY <3>2
  <2> HIDE DEF T
  <2>3. {x[2] : x \in R} \subseteq T
    BY <2>2
  <2>4. {c} \cup {x[2] : x \in R} \subseteq T \cup {c}
    BY <2>3
  <2> QED BY <2>1, <2>4, FS_AddElement, FS_Subset
<1>6. /\ {c} \subseteq D /\ Closed(R, D)
      /\ \A K : {c} \subseteq K /\ Closed(R, K) => D \subseteq K
  BY <1>1, <1>5, DescendantsAre
<1> QED BY <1>4, <1>6

(* What sequences hold.                                                             *)
LEMMA SetOf ==
  ASSUME NEW K, NEW s \in Seq(K)
  PROVE  /\ C!ToSet(s) \subseteq K /\ s \in Seq(C!ToSet(s)) /\ (s = << >> => C!ToSet(s) = {})
         /\ s # << >> => /\ Head(s) \in C!ToSet(s) /\ C!ToSet(s) \subseteq {Head(s)} \cup C!ToSet(Tail(s))
                         /\ C!ToSet(Tail(s)) \subseteq C!ToSet(s)
<1>1. \A x : x \in C!ToSet(s) <=> \E i \in 1 .. Len(s) : x = s[i]
  BY DEF C!ToSet
<1>2. \A i \in 1 .. Len(s) : s[i] \in K
  OBVIOUS
<1>3. s \in Seq(C!ToSet(s))
  <2>1. DOMAIN s = 1 .. Len(s) /\ Len(s) \in Nat /\ s = [i \in 1 .. Len(s) |-> s[i]]
    OBVIOUS
  <2>2. \A i \in 1 .. Len(s) : s[i] \in C!ToSet(s)
    BY <1>1
  <2> QED BY <2>1, <2>2
<1>4. s = << >> => Len(s) = 0
  OBVIOUS
<1>5. ASSUME s # << >>
      PROVE  /\ Head(s) \in C!ToSet(s) /\ C!ToSet(s) \subseteq {Head(s)} \cup C!ToSet(Tail(s))
             /\ C!ToSet(Tail(s)) \subseteq C!ToSet(s)
  <2>1. /\ Len(s) \in Nat /\ Len(s) >= 1 /\ Head(s) = s[1] /\ Len(Tail(s)) = Len(s) - 1
        /\ DOMAIN Tail(s) = 1 .. Len(s) - 1 /\ \A i \in 1 .. Len(s) - 1 : Tail(s)[i] = s[i + 1]
    BY <1>5
  <2>2. \A x : x \in C!ToSet(Tail(s)) <=> \E i \in 1 .. Len(s) - 1 : x = s[i + 1]
    BY <2>1 DEF C!ToSet
  <2>3. C!ToSet(s) \subseteq {Head(s)} \cup C!ToSet(Tail(s))
    <3> SUFFICES ASSUME NEW i \in 1 .. Len(s), i # 1 PROVE s[i] \in C!ToSet(Tail(s))
      BY <1>1, <2>1
    <3>1. i - 1 \in 1 .. Len(s) - 1 /\ (i - 1) + 1 = i
      BY <2>1
    <3> QED BY <2>2, <3>1
  <2>4. Head(s) \in C!ToSet(s)
    BY <1>1, <2>1
  <2>5. \A i \in 1 .. Len(s) - 1 : i + 1 \in 1 .. Len(s)
    BY <2>1
  <2> QED BY <1>1, <2>2, <2>3, <2>4, <2>5
<1> QED BY <1>1, <1>2, <1>3, <1>4, <1>5

(* What joined sequences hold.                                                     *)
LEMMA SetOfJoined ==
  ASSUME NEW K, NEW s \in Seq(K), NEW t \in Seq(K)
  PROVE  C!ToSet(s \o t) = C!ToSet(s) \cup C!ToSet(t)
<1>1. /\ Len(s) \in Nat /\ Len(t) \in Nat /\ Len(s \o t) = Len(s) + Len(t)
      /\ s \o t \in Seq(K)
  OBVIOUS
<1>2. \A i \in 1 .. Len(s) : i \in 1 .. Len(s) + Len(t) /\ (s \o t)[i] = s[i]
  BY <1>1
<1>3. \A i \in 1 .. Len(t) : Len(s) + i \in 1 .. Len(s) + Len(t) /\ (s \o t)[Len(s) + i] = t[i]
  BY <1>1
<1>4. \A i \in 1 .. Len(s) + Len(t) : i \in 1 .. Len(s) \/ (i - Len(s) \in 1 .. Len(t) /\ Len(s) + (i - Len(s)) = i)
  BY <1>1
<1>5. \A x : x \in C!ToSet(s) <=> \E i \in 1 .. Len(s) : x = s[i]
  BY DEF C!ToSet
<1>6. \A x : x \in C!ToSet(t) <=> \E i \in 1 .. Len(t) : x = t[i]
  BY DEF C!ToSet
<1>7. \A x : x \in C!ToSet(s \o t) <=> \E i \in 1 .. Len(s) + Len(t) : x = (s \o t)[i]
  BY <1>1 DEF C!ToSet
<1>8. ASSUME NEW x \in C!ToSet(s \o t) PROVE x \in C!ToSet(s) \cup C!ToSet(t)
  <2>1. PICK i \in 1 .. Len(s) + Len(t) : x = (s \o t)[i]
    BY <1>7, <1>8
  <2>2. CASE i \in 1 .. Len(s)
    BY <1>2, <1>5, <2>1, <2>2
  <2>3. CASE i - Len(s) \in 1 .. Len(t) /\ Len(s) + (i - Len(s)) = i
    <3>1. x = t[i - Len(s)]
      BY <1>3, <2>1, <2>3
    <3> QED BY <1>6, <2>3, <3>1
  <2> QED BY <1>4, <2>2, <2>3
<1>9. ASSUME NEW x \in C!ToSet(s) \cup C!ToSet(t) PROVE x \in C!ToSet(s \o t)
  <2>1. CASE x \in C!ToSet(s)
    BY <1>2, <1>5, <1>7, <2>1
  <2>2. CASE x \in C!ToSet(t)
    BY <1>3, <1>6, <1>7, <2>2
  <2> QED BY <1>9, <2>1, <2>2
<1> QED BY <1>8, <1>9

(* What a sequence holds but for its last element.                                 *)
LEMMA SetOfFront ==
  ASSUME NEW K, NEW s \in Seq(K), s # << >>
  PROVE  /\ C!Front(s) \in Seq(K) /\ C!Last(s) \in C!ToSet(s)
         /\ C!ToSet(s) = C!ToSet(C!Front(s)) \cup {C!Last(s)}
<1>1. C!Front(s) = Front(s) /\ C!Last(s) = s[Len(s)]
  BY DEF C!Front, Front, C!Last
<1>2. /\ Front(s) \in Seq(K) /\ Len(s) \in Nat /\ Len(s) >= 1
      /\ DOMAIN s = 1 .. Len(s) /\ DOMAIN Front(s) = 1 .. Len(s) - 1
      /\ \A i \in 1 .. Len(s) - 1 : Front(s)[i] = s[i]
  BY FrontIs
<1>3. \A i : i \in 1 .. Len(s) <=> i \in 1 .. Len(s) - 1 \/ i = Len(s)
  BY <1>2
<1>4. \A x : x \in C!ToSet(s) <=> \E i \in 1 .. Len(s) : x = s[i]
  BY <1>2 DEF C!ToSet
<1>5. \A x : x \in C!ToSet(Front(s)) <=> \E i \in 1 .. Len(s) - 1 : x = s[i]
  BY <1>2 DEF C!ToSet
<1> QED BY <1>1, <1>2, <1>3, <1>4, <1>5
--------------------------------------------------------------------------------
(* What is known of the classes.                                                   *)

There == DOMAIN C!World.classes
Bases(c) == C!ToSet(C!BasesOf(c))
Hierarchy == C!HierarchyOf(C!World.classes)
Links(Z) == {e \in There \X There : e[2] \in Z /\ e[1] \in Bases(e[2])}

(* The classes of a world, what can be read of them, and their real hierarchy.      *)
LEMMA WorldIs ==
  ASSUME world \in DOMAIN ClsWorlds
  PROVE  /\ \A c \in There : /\ C!BasesOf(c) \in Seq(There) /\ Bases(c) \subseteq There
                             /\ c \in C!Generics => Bases(c) \subseteq {"object"}
                             /\ c = "object" => Bases(c) = {}
                             /\ C!NamedBy(c) \subseteq There
                             /\ ~C!Class(c).skipped => Bases(c) = C!ToSet(C!Class(c).bases)
         /\ \A F \in SUBSET DOMAIN C!World.callables : C!Named(F) \subseteq There
         /\ "builtins" \in DOMAIN C!World.modules
         /\ \A m \in DOMAIN C!World.modules : C!World.modules[m].functions \in Seq(DOMAIN C!World.callables)
         /\ C!Numbers \subseteq C!ToSet(C!World.modules["builtins"].classes)
         /\ IsFiniteSet(There) /\ IsFiniteSet(Hierarchy)
         /\ C!Tower \cup Links(There) \subseteq Hierarchy
         /\ \A e \in Hierarchy : \/ e \in C!Tower
                                 \/ /\ e = <<e[1], e[2]>> /\ e[1] \in There /\ e[2] \in There
                                    /\ e[1] \in C!ToSet(C!Class(e[2]).bases)
         /\ \A e \in Hierarchy : e[2] \notin C!Superclasses(Hierarchy, e[1])
<1>1. /\ {C!World.root, "builtins"} \subseteq DOMAIN C!World.modules
      /\ \A m \in DOMAIN C!World.modules : C!World.modules[m].functions \in Seq(DOMAIN C!World.callables)
      /\ \A c \in There :
           /\ C!Class(c).bases \in Seq(There)
           /\ C!Class(c).methods \subseteq DOMAIN C!World.callables
           /\ C!Class(c).hints \subseteq There
           /\ c \in C!Generics => C!ToSet(C!Class(c).bases) \subseteq {"object"}
           /\ c = "object" => C!Class(c).bases = << >>
      /\ \A f \in DOMAIN C!World.callables : C!World.callables[f].hints \subseteq There
      /\ C!IsFiniteSet(There) /\ C!Numbers \subseteq C!ToSet(C!World.modules["builtins"].classes)
      /\ \A e \in Hierarchy : e[2] \notin C!Superclasses(Hierarchy, e[1])
  BY OtherConstants DEF C!WorldsType, C!World, C!Class, There, Hierarchy
<1>2. \A c : \/ C!Class(c).skipped /\ C!BasesOf(c) = << >>
             \/ ~C!Class(c).skipped /\ C!BasesOf(c) = C!Class(c).bases
  BY DEF C!BasesOf
<1>3. C!ToSet(<< >>) = {}
  BY DEF C!ToSet
<1>4. \A c \in There : /\ C!BasesOf(c) \in Seq(There)
                       /\ c \in C!Generics => Bases(c) \subseteq {"object"}
                       /\ c = "object" => Bases(c) = {}
                       /\ ~C!Class(c).skipped => Bases(c) = C!ToSet(C!Class(c).bases)
                       /\ Bases(c) \subseteq C!ToSet(C!Class(c).bases)
  <2> HIDE DEF There
  <2>1. << >> \in Seq(There)
    OBVIOUS
  <2> QED BY <1>1, <1>2, <1>3, <2>1 DEF Bases
<1>5. \A c \in There : Bases(c) \subseteq There
  <2> SUFFICES ASSUME NEW c \in There PROVE Bases(c) \subseteq There
    OBVIOUS
  <2>1. C!BasesOf(c) \in Seq(There)
    BY <1>4
  <2> HIDE DEF There
  <2> QED BY <2>1, SetOf DEF Bases
<1>6. ASSUME NEW F \in SUBSET DOMAIN C!World.callables PROVE C!Named(F) \subseteq There
  BY <1>1 DEF C!Named
<1>7. ASSUME NEW c \in There PROVE C!NamedBy(c) \subseteq There
  <2>1. C!MethodsOf(c) \in SUBSET DOMAIN C!World.callables
    BY <1>1 DEF C!MethodsOf, C!Offered
  <2>2. C!Named(C!MethodsOf(c)) \subseteq There
    BY <1>6, <2>1
  <2> QED BY <1>1, <2>2 DEF C!NamedBy
<1>8. IsFiniteSet(There)
  BY <1>1, SameFinite
<1>9. Hierarchy = C!Tower \cup {e \in There \X There : e[1] \in C!ToSet(C!Class(e[2]).bases)}
  BY DEF Hierarchy, C!HierarchyOf, There, C!Class
<1>10. IsFiniteSet(Hierarchy)
  <2>1. IsFiniteSet(There \X There)
    BY <1>8, FS_Product
  <2>2. IsFiniteSet({e \in There \X There : e[1] \in C!ToSet(C!Class(e[2]).bases)})
    BY <2>1, FS_Subset
  <2>3. IsFiniteSet(C!Tower)
    <3>1. C!Tower = (({} \cup {<<"int", "bool">>}) \cup {<<"float", "int">>}) \cup {<<"complex", "float">>}
      BY DEF C!Tower
    <3>2. IsFiniteSet({} \cup {<<"int", "bool">>})
      BY FS_EmptySet, FS_AddElement
    <3>3. IsFiniteSet(({} \cup {<<"int", "bool">>}) \cup {<<"float", "int">>})
      BY <3>2, FS_AddElement
    <3> QED BY <3>1, <3>3, FS_AddElement
  <2> QED BY <1>9, <2>2, <2>3, FS_Union
<1>11. Links(There) \subseteq Hierarchy
  BY <1>4, <1>9 DEF Links
<1>12. \A e \in There \X There : e = <<e[1], e[2]>> /\ e[1] \in There /\ e[2] \in There
  OBVIOUS
<1>13. \A e \in Hierarchy : \/ e \in C!Tower
                            \/ /\ e = <<e[1], e[2]>> /\ e[1] \in There /\ e[2] \in There
                               /\ e[1] \in C!ToSet(C!Class(e[2]).bases)
  BY <1>9, <1>12
<1>14. C!Tower \subseteq Hierarchy
  BY <1>9
<1> QED BY <1>1, <1>4, <1>5, <1>6, <1>7, <1>8, <1>10, <1>11, <1>13, <1>14

Met == C!ToSet(known)
Analysing == phase \in {"builtins", "modules"}

(* The graph links the classes that were analysed.  Their bases are, or wait for    *)
(* it; whatever else is known was only named.                                      *)
GraphIsRight ==
  /\ known \in Seq(There) /\ seen \subseteq Met
  /\ edges = Links(seen) \cup (IF phase = "builtins" THEN {} ELSE C!Tower)
  /\ C!Numbers \subseteq seen \cup (IF phase = "builtins" THEN C!ToSet(work) ELSE {})
  /\ \A c \in seen : Bases(c) \subseteq seen \cup (IF Analysing THEN C!ToSet(work) ELSE {})
  /\ Analysing => attributes = [t \in Met |-> IF t \in seen THEN C!AttributesOf(t) ELSE {}]

(* What is added to the known classes.                                             *)
LEMMA KnownAre ==
  ASSUME NEW k \in Seq(There), NEW s \in Seq(There), NEW T
  PROVE  /\ k \o C!Among(s, T) \in Seq(There)
         /\ C!ToSet(k \o C!Among(s, T)) = C!ToSet(k) \cup (C!ToSet(s) \cap T)
<1>1. C!Among(s, T) \in Seq(There) /\ C!ToSet(C!Among(s, T)) = C!ToSet(s) \cap T
  <2>1. Among(s, T) \in Seq(There) /\ ToSet(Among(s, T)) = ToSet(s) \cap T
    BY AmongIs
  <2> QED BY <2>1, SameAmong
<1> HIDE DEF There
<1> QED BY <1>1, SetOfJoined, JoinedIsSequence

LEMMA MetAre ==
  ASSUME NEW k \in Seq(There), NEW s \in Seq(There)
  PROVE  C!Met(k, s) \in Seq(There) /\ C!ToSet(C!Met(k, s)) = C!ToSet(k) \cup C!ToSet(s)
<1> DEFINE T == There \ C!ToSet(k)
<1>1. C!Met(k, s) = k \o C!Among(s, T)
  BY DEF C!Met, There
<1>2. C!ToSet(k) \cup (C!ToSet(s) \cap T) = C!ToSet(k) \cup C!ToSet(s)
  <2> HIDE DEF There
  <2>1. C!ToSet(s) \subseteq There
    BY SetOf
  <2> QED BY <2>1
<1> HIDE DEF T
<1>3. /\ k \o C!Among(s, T) \in Seq(There)
      /\ C!ToSet(k \o C!Among(s, T)) = C!ToSet(k) \cup (C!ToSet(s) \cap T)
  BY KnownAre
<1> QED BY <1>1, <1>2, <1>3

LEMMA SetIsSequence ==
  ASSUME world \in DOMAIN ClsWorlds, NEW Z, Z \subseteq There
  PROVE  C!SetToSeq(Z) \in Seq(There)
<1>1. IsFiniteSet(There)
  BY WorldIs, Zenon
<1> HIDE DEF There
<1>2. IsFiniteSet(Z)
  BY <1>1, FS_Subset
<1>3. C!SetToSeq(Z) \in Seq(Z)
  BY <1>2, SequenceOfSet
<1> QED BY <1>3

(* A class is linked to its bases, which are known from then on and are waiting.     *)
LEMMA ClassKeepsGraph ==
  ASSUME AnalysisIsRight, GraphIsRight, C!AnalyseClass
  PROVE  GraphIsRight'
<1> DEFINE c == Head(work)
<1>1. /\ Analysing /\ work # << >> /\ UNCHANGED <<world, phase>>
      /\ world \in DOMAIN ClsWorlds /\ work \in Seq(There)
  BY DEF C!AnalyseClass, AnalysisIsRight, Analysing, There
<1>2. C!World' = C!World /\ There' = There /\ Analysing' = Analysing
  BY <1>1 DEF C!World, There, Analysing
<1>3. \A t : Bases(t)' = Bases(t) /\ C!AttributesOf(t)' = C!AttributesOf(t)
  BY <1>2 DEF C!Class, Bases, C!BasesOf, C!AttributesOf, C!ToSet
<1>4. \A Z : Links(Z)' = Links(Z)
  BY <1>2, <1>3 DEF Links
<1>5. /\ c \in There /\ C!ToSet(work) \subseteq {c} \cup C!ToSet(Tail(work))
      /\ Tail(work) \in Seq(There)
  <2> HIDE DEF There
  <2> QED BY <1>1, SetOf, HeadAndTail
<1>6. /\ known \in Seq(There) /\ seen \subseteq Met
      /\ edges = Links(seen) \cup (IF phase = "builtins" THEN {} ELSE C!Tower)
      /\ C!Numbers \subseteq seen \cup (IF phase = "builtins" THEN C!ToSet(work) ELSE {})
      /\ \A t \in seen : Bases(t) \subseteq seen \cup C!ToSet(work)
      /\ attributes = [t \in Met |-> IF t \in seen THEN C!AttributesOf(t) ELSE {}]
  BY <1>1 DEF GraphIsRight
<1>7. CASE c \in seen
  <2>1. work' = Tail(work) /\ UNCHANGED <<seen, known, edges, attributes>>
    BY <1>7 DEF C!AnalyseClass, C!graphVars
  <2>2. Met' = Met /\ C!ToSet(work') = C!ToSet(Tail(work)) /\ C!ToSet(work)' = C!ToSet(work')
    BY <2>1 DEF Met, C!ToSet
  <2>3. (known \in Seq(There))' /\ (edges = Links(seen) \cup (IF phase = "builtins" THEN {} ELSE C!Tower))'
    BY <1>1, <1>2, <1>4, <1>6, <2>1
  <2>4. (attributes = [t \in Met |-> IF t \in seen THEN C!AttributesOf(t) ELSE {}])'
    BY <1>3, <1>6, <2>1, <2>2
  <2> HIDE DEF c
  <2>5. (\A t \in seen : Bases(t) \subseteq seen \cup C!ToSet(work))'
    BY <1>3, <1>5, <1>6, <1>7, <2>1, <2>2
  <2>6. C!Numbers \subseteq seen' \cup (IF phase' = "builtins" THEN C!ToSet(work)' ELSE {})
    BY <1>1, <1>5, <1>6, <1>7, <2>1, <2>2
  <2> QED BY <1>1, <1>2, <1>6, <2>1, <2>2, <2>3, <2>4, <2>5, <2>6 DEF GraphIsRight
<1>8. CASE c \notin seen
  <2> DEFINE named == C!SetToSeq(C!NamedBy(c))
             first == C!Met(known, <<c>>)
             then == C!Met(first, named)
  <2>1. /\ work' = Tail(work) \o C!BasesOf(c) /\ seen' = seen \cup {c}
        /\ known' = C!Met(then, C!BasesOf(c))
        /\ edges' = edges \cup {<<b, c>> : b \in Bases(c)}
        /\ attributes' = [C!StillKnown(C!ToSet(known')) EXCEPT ![c] = C!AttributesOf(c)]
    BY <1>8 DEF C!AnalyseClass, C!Afterwards, Bases
  <2> HIDE DEF c
  <2>2. C!BasesOf(c) \in Seq(There) /\ Bases(c) \subseteq There
    BY <1>1, <1>5, WorldIs, Zenon
  <2>3. <<c>> \in Seq(There) /\ C!ToSet(<<c>>) = {c}
    <3>1. <<c>> \in Seq(There)
      BY <1>5
    <3> QED BY <3>1 DEF C!ToSet
  <2>4. named \in Seq(There)
    <3>1. C!NamedBy(c) \subseteq There
      BY <1>1, <1>5, WorldIs, Zenon
    <3> QED BY <1>1, <3>1, SetIsSequence
  <2>5. first \in Seq(There) /\ C!ToSet(first) = Met \cup {c}
    <3>1. known \in Seq(There)
      BY <1>6
    <3> QED BY <2>3, <3>1, MetAre DEF Met
  <2> HIDE DEF first, named
  <2>6. then \in Seq(There) /\ C!ToSet(then) = Met \cup {c} \cup C!ToSet(named)
    BY <2>4, <2>5, MetAre
  <2> HIDE DEF then
  <2>7. known' \in Seq(There) /\ C!ToSet(known') = Met \cup {c} \cup C!ToSet(named) \cup Bases(c)
    BY <2>1, <2>2, <2>6, MetAre DEF Bases
  <2>8. Met' = C!ToSet(known') /\ Met \cup {c} \subseteq Met'
    <3>1. Met' = C!ToSet(known')
      BY DEF Met, C!ToSet
    <3> QED BY <2>7, <3>1
  <2>9. C!ToSet(work)' = C!ToSet(Tail(work)) \cup Bases(c)
    <3>1. C!ToSet(work)' = C!ToSet(work')
      BY DEF C!ToSet
    <3> HIDE DEF There
    <3> QED BY <1>5, <2>1, <2>2, <3>1, SetOfJoined DEF Bases
  <2>10. Links(seen') = Links(seen) \cup {<<b, c>> : b \in Bases(c)}
    BY <1>5, <2>1, <2>2 DEF Links
  <2>11. attributes' = [t \in Met' |-> IF t \in seen' THEN C!AttributesOf(t) ELSE {}]
    <3> DEFINE still == C!StillKnown(C!ToSet(known'))
    <3>1. still = [t \in Met' |-> IF t \in DOMAIN attributes THEN attributes[t] ELSE {}]
      BY <2>8 DEF C!StillKnown
    <3>2. attributes' = [still EXCEPT ![c] = C!AttributesOf(c)]
      BY <2>1
    <3> HIDE DEF still
    <3>3. /\ DOMAIN attributes' = Met' /\ attributes' = [t \in Met' |-> attributes'[t]]
          /\ \A t \in Met' : attributes'[t] = IF t = c THEN C!AttributesOf(c) ELSE still[t]
      BY <2>8, <3>1, <3>2
    <3>4. DOMAIN attributes = Met /\ \A t \in Met : attributes[t] = IF t \in seen THEN C!AttributesOf(t) ELSE {}
      BY <1>6
    <3>5. \A t \in Met' : attributes'[t] = IF t \in seen' THEN C!AttributesOf(t) ELSE {}
      BY <1>6, <1>8, <2>1, <3>1, <3>3, <3>4
    <3> QED BY <3>3, <3>5
  <2>12. /\ (\A t \in seen : Bases(t) \subseteq seen \cup C!ToSet(work))' /\ seen' \subseteq Met'
         /\ (C!Numbers \subseteq seen \cup (IF phase = "builtins" THEN C!ToSet(work) ELSE {}))'
    BY <1>1, <1>3, <1>5, <1>6, <2>1, <2>8, <2>9
  <2>13. edges' = Links(seen') \cup (IF phase = "builtins" THEN {} ELSE C!Tower)
    BY <1>6, <2>1, <2>10
  <2>14. (known \in Seq(There))' /\ (attributes = [t \in Met |-> IF t \in seen THEN C!AttributesOf(t) ELSE {}])'
    BY <1>2, <1>3, <2>7, <2>11
  <2>15. (edges = Links(seen) \cup (IF phase = "builtins" THEN {} ELSE C!Tower))'
    BY <1>1, <1>4, <2>13
  <2> QED BY <1>1, <1>2, <2>12, <2>14, <2>15 DEF GraphIsRight
<1> QED BY <1>7, <1>8

(* The numbers are among the visible builtins, which come first.                    *)
LEMMA GraphInit == C!Init => GraphIsRight
<1> SUFFICES ASSUME C!Init PROVE GraphIsRight
  OBVIOUS
<1>1. /\ world \in DOMAIN ClsWorlds /\ phase = "builtins" /\ work = C!ClassesOf("builtins")
      /\ seen = {} /\ known = << >> /\ edges = {} /\ attributes = << >>
  BY DEF C!Init, C!AnalysisInit
<1>2. known \in Seq(There) /\ Met = {}
  BY <1>1 DEF Met, C!ToSet
<1>3. C!Numbers \subseteq C!ToSet(work)
  <2>1. /\ "builtins" \in DOMAIN C!World.modules
        /\ C!Numbers \subseteq C!ToSet(C!World.modules["builtins"].classes)
    BY <1>1, WorldIs, Zenon
  <2>2. \A s : C!ToSet(s) = ToSet(s)
    BY DEF C!ToSet, ToSet
  <2>3. \A c \in C!Numbers : C!Visible(c)
    BY DEF C!Numbers, C!Visible, C!PrimitiveClasses
  <2>4. C!ToSet(work) = {c \in C!ToSet(C!World.modules["builtins"].classes) : C!Visible(c)}
    BY <1>1, <2>1, <2>2, ClassesType
  <2> QED BY <2>1, <2>3, <2>4
<1>4. Links(seen) = {}
  BY <1>1 DEF Links
<1>5. attributes = [t \in Met |-> IF t \in seen THEN C!AttributesOf(t) ELSE {}]
  BY <1>1, <1>2
<1> QED BY <1>1, <1>2, <1>3, <1>4, <1>5 DEF GraphIsRight

(* What happens after the analysis of a module's classes links no class.            *)
LEMMA GraphStays ==
  ASSUME GraphIsRight, UNCHANGED <<world, seen, known, edges>>,
         phase # "builtins", phase' # "builtins", Analysing => work = << >>,
         Analysing' => Analysing /\ attributes' = attributes
  PROVE  GraphIsRight'
<1>1. C!World' = C!World /\ There' = There
  BY DEF C!World, There
<1>2. \A t : Bases(t)' = Bases(t) /\ C!AttributesOf(t)' = C!AttributesOf(t)
  BY <1>1 DEF C!Class, Bases, C!BasesOf, C!AttributesOf, C!ToSet
<1>3. \A Z : Links(Z)' = Links(Z)
  BY <1>1, <1>2 DEF Links
<1>4. Met' = Met
  BY DEF Met, C!ToSet
<1>5. \A c \in seen : Bases(c) \subseteq seen
  <2>1. work = << >> => C!ToSet(work) = {}
    BY DEF C!ToSet
  <2> QED BY <2>1 DEF GraphIsRight
<1>6. /\ known \in Seq(There) /\ seen \subseteq Met
      /\ edges = Links(seen) \cup C!Tower /\ C!Numbers \subseteq seen
      /\ Analysing => attributes = [t \in Met |-> IF t \in seen THEN C!AttributesOf(t) ELSE {}]
  BY DEF GraphIsRight
<1>7. (known \in Seq(There))' /\ (edges = Links(seen) \cup C!Tower)'
  BY <1>1, <1>3, <1>6
<1>8. (Analysing => attributes = [t \in Met |-> IF t \in seen THEN C!AttributesOf(t) ELSE {}])'
  BY <1>2, <1>4, <1>6
<1>9. (\A c \in seen : Bases(c) \subseteq seen)'
  BY <1>2, <1>5
<1> QED BY <1>4, <1>6, <1>7, <1>8, <1>9 DEF GraphIsRight

(* Classes that the hints of functions name are known from then on.                 *)
LEMMA FunctionsKeepGraph ==
  ASSUME AnalysisIsRight, GraphIsRight, C!AnalyseFunctions
  PROVE  GraphIsRight'
<1> DEFINE F == C!ToSet(C!World.modules[current].functions)
           called == {C!Callable(f) : f \in C!Offered(F)}
           fresh == called \ DOMAIN returns
           G == {a[2] : a \in fresh}
           named == C!SetToSeq(C!Named(G))
<1>1. /\ phase = "modules" /\ phase' = "modules" /\ work = << >> /\ UNCHANGED <<world, work, seen, edges>>
      /\ known' = C!Met(known, named) /\ attributes' = C!StillKnown(C!ToSet(known'))
      /\ world \in DOMAIN ClsWorlds /\ current \in DOMAIN C!World.modules
  BY DEF C!AnalyseFunctions, AnalysisIsRight
<1>2. C!World' = C!World /\ There' = There
  BY <1>1 DEF C!World, There
<1>3. \A t : Bases(t)' = Bases(t) /\ C!AttributesOf(t)' = C!AttributesOf(t)
  BY <1>2 DEF C!Class, Bases, C!BasesOf, C!AttributesOf, C!ToSet
<1>4. \A Z : Links(Z)' = Links(Z)
  BY <1>2, <1>3 DEF Links
<1>5. C!ToSet(work) = {}
  BY <1>1 DEF C!ToSet
<1>6. /\ known \in Seq(There) /\ seen \subseteq Met /\ edges = Links(seen) \cup C!Tower
      /\ C!Numbers \subseteq seen /\ \A t \in seen : Bases(t) \subseteq seen
      /\ attributes = [t \in Met |-> IF t \in seen THEN C!AttributesOf(t) ELSE {}]
  BY <1>1, <1>5 DEF GraphIsRight, Analysing
<1>7. G \in SUBSET DOMAIN C!World.callables
  <2>1. F \subseteq DOMAIN C!World.callables
    <3> DEFINE s == C!World.modules[current].functions
               K == DOMAIN C!World.callables
    <3>1. s \in Seq(K)
      BY <1>1, WorldIs, Zenon
    <3> HIDE DEF s, K
    <3>2. C!ToSet(s) \subseteq K
      BY <3>1, SetOf
    <3> QED BY <3>2 DEF s, K
  <2>2. \A a \in called : a[2] \in F
    BY DEF C!Callable, C!Offered
  <2> HIDE DEF F, called
  <2> QED BY <2>1, <2>2
<1>8. named \in Seq(There)
  <2> HIDE DEF G
  <2>1. C!Named(G) \subseteq There
    BY <1>1, <1>7, WorldIs, Zenon
  <2> QED BY <1>1, <2>1, SetIsSequence
<1> HIDE DEF named
<1>9. known' \in Seq(There) /\ C!ToSet(known') = Met \cup C!ToSet(named)
  BY <1>1, <1>6, <1>8, MetAre DEF Met
<1>10. Met' = C!ToSet(known') /\ Met \subseteq Met'
  <2>1. Met' = C!ToSet(known')
    BY DEF Met, C!ToSet
  <2> QED BY <1>9, <2>1
<1>11. attributes' = [t \in Met' |-> IF t \in seen THEN C!AttributesOf(t) ELSE {}]
  <2>1. attributes' = [t \in Met' |-> IF t \in DOMAIN attributes THEN attributes[t] ELSE {}]
    BY <1>1, <1>10 DEF C!StillKnown
  <2>2. DOMAIN attributes = Met /\ \A t \in Met : attributes[t] = IF t \in seen THEN C!AttributesOf(t) ELSE {}
    BY <1>6
  <2>3. \A t \in Met' : (IF t \in DOMAIN attributes THEN attributes[t] ELSE {})
                        = IF t \in seen THEN C!AttributesOf(t) ELSE {}
    BY <1>6, <2>2
  <2> QED BY <2>1, <2>3
<1>12. (attributes = [t \in Met |-> IF t \in seen THEN C!AttributesOf(t) ELSE {}])' /\ (known \in Seq(There))'
  BY <1>1, <1>2, <1>3, <1>9, <1>11
<1>13. (edges = Links(seen) \cup C!Tower)' /\ (\A t \in seen : Bases(t) \subseteq seen)'
  BY <1>1, <1>3, <1>4, <1>6
<1> QED BY <1>1, <1>6, <1>10, <1>12, <1>13 DEF GraphIsRight

(* The tower of numbers is built when all of them are known.                        *)
LEMMA TowerKeepsGraph ==
  ASSUME AnalysisIsRight, GraphIsRight, C!EnableNumericTower
  PROVE  GraphIsRight'
<1> DEFINE s == <<"bool", "int", "float", "complex">>
<1>1. /\ phase = "builtins" /\ phase' = "modules" /\ work = << >> /\ UNCHANGED <<world, work, seen>>
      /\ known' = known \o C!Among(s, C!Numbers \ Met) /\ edges' = edges \cup C!Tower
      /\ attributes' = C!StillKnown(C!ToSet(known'))
      /\ world \in DOMAIN ClsWorlds
  BY DEF C!EnableNumericTower, AnalysisIsRight, Met
<1>2. C!World' = C!World /\ There' = There
  BY <1>1 DEF C!World, There
<1>3. \A t : Bases(t)' = Bases(t) /\ C!AttributesOf(t)' = C!AttributesOf(t)
  BY <1>2 DEF C!Class, Bases, C!BasesOf, C!AttributesOf, C!ToSet
<1>4. \A Z : Links(Z)' = Links(Z)
  BY <1>2, <1>3 DEF Links
<1>5. C!ToSet(work) = {}
  BY <1>1 DEF C!ToSet
<1>6. /\ known \in Seq(There) /\ seen \subseteq Met /\ edges = Links(seen)
      /\ C!Numbers \subseteq seen /\ \A t \in seen : Bases(t) \subseteq seen
      /\ attributes = [t \in Met |-> IF t \in seen THEN C!AttributesOf(t) ELSE {}]
  BY <1>1, <1>5 DEF GraphIsRight, Analysing
<1>7. known' \in Seq(There) /\ Met' = Met /\ C!ToSet(known') = Met
  <2>1. Met \subseteq There
    <3> HIDE DEF There
    <3> QED BY <1>6, SetOf DEF Met
  <2>2. s \in Seq(There)
    <3>1. "bool" \in There /\ "int" \in There /\ "float" \in There /\ "complex" \in There
      BY <1>6, <2>1 DEF C!Numbers
    <3> HIDE DEF There
    <3> QED BY <3>1
  <2>3. C!Numbers \ Met \subseteq There /\ C!Numbers \ Met = {}
    BY <1>6
  <2> HIDE DEF s
  <2> DEFINE more == C!Among(s, C!Numbers \ Met)
  <2>4. known \o more \in Seq(There) /\ C!ToSet(known \o more) = Met \cup (C!ToSet(s) \cap (C!Numbers \ Met))
    <3>1. known \in Seq(There)
      BY <1>6
    <3> QED BY <2>2, <3>1, KnownAre, Zenon DEF Met
  <2>5. Met' = C!ToSet(known')
    BY DEF Met, C!ToSet
  <2>6. known' = known \o more
    BY <1>1
  <2> QED BY <2>3, <2>4, <2>5, <2>6
<1>8. attributes' = [t \in Met' |-> IF t \in seen' THEN C!AttributesOf(t)' ELSE {}]
  <2>1. attributes' = [t \in Met |-> IF t \in DOMAIN attributes THEN attributes[t] ELSE {}]
    BY <1>1, <1>7 DEF C!StillKnown
  <2>2. DOMAIN attributes = Met /\ \A t \in Met : attributes[t] = IF t \in seen THEN C!AttributesOf(t) ELSE {}
    BY <1>6
  <2> QED BY <1>1, <1>3, <1>7, <2>1, <2>2
<1>9. (edges = Links(seen) \cup C!Tower)' /\ (known \in Seq(There))'
  BY <1>1, <1>2, <1>4, <1>6, <1>7
<1>10. (\A t \in seen : Bases(t) \subseteq seen)' /\ C!Numbers \subseteq seen' /\ seen' \subseteq Met'
  BY <1>1, <1>3, <1>6, <1>7
<1> QED BY <1>1, <1>8, <1>9, <1>10 DEF GraphIsRight

(* Only classes that were analysed are linked, and to none that they do not derive   *)
(* from; they are linked to all, when all above them could be read.                 *)
LEMMA KnownAreClosed ==
  ASSUME world \in DOMAIN ClsWorlds, GraphIsRight, ~Analysing, phase # "builtins"
  PROVE  /\ edges \subseteq C!Tower \cup Links(There) /\ edges \subseteq Hierarchy /\ IsFiniteSet(edges)
         /\ seen \subseteq Met
         /\ \A e \in edges : e = <<e[1], e[2]>> /\ e[1] \in seen /\ e[2] \in seen
         /\ \A c : C!Superclasses(edges, c) \subseteq C!RealSuperclasses(c)
         /\ \A c \in Met \ seen : C!Superclasses(edges, c) = {c}
         /\ \A c \in C!AreRead : /\ C!Superclasses(edges, c) = C!RealSuperclasses(c)
                                 /\ c \in C!RealSuperclasses(c) /\ C!RealSuperclasses(c) \subseteq seen
<1>1. /\ IsFiniteSet(Hierarchy) /\ C!Tower \cup Links(There) \subseteq Hierarchy
      /\ \A e \in Hierarchy : \/ e \in C!Tower
                              \/ e[2] \in There /\ e[1] \in There /\ e[1] \in C!ToSet(C!Class(e[2]).bases)
      /\ \A e \in Hierarchy : e = <<e[1], e[2]>> \/ e \in C!Tower
      /\ \A c \in There : ~C!Class(c).skipped => Bases(c) = C!ToSet(C!Class(c).bases)
  BY WorldIs, Zenon
<1>2. /\ known \in Seq(There) /\ edges = Links(seen) \cup C!Tower /\ C!Numbers \subseteq seen
      /\ seen \subseteq Met /\ \A c \in seen : Bases(c) \subseteq seen
  BY DEF GraphIsRight
<1>3. Met \subseteq There
  <2> HIDE DEF There
  <2> QED BY <1>2, SetOf DEF Met
<1>4. edges \subseteq C!Tower \cup Links(There) /\ edges \subseteq Hierarchy
  <2>1. Links(seen) \subseteq Links(There)
    BY <1>2, <1>3 DEF Links
  <2> QED BY <1>1, <1>2, <2>1
<1>5. IsFiniteSet(edges)
  BY <1>1, <1>4, FS_Subset
<1>6. \A e \in C!Tower : e = <<e[1], e[2]>> /\ e[1] \in seen /\ e[2] \in seen
  BY <1>2 DEF C!Tower, C!Numbers
<1>7. ASSUME NEW e \in edges PROVE e = <<e[1], e[2]>> /\ e[1] \in seen /\ e[2] \in seen
  <2>1. CASE e \in C!Tower
    BY <1>6, <2>1
  <2>2. CASE e \in Links(seen)
    BY <1>2, <2>2 DEF Links
  <2> QED BY <1>2, <2>1, <2>2
<1>8. ASSUME NEW c
      PROVE  /\ c \in C!Superclasses(edges, c)
             /\ \A e \in edges : e[2] \in C!Superclasses(edges, c) => e[1] \in C!Superclasses(edges, c)
             /\ \A K : c \in K /\ (\A e \in edges : e[2] \in K => e[1] \in K) => C!Superclasses(edges, c) \subseteq K
  <2> DEFINE D == C!Superclasses(edges, c)
  <2>1. D = C!Superclasses(edges, c)
    OBVIOUS
  <2> HIDE DEF D
  <2> QED BY <1>5, <2>1, SuperclassesAre
<1>9. ASSUME NEW c
      PROVE  /\ c \in C!RealSuperclasses(c)
             /\ \A e \in Hierarchy : e[2] \in C!RealSuperclasses(c) => e[1] \in C!RealSuperclasses(c)
             /\ \A K : c \in K /\ (\A e \in Hierarchy : e[2] \in K => e[1] \in K) => C!RealSuperclasses(c) \subseteq K
  <2> DEFINE R == C!RealSuperclasses(c)
  <2>1. R = C!Superclasses(Hierarchy, c)
    BY DEF C!RealSuperclasses, Hierarchy
  <2> HIDE DEF R, Hierarchy
  <2> QED BY <1>1, <2>1, SuperclassesAre DEF R
<1> HIDE DEF Hierarchy
<1>10. \A c : C!Superclasses(edges, c) \subseteq C!RealSuperclasses(c)
  <2> SUFFICES ASSUME NEW c PROVE C!Superclasses(edges, c) \subseteq C!RealSuperclasses(c)
    OBVIOUS
  <2> DEFINE R == C!RealSuperclasses(c)
  <2>1. c \in R /\ \A e \in edges : e[2] \in R => e[1] \in R
    BY <1>4, <1>9
  <2> HIDE DEF R
  <2>2. C!Superclasses(edges, c) \subseteq R
    BY <1>8, <2>1
  <2> QED BY <2>2 DEF R
<1>11. ASSUME NEW c \in Met \ seen PROVE C!Superclasses(edges, c) = {c}
  <2>1. \A e \in edges : e[2] \in {c} => e[1] \in {c}
    BY <1>7, <1>11
  <2> QED BY <1>8, <2>1
<1>12. ASSUME NEW c \in C!AreRead
       PROVE  /\ C!Superclasses(edges, c) = C!RealSuperclasses(c)
              /\ c \in C!RealSuperclasses(c) /\ C!RealSuperclasses(c) \subseteq seen
  <2> DEFINE D == C!Superclasses(edges, c)
             R == C!RealSuperclasses(c)
             K == D \cap R \cap seen
  <2>1. c \in seen /\ \A s \in R : ~C!Class(s).skipped
    BY <1>12 DEF C!AreRead
  <2>2. c \in D /\ \A e \in edges : e[2] \in D => e[1] \in D
    BY <1>8
  <2>3. /\ c \in R /\ \A e \in Hierarchy : e[2] \in R => e[1] \in R
        /\ \A Z : c \in Z /\ (\A e \in Hierarchy : e[2] \in Z => e[1] \in Z) => R \subseteq Z
    BY <1>9
  <2>4. D \subseteq R
    BY <1>10
  <2> HIDE DEF D, R
  <2>5. ASSUME NEW e \in Hierarchy, e[2] \in K PROVE e[1] \in K
    <3>1. e \in edges
      <4>1. CASE e \in C!Tower
        BY <1>2, <4>1
      <4>2. CASE e \notin C!Tower
        <5>1. /\ e = <<e[1], e[2]>> /\ e[2] \in There /\ e[1] \in There
              /\ e[1] \in C!ToSet(C!Class(e[2]).bases)
          BY <1>1, <4>2
        <5>2. e[1] \in Bases(e[2]) /\ e[2] \in seen
          BY <1>1, <2>1, <2>5, <5>1
        <5>3. e \in Links(seen)
          BY <5>1, <5>2 DEF Links
        <5> QED BY <1>2, <5>3
      <4> QED BY <4>1, <4>2
    <3> QED BY <1>7, <2>2, <2>3, <2>5, <3>1
  <2>6. R \subseteq K
    BY <2>1, <2>2, <2>3, <2>5
  <2> QED BY <2>3, <2>4, <2>6 DEF D, R
<1> QED BY <1>2, <1>4, <1>5, <1>7, <1>10, <1>11, <1>12
--------------------------------------------------------------------------------
(* Attributes go down.                                                             *)

Own(c) == (IF c \in seen THEN C!AttributesOf(c) ELSE {}) \ (IF c = "object" THEN C!Stubs ELSE {})
Inherited(c) == UNION {Own(s) : s \in C!Superclasses(edges, c) \ {c}}

(* A class keeps what has not come from above; what it has not passed on, or not     *)
(* got from above, will come: it is waiting.                                       *)
PushIsRight ==
  ~Analysing =>
    /\ work \in Seq(Met) /\ (phase = "search" => work = << >>)
    /\ DOMAIN reachIn = Met /\ DOMAIN reachOut = Met /\ DOMAIN attributes = Met
    /\ \A c \in Met : /\ attributes[c] = Own(c) \ reachIn[c]
                      /\ reachIn[c] \subseteq Inherited(c)
                      /\ reachOut[c] \subseteq reachIn[c] \cup Own(c)
    /\ \A c \in Met \ C!ToSet(work) :
         /\ reachIn[c] \cup Own(c) \subseteq reachOut[c]
         /\ \A p \in Met : <<p, c>> \in edges => reachOut[p] \subseteq reachIn[c]

(* Whoever inherits from a class inherits what is above it.                         *)
LEMMA InheritedFrom ==
  ASSUME world \in DOMAIN ClsWorlds, GraphIsRight, ~Analysing, phase # "builtins",
         NEW p, NEW c, <<p, c>> \in edges
  PROVE  p # c /\ Own(p) \cup Inherited(p) \subseteq Inherited(c)
<1> DEFINE P == C!Superclasses(edges, p)
           D == C!Superclasses(edges, c)
           e == <<p, c>>
<1>1. \A x \in Hierarchy : x[2] \notin C!Superclasses(Hierarchy, x[1])
  BY WorldIs, Zenon
<1>2. /\ edges \subseteq Hierarchy /\ IsFiniteSet(edges)
      /\ \A x : C!Superclasses(edges, x) \subseteq C!Superclasses(Hierarchy, x)
  <2>1. \A x : C!RealSuperclasses(x) = C!Superclasses(Hierarchy, x)
    BY DEF C!RealSuperclasses, Hierarchy
  <2>2. /\ edges \subseteq Hierarchy /\ IsFiniteSet(edges)
        /\ \A x : C!Superclasses(edges, x) \subseteq C!RealSuperclasses(x)
    BY KnownAreClosed, Zenon
  <2> QED BY <2>1, <2>2
<1>3. e \in edges /\ e[1] = p /\ e[2] = c
  OBVIOUS
<1> HIDE DEF e
<1>4. c \notin P
  BY <1>1, <1>2, <1>3
<1> HIDE DEF P, D, Hierarchy
<1>5. /\ p \in P
      /\ \A K : p \in K /\ (\A x \in edges : x[2] \in K => x[1] \in K) => P \subseteq K
  <2>1. IsFiniteSet(edges) /\ P = C!Superclasses(edges, p)
    BY <1>2 DEF P
  <2> QED BY <2>1, SuperclassesAre
<1>6. c \in D /\ \A x \in edges : x[2] \in D => x[1] \in D
  <2>1. IsFiniteSet(edges) /\ D = C!Superclasses(edges, c)
    BY <1>2 DEF D
  <2> QED BY <2>1, SuperclassesAre
<1>7. P \subseteq D
  BY <1>3, <1>5, <1>6
<1>8. P \subseteq D \ {c}
  BY <1>4, <1>7
<1> QED BY <1>4, <1>5, <1>8 DEF Inherited, P, D

(* In the beginning nothing has come, and all classes are waiting.                  *)
LEMMA BeginPushKeeps ==
  ASSUME GraphIsRight, C!BeginPush
  PROVE  PushIsRight'
<1>1. /\ phase = "modules" /\ work = << >> /\ phase' = "push" /\ work' = known
      /\ UNCHANGED <<world, seen, known, edges>>
      /\ attributes' = [attributes EXCEPT !["object"] = attributes["object"] \ C!Stubs]
      /\ reachIn' = [c \in Met |-> {}] /\ reachOut' = [c \in Met |-> {}]
  BY DEF C!BeginPush, Met
<1>2. Met' = Met /\ C!ToSet(work)' = Met
  BY <1>1 DEF Met, C!ToSet
<1>3. C!World' = C!World
  BY <1>1 DEF C!World
<1>4. \A c : Own(c)' = Own(c)
  BY <1>1, <1>3 DEF C!Class, C!AttributesOf, Own
<1>5. \A c : Inherited(c)' = Inherited(c)
  BY <1>1, <1>4 DEF Inherited
<1>6. /\ known \in Seq(There)
      /\ attributes = [t \in Met |-> IF t \in seen THEN C!AttributesOf(t) ELSE {}]
  <2>1. C!ToSet(work) = {}
    BY <1>1 DEF C!ToSet
  <2> QED BY <1>1, <2>1 DEF GraphIsRight, Analysing
<1>7. work' \in Seq(Met')
  <2>1. known \in Seq(Met)
    <3> HIDE DEF There
    <3> QED BY <1>6, SetOf DEF Met
  <2> QED BY <1>1, <1>2, <2>1
<1>8. DOMAIN attributes' = Met /\ \A c \in Met : attributes'[c] = Own(c)
  <2>1. DOMAIN attributes = Met /\ \A c \in Met : attributes[c] = IF c \in seen THEN C!AttributesOf(c) ELSE {}
    BY <1>6
  <2>2. DOMAIN attributes' = Met
    BY <1>1, <2>1
  <2>3. ASSUME NEW c \in Met PROVE attributes'[c] = IF c = "object" THEN attributes[c] \ C!Stubs ELSE attributes[c]
    BY <1>1, <2>1
  <2> QED BY <2>1, <2>2, <2>3 DEF Own
<1>9. \A c \in Met : reachIn'[c] = {} /\ reachOut'[c] = {}
  BY <1>1
<1>10. DOMAIN reachIn' = Met /\ DOMAIN reachOut' = Met
  BY <1>1
<1> QED BY <1>1, <1>2, <1>4, <1>7, <1>8, <1>9, <1>10 DEF PushIsRight, Analysing

(* When what a class passes on changes, its subclasses are waiting again.            *)
LEMMA PushDownKeeps ==
  ASSUME AnalysisIsRight, GraphIsRight, PushIsRight, C!PushDown
  PROVE  PushIsRight'
<1> DEFINE c == C!Last(work)
           arrives == reachIn[c] \cup UNION {reachOut[p] : p \in {p \in Met : <<p, c>> \in edges}}
           next == {s \in Met : <<c, s>> \in edges}
           again == IF reachOut'[c] = reachOut[c] THEN << >> ELSE C!Among(known, next)
<1>1. /\ phase = "push" /\ phase' = "push" /\ work # << >> /\ UNCHANGED <<world, seen, known, edges>>
      /\ reachIn' = [reachIn EXCEPT ![c] = arrives]
      /\ attributes' = [attributes EXCEPT ![c] = attributes[c] \ arrives]
      /\ reachOut' = [reachOut EXCEPT ![c] = arrives \cup attributes'[c]]
      /\ work' = C!Front(work) \o again
  BY DEF C!PushDown, Met
<1>2. Met' = Met /\ C!World' = C!World
  BY <1>1 DEF Met, C!ToSet, C!World
<1>3. \A x : Own(x)' = Own(x)
  BY <1>1, <1>2 DEF C!Class, C!AttributesOf, Own
<1>4. \A x : Inherited(x)' = Inherited(x)
  BY <1>1, <1>3 DEF Inherited
<1>5. world \in DOMAIN ClsWorlds /\ ~Analysing /\ phase # "builtins" /\ known \in Seq(Met)
  <2>1. world \in DOMAIN ClsWorlds /\ ~Analysing /\ phase # "builtins"
    BY <1>1 DEF AnalysisIsRight, Analysing
  <2>2. known \in Seq(There)
    BY DEF GraphIsRight
  <2> HIDE DEF There
  <2>3. known \in Seq(Met)
    BY <2>2, SetOf DEF Met
  <2> QED BY <2>1, <2>3
<1>6. /\ work \in Seq(Met) /\ DOMAIN reachIn = Met /\ DOMAIN reachOut = Met /\ DOMAIN attributes = Met
      /\ \A x \in Met : /\ attributes[x] = Own(x) \ reachIn[x]
                        /\ reachIn[x] \subseteq Inherited(x)
                        /\ reachOut[x] \subseteq reachIn[x] \cup Own(x)
      /\ \A x \in Met \ C!ToSet(work) :
           /\ reachIn[x] \cup Own(x) \subseteq reachOut[x]
           /\ \A p \in Met : <<p, x>> \in edges => reachOut[p] \subseteq reachIn[x]
  BY <1>1 DEF PushIsRight, Analysing
<1>7. /\ C!Front(work) \in Seq(Met) /\ C!ToSet(work) \subseteq Met
      /\ C!ToSet(work) = C!ToSet(C!Front(work)) \cup {c}
  <2> HIDE DEF c
  <2> QED BY <1>1, <1>6, SetOf, SetOfFront DEF c
<1>8. c \in Met
  BY <1>7
<1>9. /\ again \in Seq(Met)
      /\ C!ToSet(again) = IF reachOut'[c] = reachOut[c] THEN {} ELSE next
  <2>1. C!Among(known, next) \in Seq(Met) /\ C!ToSet(C!Among(known, next)) = Met \cap next
    <3> HIDE DEF next
    <3>1. Among(known, next) \in Seq(Met) /\ ToSet(Among(known, next)) = ToSet(known) \cap next
      BY <1>5, AmongIs
    <3> QED BY <3>1, SameAmong DEF Met
  <2>2. C!ToSet(<< >>) = {}
    BY DEF C!ToSet
  <2>3. Met \cap next = next
    OBVIOUS
  <2> HIDE DEF next, c
  <2>4. CASE reachOut'[c] = reachOut[c]
    <3>1. again = << >>
      BY <2>4
    <3> QED BY <2>2, <2>4, <3>1
  <2>5. CASE reachOut'[c] # reachOut[c]
    <3>1. again = C!Among(known, next)
      BY <2>5
    <3> QED BY <2>1, <2>3, <2>5, <3>1
  <2> QED BY <2>4, <2>5
<1> HIDE DEF again, c
<1>10. /\ work' \in Seq(Met)
       /\ C!ToSet(work)' = C!ToSet(C!Front(work)) \cup (IF reachOut'[c] = reachOut[c] THEN {} ELSE next)
  <2>1. C!ToSet(work)' = C!ToSet(work')
    BY DEF C!ToSet
  <2> DEFINE front == C!Front(work)
  <2>2. front \in Seq(Met) /\ again \in Seq(Met) /\ work' = front \o again
    BY <1>1, <1>7, <1>9
  <2> HIDE DEF next, front
  <2>3. front \o again \in Seq(Met) /\ C!ToSet(front \o again) = C!ToSet(front) \cup C!ToSet(again)
    BY <2>2, SetOfJoined, JoinedIsSequence
  <2> QED BY <1>9, <2>1, <2>2, <2>3 DEF front
<1>11. /\ reachIn[c] \subseteq arrives /\ arrives \subseteq Inherited(c)
       /\ \A p \in Met : <<p, c>> \in edges => p # c /\ reachOut[p] \subseteq arrives
  <2>1. ASSUME NEW p \in Met, <<p, c>> \in edges
        PROVE  p # c /\ reachOut[p] \subseteq Inherited(c)
    <3>1. p # c /\ Own(p) \cup Inherited(p) \subseteq Inherited(c)
      BY <1>5, <2>1, InheritedFrom, Zenon
    <3>2. reachOut[p] \subseteq reachIn[p] \cup Own(p) /\ reachIn[p] \subseteq Inherited(p)
      BY <1>6
    <3> QED BY <3>1, <3>2
  <2>2. \A v : v \in arrives <=> \/ v \in reachIn[c]
                                \/ \E p \in Met : <<p, c>> \in edges /\ v \in reachOut[p]
    OBVIOUS
  <2>3. reachIn[c] \subseteq Inherited(c)
    BY <1>6, <1>8
  <2> HIDE DEF arrives
  <2> QED BY <2>1, <2>2, <2>3
<1> HIDE DEF arrives
<1>12. /\ DOMAIN reachIn' = Met /\ DOMAIN reachOut' = Met /\ DOMAIN attributes' = Met
       /\ reachIn'[c] = arrives /\ attributes'[c] = Own(c) \ arrives /\ reachOut'[c] = arrives \cup Own(c)
       /\ \A x \in Met \ {c} : /\ reachIn'[x] = reachIn[x] /\ attributes'[x] = attributes[x]
                               /\ reachOut'[x] = reachOut[x]
  <2>1. attributes'[c] = attributes[c] \ arrives
    BY <1>1, <1>6, <1>8
  <2>2. attributes'[c] = Own(c) \ arrives
    BY <1>6, <1>8, <1>11, <2>1
  <2>3. reachOut'[c] = arrives \cup Own(c)
    BY <1>1, <1>6, <1>8, <2>2
  <2> QED BY <1>1, <1>6, <1>8, <2>2, <2>3
<1>13. ASSUME NEW x \in Met
       PROVE  /\ attributes'[x] = Own(x) \ reachIn'[x] /\ reachIn'[x] \subseteq Inherited(x)
              /\ reachOut'[x] \subseteq reachIn'[x] \cup Own(x)
  <2>1. CASE x = c
    BY <1>11, <1>12, <2>1
  <2>2. CASE x # c
    BY <1>6, <1>12, <2>2
  <2> QED BY <2>1, <2>2
<1>14. ASSUME NEW x \in Met, x \notin C!ToSet(work)', NEW p \in Met, <<p, x>> \in edges
       PROVE  reachOut'[p] \subseteq reachIn'[x]
  <2>1. CASE x = c
    BY <1>11, <1>12, <1>14, <2>1
  <2>2. CASE x # c
    <3>1. x \notin C!ToSet(work)
      BY <1>7, <1>10, <1>14, <2>2
    <3>2. reachOut[p] \subseteq reachIn[x] /\ reachIn'[x] = reachIn[x]
      BY <1>6, <1>12, <1>14, <2>2, <3>1
    <3>3. p = c => reachOut'[c] = reachOut[c]
      BY <1>10, <1>14
    <3> QED BY <1>12, <3>2, <3>3
  <2> QED BY <2>1, <2>2
<1>15. ASSUME NEW x \in Met, x \notin C!ToSet(work)'
       PROVE  reachIn'[x] \cup Own(x) \subseteq reachOut'[x]
  <2>1. CASE x = c
    BY <1>12, <2>1
  <2>2. CASE x # c
    BY <1>6, <1>7, <1>10, <1>12, <1>15, <2>2
  <2> QED BY <2>1, <2>2
<1>16. \A x, p : (<<p, x>> \in edges)' <=> <<p, x>> \in edges
  BY <1>1
<1>17. (work \in Seq(Met))' /\ (phase = "search" => work = << >>)'
  BY <1>1, <1>2, <1>10
<1> QED BY <1>1, <1>2, <1>3, <1>4, <1>12, <1>13, <1>14, <1>15, <1>16, <1>17 DEF PushIsRight

LEMMA PushStays ==
  ASSUME PushIsRight, ~Analysing, phase' = "search" => work = << >>,
         UNCHANGED <<world, seen, known, edges, attributes, reachIn, reachOut, work>>
  PROVE  PushIsRight'
<1>1. Met' = Met /\ C!World' = C!World /\ C!ToSet(work)' = C!ToSet(work)
  BY DEF Met, C!ToSet, C!World
<1>2. \A x : Own(x)' = Own(x)
  BY <1>1 DEF C!Class, C!AttributesOf, Own
<1>3. \A x : Inherited(x)' = Inherited(x)
  BY <1>2 DEF Inherited
<1> QED BY <1>1, <1>2, <1>3 DEF PushIsRight

LEMMA ClassesInit == C!Init => GraphIsRight /\ PushIsRight
<1>1. C!Init => PushIsRight
  BY DEF C!Init, C!AnalysisInit, PushIsRight, Analysing
<1> QED BY <1>1, GraphInit

LEMMA ClassesNext == ClusterInv /\ GraphIsRight /\ PushIsRight /\ C!Next => GraphIsRight' /\ PushIsRight'
<1> SUFFICES ASSUME ClusterInv, GraphIsRight, PushIsRight, C!Next PROVE GraphIsRight' /\ PushIsRight'
  OBVIOUS
<1>1. AnalysisIsRight
  BY DEF ClusterInv
<1>2. CASE C!AnalyseClass
  <2>1. Analysing'
    BY <1>2 DEF C!AnalyseClass, Analysing
  <2> QED BY <1>1, <1>2, <2>1, ClassKeepsGraph DEF PushIsRight
<1>3. CASE C!EnableNumericTower
  <2>1. Analysing'
    BY <1>3 DEF C!EnableNumericTower, Analysing
  <2> QED BY <1>1, <1>3, <2>1, TowerKeepsGraph DEF PushIsRight
<1>11. CASE C!AnalyseFunctions
  <2>1. Analysing'
    BY <1>11 DEF C!AnalyseFunctions, Analysing
  <2> QED BY <1>1, <1>11, <2>1, FunctionsKeepGraph DEF PushIsRight
<1>4. CASE C!NextModule
  <2>1. /\ phase = "modules" /\ phase' = "modules" /\ work = << >>
        /\ UNCHANGED <<world, seen, known, edges, attributes>>
    BY <1>4 DEF C!NextModule, C!graphVars
  <2>2. GraphIsRight'
    BY <2>1, GraphStays DEF Analysing
  <2>3. Analysing'
    BY <2>1 DEF Analysing
  <2> QED BY <2>2, <2>3 DEF PushIsRight
<1>5. CASE C!BeginPush
  <2>1. /\ phase = "modules" /\ phase' = "push" /\ work = << >>
        /\ UNCHANGED <<world, seen, known, edges>>
    BY <1>5 DEF C!BeginPush
  <2>2. GraphIsRight'
    BY <2>1, GraphStays DEF Analysing
  <2> QED BY <1>5, <2>2, BeginPushKeeps
<1>6. CASE C!PushDown
  <2>1. /\ phase = "push" /\ phase' = "push" /\ UNCHANGED <<world, seen, known, edges>>
    BY <1>6 DEF C!PushDown
  <2>2. GraphIsRight'
    BY <2>1, GraphStays DEF Analysing
  <2> QED BY <1>1, <1>6, <2>2, PushDownKeeps
<1>7. ASSUME phase' = "search", phase = "search" \/ (phase = "push" /\ work = << >>),
             UNCHANGED <<world, seen, known, edges, attributes, reachIn, reachOut, work>>
      PROVE  GraphIsRight' /\ PushIsRight'
  <2>1. ~Analysing /\ ~Analysing' /\ work = << >> /\ phase # "builtins" /\ phase' # "builtins"
    BY <1>7 DEF Analysing, PushIsRight
  <2>2. GraphIsRight'
    BY <1>7, <2>1, GraphStays
  <2> QED BY <1>7, <2>1, <2>2, PushStays
<1>8. CASE C!BeginSearch
  <2>1. /\ phase' = "search" /\ phase = "push" /\ work = << >>
        /\ UNCHANGED <<world, seen, known, edges, attributes, reachIn, reachOut, work>>
    BY <1>8 DEF C!BeginSearch, C!Analysed, C!loopVars, C!graphVars, C!pushVars
  <2> QED BY <1>7, <2>1
<1>9. CASE \/ \E t \in uncovered : C!Cover(t)
           \/ \E a \in DOMAIN returns : \E t \in C!Returned(a) : C!UpdateReturnType(a, t)
           \/ \E t \in ClsAsked : C!GetGeneratorsFor(t)
           \/ C!GetAllGeneratableTypes
  <2>1. phase = "search" /\ UNCHANGED C!analysisVars
    BY <1>9 DEF C!Cover, C!UpdateReturnType, C!GetGeneratorsFor, C!GetAllGeneratableTypes
  <2>2. UNCHANGED <<world, phase, seen, known, edges, attributes, reachIn, reachOut, work>>
    BY <2>1 DEF C!analysisVars, C!loopVars, C!graphVars, C!pushVars
  <2> QED BY <1>7, <2>1, <2>2
<1>10. ~(C!Analysed /\ phase' # "search")
  BY DEF C!Analysed
<1> QED BY <1>2, <1>3, <1>4, <1>5, <1>6, <1>8, <1>9, <1>10, <1>11 DEF C!Next, C!Analyse

(* At the end a class has those of its attributes that none of the classes above it  *)
(* in the graph has, which are those that it really derives from.                   *)
LEMMA ClassesKnown ==
  ASSUME ClusterInv, GraphIsRight, PushIsRight
  PROVE  C!ClassesAreKnown
<1>1. world \in DOMAIN ClsWorlds
  BY DEF ClusterInv, AnalysisIsRight
<1>2. ASSUME phase \in {"push", "search"}
      PROVE  /\ ~Analysing /\ phase # "builtins" /\ seen \subseteq Met /\ IsFiniteSet(edges)
             /\ \A e \in edges : e = <<e[1], e[2]>> /\ e[1] \in seen /\ e[2] \in seen
             /\ \A c : C!Superclasses(edges, c) \subseteq C!RealSuperclasses(c)
             /\ \A c \in Met \ seen : C!Superclasses(edges, c) = {c}
             /\ \A c \in C!AreRead : /\ C!Superclasses(edges, c) = C!RealSuperclasses(c)
                                     /\ c \in C!RealSuperclasses(c) /\ C!RealSuperclasses(c) \subseteq seen
  <2>1. ~Analysing /\ phase # "builtins"
    BY <1>2 DEF Analysing
  <2> QED BY <1>1, <2>1, KnownAreClosed, Zenon
<1>3. C!HierarchyIsKnown
  BY <1>2 DEF C!HierarchyIsKnown, Met
<1>4. ASSUME phase = "search", NEW c \in Met
      PROVE  reachIn[c] = Inherited(c) /\ attributes[c] = Own(c) \ reachIn[c]
  <2> DEFINE D == C!Superclasses(edges, c)
             K == {x \in Met : x = c \/ reachOut[x] \subseteq reachIn[c]}
  <2>1. C!ToSet(work) = {} /\ ~Analysing
    BY <1>4 DEF PushIsRight, Analysing, C!ToSet
  <2>2. /\ \A x \in Met : /\ attributes[x] = Own(x) \ reachIn[x]
                          /\ reachIn[x] \subseteq Inherited(x)
                          /\ reachIn[x] \cup Own(x) \subseteq reachOut[x]
                          /\ \A p \in Met : <<p, x>> \in edges => reachOut[p] \subseteq reachIn[x]
    BY <2>1 DEF PushIsRight
  <2>3. \A e \in edges : e[2] \in K => e[1] \in K
    <3> SUFFICES ASSUME NEW e \in edges, e[2] \in K PROVE e[1] \in K
      OBVIOUS
    <3>1. e = <<e[1], e[2]>> /\ e[1] \in Met /\ e[2] \in Met
      BY <1>2, <1>4
    <3>2. reachOut[e[1]] \subseteq reachIn[e[2]]
      BY <2>2, <3>1
    <3> QED BY <2>2, <3>1, <3>2
  <2>4. D \subseteq K
    <3>1. IsFiniteSet(edges) /\ D = C!Superclasses(edges, c) /\ c \in K
      BY <1>2, <1>4
    <3> HIDE DEF D, K
    <3>2. \A T : c \in T /\ (\A e \in edges : e[2] \in T => e[1] \in T) => D \subseteq T
      BY <3>1, SuperclassesAre
    <3> QED BY <2>3, <3>1, <3>2
  <2>5. ASSUME NEW s \in D \ {c} PROVE Own(s) \subseteq reachIn[c]
    BY <2>2, <2>4, <2>5
  <2>6. Inherited(c) \subseteq reachIn[c]
    BY <2>5 DEF Inherited
  <2> QED BY <2>2, <2>6
<1>5. C!AttributesLeadToTheTop
  <2> DEFINE Real(s) == C!Class(s).attributes \ (IF s = "object" THEN C!Stubs ELSE {})
  <2>1. ASSUME phase = "search", NEW c \in C!AreRead, NEW a \in Real(c)
        PROVE  c \in C!FindByAttribute(a) <=> ~\E s \in C!RealSuperclasses(c) \ {c} : a \in Real(s)
    <3>1. c \in Met /\ c \in C!RealSuperclasses(c) /\ C!RealSuperclasses(c) \subseteq seen
          /\ C!Superclasses(edges, c) = C!RealSuperclasses(c)
      BY <1>2, <2>1
    <3>2. \A s \in C!RealSuperclasses(c) : Own(s) = Real(s)
      BY <2>1, <3>1 DEF C!AreRead, C!AttributesOf, Own
    <3> HIDE DEF Real
    <3>3. c \in C!FindByAttribute(a) <=> a \in attributes[c]
      BY <3>1 DEF C!FindByAttribute, Met
    <3>4. a \in attributes[c] <=> a \notin Inherited(c)
      BY <1>4, <2>1, <3>1, <3>2
    <3> QED BY <3>1, <3>2, <3>3, <3>4 DEF Inherited
  <2>2. ASSUME phase = "search", NEW c \in Met \ seen PROVE attributes[c] = {}
    BY <1>4, <2>2 DEF Own
  <2> QED BY <2>1, <2>2 DEF C!AttributesLeadToTheTop, Met
<1> QED BY <1>3, <1>5 DEF C!ClassesAreKnown
--------------------------------------------------------------------------------
(* Subtypes.                                                                       *)

Pairs == ClsTypes \X ClsTypes

(* The checks of two types, with a function or a relation for those of their parts. *)
Checked(f, E, maybe, l, r) ==
  IF r.kind = "any" \/ l.kind = "any" THEN TRUE
  ELSE IF l.kind = "union"
  THEN IF maybe THEN \E k \in DOMAIN l.items : f[<<l.items[k], r>>]
       ELSE \A k \in DOMAIN l.items : f[<<l.items[k], r>>]
  ELSE IF r.kind = "union" THEN \E k \in DOMAIN r.items : f[<<l, r.items[k]>>]
  ELSE /\ l.kind = r.kind
       /\ l.kind = "tuple" =>
            Len(l.args) = Len(r.args) /\ \A k \in DOMAIN l.args : f[<<l.args[k], r.args[k]>>]
       /\ l.kind = "instance" =>
            /\ C!IsSubclass(E, l.class, r.class)
            /\ {l.class, r.class} \subseteq C!Generics /\ Len(l.args) = Len(r.args) =>
                 \A k \in DOMAIN l.args : f[<<l.args[k], r.args[k]>>] /\ f[<<r.args[k], l.args[k]>>]

(* The kinds agree, and the parts as far as they must.                              *)
OneOf(R, l, r) ==
  /\ l.kind = r.kind
  /\ l.kind = "tuple" =>
       Len(l.args) = Len(r.args) /\ \A k \in DOMAIN l.args : <<l.args[k], r.args[k]>> \in R
  /\ l.kind = "instance" /\ {l.class, r.class} \subseteq C!Generics /\ Len(l.args) = Len(r.args) =>
       \A k \in DOMAIN l.args : <<l.args[k], r.args[k]>> \in R /\ <<r.args[k], l.args[k]>> \in R

AreRelated(R, E, maybe, l, r) ==
  \/ r.kind = "any" \/ l.kind = "any"
  \/ /\ r.kind # "any" /\ l.kind = "union"
     /\ maybe => \E k \in DOMAIN l.items : <<l.items[k], r>> \in R
     /\ ~maybe => \A k \in DOMAIN l.items : <<l.items[k], r>> \in R
  \/ /\ l.kind \notin {"any", "union"} /\ r.kind = "union"
     /\ \E k \in DOMAIN r.items : <<l, r.items[k]>> \in R
  \/ /\ l.kind \notin {"any", "union"} /\ r.kind \notin {"any", "union"} /\ OneOf(R, l, r)
     /\ l.kind = "instance" => C!IsSubclass(E, l.class, r.class)

Relates(R, E, maybe) ==
  R \subseteq Pairs /\ \A l, r \in ClsTypes : <<l, r>> \in R <=> AreRelated(R, E, maybe, l, r)

(* The parts of types are types.                                                   *)
LEMMA PartsAre ==
  /\ \A t \in ClsTypes :
       /\ t.kind = "union" => /\ t.items # << >> /\ DOMAIN t.items # {}
                              /\ \A k \in DOMAIN t.items :
                                   /\ t.items[k] \in ClsTypes /\ t.items[k].kind # "union"
                                   /\ t.items[k] \in C!Parts(t)
       /\ t.kind \in {"tuple", "instance"} =>
            /\ DOMAIN t.args = 1 .. Len(t.args)
            /\ \A k \in DOMAIN t.args : t.args[k] \in ClsTypes /\ t.args[k] \in C!Parts(t)
       /\ t.kind = "instance" /\ t.class \in C!Generics => Len(t.args) = C!Parameters(t.class)
  /\ C!MadeOf(C!TypeKinds) = ClsTypes /\ IsFiniteSet(ClsTypes)
<1>1. /\ IsFiniteSet(ClsTypes) /\ C!MadeOf(C!TypeKinds) = ClsTypes
      /\ \A t \in ClsTypes :
           /\ t.kind = "union" => /\ t.items \in Seq(ClsTypes) /\ t.items # << >>
                                  /\ \A k \in DOMAIN t.items : t.items[k].kind # "union"
           /\ t.kind \in {"tuple", "instance"} => t.args \in Seq(ClsTypes)
           /\ t.kind = "instance" /\ t.class \in C!Generics => Len(t.args) = C!Parameters(t.class)
  BY OtherConstants, SameFinite DEF C!TypesType
<1>2. ASSUME NEW t \in ClsTypes, t.kind = "union"
      PROVE  /\ DOMAIN t.items # {}
             /\ \A k \in DOMAIN t.items : t.items[k] \in ClsTypes /\ t.items[k] \in C!Parts(t)
  <2> DEFINE s == t.items
  <2>1. s \in Seq(ClsTypes) /\ s # << >> /\ C!Parts(t) = C!ToSet(s)
    BY <1>1, <1>2 DEF C!Parts
  <2> HIDE DEF s
  <2>2. DOMAIN s = 1 .. Len(s) /\ Len(s) \in Nat /\ Len(s) # 0
    BY <2>1
  <2>3. DOMAIN s # {} /\ \A k \in DOMAIN s : s[k] \in ClsTypes /\ s[k] \in C!ToSet(s)
    BY <2>1, <2>2 DEF C!ToSet
  <2> QED BY <2>1, <2>3 DEF s
<1>3. ASSUME NEW t \in ClsTypes, t.kind \in {"tuple", "instance"}
      PROVE  /\ DOMAIN t.args = 1 .. Len(t.args)
             /\ \A k \in DOMAIN t.args : t.args[k] \in ClsTypes /\ t.args[k] \in C!Parts(t)
  <2> DEFINE s == t.args
  <2>1. s \in Seq(ClsTypes) /\ C!Parts(t) = C!ToSet(s)
    BY <1>1, <1>3 DEF C!Parts
  <2> HIDE DEF s
  <2>2. DOMAIN s = 1 .. Len(s) /\ \A k \in DOMAIN s : s[k] \in ClsTypes /\ s[k] \in C!ToSet(s)
    BY <2>1 DEF C!ToSet
  <2> QED BY <2>1, <2>2 DEF s
<1> QED BY <1>1, <1>2, <1>3

(* A function of pairs is as good as a relation.                                   *)
LEMMA CheckedIsRelated ==
  ASSUME NEW f, NEW R, \A x \in Pairs : f[x] <=> x \in R, NEW E, NEW maybe \in BOOLEAN,
         NEW l \in ClsTypes, NEW r \in ClsTypes
  PROVE  Checked(f, E, maybe, l, r) <=> AreRelated(R, E, maybe, l, r)
<1>1. \A a, b \in ClsTypes : f[<<a, b>>] <=> <<a, b>> \in R
  BY DEF Pairs
<1>2. CASE l.kind = "any" \/ r.kind = "any"
  BY <1>2 DEF Checked, AreRelated
<1>3. CASE l.kind # "any" /\ r.kind # "any" /\ l.kind = "union"
  <2>1. \A k \in DOMAIN l.items : f[<<l.items[k], r>>] <=> <<l.items[k], r>> \in R
    BY <1>1, <1>3, PartsAre
  <2> QED BY <1>3, <2>1 DEF Checked, AreRelated
<1>4. CASE l.kind \notin {"any", "union"} /\ r.kind = "union"
  <2>1. \A k \in DOMAIN r.items : f[<<l, r.items[k]>>] <=> <<l, r.items[k]>> \in R
    BY <1>1, <1>4, PartsAre
  <2> QED BY <1>4, <2>1 DEF Checked, AreRelated
<1>5. CASE l.kind \notin {"any", "union"} /\ r.kind \notin {"any", "union"}
  <2>1. ASSUME l.kind \in {"tuple", "instance"}, l.kind = r.kind, Len(l.args) = Len(r.args), NEW k \in DOMAIN l.args
        PROVE  /\ f[<<l.args[k], r.args[k]>>] <=> <<l.args[k], r.args[k]>> \in R
               /\ f[<<r.args[k], l.args[k]>>] <=> <<r.args[k], l.args[k]>> \in R
    <3>1. DOMAIN l.args = 1 .. Len(l.args) /\ DOMAIN r.args = 1 .. Len(r.args)
      BY <2>1, PartsAre
    <3>2. l.args[k] \in ClsTypes /\ r.args[k] \in ClsTypes
      BY <2>1, <3>1, PartsAre
    <3> QED BY <1>1, <3>2
  <2> QED BY <1>5, <2>1 DEF Checked, AreRelated, OneOf
<1> QED BY <1>2, <1>3, <1>4, <1>5

LEMMA RelatedGrows ==
  ASSUME NEW R, NEW Q, R \subseteq Q, NEW E, NEW maybe \in BOOLEAN, NEW l, NEW r, AreRelated(R, E, maybe, l, r)
  PROVE  AreRelated(Q, E, maybe, l, r)
<1>1. OneOf(R, l, r) => OneOf(Q, l, r)
  BY DEF OneOf
<1> QED BY <1>1 DEF AreRelated

(* The recursive definition has a solution, since more parts that are related never  *)
(* make less types related: the least relation that the rules are closed under.    *)
LEMMA SubtypesAre ==
  ASSUME NEW E, NEW maybe \in BOOLEAN, NEW R, R = {p \in Pairs : C!Subtype(E, maybe, p[1], p[2])}
  PROVE  Relates(R, E, maybe)
<1> DEFINE IsIt(f) == f = [p \in Pairs |-> Checked(f, E, maybe, p[1], p[2])]
           Solution == CHOOSE f : IsIt(f)
           Rule(Q, p) == AreRelated(Q, E, maybe, p[1], p[2])
           Kept(Q) == \A p \in Pairs : Rule(Q, p) => p \in Q
           Least == {p \in Pairs : \A Q \in SUBSET Pairs : Kept(Q) => p \in Q}
<1>1. \A l, r : C!Subtype(E, maybe, l, r) = Solution[<<l, r>>]
  BY DEF C!Subtype, Checked, Pairs
<1>2. \A Q, Z : \A p : Q \subseteq Z /\ Rule(Q, p) => Rule(Z, p)
  BY RelatedGrows
<1> HIDE DEF Rule
<1>3. \A p \in Pairs : Rule(Least, p) <=> p \in Least
  <2>1. ASSUME NEW p \in Pairs, Rule(Least, p) PROVE p \in Least
    <3> SUFFICES ASSUME NEW Q \in SUBSET Pairs, Kept(Q) PROVE p \in Q
      OBVIOUS
    <3>1. Least \subseteq Q
      OBVIOUS
    <3> HIDE DEF Least
    <3> QED BY <1>2, <2>1, <3>1
  <2> DEFINE After == {p \in Pairs : Rule(Least, p)}
  <2>2. After \subseteq Least
    <3> HIDE DEF Least
    <3> QED BY <2>1
  <2>3. Kept(After)
    <3> SUFFICES ASSUME NEW p \in Pairs, Rule(After, p) PROVE Rule(Least, p)
      OBVIOUS
    <3> HIDE DEF Least, After
    <3> QED BY <1>2, <2>2
  <2>4. After \in SUBSET Pairs
    OBVIOUS
  <2>5. Least \subseteq After
    <3> HIDE DEF After
    <3> QED BY <2>3, <2>4
  <2> HIDE DEF Least
  <2> QED BY <2>1, <2>5
<1> DEFINE g == [p \in Pairs |-> p \in Least]
<1>4. IsIt(g)
  <2>1. \A x \in Pairs : g[x] <=> x \in Least
    OBVIOUS
  <2> HIDE DEF g, Least
  <2>2. ASSUME NEW p \in Pairs PROVE (p \in Least) <=> Checked(g, E, maybe, p[1], p[2])
    <3>1. p[1] \in ClsTypes /\ p[2] \in ClsTypes
      BY DEF Pairs
    <3>2. Checked(g, E, maybe, p[1], p[2]) <=> AreRelated(Least, E, maybe, p[1], p[2])
      BY <2>1, <3>1, CheckedIsRelated, Zenon
    <3> QED BY <1>3, <3>2 DEF Rule
  <2>3. \A p \in Pairs : Checked(g, E, maybe, p[1], p[2]) \in BOOLEAN
    BY DEF Checked
  <2>4. \A p \in Pairs : (p \in Least) = Checked(g, E, maybe, p[1], p[2])
    BY <2>2, <2>3
  <2>5. g = [p \in Pairs |-> p \in Least]
    BY DEF g
  <2> HIDE DEF Pairs
  <2> QED BY <2>4, <2>5
<1>5. IsIt(Solution)
  <2> HIDE DEF IsIt
  <2> QED BY <1>4
<1>6. \A p \in Pairs : Solution[p] = Checked(Solution, E, maybe, p[1], p[2])
  <2> HIDE DEF Solution
  <2> QED BY <1>5
<1> HIDE DEF Solution
<1>7. \A x \in Pairs : Solution[x] <=> x \in R
  <2> SUFFICES ASSUME NEW x \in Pairs PROVE Solution[x] <=> x \in R
    OBVIOUS
  <2>1. x = <<x[1], x[2]>>
    BY DEF Pairs
  <2>2. C!Subtype(E, maybe, x[1], x[2]) = Solution[x]
    BY <1>1, <2>1
  <2> QED BY <2>2
<1>8. ASSUME NEW l \in ClsTypes, NEW r \in ClsTypes
      PROVE  <<l, r>> \in R <=> AreRelated(R, E, maybe, l, r)
  <2> DEFINE x == <<l, r>>
  <2>1. x \in Pairs /\ x[1] = l /\ x[2] = r
    BY DEF Pairs
  <2> HIDE DEF x
  <2>2. Solution[x] <=> Checked(Solution, E, maybe, l, r)
    BY <1>6, <2>1
  <2>3. Checked(Solution, E, maybe, l, r) <=> AreRelated(R, E, maybe, l, r)
    BY <1>7, CheckedIsRelated, Zenon
  <2> QED BY <1>7, <2>1, <2>2, <2>3 DEF x
<1> QED BY <1>8 DEF Relates

(* What types are made of is found level by level.                                 *)
LEMMA MadeOfIs ==
  ASSUME NEW kinds, NEW D, D = C!MadeOf(kinds)
  PROVE  /\ \A t \in D : t \in ClsTypes /\ t.kind \in kinds /\ C!Parts(t) \subseteq D
         /\ \A P : (\A t \in ClsTypes : t.kind \in kinds /\ C!Parts(t) \subseteq P => t \in P) => D \subseteq P
<1> DEFINE m == C!Cardinality(ClsTypes)
           Level(s) == {t \in ClsTypes : t.kind \in kinds /\ C!Parts(t) \subseteq s}
           Unfolds(f) == f = [n \in 0 .. m |-> IF n = 0 THEN {} ELSE Level(f[n - 1])]
           next == [u \in (SUBSET ClsTypes) \X (1 .. m) |-> Level(u[1])]
           chosen == CHOOSE f : Unfolds(f)
<1>1. m \in Nat
  BY PartsAre, SameCardinality, FS_CardinalityType
<1>2. D = chosen[m]
  BY DEF C!MadeOf
<1> HIDE DEF m
<1>3. PICK f : Recurs(f, m, SUBSET ClsTypes, {}, next)
  <2>1. next \in [(SUBSET ClsTypes) \X (1 .. m) -> SUBSET ClsTypes]
    OBVIOUS
  <2>2. {} \in SUBSET ClsTypes
    OBVIOUS
  <2> HIDE DEF next
  <2> QED BY <1>1, <2>1, <2>2, RecursionFromExists
<1>4. \A n \in 1 .. m : f[n] = Level(f[n - 1])
  <2> SUFFICES ASSUME NEW n \in 1 .. m PROVE f[n] = Level(f[n - 1])
    OBVIOUS
  <2> DEFINE u == <<f[n - 1], n>>
  <2>1. f[n] = next[u]
    <3> HIDE DEF next
    <3> QED BY <1>3 DEF Recurs
  <2>2. u \in (SUBSET ClsTypes) \X (1 .. m) /\ u[1] = f[n - 1]
    <3>1. n - 1 \in 0 .. m
      BY <1>1
    <3>2. f[n - 1] \in SUBSET ClsTypes
      <4> HIDE DEF next
      <4> QED BY <1>3, <3>1 DEF Recurs
    <3> QED BY <3>2
  <2> HIDE DEF u, Level
  <2> QED BY <2>1, <2>2
<1> HIDE DEF next
<1>5. Unfolds(f)
  <2>1. f = [n \in 0 .. m |-> f[n]] /\ f[0] = {}
    BY <1>3 DEF Recurs
  <2>2. \A n \in 0 .. m : n # 0 => n \in 1 .. m
    BY <1>1
  <2> HIDE DEF Level
  <2>3. \A n \in 0 .. m : f[n] = IF n = 0 THEN {} ELSE Level(f[n - 1])
    BY <1>4, <2>1, <2>2
  <2> QED BY <2>1, <2>3, Zenon
<1>6. Unfolds(chosen)
  <2> HIDE DEF Unfolds
  <2> QED BY <1>5
<1> HIDE DEF chosen
<1>7. chosen[0] = {} /\ \A n \in 1 .. m : chosen[n] = Level(chosen[n - 1])
  <2> HIDE DEF Level
  <2>1. \A n \in 0 .. m : chosen[n] = IF n = 0 THEN {} ELSE Level(chosen[n - 1])
    BY <1>6
  <2>2. 0 \in 0 .. m /\ \A n \in 1 .. m : n \in 0 .. m /\ n # 0
    BY <1>1
  <2> QED BY <2>1, <2>2
<1>8. \A a, b : a \subseteq b => Level(a) \subseteq Level(b)
  OBVIOUS
<1>9. ASSUME NEW P, \A t \in ClsTypes : t.kind \in kinds /\ C!Parts(t) \subseteq P => t \in P
      PROVE  D \subseteq P
  <2>1. Level(P) \subseteq P
    BY <1>9
  <2> HIDE DEF Level
  <2> DEFINE T == {n \in 0 .. m : chosen[n] \subseteq P}
  <2>2. ASSUME NEW n \in 0 .. m, \A k \in 0 .. m : k < n => k \in T PROVE n \in T
    <3>1. CASE n = 0
      BY <1>7, <3>1
    <3>2. CASE n # 0
      <4>1. n - 1 \in 0 .. m /\ n - 1 < n /\ n \in 1 .. m
        BY <1>1, <3>2
      <4>2. chosen[n - 1] \subseteq P /\ chosen[n] = Level(chosen[n - 1])
        BY <1>7, <2>2, <4>1
      <4> QED BY <1>8, <2>1, <4>2
    <3> QED BY <3>1, <3>2
  <2>3. T = 0 .. m
    BY <1>1, <2>2, AllUpTo
  <2>4. m \in 0 .. m
    BY <1>1
  <2> QED BY <1>2, <2>3, <2>4
<1>10. \A n \in 1 .. m : chosen[n - 1] \subseteq chosen[n]
  <2> DEFINE T == {n \in 0 .. m : n = 0 \/ chosen[n - 1] \subseteq chosen[n]}
  <2> HIDE DEF Level
  <2>1. ASSUME NEW n \in 0 .. m, \A k \in 0 .. m : k < n => k \in T PROVE n \in T
    <3>1. CASE n = 0
      BY <3>1
    <3>2. CASE n = 1
      BY <1>7, <3>2
    <3>3. CASE n # 0 /\ n # 1
      <4>1. PICK k \in 1 .. m : k = n - 1
        BY <1>1, <3>3
      <4>2. k \in 0 .. m /\ k < n /\ k # 0 /\ n \in 1 .. m
        BY <1>1, <3>3, <4>1
      <4>3. chosen[k - 1] \subseteq chosen[k]
        BY <2>1, <4>2
      <4>4. chosen[n] = Level(chosen[k]) /\ chosen[k] = Level(chosen[k - 1])
        BY <1>7, <4>1, <4>2
      <4> QED BY <1>8, <4>1, <4>3, <4>4
    <3> QED BY <3>1, <3>2, <3>3
  <2>2. T = 0 .. m
    BY <1>1, <2>1, AllUpTo
  <2>3. \A n \in 1 .. m : n \in 0 .. m /\ n # 0
    BY <1>1
  <2> QED BY <2>2, <2>3
<1>11. D \subseteq Level(D)
  <2> HIDE DEF Level
  <2>1. CASE m = 0
    BY <1>2, <1>7, <2>1
  <2>2. CASE m # 0
    <3>1. m \in 1 .. m
      BY <1>1, <2>2
    <3> QED BY <1>2, <1>7, <1>8, <1>10, <3>1
  <2> QED BY <2>1, <2>2
<1> QED BY <1>9, <1>11

(* The subclasses of a class, itself among them.                                   *)
LEMMA DescendantsOf ==
  ASSUME NEW E, IsFiniteSet(E), NEW c
  PROVE  /\ c \in C!Subclasses(E, c) /\ Closed(E, C!Subclasses(E, c))
         /\ \A K : c \in K /\ Closed(E, K) => C!Subclasses(E, c) \subseteq K
<1> DEFINE T == {e[2] : e \in E}
           f == [e \in E |-> e[2]]
           D == C!Descendants(E, {c})
<1>1. IsFiniteSet(T)
  <2>1. T = {f[e] : e \in E} /\ DOMAIN f = E
    OBVIOUS
  <2> HIDE DEF f, T
  <2> QED BY <2>1, ImageIsFinite
<1> HIDE DEF T
<1>2. IsFiniteSet({c} \cup T)
  <2>1. {c} \cup T = T \cup {c}
    OBVIOUS
  <2> QED BY <1>1, <2>1, FS_AddElement
<1>3. /\ {c} \subseteq D /\ Closed(E, D)
      /\ \A K : {c} \subseteq K /\ Closed(E, K) => D \subseteq K
  <2> HIDE DEF D
  <2> QED BY <1>2, DescendantsAre DEF T, D
<1> QED BY <1>3 DEF C!Subclasses

(* A class is a subclass of itself and of what its superclasses are subclasses of.  *)
LEMMA SubclassesAre ==
  ASSUME NEW E, IsFiniteSet(E)
  PROVE  /\ \A c : C!IsSubclass(E, c, c)
         /\ \A a, b, c : C!IsSubclass(E, a, b) /\ C!IsSubclass(E, b, c) => C!IsSubclass(E, a, c)
BY DescendantsOf DEF C!IsSubclass

(* Between two of the generic classes is no other class.                           *)
LEMMA GenericsAreApart ==
  ASSUME NEW E, IsFiniteSet(E),
         \A e \in E : e[2] # "object" /\ (e[2] \in C!Generics => e[1] = "object"),
         NEW a \in C!Generics, NEW b, NEW c \in C!Generics, C!IsSubclass(E, a, b), C!IsSubclass(E, b, c)
  PROVE  a = b /\ b = c
<1>1. \A x : /\ x \in C!Subclasses(E, x) /\ Closed(E, C!Subclasses(E, x))
             /\ \A K : x \in K /\ Closed(E, K) => C!Subclasses(E, x) \subseteq K
  BY DescendantsOf
<1>2. ASSUME NEW x \in C!Generics, NEW y, C!IsSubclass(E, x, y), x # y PROVE y = "object"
  <2> DEFINE D == C!Subclasses(E, y)
             K == D \ {x, "object"}
  <2> SUFFICES ASSUME y # "object" PROVE FALSE
    OBVIOUS
  <2>1. Closed(E, K)
    BY <1>1 DEF Closed
  <2>2. y \in K
    BY <1>1, <1>2
  <2>3. x \in D
    BY <1>2 DEF C!IsSubclass
  <2> QED BY <1>1, <2>1, <2>2, <2>3
<1>3. ~C!IsSubclass(E, "object", c)
  <2> DEFINE D == C!Subclasses(E, c)
             K == D \ {"object"}
  <2>1. Closed(E, K)
    BY <1>1 DEF Closed
  <2>2. c \in K
    BY <1>1 DEF C!Generics
  <2> QED BY <1>1, <2>1, <2>2 DEF C!IsSubclass
<1>4. b # "object"
  BY <1>3
<1>5. a = b
  BY <1>2, <1>4
<1> QED BY <1>2, <1>5 DEF C!Generics

(* The cases of the check.                                                         *)
LEMMA CasesAre ==
  ASSUME NEW E, NEW maybe \in BOOLEAN, NEW R, Relates(R, E, maybe), NEW l \in ClsTypes, NEW r \in ClsTypes
  PROVE  /\ l.kind = "any" \/ r.kind = "any" => <<l, r>> \in R
         /\ l.kind = "union" /\ r.kind # "any" =>
              /\ maybe => (<<l, r>> \in R <=> \E k \in DOMAIN l.items : <<l.items[k], r>> \in R)
              /\ ~maybe => (<<l, r>> \in R <=> \A k \in DOMAIN l.items : <<l.items[k], r>> \in R)
         /\ l.kind \notin {"any", "union"} /\ r.kind = "union" =>
              (<<l, r>> \in R <=> \E k \in DOMAIN r.items : <<l, r.items[k]>> \in R)
         /\ l.kind \notin {"any", "union"} /\ r.kind \notin {"any", "union"} =>
              (<<l, r>> \in R <=> OneOf(R, l, r) /\ (l.kind = "instance" => C!IsSubclass(E, l.class, r.class)))
<1>1. <<l, r>> \in R <=> AreRelated(R, E, maybe, l, r)
  BY DEF Relates
<1>2. CASE l.kind = "any" \/ r.kind = "any"
  BY <1>1, <1>2 DEF AreRelated
<1>3. CASE l.kind # "any" /\ r.kind # "any"
  BY <1>1, <1>3 DEF AreRelated
<1> QED BY <1>2, <1>3

LEMMA RightUnionIs ==
  ASSUME NEW E, NEW maybe \in BOOLEAN, NEW R, Relates(R, E, maybe), NEW l \in ClsTypes, NEW r \in ClsTypes,
         l.kind \notin {"any", "union"}, r.kind = "union"
  PROVE  <<l, r>> \in R <=> \E k \in DOMAIN r.items : <<l, r.items[k]>> \in R
<1>1. <<l, r>> \in R <=> AreRelated(R, E, maybe, l, r)
  BY DEF Relates
<1> QED BY <1>1 DEF AreRelated

(* A type is a subtype of itself.                                                  *)
LEMMA AlwaysReflexive ==
  ASSUME NEW E, IsFiniteSet(E), NEW R, Relates(R, E, FALSE)
  PROVE  \A t \in ClsTypes : <<t, t>> \in R
<1> DEFINE P == {t \in ClsTypes : <<t, t>> \in R}
<1>1. ASSUME NEW t \in ClsTypes, C!Parts(t) \subseteq P PROVE <<t, t>> \in R
  <2>1. CASE t.kind = "any"
    BY <2>1, CasesAre, Zenon
  <2>2. CASE t.kind = "union"
    <3> SUFFICES ASSUME NEW k \in DOMAIN t.items PROVE <<t.items[k], t>> \in R
      <4>1. t.kind # "any"
        BY <2>2
      <4> QED BY <2>2, <4>1, CasesAre, Zenon
    <3>1. t.items[k] \in ClsTypes /\ t.items[k].kind # "union" /\ <<t.items[k], t.items[k]>> \in R
      BY <1>1, <2>2, PartsAre
    <3>2. CASE t.items[k].kind = "any"
      BY <3>1, <3>2, CasesAre, Zenon
    <3>3. CASE t.items[k].kind # "any"
      <4>1. t.items[k].kind \notin {"any", "union"}
        BY <3>1, <3>3
      <4> QED BY <2>2, <3>1, <4>1, CasesAre, Zenon
    <3> QED BY <3>2, <3>3
  <2>3. CASE t.kind \notin {"any", "union"}
    <3>1. OneOf(R, t, t)
      BY <1>1, PartsAre DEF OneOf
    <3>2. C!IsSubclass(E, t.class, t.class)
      BY SubclassesAre, Zenon
    <3> QED BY <2>3, <3>1, <3>2, CasesAre, Zenon
  <2> QED BY <2>1, <2>2, <2>3
<1> HIDE DEF P
<1>2. C!MadeOf(C!TypeKinds) \subseteq P
  <2>1. \A t \in ClsTypes : t.kind \in C!TypeKinds /\ C!Parts(t) \subseteq P => t \in P
    BY <1>1 DEF P
  <2> QED BY <2>1, MadeOfIs, Zenon
<1> QED BY <1>2, PartsAre DEF P

(* The weaker check accepts what the stronger one accepts.                         *)
LEMMA AlwaysWeaker ==
  ASSUME NEW E, NEW Z, Relates(Z, E, FALSE), NEW W, Relates(W, E, TRUE)
  PROVE  Z \subseteq W
<1> DEFINE Good(a, b) == <<a, b>> \in Z => <<a, b>> \in W
           P == {t \in ClsTypes : \A u \in ClsTypes : Good(t, u) /\ Good(u, t)}
<1>1. \A a, b \in ClsTypes : a.kind = "any" \/ b.kind = "any" => Good(a, b)
  BY CasesAre, Zenon
<1>2. ASSUME NEW a \in ClsTypes, NEW b \in ClsTypes, a.kind = "union",
             \A k \in DOMAIN a.items : Good(a.items[k], b)
      PROVE  Good(a, b)
  <2> SUFFICES ASSUME b.kind # "any", <<a, b>> \in Z PROVE <<a, b>> \in W
    BY <1>1
  <2>1. \A k \in DOMAIN a.items : <<a.items[k], b>> \in Z
    BY <1>2, CasesAre, Zenon
  <2>2. DOMAIN a.items # {}
    BY <1>2, PartsAre
  <2>3. \E k \in DOMAIN a.items : <<a.items[k], b>> \in W
    BY <1>2, <2>1, <2>2
  <2> QED BY <1>2, <2>3, CasesAre, Zenon
<1>3. ASSUME NEW a \in ClsTypes, NEW b \in ClsTypes, a.kind # "union", b.kind = "union",
             \A k \in DOMAIN b.items : Good(a, b.items[k])
      PROVE  Good(a, b)
  <2> SUFFICES ASSUME a.kind # "any", <<a, b>> \in Z PROVE <<a, b>> \in W
    BY <1>1
  <2>1. a.kind \notin {"any", "union"}
    BY <1>3
  <2>2. \E k \in DOMAIN b.items : <<a, b.items[k]>> \in Z
    BY <1>3, <2>1, RightUnionIs
  <2>3. \E k \in DOMAIN b.items : <<a, b.items[k]>> \in W
    BY <1>3, <2>2
  <2> QED BY <1>3, <2>1, <2>3, CasesAre, Zenon
<1>4. ASSUME NEW a \in ClsTypes, NEW b \in ClsTypes, a.kind # "union", b.kind # "union",
             C!Parts(a) \subseteq P \/ C!Parts(b) \subseteq P
      PROVE  Good(a, b)
  <2> SUFFICES ASSUME a.kind # "any", b.kind # "any", <<a, b>> \in Z PROVE <<a, b>> \in W
    BY <1>1
  <2>1. a.kind \notin {"any", "union"} /\ b.kind \notin {"any", "union"}
    BY <1>4
  <2>2. OneOf(Z, a, b) /\ (a.kind = "instance" => C!IsSubclass(E, a.class, b.class))
    BY <2>1, CasesAre, Zenon
  <2>3. ASSUME a.kind \in {"tuple", "instance"}, a.kind = b.kind, Len(a.args) = Len(b.args), NEW k \in DOMAIN a.args
        PROVE  Good(a.args[k], b.args[k]) /\ Good(b.args[k], a.args[k])
    <3>1. DOMAIN a.args = 1 .. Len(a.args) /\ DOMAIN b.args = 1 .. Len(b.args)
      BY <2>3, PartsAre
    <3>2. /\ a.args[k] \in ClsTypes /\ b.args[k] \in ClsTypes
          /\ a.args[k] \in C!Parts(a) /\ b.args[k] \in C!Parts(b)
      BY <2>3, <3>1, PartsAre
    <3> HIDE DEF Good
    <3> QED BY <1>4, <3>2
  <2>4. OneOf(W, a, b)
    BY <2>2, <2>3 DEF OneOf
  <2> QED BY <2>1, <2>2, <2>4, CasesAre, Zenon
<1> HIDE DEF Good
<1>5. ASSUME NEW t \in ClsTypes, C!Parts(t) \subseteq P PROVE t \in P
  <2> SUFFICES ASSUME NEW u \in ClsTypes PROVE Good(t, u) /\ Good(u, t)
    BY DEF P
  <2>1. CASE t.kind # "union"
    <3>1. ASSUME NEW v \in ClsTypes, v.kind # "union" PROVE Good(t, v) /\ Good(v, t)
      BY <1>4, <1>5, <2>1, <3>1
    <3>2. CASE u.kind = "union"
      <4>1. \A k \in DOMAIN u.items : Good(t, u.items[k]) /\ Good(u.items[k], t)
        BY <3>1, <3>2, PartsAre
      <4> QED BY <1>2, <1>3, <2>1, <3>2, <4>1
    <3> QED BY <3>1, <3>2
  <2>2. CASE t.kind = "union"
    <3>1. \A k \in DOMAIN t.items : \A v \in ClsTypes : Good(t.items[k], v) /\ Good(v, t.items[k])
      BY <1>5, <2>2, PartsAre
    <3>2. Good(t, u)
      BY <1>2, <2>2, <3>1
    <3>3. \A v \in ClsTypes : v.kind # "union" => Good(v, t)
      BY <1>3, <2>2, <3>1
    <3>4. CASE u.kind = "union"
      <4>1. \A k \in DOMAIN u.items : Good(u.items[k], t)
        BY <3>3, <3>4, PartsAre
      <4> QED BY <1>2, <3>2, <3>4, <4>1
    <3> QED BY <3>2, <3>3, <3>4
  <2> QED BY <2>1, <2>2
<1>6. ClsTypes \subseteq P
  <2>1. \A t \in ClsTypes : t.kind \in C!TypeKinds /\ C!Parts(t) \subseteq P => t \in P
    BY <1>5
  <2> HIDE DEF P
  <2>2. C!MadeOf(C!TypeKinds) \subseteq P
    BY <2>1, MadeOfIs, Zenon
  <2> QED BY <2>2, PartsAre
<1>7. \A x \in Z : x = <<x[1], x[2]>> /\ x[1] \in ClsTypes /\ x[2] \in ClsTypes
  BY DEF Relates, Pairs
<1> QED BY <1>6, <1>7 DEF P, Good

(* Where there is no Any, subtypes of subtypes are subtypes.                       *)
LEMMA AlwaysTransitive ==
  ASSUME NEW E, IsFiniteSet(E),
         \A e \in E : e[2] # "object" /\ (e[2] \in C!Generics => e[1] = "object"),
         NEW R, Relates(R, E, FALSE), NEW D, D = C!MadeOf(C!TypeKinds \ {"any"})
  PROVE  \A t, u, v \in D : <<t, u>> \in R /\ <<u, v>> \in R => <<t, v>> \in R
<1> DEFINE Good(a, b, c) == <<a, b>> \in R /\ <<b, c>> \in R => <<a, c>> \in R
           P == {t \in D : \A u, v \in D : Good(t, u, v) /\ Good(v, u, t)}
<1>1. \A t \in D : t \in ClsTypes /\ t.kind # "any" /\ C!Parts(t) \subseteq D
  BY MadeOfIs
<1>2. \A t \in D : t.kind = "union" => \A k \in DOMAIN t.items :
         t.items[k] \in D /\ t.items[k].kind # "union" /\ t.items[k] \in C!Parts(t)
  <2> SUFFICES ASSUME NEW t \in D, t.kind = "union", NEW k \in DOMAIN t.items
               PROVE  t.items[k] \in D /\ t.items[k].kind # "union" /\ t.items[k] \in C!Parts(t)
    OBVIOUS
  <2>1. t \in ClsTypes /\ C!Parts(t) \subseteq D
    BY <1>1
  <2>2. t.items[k] \in C!Parts(t) /\ t.items[k].kind # "union"
    BY <2>1, PartsAre
  <2> QED BY <2>1, <2>2
<1>3. ASSUME NEW a \in D, NEW b \in D, a.kind = "union"
      PROVE  <<a, b>> \in R <=> \A k \in DOMAIN a.items : <<a.items[k], b>> \in R
  <2>1. a \in ClsTypes /\ b \in ClsTypes /\ b.kind # "any"
    BY <1>1
  <2> QED BY <1>3, <2>1, CasesAre, Zenon
<1>4. ASSUME NEW a \in D, NEW b \in D, a.kind # "union", b.kind = "union"
      PROVE  <<a, b>> \in R <=> \E k \in DOMAIN b.items : <<a, b.items[k]>> \in R
  <2>1. a \in ClsTypes /\ b \in ClsTypes /\ a.kind \notin {"any", "union"}
    BY <1>1, <1>4
  <2> QED BY <1>4, <2>1, RightUnionIs
<1>5. ASSUME NEW a \in D, NEW b \in D, a.kind # "union", b.kind # "union"
      PROVE  <<a, b>> \in R <=> OneOf(R, a, b) /\ (a.kind = "instance" => C!IsSubclass(E, a.class, b.class))
  <2>1. /\ a \in ClsTypes /\ b \in ClsTypes /\ a.kind \notin {"any", "union"}
        /\ b.kind \notin {"any", "union"}
    BY <1>1, <1>5
  <2> QED BY <2>1, CasesAre, Zenon
<1>6. ASSUME NEW a \in D, NEW b \in D, NEW c \in D, a.kind # "union", b.kind # "union", c.kind # "union",
             C!Parts(a) \subseteq P \/ C!Parts(c) \subseteq P, <<a, b>> \in R, <<b, c>> \in R
      PROVE  <<a, c>> \in R
  <2>1. /\ OneOf(R, a, b) /\ (a.kind = "instance" => C!IsSubclass(E, a.class, b.class))
        /\ OneOf(R, b, c) /\ (b.kind = "instance" => C!IsSubclass(E, b.class, c.class))
    BY <1>5, <1>6
  <2>2. a.kind = b.kind /\ b.kind = c.kind
    BY <2>1 DEF OneOf
  <2>3. a.kind = "instance" => C!IsSubclass(E, a.class, c.class)
    BY <2>1, <2>2, SubclassesAre, Zenon
  <2>4. ASSUME a.kind \in {"tuple", "instance"}, Len(a.args) = Len(b.args), Len(b.args) = Len(c.args),
               NEW k \in DOMAIN a.args
        PROVE  /\ k \in DOMAIN b.args /\ k \in DOMAIN c.args
               /\ Good(a.args[k], b.args[k], c.args[k]) /\ Good(c.args[k], b.args[k], a.args[k])
    <3>1. a \in ClsTypes /\ b \in ClsTypes /\ c \in ClsTypes
          /\ C!Parts(a) \subseteq D /\ C!Parts(b) \subseteq D /\ C!Parts(c) \subseteq D
      BY <1>1
    <3>2. /\ DOMAIN a.args = 1 .. Len(a.args) /\ DOMAIN b.args = 1 .. Len(b.args)
          /\ DOMAIN c.args = 1 .. Len(c.args)
      BY <2>2, <2>4, <3>1, PartsAre
    <3>3. k \in DOMAIN b.args /\ k \in DOMAIN c.args
      BY <2>4, <3>2
    <3>4. /\ a.args[k] \in C!Parts(a) /\ b.args[k] \in C!Parts(b) /\ c.args[k] \in C!Parts(c)
      BY <2>2, <2>4, <3>1, <3>3, PartsAre
    <3>5. a.args[k] \in D /\ b.args[k] \in D /\ c.args[k] \in D
      BY <3>1, <3>4
    <3> HIDE DEF Good
    <3>6. CASE C!Parts(a) \subseteq P
      BY <3>3, <3>4, <3>5, <3>6
    <3>7. CASE C!Parts(c) \subseteq P
      BY <3>3, <3>4, <3>5, <3>7
    <3> QED BY <1>6, <3>6, <3>7
  <2>5. CASE a.kind = "tuple"
    <3>1. Len(a.args) = Len(b.args) /\ Len(b.args) = Len(c.args)
      BY <2>1, <2>2, <2>5 DEF OneOf
    <3>2. \A k \in DOMAIN a.args : <<a.args[k], c.args[k]>> \in R
      BY <2>1, <2>2, <2>4, <2>5, <3>1 DEF OneOf
    <3>3. OneOf(R, a, c)
      BY <2>2, <2>5, <3>1, <3>2 DEF OneOf
    <3> QED BY <1>5, <1>6, <2>5, <3>3
  <2>6. CASE a.kind = "instance"
    <3>1. ASSUME {a.class, c.class} \subseteq C!Generics, Len(a.args) = Len(c.args), NEW k \in DOMAIN a.args
          PROVE  <<a.args[k], c.args[k]>> \in R /\ <<c.args[k], a.args[k]>> \in R
      <4>1. a.class = b.class /\ b.class = c.class
        <5>1. C!IsSubclass(E, a.class, b.class) /\ C!IsSubclass(E, b.class, c.class)
          BY <2>1, <2>2, <2>6
        <5>2. a.class \in C!Generics /\ c.class \in C!Generics
          BY <3>1
        <5> QED BY <5>1, <5>2, GenericsAreApart, Zenon
      <4>2. Len(a.args) = Len(b.args) /\ Len(b.args) = Len(c.args)
        <5>1. a \in ClsTypes /\ b \in ClsTypes /\ c \in ClsTypes
          BY <1>1
        <5> QED BY <2>2, <2>6, <3>1, <4>1, <5>1, PartsAre
      <4>3. /\ k \in DOMAIN b.args
            /\ Good(a.args[k], b.args[k], c.args[k]) /\ Good(c.args[k], b.args[k], a.args[k])
        BY <2>4, <2>6, <3>1, <4>2
      <4>4. {a.class, b.class} \subseteq C!Generics /\ {b.class, c.class} \subseteq C!Generics
        BY <3>1, <4>1
      <4>5. /\ <<a.args[k], b.args[k]>> \in R /\ <<b.args[k], a.args[k]>> \in R
            /\ <<b.args[k], c.args[k]>> \in R /\ <<c.args[k], b.args[k]>> \in R
        BY <2>1, <2>2, <2>6, <3>1, <4>2, <4>3, <4>4 DEF OneOf
      <4> QED BY <4>3, <4>5
    <3>2. OneOf(R, a, c)
      BY <2>2, <2>6, <3>1 DEF OneOf
    <3> QED BY <1>5, <1>6, <2>3, <3>2
  <2>7. CASE a.kind \notin {"tuple", "instance"}
    <3>1. OneOf(R, a, c)
      BY <2>2, <2>7 DEF OneOf
    <3> QED BY <1>5, <1>6, <2>7, <3>1
  <2> QED BY <2>5, <2>6, <2>7
<1>7. \A t \in D : t \in P <=> \A u, v \in D : Good(t, u, v) /\ Good(v, u, t)
  OBVIOUS
<1> HIDE DEF P
<1>8. ASSUME NEW t \in D, C!Parts(t) \subseteq P, t.kind # "union" PROVE t \in P
  <2>1. ASSUME NEW v \in D, v.kind # "union", NEW u \in D PROVE Good(t, u, v) /\ Good(v, u, t)
    <3>1. CASE u.kind # "union"
      BY <1>6, <1>8, <2>1, <3>1
    <3>2. CASE u.kind = "union"
      <4>1. ASSUME <<t, u>> \in R, <<u, v>> \in R PROVE <<t, v>> \in R
        <5>1. PICK k \in DOMAIN u.items : <<t, u.items[k]>> \in R
          BY <1>4, <1>8, <3>2, <4>1
        <5>2. <<u.items[k], v>> \in R
          BY <1>3, <3>2, <4>1
        <5> QED BY <1>2, <1>6, <1>8, <2>1, <3>2, <5>1, <5>2
      <4>2. ASSUME <<v, u>> \in R, <<u, t>> \in R PROVE <<v, t>> \in R
        <5>1. PICK k \in DOMAIN u.items : <<v, u.items[k]>> \in R
          BY <1>4, <2>1, <3>2, <4>2
        <5>2. <<u.items[k], t>> \in R
          BY <1>3, <3>2, <4>2
        <5> QED BY <1>2, <1>6, <1>8, <2>1, <3>2, <5>1, <5>2
      <4> QED BY <4>1, <4>2
    <3> QED BY <3>1, <3>2
  <2>2. ASSUME NEW v \in D, v.kind = "union", NEW u \in D, <<v, u>> \in R, <<u, t>> \in R PROVE <<v, t>> \in R
    <3>1. \A k \in DOMAIN v.items : <<v.items[k], u>> \in R
      BY <1>3, <2>2
    <3>2. \A k \in DOMAIN v.items : <<v.items[k], t>> \in R
      BY <1>2, <2>1, <2>2, <3>1
    <3> QED BY <1>3, <2>2, <3>2
  <2>3. ASSUME NEW v \in D, v.kind = "union", NEW u \in D, u.kind # "union", <<t, u>> \in R, <<u, v>> \in R
        PROVE  <<t, v>> \in R
    <3>1. PICK k \in DOMAIN v.items : <<u, v.items[k]>> \in R
      BY <1>4, <2>3
    <3>2. <<t, v.items[k]>> \in R
      BY <1>2, <2>1, <2>3, <3>1
    <3> QED BY <1>4, <1>8, <2>3, <3>2
  <2>4. ASSUME NEW v \in D, v.kind = "union", NEW u \in D, u.kind = "union", <<t, u>> \in R, <<u, v>> \in R
        PROVE  <<t, v>> \in R
    <3>1. PICK k \in DOMAIN u.items : <<t, u.items[k]>> \in R
      BY <1>4, <1>8, <2>4
    <3>2. <<u.items[k], v>> \in R /\ u.items[k] \in D /\ u.items[k].kind # "union"
      BY <1>2, <1>3, <2>4
    <3> QED BY <2>3, <2>4, <3>1, <3>2
  <2> QED BY <1>7, <2>1, <2>2, <2>3, <2>4
<1>9. ASSUME NEW t \in D, C!Parts(t) \subseteq P, t.kind = "union" PROVE t \in P
  <2>1. \A k \in DOMAIN t.items : t.items[k] \in D /\ \A u, v \in D : Good(t.items[k], u, v) /\ Good(v, u, t.items[k])
    BY <1>2, <1>7, <1>9
  <2>2. ASSUME NEW u \in D, NEW v \in D, <<t, u>> \in R, <<u, v>> \in R PROVE <<t, v>> \in R
    <3>1. \A k \in DOMAIN t.items : <<t.items[k], u>> \in R
      BY <1>3, <1>9, <2>2
    <3>2. \A k \in DOMAIN t.items : <<t.items[k], v>> \in R
      BY <2>1, <2>2, <3>1
    <3> QED BY <1>3, <1>9, <3>2
  <2>3. ASSUME NEW u \in D, NEW v \in D, v.kind # "union", u.kind # "union", <<v, u>> \in R, <<u, t>> \in R
        PROVE  <<v, t>> \in R
    <3>1. PICK k \in DOMAIN t.items : <<u, t.items[k]>> \in R
      BY <1>4, <1>9, <2>3
    <3>2. <<v, t.items[k]>> \in R
      BY <2>1, <2>3, <3>1
    <3> QED BY <1>4, <1>9, <2>3, <3>2
  <2>4. ASSUME NEW u \in D, NEW v \in D, v.kind # "union", <<v, u>> \in R, <<u, t>> \in R PROVE <<v, t>> \in R
    <3>1. CASE u.kind = "union"
      <4>1. PICK k \in DOMAIN u.items : <<v, u.items[k]>> \in R
        BY <1>4, <2>4, <3>1
      <4>2. <<u.items[k], t>> \in R /\ u.items[k] \in D /\ u.items[k].kind # "union"
        BY <1>2, <1>3, <2>4, <3>1
      <4> QED BY <2>3, <2>4, <4>1, <4>2
    <3> QED BY <2>3, <2>4, <3>1
  <2>5. ASSUME NEW u \in D, NEW v \in D, v.kind = "union", <<v, u>> \in R, <<u, t>> \in R PROVE <<v, t>> \in R
    <3>1. \A k \in DOMAIN v.items : <<v.items[k], u>> \in R
      BY <1>3, <2>5
    <3>2. \A k \in DOMAIN v.items : <<v.items[k], t>> \in R
      BY <1>2, <2>4, <2>5, <3>1
    <3> QED BY <1>3, <2>5, <3>2
  <2> QED BY <1>7, <2>2, <2>4, <2>5
<1>10. D \subseteq P
  <2> DEFINE Q == {t \in ClsTypes : t \in D => t \in P}
  <2>1. ASSUME NEW t \in ClsTypes, C!Parts(t) \subseteq Q, t \in D PROVE t \in P
    <3>1. C!Parts(t) \subseteq D
      BY <1>1, <2>1
    <3>2. C!Parts(t) \subseteq P
      BY <2>1, <3>1
    <3> QED BY <1>8, <1>9, <2>1, <3>2
  <2>2. \A t \in ClsTypes : t.kind \in C!TypeKinds \ {"any"} /\ C!Parts(t) \subseteq Q => t \in Q
    BY <2>1
  <2> HIDE DEF Q
  <2>3. D \subseteq Q
    BY <2>2, MadeOfIs, Zenon
  <2> QED BY <2>3 DEF Q
<1> QED BY <1>7, <1>10

(* When the search begins, what is asked of the graph is lawful.                    *)
LEMMA SubtypesLawful ==
  ASSUME ClusterInv, GraphIsRight
  PROVE  C!SubtypesAreLawful
<1> SUFFICES ASSUME phase = "search" PROVE C!SubtypesAreLawful
  BY DEF C!SubtypesAreLawful
<1> DEFINE Z == {p \in Pairs : C!Subtype(edges, FALSE, p[1], p[2])}
           W == {p \in Pairs : C!Subtype(edges, TRUE, p[1], p[2])}
           D == C!MadeOf(C!TypeKinds \ {"any"})
<1>1. world \in DOMAIN ClsWorlds /\ ~Analysing /\ phase # "builtins"
  BY DEF ClusterInv, AnalysisIsRight, Analysing
<1>2. edges \subseteq C!Tower \cup Links(There) /\ IsFiniteSet(edges)
  BY <1>1, KnownAreClosed, Zenon
<1>3. \A c \in There : /\ c \in C!Generics => Bases(c) \subseteq {"object"}
                       /\ c = "object" => Bases(c) = {}
  BY <1>1, WorldIs, Zenon
<1>4. IsFiniteSet(edges)
  BY <1>2
<1>5. \A e \in edges : e[2] # "object" /\ (e[2] \in C!Generics => e[1] = "object")
  <2> SUFFICES ASSUME NEW e \in edges PROVE e[2] # "object" /\ (e[2] \in C!Generics => e[1] = "object")
    OBVIOUS
  <2>1. CASE e \in C!Tower
    BY <2>1 DEF C!Tower, C!Generics
  <2>2. CASE e \in Links(There)
    BY <1>3, <2>2 DEF Links
  <2> QED BY <1>2, <1>3, <2>1, <2>2
<1>6. Relates(Z, edges, FALSE) /\ Relates(W, edges, TRUE)
  BY SubtypesAre
<1>7. \A t, u \in ClsTypes : /\ C!IsSubtype(edges, t, u) <=> <<t, u>> \in Z
                             /\ C!IsMaybeSubtype(edges, t, u) <=> <<t, u>> \in W
  BY DEF Pairs, C!IsSubtype, C!IsMaybeSubtype
<1> HIDE DEF Z, W, D
<1>8. \A t \in ClsTypes : <<t, t>> \in Z
  BY <1>4, <1>6, AlwaysReflexive, Zenon
<1>9. Z \subseteq W
  BY <1>6, AlwaysWeaker, Zenon
<1>10. \A t, u, v \in D : <<t, u>> \in Z /\ <<u, v>> \in Z => <<t, v>> \in Z
  <2>1. D = C!MadeOf(C!TypeKinds \ {"any"})
    BY DEF D
  <2> QED BY <1>4, <1>5, <1>6, <2>1, AlwaysTransitive, Zenon
<1>11. D \subseteq ClsTypes
  BY MadeOfIs DEF D
<1>12. ASSUME NEW above, above = [t \in ClsTypes |-> {u \in ClsTypes : C!IsSubtype(edges, t, u)}],
              NEW t \in ClsTypes
       PROVE  /\ t \in above[t]
              /\ \A u \in above[t] : C!IsMaybeSubtype(edges, t, u)
              /\ t \in D => \A u \in above[t] \cap D : above[u] \cap D \subseteq above[t]
  <2>1. \A a, b \in ClsTypes : b \in above[a] <=> <<a, b>> \in Z
    BY <1>7, <1>12
  <2>2. \A a \in ClsTypes : above[a] \subseteq ClsTypes
    BY <1>12
  <2>3. t \in above[t]
    BY <1>8, <2>1
  <2>4. \A u \in above[t] : C!IsMaybeSubtype(edges, t, u)
    BY <1>7, <1>9, <2>1, <2>2
  <2>5. ASSUME t \in D, NEW u \in above[t] \cap D, NEW v \in above[u] \cap D PROVE v \in above[t]
    BY <1>10, <1>11, <2>1, <2>5
  <2> QED BY <2>3, <2>4, <2>5
<1> QED BY <1>12 DEF C!SubtypesAreLawful, D
--------------------------------------------------------------------------------
(* The theorem.                                                                    *)

TypesInv == component = "cluster" => GraphIsRight /\ PushIsRight

LEMMA ClassesStay ==
  GraphIsRight /\ PushIsRight /\ UNCHANGED cVars => GraphIsRight' /\ PushIsRight'
<1> SUFFICES ASSUME GraphIsRight, PushIsRight, UNCHANGED cVars PROVE GraphIsRight' /\ PushIsRight'
  OBVIOUS
<1>1. UNCHANGED <<world, phase, work, seen, known, edges, attributes, reachIn, reachOut>>
  BY DEF cVars
<1>2. C!World' = C!World /\ There' = There /\ Analysing' = Analysing
  BY <1>1 DEF C!World, There, Analysing
<1>3. \A t : Bases(t)' = Bases(t) /\ C!AttributesOf(t)' = C!AttributesOf(t)
  BY <1>2 DEF C!Class, Bases, C!BasesOf, C!AttributesOf, C!ToSet
<1>4. Links(seen)' = Links(seen)
  BY <1>1, <1>2, <1>3 DEF Links
<1>5. Met' = Met /\ C!ToSet(work)' = C!ToSet(work)
  BY <1>1 DEF Met, C!ToSet
<1>6. (attributes = [t \in Met |-> IF t \in seen THEN C!AttributesOf(t) ELSE {}])'
        <=> attributes = [t \in Met |-> IF t \in seen THEN C!AttributesOf(t) ELSE {}]
  BY <1>1, <1>3, <1>5
<1>7. (known \in Seq(There))' <=> known \in Seq(There)
  BY <1>1, <1>2
<1>8. GraphIsRight'
  BY <1>1, <1>2, <1>3, <1>4, <1>5, <1>6, <1>7 DEF GraphIsRight
<1>9. PushIsRight'
  <2>1. CASE Analysing
    BY <1>2, <2>1 DEF PushIsRight
  <2>2. CASE ~Analysing
    <3>1. phase' = "search" => work = << >>
      BY <1>1, <2>2 DEF PushIsRight
    <3> QED BY <1>1, <2>2, <3>1, PushStays
  <2> QED BY <2>1, <2>2
<1> QED BY <1>8, <1>9

LEMMA TypesNext == ChosenIsRight /\ TypesInv /\ [MCNext]_allVars => TypesInv'
<1> SUFFICES ASSUME ChosenIsRight, TypesInv, [MCNext]_allVars, component' = "cluster"
             PROVE  GraphIsRight' /\ PushIsRight'
  BY DEF TypesInv
<1>1. component = "cluster"
  BY DEF MCNext, ClusterStep, SignaturesStep, MutantsStep, AssertionsStep, allVars
<1>2. ClusterInv /\ GraphIsRight /\ PushIsRight
  BY <1>1 DEF ChosenIsRight, TypesInv
<1>3. CASE ClusterStep
  BY <1>2, <1>3, ClassesNext DEF ClusterStep
<1>4. CASE ~ClusterStep
  <2>1. UNCHANGED cVars
    BY <1>1, <1>4 DEF MCNext, SignaturesStep, MutantsStep, AssertionsStep, allVars
  <2> QED BY <1>2, <2>1, ClassesStay
<1> QED BY <1>3, <1>4

(* Whatever modules are analysed, whatever their hints name and in whatever order    *)
(* classes are met: the graph links the classes that were analysed as they really   *)
(* are, unless one above was skipped, links those that are only named to none, and  *)
(* links no class to one that it does not derive from.  An attribute leads to the   *)
(* topmost of the analysed classes that have it, although it is pushed down along a *)
(* work list that visits classes in any order and repeatedly; and with that graph   *)
(* subtyping is reflexive, transitive where there is no Any, and no stronger when a *)
(* value only may be of a type (TypeSystem.push_attributes_down, is_subtype,        *)
(* is_maybe_subtype).                                                              *)
THEOREM TypesAreAlwaysRight == MCSpec => []TypesAreRight
<1>1. MCInit => TypesInv
  BY ClassesInit DEF MCInit, ClusterIdle, TypesInv
<1>2. ChosenIsRight /\ TypesInv => TypesAreRight
  BY ClassesKnown, SubtypesLawful DEF ChosenIsRight, TypesInv, TypesAreRight
<1> QED BY <1>1, <1>2, AlwaysRight, TypesNext, PTL DEF MCSpec, MCNext
=============================================================================
