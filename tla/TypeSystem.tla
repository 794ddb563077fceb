------------------------------ MODULE TypeSystem ------------------------------
(***************************************************************************)
(* The types of Pynguin (analyses/typesystem.py): what a type hint becomes *)
(* and when a value of one type can be used where another one is asked     *)
(* for.  Classes are names; the graph of subclasses is a set of pairs      *)
(* <<super, sub>>, given by whoever asks.                                  *)
(***************************************************************************)
EXTENDS Integers, Sequences, FiniteSets, SequencesExt

CONSTANT Types      \* all types at hand, with those that they are made of

AnyType == [kind |-> "any"]
NoneT == [kind |-> "none"]
Instance(class, args) == [kind |-> "instance", class |-> class, args |-> args]
Tuple(args) == [kind |-> "tuple", args |-> args, unknown |-> FALSE]
TupleOfAnySize == [kind |-> "tuple", args |-> <<AnyType>>, unknown |-> TRUE]
UnionOf(items) == [kind |-> "union", items |-> items]

\* Classes whose parameters are known.
Generics == {"dict", "list", "set"}
Parameters(class) == IF class = "dict" THEN 2 ELSE 1

\* Classes whose values are made without a call; classes themselves are as well.
PrimitiveClasses == {"int", "str", "bool", "float", "complex", "bytes"}
IsPrimitive(t) == t.kind = "instance" /\ t.class \in PrimitiveClasses \cup {"type"}
IsCollection(t) == t.kind = "tuple" \/ (t.kind = "instance" /\ t.class \in Generics)

\* Missing parameters are Any, excessive ones go.
FixedUp(t) ==
    IF t.class \in Generics
    THEN [t EXCEPT !.args = SubSeq(@ \o <<AnyType, AnyType>>, 1, Parameters(t.class))]
    ELSE t

MakeInstance(class) ==
    CASE class = "tuple" -> TupleOfAnySize
      [] class = "NoneType" -> NoneT
      [] OTHER -> FixedUp(Instance(class, <<>>))

\* What *args and **kwargs are really passed.
WrapVarParam(t, parameterKind) ==
    CASE parameterKind = "*" -> Instance("list", <<t>>)
      [] parameterKind = "**" -> Instance("dict", <<Instance("str", <<>>), t>>)
      [] OTHER -> t
-----------------------------------------------------------------------------
\* What a type is made of, and the types that are made of certain kinds only.
Parts(t) ==
    CASE t.kind = "union" -> ToSet(t.items)
      [] t.kind \in {"tuple", "instance"} -> ToSet(t.args)
      [] OTHER -> {}

TypeKinds == {"any", "none", "instance", "tuple", "union"}
MadeOf(kinds) ==
    LET Made[n \in 0..Cardinality(Types)] ==
          IF n = 0 THEN {}
          ELSE LET before == Made[n - 1]
               IN  {t \in Types : t.kind \in kinds /\ Parts(t) \subseteq before}
    IN  Made[Cardinality(Types)]

\* Types are made of others and of no union directly within a union; parameters
\* are fixed up.
TypesType ==
    /\ IsFiniteSet(Types) /\ MadeOf(TypeKinds) = Types
    /\ \A t \in Types :
         /\ t.kind = "union" => /\ t.items \in Seq(Types) /\ t.items # <<>>
                                /\ \A k \in DOMAIN t.items : t.items[k].kind # "union"
         /\ t.kind \in {"tuple", "instance"} => t.args \in Seq(Types)
         /\ t.kind = "instance" /\ t.class \in Generics => Len(t.args) = Parameters(t.class)

\* Those of a sequence that are in a set.
Among(sequence, set) ==
    FlattenSeq([k \in DOMAIN sequence |-> IF sequence[k] \in set THEN <<sequence[k]>> ELSE <<>>])
-----------------------------------------------------------------------------
(***************************************************************************)
(* Subclasses.                                                             *)
(***************************************************************************)
Descendants(edges, classes) ==
    LET From[found \in SUBSET (classes \cup {e[2] : e \in edges})] ==
          LET more == found \cup {e[2] : e \in {x \in edges : x[1] \in found}}
          IN  IF more = found THEN found ELSE From[more]
    IN  From[classes]

Subclasses(edges, class) == Descendants(edges, {class})
Superclasses(edges, class) == Descendants({<<e[2], e[1]>> : e \in edges}, {class})
IsSubclass(edges, left, right) == left \in Subclasses(edges, right)
TypesOutsideOf(known, edges, classes) == known \ Descendants(edges, classes)
-----------------------------------------------------------------------------
(***************************************************************************)
(* Subtypes.  Of a union each type must be one, or may one be one for the  *)
(* weaker check: the value that is returned may be of that type.           *)
(***************************************************************************)
Subtype(edges, maybe, left, right) ==
    LET Is[p \in Types \X Types] ==
          LET l == p[1]
              r == p[2]
              Pairwise == Len(l.args) = Len(r.args) /\ \A k \in DOMAIN l.args : Is[<<l.args[k], r.args[k]>>]
              Invariant == \A k \in DOMAIN l.args : Is[<<l.args[k], r.args[k]>>] /\ Is[<<r.args[k], l.args[k]>>]
          IN  IF r.kind = "any" \/ l.kind = "any" THEN TRUE
              ELSE IF l.kind = "union"
              THEN IF maybe THEN \E k \in DOMAIN l.items : Is[<<l.items[k], r>>]
                   ELSE \A k \in DOMAIN l.items : Is[<<l.items[k], r>>]
              ELSE IF r.kind = "union" THEN \E k \in DOMAIN r.items : Is[<<l, r.items[k]>>]
              ELSE /\ l.kind = r.kind
                   /\ l.kind = "tuple" => Pairwise
                   /\ l.kind = "instance" =>
                        /\ IsSubclass(edges, l.class, r.class)
                        /\ {l.class, r.class} \subseteq Generics /\ Len(l.args) = Len(r.args) => Invariant
    IN  Is[<<left, right>>]

IsSubtype(edges, left, right) == Subtype(edges, FALSE, left, right)
IsMaybeSubtype(edges, left, right) == Subtype(edges, TRUE, left, right)

(***************************************************************************)
(* What an observed type does to a recorded one; unions are sorted by name *)
(* (here they keep the order in which their types are listed in Types).    *)
(***************************************************************************)
MaxUnion == 5

CONSTANT Order      \* the types, sorted by their names: a sequence
Sorted(types) == UnionOf(SelectSeq(Order, LAMBDA t : t \in types))

AddOrMakeUnion(old, new) ==
    IF old.kind = "union"
    THEN IF Len(old.items) >= MaxUnion \/ new \in ToSet(old.items) THEN old
         ELSE Sorted(ToSet(old.items) \cup {new})
    ELSE IF old \in {AnyType, new} THEN UnionOf(<<new>>)
    ELSE Sorted({old, new})

\* For the statistics: the part of a guess that agrees with an annotation.
PartialMatches(left, right) ==
    LET parts(t) == IF t.kind = "union" THEN ToSet(t.items) ELSE {t}
        base(l, r) == CASE l.kind = "none" /\ r.kind = "none" -> {NoneT}
                        [] l.kind = "tuple" /\ r.kind = "tuple" -> {Tuple(<<>>)}
                        [] l.kind = "instance" /\ r.kind = "instance" ->
                             IF l.class = r.class THEN {Instance(l.class, <<>>)} ELSE {}
                        [] OTHER -> {}
    IN  UNION {base(l, r) : l \in parts(left), r \in parts(right)}
=============================================================================
