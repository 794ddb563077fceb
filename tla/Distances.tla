------------------------------ MODULE Distances ------------------------------
(***************************************************************************)
(* How far a predicate is from either of its branches: the tracer's probes *)
(* in front of a conditional jump (executed_compare_predicate,             *)
(* executed_bool_predicate, executed_exception_match in                    *)
(* testcase/execution.py).  A probe computes two distances, from the same  *)
(* values and operator as the jump that follows it.                        *)
(***************************************************************************)
EXTENDS Integers, Sequences, FiniteSets

CONSTANTS
  Values,      \* the values that predicates are executed with
  Exact        \* integers up to it are floats: 2^53 in the code

Infinite == 1000000

ConstantsType == Exact \in Nat

(***************************************************************************)
(* Python values: a kind, and data of that kind; numbers may be NaN, a     *)
(* sized object is one whose truth value need not follow from its length,  *)
(* an object has nothing but an identity.                                  *)
(***************************************************************************)
Number(n) == [kind |-> "number", of |-> n]
NaN == [kind |-> "nan", of |-> 0]
Text(s) == [kind |-> "string", of |-> s]
SetOf(s) == [kind |-> "set", of |-> s]
List(s) == [kind |-> "list", of |-> s]
Object(n) == [kind |-> "object", of |-> n]
Sized(length, truth) == [kind |-> "sized", of |-> <<length, truth>>]

IsNumeric(v) == v.kind \in {"number", "nan"}

\* What Python's operators give; the order of sets is inclusion.
Equals(v, w) == v.kind = w.kind /\ v.kind # "nan" /\ v.of = w.of

Precedes(s, t) ==
    \E n \in 0 .. Len(t) - 1 :
        /\ n <= Len(s) /\ SubSeq(s, 1, n) = SubSeq(t, 1, n)
        /\ n = Len(s) \/ s[n + 1] < t[n + 1]

Less(v, w) ==
    CASE v.kind = "number" /\ w.kind = "number" -> v.of < w.of
      [] v.kind = "string" -> Precedes(v.of, w.of)
      [] v.kind = "set" -> v.of # w.of /\ v.of \subseteq w.of
      [] OTHER -> FALSE

AtMost(v, w) == Less(v, w) \/ Equals(v, w)

Elements(v) == IF v.kind = "set" THEN v.of ELSE {v.of[i] : i \in DOMAIN v.of}
Identical(v, w) == v.kind = w.kind /\ v.of = w.of
Contains(v, w) == \E e \in Elements(w) : Identical(e, v) \/ Equals(v, e)

IsTrue(v) ==
    CASE v.kind = "number" -> v.of # 0
      [] v.kind \in {"string", "list"} -> v.of # <<>>
      [] v.kind = "set" -> v.of # {}
      [] v.kind = "sized" -> v.of[2]
      [] v.kind \in {"nan", "object"} -> TRUE

Comparable(v, w) ==
    \/ IsNumeric(v) /\ IsNumeric(w)
    \/ v.kind = w.kind /\ v.kind \in {"string", "set"}

\* An integer of any size that a float holds, and float(): the closest of them.  A
\* choice where two are as close (the code takes the even one), never an overflow.
Abs(n) == IF n < 0 THEN -n ELSE n
IsFloat(n) ==
    Abs(n) <= Exact \/ \E k \in 1 .. Abs(n) : Abs(n) <= Exact * 2^k /\ n % 2^k = 0

Float(n) ==
    LET floats == {m \in n - Abs(n) .. n + Abs(n) : IsFloat(m)}
    IN  CHOOSE m \in floats : \A l \in floats : Abs(m - n) <= Abs(l - n)

\* Values that the distances are made for: no NaN among them or in them, no two
\* numbers that are the same as floats only, sets of which one contains the other,
\* objects that are true when they are not empty.
IsPlain(v) ==
    \/ v.kind = "number" /\ v.of \in Int
    \/ v.kind = "string" /\ v.of \in Seq(Int)
    \/ v.kind = "set" /\ IsFiniteSet(v.of)
    \/ v.kind = "list" /\ v.of \in Seq(Elements(v))
    \/ v.kind = "object"
    \/ v.kind = "sized" /\ v.of[1] \in Nat /\ (v.of[2] <=> v.of[1] # 0)

AreOrdinary(values) ==
    /\ \A v \in values :
         IsPlain(v) /\ (v.kind \in {"set", "list"} => \A e \in Elements(v) : IsPlain(e))
    /\ \A v \in values, w \in values :
         /\ v.kind = "number" /\ w.kind = "number" => Float(v.of) # Float(w.of) \/ v.of = w.of
         /\ v.kind = "set" /\ w.kind = "set" => v.of \subseteq w.of \/ w.of \subseteq v.of
-----------------------------------------------------------------------------
(***************************************************************************)
(* Distances.                                                              *)
(***************************************************************************)
Smallest(S) == CHOOSE n \in S : \A m \in S : n <= m

\* From the distances of a prefix of s to the prefixes of t, those of the next prefix.
NextRow(row, i, s, t) ==
    LET Cell[j \in 0 .. Len(t)] ==
          IF j = 0 THEN i
          ELSE Smallest({row[j] + 1, Cell[j - 1] + 1,
                         row[j - 1] + IF s[i] = t[j] THEN 0 ELSE 1})
    IN  Cell

Levenshtein(s, t) ==
    LET Row[i \in 0 .. Len(s)] ==
          IF i = 0 THEN [j \in 0 .. Len(t) |-> j] ELSE NextRow(Row[i - 1], i, s, t)
    IN  Row[Len(s)][Len(t)]

\* Arithmetic on NaN gives NaN, which is neither zero nor at least zero.  Rounding a
\* distance keeps it zero or positive, and is left out.
NotANumber == -1

Eq(v, w) ==
    CASE Equals(v, w) -> 0
      [] ~Equals(v, w) /\ IsNumeric(v) /\ IsNumeric(w) ->
           IF v.kind = "nan" \/ w.kind = "nan" THEN NotANumber ELSE Abs(v.of - w.of)
      [] ~Equals(v, w) /\ v.kind = "string" /\ w.kind = "string" -> Levenshtein(v.of, w.of)
      [] OTHER -> Infinite

Neq(v, w) == IF Equals(v, w) THEN 1 ELSE 0

\* Both values become floats, and are subtracted then; one is added for "<".
Beyond(v, w, more) ==
    IF ~(IsNumeric(v) /\ IsNumeric(w)) THEN Infinite
    ELSE IF "nan" \in {v.kind, w.kind} THEN NotANumber
    ELSE Float(v.of) - Float(w.of) + more

Lt(v, w) == IF Less(v, w) THEN 0 ELSE Beyond(v, w, 1)
Le(v, w) == IF AtMost(v, w) THEN 0 ELSE Beyond(v, w, 0)

In(v, w) == IF Contains(v, w) THEN 0 ELSE Smallest({Eq(v, e) : e \in Elements(w)} \cup {Infinite})
Nin(v, w) == IF Contains(v, w) THEN 1 ELSE 0
Is(v, w) == IF Identical(v, w) THEN 0 ELSE 1
Isn(v, w) == IF Identical(v, w) THEN 1 ELSE 0
-----------------------------------------------------------------------------
(***************************************************************************)
(* The probes: the distances to the true and the false branch, and whether *)
(* the true branch is taken.                                               *)
(***************************************************************************)
Operators == {"==", "!=", "<", "<=", ">", ">=", "in", "not_in", "is", "is_not"}

\* Operands for which the operator does not raise.
Accepts(op, v, w) ==
    CASE op \in {"==", "!=", "is", "is_not"} -> TRUE
      [] op \in {"<", "<=", ">", ">="} -> Comparable(v, w)
      [] op \in {"in", "not_in"} -> w.kind \in {"list", "set"}

\* Slip: strict and weak comparisons are not exchanged for the other branch.
CompareDistancesStrict(op, v, w) ==
    CASE op = "==" -> <<Eq(v, w), Neq(v, w)>>
      [] op = "!=" -> <<Neq(v, w), Eq(v, w)>>
      [] op = "<" -> <<Lt(v, w), Lt(w, v)>>
      [] op = "<=" -> <<Le(v, w), Lt(w, v)>>
      [] op = ">" -> <<Lt(w, v), Le(v, w)>>
      [] op = ">=" -> <<Le(w, v), Lt(v, w)>>
      [] op = "in" -> <<In(v, w), Nin(v, w)>>
      [] op = "not_in" -> <<Nin(v, w), In(v, w)>>
      [] op = "is" -> <<Is(v, w), Isn(v, w)>>
      [] op = "is_not" -> <<Isn(v, w), Is(v, w)>>

CompareDistances(op, v, w) ==
    CASE op = "==" -> <<Eq(v, w), Neq(v, w)>>
      [] op = "!=" -> <<Neq(v, w), Eq(v, w)>>
      [] op = "<" -> <<Lt(v, w), Le(w, v)>>
      [] op = "<=" -> <<Le(v, w), Lt(w, v)>>
      [] op = ">" -> <<Lt(w, v), Le(v, w)>>
      [] op = ">=" -> <<Le(w, v), Lt(v, w)>>
      [] op = "in" -> <<In(v, w), Nin(v, w)>>
      [] op = "not_in" -> <<Nin(v, w), In(v, w)>>
      [] op = "is" -> <<Is(v, w), Isn(v, w)>>
      [] op = "is_not" -> <<Isn(v, w), Is(v, w)>>

Compares(op, v, w) ==
    CASE op = "==" -> Equals(v, w)
      [] op = "!=" -> ~Equals(v, w)
      [] op = "<" -> Less(v, w)
      [] op = "<=" -> AtMost(v, w)
      [] op = ">" -> Less(w, v)
      [] op = ">=" -> AtMost(w, v)
      [] op = "in" -> Contains(v, w)
      [] op = "not_in" -> ~Contains(v, w)
      [] op = "is" -> Identical(v, w)
      [] op = "is_not" -> ~Identical(v, w)

BoolDistances(v) ==
    IF ~IsTrue(v) THEN <<1, 0>>
    ELSE CASE v.kind = "sized" -> <<0, v.of[1]>>
           [] v.kind \in {"string", "list"} -> <<0, Len(v.of)>>
           [] v.kind = "set" -> <<0, Cardinality(v.of)>>
           [] v.kind = "number" -> <<0, Abs(v.of)>>
           [] v.kind = "nan" -> <<0, NotANumber>>
           [] v.kind = "object" -> <<0, Infinite>>

ExceptionDistances(matches) == IF matches THEN <<0, 1>> ELSE <<1, 0>>
-----------------------------------------------------------------------------
VARIABLES
  distances,   \* what the last probe computed, for the true and the false branch
  jumps        \* which branch the jump after it takes

vars == <<distances, jumps>>

Init == distances = ExceptionDistances(TRUE) /\ jumps = TRUE

ComparePredicate ==
  \E op \in Operators, v \in Values, w \in Values :
    /\ Accepts(op, v, w)
    /\ distances' = CompareDistances(op, v, w)
    /\ jumps' = Compares(op, v, w)

BoolPredicate ==
  \E v \in Values : distances' = BoolDistances(v) /\ jumps' = IsTrue(v)

ExceptionMatch ==
  \E matches \in BOOLEAN : distances' = ExceptionDistances(matches) /\ jumps' = matches

Next == ComparePredicate \/ BoolPredicate \/ ExceptionMatch

Spec == Init /\ [][Next]_vars
-----------------------------------------------------------------------------
\* The distance is zero for the branch that the jump takes and positive for the
\* other one: fitness values and covered goals are read off it.
ZeroMeansTaken ==
    /\ distances[1] >= 0 /\ distances[2] >= 0
    /\ distances[1] = 0 <=> jumps
    /\ distances[2] = 0 <=> ~jumps

\* "Exactly one distance must be 0.0, i.e., one branch must be taken."
\* (the assertion in _update_metrics, which raises into the code under test).
ExactlyOneIsZero == (distances[1] = 0) # (distances[2] = 0)
=============================================================================
